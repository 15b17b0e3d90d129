-------------------------- MODULE ReservationExpiry --------------------------
(***************************************************************************)
(* The delayed job expire-{reservation}: BullMQ hands it to a worker slot  *)
(* once the delay is over, ReservationExpirationProcessor.process calls    *)
(* ReservationsService.expireReservation and, if that expired the          *)
(* reservation, triggers a promotion before the job completes.  BullMQ     *)
(* retries a job whose processor threw and redelivers one whose worker     *)
(* stopped renewing its lock.                                              *)
(***************************************************************************)
EXTENDS TicketStore

ExpiryCalls == {"findReservation", "setnx", "expireLock", "incrementSeats",
                "markExpired", "expireEntry", "delActive", "decrActiveCount"}

\* the delay equals the reservation's TTL and starts later, so the job runs
\* only after expiresAt
TakeJob(w) ==
    /\ Await(w, "idle", "findReservation")
    /\ \E r \in lapsed :
         /\ jobs[r].state = "delayed"
         /\ jobs' = [jobs EXCEPT ![r] = [@ EXCEPT !.state = "active", !.holder = w]]
         /\ job' = [job EXCEPT ![w] = r]
         /\ res' = [res EXCEPT ![w] = r]
    /\ UNCHANGED <<seats, cache, tables, world, slots, user, credited>>

\* 'not_pending' skips the expiration and the job completes
FindReservation(w) ==
    /\ pc[w] = "findReservation"
    /\ \/ /\ status[res[w]] = "PENDING_PAYMENT"
          /\ user' = [user EXCEPT ![w] = owner[res[w]]]
          /\ Goto(w, "setnx")
          /\ UNCHANGED <<jobs, slots, res, job>>
       \/ /\ status[res[w]] # "PENDING_PAYMENT"
          /\ Return(w)
    /\ UNCHANGED <<seats, cache, tables, world, credited>>

SetLock_NotExclusive(w) ==
    /\ Await(w, "setnx", "expireLock")
    /\ lock' = [lock EXCEPT ![res[w]] = "set"]
    /\ UNCHANGED <<seats, queue, active, tables, jobs, world, locals,
                   credited>>

\* setReservationExpired: SETNX; 'already_processed' completes the job
SetLock(w) ==
    /\ pc[w] = "setnx"
    /\ \/ /\ lock[res[w]] = "free"
          /\ lock' = [lock EXCEPT ![res[w]] = "set"]
          /\ Goto(w, "expireLock")
          /\ UNCHANGED <<jobs, locals>>
       \/ /\ lock[res[w]] # "free"
          /\ Return(w)
          /\ UNCHANGED lock
    /\ UNCHANGED <<seats, queue, active, tables, world, credited>>

\* setReservationExpired: EXPIRE 3600
ExpireLock(w) ==
    /\ Await(w, "expireLock", "incrementSeats")
    /\ lock' = [lock EXCEPT ![res[w]] = "expiring"]
    /\ UNCHANGED <<seats, queue, active, tables, jobs, world, locals,
                   credited>>

IncrementSeats_Skipped(w) ==
    /\ Await(w, "incrementSeats", "markExpired")
    /\ credited' = credited \cup {res[w]}
    /\ UNCHANGED <<seats, cache, tables, jobs, world, locals>>

IncrementSeats(w) ==
    /\ Await(w, "incrementSeats", "markExpired")
    /\ seats' = seats + 1
    /\ credited' = credited \cup {res[w]}
    /\ UNCHANGED <<cache, tables, jobs, world, locals>>

\* the update is by id only: it does not look at the status the row has now
MarkExpired(w) ==
    /\ Await(w, "markExpired", "expireEntry")
    /\ status' = [status EXCEPT ![res[w]] = "EXPIRED"]
    /\ UNCHANGED <<seats, cache, entry, owner, jobs, world, locals, credited>>

ExpireEntry(w) ==
    /\ Await(w, "expireEntry", "delActive")
    /\ UpdateEntry(user[w], "EXPIRED")
    /\ UNCHANGED <<seats, cache, status, owner, jobs, world, locals, credited>>

\* triggerPromotionOnSlotAvailable, inside the same job
TriggerPromotion(w) ==
    /\ Goto(w, "getActiveCount")
    /\ user' = [user EXCEPT ![w] = None]
    /\ res' = [res EXCEPT ![w] = None]
    /\ UNCHANGED <<slots, job, jobs>>

DelActive_DecrAlways(w) ==
    /\ Await(w, "delActive", "decrActiveCount")
    /\ activeKey' = [activeKey EXCEPT ![user[w]] = None]
    /\ UNCHANGED <<seats, queue, activeCount, lock, tables, jobs, world,
                   locals, credited>>

\* removeActiveUser: DEL tells whether the key still existed; only then is
\* the counter decremented
DelActive(w) ==
    /\ pc[w] = "delActive"
    /\ activeKey' = [activeKey EXCEPT ![user[w]] = None]
    /\ \/ /\ activeKey[user[w]] # None
          /\ Goto(w, "decrActiveCount")
          /\ UNCHANGED <<jobs, locals>>
       \/ /\ activeKey[user[w]] = None
          /\ TriggerPromotion(w)
    /\ UNCHANGED <<seats, queue, activeCount, lock, tables, world, credited>>

DecrActiveCount(w) ==
    /\ pc[w] = "decrActiveCount"
    /\ activeCount' = activeCount - 1
    /\ TriggerPromotion(w)
    /\ UNCHANGED <<seats, queue, activeKey, lock, tables, world, credited>>

-----------------------------------------------------------------------------
(* What BullMQ does with a job that did not complete.                      *)

FailedJob_NoRetry(j) == [j EXCEPT !.state = "failed", !.holder = None]

\* attempts: 3 with backoff, then the job stays in the failed set
FailedJob(j) ==
    [j EXCEPT !.state = IF j.attempts + 1 < MaxAttempts THEN "delayed" ELSE "failed",
              !.attempts = j.attempts + 1,
              !.holder = None]

\* a call of expireReservation rejects before taking effect; process rethrows
ExpiryRejects(w) ==
    /\ pc[w] \in ExpiryCalls
    /\ jobs' = IF Holds(w) THEN [jobs EXCEPT ![job[w]] = FailedJob(@)] ELSE jobs
    /\ Forget(w)
    /\ UNCHANGED <<seats, cache, tables, lapsed, sales, provisioned, credited>>

ExpiryThrows(w) == Mishap(pc[w]) /\ ExpiryRejects(w)

\* no live worker is processing r any more
Abandoned(r) == /\ jobs[r].state = "active"
                /\ job[jobs[r].holder] # r

\* the stalled check: the first time the job is waiting again, the second
\* time it fails (maxStalledCount 1)
Redeliver(r) ==
    jobs' = [jobs EXCEPT ![r] =
              [@ EXCEPT !.state = IF jobs[r].stalled THEN "failed" ELSE "delayed",
                        !.stalled = TRUE, !.holder = None]]

\* the worker died
StallAbandoned(r) ==
    /\ Abandoned(r)
    /\ Redeliver(r)
    /\ UNCHANGED <<seats, cache, tables, world, pc, locals, credited>>

\* the worker is alive but did not renew the lock in time: it goes on
StallRunning(r) ==
    /\ jobs[r].state = "active"
    /\ ~Abandoned(r)
    /\ Mishap("stall")
    /\ Redeliver(r)
    /\ UNCHANGED <<seats, cache, tables, lapsed, sales, provisioned, pc,
                   locals, credited>>

ExpiryStep(w) ==
    \/ FindReservation(w) \/ SetLock(w) \/ ExpireLock(w) \/ IncrementSeats(w)
    \/ MarkExpired(w) \/ ExpireEntry(w) \/ DelActive(w) \/ DecrActiveCount(w)
=============================================================================
