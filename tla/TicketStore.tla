---------------------------- MODULE TicketStore ----------------------------
(***************************************************************************)
(* The state one event's tickets are kept in, and the operations the       *)
(* services call on it: the Redis keys of RedisService (seat counter, wait *)
(* queue, active users, expiration locks), the Postgres tables             *)
(* queue_entries and reservations, the BullMQ queue                        *)
(* 'reservation-expiration', and what every asynchronous handler holds in  *)
(* its own variables.  All Redis keys carry the event id, so one event is  *)
(* one instance of this module.                                            *)
(*                                                                         *)
(* An actor is one activation that may interleave with others: a tick of   *)
(* the cron, a slot of the BullMQ worker, an HTTP request.  pc[a] names    *)
(* the awaited call the actor performs next, and each awaited call is one  *)
(* atomic step: Redis and Postgres execute a command atomically and the    *)
(* JavaScript between two awaits runs without interruption.                *)
(*                                                                         *)
(* A definition D_Mistake is D with a plausible mistake in it.  It is not  *)
(* part of the model: put in the place of D it shows that a property is    *)
(* able to fail.                                                           *)
(***************************************************************************)
EXTENDS Integers, FiniteSets

CONSTANTS
    Users,         \* user ids, as numbers so that ZSET ties have an order
    Reservations,  \* reservation ids, handed out in increasing order
    Crons,         \* overlapping activations of handlePromotionCheck
    Workers,       \* slots of the BullMQ worker
    Joiners,       \* concurrent POST /queue/join requests
    Payers,        \* concurrent POST /reservations/:id/pay requests
    Instances,     \* the processes, each a set of actors it hosts
    TotalSeats,    \* event.totalSeats
    MaxActive,     \* MAX_ACTIVE_USERS
    MaxAttempts,   \* attempts of a job before BullMQ gives up
    Faults,        \* the calls that may throw, and the other mishaps allowed
    MaxMishaps     \* bound: mishaps in one behaviour

None == 0
Promoters == Crons \cup Workers
Actors == Promoters \cup Joiners \cup Payers

ASSUME IdAssumption == /\ Users \subseteq Nat \ {None}
                       /\ Reservations \subseteq Nat \ {None}
                       /\ IsFiniteSet(Users) /\ IsFiniteSet(Reservations)
ASSUME ActorAssumption == /\ IsFiniteSet(Actors)
                          /\ None \notin Workers
                          /\ Crons \cap Workers = {}
                          /\ Promoters \cap (Joiners \cup Payers) = {}
                          /\ Joiners \cap Payers = {}
                          /\ Instances \subseteq SUBSET Actors
ASSUME BoundAssumption == /\ TotalSeats \in Nat
                          /\ MaxActive \in Nat
                          /\ MaxAttempts \in Nat \ {0}
                          /\ MaxMishaps \in Nat

VARIABLES
    seats,        \* remainingSeats:{event}; a missing key counts as 0
    score,        \* queue:{event}: the score of each member, 0 when absent
    stamp,        \* the latest Date.now() used as a score
    activeKey,    \* active:{event}:{user}: the reservation it was set for
    activeCount,  \* activeCount:{event}
    lock,         \* reservationExpired:{reservation}
    entry,        \* queue_entries.status of each user
    status,       \* reservations.status
    owner,        \* reservations.userId
    jobs,         \* the BullMQ job expire-{reservation}
    lapsed,       \* the reservations whose expiresAt has passed
    sales,        \* where now is in the sales window
    provisioned,  \* whether EventsService.create has set the seat counter
    mishaps,      \* failures so far
    pc,           \* the awaited call an actor performs next
    slots,        \* promoteUsers: iterations left
    user,         \* the user an actor is handling
    res,          \* the reservation an actor is handling
    job,          \* the job a worker is processing
    credited      \* history: reservations whose seat went back to the counter

queue == <<score, stamp>>
active == <<activeKey, activeCount>>
cache == <<queue, active, lock>>
tables == <<entry, status, owner>>
world == <<lapsed, sales, provisioned, mishaps>>
locals == <<slots, user, res, job>>
vars == <<seats, cache, tables, jobs, world, pc, locals, credited>>

EntryStatuses == {"absent", "WAITING", "ACTIVE", "DONE", "EXPIRED"}
ReservationStatuses == {"absent", "PENDING_PAYMENT", "PAID", "EXPIRED"}
LockStates == {"free", "set", "expiring"}
JobStates == {"none", "delayed", "active", "completed", "failed"}
Jobs == [state : JobStates, attempts : Nat,
         stalled : BOOLEAN, holder : Workers \cup {None}]
NoJob == [state |-> "none", attempts |-> 0, stalled |-> FALSE, holder |-> None]

-----------------------------------------------------------------------------
(* The wait queue: a ZSET ordered by score, ties by member.                *)

Queued == {u \in Users : score[u] # 0}

Before(u, v) == \/ score[u] < score[v]
                \/ score[u] = score[v] /\ u < v

IsNext_Latest(u) == u \in Queued /\ \A v \in Queued \ {u} : Before(v, u)

\* ZRANGE queue 0 0: it reads the head and leaves it in the queue
IsNext(u) == u \in Queued /\ \A v \in Queued \ {u} : Before(u, v)

\* getQueuePosition: ZRANK + 1, None for a user who is not queued
Position(u) == IF u \in Queued THEN Cardinality({v \in Queued : Before(v, u)}) + 1
                               ELSE None

\* ZADD queue NX now u
ZAdd(u, now) ==
    IF u \in Queued THEN UNCHANGED <<score, stamp>>
                    ELSE score' = [score EXCEPT ![u] = now] /\ stamp' = now

\* ZREM queue u
ZRem(u) == score' = [score EXCEPT ![u] = 0]

-----------------------------------------------------------------------------
(* The tables.  An UPDATE that matches no row changes nothing.             *)

UpdateEntry(u, s) ==
    entry' = IF entry[u] = "absent" THEN entry ELSE [entry EXCEPT ![u] = s]

Rows == {r \in Reservations : status[r] # "absent"}
Pending == {r \in Reservations : status[r] = "PENDING_PAYMENT"}
Paid == {r \in Reservations : status[r] = "PAID"}

\* the id the next INSERT into reservations gets
IsFresh(r) ==
    r \in Reservations \ Rows /\ \A s \in Reservations \ Rows : r <= s

-----------------------------------------------------------------------------
(* The actors.                                                             *)

Goto(a, call) == pc' = [pc EXCEPT ![a] = call]

\* the awaited call is executed and the actor goes on to the next one
Await(a, call, next) == pc[a] = call /\ Goto(a, next)

\* the job of a worker is taken from it when its lock is lost (a stall)
Holds(w) == job[w] # None /\ jobs[job[w]].holder = w

\* the processor returns: BullMQ completes the job if the worker still holds it
CompleteJob(a) ==
    jobs' = IF a \in Workers /\ Holds(a)
            THEN [jobs EXCEPT ![job[a]] =
                    [@ EXCEPT !.state = "completed", !.holder = None]]
            ELSE jobs

Forget(a) == /\ pc' = [pc EXCEPT ![a] = "idle"]
             /\ slots' = [slots EXCEPT ![a] = 0]
             /\ user' = [user EXCEPT ![a] = None]
             /\ res' = [res EXCEPT ![a] = None]
             /\ job' = [job EXCEPT ![a] = None]

\* the handler returns to its caller
Return(a) == Forget(a) /\ CompleteJob(a)

Mishap(kind) == /\ kind \in Faults
                /\ mishaps < MaxMishaps
                /\ mishaps' = mishaps + 1
=============================================================================
