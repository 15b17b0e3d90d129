------------------------------ MODULE JobProofs ------------------------------
(***************************************************************************)
(* Proofs about the expiration jobs.  An unpaid reservation that nobody    *)
(* watches keeps its seat for ever.  A job can be lost in many ways: its   *)
(* retries run out, BullMQ gives it up after the second stall, or a worker *)
(* finds the lock taken and completes it for somebody else.  None of them  *)
(* leaves a reservation unwatched under Watchful; what is violated without *)
(* it is in the findings and in the README.                                *)
(***************************************************************************)
EXTENDS TicketQueueProofs

\* No step between an INSERT and the job, or between SETNX and the update of
\* the row, fails; the failures do not use up the attempts of a job, nor do two
\* stalls and a failure meet in one job.
Watchful ==
    /\ Faults \cap {"crash", "addJob", "expireLock", "incrementSeats", "markExpired"} = {}
    /\ MaxMishaps < MaxAttempts
    /\ \/ "stall" \notin Faults
       \/ Faults \cap {"findReservation", "setnx"} = {}
       \/ MaxMishaps <= 2

\* the calls of a worker that owns the lock and has not marked the row
LockingCalls == {"expireLock", "incrementSeats", "markExpired"}
Locking(w, r) == res[w] = r /\ pc[w] \in LockingCalls
IsLocking(r) == \E w \in Workers : Locking(w, r)

\* who watches r: the promoter that reserved it, its job, the worker that has
\* the job, the worker that has the lock, or one that BullMQ has given up
InHand(r) == /\ jobs[r].state = "active"
             /\ jobs[r].holder \in Workers
             /\ job[jobs[r].holder] = r
             /\ Expiring(jobs[r].holder, r)
GivenUp(r) == /\ jobs[r].state = "failed"
              /\ "stall" \in Faults /\ mishaps >= 2
              /\ \E w \in Workers : Expiring(w, r)
Watched(r) == \/ \E a \in Promoters : Scheduling(a, r)
              \/ jobs[r].state = "delayed"
              \/ InHand(r)
              \/ IsLocking(r)
              \/ GivenUp(r)

JobOK(r) ==
    /\ jobs[r].holder # None => jobs[r].state = "active"
    /\ jobs[r].attempts <= mishaps
    /\ jobs[r].stalled => jobs[r].attempts < mishaps
    /\ lock[r] # "free" => r \in Rows
    /\ r \in Pending => /\ Watched(r)
                        /\ lock[r] # "free" => IsLocking(r)

JobInv == \A r \in Reservations : JobOK(r)

\* no job is abandoned: its worker still has it, and an idle worker has none
HandInv == /\ \A w \in Workers : pc[w] = "idle" => job[w] = None
           /\ \A r \in Reservations :
                 jobs[r].state = "active" =>
                    jobs[r].holder \in Workers /\ job[jobs[r].holder] = r

\* the other actors stay where they are and keep their reservation and job
OthersWork(a) == \A b \in Actors \ {a} :
                    pc'[b] = pc[b] /\ res'[b] = res[b] /\ job'[b] = job[b]

-----------------------------------------------------------------------------
(* Jobs in hand.                                                           *)

\* A step of one handler that makes no job active, keeps its own and does not
\* become idle.
LEMMA HandKept ==
    ASSUME TypeInv, HandInv, NEW a \in Actors, OthersWork(a), job'[a] = job[a],
           a \in Workers => pc'[a] # "idle",
           \A r \in Reservations : jobs'[r] = jobs[r] \/ jobs'[r].state # "active"
    PROVE  HandInv'
<1>1. Workers \subseteq Actors
  BY DEF Actors, Promoters
<1> QED
  BY <1>1 DEF HandInv, OthersWork

\* Jobs that are completed, failed or redelivered are not active.
LEMMA NotActive ==
    ASSUME NEW j \in Jobs
    PROVE  /\ [j EXCEPT !.state = "completed", !.holder = None].state # "active"
           /\ FailedJob(j).state # "active"
           /\ [j EXCEPT !.state = IF j.stalled THEN "failed" ELSE "delayed",
                        !.stalled = TRUE, !.holder = None].state # "active"
<1>1. [j EXCEPT !.state = "completed", !.holder = None].state = "completed"
  BY DEF Jobs
<1>2. FailedJob(j).state \in {"delayed", "failed"}
  BY DEF Jobs, FailedJob
<1>3. [j EXCEPT !.state = IF j.stalled THEN "failed" ELSE "delayed",
               !.stalled = TRUE, !.holder = None].state \in {"failed", "delayed"}
  BY DEF Jobs
<1> QED
  BY <1>1, <1>2, <1>3

\* A handler that returns completes the job it holds.
LEMMA HandReturned ==
    ASSUME TypeInv, HandInv, NEW a \in Actors, Forget(a),
           \/ CompleteJob(a)
           \/ jobs' = IF Holds(a) THEN [jobs EXCEPT ![job[a]] = FailedJob(@)] ELSE jobs
    PROVE  HandInv'
<1>1. /\ Workers \subseteq Actors /\ None \notin Workers /\ None \notin Reservations
      /\ pc \in [Actors -> Calls] /\ job \in [Actors -> Reservations \cup {None}]
      /\ jobs \in [Reservations -> Jobs]
  BY ActorAssumption, IdAssumption DEF Actors, Promoters, TypeInv, ControlOK, LocalsOK
<1>2. /\ pc'[a] = "idle" /\ job'[a] = None
      /\ \A b \in Actors \ {a} : pc'[b] = pc[b] /\ job'[b] = job[b]
  BY <1>1 DEF Forget
<1>3. ASSUME NEW r \in Reservations, jobs'[r].state = "active"
      PROVE  jobs'[r] = jobs[r] /\ jobs[r].holder # a
  <2>1. CASE jobs' = jobs
    <3>1. jobs[r].holder \in Workers /\ job[jobs[r].holder] = r
      BY <1>3, <2>1 DEF HandInv
    <3>2. jobs[r].holder # a
      <4>1. ASSUME jobs[r].holder = a PROVE FALSE
        <5>1. a \in Workers /\ Holds(a) /\ job[a] = r
          BY <1>1, <3>1, <4>1 DEF Holds
        <5>2. \/ jobs'[r] = [jobs[r] EXCEPT !.state = "completed", !.holder = None]
              \/ jobs'[r] = FailedJob(jobs[r])
          BY <1>1, <5>1 DEF CompleteJob
        <5> QED
          BY <1>1, <1>3, <5>2, NotActive
      <4> QED
        BY <4>1
    <3> QED
      BY <2>1, <3>2
  <2>2. CASE jobs' # jobs
    <3>1. Holds(a) /\ job[a] \in Reservations
      BY <1>1, <2>2 DEF Holds, CompleteJob
    <3>2. jobs'[job[a]].state # "active"
      <4>1. \/ jobs'[job[a]] = [jobs[job[a]] EXCEPT !.state = "completed", !.holder = None]
            \/ jobs'[job[a]] = FailedJob(jobs[job[a]])
        BY <1>1, <2>2, <3>1 DEF CompleteJob
      <4> QED
        BY <1>1, <3>1, <4>1, NotActive
    <3>3. r # job[a] /\ jobs'[r] = jobs[r]
      BY <1>1, <1>3, <3>1, <3>2 DEF CompleteJob
    <3>4. jobs[r].holder # a
      BY <1>3, <3>3 DEF HandInv
    <3> QED
      BY <3>3, <3>4
  <2> QED
    BY <2>1, <2>2
<1> QED
  BY <1>1, <1>2, <1>3 DEF HandInv

\* A promotion keeps the job of its worker until it returns.
LEMMA PromotionHand ==
    ASSUME TypeInv, HandInv, NEW a \in Promoters,
           StartCron(a) \/ PromotionStep(a) \/ PromotionThrows(a)
    PROVE  HandInv'
<1> USE DEF StartCron, PromotionStep, PromotionThrows, PromotionRejects, GetActiveCount,
            GetNextInQueue, DecrementSeats, SaveReservation, AddJob, SetActive,
            RemoveFromQueue, SetexActive, IncrActiveCount, UndoSeat, RestoreSeat,
            MarkSoldOut, RemoveSoldOut, Await
<1>1. /\ a \in Actors /\ pc \in [Actors -> Calls]
      /\ res \in [Actors -> Reservations \cup {None}]
      /\ jobs \in [Reservations -> Jobs]
  BY DEF Actors, TypeInv, ControlOK, LocalsOK
<1>2. CASE Return(a)
  BY <1>1, <1>2, HandReturned DEF Return
<1>3. CASE ~Return(a)
  <2>1. OthersWork(a) /\ job'[a] = job[a] /\ pc'[a] # "idle"
    BY <1>1, <1>3 DEF Loop, Goto, OthersWork, locals
  <2>2. \A r \in Reservations : jobs'[r] = jobs[r] \/ jobs'[r].state # "active"
    BY <1>1, <1>3 DEF Loop, NoJob
  <2> QED
    BY <1>1, <2>1, <2>2, HandKept
<1> QED
  BY <1>2, <1>3

\* An expiration has the job it took until it returns or fails.
LEMMA ExpiryHand ==
    ASSUME TypeInv, HandInv, NEW w \in Workers,
           TakeJob(w) \/ ExpiryStep(w) \/ ExpiryThrows(w)
    PROVE  HandInv'
<1> USE DEF ExpiryStep, ExpiryThrows, ExpiryRejects, FindReservation, SetLock,
            ExpireLock, IncrementSeats, MarkExpired, ExpireEntry, DelActive,
            DecrActiveCount, Await
<1>1. /\ w \in Actors /\ pc \in [Actors -> Calls] /\ Workers \subseteq Actors
      /\ res \in [Actors -> Reservations \cup {None}]
      /\ job \in [Actors -> Reservations \cup {None}]
      /\ jobs \in [Reservations -> Jobs] /\ None \notin Reservations
  BY IdAssumption DEF Actors, Promoters, TypeInv, ControlOK, LocalsOK
<1>2. CASE TakeJob(w)
  <2>1. /\ pc[w] = "idle" /\ pc'[w] = "findReservation"
        /\ \A b \in Actors \ {w} : pc'[b] = pc[b] /\ job'[b] = job[b]
    BY <1>1, <1>2 DEF TakeJob, Goto
  <2>2. PICK n \in Reservations :
          /\ jobs' = [jobs EXCEPT ![n] = [@ EXCEPT !.state = "active", !.holder = w]]
          /\ job'[w] = n
    BY <1>1, <1>2 DEF TakeJob, TypeInv, StoresOK, WorldOK
  <2>3. ASSUME NEW r \in Reservations, jobs'[r].state = "active"
        PROVE  jobs'[r].holder \in Workers /\ job'[jobs'[r].holder] = r
    <3>1. CASE r = n
      BY <1>1, <2>2, <3>1 DEF Jobs
    <3>2. CASE r # n
      BY <1>1, <2>1, <2>2, <2>3, <3>2 DEF HandInv
    <3> QED
      BY <3>1, <3>2
  <2> QED
    BY <1>1, <2>1, <2>3 DEF HandInv
<1>3. CASE ~TakeJob(w) /\ (Return(w) \/ ExpiryThrows(w))
  BY <1>1, <1>3, HandReturned DEF Return
<1>4. CASE ~TakeJob(w) /\ ~Return(w) /\ ~ExpiryThrows(w)
  <2>1. OthersWork(w) /\ job'[w] = job[w] /\ pc'[w] # "idle" /\ jobs' = jobs
    BY <1>1, <1>4 DEF Goto, TriggerPromotion, OthersWork, locals
  <2> QED
    BY <1>1, <2>1, HandKept
<1> QED
  BY <1>2, <1>3, <1>4

\* Nobody else has jobs; a stall takes one away.
LEMMA OtherHand ==
    ASSUME Watchful, TypeInv, HandInv,
           \/ \E a \in Joiners \cup Payers :
                \/ a \in Joiners /\ JoinQueue(a)
                \/ a \in Payers /\ FindPayable(a)
                \/ RequestStep(a) \/ RequestThrows(a)
           \/ Environment
    PROVE  HandInv'
<1>1. /\ pc \in [Actors -> Calls] /\ job \in [Actors -> Reservations \cup {None}]
      /\ res \in [Actors -> Reservations \cup {None}]
      /\ jobs \in [Reservations -> Jobs] /\ Workers \subseteq Promoters
      /\ Promoters \cap (Joiners \cup Payers) = {} /\ Workers \subseteq Actors
  BY ActorAssumption DEF TypeInv, ControlOK, LocalsOK, Promoters, Actors
<1>2. ASSUME NEW a \in Joiners \cup Payers,
             \/ a \in Joiners /\ JoinQueue(a)
             \/ a \in Payers /\ FindPayable(a)
             \/ RequestStep(a) \/ RequestThrows(a)
      PROVE  HandInv'
  <2> USE <1>2 DEF RequestStep, RequestThrows, RequestRejects, JoinQueue, FindPayable,
          FindEntry, AddToQueue, SaveEntry, SavePaid, MarkDone, Await
  <2>1. \A b \in Workers : pc'[b] = pc[b] /\ job'[b] = job[b]
    BY <1>1 DEF Goto, Return, Forget, locals
  <2>2. jobs' = jobs
    BY <1>1 DEF Return, CompleteJob
  <2> QED
    BY <2>1, <2>2 DEF HandInv
<1>3. CASE Environment
  <2>1. UNCHANGED <<pc, job>>
    BY <1>3 DEF Environment, InitializeSeats, OpenSales, CloseSales, Lapse, LockTTL, Mishap,
       StallRunning, StallAbandoned, KeyTTL, Crash, locals, Watchful
  <2>2. \A r \in Reservations : jobs'[r] = jobs[r] \/ jobs'[r].state # "active"
    <3>1. ASSUME NEW n \in Reservations, Redeliver(n)
          PROVE  \A r \in Reservations : jobs'[r] = jobs[r] \/ jobs'[r].state # "active"
      BY <1>1, <3>1, NotActive DEF Redeliver
    <3>2. CASE ~\E n \in Reservations : Redeliver(n)
      BY <1>3, <3>2 DEF Environment, InitializeSeats, OpenSales, CloseSales, Lapse, LockTTL,
         StallRunning, StallAbandoned, KeyTTL, Crash
    <3> QED
      BY <3>1, <3>2
  <2> QED
    BY <2>1, <2>2 DEF HandInv
<1> QED
  BY <1>2, <1>3

-----------------------------------------------------------------------------
(* One reservation.                                                        *)

\* A step that leaves the job of r alone and whoever watches r in place.
LEMMA JobKept ==
    ASSUME TypeInv, TypeInv', NEW r \in Reservations, JobOK(r), jobs'[r] = jobs[r],
           mishaps <= mishaps', lock'[r] # "free" => lock[r] # "free",
           r \in Rows => r \in Rows', r \in Pending' => r \in Pending,
           r \in Pending' =>
              /\ \A a \in Promoters : Scheduling(a, r) => Scheduling(a, r)'
              /\ \A w \in Workers : Expiring(w, r) => Expiring(w, r)' /\ job'[w] = job[w]
              /\ \A w \in Workers : Locking(w, r) => Locking(w, r)'
    PROVE  JobOK(r)'
<1>1. /\ jobs \in [Reservations -> Jobs] /\ mishaps \in Nat /\ mishaps' \in Nat
  BY DEF TypeInv, StoresOK, WorldOK, ControlOK
<1>2. jobs[r].attempts \in Nat
  BY <1>1 DEF Jobs
<1>3. /\ jobs'[r].attempts <= mishaps'
      /\ jobs'[r].stalled => jobs'[r].attempts < mishaps'
  BY <1>1, <1>2 DEF JobOK
<1>4. ASSUME r \in Pending' PROVE Watched(r)'
  <2>1. Watched(r) /\ r \in Pending
    BY <1>4 DEF JobOK
  <2>2. CASE \E a \in Promoters : Scheduling(a, r)
    BY <1>4, <2>2 DEF Watched
  <2>3. CASE jobs[r].state = "delayed"
    BY <2>3 DEF Watched
  <2>4. CASE InHand(r)
    BY <1>4, <2>4 DEF Watched, InHand
  <2>5. CASE IsLocking(r)
    BY <1>4, <2>5 DEF Watched, IsLocking
  <2>6. CASE GivenUp(r)
    BY <1>1, <1>4, <2>6 DEF Watched, GivenUp
  <2> QED
    BY <2>1, <2>2, <2>3, <2>4, <2>5, <2>6 DEF Watched
<1>5. ASSUME r \in Pending', lock'[r] # "free" PROVE IsLocking(r)'
  BY <1>5 DEF JobOK, IsLocking
<1> QED
  BY <1>3, <1>4, <1>5 DEF JobOK

\* A worker completes the job it holds: whoever else watches r still does, and
\* if nobody does, r is not pending.
LEMMA JobCompleted ==
    ASSUME TypeInv, TypeInv', NEW r \in Reservations, JobOK(r), NEW w \in Workers,
           jobs[r].holder = w, OthersWork(w),
           jobs'[r] = [jobs[r] EXCEPT !.state = "completed", !.holder = None],
           mishaps <= mishaps', lock'[r] = lock[r],
           r \in Rows => r \in Rows', r \in Pending' => r \in Pending,
           ~Scheduling(w, r), ~Locking(w, r),
           r \in Pending /\ Expiring(w, r) => IsLocking(r)
    PROVE  JobOK(r)'
<1>1. /\ jobs \in [Reservations -> Jobs] /\ mishaps \in Nat /\ mishaps' \in Nat
      /\ w # None /\ Workers \subseteq Actors /\ Promoters \subseteq Actors
  BY ActorAssumption DEF TypeInv, StoresOK, WorldOK, ControlOK, Actors, Promoters
<1>2. /\ jobs'[r].holder = None /\ jobs'[r].attempts = jobs[r].attempts
      /\ jobs'[r].stalled = jobs[r].stalled
  BY <1>1 DEF Jobs
<1>3. jobs[r].state = "active"
  BY <1>1 DEF JobOK
<1>4. IsLocking(r) => IsLocking(r)'
  BY <1>1 DEF IsLocking, Locking, OthersWork
<1>5. ASSUME r \in Pending' PROVE Watched(r)'
  <2>1. Watched(r) /\ r \in Pending
    BY <1>5 DEF JobOK
  <2>2. CASE \E a \in Promoters : Scheduling(a, r)
    BY <1>1, <2>2 DEF Watched, Scheduling, OthersWork
  <2>3. CASE InHand(r)
    BY <1>4, <2>1, <2>3 DEF Watched, InHand
  <2>4. CASE IsLocking(r)
    BY <1>4, <2>4 DEF Watched
  <2> QED
    BY <1>3, <2>1, <2>2, <2>3, <2>4 DEF Watched, GivenUp
<1>6. /\ jobs'[r].attempts <= mishaps'
      /\ jobs'[r].stalled => jobs'[r].attempts < mishaps'
  <2>1. jobs[r].attempts \in Nat
    BY <1>1 DEF Jobs
  <2> QED
    BY <1>1, <1>2, <2>1 DEF JobOK
<1> QED
  BY <1>2, <1>4, <1>5, <1>6 DEF JobOK

\* A handler that is not watching r returns.
LEMMA ReturnJob ==
    ASSUME TypeInv, TypeInv', NEW r \in Reservations, JobOK(r), NEW a \in Actors,
           CompleteJob(a), OthersWork(a),
           mishaps <= mishaps', lock'[r] = lock[r],
           r \in Rows => r \in Rows', r \in Pending' => r \in Pending,
           ~Scheduling(a, r), a \in Workers => ~Locking(a, r),
           a \in Workers /\ r \in Pending /\ Expiring(a, r) => IsLocking(r)
    PROVE  JobOK(r)'
<1>1. jobs \in [Reservations -> Jobs] /\ Workers \subseteq Actors /\ Promoters \subseteq Actors
  BY DEF TypeInv, ControlOK, Actors, Promoters
<1>2. CASE a \in Workers /\ Holds(a) /\ job[a] = r
  <2>1. jobs[r].holder = a
    BY <1>2 DEF Holds
  <2>2. jobs'[r] = [jobs[r] EXCEPT !.state = "completed", !.holder = None]
    BY <1>1, <1>2 DEF CompleteJob
  <2> QED
    BY <1>2, <2>1, <2>2, JobCompleted
<1>3. CASE ~(a \in Workers /\ Holds(a) /\ job[a] = r)
  <2>1. jobs'[r] = jobs[r]
    BY <1>1, <1>3 DEF CompleteJob
  <2>2. /\ \A b \in Promoters : Scheduling(b, r) => Scheduling(b, r)'
        /\ \A w \in Workers : Locking(w, r) => Locking(w, r)'
        /\ \A w \in Workers \ {a} : Expiring(w, r) => Expiring(w, r)' /\ job'[w] = job[w]
    BY <1>1 DEF Scheduling, Locking, Expiring, OthersWork
  <2>3. CASE ~(a \in Workers /\ Expiring(a, r))
    BY <2>1, <2>2, <2>3, JobKept
  <2>4. CASE a \in Workers /\ Expiring(a, r)
    <3>1. /\ jobs'[r].attempts <= mishaps'
          /\ jobs'[r].stalled => jobs'[r].attempts < mishaps'
      <4>1. mishaps \in Nat /\ mishaps' \in Nat /\ jobs[r].attempts \in Nat
        BY <1>1 DEF TypeInv, StoresOK, WorldOK, Jobs
      <4> QED
        BY <2>1, <4>1 DEF JobOK
    <3>2. r \in Pending' => IsLocking(r)'
      BY <2>2, <2>4 DEF IsLocking
    <3> QED
      BY <2>1, <3>1, <3>2 DEF JobOK, Watched
  <2> QED
    BY <2>3, <2>4
<1> QED
  BY <1>2, <1>3

-----------------------------------------------------------------------------
(* Every handler.                                                          *)

\* INSERT makes the promoter watch the row, add makes the job watch it.
LEMMA PromotionJob ==
    ASSUME Watchful, TypeInv, TypeInv', JobInv, NEW a \in Promoters,
           StartCron(a) \/ PromotionStep(a) \/ PromotionThrows(a)
    PROVE  JobInv'
<1>1. /\ a \in Actors /\ Promoters \subseteq Actors /\ Workers \subseteq Promoters
      /\ pc \in [Actors -> Calls] /\ res \in [Actors -> Reservations \cup {None}]
      /\ job \in [Actors -> Reservations \cup {None}]
      /\ status \in [Reservations -> ReservationStatuses]
      /\ jobs \in [Reservations -> Jobs] /\ mishaps \in Nat
  BY DEF Actors, Promoters, TypeInv, ControlOK, LocalsOK, StoresOK, TablesOK, WorldOK
<1>2. lock' = lock /\ mishaps <= mishaps'
  BY <1>1 DEF StartCron, PromotionStep, PromotionThrows, PromotionRejects, GetActiveCount,
     GetNextInQueue, DecrementSeats, SaveReservation, AddJob, SetActive, RemoveFromQueue,
     SetexActive, IncrActiveCount, UndoSeat, RestoreSeat, MarkSoldOut, RemoveSoldOut,
     Mishap, cache, world
<1>3. OthersWork(a)
  BY <1>1 DEF StartCron, PromotionStep, PromotionThrows, PromotionRejects, GetActiveCount,
     GetNextInQueue, DecrementSeats, SaveReservation, AddJob, SetActive, RemoveFromQueue,
     SetexActive, IncrActiveCount, UndoSeat, RestoreSeat, MarkSoldOut, RemoveSoldOut,
     Await, Loop, Goto, Return, Forget, OthersWork, locals
<1>4. pc[a] \notin ExpiryCalls
  BY <1>1 DEF StartCron, PromotionStep, PromotionThrows, PromotionRejects, GetActiveCount,
     GetNextInQueue, DecrementSeats, SaveReservation, AddJob, SetActive, RemoveFromQueue,
     SetexActive, IncrActiveCount, UndoSeat, RestoreSeat, MarkSoldOut, RemoveSoldOut,
     Await, PromotionCalls, TryCalls, SoldOutCalls, ExpiryCalls
<1>5. ASSUME NEW r \in Reservations
      PROVE  /\ ~Expiring(a, r) /\ ~Locking(a, r)
             /\ \A b \in Promoters \ {a} : Scheduling(b, r) => Scheduling(b, r)'
             /\ \A w \in Workers : Locking(w, r) => Locking(w, r)'
             /\ \A w \in Workers : Expiring(w, r) => Expiring(w, r)' /\ job'[w] = job[w]
  BY <1>1, <1>3, <1>4 DEF Scheduling, Expiring, Locking, LockingCalls, OthersWork, ExpiryCalls
<1>6. CASE SaveReservation(a)
  <2>1. PICK n \in Reservations \ Rows : /\ status' = [status EXCEPT ![n] = "PENDING_PAYMENT"]
                                        /\ res' = [res EXCEPT ![a] = n]
    BY <1>6 DEF SaveReservation, IsFresh
  <2>2. /\ pc[a] = "saveReservation" /\ pc' = [pc EXCEPT ![a] = "addJob"]
        /\ UNCHANGED <<jobs, mishaps>>
    BY <1>6 DEF SaveReservation, Await, Goto, world
  <2>3. /\ \A r \in Reservations : r \in Rows => r \in Rows'
        /\ \A r \in Reservations \ {n} : r \in Pending' => r \in Pending
    BY <1>1, <2>1 DEF Rows, Pending
  <2>4. ASSUME NEW r \in Reservations, r # n PROVE JobOK(r)'
    <3>1. ~Scheduling(a, r)
      BY <2>2 DEF Scheduling
    <3> QED
      BY <1>2, <1>5, <2>2, <2>3, <2>4, <3>1, JobKept DEF JobInv
  <2>5. JobOK(n)'
    <3>1. Scheduling(a, n)'
      BY <1>1, <2>1, <2>2 DEF Scheduling
    <3>2. JobOK(n) /\ lock'[n] = "free"
      BY <1>2, <2>1 DEF JobInv, JobOK
    <3> QED
      BY <2>2, <3>1, <3>2 DEF JobOK, Watched
  <2> QED
    BY <2>4, <2>5 DEF JobInv
<1>7. CASE AddJob(a)
  <2>1. /\ pc[a] = "addJob" /\ pc' = [pc EXCEPT ![a] = "setActive"]
        /\ jobs' = [jobs EXCEPT ![res[a]] = [NoJob EXCEPT !.state = "delayed"]]
        /\ UNCHANGED <<status, mishaps, res>>
    BY <1>7 DEF AddJob, Await, Goto, world, tables, locals
  <2>2. Rows' = Rows /\ Pending' = Pending
    BY <2>1 DEF Rows, Pending
  <2>3. ASSUME NEW r \in Reservations, r # res[a] PROVE JobOK(r)'
    <3>1. ~Scheduling(a, r) /\ jobs'[r] = jobs[r]
      BY <1>1, <2>1, <2>3 DEF Scheduling
    <3> QED
      BY <1>2, <1>5, <2>2, <3>1, JobKept DEF JobInv
  <2>4. ASSUME NEW r \in Reservations, r = res[a] PROVE JobOK(r)'
    <3>1. /\ jobs'[r].state = "delayed" /\ jobs'[r].holder = None
          /\ jobs'[r].attempts = 0 /\ jobs'[r].stalled = FALSE
      BY <1>1, <2>1, <2>4 DEF NoJob
    <3>2. IsLocking(r) => IsLocking(r)'
      BY <1>5 DEF IsLocking
    <3> QED
      BY <1>1, <1>2, <2>1, <2>2, <3>1, <3>2 DEF JobInv, JobOK, Watched
  <2> QED
    BY <2>3, <2>4 DEF JobInv
<1>8. CASE ~SaveReservation(a) /\ ~AddJob(a)
  <2> USE <1>8 DEF StartCron, PromotionStep, PromotionThrows, PromotionRejects, GetActiveCount,
          GetNextInQueue, DecrementSeats, SetActive, RemoveFromQueue, SetexActive,
          IncrActiveCount, UndoSeat, RestoreSeat, MarkSoldOut, RemoveSoldOut, Await
  <2>1. Rows' = Rows /\ Pending' = Pending
    BY DEF tables, Rows, Pending
  <2>2. pc[a] # "addJob"
    BY DEF Mishap, Watchful
  <2>3. jobs' = jobs \/ CompleteJob(a)
    BY DEF Loop, Return
  <2>4. ASSUME NEW r \in Reservations PROVE JobOK(r)'
    <3>1. ~Scheduling(a, r)
      BY <2>2 DEF Scheduling
    <3>2. CASE jobs' = jobs
      BY <1>2, <1>5, <2>1, <3>1, <3>2, JobKept DEF JobInv
    <3>3. CASE CompleteJob(a)
      BY <1>1, <1>2, <1>3, <1>5, <2>1, <3>1, <3>3, ReturnJob DEF JobInv
    <3> QED
      BY <2>3, <3>2, <3>3
  <2> QED
    BY <2>4 DEF JobInv
<1> QED
  BY <1>6, <1>7, <1>8

\* What a step of a worker leaves to the others that watch a reservation.
LEMMA OtherWatchers ==
    ASSUME TypeInv, NEW w \in Workers, OthersWork(w), NEW r \in Reservations
    PROVE  /\ pc[w] # "addJob" => \A b \in Promoters : Scheduling(b, r) => Scheduling(b, r)'
           /\ \A v \in Workers \ {w} : Locking(v, r) => Locking(v, r)'
           /\ \A v \in Workers \ {w} : Expiring(v, r) => Expiring(v, r)' /\ job'[v] = job[v]
  BY DEF Scheduling, Locking, Expiring, OthersWork, Promoters, Actors

\* BullMQ gives the job to a worker.
LEMMA TakeJobJob ==
    ASSUME TypeInv, TypeInv', JobInv, NEW w \in Workers, TakeJob(w)
    PROVE  JobInv'
<1>1. /\ w \in Actors /\ Workers \subseteq Actors /\ w # None
      /\ pc \in [Actors -> Calls] /\ res \in [Actors -> Reservations \cup {None}]
      /\ job \in [Actors -> Reservations \cup {None}]
      /\ jobs \in [Reservations -> Jobs]
  BY ActorAssumption DEF Actors, Promoters, TypeInv, ControlOK, LocalsOK
<1>2. /\ pc[w] = "idle" /\ pc' = [pc EXCEPT ![w] = "findReservation"]
      /\ UNCHANGED <<status, lock, mishaps>>
  BY DEF TakeJob, Await, Goto, cache, tables, world
<1>3. PICK n \in lapsed :
        /\ jobs[n].state = "delayed"
        /\ jobs' = [jobs EXCEPT ![n] = [@ EXCEPT !.state = "active", !.holder = w]]
        /\ job' = [job EXCEPT ![w] = n] /\ res' = [res EXCEPT ![w] = n]
  BY DEF TakeJob
<1>4. n \in Reservations /\ OthersWork(w) /\ Rows' = Rows /\ Pending' = Pending
  BY <1>1, <1>2, <1>3 DEF TypeInv, StoresOK, WorldOK, OthersWork, Rows, Pending
<1>5. ASSUME NEW r \in Reservations
      PROVE  /\ \A b \in Promoters : Scheduling(b, r) => Scheduling(b, r)'
             /\ \A v \in Workers : Expiring(v, r) => Expiring(v, r)' /\ job'[v] = job[v]
             /\ \A v \in Workers : Locking(v, r) => Locking(v, r)'
  BY <1>2, <1>4, OtherWatchers DEF Expiring, Locking, LockingCalls
<1>6. ASSUME NEW r \in Reservations, r # n PROVE JobOK(r)'
  BY <1>1, <1>2, <1>3, <1>4, <1>5, <1>6, JobKept DEF JobInv, TypeInv, StoresOK, WorldOK
<1>7. JobOK(n)'
  <2>1. /\ jobs'[n].state = "active" /\ jobs'[n].holder = w
        /\ jobs'[n].attempts = jobs[n].attempts /\ jobs'[n].stalled = jobs[n].stalled
        /\ job'[w] = n /\ res'[w] = n /\ pc'[w] = "findReservation"
    BY <1>1, <1>2, <1>3, <1>4 DEF Jobs
  <2>2. InHand(n)'
    BY <2>1 DEF InHand, Expiring
  <2>3. IsLocking(n) => IsLocking(n)'
    BY <1>4, <1>5 DEF IsLocking
  <2> QED
    BY <1>2, <1>4, <2>1, <2>2, <2>3 DEF JobInv, JobOK, Watched
<1> QED
  BY <1>6, <1>7 DEF JobInv

\* The worker reads the row and goes on to SETNX, or finds it paid or expired.
LEMMA FindReservationJob ==
    ASSUME TypeInv, TypeInv', JobInv, NEW w \in Workers, FindReservation(w)
    PROVE  JobInv'
<1>1. /\ w \in Actors /\ pc \in [Actors -> Calls] /\ mishaps \in Nat
      /\ res \in [Actors -> Reservations \cup {None}]
      /\ job \in [Actors -> Reservations \cup {None}]
  BY DEF Actors, Promoters, TypeInv, ControlOK, LocalsOK, StoresOK, WorldOK
<1>2. /\ pc[w] = "findReservation" /\ UNCHANGED <<status, lock, mishaps>>
  BY DEF FindReservation, cache, tables, world
<1>3. OthersWork(w)
  BY <1>1 DEF FindReservation, Goto, Return, Forget, OthersWork
<1>4. Rows' = Rows /\ Pending' = Pending
  BY <1>2 DEF Rows, Pending
<1>5. ASSUME NEW r \in Reservations PROVE ~Scheduling(w, r) /\ ~Locking(w, r)
  BY <1>2 DEF Scheduling, Locking, LockingCalls
<1>6. CASE Goto(w, "setnx") /\ UNCHANGED <<jobs, res, job>>
  <2>1. ASSUME NEW r \in Reservations PROVE JobOK(r)'
    <3>1. Expiring(w, r) => Expiring(w, r)' /\ job'[w] = job[w]
      BY <1>1, <1>6 DEF Goto, Expiring
    <3> QED
      BY <1>1, <1>2, <1>3, <1>4, <1>5, <1>6, <3>1, OtherWatchers, JobKept DEF JobInv
  <2> QED
    BY <2>1 DEF JobInv
<1>7. CASE status[res[w]] # "PENDING_PAYMENT" /\ Return(w)
  <2>1. ASSUME NEW r \in Reservations PROVE JobOK(r)'
    <3>1. r \in Pending => ~Expiring(w, r)
      BY <1>7 DEF Pending, Expiring
    <3> QED
      BY <1>1, <1>2, <1>3, <1>4, <1>5, <1>7, <3>1, ReturnJob DEF JobInv, Return
  <2> QED
    BY <2>1 DEF JobInv
<1> QED
  BY <1>6, <1>7 DEF FindReservation

\* SETNX: the winner watches the reservation, the loser leaves it to him.
LEMMA SetLockJob ==
    ASSUME TypeInv, TypeInv', ServiceInv, JobInv, NEW w \in Workers, SetLock(w)
    PROVE  JobInv'
<1>1. /\ w \in Actors /\ pc \in [Actors -> Calls] /\ mishaps \in Nat
      /\ res \in [Actors -> Reservations \cup {None}]
      /\ job \in [Actors -> Reservations \cup {None}]
      /\ lock \in [Reservations -> LockStates]
  BY DEF Actors, Promoters, TypeInv, ControlOK, LocalsOK, StoresOK, WorldOK, CacheOK
<1>2. /\ pc[w] = "setnx" /\ UNCHANGED <<status, mishaps>> /\ res[w] \in Rows
  BY <1>1 DEF SetLock, tables, world, ServiceInv, Serves, RowCalls, ExpiryCalls
<1>3. OthersWork(w)
  BY <1>1 DEF SetLock, Goto, Return, Forget, OthersWork, locals
<1>4. Rows' = Rows /\ Pending' = Pending
  BY <1>2 DEF Rows, Pending
<1>5. ASSUME NEW r \in Reservations PROVE ~Scheduling(w, r) /\ ~Locking(w, r)
  BY <1>2 DEF Scheduling, Locking, LockingCalls
<1>6. CASE /\ lock[res[w]] = "free" /\ lock' = [lock EXCEPT ![res[w]] = "set"]
           /\ Goto(w, "expireLock") /\ UNCHANGED <<jobs, locals>>
  <2>1. ASSUME NEW r \in Reservations, r # res[w] PROVE JobOK(r)'
    <3>1. ~Expiring(w, r) /\ lock'[r] = lock[r] /\ jobs'[r] = jobs[r]
      BY <1>1, <1>6, <2>1 DEF Expiring
    <3> QED
      BY <1>1, <1>2, <1>3, <1>4, <1>5, <3>1, OtherWatchers, JobKept DEF JobInv
  <2>2. ASSUME NEW r \in Reservations, r = res[w] PROVE JobOK(r)'
    <3>1. IsLocking(r)'
      BY <1>1, <1>6, <2>2 DEF IsLocking, Locking, LockingCalls, Goto, locals
    <3> QED
      BY <1>2, <1>4, <1>6, <2>2, <3>1 DEF JobInv, JobOK, Watched
  <2> QED
    BY <2>1, <2>2 DEF JobInv
<1>7. CASE lock[res[w]] # "free" /\ Return(w) /\ UNCHANGED lock
  <2>1. ASSUME NEW r \in Reservations PROVE JobOK(r)'
    <3>1. r \in Pending /\ Expiring(w, r) => IsLocking(r)
      BY <1>7 DEF JobInv, JobOK, Expiring
    <3> QED
      BY <1>1, <1>2, <1>3, <1>4, <1>5, <1>7, <3>1, ReturnJob DEF JobInv, Return
  <2> QED
    BY <2>1 DEF JobInv
<1> QED
  BY <1>6, <1>7 DEF SetLock

\* The owner of the lock goes on until the row is marked, and then nobody has
\* to watch it.
LEMMA LockedJob ==
    ASSUME TypeInv, TypeInv', ServiceInv, JobInv, NEW w \in Workers,
           \/ ExpireLock(w) \/ IncrementSeats(w) \/ MarkExpired(w)
           \/ ExpireEntry(w) \/ DelActive(w) \/ DecrActiveCount(w)
    PROVE  JobInv'
<1> USE DEF ExpireLock, IncrementSeats, MarkExpired, ExpireEntry, DelActive,
            DecrActiveCount, Await
<1>1. /\ w \in Actors /\ pc \in [Actors -> Calls] /\ mishaps \in Nat
      /\ res \in [Actors -> Reservations \cup {None}]
      /\ status \in [Reservations -> ReservationStatuses]
      /\ lock \in [Reservations -> LockStates]
      /\ res[w] \in Reservations
  BY DEF Actors, Promoters, TypeInv, ControlOK, LocalsOK, StoresOK, WorldOK, CacheOK,
     TablesOK, Working, ExpiryCalls
<1>2. /\ UNCHANGED <<jobs, mishaps, job>> /\ OthersWork(w) /\ pc[w] # "addJob"
  BY <1>1 DEF Goto, TriggerPromotion, OthersWork, locals, world
<1>3. ASSUME NEW r \in Reservations
      PROVE  /\ r \in Rows => r \in Rows'
             /\ r \in Pending' => r \in Pending
             /\ r \in Pending' /\ Expiring(w, r) => Expiring(w, r)' /\ Locking(w, r)'
  <2>1. status'[r] = status[r] \/ (MarkExpired(w) /\ r = res[w])
    <3>1. CASE MarkExpired(w)
      BY <1>1, <3>1
    <3>2. CASE ~MarkExpired(w)
      BY <3>2 DEF tables
    <3> QED
      BY <3>1, <3>2
  <2>2. CASE MarkExpired(w) /\ r = res[w]
    BY <1>1, <2>2 DEF Rows, Pending
  <2>3. CASE ~(MarkExpired(w) /\ r = res[w]) /\ Expiring(w, r)
    <3>1. ExpireLock(w) \/ IncrementSeats(w)
      BY <2>3 DEF Expiring
    <3> QED
      BY <1>1, <2>1, <2>3, <3>1 DEF Goto, Expiring, Locking, LockingCalls, Rows, Pending, locals
  <2>4. CASE ~(MarkExpired(w) /\ r = res[w]) /\ ~Expiring(w, r)
    BY <2>1, <2>4 DEF Rows, Pending
  <2> QED
    BY <2>2, <2>3, <2>4
<1>4. ASSUME NEW r \in Reservations PROVE lock'[r] # "free" => lock[r] # "free" \/ Locking(w, r)
  BY <1>1 DEF cache, Locking, LockingCalls
<1>5. ASSUME NEW r \in Reservations, ~Locking(w, r) PROVE JobOK(r)'
  <2>1. r \in Pending' /\ Expiring(w, r) => Expiring(w, r)' /\ job'[w] = job[w]
    BY <1>2, <1>3
  <2> QED
    BY <1>1, <1>2, <1>3, <1>4, <1>5, <2>1, OtherWatchers, JobKept DEF JobInv
<1>6. ASSUME NEW r \in Reservations, Locking(w, r) PROVE JobOK(r)'
  <2>1. r \in Pending' => IsLocking(r)'
    BY <1>3, <1>6 DEF IsLocking, Locking, LockingCalls, Expiring
  <2>2. lock'[r] # "free" => r \in Rows'
    BY <1>1, <1>3, <1>6 DEF ServiceInv, Serves, RowCalls, Locking, LockingCalls, ExpiryCalls
  <2> QED
    BY <1>2, <2>1, <2>2 DEF JobInv, JobOK, Watched
<1> QED
  BY <1>5, <1>6 DEF JobInv

\* A failing expiration gives the job back, unless BullMQ has taken it away: it
\* is then with another worker or, after two stalls, failures are used up.
LEMMA ThrowJob ==
    ASSUME Watchful, TypeInv, TypeInv', JobInv, NEW w \in Workers, ExpiryThrows(w)
    PROVE  JobInv'
<1>1. /\ w \in Actors /\ pc \in [Actors -> Calls] /\ mishaps \in Nat /\ w # None
      /\ res \in [Actors -> Reservations \cup {None}]
      /\ job \in [Actors -> Reservations \cup {None}]
      /\ jobs \in [Reservations -> Jobs]
  BY ActorAssumption DEF Actors, Promoters, TypeInv, ControlOK, LocalsOK, StoresOK, WorldOK
<1>2. /\ pc[w] \in ExpiryCalls \cap Faults /\ Forget(w)
      /\ mishaps < MaxMishaps /\ mishaps' = mishaps + 1
      /\ jobs' = IF Holds(w) THEN [jobs EXCEPT ![job[w]] = FailedJob(@)] ELSE jobs
      /\ UNCHANGED <<lock, status>>
  BY DEF ExpiryThrows, ExpiryRejects, Mishap, cache, tables
<1>3. OthersWork(w) /\ pc[w] # "addJob" /\ Rows' = Rows /\ Pending' = Pending
  BY <1>1, <1>2 DEF Forget, OthersWork, ExpiryCalls, Rows, Pending
<1>4. ASSUME NEW r \in Reservations PROVE ~Locking(w, r)
  BY <1>2 DEF Watchful, Locking, LockingCalls
<1>5. CASE Holds(w) /\ job[w] \in Reservations
  <2>1. ASSUME NEW r \in Reservations, r # job[w] PROVE JobOK(r)'
    <3>1. CASE jobs[r].state = "failed" /\ Expiring(w, r)
      <4>1. ~GivenUp(r)
        BY <1>1, <1>2, <1>4, <3>1, BoundAssumption
           DEF GivenUp, Watchful, Expiring, Locking, LockingCalls
      <4>2. jobs'[r] = jobs[r] /\ lock' = lock
        BY <1>1, <1>2, <1>5, <2>1
      <4>3. jobs[r].attempts \in Nat
        BY <1>1 DEF Jobs
      <4>4. /\ IsLocking(r) => IsLocking(r)'
            /\ \A b \in Promoters : Scheduling(b, r) => Scheduling(b, r)'
        BY <1>3, <1>4, OtherWatchers DEF IsLocking
      <4> QED
        BY <1>1, <1>2, <1>3, <3>1, <4>1, <4>2, <4>3, <4>4 DEF JobInv, JobOK, Watched, InHand
    <3>2. CASE ~(jobs[r].state = "failed" /\ Expiring(w, r))
      <4>1. jobs'[r] = jobs[r] /\ lock' = lock
        BY <1>1, <1>2, <1>5, <2>1
      <4>3. jobs[r].attempts \in Nat
        BY <1>1 DEF Jobs
      <4>4. /\ IsLocking(r) => IsLocking(r)'
            /\ \A b \in Promoters : Scheduling(b, r) => Scheduling(b, r)'
            /\ InHand(r) => InHand(r)'
            /\ GivenUp(r) => GivenUp(r)'
        BY <1>1, <1>2, <1>3, <1>4, <2>1, <3>2, <4>1, OtherWatchers DEF IsLocking, InHand, GivenUp
      <4> QED
        BY <1>1, <1>2, <1>3, <4>1, <4>3, <4>4 DEF JobInv, JobOK, Watched
    <3> QED
      BY <3>1, <3>2
  <2>2. ASSUME NEW r \in Reservations, r = job[w] PROVE JobOK(r)'
    <3>1. /\ jobs[r].attempts \in Nat /\ jobs[r].attempts <= mishaps
          /\ jobs[r].stalled => jobs[r].attempts < mishaps
      BY <1>1 DEF Jobs, JobInv, JobOK
    <3>2. jobs[r].attempts + 1 < MaxAttempts
      BY <1>1, <1>2, <3>1, BoundAssumption DEF Watchful
    <3>3. jobs'[r] = FailedJob(jobs[r])
      BY <1>1, <1>2, <1>5, <2>2
    <3>4. /\ jobs'[r].state = "delayed" /\ jobs'[r].holder = None
          /\ jobs'[r].attempts = jobs[r].attempts + 1 /\ jobs'[r].stalled = jobs[r].stalled
      BY <1>1, <3>2, <3>3 DEF FailedJob, Jobs
    <3>5. IsLocking(r) => IsLocking(r)'
      BY <1>3, <1>4, OtherWatchers DEF IsLocking
    <3> QED
      BY <1>1, <1>2, <1>3, <3>1, <3>4, <3>5 DEF JobInv, JobOK, Watched
  <2> QED
    BY <2>1, <2>2 DEF JobInv
<1>6. CASE ~Holds(w)
  <2>1. ASSUME NEW r \in Reservations PROVE JobOK(r)'
    <3>1. jobs[r].holder = w => job[w] # r
      BY <1>1, <1>6, IdAssumption DEF Holds
    <3>2. jobs'[r] = jobs[r] /\ lock' = lock /\ jobs[r].attempts \in Nat
      BY <1>1, <1>2, <1>6 DEF Jobs
    <3>3. Expiring(w, r) => ~GivenUp(r)
      BY <1>1, <1>2, <1>4, BoundAssumption DEF GivenUp, Watchful, Expiring, Locking, LockingCalls
    <3>4. /\ IsLocking(r) => IsLocking(r)'
          /\ \A b \in Promoters : Scheduling(b, r) => Scheduling(b, r)'
          /\ InHand(r) => InHand(r)'
          /\ GivenUp(r) => GivenUp(r)'
      BY <1>1, <1>2, <1>3, <1>4, <3>1, <3>2, <3>3, OtherWatchers DEF IsLocking, InHand, GivenUp
    <3> QED
      BY <1>1, <1>2, <1>3, <3>2, <3>4 DEF JobInv, JobOK, Watched
  <2> QED
    BY <2>1 DEF JobInv
<1> QED
  BY <1>1, <1>5, <1>6 DEF Holds

\* Requests have no job and watch nothing; a payment ends the need to watch.
LEMMA RequestJob ==
    ASSUME TypeInv, TypeInv', ServiceInv, JobInv, NEW a \in Joiners \cup Payers,
           \/ a \in Joiners /\ JoinQueue(a)
           \/ a \in Payers /\ FindPayable(a)
           \/ RequestStep(a) \/ RequestThrows(a)
    PROVE  JobInv'
<1> USE DEF RequestStep, RequestThrows, RequestRejects, JoinQueue, FindPayable,
        FindEntry, AddToQueue, SaveEntry, SavePaid, MarkDone, Await
<1>1. /\ a \in Actors /\ a \notin Promoters /\ Workers \subseteq Promoters
      /\ pc \in [Actors -> Calls] /\ res \in [Actors -> Reservations \cup {None}]
      /\ job \in [Actors -> Reservations \cup {None}]
      /\ status \in [Reservations -> ReservationStatuses] /\ mishaps \in Nat
      /\ Promoters \subseteq Actors
  BY ActorAssumption DEF Actors, Promoters, TypeInv, ControlOK, LocalsOK, StoresOK,
     TablesOK, WorldOK
<1>2. /\ lock' = lock /\ mishaps <= mishaps' /\ OthersWork(a)
  BY <1>1 DEF cache, world, Mishap, Goto, Return, Forget, OthersWork, locals
<1>3. jobs' = jobs
  BY <1>1 DEF Return, CompleteJob
<1>4. ASSUME NEW r \in Reservations
      PROVE  (r \in Rows => r \in Rows') /\ (r \in Pending' => r \in Pending)
  <2>1. CASE SavePaid(a)
    BY <1>1, <2>1 DEF Rows, Pending
  <2>2. CASE ~SavePaid(a)
    BY <2>2 DEF tables, Rows, Pending
  <2> QED
    BY <2>1, <2>2
<1>5. ASSUME NEW r \in Reservations
      PROVE  /\ \A b \in Promoters : Scheduling(b, r) => Scheduling(b, r)'
             /\ \A w \in Workers : Expiring(w, r) => Expiring(w, r)' /\ job'[w] = job[w]
             /\ \A w \in Workers : Locking(w, r) => Locking(w, r)'
  BY <1>1, <1>2 DEF Scheduling, Expiring, Locking, OthersWork
<1> QED
  BY <1>2, <1>3, <1>4, <1>5, JobKept DEF JobInv

\* No job is abandoned.  A stall makes the job due again, or the second time leaves the reservation
\* to the worker that was processing it.
LEMMA StallJob ==
    ASSUME TypeInv, TypeInv', HandInv, JobInv, NEW n \in Reservations,
           StallRunning(n) \/ StallAbandoned(n)
    PROVE  JobInv'
<1>1. /\ jobs \in [Reservations -> Jobs] /\ mishaps \in Nat
      /\ jobs[n].attempts \in Nat /\ jobs[n].stalled \in BOOLEAN
  <2>1. jobs \in [Reservations -> Jobs] /\ mishaps \in Nat
    BY DEF TypeInv, ControlOK, StoresOK, WorldOK
  <2> QED
    BY <2>1 DEF Jobs
<1>2. /\ UNCHANGED <<status, lock, pc, res, job>> /\ mishaps <= mishaps'
      /\ Redeliver(n) /\ jobs[n].state = "active"
  BY <1>1 DEF StallRunning, StallAbandoned, Abandoned, Mishap, cache, tables, locals, world
<1>3. Rows' = Rows /\ Pending' = Pending
  BY <1>2 DEF Rows, Pending
<1>4. ASSUME NEW r \in Reservations
      PROVE  /\ \A b \in Promoters : Scheduling(b, r) => Scheduling(b, r)'
             /\ \A w \in Workers : Expiring(w, r) => Expiring(w, r)' /\ job'[w] = job[w]
             /\ \A w \in Workers : Locking(w, r) => Locking(w, r)'
  BY <1>2 DEF Scheduling, Expiring, Locking
<1>5. ASSUME NEW r \in Reservations, r # n PROVE JobOK(r)'
  <2>1. jobs'[r] = jobs[r]
    BY <1>1, <1>2, <1>5 DEF Redeliver
  <2> QED
    BY <1>2, <1>3, <1>4, <2>1, JobKept DEF JobInv
<1>6. JobOK(n)'
  <2>1. /\ jobs'[n].state = IF jobs[n].stalled THEN "failed" ELSE "delayed"
        /\ jobs'[n].holder = None /\ jobs'[n].attempts = jobs[n].attempts
        /\ jobs'[n].stalled = TRUE
    BY <1>1, <1>2 DEF Redeliver, Jobs
  <2>2. IsLocking(n) => IsLocking(n)'
    BY <1>4 DEF IsLocking
  <2>3. CASE StallRunning(n)
    <3>1. mishaps' = mishaps + 1 /\ "stall" \in Faults
      BY <2>3 DEF StallRunning, Mishap
    <3>2. /\ jobs'[n].attempts <= mishaps'
          /\ jobs'[n].attempts < mishaps'
      BY <1>1, <2>1, <3>1 DEF JobInv, JobOK
    <3>3. ASSUME jobs[n].stalled, InHand(n) PROVE GivenUp(n)'
      <4>1. mishaps' >= 2
        BY <1>1, <3>1, <3>3 DEF JobInv, JobOK
      <4> QED
        BY <1>4, <2>1, <3>1, <3>3, <4>1 DEF InHand, GivenUp
    <3>4. n \in Pending' => Watched(n)'
      BY <1>2, <1>3, <1>4, <2>1, <2>2, <3>3 DEF JobInv, JobOK, Watched, GivenUp
    <3> QED
      BY <1>2, <1>3, <2>1, <2>2, <3>2, <3>4 DEF JobInv, JobOK
  <2>4. CASE StallAbandoned(n)
    BY <2>4 DEF StallAbandoned, Abandoned, HandInv
  <2> QED
    BY <2>3, <2>4
<1> QED
  BY <1>5, <1>6 DEF JobInv

\* Time takes no watcher away: a lock is only lost when nobody works on it.
LEMMA EnvironmentJob ==
    ASSUME Watchful, TypeInv, TypeInv', HandInv, JobInv, Environment
    PROVE  JobInv'
<1>1. CASE \E r \in Reservations : StallRunning(r) \/ StallAbandoned(r)
  BY <1>1, StallJob
<1>2. CASE ~\E r \in Reservations : StallRunning(r) \/ StallAbandoned(r)
  <2>1. UNCHANGED <<jobs, status, pc, res, job>>
    BY <1>2 DEF Environment, InitializeSeats, OpenSales, CloseSales, Lapse, LockTTL, Mishap,
       KeyTTL, Crash, locals, tables, Watchful
  <2>2. mishaps <= mishaps'
    BY <1>2 DEF Environment, InitializeSeats, OpenSales, CloseSales, Lapse, LockTTL, Mishap,
       KeyTTL, Crash, world, Watchful, TypeInv, StoresOK, WorldOK
  <2>3. \A r \in Reservations : lock'[r] # "free" => lock[r] # "free"
    <3>1. lock \in [Reservations -> LockStates]
      BY DEF TypeInv, StoresOK, CacheOK
    <3> QED
      BY <1>2, <3>1 DEF Environment, InitializeSeats, OpenSales, CloseSales, Lapse, LockTTL,
         KeyTTL, Crash, cache
  <2>4. Rows' = Rows /\ Pending' = Pending
    BY <2>1 DEF Rows, Pending
  <2>5. ASSUME NEW r \in Reservations
        PROVE  /\ \A b \in Promoters : Scheduling(b, r) => Scheduling(b, r)'
               /\ \A w \in Workers : Expiring(w, r) => Expiring(w, r)' /\ job'[w] = job[w]
               /\ \A w \in Workers : Locking(w, r) => Locking(w, r)'
    BY <2>1 DEF Scheduling, Expiring, Locking
  <2> QED
    BY <2>1, <2>2, <2>3, <2>4, <2>5, JobKept DEF JobInv
<1> QED
  BY <1>1, <1>2

-----------------------------------------------------------------------------
(* Nobody is forgotten.                                                    *)

\* In every interleaving of promotions, payments, expirations, failures,
\* retries, stalls and lost locks that Watchful allows, an unpaid reservation is
\* watched by its job, by a worker or by the promoter about to add the job (7.1).
THEOREM PendingWatched ==
    ASSUME Watchful
    PROVE  Spec => []PendingIsWatched
<1> DEFINE IInv == TypeInv /\ ServiceInv /\ HandInv /\ JobInv
<1>1. Init => IInv
  <2> SUFFICES ASSUME Init PROVE HandInv /\ JobInv
    BY TypesInitially, ServiceInitially
  <2>1. ASSUME NEW r \in Reservations
        PROVE  /\ jobs[r] = NoJob /\ lock[r] = "free" /\ mishaps = 0 /\ r \notin Pending
    BY DEF Init, Pending
  <2>2. JobInv
    BY <2>1 DEF JobInv, JobOK, NoJob
  <2>3. HandInv
    BY <2>1 DEF Init, HandInv, NoJob, Actors, Promoters
  <2> QED
    BY <2>2, <2>3
<1>2. IInv /\ [Next]_vars => IInv'
  <2> SUFFICES ASSUME TypeInv, ServiceInv, HandInv, JobInv, TypeInv', [Next]_vars
               PROVE  HandInv' /\ JobInv'
    BY TypesPreserved, ServicePreserved
  <2>1. CASE UNCHANGED vars
    BY <2>1 DEF vars, cache, world, tables, locals, HandInv, JobInv, JobOK, Watched, InHand,
       IsLocking, Locking, GivenUp, Expiring, Scheduling, Rows, Pending
  <2>2. CASE Next
    <3>1. Crons \subseteq Promoters
      BY DEF Promoters
    <3>2. HandInv'
      BY <2>2, <3>1, PromotionHand, ExpiryHand, OtherHand DEF Next
    <3>3. ASSUME NEW w \in Workers, TakeJob(w) \/ ExpiryStep(w) \/ ExpiryThrows(w)
          PROVE  JobInv'
      BY <3>3, TakeJobJob, FindReservationJob, SetLockJob, LockedJob, ThrowJob DEF ExpiryStep
    <3>4. JobInv'
      BY <2>2, <3>1, <3>3, PromotionJob, RequestJob, EnvironmentJob DEF Next
    <3> QED
      BY <3>2, <3>4
  <2> QED
    BY <2>1, <2>2
<1>3. IInv => PendingIsWatched
  BY DEF JobInv, JobOK, Watched, InHand, IsLocking, Locking, LockingCalls, GivenUp, Expiring,
     PendingIsWatched, Pending
<1> QED
  BY <1>1, <1>2, <1>3, PTL DEF Spec

=============================================================================
