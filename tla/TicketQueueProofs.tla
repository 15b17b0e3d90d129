-------------------------- MODULE TicketQueueProofs --------------------------
(***************************************************************************)
(* Type correctness of the composed system, for every choice of the        *)
(* constants.  TypeOK is not inductive: the loop of promoteUsers decrements*)
(* its counter, so a promoter inside the loop must have an iteration left  *)
(* (InLoop), and a worker updates the reservation of its job, so it must   *)
(* have one (Working).  TypeInv adds both.  ServiceInv then says whom each *)
(* handler works for.                                                      *)
(***************************************************************************)
EXTENDS TicketQueue, TLAPS, FiniteSetTheorems

LoopCalls == PromotionCalls \ {"getActiveCount"}

\* inside the loop of promoteUsers at least one iteration is left
InLoop == \A a \in Promoters : pc[a] \in LoopCalls => slots[a] > 0

\* a worker processing a job has a reservation at hand
Working == \A w \in Workers : pc[w] \in ExpiryCalls => res[w] \in Reservations

StoresOK == CacheOK /\ TablesOK /\ WorldOK
ControlOK == /\ LocalsOK /\ HandlersOK /\ InLoop /\ Working
             /\ jobs \in [Reservations -> Jobs]
TypeInv == StoresOK /\ ControlOK

-----------------------------------------------------------------------------
(* What the control operators of TicketStore preserve.                     *)

\* A step of one actor that goes to a call of its own handler and writes its
\* variables and the jobs with values of their types.
LEMMA MoveControl ==
    ASSUME ControlOK, NEW a \in Actors, NEW c, Goto(a, c),
           a \in Crons => c \in PromotionCalls \cup {"idle"},
           a \in Workers => c \in PromotionCalls \cup ExpiryCalls \cup {"idle"},
           a \in Joiners => c \in JoinCalls \cup {"idle"},
           a \in Payers => c \in PayCalls \cup {"idle"},
           UNCHANGED slots,
           a \in Promoters /\ c \in LoopCalls => slots[a] > 0,
           user' \in [Actors -> Users \cup {None}],
           res' \in [Actors -> Reservations \cup {None}],
           \A b \in Actors \ {a} : res'[b] = res[b],
           a \in Workers /\ c \in ExpiryCalls => res'[a] \in Reservations,
           job' \in [Actors -> Reservations \cup {None}],
           jobs' \in [Reservations -> Jobs]
    PROVE  ControlOK'
<1>1. LocalsOK'
  BY DEF ControlOK, LocalsOK, Goto, Calls, Actors, Promoters
<1>2. HandlersOK'
  BY DEF ControlOK, LocalsOK, HandlersOK, Goto, Promoters, Actors
<1>3. InLoop'
  BY DEF ControlOK, LocalsOK, InLoop, LoopCalls, Goto, Promoters, Actors
<1>4. Working'
  BY DEF ControlOK, LocalsOK, Working, Goto, Promoters, Actors
<1> QED
  BY <1>1, <1>2, <1>3, <1>4 DEF ControlOK

\* A promoter goes on to another call of promoteUsers and keeps its variables.
LEMMA GotoControl ==
    ASSUME ControlOK, NEW a \in Promoters, NEW c \in PromotionCalls,
           Goto(a, c), UNCHANGED <<locals, jobs>>,
           c # "getActiveCount" => slots[a] > 0
    PROVE  ControlOK'
<1>1. /\ a \in Actors
      /\ a \notin Joiners \cup Payers
      /\ UNCHANGED <<slots, user, res, job, jobs>>
      /\ c \notin ExpiryCalls
  BY ActorAssumption DEF Actors, locals, PromotionCalls, TryCalls, SoldOutCalls,
     ExpiryCalls
<1> QED
  BY <1>1, MoveControl DEF ControlOK, LocalsOK, LoopCalls

\* A handler returns: its variables are reset, and a worker completes its job
\* if it still holds it.
LEMMA ReturnControl ==
    ASSUME ControlOK, NEW a \in Actors, Return(a)
    PROVE  ControlOK'
<1> USE DEF Return, Forget
<1>1. LocalsOK'
  BY DEF ControlOK, LocalsOK, Calls
<1>2. HandlersOK'
  BY DEF ControlOK, LocalsOK, HandlersOK, Promoters, Actors
<1>3. InLoop'
  BY DEF ControlOK, LocalsOK, InLoop, LoopCalls, PromotionCalls, TryCalls,
         SoldOutCalls, Promoters, Actors
<1>4. Working'
  BY DEF ControlOK, LocalsOK, Working, ExpiryCalls, Promoters, Actors
<1>5. jobs' \in [Reservations -> Jobs]
  BY DEF ControlOK, LocalsOK, CompleteJob, Holds, Jobs, JobStates, None
<1> QED
  BY <1>1, <1>2, <1>3, <1>4, <1>5 DEF ControlOK

\* The loop of promoteUsers starts another iteration or returns.
LEMMA LoopControl ==
    ASSUME ControlOK, NEW a \in Promoters, NEW n \in Nat, Loop(a, n)
    PROVE  ControlOK'
<1>1. CASE n = 0
  BY <1>1, ReturnControl DEF Loop, Actors
<1>2. CASE n # 0
  <2> USE <1>2 DEF Loop, Goto
  <2>1. LocalsOK'
    BY DEF ControlOK, LocalsOK, Calls, PromotionCalls
  <2>2. HandlersOK'
    BY ActorAssumption DEF ControlOK, LocalsOK, HandlersOK, Promoters, Actors,
       PromotionCalls
  <2>3. InLoop'
    BY DEF ControlOK, LocalsOK, InLoop, LoopCalls, Promoters, Actors
  <2>4. Working'
    BY DEF ControlOK, LocalsOK, Working, ExpiryCalls, Promoters, Actors
  <2> QED
    BY <2>1, <2>2, <2>3, <2>4 DEF ControlOK
<1> QED
  BY <1>1, <1>2

-----------------------------------------------------------------------------
(* Every handler preserves the types.                                      *)

\* Each call of promoteUsers and of what it calls preserves the types.
LEMMA PromotionTypes ==
    ASSUME TypeInv, NEW a \in Promoters, PromotionStep(a)
    PROVE  TypeInv'
<1> USE DEF TypeInv, StoresOK
<1> DEFINE Stays == UNCHANGED <<seats, cache, tables, world, credited>>
<1>1. ASSUME Stays PROVE StoresOK'
  BY <1>1 DEF CacheOK, TablesOK, WorldOK, cache, queue, active, tables, world
<1>2. /\ a \in Actors
      /\ a \notin Joiners \cup Payers
      /\ pc[a] \in LoopCalls => slots[a] > 0 /\ slots[a] - 1 \in Nat
      /\ user[a] \in Users \cup {None}
      /\ res[a] \in Reservations \cup {None}
  BY ActorAssumption DEF ControlOK, LocalsOK, InLoop, Promoters, Actors
<1>3. CASE GetActiveCount(a)
  <2>1. SlotsAvailable \in Nat
    BY BoundAssumption DEF SlotsAvailable, CacheOK
  <2> QED
    BY <1>1, <1>3, <2>1, LoopControl DEF GetActiveCount
<1>4. CASE GetNextInQueue(a)
  <2>1. CASE Return(a)
    BY <1>1, <1>2, <1>4, <2>1, ReturnControl DEF GetNextInQueue
  <2>2. ASSUME NEW u \in Users, user' = [user EXCEPT ![a] = u],
               Goto(a, "decrementSeats"), UNCHANGED <<jobs, slots, res, job>>
        PROVE  ControlOK'
    BY <1>2, <1>4, <2>2, MoveControl DEF GetNextInQueue, ControlOK, LocalsOK,
       LoopCalls, PromotionCalls, ExpiryCalls
  <2> QED
    BY <1>1, <1>4, <2>1, <2>2 DEF GetNextInQueue
<1>5. CASE DecrementSeats(a)
  <2>1. StoresOK'
    BY <1>2, <1>5 DEF DecrementSeats, Await,
       CacheOK, TablesOK, WorldOK, cache, queue, active, tables, world
  <2>2. ControlOK'
    BY <1>2, <1>5, GotoControl DEF DecrementSeats, Await, LoopCalls,
       PromotionCalls, TryCalls, SoldOutCalls, ExpiryCalls
  <2> QED
    BY <2>1, <2>2
<1>6. CASE SaveReservation(a)
  <2>1. StoresOK'
    BY <1>2, <1>6 DEF SaveReservation, Await, ReservationStatuses,
       CacheOK, TablesOK, WorldOK, cache, queue, active, tables, world
  <2>2. ControlOK'
    BY <1>2, <1>6, MoveControl DEF SaveReservation, Await, LoopCalls, ControlOK,
       LocalsOK, PromotionCalls, TryCalls, SoldOutCalls, ExpiryCalls
  <2> QED
    BY <2>1, <2>2
<1>7. CASE AddJob(a)
  <2>1. StoresOK'
    BY <1>2, <1>7, <1>1 DEF AddJob
  <2>2. ControlOK'
    BY <1>2, <1>7, MoveControl DEF AddJob, Await, LoopCalls, ControlOK,
       LocalsOK, locals, Jobs, JobStates, NoJob, PromotionCalls, TryCalls, SoldOutCalls, ExpiryCalls
  <2> QED
    BY <2>1, <2>2
<1>8. CASE SetActive(a)
  <2>1. StoresOK'
    BY <1>2, <1>8 DEF SetActive, Await, UpdateEntry, EntryStatuses,
       CacheOK, TablesOK, WorldOK, cache, queue, active, tables, world
  <2>2. ControlOK'
    BY <1>2, <1>8, GotoControl DEF SetActive, Await, LoopCalls,
       PromotionCalls, TryCalls, SoldOutCalls, ExpiryCalls
  <2> QED
    BY <2>1, <2>2
<1>9. CASE RemoveFromQueue(a)
  <2>1. StoresOK'
    BY <1>2, <1>9 DEF RemoveFromQueue, Await, ZRem,
       CacheOK, TablesOK, WorldOK, cache, queue, active, tables, world
  <2>2. ControlOK'
    BY <1>2, <1>9, GotoControl DEF RemoveFromQueue, Await, LoopCalls,
       PromotionCalls, TryCalls, SoldOutCalls, ExpiryCalls
  <2> QED
    BY <2>1, <2>2
<1>10. CASE SetexActive(a)
  <2>1. StoresOK'
    BY <1>2, <1>10 DEF SetexActive, Await,
       CacheOK, TablesOK, WorldOK, cache, queue, active, tables, world
  <2>2. ControlOK'
    BY <1>2, <1>10, GotoControl DEF SetexActive, Await, LoopCalls,
       PromotionCalls, TryCalls, SoldOutCalls, ExpiryCalls
  <2> QED
    BY <2>1, <2>2
<1>11. CASE IncrActiveCount(a)
  <2>1. StoresOK'
    BY <1>2, <1>11 DEF IncrActiveCount, Await,
       CacheOK, TablesOK, WorldOK, cache, queue, active, tables, world
  <2>2. ControlOK'
    BY <1>2, <1>11, LoopControl DEF IncrActiveCount, LoopCalls,
       PromotionCalls, TryCalls, SoldOutCalls, ExpiryCalls
  <2> QED
    BY <2>1, <2>2
<1>12. CASE UndoSeat(a)
  <2>1. StoresOK'
    BY <1>2, <1>12 DEF UndoSeat, Await,
       CacheOK, TablesOK, WorldOK, cache, queue, active, tables, world
  <2>2. ControlOK'
    BY <1>2, <1>12, ReturnControl DEF UndoSeat
  <2> QED
    BY <2>1, <2>2
<1>13. CASE RestoreSeat(a)
  <2>1. StoresOK'
    BY <1>2, <1>13 DEF RestoreSeat, Await,
       CacheOK, TablesOK, WorldOK, cache, queue, active, tables, world
  <2>2. ControlOK'
    BY <1>2, <1>13, GotoControl DEF RestoreSeat, Await, LoopCalls,
       PromotionCalls, TryCalls, SoldOutCalls, ExpiryCalls
  <2> QED
    BY <2>1, <2>2
<1>14. CASE MarkSoldOut(a)
  <2>1. StoresOK'
    BY <1>2, <1>14 DEF MarkSoldOut, Await, UpdateEntry, EntryStatuses,
       CacheOK, TablesOK, WorldOK, cache, queue, active, tables, world
  <2>2. ControlOK'
    BY <1>2, <1>14, GotoControl DEF MarkSoldOut, Await, LoopCalls,
       PromotionCalls, TryCalls, SoldOutCalls, ExpiryCalls
  <2> QED
    BY <2>1, <2>2
<1>15. CASE RemoveSoldOut(a)
  <2>1. StoresOK'
    BY <1>2, <1>15 DEF RemoveSoldOut, Await, ZRem,
       CacheOK, TablesOK, WorldOK, cache, queue, active, tables, world
  <2>2. ControlOK'
    BY <1>2, <1>15, ReturnControl DEF RemoveSoldOut
  <2> QED
    BY <2>1, <2>2
<1> QED
  BY <1>3, <1>4, <1>5, <1>6, <1>7, <1>8, <1>9, <1>10, <1>11, <1>12, <1>13, <1>14, <1>15 DEF PromotionStep

\* So do a tick of the cron and a promotion call that is rejected.
LEMMA PromotionFaultTypes ==
    ASSUME TypeInv, NEW a \in Promoters,
           StartCron(a) \/ (PromotionRejects(a) /\ mishaps' \in Nat)
    PROVE  TypeInv'
<1> USE DEF TypeInv, StoresOK
<1>1. StoresOK'
  BY DEF StartCron, PromotionRejects, CacheOK, TablesOK, WorldOK, cache, queue, active, tables,
     world
<1>2. /\ a \in Actors
      /\ a \notin Joiners \cup Payers
      /\ pc[a] \in LoopCalls => slots[a] > 0
  BY ActorAssumption DEF ControlOK, LocalsOK, InLoop, Promoters, Actors
<1>3. CASE StartCron(a)
  BY <1>1, <1>2, <1>3, GotoControl DEF StartCron, Await, PromotionCalls
<1>4. CASE PromotionRejects(a)
  BY <1>1, <1>2, <1>4, GotoControl, ReturnControl DEF PromotionRejects, LoopCalls,
     PromotionCalls, TryCalls
<1> QED
  BY <1>3, <1>4

\* What BullMQ writes to a job that did not complete is a job again.
LEMMA JobRecord ==
    ASSUME NEW j \in Jobs, NEW s \in JobStates, NEW n \in Nat, NEW b \in BOOLEAN
    PROVE  /\ [j EXCEPT !.state = s, !.attempts = n, !.holder = None] \in Jobs
           /\ [j EXCEPT !.state = s, !.stalled = b, !.holder = None] \in Jobs
  BY DEF Jobs

\* A failed job is delayed or failed with one more attempt counted.
LEMMA RetryTypes ==
    ASSUME ControlOK, NEW r \in Reservations
    PROVE  FailedJob(jobs[r]) \in Jobs
<1>1. /\ jobs[r] \in Jobs
      /\ jobs[r].attempts + 1 \in Nat
  BY DEF ControlOK, Jobs
<1>2. "delayed" \in JobStates /\ "failed" \in JobStates
  BY DEF JobStates
<1> QED
  BY <1>1, <1>2, JobRecord DEF FailedJob

\* Each call of expireReservation preserves the types.
LEMMA ExpiryTypes ==
    ASSUME TypeInv, NEW w \in Workers, ExpiryStep(w)
    PROVE  TypeInv'
<1> USE DEF TypeInv, StoresOK
<1>1. /\ w \in Actors
      /\ w \in Promoters
      /\ w \notin Joiners \cup Payers \cup Crons
      /\ user[w] \in Users \cup {None}
      /\ res[w] \in Reservations \cup {None}
      /\ pc[w] \in ExpiryCalls => res[w] \in Reservations
  BY ActorAssumption DEF ControlOK, LocalsOK, Working, Promoters, Actors
<1>2. /\ PromotionCalls \cap ExpiryCalls = {}
      /\ "idle" \notin PromotionCalls
  BY DEF PromotionCalls, TryCalls, SoldOutCalls, ExpiryCalls
<1>3. CASE FindReservation(w)
  <2>1. StoresOK'
    BY <1>1, <1>2, <1>3 DEF FindReservation, Await,
       CacheOK, TablesOK, WorldOK, cache, queue, active, tables, world
  <2>2. ControlOK'
    BY <1>1, <1>2, <1>3, MoveControl, ReturnControl DEF FindReservation,
       LoopCalls, ExpiryCalls, ControlOK, LocalsOK, TablesOK
  <2> QED
    BY <2>1, <2>2
<1>4. CASE SetLock(w)
  <2>1. StoresOK'
    BY <1>1, <1>2, <1>4 DEF SetLock, Await, LockStates,
       CacheOK, TablesOK, WorldOK, cache, queue, active, tables, world
  <2>2. ControlOK'
    BY <1>1, <1>2, <1>4, MoveControl, ReturnControl DEF SetLock, LoopCalls,
       ExpiryCalls, ControlOK, LocalsOK, locals
  <2> QED
    BY <2>1, <2>2
<1>5. CASE ExpireLock(w)
  <2>1. StoresOK'
    BY <1>1, <1>2, <1>5 DEF ExpireLock, Await, LockStates,
       CacheOK, TablesOK, WorldOK, cache, queue, active, tables, world
  <2>2. ControlOK'
    BY <1>1, <1>2, <1>5, MoveControl DEF ExpireLock, Await, LoopCalls, ExpiryCalls, locals,
       ControlOK, LocalsOK
  <2> QED
    BY <2>1, <2>2
<1>6. CASE IncrementSeats(w)
  <2>1. StoresOK'
    BY <1>1, <1>2, <1>6 DEF IncrementSeats, Await, locals, ExpiryCalls,
       CacheOK, TablesOK, WorldOK, cache, queue, active, tables, world
  <2>2. ControlOK'
    BY <1>1, <1>2, <1>6, MoveControl DEF IncrementSeats, Await, LoopCalls, ExpiryCalls, locals,
       ControlOK, LocalsOK
  <2> QED
    BY <2>1, <2>2
<1>7. CASE MarkExpired(w)
  <2>1. StoresOK'
    BY <1>1, <1>2, <1>7 DEF MarkExpired, Await, ReservationStatuses,
       CacheOK, TablesOK, WorldOK, cache, queue, active, tables, world
  <2>2. ControlOK'
    BY <1>1, <1>2, <1>7, MoveControl DEF MarkExpired, Await, LoopCalls, ExpiryCalls, locals,
       ControlOK, LocalsOK
  <2> QED
    BY <2>1, <2>2
<1>8. CASE ExpireEntry(w)
  <2>1. StoresOK'
    BY <1>1, <1>2, <1>8 DEF ExpireEntry, Await, UpdateEntry, EntryStatuses,
       CacheOK, TablesOK, WorldOK, cache, queue, active, tables, world
  <2>2. ControlOK'
    BY <1>1, <1>2, <1>8, MoveControl DEF ExpireEntry, Await, LoopCalls, ExpiryCalls, locals,
       ControlOK, LocalsOK
  <2> QED
    BY <2>1, <2>2
<1>9. CASE DelActive(w)
  <2>1. StoresOK'
    BY <1>1, <1>2, <1>9 DEF DelActive, Await,
       CacheOK, TablesOK, WorldOK, cache, queue, active, tables, world
  <2>2. ControlOK'
    BY <1>1, <1>2, <1>9, MoveControl DEF DelActive, TriggerPromotion,
       LoopCalls, ExpiryCalls, PromotionCalls, ControlOK, LocalsOK, locals
  <2> QED
    BY <2>1, <2>2
<1>10. CASE DecrActiveCount(w)
  <2>1. StoresOK'
    BY <1>1, <1>2, <1>10 DEF DecrActiveCount, Await,
       CacheOK, TablesOK, WorldOK, cache, queue, active, tables, world
  <2>2. ControlOK'
    BY <1>1, <1>2, <1>10, MoveControl DEF DecrActiveCount, TriggerPromotion,
       LoopCalls, PromotionCalls, ControlOK, LocalsOK
  <2> QED
    BY <2>1, <2>2
<1> QED
  BY <1>3, <1>4, <1>5, <1>6, <1>7, <1>8, <1>9, <1>10 DEF ExpiryStep

\* So do handing a job to a worker and an expiration call that is rejected.
LEMMA JobTypes ==
    ASSUME TypeInv, NEW w \in Workers,
           TakeJob(w) \/ (ExpiryRejects(w) /\ mishaps' \in Nat)
    PROVE  TypeInv'
<1> USE DEF TypeInv, StoresOK
<1>1. /\ w \in Actors
      /\ w \in Promoters
      /\ w \notin Joiners \cup Payers \cup Crons
      /\ user[w] \in Users \cup {None}
      /\ res[w] \in Reservations \cup {None}
      /\ pc[w] \in ExpiryCalls => res[w] \in Reservations
  BY ActorAssumption DEF ControlOK, LocalsOK, Working, Promoters, Actors
<1>2. /\ PromotionCalls \cap ExpiryCalls = {}
      /\ "idle" \notin PromotionCalls
  BY DEF PromotionCalls, TryCalls, SoldOutCalls, ExpiryCalls
<1>3. StoresOK'
  <2> USE DEF CacheOK, TablesOK, WorldOK, cache, queue, active, tables, world
  <2>1. CASE TakeJob(w)
    BY <2>1 DEF TakeJob
  <2>2. CASE ExpiryRejects(w) /\ mishaps' \in Nat
    BY <2>2 DEF ExpiryRejects
  <2> QED
    BY <2>1, <2>2
<1>4. CASE TakeJob(w)
  <2>1. PICK r \in lapsed :
          /\ jobs' = [jobs EXCEPT ![r] = [@ EXCEPT !.state = "active", !.holder = w]]
          /\ job' = [job EXCEPT ![w] = r]
          /\ res' = [res EXCEPT ![w] = r]
    BY <1>4 DEF TakeJob
  <2>2. r \in Reservations
    BY DEF WorldOK
  <2>3. jobs' \in [Reservations -> Jobs]
    BY <2>1, <2>2 DEF ControlOK, Jobs, JobStates
  <2>4. /\ Goto(w, "findReservation")
        /\ UNCHANGED <<slots, user>>
        /\ "findReservation" \in ExpiryCalls
        /\ "findReservation" \notin LoopCalls
    BY <1>4 DEF TakeJob, Await, ExpiryCalls, LoopCalls, PromotionCalls, TryCalls,
       SoldOutCalls
  <2>5. /\ user' \in [Actors -> Users \cup {None}]
        /\ res' \in [Actors -> Reservations \cup {None}]
        /\ job' \in [Actors -> Reservations \cup {None}]
        /\ \A b \in Actors \ {w} : res'[b] = res[b]
        /\ res'[w] \in Reservations
    BY <1>1, <2>1, <2>2, <2>4 DEF ControlOK, LocalsOK
  <2>6. ControlOK'
    BY <1>1, <2>3, <2>4, <2>5, MoveControl
  <2> QED
    BY <1>3, <2>6
<1>5. CASE ExpiryRejects(w)
  <2>1. jobs' \in [Reservations -> Jobs]
    <3>1. CASE Holds(w)
      BY <1>1, <1>5, <3>1, RetryTypes DEF ExpiryRejects, Holds, ControlOK, LocalsOK
    <3>2. CASE ~Holds(w)
      BY <1>5, <3>2 DEF ExpiryRejects, ControlOK
    <3> QED
      BY <3>1, <3>2
  <2>2. LocalsOK' /\ HandlersOK' /\ InLoop' /\ Working'
    BY <1>1, <1>2, <1>5 DEF ExpiryRejects, Forget, ControlOK, LocalsOK, HandlersOK,
       InLoop, Working, LoopCalls, ExpiryCalls, Calls, Promoters, Actors
  <2> QED
    BY <1>3, <2>1, <2>2 DEF ControlOK
<1> QED
  BY <1>4, <1>5

\* Each call of joinQueue and processPayment preserves the types.
LEMMA RequestTypes ==
    ASSUME TypeInv, NEW a \in Joiners \cup Payers, RequestStep(a)
    PROVE  TypeInv'
<1> USE DEF TypeInv, StoresOK
<1>1. /\ a \in Actors
      /\ a \notin Promoters
      /\ user[a] \in Users \cup {None}
      /\ res[a] \in Reservations \cup {None}
      /\ a \in Joiners => pc[a] \in JoinCalls \cup {"idle"}
      /\ a \in Payers => pc[a] \in PayCalls \cup {"idle"}
      /\ a \notin Joiners \cap Payers
  BY ActorAssumption DEF ControlOK, LocalsOK, HandlersOK, Actors
<1>2. a \notin Crons /\ a \notin Workers
  BY <1>1 DEF Promoters
<1>3. CASE FindEntry(a)
  <2>1. StoresOK'
    BY <1>2, <1>3 DEF FindEntry, Await,
       CacheOK, TablesOK, WorldOK, cache, queue, active, tables, world
  <2>2. ControlOK'
    BY <1>2, <1>3, <1>1, ReturnControl, MoveControl DEF FindEntry,
       JoinCalls, PayCalls, ControlOK, LocalsOK, locals
  <2> QED
    BY <2>1, <2>2
<1>4. CASE AddToQueue(a)
  <2>1. StoresOK'
    BY <1>2, <1>4 DEF AddToQueue, Await, ZAdd,
       CacheOK, TablesOK, WorldOK, cache, queue, active, tables, world
  <2>2. ControlOK'
    BY <1>2, <1>4, <1>1, MoveControl DEF AddToQueue, Await, locals,
       JoinCalls, PayCalls, ControlOK, LocalsOK
  <2> QED
    BY <2>1, <2>2
<1>5. CASE SaveEntry(a)
  <2>1. StoresOK'
    BY <1>2, <1>5 DEF SaveEntry, Await, EntryStatuses,
       CacheOK, TablesOK, WorldOK, cache, queue, active, tables, world
  <2>2. ControlOK'
    BY <1>2, <1>5, <1>1, ReturnControl DEF SaveEntry
  <2> QED
    BY <2>1, <2>2
<1>6. CASE SavePaid(a)
  <2>1. StoresOK'
    BY <1>2, <1>6 DEF SavePaid, Await, ReservationStatuses,
       CacheOK, TablesOK, WorldOK, cache, queue, active, tables, world
  <2>2. ControlOK'
    BY <1>2, <1>6, <1>1, MoveControl DEF SavePaid, Await, locals,
       JoinCalls, PayCalls, ControlOK, LocalsOK
  <2> QED
    BY <2>1, <2>2
<1>7. CASE MarkDone(a)
  <2>1. StoresOK'
    BY <1>2, <1>7 DEF MarkDone, Await, UpdateEntry, EntryStatuses,
       CacheOK, TablesOK, WorldOK, cache, queue, active, tables, world
  <2>2. ControlOK'
    BY <1>2, <1>7, <1>1, ReturnControl DEF MarkDone
  <2> QED
    BY <2>1, <2>2
<1> QED
  BY <1>3, <1>4, <1>5, <1>6, <1>7 DEF RequestStep

\* So do the arrival of a request and a request call that is rejected.
LEMMA RequestStartTypes ==
    ASSUME TypeInv, NEW a \in Joiners \cup Payers,
           \/ a \in Joiners /\ JoinQueue(a)
           \/ a \in Payers /\ FindPayable(a)
           \/ RequestRejects(a) /\ mishaps' \in Nat
    PROVE  TypeInv'
<1> USE DEF TypeInv, StoresOK
<1>1. /\ a \in Actors
      /\ a \notin Promoters
      /\ user[a] \in Users \cup {None}
      /\ res[a] \in Reservations \cup {None}
      /\ a \in Joiners => pc[a] \in JoinCalls \cup {"idle"}
      /\ a \in Payers => pc[a] \in PayCalls \cup {"idle"}
      /\ a \notin Joiners \cap Payers
  BY ActorAssumption DEF ControlOK, LocalsOK, HandlersOK, Actors
<1>2. a \notin Crons /\ a \notin Workers
  BY <1>1 DEF Promoters
<1>3. StoresOK'
  BY DEF JoinQueue, FindPayable, RequestRejects, CacheOK, TablesOK, WorldOK,
     cache, queue, active, tables, world
<1>4. CASE a \in Joiners /\ JoinQueue(a)
  BY <1>1, <1>2, <1>3, <1>4, MoveControl DEF JoinQueue, Await, JoinCalls, ControlOK,
     LocalsOK
<1>5. CASE a \in Payers /\ FindPayable(a)
  BY <1>1, <1>2, <1>3, <1>5, MoveControl DEF FindPayable, Await, PayCalls, ControlOK,
     LocalsOK, TablesOK
<1>6. CASE RequestRejects(a)
  BY <1>1, <1>3, <1>6, ReturnControl DEF RequestRejects
<1> QED
  BY <1>4, <1>5, <1>6

\* Provisioning, the sales window, expiring keys and reservations, stalled
\* jobs and crashes preserve the types.
LEMMA EnvironmentTypes ==
    ASSUME TypeInv, Environment
    PROVE  TypeInv'
<1> USE DEF TypeInv, StoresOK
<1>1. ASSUME UNCHANGED <<pc, locals, jobs>> PROVE ControlOK'
  BY <1>1 DEF ControlOK, LocalsOK, HandlersOK, InLoop, Working, locals
<1> USE DEF cache, queue, active, tables, world, CacheOK, TablesOK, WorldOK
<1>2. CASE InitializeSeats
  BY <1>1, <1>2, BoundAssumption DEF InitializeSeats
<1>3. CASE OpenSales \/ CloseSales
  BY <1>1, <1>3 DEF OpenSales, CloseSales
<1>4. ASSUME NEW r \in Reservations, Lapse(r) \/ LockTTL(r) PROVE TypeInv'
  BY <1>1, <1>4 DEF Lapse, LockTTL, Mishap, LockStates
<1>5. ASSUME NEW r \in Reservations, StallAbandoned(r) \/ StallRunning(r)
      PROVE  TypeInv'
  <2>1. StoresOK' /\ UNCHANGED <<pc, locals>>
    BY <1>5 DEF StallAbandoned, StallRunning, Mishap
  <2>2. jobs' \in [Reservations -> Jobs]
    <3>1. /\ jobs[r] \in Jobs
          /\ {"delayed", "failed"} \subseteq JobStates
      BY DEF ControlOK, JobStates
    <3>2. [jobs[r] EXCEPT !.state = IF jobs[r].stalled THEN "failed" ELSE "delayed",
                          !.stalled = TRUE, !.holder = None] \in Jobs
      BY <3>1, JobRecord
    <3> QED
      BY <1>5, <3>2 DEF StallAbandoned, StallRunning, Redeliver, ControlOK
  <2> QED
    BY <2>1, <2>2 DEF ControlOK, LocalsOK, HandlersOK, InLoop, Working, locals
<1>6. ASSUME NEW u \in Users, KeyTTL(u) PROVE TypeInv'
  BY <1>1, <1>6 DEF KeyTTL
<1>7. ASSUME NEW I \in Instances, Crash(I) PROVE TypeInv'
  <2>1. StoresOK' /\ UNCHANGED jobs
    BY <1>7 DEF Crash, Mishap
  <2>2. LocalsOK'
    BY <1>7 DEF Crash, ControlOK, LocalsOK, Calls
  <2>3. HandlersOK' /\ InLoop' /\ Working'
    BY <1>7, <2>2 DEF Crash, ControlOK, LocalsOK, HandlersOK, InLoop, Working,
       LoopCalls, ExpiryCalls, Actors, Promoters, PromotionCalls, TryCalls, SoldOutCalls
  <2> QED
    BY <2>1, <2>2, <2>3 DEF ControlOK
<1> QED
  BY <1>2, <1>3, <1>4, <1>5, <1>6, <1>7 DEF Environment

-----------------------------------------------------------------------------
\* Every step of the system preserves the types.
LEMMA TypesPreserved ==
    ASSUME TypeInv, [Next]_vars
    PROVE  TypeInv'
<1>1. CASE UNCHANGED vars
  BY <1>1 DEF vars, cache, queue, active, tables, world, locals, TypeInv, StoresOK,
     CacheOK, TablesOK, WorldOK, ControlOK, LocalsOK, HandlersOK, InLoop, Working
<1>2. CASE Next
  <2>1. Crons \subseteq Promoters /\ Workers \subseteq Promoters
    BY DEF Promoters
  <2>2. \A c : Mishap(c) => mishaps' \in Nat
    BY DEF Mishap, TypeInv, StoresOK, WorldOK
  <2>3. \A a : /\ PromotionThrows(a) => PromotionRejects(a) /\ mishaps' \in Nat
               /\ ExpiryThrows(a) => ExpiryRejects(a) /\ mishaps' \in Nat
               /\ RequestThrows(a) => RequestRejects(a) /\ mishaps' \in Nat
    BY <2>2 DEF PromotionThrows, ExpiryThrows, RequestThrows
  <2> QED
    BY <1>2, <2>1, <2>3, PromotionTypes, PromotionFaultTypes, ExpiryTypes, JobTypes,
       RequestTypes, RequestStartTypes, EnvironmentTypes DEF Next
<1> QED
  BY <1>1, <1>2

\* In the initial state nothing is stored and no handler is running.
LEMMA TypesInitially == ASSUME Init PROVE TypeInv
<1> USE DEF Init
<1>1. CacheOK
  BY DEF CacheOK, LockStates
<1>2. TablesOK
  BY DEF TablesOK, EntryStatuses, ReservationStatuses
<1>3. WorldOK
  BY DEF WorldOK
<1>4. LocalsOK /\ HandlersOK
  BY DEF LocalsOK, HandlersOK, Calls, Actors, Promoters
<1>5. InLoop /\ Working
  BY DEF InLoop, Working, LoopCalls, PromotionCalls, TryCalls, SoldOutCalls,
     ExpiryCalls, Actors, Promoters
<1>6. jobs \in [Reservations -> Jobs]
  BY DEF NoJob, Jobs, JobStates
<1> QED
  BY <1>1, <1>2, <1>3, <1>4, <1>5, <1>6 DEF TypeInv, StoresOK, ControlOK

\* Whatever the interleaving and the failures, the stores and the handlers'
\* variables keep the values the code gives them: counters are integers, every
\* actor is at a call of its own handler, and a promoter inside the loop of
\* promoteUsers has an iteration left.
THEOREM TypeCorrect == Spec => []TypeOK
<1>1. Init => TypeInv
  BY TypesInitially
<1>2. TypeInv /\ [Next]_vars => TypeInv'
  BY TypesPreserved
<1>3. TypeInv => TypeOK
  BY DEF TypeInv, StoresOK, ControlOK, TypeOK
<1> QED
  BY <1>1, <1>2, <1>3, PTL DEF Spec

-----------------------------------------------------------------------------
(* Whom a handler works for.                                               *)

\* the calls before a handler has read whom it works for
BlankCalls == {"idle", "getActiveCount", "getNextInQueue", "findReservation"}

\* the calls at which a handler holds a reservation it created or has read
RowCalls == AfterSave \cup (ExpiryCalls \ {"findReservation"}) \cup PayCalls

\* it knows a user, and the reservation it holds is a row of that user
Serves(a) ==
    /\ pc[a] \notin BlankCalls => user[a] \in Users
    /\ pc[a] \in RowCalls => res[a] \in Rows /\ owner[res[a]] = user[a]

ServiceInv == /\ \A a \in Actors : Serves(a)
              /\ \A r \in Rows : owner[r] \in Users

\* the other actors stay where they are and keep what they hold
OthersHold(a) == \A b \in Actors \ {a} :
                    pc'[b] = pc[b] /\ res'[b] = res[b] /\ user'[b] = user[b]

\* A step of one handler that removes no row and gives none to another user.
LEMMA ServiceKept ==
    ASSUME ServiceInv, NEW a \in Actors, OthersHold(a), Serves(a)',
           Rows \subseteq Rows', \A r \in Rows : owner'[r] = owner[r],
           \A r \in Rows' \ Rows : owner'[r] \in Users
    PROVE  ServiceInv'
<1>1. ASSUME NEW b \in Actors \ {a} PROVE Serves(b)'
  BY <1>1 DEF ServiceInv, Serves, OthersHold
<1> QED
  BY <1>1 DEF ServiceInv

\* A promotion works for the head it has read, and the row it inserts is his.
LEMMA PromotionService ==
    ASSUME TypeInv, ServiceInv, NEW a \in Promoters,
           StartCron(a) \/ PromotionStep(a) \/ PromotionRejects(a)
    PROVE  ServiceInv'
<1>1. /\ a \in Actors
      /\ pc \in [Actors -> Calls] /\ res \in [Actors -> Reservations \cup {None}]
      /\ user \in [Actors -> Users \cup {None}]
      /\ status \in [Reservations -> ReservationStatuses]
      /\ owner \in [Reservations -> Users \cup {None}]
  BY DEF Actors, TypeInv, ControlOK, LocalsOK, StoresOK, TablesOK
<1>2. CASE SaveReservation(a)
  <2>1. PICK r \in Reservations \ Rows :
          /\ status' = [status EXCEPT ![r] = "PENDING_PAYMENT"]
          /\ owner' = [owner EXCEPT ![r] = user[a]]
          /\ res' = [res EXCEPT ![a] = r]
    BY <1>2 DEF SaveReservation, IsFresh
  <2>2. /\ user[a] \in Users /\ user' = user
        /\ pc[a] = "saveReservation" /\ pc' = [pc EXCEPT ![a] = "addJob"]
    BY <1>1, <1>2 DEF SaveReservation, Await, Goto, ServiceInv, Serves, BlankCalls
  <2>3. Rows' = Rows \cup {r}
    BY <1>1, <2>1 DEF Rows
  <2>4. OthersHold(a) /\ Serves(a)'
    BY <1>1, <2>1, <2>2, <2>3 DEF OthersHold, Serves
  <2> QED
    BY <1>1, <2>1, <2>2, <2>3, <2>4, ServiceKept
<1>3. CASE ~SaveReservation(a)
  <2> USE <1>3 DEF StartCron, PromotionStep, PromotionRejects, GetActiveCount,
          GetNextInQueue, DecrementSeats, AddJob, SetActive, RemoveFromQueue, SetexActive,
          IncrActiveCount, UndoSeat, RestoreSeat, MarkSoldOut, RemoveSoldOut, Await
  <2>1. UNCHANGED <<status, owner>>
    BY DEF tables
  <2>2. OthersHold(a)
    BY <1>1 DEF Loop, Goto, Return, Forget, OthersHold, locals
  <2>3. Serves(a)'
    <3>1. CASE pc'[a] \in BlankCalls
      BY <3>1 DEF Serves, BlankCalls, RowCalls, AfterSave, TryCalls, ExpiryCalls, PayCalls
    <3>2. CASE pc'[a] \notin BlankCalls
      <4>1. /\ \/ pc'[a] = "decrementSeats" /\ user'[a] \in Users
               \/ /\ pc[a] \notin BlankCalls
                  /\ UNCHANGED <<user, res>>
            /\ pc'[a] \in RowCalls => pc[a] \in RowCalls
        BY <1>1, <3>2 DEF Loop, Goto, Return, Forget, locals, BlankCalls, RowCalls,
           AfterSave, TryCalls, PromotionCalls, SoldOutCalls, ExpiryCalls, PayCalls
      <4> QED
        BY <1>1, <2>1, <3>2, <4>1 DEF Serves, ServiceInv, Rows, RowCalls, AfterSave, TryCalls,
           ExpiryCalls, PayCalls
    <3> QED
      BY <3>1, <3>2
  <2> QED
    BY <1>1, <2>1, <2>2, <2>3, ServiceKept DEF Rows
<1> QED
  BY <1>2, <1>3

\* An expiration works for the owner of the row it has read.
LEMMA ExpiryService ==
    ASSUME TypeInv, ServiceInv, NEW w \in Workers,
           TakeJob(w) \/ ExpiryStep(w) \/ ExpiryRejects(w)
    PROVE  ServiceInv'
<1> USE DEF ExpiryStep, ExpiryRejects, TakeJob, FindReservation, SetLock,
            ExpireLock, IncrementSeats, MarkExpired, ExpireEntry, DelActive,
            DecrActiveCount, Await
<1>1. /\ w \in Actors
      /\ pc \in [Actors -> Calls] /\ res \in [Actors -> Reservations \cup {None}]
      /\ user \in [Actors -> Users \cup {None}]
      /\ status \in [Reservations -> ReservationStatuses]
      /\ pc[w] \in ExpiryCalls => res[w] \in Reservations
  BY DEF Actors, Promoters, TypeInv, ControlOK, LocalsOK, StoresOK, TablesOK, Working
<1>2. owner' = owner
  BY DEF tables
<1>3. Rows' = Rows
  <2>1. CASE MarkExpired(w)
    <3>1. res[w] \in Rows /\ status' = [status EXCEPT ![res[w]] = "EXPIRED"]
      BY <1>1, <2>1 DEF ServiceInv, Serves, RowCalls, ExpiryCalls
    <3> QED
      BY <1>1, <3>1 DEF Rows
  <2>2. CASE ~MarkExpired(w)
    BY <2>2 DEF tables, Rows
  <2> QED
    BY <2>1, <2>2
<1>4. OthersHold(w)
  BY <1>1 DEF Goto, Return, Forget, TriggerPromotion, OthersHold, locals
<1>5. Serves(w)'
  <2>1. CASE pc'[w] \in BlankCalls
    BY <2>1 DEF Serves, BlankCalls, RowCalls, AfterSave, TryCalls, ExpiryCalls, PayCalls
  <2>2. CASE pc'[w] \notin BlankCalls /\ FindReservation(w)
    <3>1. /\ res[w] \in Rows /\ user' = [user EXCEPT ![w] = owner[res[w]]]
          /\ UNCHANGED res
      BY <1>1, <2>2 DEF Return, Forget, BlankCalls, Rows, ExpiryCalls
    <3> QED
      BY <1>1, <1>2, <1>3, <3>1 DEF Serves, ServiceInv
  <2>3. CASE pc'[w] \notin BlankCalls /\ ~FindReservation(w)
    <3>1. UNCHANGED <<user, res>> /\ pc[w] \in ExpiryCalls \ {"findReservation"}
      BY <1>1, <2>3 DEF Goto, Return, Forget, TriggerPromotion, BlankCalls, locals, ExpiryCalls
    <3> QED
      BY <1>1, <1>2, <1>3, <3>1 DEF Serves, ServiceInv, RowCalls, BlankCalls, ExpiryCalls
  <2> QED
    BY <2>1, <2>2, <2>3
<1> QED
  BY <1>1, <1>2, <1>3, <1>4, <1>5, ServiceKept

\* A request works for the user who sent it, and pays a reservation of his.
LEMMA RequestService ==
    ASSUME TypeInv, ServiceInv, NEW a \in Joiners \cup Payers,
           \/ a \in Joiners /\ JoinQueue(a)
           \/ a \in Payers /\ FindPayable(a)
           \/ RequestStep(a) \/ RequestRejects(a)
    PROVE  ServiceInv'
<1> USE DEF RequestStep, RequestRejects, JoinQueue, FindPayable,
        FindEntry, AddToQueue, SaveEntry, SavePaid, MarkDone, Await
<1>1. /\ a \in Actors
      /\ pc \in [Actors -> Calls] /\ res \in [Actors -> Reservations \cup {None}]
      /\ user \in [Actors -> Users \cup {None}]
      /\ status \in [Reservations -> ReservationStatuses]
  BY DEF Actors, TypeInv, ControlOK, LocalsOK, StoresOK, TablesOK
<1>2. owner' = owner
  BY DEF tables
<1>3. Rows' = Rows
  <2>1. CASE SavePaid(a)
    <3>1. res[a] \in Rows /\ status' = [status EXCEPT ![res[a]] = "PAID"]
      BY <1>1, <2>1 DEF ServiceInv, Serves, RowCalls, PayCalls
    <3> QED
      BY <1>1, <3>1 DEF Rows
  <2>2. CASE ~SavePaid(a)
    BY <2>2 DEF tables, Rows
  <2> QED
    BY <2>1, <2>2
<1>4. OthersHold(a)
  BY <1>1 DEF Goto, Return, Forget, OthersHold, locals
<1>5. Serves(a)'
  <2>1. CASE pc'[a] \in BlankCalls
    BY <2>1 DEF Serves, BlankCalls, RowCalls, AfterSave, TryCalls, ExpiryCalls, PayCalls
  <2>2. CASE pc'[a] \notin BlankCalls /\ a \in Joiners /\ JoinQueue(a)
    BY <1>1, <2>2 DEF Goto, Serves, RowCalls, AfterSave, TryCalls, ExpiryCalls, PayCalls
  <2>3. CASE pc'[a] \notin BlankCalls /\ a \in Payers /\ FindPayable(a)
    <3>1. PICK r \in Pending : /\ res' = [res EXCEPT ![a] = r]
                               /\ user' = [user EXCEPT ![a] = owner[r]]
      BY <2>3 DEF Payable
    <3>2. res'[a] = r /\ user'[a] = owner[r] /\ r \in Rows
      BY <1>1, <3>1 DEF Pending, Rows
    <3> QED
      BY <1>2, <1>3, <3>2 DEF Serves, ServiceInv
  <2>4. CASE pc'[a] \notin BlankCalls /\ (RequestStep(a) \/ RequestRejects(a))
    <3>1. /\ UNCHANGED <<user, res>>
          /\ pc[a] \notin BlankCalls
          /\ pc'[a] \in RowCalls => pc[a] \in RowCalls
      BY <1>1, <2>4 DEF Goto, Return, Forget, BlankCalls, locals, RowCalls, AfterSave,
         TryCalls, ExpiryCalls, JoinCalls, PayCalls
    <3> QED
      BY <1>1, <1>2, <1>3, <3>1 DEF Serves, ServiceInv
  <2> QED
    BY <2>1, <2>2, <2>3, <2>4
<1> QED
  BY <1>1, <1>2, <1>3, <1>4, <1>5, ServiceKept

\* Time passes without touching a handler; a crash leaves blank ones.
LEMMA EnvironmentService ==
    ASSUME TypeInv, ServiceInv, Environment
    PROVE  ServiceInv'
<1>1. UNCHANGED <<status, owner>>
  BY DEF Environment, InitializeSeats, OpenSales, CloseSales, Lapse, LockTTL,
     StallRunning, StallAbandoned, KeyTTL, Crash, tables
<1>2. ASSUME NEW a \in Actors
      PROVE  \/ pc'[a] = "idle"
             \/ pc'[a] = pc[a] /\ user'[a] = user[a] /\ res'[a] = res[a]
  <2>1. CASE \E I \in Instances : Crash(I)
    BY <1>2, <2>1 DEF Crash
  <2>2. CASE ~\E I \in Instances : Crash(I)
    BY <2>2 DEF Environment, InitializeSeats, OpenSales, CloseSales, Lapse, LockTTL,
       StallRunning, StallAbandoned, KeyTTL, locals
  <2> QED
    BY <2>1, <2>2
<1>3. ASSUME NEW a \in Actors PROVE Serves(a)'
  BY <1>1, <1>2, <1>3 DEF ServiceInv, Serves, Rows, BlankCalls, RowCalls, AfterSave,
     TryCalls, ExpiryCalls, PayCalls
<1> QED
  BY <1>1, <1>3 DEF ServiceInv, Rows

\* Nobody is served yet.
LEMMA ServiceInitially ==
    Init => ServiceInv
  BY DEF Init, ServiceInv, Serves, Rows, BlankCalls, RowCalls, AfterSave, TryCalls,
     ExpiryCalls, PayCalls

\* Every step keeps the handlers with their users and reservations.
LEMMA ServicePreserved ==
    ASSUME TypeInv, ServiceInv, [Next]_vars
    PROVE  ServiceInv'
<1>1. CASE UNCHANGED vars
  BY <1>1 DEF vars, locals, tables, ServiceInv, Serves, Rows
<1>2. CASE Next
  <2>1. Crons \subseteq Promoters
    BY DEF Promoters
  <2> QED
    BY <1>2, <2>1, PromotionService, ExpiryService, RequestService, EnvironmentService
       DEF Next, PromotionThrows, ExpiryThrows, RequestThrows
<1> QED
  BY <1>1, <1>2

=============================================================================
