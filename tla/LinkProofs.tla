----------------------------- MODULE LinkProofs -----------------------------
(***************************************************************************)
(* Proofs about the sale with its Redis clients.  The seats stay in        *)
(* balance through broken connections, commands executed twice and clients *)
(* that have ended, as long as no INCR of the seat counter is executed     *)
(* twice (IncrOnce): that creates a seat.  A client that has ended rejects *)
(* every call of its instance, those after a reservation was saved         *)
(* included, which Benign forbids to single failures: the catch block then *)
(* has a reservation in its hands, and what keeps it from giving the seat  *)
(* back a second time is that its own INCR is rejected too (UndoCut).      *)
(***************************************************************************)
EXTENDS SeatProofs, RedisConnection

\* no INCR of the seat counter is executed twice
IncrOnce == Resent \cap {"incrementSeats", "undoSeat", "restoreSeat"} = {}

LinkOK == link \in [Instances -> {"ready", "reconnecting", "end"}]

\* who is in the catch block with a reservation has a client that has ended
UndoCut == \A a \in Promoters : pc[a] = "undoSeat" => res[a] = None \/ Cut(a)

LinkInv == TypeInv /\ ServiceInv /\ SeatInv /\ LinkOK /\ UndoCut

-----------------------------------------------------------------------------
(* The steps.                                                              *)

\* a step of a handler whose connection is up
Answered(a) == /\ Served(a)
               /\ Next
               /\ Advances(a) \/ (a \in Promoters /\ PromotionThrows(a))
               /\ UNCHANGED links

\* a call is rejected by a client that has ended
CutOff(a) == /\ Cut(a)
             /\ \/ a \in Promoters /\ PromotionRejects(a)
                \/ a \in Workers /\ ExpiryRejects(a)
                \/ a \in Joiners \cup Payers /\ RequestRejects(a)
             /\ UNCHANGED <<mishaps, links>>

\* no client that has ended comes back
StayEnded == \A I \in Instances : link[I] = "end" => link'[I] = "end"

\* An actor's call tells which handler it runs.
LEMMA Callers ==
    ASSUME TypeInv, NEW a \in Actors
    PROVE  /\ pc[a] \in PromotionCalls => a \in Promoters
           /\ pc[a] \in ExpiryCalls => a \in Workers
           /\ pc[a] \in JoinCalls \cup PayCalls => a \in Joiners \cup Payers
<1>1. /\ PromotionCalls \cap (ExpiryCalls \cup JoinCalls \cup PayCalls \cup {"idle"}) = {}
      /\ ExpiryCalls \cap (JoinCalls \cup PayCalls \cup {"idle"}) = {}
      /\ "idle" \notin JoinCalls \cup PayCalls
  BY DEF PromotionCalls, TryCalls, SoldOutCalls, ExpiryCalls, JoinCalls, PayCalls
<1> QED
  BY <1>1 DEF TypeInv, ControlOK, HandlersOK, Actors, Promoters

\* The calls at which the steps of each handler are.
LEMMA StepCalls ==
    ASSUME NEW a
    PROVE  /\ PromotionStep(a) \/ PromotionRejects(a) => pc[a] \in PromotionCalls
           /\ ExpiryStep(a) \/ ExpiryRejects(a) => pc[a] \in ExpiryCalls
           /\ RequestStep(a) \/ RequestRejects(a) => pc[a] \in JoinCalls \cup PayCalls
<1>1. PromotionStep(a) \/ PromotionRejects(a) => pc[a] \in PromotionCalls
  BY DEF PromotionStep, PromotionRejects, GetActiveCount, GetNextInQueue, DecrementSeats,
     SaveReservation, AddJob, SetActive, RemoveFromQueue, SetexActive, IncrActiveCount,
     UndoSeat, RestoreSeat, MarkSoldOut, RemoveSoldOut, Await, PromotionCalls, TryCalls,
     SoldOutCalls
<1>2. ExpiryStep(a) \/ ExpiryRejects(a) => pc[a] \in ExpiryCalls
  BY DEF ExpiryStep, ExpiryRejects, FindReservation, SetLock, ExpireLock, IncrementSeats,
     MarkExpired, ExpireEntry, DelActive, DecrActiveCount, Await, ExpiryCalls
<1>3. RequestStep(a) \/ RequestRejects(a) => pc[a] \in JoinCalls \cup PayCalls
  BY DEF RequestStep, RequestRejects, FindEntry, AddToQueue, SaveEntry, SavePaid, MarkDone,
     Await, JoinCalls, PayCalls
<1> QED
  BY <1>1, <1>2, <1>3

\* What a step of the system with its clients can be.
LEMMA LinkSteps ==
    ASSUME TypeInv, LinkOK, [LinkNext]_linkVars
    PROVE  \/ \E a \in Actors : Answered(a) \/ CutOff(a)
           \/ Environment /\ UNCHANGED <<pc, links>>
           \/ \E I \in Instances : Restart(I) \/ Break(I)
           \/ UNCHANGED vars /\ StayEnded
<1>1. ASSUME NEW a \in Actors, Proceeds(a) PROVE Answered(a) \/ CutOff(a)
  <2>1. CASE Served(a) /\ (PromotionStep(a) \/ ExpiryStep(a) \/ RequestStep(a)) /\ UNCHANGED links
    <3>1. Next /\ Advances(a)
      BY <2>1, Callers, StepCalls DEF Next, Advances
    <3> QED
      BY <2>1, <3>1 DEF Answered
  <2>2. CASE /\ Cut(a) /\ (PromotionRejects(a) \/ ExpiryRejects(a) \/ RequestRejects(a))
             /\ UNCHANGED mishaps /\ UNCHANGED links
    BY <2>2, Callers, StepCalls DEF CutOff
  <2> QED
    BY <1>1, <2>1, <2>2 DEF Proceeds
<1>2. ASSUME NEW a \in Actors, Served(a), Starts(a), UNCHANGED links PROVE Answered(a)
  BY <1>2 DEF Starts, Answered, Next, Advances, Promoters
<1>3. ASSUME NEW a \in Actors, Throws(a), UNCHANGED links PROVE Answered(a)
  <2>1. CASE PromotionThrows(a)
    BY <1>3, <2>1, Callers, StepCalls DEF Throws, Answered, Next, PromotionThrows
  <2>2. CASE ExpiryThrows(a)
    BY <1>3, <2>2, Callers, StepCalls DEF Throws, Answered, Next, Advances, ExpiryThrows
  <2>3. CASE RequestThrows(a)
    BY <1>3, <2>3, Callers, StepCalls DEF Throws, Answered, Next, Advances, RequestThrows
  <2> QED
    BY <1>3, <2>1, <2>2, <2>3 DEF Throws
<1>4. ASSUME NEW I \in Instances, RetryFails(I) \/ Reconnect(I)
      PROVE  UNCHANGED vars /\ StayEnded
  BY <1>4 DEF RetryFails, Reconnect, Close, StayEnded, LinkOK
<1>5. CASE UNCHANGED linkVars
  BY <1>5 DEF linkVars, links, StayEnded
<1> QED
  BY <1>1, <1>2, <1>3, <1>4, <1>5 DEF LinkNext

\* The steps that leave the connections out of it are steps of the sale, and
\* nobody whose client has ended takes the INCR of the catch block.
LEMMA SaleSteps ==
    ASSUME TypeInv, UndoCut,
           \/ \E a \in Actors : Answered(a)
           \/ Environment /\ UNCHANGED <<pc, links>>
           \/ \E I \in Instances : Restart(I)
    PROVE  Next /\ \A b \in Promoters : UndoSeat(b) => res[b] = None
<1>1. Next
  BY DEF Answered, Restart, Next, Environment
<1>2. ASSUME NEW b \in Promoters, UndoSeat(b), res[b] # None PROVE FALSE
  <2>1. /\ b \in Actors /\ pc[b] = "undoSeat" /\ pc'[b] = "idle"
        /\ seats \in Int /\ seats' = seats + 1
    BY <1>2 DEF Actors, UndoSeat, Return, Forget, TypeInv, ControlOK, LocalsOK, StoresOK, CacheOK
  <2>2. Cut(b)
    BY <1>2, <2>1 DEF UndoCut
  <2>3. ASSUME NEW a \in Actors, Answered(a) PROVE FALSE
    <3>1. OthersStay(a)
      BY <2>3, AdvancesAlone, RejectsAlone DEF Answered, PromotionThrows
    <3>2. a = b
      BY <2>1, <3>1 DEF OthersStay
    <3> QED
      BY <2>2, <2>3, <3>2 DEF Answered, Served, Cut
  <2>4. ~UNCHANGED pc
    BY <2>1
  <2>5. ASSUME NEW I \in Instances, Restart(I) PROVE FALSE
    BY <2>1, <2>5 DEF Restart, Crash
  <2> QED
    BY <2>3, <2>4, <2>5
<1> QED
  BY <1>1, <1>2

-----------------------------------------------------------------------------
(* What the client does.                                                   *)

\* A call rejected by a client that has ended leaves values of their types.
LEMMA CutOffTypes ==
    ASSUME TypeInv, NEW a \in Actors, CutOff(a)
    PROVE  TypeInv'
<1>1. mishaps' \in Nat
  BY DEF CutOff, TypeInv, StoresOK, WorldOK
<1> QED
  BY <1>1, PromotionFaultTypes, JobTypes, RequestStartTypes DEF CutOff

\* The handlers still work for the users they served.
LEMMA CutOffService ==
    ASSUME TypeInv, ServiceInv, NEW a \in Actors, CutOff(a)
    PROVE  ServiceInv'
  BY PromotionService, ExpiryService, RequestService DEF CutOff

\* It leaves the seats in balance: the mark of an expiration is no call to
\* Redis, and so cannot be cut off from the INCR before it.
LEMMA CutOffSeats ==
    ASSUME TypeInv, TypeInv', ServiceInv, SeatInv, NEW a \in Actors, CutOff(a)
    PROVE  SeatInv'
<1>1. mishaps <= mishaps'
  BY DEF CutOff, TypeInv, StoresOK, WorldOK
<1>2. CASE a \in Promoters /\ PromotionRejects(a)
  <2>1. pc[a] \in AfterSave => res[a] # None
    BY IdAssumption DEF ServiceInv, Serves, RowCalls, Rows
  <2> QED
    BY <1>1, <1>2, <2>1, PromotionFaultSeats
<1>3. CASE a \in Workers /\ ExpiryRejects(a)
  <2>1. pc[a] # "markExpired"
    BY <1>3 DEF CutOff, Cut, NeedsRedis, RedisCalls
  <2> QED
    BY <1>1, <1>3, <2>1, QuietExpirySeats DEF QuietExpiry, ExpiryStops
<1>4. CASE a \in Joiners \cup Payers /\ RequestRejects(a)
  BY <1>1, <1>4, RequestSeats
<1> QED
  BY <1>2, <1>3, <1>4 DEF CutOff

\* What Redis executed without an answer leaves values of their types.
LEMMA BreakTypes ==
    ASSUME TypeInv, NEW I \in Instances, Break(I)
    PROVE  TypeInv'
<1> USE DEF TypeInv, StoresOK, CacheOK, TablesOK, WorldOK
<1>1. mishaps' \in Nat
  BY DEF Break, Mishap
<1>2. ControlOK'
  BY DEF Break, ControlOK, LocalsOK, HandlersOK, InLoop, Working, locals
<1>3. /\ seats' \in Int /\ activeCount' \in Int /\ stamp' \in Nat
      /\ score' \in [Users -> Nat]
      /\ activeKey' \in [Users -> Reservations \cup {None}]
      /\ lock' \in [Reservations -> LockStates]
  <2>1. CASE UNCHANGED <<seats, cache>>
    BY <2>1 DEF cache, queue, active
  <2>2. ASSUME NEW a \in I, Unanswered(a)
        PROVE  /\ seats' \in Int /\ activeCount' \in Int /\ stamp' \in Nat
               /\ score' \in [Users -> Nat]
               /\ activeKey' \in [Users -> Reservations \cup {None}]
               /\ lock' \in [Reservations -> LockStates]
    <3>1. SeatDelta(pc[a]) \in Int /\ ActiveDelta(pc[a]) \in Int
      BY DEF SeatDelta, ActiveDelta
    <3>2. stamp' \in Nat /\ score' \in [Users -> Nat]
      BY <2>2 DEF Unanswered, ZAdd, queue
    <3>3. seats' \in Int /\ activeCount' \in Int
      BY <2>2, <3>1 DEF Unanswered
    <3>4. activeKey' \in [Users -> Reservations \cup {None}]
      BY <2>2 DEF Unanswered
    <3>5. lock' \in [Reservations -> LockStates]
      BY <2>2 DEF Unanswered, LockStates
    <3> QED
      BY <3>2, <3>3, <3>4, <3>5
  <2> QED
    BY <2>1, <2>2 DEF Break
<1> QED
  BY <1>1, <1>2, <1>3 DEF Break, tables

\* It gives no lock back and adds nothing to the seat counter.
LEMMA BreakTakes ==
    ASSUME IncrOnce, TypeInv, SeatInv, NEW I \in Instances, Break(I)
    PROVE  /\ seats' <= seats /\ (seats' # seats => provisioned)
           /\ \A r \in Reservations : lock[r] # "free" => lock'[r] # "free"
<1>1. seats \in Int /\ lock \in [Reservations -> LockStates]
  BY DEF TypeInv, StoresOK, CacheOK
<1>2. CASE UNCHANGED <<seats, cache>>
  BY <1>1, <1>2 DEF cache
<1>3. ASSUME NEW a \in I, Unanswered(a)
      PROVE  /\ seats' <= seats /\ (seats' # seats => provisioned)
             /\ \A r \in Reservations : lock[r] # "free" => lock'[r] # "free"
  <2>1. SeatDelta(pc[a]) \in {0, -1}
    BY <1>3 DEF Unanswered, SeatDelta, IncrOnce
  <2>2. provisioned
    <3>1. a \in Actors /\ pc[a] # "idle"
      BY <1>3, ActorAssumption, ResentAssumption DEF Unanswered, NotIdempotent
    <3> QED
      BY <3>1, Started
  <2> QED
    BY <1>1, <1>3, <2>1, <2>2 DEF Unanswered
<1> QED
  BY <1>2, <1>3 DEF Break

\* So a broken connection can lose a seat but create none.
LEMMA BreakSeats ==
    ASSUME IncrOnce, TypeInv, TypeInv', SeatInv, NEW I \in Instances, Break(I)
    PROVE  SeatInv'
<1> USE DEF SeatInv
<1>1. /\ UNCHANGED <<credited, provisioned, status, lapsed, sales, pc, res>>
      /\ mishaps \in Nat /\ mishaps' = mishaps + 1
  BY DEF Break, Mishap, tables, locals, TypeInv, StoresOK, WorldOK
<1>2. Rows' = Rows /\ Holding' = Holding /\ Granted' = Granted /\ Refused' = Refused
  BY <1>1 DEF Rows, Holding, Granted, Refused
<1>3. Clean' /\ Known' /\ Stocked'
  BY <1>1, <1>2, BreakTakes DEF Clean, Known, Stocked
<1>4. CreditedLocked' /\ CreditedMarked'
  <2>1. Rows \subseteq Reservations
    BY DEF Rows
  <2> QED
    BY <1>1, <1>2, <2>1, BreakTakes DEF CreditedLocked, NotWanted, CreditedMarked
<1>5. CreditsExclusive'
  <2>1. Holding \subseteq Reservations
    BY DEF Holding, Rows
  <2> QED
    BY <1>1, <1>2, <2>1, BreakTakes DEF CreditsExclusive
<1>6. NoOverhold'
  BY <1>2, NoneTaken, BreakTakes
<1> QED
  BY <1>3, <1>4, <1>5, <1>6

-----------------------------------------------------------------------------
(* The invariant.                                                          *)

\* The types are kept by everything that can happen to a connection.
LEMMA LinkTypes ==
    ASSUME TypeInv, LinkOK, [LinkNext]_linkVars
    PROVE  TypeInv'
<1>1. ASSUME NEW a \in Actors, Answered(a) PROVE TypeInv'
  BY <1>1, TypesPreserved DEF Answered
<1>2. ASSUME NEW I \in Instances, Restart(I) PROVE TypeInv'
  BY <1>2, TypesPreserved DEF Restart, Next, Environment
<1>3. Environment => TypeInv'
  BY TypesPreserved DEF Next
<1>4. UNCHANGED vars => TypeInv'
  BY TypesPreserved
<1> QED
  BY <1>1, <1>2, <1>3, <1>4, LinkSteps, CutOffTypes, BreakTypes

\* The status of a client is one of three.
LEMMA LinkStatus ==
    ASSUME LinkOK, [LinkNext]_linkVars
    PROVE  LinkOK'
<1> USE DEF LinkOK
<1>1. UNCHANGED links => LinkOK'
  BY DEF links
<1>2. ASSUME NEW I \in Instances, Break(I) \/ RetryFails(I) \/ Reconnect(I) \/ Restart(I)
      PROVE  LinkOK'
  BY <1>2 DEF Break, RetryFails, Reconnect, Restart, Close, RetryStrategy
<1> QED
  BY <1>1, <1>2 DEF LinkNext, linkVars, Proceeds

\* An actor in the catch block whose client has ended stays cut off.
LEMMA StaysCut ==
    ASSUME StayEnded, NEW a \in Actors, Cut(a), pc'[a] = "undoSeat"
    PROVE  Cut(a)'
  BY DEF StayEnded, Cut, NeedsRedis, RedisCalls

\* The catch block is reached with a reservation only where no INCR can follow.
LEMMA UndoCutKept ==
    ASSUME Benign, TypeInv, SeatInv, LinkOK, UndoCut, [LinkNext]_linkVars
    PROVE  UndoCut'
<1> USE DEF UndoCut
<1>1. Promoters \subseteq Actors
  BY DEF Actors
<1>2. UNCHANGED links => StayEnded
  BY DEF links, StayEnded
<1>3. ASSUME NEW a \in Actors, Answered(a) PROVE UndoCut'
  <2>1. OthersStay(a) /\ StayEnded
    BY <1>2, <1>3, AdvancesAlone, RejectsAlone DEF Answered, PromotionThrows
  <2>2. CASE Advances(a)
    BY <1>1, <2>1, <2>2, AdvancesAlone, StaysCut DEF OthersStay
  <2>3. CASE a \in Promoters /\ PromotionThrows(a)
    <3>1. PromotionRejects(a) /\ (pc[a] \in TryCalls => pc[a] = "saveReservation")
      BY <2>3 DEF PromotionThrows, Mishap, Benign, AfterSave
    <3>2. pc'[a] = "undoSeat" => res'[a] = None
      BY <2>3, <3>1, RejectsAlone DEF SeatInv, Clean, CleanCalls
    <3> QED
      BY <1>1, <2>1, <3>2, StaysCut DEF OthersStay
  <2> QED
    BY <1>3, <2>2, <2>3 DEF Answered
<1>4. ASSUME NEW a \in Actors, CutOff(a) PROVE UndoCut'
  <2>1. OthersStay(a) /\ StayEnded /\ Cut(a)
    BY <1>2, <1>4, AdvancesAlone, RejectsAlone DEF CutOff, Advances
  <2> QED
    BY <1>1, <2>1, StaysCut DEF OthersStay
<1>5. CASE Environment /\ UNCHANGED <<pc, links>>
  <2>1. UNCHANGED res
    <3>1. ASSUME NEW I \in Instances, Crash(I) PROVE FALSE
      <4>1. PICK a \in I : pc[a] # "idle"
        BY <3>1 DEF Crash
      <4> QED
        BY <1>5, <3>1, <4>1, ActorAssumption DEF Crash
    <3> QED
      BY <1>5, <3>1 DEF Environment, InitializeSeats, OpenSales, CloseSales, Lapse, LockTTL,
         StallRunning, StallAbandoned, KeyTTL, locals
  <2> QED
    BY <1>1, <1>2, <1>5, <2>1, StaysCut
<1>6. ASSUME NEW I \in Instances, Restart(I) PROVE UndoCut'
  <2>1. \A J \in Instances \ {I} : link[J] = "end" => link'[J] = "end"
    BY <1>6 DEF Restart, LinkOK
  <2>2. \A a \in Actors : IF a \in I THEN pc'[a] = "idle"
                                     ELSE pc'[a] = pc[a] /\ res'[a] = res[a]
    BY <1>6 DEF Restart, Crash
  <2> QED
    BY <1>1, <2>1, <2>2 DEF Cut, NeedsRedis, RedisCalls
<1>7. ASSUME NEW I \in Instances, Break(I) PROVE UndoCut'
  <2>1. UNCHANGED <<pc, res>> /\ StayEnded
    BY <1>7 DEF Break, Close, StayEnded, LinkOK, locals
  <2> QED
    BY <1>1, <2>1, StaysCut
<1>8. CASE UNCHANGED vars /\ StayEnded
  BY <1>1, <1>8, StaysCut DEF vars, locals
<1> QED
  BY <1>3, <1>4, <1>5, <1>6, <1>7, <1>8, LinkSteps

\* Every step of the system with its clients keeps the invariant.
LEMMA LinkPreserved ==
    ASSUME Benign, IncrOnce, LinkInv, [LinkNext]_linkVars
    PROVE  LinkInv'
<1> USE DEF LinkInv
<1>1. TypeInv' /\ LinkOK' /\ UndoCut'
  BY LinkTypes, LinkStatus, UndoCutKept
<1>2. CASE \/ \E a \in Actors : Answered(a)
           \/ Environment /\ UNCHANGED <<pc, links>>
           \/ \E I \in Instances : Restart(I)
  BY <1>1, <1>2, SaleSteps, SeatsKept, ServicePreserved
<1>3. ASSUME NEW a \in Actors, CutOff(a) PROVE ServiceInv' /\ SeatInv'
  BY <1>1, <1>3, CutOffService, CutOffSeats
<1>4. ASSUME NEW I \in Instances, Break(I) PROVE ServiceInv' /\ SeatInv'
  <2>1. ServiceInv'
    BY <1>4 DEF Break, ServiceInv, Serves, Rows, tables, locals
  <2> QED
    BY <1>1, <1>4, <2>1, BreakSeats
<1>5. UNCHANGED vars => ServiceInv' /\ SeatInv'
  <2>1. UNCHANGED vars => \A a \in Promoters : UndoSeat(a) => res[a] = None
    BY DEF vars, UndoSeat, TypeInv, StoresOK, CacheOK
  <2> QED
    BY <1>1, <2>1, SeatsKept, ServicePreserved
<1> QED
  BY <1>1, <1>2, <1>3, <1>4, <1>5, LinkSteps

\* At the start every client is connected.
LEMMA LinkInitially == ASSUME LinkInit PROVE LinkInv
<1>1. TypeInv /\ ServiceInv /\ SeatInv
  BY TypesInitially, ServiceInitially, SeatsInitially DEF LinkInit
<1>2. LinkOK /\ UndoCut
  BY SeatsInitially DEF LinkInit, LinkOK, UndoCut, UndoInv
<1> QED
  BY <1>1, <1>2 DEF LinkInv

\* A step of the whole is a step of the pool or none.
LEMMA LinkPoolStep ==
    ASSUME Benign, IncrOnce, LinkInv, [LinkNext]_linkVars
    PROVE  [Pool!Next]_<<provisioned, Free, Held>>
<1> USE DEF LinkInv
<1>1. TypeInv'
  BY LinkTypes
<1>2. CASE \/ \E a \in Actors : Answered(a)
           \/ Environment /\ UNCHANGED <<pc, links>>
           \/ \E I \in Instances : Restart(I)
  BY <1>1, <1>2, SaleSteps, SeatMoves, PoolStep
<1>3. ASSUME NEW a \in Actors, CutOff(a) PROVE SeatMove \/ Lost
  <2>1. CASE a \in Promoters /\ PromotionRejects(a)
    <3>1. pc[a] \in AfterSave => res[a] # None
      BY IdAssumption DEF ServiceInv, Serves, RowCalls, Rows
    <3> QED
      BY <2>1, <3>1, PromotionFaultMoves DEF SeatMove
  <2>2. CASE a \in Workers /\ ExpiryRejects(a)
    BY <2>2, ExpiryMoves DEF SeatMove
  <2>3. CASE a \in Joiners \cup Payers /\ RequestRejects(a)
    BY <2>3, RequestMoves DEF SeatMove
  <2> QED
    BY <1>3, <2>1, <2>2, <2>3 DEF CutOff
<1>4. ASSUME NEW I \in Instances, Break(I)
      PROVE  Free' <= Free /\ Held' <= Held /\ UNCHANGED provisioned
  <2>1. /\ Granted' = Granted /\ Refused' = Refused /\ Holding' = Holding
        /\ UNCHANGED provisioned
    BY <1>4 DEF Break, Granted, Refused, Holding, Rows, tables, locals
  <2>2. seats \in Int /\ seats' \in Int /\ seats' <= seats
    BY <1>1, <1>4, BreakTakes DEF TypeInv, StoresOK, CacheOK
  <2> QED
    BY <2>1, <2>2, Terms DEF Free, Held
<1>5. UNCHANGED vars => UNCHANGED <<provisioned, Free, Held>>
  BY DEF vars, world, tables, locals, Free, Held, Granted, Refused, Holding, Rows
<1> QED
  BY <1>1, <1>2, <1>3, <1>4, <1>5, LinkSteps, PoolStep, LostSums

-----------------------------------------------------------------------------
(* The theorems.                                                           *)

\* Whatever becomes of the connections, and whichever commands are executed
\* twice, the stores and the handlers' variables keep values of their types.
THEOREM LinkTypeCorrect == LinkSpec => []TypeOK
<1>1. LinkInit => TypeInv /\ LinkOK
  BY LinkInitially DEF LinkInv
<1>2. TypeInv /\ LinkOK /\ [LinkNext]_linkVars => (TypeInv /\ LinkOK)'
  BY LinkTypes, LinkStatus
<1>3. TypeInv => TypeOK
  BY DEF TypeInv, StoresOK, ControlOK, TypeOK
<1> QED
  BY <1>1, <1>2, <1>3, PTL DEF LinkSpec

\* The seats granted, reserved and left in the counter never exceed totalSeats,
\* through lost connections, commands executed twice and clients that have
\* ended (requirements 5.1-5.3 and 7.2, retryStrategy of RedisService).
THEOREM LinkSeatsNeverOverheld ==
    ASSUME Benign, IncrOnce
    PROVE  LinkSpec => []NoOverhold
<1>1. LinkInit => LinkInv
  BY LinkInitially
<1>2. LinkInv /\ [LinkNext]_linkVars => LinkInv'
  BY LinkPreserved
<1>3. LinkInv => NoOverhold
  BY DEF LinkInv, SeatInv
<1> QED
  BY <1>1, <1>2, <1>3, PTL DEF LinkSpec

\* A worker about to give a seat back is still the only one to do so, also when
\* its SETNX was executed and the reply lost (requirements 7.2 and 7.3).
THEOREM LinkCreditsExclusive ==
    ASSUME Benign, IncrOnce
    PROVE  LinkSpec => []CreditsExclusive
<1>1. LinkInit => LinkInv
  BY LinkInitially
<1>2. LinkInv /\ [LinkNext]_linkVars => LinkInv'
  BY LinkPreserved
<1>3. LinkInv => CreditsExclusive
  BY DEF LinkInv, SeatInv
<1> QED
  BY <1>1, <1>2, <1>3, PTL DEF LinkSpec

\* The sale with its clients implements SeatPool: a connection may lose a seat,
\* it never acquires one that is not free nor returns one twice.
THEOREM LinkImplementsPool ==
    ASSUME Benign, IncrOnce
    PROVE  LinkSpec => RefinesSeatPool
<1>1. LinkInit => LinkInv /\ Pool!Init
  BY LinkInitially, PoolInitially DEF LinkInit
<1>2. LinkInv /\ [LinkNext]_linkVars => LinkInv'
  BY LinkPreserved
<1>3. LinkInv /\ [LinkNext]_linkVars => [Pool!Next]_<<provisioned, Free, Held>>
  BY LinkPoolStep
<1> QED
  BY <1>1, <1>2, <1>3, PTL DEF LinkSpec, RefinesSeatPool, Pool!Spec, Free, Held

=============================================================================
