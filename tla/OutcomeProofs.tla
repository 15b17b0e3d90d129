---------------------------- MODULE OutcomeProofs ----------------------------
(***************************************************************************)
(* Proofs about the fate of a reservation.  Payment and expiration write   *)
(* its status by id, after a check made awaits ago.  They do not meet,     *)
(* because one is accepted before the deadline and the other starts after  *)
(* it, as long as an accepted payment is saved before the deadline too     *)
(* (Punctual).  From that and the seats' invariant follow that nothing is  *)
(* oversold and that the administrator's statistics add up.                *)
(***************************************************************************)
EXTENDS SeatProofs

Punctual == "slowPay" \notin Faults

\* the calls of a worker that has seen an unpaid row and not yet marked it
MarkCalls == {"setnx", "expireLock", "incrementSeats", "markExpired"}

\* an expiration works on a reservation whose deadline has passed, and what it
\* is about to mark was not paid; a payment is saved before the deadline
Decides(a) ==
    /\ pc[a] \in ExpiryCalls => res[a] \in lapsed
    /\ pc[a] \in MarkCalls => status[res[a]] \in {"PENDING_PAYMENT", "EXPIRED"}
    /\ pc[a] = "savePaid" => /\ res[a] \in Reservations \ lapsed
                             /\ status[res[a]] \in {"PENDING_PAYMENT", "PAID"}

OutcomeInv == /\ lapsed \subseteq Rows
              /\ \A a \in Actors : Decides(a)

\* the step changes no outcome, and after the deadline it can only expire
KeepsFinal ==
    /\ lapsed \subseteq lapsed'
    /\ \A r \in Reservations :
         /\ status[r] \in {"PAID", "EXPIRED"} => status'[r] = status[r]
         /\ r \in lapsed => status'[r] \in {status[r], "EXPIRED"}

-----------------------------------------------------------------------------
(* The outcome of one reservation.                                         *)

\* A step of one handler that changes no row decides nothing for the others.
LEMMA OutcomesKept ==
    ASSUME OutcomeInv, NEW a \in Actors, OthersStay(a), lapsed' = lapsed,
           \A r \in Rows : status'[r] = status[r], Decides(a)'
    PROVE  OutcomeInv' /\ KeepsFinal
<1>1. ASSUME NEW b \in Actors \ {a} PROVE Decides(b)'
  BY <1>1 DEF OutcomeInv, Decides, OthersStay, Rows, MarkCalls, ExpiryCalls
<1>2. lapsed' \subseteq Rows'
  BY DEF OutcomeInv, Rows
<1> QED
  BY <1>1, <1>2 DEF OutcomeInv, KeepsFinal, Rows

\* A promotion only inserts rows.
LEMMA PromotionOutcomes ==
    ASSUME TypeInv, OutcomeInv, NEW a \in Promoters,
           StartCron(a) \/ PromotionStep(a) \/ PromotionThrows(a)
    PROVE  OutcomeInv' /\ KeepsFinal
<1> USE DEF StartCron, PromotionStep, PromotionThrows, PromotionRejects, GetActiveCount,
            GetNextInQueue, DecrementSeats, SaveReservation, AddJob, SetActive,
            RemoveFromQueue, SetexActive, IncrActiveCount, UndoSeat, RestoreSeat,
            MarkSoldOut, RemoveSoldOut, Await
<1>1. /\ a \in Actors /\ lapsed' = lapsed
      /\ pc \in [Actors -> Calls] /\ res \in [Actors -> Reservations \cup {None}]
      /\ status \in [Reservations -> ReservationStatuses]
  BY DEF Actors, TypeInv, ControlOK, LocalsOK, StoresOK, TablesOK, world
<1>2. \A r \in Rows : status'[r] = status[r]
  BY <1>1 DEF tables, Rows, IsFresh
<1>3. OthersStay(a) /\ pc'[a] \in PromotionCalls \cup {"idle"}
  BY <1>1 DEF Loop, Goto, Return, Forget, OthersStay, locals, PromotionCalls, TryCalls,
     SoldOutCalls
<1>4. Decides(a)'
  BY <1>3 DEF Decides, PromotionCalls, TryCalls, SoldOutCalls, ExpiryCalls, MarkCalls
<1> QED
  BY <1>1, <1>2, <1>3, <1>4, OutcomesKept

\* An expiration marks a row that is not paid.
LEMMA ExpiryOutcomes ==
    ASSUME TypeInv, OutcomeInv, NEW w \in Workers,
           TakeJob(w) \/ ExpiryStep(w) \/ ExpiryThrows(w)
    PROVE  OutcomeInv' /\ KeepsFinal
<1>1. /\ w \in Actors /\ lapsed' = lapsed /\ lapsed \subseteq Reservations
      /\ pc \in [Actors -> Calls] /\ res \in [Actors -> Reservations \cup {None}]
      /\ status \in [Reservations -> ReservationStatuses]
  BY DEF Promoters, Actors, TypeInv, ControlOK, LocalsOK, StoresOK, TablesOK, WorldOK,
     ExpiryStep, ExpiryThrows, ExpiryRejects, TakeJob, FindReservation, SetLock, ExpireLock,
     IncrementSeats, MarkExpired, ExpireEntry, DelActive, DecrActiveCount, world
<1>2. OthersStay(w)
  BY <1>1 DEF ExpiryStep, ExpiryThrows, ExpiryRejects, TakeJob, FindReservation, SetLock,
     ExpireLock, IncrementSeats, MarkExpired, ExpireEntry, DelActive, DecrActiveCount,
     Await, Goto, Return, Forget, TriggerPromotion, OthersStay, locals
<1>3. CASE MarkExpired(w)
  <2>1. /\ res[w] \in lapsed /\ status[res[w]] \in {"PENDING_PAYMENT", "EXPIRED"}
        /\ status' = [status EXCEPT ![res[w]] = "EXPIRED"]
        /\ pc'[w] = "expireEntry" /\ UNCHANGED res
    BY <1>1, <1>3 DEF MarkExpired, Await, Goto, locals, OutcomeInv, Decides, ExpiryCalls,
       MarkCalls
  <2>2. KeepsFinal
    BY <1>1, <2>1 DEF KeepsFinal
  <2>3. ASSUME NEW b \in Actors PROVE Decides(b)'
    <3>1. CASE b = w
      BY <1>1, <2>1, <3>1 DEF Decides, MarkCalls
    <3>2. CASE b # w
      BY <1>1, <1>2, <2>1, <3>2 DEF OthersStay, OutcomeInv, Decides, MarkCalls, ExpiryCalls
    <3> QED
      BY <3>1, <3>2
  <2>4. lapsed' \subseteq Rows'
    BY <1>1, <2>1 DEF OutcomeInv, Rows
  <2> QED
    BY <2>2, <2>3, <2>4 DEF OutcomeInv
<1>4. CASE ~MarkExpired(w)
  <2>1. status' = status
    BY <1>4 DEF ExpiryStep, ExpiryThrows, ExpiryRejects, TakeJob, FindReservation, SetLock,
       ExpireLock, IncrementSeats, ExpireEntry, DelActive, DecrActiveCount, tables
  <2>2. Decides(w)'
    <3>1. CASE TakeJob(w)
      BY <1>1, <3>1 DEF TakeJob, Await, Goto, Decides, MarkCalls
    <3>2. CASE FindReservation(w)
      BY <1>1, <2>1, <3>2 DEF FindReservation, Goto, Return, Forget, OutcomeInv, Decides,
         ExpiryCalls, MarkCalls
    <3>3. CASE SetLock(w) \/ ExpireLock(w) \/ IncrementSeats(w)
      BY <1>1, <2>1, <3>3 DEF SetLock, ExpireLock, IncrementSeats, Await, Goto, Return,
         Forget, OutcomeInv, Decides, ExpiryCalls, MarkCalls, locals
    <3>4. CASE ExpireEntry(w) \/ DelActive(w) \/ DecrActiveCount(w) \/ ExpiryThrows(w)
      BY <1>1, <2>1, <3>4 DEF ExpireEntry, DelActive, DecrActiveCount, ExpiryThrows,
         ExpiryRejects, TriggerPromotion, Await, Goto, Forget, OutcomeInv,
         Decides, ExpiryCalls, MarkCalls, locals
    <3> QED
      BY <1>4, <3>1, <3>2, <3>3, <3>4 DEF ExpiryStep
  <2> QED
    BY <1>1, <1>2, <2>1, <2>2, OutcomesKept
<1> QED
  BY <1>3, <1>4

\* A payment is saved on a row that is unpaid or paid already, and only the
\* save writes.
LEMMA RequestOutcomes ==
    ASSUME TypeInv, OutcomeInv, NEW a \in Joiners \cup Payers,
           \/ a \in Joiners /\ JoinQueue(a)
           \/ a \in Payers /\ FindPayable(a)
           \/ RequestStep(a) \/ RequestThrows(a)
    PROVE  OutcomeInv' /\ KeepsFinal
<1>1. /\ a \in Actors /\ lapsed' = lapsed /\ lapsed \subseteq Reservations
      /\ pc \in [Actors -> Calls] /\ res \in [Actors -> Reservations \cup {None}]
      /\ status \in [Reservations -> ReservationStatuses]
  BY DEF Actors, TypeInv, ControlOK, LocalsOK, StoresOK, TablesOK, WorldOK, JoinQueue,
     FindPayable, RequestStep, RequestThrows, RequestRejects, FindEntry, AddToQueue,
     SaveEntry, SavePaid, MarkDone, world
<1>2. OthersStay(a)
  BY <1>1 DEF JoinQueue, FindPayable, RequestStep, RequestThrows, RequestRejects,
     FindEntry, AddToQueue, SaveEntry, SavePaid, MarkDone, Await, Goto, Return, Forget,
     OthersStay, locals
<1>3. CASE SavePaid(a)
  <2>1. /\ res[a] \in Reservations \ lapsed
        /\ status[res[a]] \in {"PENDING_PAYMENT", "PAID"}
        /\ status' = [status EXCEPT ![res[a]] = "PAID"]
        /\ pc'[a] = "markDone"
    BY <1>1, <1>3 DEF SavePaid, Await, Goto, OutcomeInv, Decides
  <2>2. KeepsFinal
    BY <1>1, <2>1 DEF KeepsFinal
  <2>3. ASSUME NEW b \in Actors PROVE Decides(b)'
    <3>1. CASE b = a
      BY <2>1, <3>1 DEF Decides, ExpiryCalls, MarkCalls
    <3>2. CASE b # a
      BY <1>1, <1>2, <2>1, <3>2 DEF OthersStay, OutcomeInv, Decides, MarkCalls, ExpiryCalls
    <3> QED
      BY <3>1, <3>2
  <2>4. lapsed' \subseteq Rows'
    BY <1>1, <2>1 DEF OutcomeInv, Rows
  <2> QED
    BY <2>2, <2>3, <2>4 DEF OutcomeInv
<1>4. CASE ~SavePaid(a)
  <2>1. status' = status
    BY <1>4 DEF JoinQueue, FindPayable, RequestStep, RequestThrows, RequestRejects,
       FindEntry, AddToQueue, SaveEntry, MarkDone, tables
  <2>2. Decides(a)'
    <3>1. CASE FindPayable(a)
      BY <1>1, <2>1, <3>1 DEF FindPayable, Await, Goto, Payable, Pending, Decides,
         ExpiryCalls, MarkCalls
    <3>2. CASE ~FindPayable(a)
      BY <1>1, <1>4, <3>2 DEF JoinQueue, RequestStep, RequestThrows, RequestRejects,
         FindEntry, AddToQueue, SaveEntry, MarkDone, Await, Goto, Return, Forget, Decides,
         ExpiryCalls, MarkCalls
    <3> QED
      BY <3>1, <3>2
  <2> QED
    BY <1>1, <1>2, <2>1, <2>2, OutcomesKept
<1> QED
  BY <1>3, <1>4

\* Time passes the deadline of a reservation only when no accepted payment of
\* it is still to be saved.
LEMMA EnvironmentOutcomes ==
    ASSUME Punctual, TypeInv, OutcomeInv, Environment
    PROVE  OutcomeInv' /\ KeepsFinal
<1>1. ASSUME UNCHANGED <<status, lapsed>>,
             \A a \in Actors : \/ pc'[a] = "idle"
                               \/ pc'[a] = pc[a] /\ res'[a] = res[a]
      PROVE  OutcomeInv' /\ KeepsFinal
  BY <1>1 DEF OutcomeInv, Decides, KeepsFinal, Rows, ExpiryCalls, MarkCalls
<1>2. CASE InitializeSeats \/ OpenSales \/ CloseSales
  BY <1>1, <1>2 DEF InitializeSeats, OpenSales, CloseSales, tables, locals
<1>3. ASSUME NEW r \in Reservations, Lapse(r) PROVE OutcomeInv' /\ KeepsFinal
  <2>1. /\ UNCHANGED <<status, pc, res>> /\ lapsed' = lapsed \cup {r} /\ r \in Rows
        /\ \A p \in Payers : ~(pc[p] = "savePaid" /\ res[p] = r)
    BY <1>3 DEF Lapse, Punctual, tables, locals
  <2>2. ASSUME NEW a \in Actors, pc[a] = "savePaid" PROVE a \in Payers
    BY <2>2 DEF TypeInv, ControlOK, HandlersOK, Actors, Promoters, PromotionCalls, TryCalls,
       SoldOutCalls, ExpiryCalls, JoinCalls
  <2> QED
    BY <2>1, <2>2 DEF OutcomeInv, Decides, KeepsFinal, Rows
<1>4. ASSUME NEW r \in Reservations,
             LockTTL(r) \/ StallRunning(r) \/ StallAbandoned(r)
      PROVE  OutcomeInv' /\ KeepsFinal
  BY <1>1, <1>4 DEF LockTTL, StallRunning, StallAbandoned, tables, world, locals
<1>5. ASSUME NEW u \in Users, KeyTTL(u) PROVE OutcomeInv' /\ KeepsFinal
  BY <1>1, <1>5 DEF KeyTTL, tables, world, locals
<1>6. ASSUME NEW I \in Instances, Crash(I) PROVE OutcomeInv' /\ KeepsFinal
  BY <1>1, <1>6 DEF Crash, tables
<1> QED
  BY <1>2, <1>3, <1>4, <1>5, <1>6 DEF Environment

\* Every step keeps the invariant, and every outcome there is.
LEMMA OutcomesPreserved ==
    ASSUME Punctual, TypeInv, OutcomeInv, [Next]_vars
    PROVE  OutcomeInv' /\ KeepsFinal
<1>1. CASE UNCHANGED vars
  BY <1>1 DEF vars, tables, world, locals, OutcomeInv, Decides, KeepsFinal, Rows
<1>2. CASE Next
  <2>1. Crons \subseteq Promoters
    BY DEF Promoters
  <2> QED
    BY <1>2, <2>1, PromotionOutcomes, ExpiryOutcomes, RequestOutcomes,
       EnvironmentOutcomes DEF Next
<1> QED
  BY <1>1, <1>2

\* A paid or expired reservation keeps its outcome, whatever crashes, stalls,
\* fails or is delivered twice: no expiration overwrites a payment and no
\* expired reservation is sold (requirements 6.1, 6.2 and 7.1).
THEOREM OutcomesAreFinal ==
    ASSUME Punctual
    PROVE  Spec => OutcomeIsFinal
<1>1. Init => TypeInv /\ OutcomeInv
  BY TypesInitially DEF Init, OutcomeInv, Decides, ExpiryCalls, MarkCalls
<1>2. TypeInv /\ OutcomeInv /\ [Next]_vars => (TypeInv /\ OutcomeInv)'
  BY TypesPreserved, OutcomesPreserved
<1>3. TypeInv /\ OutcomeInv /\ [Next]_vars =>
        [\A r \in Reservations :
           status[r] \in {"PAID", "EXPIRED"} => status'[r] = status[r]]_vars
  BY OutcomesPreserved DEF KeepsFinal
<1> QED
  BY <1>1, <1>2, <1>3, PTL DEF Spec, OutcomeIsFinal

-----------------------------------------------------------------------------
(* No oversell.                                                            *)

\* a seat went back only from a reservation that was due and not paid
CreditedDue == \A r \in credited : r \in lapsed /\ status[r] # "PAID"

\* A seat goes back by the INCR of an expiration, and what is due is never paid
\* afterwards.
LEMMA CreditedDuePreserved ==
    ASSUME TypeInv, OutcomeInv, CreditedDue, SeatMove, KeepsFinal
    PROVE  CreditedDue'
<1>1. credited \subseteq Reservations /\ lapsed \subseteq Reservations
  BY DEF TypeInv, StoresOK, TablesOK, WorldOK
<1>2. \A r \in credited : r \in lapsed' /\ status'[r] # "PAID"
  BY <1>1 DEF CreditedDue, KeepsFinal
<1>3. CASE credited' = credited
  BY <1>2, <1>3 DEF CreditedDue
<1>4. ASSUME NEW r \in Reservations, Credits(r) PROVE CreditedDue'
  <2>1. PICK w \in Workers : pc[w] = "incrementSeats" /\ res[w] = r
    BY <1>4 DEF Credits
  <2>2. r \in lapsed /\ status[r] \in {"PENDING_PAYMENT", "EXPIRED"}
    BY <2>1 DEF OutcomeInv, Decides, ExpiryCalls, MarkCalls, Actors, Promoters
  <2>3. r \in lapsed' /\ status'[r] # "PAID"
    BY <2>2 DEF KeepsFinal
  <2> QED
    BY <1>2, <1>4, <2>3 DEF Credits, CreditedDue
<1> QED
  BY <1>3, <1>4 DEF SeatMove, Kept, Provisioned, Lost, Grants, Refuses, Restores, Undoes,
     Reserves

\* The invariants about seats and about outcomes hold together.
LEMMA SaleInvariant ==
    ASSUME Benign, Punctual
    PROVE  Spec => [](TypeInv /\ PoolInv /\ OutcomeInv /\ CreditedDue)
<1>1. Init => TypeInv /\ PoolInv /\ OutcomeInv /\ CreditedDue
  BY TypesInitially, SeatsInitially DEF Init, PoolInv, OutcomeInv, Decides,
     ExpiryCalls, MarkCalls, CreditedDue
<1>2. TypeInv /\ PoolInv /\ OutcomeInv /\ CreditedDue /\ [Next]_vars
        => (TypeInv /\ PoolInv /\ OutcomeInv /\ CreditedDue)'
  BY TypesPreserved, SeatsPreserved, PoolMoves, OutcomesPreserved, CreditedDuePreserved
     DEF PoolInv
<1> QED
  BY <1>1, <1>2, PTL DEF Spec

\* Paid and still payable reservations never exceed totalSeats: each of them
\* has a seat of its own, through every crash, stall and redelivery
\* (requirements 5.1-5.3, one seat per reservation).
THEOREM NothingOversold ==
    ASSUME Benign, Punctual
    PROVE  Spec => []NoOversell
<1>1. PoolInv /\ CreditedDue => NoOversell
  <2> SUFFICES ASSUME PoolInv, CreditedDue PROVE NoOversell
    OBVIOUS
  <2>1. Sellable \subseteq Holding /\ Holding \subseteq Reservations
    BY DEF Sellable, Holding, Rows, CreditedDue
  <2>2. Cardinality(Sellable) <= Cardinality(Holding) /\ Cardinality(Sellable) \in Nat
    BY <2>1, CountedSets, FS_Subset
  <2> QED
    BY <2>2, Terms, BoundAssumption DEF PoolInv, SeatInv, NoOverhold, NoOversell
<1> QED
  BY <1>1, SaleInvariant, PTL

-----------------------------------------------------------------------------
(* The statistics.                                                         *)

\* no failure separates the INCR of an expiration from the mark in the row
Marking == Lossless /\ "markExpired" \notin Faults

\* a seat went back exactly from the expired reservations and from the one of
\* each worker that is about to mark it
MarkInv ==
    /\ \A w \in Workers : pc[w] = "markExpired" => res[w] \in credited
    /\ \A r \in credited : \/ status[r] = "EXPIRED"
                           \/ \E w \in Workers : pc[w] = "markExpired" /\ res[w] = r
    /\ \A r \in Reservations : status[r] = "EXPIRED" => r \in credited

\* A step of a handler that does not come to or from the mark.
LEMMA MarksKept ==
    ASSUME TypeInv, MarkInv, NEW a \in Actors, OthersStay(a), credited' = credited,
           \A r \in Reservations : status'[r] = "EXPIRED" <=> status[r] = "EXPIRED",
           pc[a] # "markExpired", pc'[a] # "markExpired"
    PROVE  MarkInv'
<1>1. Workers \subseteq Actors /\ credited \subseteq Reservations
  BY DEF Actors, Promoters, TypeInv, StoresOK, TablesOK
<1>2. \A w \in Workers, r \in Reservations :
        pc'[w] = "markExpired" /\ res'[w] = r <=> pc[w] = "markExpired" /\ res[w] = r
  BY <1>1 DEF OthersStay
<1>3. \A w \in Workers : pc'[w] = "markExpired" => pc[w] = "markExpired" /\ res'[w] = res[w]
  BY <1>1 DEF OthersStay
<1> QED
  BY <1>1, <1>2, <1>3 DEF MarkInv

\* Promotions mark nothing and, without a reservation in the catch block,
\* credit nothing.
LEMMA PromotionMarks ==
    ASSUME TypeInv, UndoInv, MarkInv, NEW a \in Promoters,
           StartCron(a) \/ PromotionStep(a) \/ PromotionThrows(a)
    PROVE  MarkInv'
<1> USE DEF StartCron, PromotionStep, PromotionThrows, PromotionRejects, GetActiveCount,
            GetNextInQueue, DecrementSeats, SaveReservation, AddJob, SetActive,
            RemoveFromQueue, SetexActive, IncrActiveCount, UndoSeat, RestoreSeat,
            MarkSoldOut, RemoveSoldOut, Await
<1>1. /\ a \in Actors
      /\ pc \in [Actors -> Calls] /\ res \in [Actors -> Reservations \cup {None}]
      /\ status \in [Reservations -> ReservationStatuses]
  BY DEF Actors, TypeInv, ControlOK, LocalsOK, StoresOK, TablesOK
<1>2. \A r \in Reservations : status'[r] = "EXPIRED" <=> status[r] = "EXPIRED"
  BY <1>1 DEF tables, Rows, IsFresh
<1>3. credited' = credited
  <2>1. pc[a] = "undoSeat" => res[a] = None
    BY DEF UndoInv
  <2> QED
    BY <2>1
<1>4. OthersStay(a) /\ pc'[a] # "markExpired" /\ pc[a] # "markExpired"
  <2>1. pc[a] # "markExpired"
    BY DEF PromotionCalls, TryCalls, SoldOutCalls
  <2>2. OthersStay(a) /\ pc'[a] # "markExpired"
    BY <1>1 DEF Loop, Goto, Return, Forget, OthersStay, locals
  <2> QED
    BY <2>1, <2>2
<1> QED
  BY <1>1, <1>2, <1>3, <1>4, MarksKept

\* A worker that gave a seat back is at the mark, and the mark ends that.
LEMMA ExpiryMarks ==
    ASSUME Marking, TypeInv, OutcomeInv, MarkInv, NEW w \in Workers,
           TakeJob(w) \/ ExpiryStep(w) \/ ExpiryThrows(w)
    PROVE  MarkInv'
<1>1. /\ w \in Actors /\ Workers \subseteq Actors
      /\ credited \subseteq Reservations
      /\ pc \in [Actors -> Calls] /\ res \in [Actors -> Reservations \cup {None}]
      /\ status \in [Reservations -> ReservationStatuses]
  BY DEF Promoters, Actors, TypeInv, ControlOK, LocalsOK, StoresOK, TablesOK
<1>2. CASE IncrementSeats(w)
  <2>1. /\ pc[w] = "incrementSeats" /\ pc' = [pc EXCEPT ![w] = "markExpired"]
        /\ UNCHANGED <<res, status>> /\ credited' = credited \cup {res[w]}
    BY <1>2 DEF IncrementSeats, Await, Goto, tables, locals
  <2> QED
    BY <1>1, <2>1 DEF MarkInv
<1>3. CASE MarkExpired(w)
  <2>1. /\ pc[w] = "markExpired" /\ pc' = [pc EXCEPT ![w] = "expireEntry"]
        /\ UNCHANGED <<res, credited>>
        /\ status' = [status EXCEPT ![res[w]] = "EXPIRED"]
        /\ res[w] \in credited
    BY <1>3 DEF MarkExpired, Await, Goto, locals, MarkInv
  <2>2. \A r \in Reservations : status'[r] = "EXPIRED" <=> status[r] = "EXPIRED" \/ r = res[w]
    BY <1>1, <2>1
  <2> QED
    BY <1>1, <2>1, <2>2 DEF MarkInv
<1>4. CASE ~IncrementSeats(w) /\ ~MarkExpired(w)
  <2> USE <1>4 DEF ExpiryStep, ExpiryThrows, ExpiryRejects, TakeJob, FindReservation,
          SetLock, ExpireLock, ExpireEntry, DelActive, DecrActiveCount, Await
  <2>1. UNCHANGED <<credited, status>>
    BY DEF tables
  <2>2. pc[w] # "markExpired"
    BY DEF Mishap, Marking
  <2>3. OthersStay(w) /\ pc'[w] # "markExpired"
    BY <1>1 DEF Goto, Return, Forget, TriggerPromotion, OthersStay, locals
  <2> QED
    BY <1>1, <2>1, <2>2, <2>3, MarksKept
<1> QED
  BY <1>2, <1>3, <1>4

\* Requests and the environment mark nothing; a payment is not saved on an
\* expired row.
LEMMA OtherMarks ==
    ASSUME Marking, TypeInv, OutcomeInv, MarkInv,
           \/ \E a \in Joiners \cup Payers :
                \/ a \in Joiners /\ JoinQueue(a)
                \/ a \in Payers /\ FindPayable(a)
                \/ RequestStep(a) \/ RequestThrows(a)
           \/ Environment
    PROVE  MarkInv'
<1>1. /\ pc \in [Actors -> Calls] /\ res \in [Actors -> Reservations \cup {None}]
      /\ status \in [Reservations -> ReservationStatuses]
  BY DEF TypeInv, ControlOK, LocalsOK, StoresOK, TablesOK
<1>2. ASSUME NEW a \in Joiners \cup Payers,
             \/ a \in Joiners /\ JoinQueue(a)
             \/ a \in Payers /\ FindPayable(a)
             \/ RequestStep(a) \/ RequestThrows(a)
      PROVE  MarkInv'
  <2> USE <1>2 DEF RequestStep, RequestThrows, RequestRejects, JoinQueue, FindPayable,
          FindEntry, AddToQueue, SaveEntry, SavePaid, MarkDone, Await
  <2>1. a \in Actors /\ credited' = credited
    BY DEF Actors
  <2>2. \A r \in Reservations : status'[r] = "EXPIRED" <=> status[r] = "EXPIRED"
    <3>1. CASE SavePaid(a)
      BY <1>1, <2>1, <3>1 DEF OutcomeInv, Decides
    <3>2. CASE ~SavePaid(a)
      BY <3>2 DEF tables
    <3> QED
      BY <3>1, <3>2
  <2>3. OthersStay(a) /\ pc[a] # "markExpired" /\ pc'[a] # "markExpired"
    <3>1. pc[a] # "markExpired"
      BY DEF JoinCalls, PayCalls
    <3>2. OthersStay(a) /\ pc'[a] # "markExpired"
      BY <1>1, <2>1 DEF Goto, Return, Forget, OthersStay, locals
    <3> QED
      BY <3>1, <3>2
  <2> QED
    BY <2>1, <2>2, <2>3, MarksKept
<1>3. CASE Environment
  <2>1. UNCHANGED <<pc, res, status, credited>>
    BY <1>3 DEF Environment, InitializeSeats, OpenSales, CloseSales, Lapse, LockTTL,
       StallRunning, StallAbandoned, KeyTTL, Crash, Mishap, Marking, Lossless, tables,
       world, locals
  <2> QED
    BY <2>1 DEF MarkInv
<1> QED
  BY <1>2, <1>3

\* Every step keeps the marks.
LEMMA MarksPreserved ==
    ASSUME Marking, TypeInv, UndoInv, OutcomeInv, MarkInv, [Next]_vars
    PROVE  MarkInv'
<1>1. CASE UNCHANGED vars
  BY <1>1 DEF vars, tables, locals, MarkInv
<1>2. CASE Next
  <2>1. Crons \subseteq Promoters
    BY DEF Promoters
  <2> QED
    BY <1>2, <2>1, PromotionMarks, ExpiryMarks, OtherMarks DEF Next
<1> QED
  BY <1>1, <1>2

\* When no handler is running, the seats left, the unpaid and the paid
\* reservations that the administrator is shown add up to totalSeats
\* (requirements 10.1-10.3).
THEOREM StatisticsAddUp ==
    ASSUME Marking, Punctual
    PROVE  Spec => []StatsAddUp
<1>1. Lossless /\ Benign
  BY DEF Marking, Lossless
<1>2. Init => MarkInv
  BY DEF Init, MarkInv, Actors, Promoters
<1>3. TypeInv /\ PoolInv /\ OutcomeInv /\ CreditedDue /\ MarkInv /\ [Next]_vars => MarkInv'
  BY MarksPreserved DEF PoolInv
<1>4. TypeInv /\ SeatConservation /\ MarkInv => StatsAddUp
  <2> SUFFICES ASSUME TypeInv, SeatConservation, MarkInv, provisioned, Idle
               PROVE  seats + Count("PENDING_PAYMENT") + Count("PAID") = TotalSeats
    BY DEF StatsAddUp, Stats, ReservationStatuses
  <2>1. Granted = {} /\ Refused = {}
    BY DEF Idle, Granted, Refused, Actors
  <2> DEFINE Unpaid == {r \in Reservations : status[r] = "PENDING_PAYMENT"}
             Sold == {r \in Reservations : status[r] = "PAID"}
  <2>2. Holding = Unpaid \cup Sold
    <3>1. \A r \in credited : status[r] = "EXPIRED"
      BY DEF MarkInv, Idle, Actors, Promoters
    <3>2. \A r \in Rows : status[r] \in {"PENDING_PAYMENT", "PAID", "EXPIRED"}
      BY DEF Rows, TypeInv, StoresOK, TablesOK, ReservationStatuses
    <3> QED
      BY <3>1, <3>2 DEF Holding, Rows, MarkInv
  <2>3. Cardinality(Holding) = Cardinality(Unpaid) + Cardinality(Sold)
    <3>1. /\ IsFiniteSet(Unpaid) /\ IsFiniteSet(Sold)
          /\ Cardinality(Unpaid) \in Nat /\ Cardinality(Sold) \in Nat
      BY CountedSets
    <3>2. Unpaid \cap Sold = {}
      OBVIOUS
    <3> QED
      BY <2>2, <3>1, <3>2, FS_Union, FS_EmptySet
  <2>4. seats \in Int /\ Cardinality(Unpaid) \in Nat /\ Cardinality(Sold) \in Nat
    BY CountedSets DEF TypeInv, StoresOK, CacheOK
  <2> QED
    BY <2>1, <2>3, <2>4, FS_EmptySet, BoundAssumption
       DEF SeatConservation, SeatsAccounted, Count
<1> QED
  BY <1>1, <1>2, <1>3, <1>4, SaleInvariant, SeatsConserved, PTL DEF Spec

=============================================================================
