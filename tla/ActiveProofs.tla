---------------------------- MODULE ActiveProofs ----------------------------
(***************************************************************************)
(* Proofs about the counter of active users and the limit it serves.       *)
(* SETEX and INCR, DEL and DECR are pairs of commands with an await        *)
(* between them; the counter follows the keys from above in every          *)
(* interleaving of the pairs (Paired).  Promoters read the counter and     *)
(* fill the slots they saw free without coordination; the limit is passed  *)
(* at most once per promoter, because the counter never goes below zero:   *)
(* the DECR of a reservation comes after its INCR as long as no promotion  *)
(* is stopped halfway or takes the 300 s until the reservation expires     *)
(* (Prompt).                                                               *)
(***************************************************************************)
EXTENDS SeatProofs

-----------------------------------------------------------------------------
(* The counter and the keys.                                               *)

\* no promoter is stopped between SETEX and INCR
Paired == Faults \cap {"crash", "incrActiveCount"} = {}

Keys == {u \in Users : activeKey[u] # None}
Incrementing == {a \in Promoters : pc[a] = "incrActiveCount"}
Decrementing == {w \in Workers : pc[w] = "decrActiveCount"}

\* what ActiveNeverUndercounted counts is finite
LEMMA ActiveSets ==
    ASSUME NEW S, S \subseteq Users \/ S \subseteq Promoters
    PROVE  IsFiniteSet(S) /\ Cardinality(S) \in Nat
  BY IdAssumption, CountedSets, FS_Subset, FS_CardinalityType

LEMMA ActiveTerms ==
    /\ Cardinality(Keys) \in Nat /\ Cardinality(Keys)' \in Nat
    /\ Cardinality(Incrementing) \in Nat /\ Cardinality(Incrementing)' \in Nat
    /\ Cardinality(Decrementing) \in Nat /\ Cardinality(Decrementing)' \in Nat
<1>1. /\ Keys \subseteq Users /\ Keys' \subseteq Users
      /\ Incrementing \subseteq Promoters /\ Incrementing' \subseteq Promoters
      /\ Decrementing \subseteq Promoters /\ Decrementing' \subseteq Promoters
  BY DEF Keys, Incrementing, Decrementing, Promoters
<1> QED
  BY <1>1, ActiveSets

\* The property in these terms, before and after a step.
LEMMA Undercounting ==
    /\ ActiveNeverUndercounted <=>
         activeCount + Cardinality(Incrementing) >= Cardinality(Keys) + Cardinality(Decrementing)
    /\ ActiveNeverUndercounted' <=>
         activeCount' + Cardinality(Incrementing)'
           >= Cardinality(Keys)' + Cardinality(Decrementing)'
  BY DEF ActiveNeverUndercounted, Keys, Incrementing, Decrementing

\* A step that leaves the counter alone, removes keys at most and completes no
\* pair.
LEMMA KeysKept ==
    ASSUME TypeInv, ActiveNeverUndercounted, activeCount' = activeCount,
           Keys' \subseteq Keys, Incrementing' = Incrementing,
           Decrementing' \subseteq Decrementing
    PROVE  ActiveNeverUndercounted'
<1>1. /\ Cardinality(Keys)' <= Cardinality(Keys)
      /\ Cardinality(Decrementing)' <= Cardinality(Decrementing)
  <2>1. Keys \subseteq Users /\ Decrementing \subseteq Promoters
    BY DEF Keys, Decrementing, Promoters
  <2> QED
    BY <2>1, ActiveSets, FS_Subset
<1>2. activeCount \in Int
  BY DEF TypeInv, StoresOK, CacheOK
<1> QED
  BY <1>1, <1>2, ActiveTerms, Undercounting

\* A step of one handler that touches no active key and is at neither INCR nor
\* DECR.
LEMMA QuietActive ==
    ASSUME TypeInv, ActiveNeverUndercounted, NEW a \in Actors, OthersStay(a),
           UNCHANGED active,
           pc[a] # "incrActiveCount",
           pc'[a] \notin {"incrActiveCount", "decrActiveCount"}
    PROVE  ActiveNeverUndercounted'
<1>1. Keys' = Keys
  BY DEF active, Keys
<1>2. Incrementing' = Incrementing /\ Decrementing' \subseteq Decrementing
  BY DEF Incrementing, Decrementing, OthersStay, Promoters, Actors
<1> QED
  BY <1>1, <1>2, KeysKept DEF active

\* SETEX announces an INCR, INCR fulfils it.
LEMMA SetActiveUserCounts ==
    ASSUME TypeInv, ActiveNeverUndercounted, NEW a \in Promoters,
           SetexActive(a) \/ IncrActiveCount(a)
    PROVE  ActiveNeverUndercounted'
<1>1. /\ a \in Actors /\ Promoters \subseteq Actors /\ activeCount \in Int
      /\ pc \in [Actors -> Calls] /\ activeKey \in [Users -> Reservations \cup {None}]
  BY DEF Actors, TypeInv, StoresOK, CacheOK, ControlOK, LocalsOK
<1>2. CASE SetexActive(a)
  <2>1. /\ pc[a] = "setexActive" /\ pc' = [pc EXCEPT ![a] = "incrActiveCount"]
        /\ activeKey' = [activeKey EXCEPT ![user[a]] = res[a]]
        /\ activeCount' = activeCount
    BY <1>2 DEF SetexActive, Await, Goto
  <2>2. Incrementing' = Incrementing \cup {a} /\ a \notin Incrementing
    BY <1>1, <2>1 DEF Incrementing
  <2>3. Cardinality(Incrementing)' = Cardinality(Incrementing) + 1
    BY <2>2, OneMore DEF Incrementing
  <2>4. Cardinality(Keys)' <= Cardinality(Keys) + 1
    <3>1. Keys' \subseteq Keys \cup {user[a]} /\ IsFiniteSet(Keys)
      BY <1>1, <2>1, ActiveSets DEF Keys
    <3>2. /\ IsFiniteSet(Keys \cup {user[a]})
          /\ Cardinality(Keys \cup {user[a]}) <= Cardinality(Keys) + 1
      BY <3>1, FS_AddElement, ActiveTerms
    <3> QED
      BY <3>1, <3>2, FS_Subset, FS_CardinalityType, ActiveTerms
  <2>5. Decrementing' = Decrementing
    BY <1>1, <2>1 DEF Decrementing, Promoters
  <2> QED
    BY <1>1, <2>1, <2>3, <2>4, <2>5, ActiveTerms, Undercounting
<1>3. CASE IncrActiveCount(a)
  <2>1. /\ pc[a] = "incrActiveCount" /\ activeCount' = activeCount + 1
        /\ activeKey' = activeKey
        /\ pc'[a] \notin {"incrActiveCount", "decrActiveCount"}
        /\ \A b \in Promoters \ {a} : pc'[b] = pc[b]
    BY <1>1, <1>3 DEF IncrActiveCount, Loop, Goto, Return, Forget
  <2>2. Incrementing' = Incrementing \ {a} /\ a \in Incrementing
    BY <2>1 DEF Incrementing
  <2>3. Cardinality(Incrementing)' = Cardinality(Incrementing) - 1
    BY <2>2, OneLess DEF Incrementing
  <2>4. Keys' = Keys /\ Decrementing' = Decrementing
    BY <2>1 DEF Keys, Decrementing, Promoters
  <2> QED
    BY <1>1, <2>1, <2>3, <2>4, ActiveTerms, Undercounting
<1> QED
  BY <1>2, <1>3

\* The other steps of a promotion, and its failures, are not between the two.
LEMMA PromotionActive ==
    ASSUME Paired, TypeInv, ActiveNeverUndercounted, NEW a \in Promoters,
           StartCron(a) \/ PromotionStep(a) \/ PromotionThrows(a)
    PROVE  ActiveNeverUndercounted'
<1>1. a \in Actors /\ pc \in [Actors -> Calls] /\ res \in [Actors -> Reservations \cup {None}]
  BY DEF Actors, TypeInv, ControlOK, LocalsOK
<1>2. CASE SetexActive(a) \/ IncrActiveCount(a)
  BY <1>2, SetActiveUserCounts
<1>3. CASE ~SetexActive(a) /\ ~IncrActiveCount(a)
  <2> USE <1>3 DEF StartCron, PromotionStep, PromotionThrows, PromotionRejects, GetActiveCount,
          GetNextInQueue, DecrementSeats, SaveReservation, AddJob, SetActive,
          RemoveFromQueue, UndoSeat, RestoreSeat, MarkSoldOut, RemoveSoldOut, Await
  <2>1. UNCHANGED active
    BY DEF cache
  <2>2. pc[a] # "incrActiveCount"
    BY DEF Mishap, Paired
  <2>3. OthersStay(a) /\ pc'[a] \notin {"incrActiveCount", "decrActiveCount"}
    BY <1>1 DEF Loop, Goto, Return, Forget, OthersStay, locals
  <2> QED
    BY <1>1, <2>1, <2>2, <2>3, QuietActive
<1> QED
  BY <1>2, <1>3

\* DEL announces a DECR only if it removed a key, DECR fulfils it; a DECR that
\* fails leaves the counter too high, which is the safe side.
LEMMA ExpiryActive ==
    ASSUME TypeInv, ServiceInv, ActiveNeverUndercounted, NEW w \in Workers,
           TakeJob(w) \/ ExpiryStep(w) \/ ExpiryThrows(w)
    PROVE  ActiveNeverUndercounted'
<1>1. /\ w \in Actors /\ w \in Promoters /\ Promoters \subseteq Actors
      /\ Workers \subseteq Promoters /\ activeCount \in Int
      /\ pc \in [Actors -> Calls] /\ res \in [Actors -> Reservations \cup {None}]
      /\ activeKey \in [Users -> Reservations \cup {None}]
  BY DEF Promoters, Actors, TypeInv, StoresOK, CacheOK, ControlOK, LocalsOK
<1>2. OthersStay(w) /\ pc'[w] # "incrActiveCount"
  BY <1>1 DEF ExpiryStep, ExpiryThrows, ExpiryRejects, TakeJob, FindReservation, SetLock,
     ExpireLock, IncrementSeats, MarkExpired, ExpireEntry, DelActive, DecrActiveCount,
     Await, Goto, Return, Forget, TriggerPromotion, OthersStay, locals
<1>3. pc[w] # "incrActiveCount"
  BY DEF ExpiryStep, ExpiryThrows, ExpiryRejects, TakeJob, FindReservation, SetLock,
     ExpireLock, IncrementSeats, MarkExpired, ExpireEntry, DelActive, DecrActiveCount,
     Await, ExpiryCalls
<1>4. Incrementing' = Incrementing
  BY <1>1, <1>2, <1>3 DEF Incrementing, OthersStay
<1>5. CASE DelActive(w)
  <2>1. /\ pc[w] = "delActive" /\ activeCount' = activeCount
        /\ activeKey' = [activeKey EXCEPT ![user[w]] = None]
        /\ pc'[w] = "decrActiveCount" => activeKey[user[w]] # None
    BY <1>1, <1>5 DEF DelActive, TriggerPromotion, Goto
  <2>2. CASE pc'[w] = "decrActiveCount" /\ user[w] \in Users
    <3>1. Keys' = Keys \ {user[w]} /\ user[w] \in Keys
      BY <1>1, <2>1, <2>2 DEF Keys
    <3>2. Cardinality(Keys)' = Cardinality(Keys) - 1
      BY <3>1, ActiveSets, FS_RemoveElement DEF Keys
    <3>3. Decrementing' = Decrementing \cup {w} /\ w \notin Decrementing
      BY <1>1, <1>2, <2>1, <2>2 DEF Decrementing, OthersStay
    <3>4. Cardinality(Decrementing)' = Cardinality(Decrementing) + 1
      BY <1>1, <3>3, OneMore DEF Decrementing
    <3> QED
      BY <1>1, <1>4, <2>1, <3>2, <3>4, ActiveTerms, Undercounting
  <2>3. CASE pc'[w] # "decrActiveCount"
    <3>1. Keys' \subseteq Keys /\ Decrementing' \subseteq Decrementing
      BY <1>1, <1>2, <2>1, <2>3 DEF Keys, Decrementing, OthersStay
    <3> QED
      BY <1>4, <2>1, <3>1, KeysKept
  <2>4. user[w] \in Users
    BY <1>1, <2>1 DEF ServiceInv, Serves, BlankCalls
  <2> QED
    BY <2>2, <2>3, <2>4
<1>6. CASE DecrActiveCount(w)
  <2>1. /\ pc[w] = "decrActiveCount" /\ activeCount' = activeCount - 1
        /\ activeKey' = activeKey /\ pc'[w] = "getActiveCount"
    BY <1>1, <1>6 DEF DecrActiveCount, TriggerPromotion, Goto
  <2>2. Decrementing' = Decrementing \ {w} /\ w \in Decrementing /\ Keys' = Keys
    BY <1>1, <1>2, <2>1 DEF Decrementing, OthersStay, Keys
  <2>3. Cardinality(Decrementing)' = Cardinality(Decrementing) - 1
    BY <1>1, <2>2, OneLess DEF Decrementing
  <2> QED
    BY <1>1, <1>4, <2>1, <2>2, <2>3, ActiveTerms, Undercounting
<1>7. CASE ~DelActive(w) /\ ~DecrActiveCount(w)
  <2> USE <1>7 DEF ExpiryStep, ExpiryThrows, ExpiryRejects, TakeJob, FindReservation, SetLock,
          ExpireLock, IncrementSeats, MarkExpired, ExpireEntry, Await
  <2>1. UNCHANGED active /\ pc'[w] # "decrActiveCount"
    BY <1>1 DEF cache, Goto, Return, Forget
  <2> QED
    BY <1>1, <1>2, <1>3, <2>1, QuietActive
<1> QED
  BY <1>5, <1>6, <1>7

\* Requests touch no active key; a TTL only removes one.
LEMMA OtherActive ==
    ASSUME Paired, TypeInv, ActiveNeverUndercounted,
           \/ \E a \in Joiners \cup Payers :
                \/ a \in Joiners /\ JoinQueue(a)
                \/ a \in Payers /\ FindPayable(a)
                \/ RequestStep(a) \/ RequestThrows(a)
           \/ Environment
    PROVE  ActiveNeverUndercounted'
<1>1. pc \in [Actors -> Calls] /\ res \in [Actors -> Reservations \cup {None}]
  BY DEF TypeInv, ControlOK, LocalsOK
<1>2. ASSUME NEW a \in Joiners \cup Payers,
             \/ a \in Joiners /\ JoinQueue(a)
             \/ a \in Payers /\ FindPayable(a)
             \/ RequestStep(a) \/ RequestThrows(a)
      PROVE  ActiveNeverUndercounted'
  <2> USE <1>2 DEF RequestStep, RequestThrows, RequestRejects, JoinQueue, FindPayable,
          FindEntry, AddToQueue, SaveEntry, SavePaid, MarkDone, Await
  <2>1. a \in Actors /\ UNCHANGED active
    BY DEF Actors, cache
  <2>2. pc[a] # "incrActiveCount"
    BY DEF JoinCalls, PayCalls
  <2>3. OthersStay(a) /\ pc'[a] \notin {"incrActiveCount", "decrActiveCount"}
    BY <1>1, <2>1 DEF Goto, Return, Forget, OthersStay, locals
  <2> QED
    BY <2>1, <2>2, <2>3, QuietActive
<1>3. CASE Environment
  <2>1. /\ UNCHANGED <<pc, activeCount>>
        /\ \A u \in Users : activeKey'[u] # None => activeKey[u] # None
    <3>1. activeKey \in [Users -> Reservations \cup {None}]
      BY DEF TypeInv, StoresOK, CacheOK
    <3> QED
      BY <1>3, <3>1 DEF Environment, InitializeSeats, OpenSales, CloseSales, Lapse, LockTTL,
         StallRunning, StallAbandoned, KeyTTL, Crash, Mishap, Paired, cache, active
  <2> QED
    BY <2>1, KeysKept DEF Keys, Incrementing, Decrementing
<1> QED
  BY <1>2, <1>3

\* The counter that the limit is checked against never falls behind the active
\* keys, in every interleaving of SETEX, INCR, DEL, DECR and the TTL: the limit
\* errs towards fewer promotions (requirement 4.5).
THEOREM ActiveCounted ==
    ASSUME Paired
    PROVE  Spec => []ActiveNeverUndercounted
<1> DEFINE ActiveInv == TypeInv /\ ServiceInv /\ ActiveNeverUndercounted
<1>1. Init => ActiveInv
  <2> SUFFICES ASSUME Init PROVE ActiveNeverUndercounted
    BY TypesInitially, ServiceInitially
  <2>1. Keys = {} /\ Incrementing = {} /\ Decrementing = {} /\ activeCount = 0
    BY DEF Init, Keys, Incrementing, Decrementing, Actors, Promoters
  <2>2. /\ Cardinality(Keys) = 0 /\ Cardinality(Incrementing) = 0
        /\ Cardinality(Decrementing) = 0
    BY <2>1, FS_EmptySet
  <2>3. activeCount + Cardinality(Incrementing)
          >= Cardinality(Keys) + Cardinality(Decrementing)
    BY <2>1, <2>2
  <2> QED
    BY <2>3, Undercounting
<1>2. ActiveInv /\ [Next]_vars => ActiveInv'
  <2> SUFFICES ASSUME TypeInv, ServiceInv, ActiveNeverUndercounted, [Next]_vars
               PROVE  ActiveNeverUndercounted'
    BY TypesPreserved, ServicePreserved
  <2>1. CASE UNCHANGED vars
    BY <2>1 DEF vars, cache, active, ActiveNeverUndercounted
  <2>2. CASE Next
    <3>1. Crons \subseteq Promoters
      BY DEF Promoters
    <3> QED
      BY <2>2, <3>1, PromotionActive, ExpiryActive, OtherActive DEF Next
  <2> QED
    BY <2>1, <2>2
<1> QED
  BY <1>1, <1>2, PTL DEF Spec

-----------------------------------------------------------------------------
(* The limit.                                                              *)

\* every promotion is finished before the reservation it made expires
Prompt == Faults \cap {"crash", "slowPromotion"} = {}

\* the calls of a worker that owns the expiration lock of its reservation, and
\* those after it has given the seat back
LockedCalls == ExpiryCalls \ {"findReservation", "setnx"}
AfterCredit == LockedCalls \ OwnerCalls

\* expirations come after the deadline and promotions are over by then
InTime ==
    /\ lapsed \subseteq Rows
    /\ \A a \in Actors : /\ pc[a] \in ExpiryCalls => res[a] \in lapsed
                         /\ pc[a] \in AfterSave => res[a] \notin lapsed

\* one worker at a time owns the lock, from SETNX to the end of the expiration
LockOwned ==
    \A a \in Actors :
        /\ pc[a] \in LockedCalls =>
              /\ lock[res[a]] # "free"
              /\ \A b \in Actors \ {a} : pc[b] \in LockedCalls => res[b] # res[a]
        /\ pc[a] \in AfterCredit => res[a] \in credited

\* reservations whose INCR is done and whose DECR is not
Counted == {r \in Rows : /\ \A a \in Actors : pc[a] \in AfterSave => res[a] # r
                         /\ \/ r \notin credited
                            \/ \E a \in Actors : pc[a] \in AfterCredit /\ res[a] = r}

CountCovers == activeCount >= Cardinality(Counted)

\* the promotions still allowed, one pair for each iteration left in a loop
SlotsLeft == {p \in Promoters \X (1 .. MaxActive) : p[2] <= slots[p[1]]}

WithinLimit ==
    /\ \A a \in Promoters : slots[a] <= MaxActive
    /\ activeCount + Cardinality(SlotsLeft) <= Cardinality(Promoters) * MaxActive

LimitInv == InTime /\ LockOwned /\ CountCovers /\ WithinLimit

-----------------------------------------------------------------------------
(* Deadlines and locks.                                                    *)

\* A step of one handler: it expires only what has lapsed, promotes only what
\* has not, and owns a lock only if it did before or takes it.
LEMMA HandlerInTime ==
    ASSUME InTime, LockOwned, NEW a \in Actors, OthersStay(a),
           lapsed' = lapsed, Rows \subseteq Rows', credited \subseteq credited',
           \A b \in Actors \ {a} :
              pc[b] \in LockedCalls => lock'[res[b]] # "free",
           pc'[a] \in ExpiryCalls => res'[a] \in lapsed,
           pc'[a] \in AfterSave => res'[a] \notin lapsed,
           pc'[a] \in LockedCalls =>
              /\ lock'[res'[a]] # "free"
              /\ \/ pc[a] \in LockedCalls /\ res'[a] = res[a]
                 \/ lock[res'[a]] = "free",
           pc'[a] \in AfterCredit => res'[a] \in credited'
    PROVE  InTime' /\ LockOwned'
<1>1. InTime'
  BY DEF InTime, OthersStay
<1>2. ASSUME NEW b \in Actors \ {a}, pc'[b] \in LockedCalls
      PROVE  /\ lock'[res'[b]] # "free"
             /\ \A c \in Actors \ {b} : pc'[c] \in LockedCalls => res'[c] # res'[b]
  BY <1>2 DEF LockOwned, OthersStay
<1>3. ASSUME pc'[a] \in LockedCalls
      PROVE  \A c \in Actors \ {a} : pc'[c] \in LockedCalls => res'[c] # res'[a]
  BY <1>3 DEF LockOwned, OthersStay
<1>4. ASSUME NEW b \in Actors, pc'[b] \in AfterCredit PROVE res'[b] \in credited'
  BY <1>4 DEF LockOwned, OthersStay
<1>5. LockOwned'
  BY <1>2, <1>3, <1>4 DEF LockOwned
<1> QED
  BY <1>1, <1>5

\* A promotion reserves a row that is not there yet, so it has not lapsed.
LEMMA PromotionInTime ==
    ASSUME TypeInv, InTime, LockOwned, NEW a \in Promoters,
           StartCron(a) \/ PromotionStep(a) \/ PromotionThrows(a)
    PROVE  InTime' /\ LockOwned'
<1> USE DEF StartCron, PromotionStep, PromotionThrows, PromotionRejects, GetActiveCount,
            GetNextInQueue, DecrementSeats, SaveReservation, AddJob, SetActive,
            RemoveFromQueue, SetexActive, IncrActiveCount, UndoSeat, RestoreSeat,
            MarkSoldOut, RemoveSoldOut, Await
<1>1. /\ a \in Actors
      /\ pc \in [Actors -> Calls] /\ res \in [Actors -> Reservations \cup {None}]
      /\ status \in [Reservations -> ReservationStatuses]
  BY DEF Actors, TypeInv, ControlOK, LocalsOK, StoresOK, TablesOK
<1>2. UNCHANGED <<lapsed, lock>> /\ credited \subseteq credited'
  BY DEF world, cache
<1>3. Rows \subseteq Rows'
  BY <1>1 DEF Rows, tables, IsFresh
<1>4. OthersStay(a)
  BY <1>1 DEF Loop, Goto, Return, Forget, OthersStay, locals
<1>5. pc'[a] \notin ExpiryCalls
  BY <1>1 DEF Loop, Goto, Return, Forget, ExpiryCalls
<1>6. pc'[a] \in AfterSave => res'[a] \notin lapsed
  <2>1. CASE SaveReservation(a)
    BY <1>1, <2>1 DEF IsFresh, InTime
  <2>2. CASE ~SaveReservation(a)
    <3>1. pc'[a] \in AfterSave => pc[a] \in AfterSave /\ res'[a] = res[a]
      BY <1>1, <2>2 DEF Loop, Goto, Return, Forget, AfterSave, TryCalls, locals
    <3> QED
      BY <1>1, <3>1 DEF InTime
  <2> QED
    BY <2>1, <2>2
<1> QED
  BY <1>1, <1>2, <1>3, <1>4, <1>5, <1>6, HandlerInTime DEF LockedCalls, AfterCredit, LockOwned

\* An expiration takes the lock of a reservation nobody else is expiring, and
\* keeps it to its end.
LEMMA ExpiryInTime ==
    ASSUME TypeInv, ServiceInv, InTime, LockOwned, NEW w \in Workers,
           TakeJob(w) \/ ExpiryStep(w) \/ ExpiryThrows(w)
    PROVE  InTime' /\ LockOwned'
<1> USE DEF ExpiryStep, ExpiryThrows, ExpiryRejects, TakeJob, FindReservation, SetLock,
            ExpireLock, IncrementSeats, MarkExpired, ExpireEntry, DelActive,
            DecrActiveCount, Await
<1>1. /\ w \in Actors
      /\ pc \in [Actors -> Calls] /\ res \in [Actors -> Reservations \cup {None}]
      /\ status \in [Reservations -> ReservationStatuses]
      /\ lock \in [Reservations -> LockStates]
      /\ pc[w] \in ExpiryCalls => res[w] \in Reservations
  BY DEF Actors, Promoters, TypeInv, ControlOK, LocalsOK, StoresOK, TablesOK, CacheOK, Working
<1>2. lapsed' = lapsed /\ credited \subseteq credited'
  BY DEF world
<1>3. Rows \subseteq Rows'
  BY <1>1 DEF Rows, tables
<1>4. OthersStay(w)
  BY <1>1 DEF Goto, Return, Forget, TriggerPromotion, OthersStay, locals
<1>5. \A r \in Reservations : lock[r] # "free" => lock'[r] # "free"
  BY <1>1 DEF cache
<1>6. pc'[w] \notin AfterSave
  BY <1>1 DEF Goto, Return, Forget, TriggerPromotion, AfterSave, TryCalls
<1>7. pc'[w] \in ExpiryCalls => res'[w] \in lapsed
  BY <1>1 DEF Goto, Return, Forget, TriggerPromotion, ExpiryCalls, locals, InTime
<1>8. pc'[w] \in LockedCalls =>
        /\ lock'[res'[w]] # "free"
        /\ \/ pc[w] \in LockedCalls /\ res'[w] = res[w]
           \/ lock[res'[w]] = "free"
  <2>1. CASE SetLock(w)
    BY <1>1, <2>1 DEF Goto, Return, Forget, LockedCalls, ExpiryCalls, locals
  <2>2. CASE ~SetLock(w)
    <3>1. pc'[w] \in LockedCalls => pc[w] \in LockedCalls /\ res'[w] = res[w]
      BY <1>1, <2>2 DEF Goto, Return, Forget, TriggerPromotion, LockedCalls, ExpiryCalls, locals
    <3>2. pc[w] \in LockedCalls => res[w] \in Reservations /\ lock[res[w]] # "free"
      BY <1>1 DEF LockOwned, LockedCalls
    <3> QED
      BY <1>5, <3>1, <3>2
  <2> QED
    BY <2>1, <2>2
<1>9. pc'[w] \in AfterCredit => res'[w] \in credited'
  BY <1>1 DEF Goto, Return, Forget, TriggerPromotion, AfterCredit, LockedCalls, OwnerCalls,
     ExpiryCalls, locals, LockOwned
<1>10. \A b \in Actors \ {w} : pc[b] \in LockedCalls => lock'[res[b]] # "free"
  <2>1. ASSUME NEW b \in Actors, pc[b] \in LockedCalls
        PROVE  res[b] \in Reservations /\ lock[res[b]] # "free"
    BY <2>1 DEF LockOwned, LockedCalls, ServiceInv, Serves, RowCalls, Rows
  <2> QED
    BY <1>5, <2>1
<1> QED
  BY <1>1, <1>2, <1>3, <1>4, <1>6, <1>7, <1>8, <1>9, <1>10, HandlerInTime

\* Requests expire and promote nothing.
LEMMA RequestInTime ==
    ASSUME TypeInv, ServiceInv, InTime, LockOwned, NEW a \in Joiners \cup Payers,
           \/ a \in Joiners /\ JoinQueue(a)
           \/ a \in Payers /\ FindPayable(a)
           \/ RequestStep(a) \/ RequestThrows(a)
    PROVE  InTime' /\ LockOwned'
<1> USE DEF RequestStep, RequestThrows, RequestRejects, JoinQueue, FindPayable,
        FindEntry, AddToQueue, SaveEntry, SavePaid, MarkDone, Await
<1>1. /\ a \in Actors
      /\ pc \in [Actors -> Calls] /\ res \in [Actors -> Reservations \cup {None}]
      /\ status \in [Reservations -> ReservationStatuses]
  BY DEF Actors, TypeInv, ControlOK, LocalsOK, StoresOK, TablesOK
<1>2. UNCHANGED <<lapsed, lock, credited>>
  BY DEF world, cache
<1>3. Rows \subseteq Rows'
  BY <1>1 DEF Rows, tables
<1>4. OthersStay(a)
  BY <1>1 DEF Goto, Return, Forget, OthersStay, locals
<1>5. pc'[a] \notin ExpiryCalls \cup AfterSave
  BY <1>1 DEF Goto, Return, Forget, ExpiryCalls, AfterSave, TryCalls
<1> QED
  BY <1>1, <1>2, <1>3, <1>4, <1>5, HandlerInTime DEF LockedCalls, AfterCredit, LockOwned

\* A deadline passes only when no promotion of the owner is under way.
LEMMA EnvironmentInTime ==
    ASSUME Prompt, TypeInv, ServiceInv, InTime, LockOwned, Environment
    PROVE  InTime' /\ LockOwned'
<1>1. UNCHANGED <<pc, res, credited, status>>
  BY DEF Environment, InitializeSeats, OpenSales, CloseSales, Lapse, LockTTL, Mishap,
     StallRunning, StallAbandoned, KeyTTL, Crash, tables, locals, Prompt
<1>2. LockOwned'
  <2>1. ASSUME NEW r \in Reservations, LockTTL(r), NEW a \in Actors, pc[a] \in LockedCalls
        PROVE  lock'[res[a]] = lock[res[a]]
    <3>1. pc[a] \in ExpiryCalls /\ pc[a] \notin PromotionCalls \cup JoinCalls \cup PayCalls
      BY <2>1 DEF LockedCalls, ExpiryCalls, JoinCalls, PayCalls, PromotionCalls, TryCalls,
         SoldOutCalls
    <3>2. a \in Workers
      BY <3>1 DEF TypeInv, ControlOK, HandlersOK, Actors, Promoters, ExpiryCalls
    <3>3. res[a] \in Reservations
      BY <3>1, <3>2 DEF TypeInv, ControlOK, Working
    <3> QED
      BY <2>1, <3>2, <3>3 DEF LockTTL, TypeInv, StoresOK, CacheOK
  <2>2. CASE \E r \in Reservations : LockTTL(r)
    BY <1>1, <2>1, <2>2 DEF LockOwned
  <2>3. CASE ~\E r \in Reservations : LockTTL(r)
    <3>1. UNCHANGED lock
      BY <2>3 DEF Environment, InitializeSeats, OpenSales, CloseSales, Lapse, Mishap,
         StallRunning, StallAbandoned, KeyTTL, Crash, cache, Prompt
    <3> QED
      BY <1>1, <3>1 DEF LockOwned
  <2> QED
    BY <2>2, <2>3
<1>3. ASSUME NEW r \in Reservations, Lapse(r)
      PROVE  InTime'
  <2>1. lapsed' = lapsed \cup {r} /\ r \in Rows
    BY <1>3 DEF Lapse
  <2>2. ASSUME NEW a \in Actors, pc[a] \in AfterSave PROVE res[a] # r
    <3>1. a \in Promoters
      BY <2>2 DEF TypeInv, ControlOK, HandlersOK, Actors, AfterSave, TryCalls, JoinCalls,
         PayCalls
    <3>2. owner[res[a]] = user[a] /\ pc[a] \in PromotionCalls
      BY <2>2 DEF ServiceInv, Serves, RowCalls, PromotionCalls, AfterSave
    <3> QED
      BY <1>3, <3>1, <3>2 DEF Lapse, Prompt
  <2>3. lapsed' \subseteq Rows'
    BY <1>1, <2>1 DEF InTime, Rows
  <2>4. ASSUME NEW a \in Actors
        PROVE  /\ pc'[a] \in ExpiryCalls => res'[a] \in lapsed'
               /\ pc'[a] \in AfterSave => res'[a] \notin lapsed'
    BY <1>1, <2>1, <2>2 DEF InTime
  <2> QED
    BY <2>3, <2>4 DEF InTime
<1>4. CASE ~\E r \in Reservations : Lapse(r)
  <2>1. lapsed' = lapsed
    BY <1>4 DEF Environment, InitializeSeats, OpenSales, CloseSales, LockTTL,
     StallRunning, StallAbandoned, KeyTTL, Crash, world
  <2>2. Rows' = Rows
    BY <1>1 DEF Rows
  <2> QED
    BY <1>1, <1>2, <2>1, <2>2 DEF InTime
<1> QED
  BY <1>2, <1>3, <1>4

-----------------------------------------------------------------------------
(* The counter covers the reservations.                                    *)

\* Counting reservations, and the pairs of a promoter and an iteration.
LEMMA LimitSets ==
    /\ Counted \subseteq Reservations /\ Counted' \subseteq Reservations
    /\ Cardinality(Counted) \in Nat /\ Cardinality(Counted)' \in Nat
    /\ IsFiniteSet(SlotsLeft) /\ IsFiniteSet(SlotsLeft')
    /\ Cardinality(SlotsLeft) \in Nat /\ Cardinality(SlotsLeft)' \in Nat
<1>1. Counted \subseteq Reservations /\ Counted' \subseteq Reservations
  BY DEF Counted, Rows
<1>2. IsFiniteSet(Promoters \X (1 .. MaxActive))
  <2>1. IsFiniteSet(Promoters) /\ IsFiniteSet(1 .. MaxActive)
    BY CountedSets, FS_Interval, BoundAssumption
  <2> QED
    BY <2>1, FS_Product
<1>3. /\ SlotsLeft \subseteq Promoters \X (1 .. MaxActive)
      /\ SlotsLeft' \subseteq Promoters \X (1 .. MaxActive)
  BY DEF SlotsLeft
<1>4. IsFiniteSet(SlotsLeft) /\ IsFiniteSet(SlotsLeft')
  BY <1>2, <1>3, FS_Subset
<1> QED
  BY <1>1, <1>4, CountedSets, FS_CardinalityType

\* A step that leaves the counter alone and counts no further reservation.
LEMMA NoneCounted ==
    ASSUME TypeInv, CountCovers, activeCount' = activeCount, Counted' \subseteq Counted
    PROVE  CountCovers'
<1>1. Cardinality(Counted)' <= Cardinality(Counted)
  BY LimitSets, CountedSets, FS_Subset
<1>2. activeCount \in Int
  BY DEF TypeInv, StoresOK, CacheOK
<1> QED
  BY <1>1, <1>2, LimitSets DEF CountCovers

\* A step of one handler that inserts no row, does not leave a promotion that
\* has saved one, and does not get past the credit of a reservation.
LEMMA QuietCount ==
    ASSUME TypeInv, CountCovers, NEW a \in Actors, OthersStay(a), activeCount' = activeCount,
           Rows' \subseteq Rows, credited \subseteq credited',
           pc[a] \in AfterSave => pc'[a] \in AfterSave /\ res'[a] = res[a],
           pc'[a] \in AfterCredit => pc[a] \in AfterCredit /\ res'[a] = res[a]
    PROVE  CountCovers'
<1>1. Counted' \subseteq Counted
  BY DEF Counted, OthersStay
<1> QED
  BY <1>1, NoneCounted

\* INSERT adds a row that is counted only after its INCR; INCR counts one.
LEMMA PromotionCount ==
    ASSUME Benign, TypeInv, SeatInv, ServiceInv, CountCovers, NEW a \in Promoters,
           StartCron(a) \/ PromotionStep(a) \/ PromotionThrows(a)
    PROVE  CountCovers'
<1>1. /\ a \in Actors
      /\ pc \in [Actors -> Calls] /\ res \in [Actors -> Reservations \cup {None}]
      /\ status \in [Reservations -> ReservationStatuses]
      /\ activeCount \in Int
  BY DEF Actors, TypeInv, ControlOK, LocalsOK, StoresOK, TablesOK, CacheOK
<1>2. CASE SaveReservation(a)
  <2>1. PICK r \in Reservations \ Rows : /\ status' = [status EXCEPT ![r] = "PENDING_PAYMENT"]
                                        /\ res' = [res EXCEPT ![a] = r]
    BY <1>2 DEF SaveReservation, IsFresh
  <2>2. /\ pc[a] = "saveReservation" /\ pc' = [pc EXCEPT ![a] = "addJob"]
        /\ credited' = credited /\ activeCount' = activeCount
        /\ Rows' = Rows \cup {r}
    BY <1>1, <1>2, <2>1 DEF SaveReservation, Await, Goto, Rows, cache, active
  <2>3. r \notin Counted'
    BY <1>1, <2>1, <2>2 DEF Counted, AfterSave, TryCalls
  <2>4. Counted' \ {r} \subseteq Counted
    BY <1>1, <2>1, <2>2 DEF Counted, AfterSave, TryCalls, AfterCredit, LockedCalls, ExpiryCalls
  <2> QED
    BY <2>2, <2>3, <2>4, NoneCounted
<1>3. CASE IncrActiveCount(a)
  <2>1. /\ UNCHANGED <<status, credited>> /\ activeCount' = activeCount + 1
        /\ pc'[a] \notin AfterCredit /\ OthersStay(a)
    BY <1>1, <1>3 DEF IncrActiveCount, Loop, Goto, Return, Forget, tables, OthersStay,
       AfterCredit, LockedCalls, ExpiryCalls
  <2>2. Counted' \subseteq Counted \cup {res[a]}
    BY <1>1, <2>1 DEF Counted, Rows, OthersStay
  <2>3. /\ IsFiniteSet(Counted \cup {res[a]})
        /\ Cardinality(Counted \cup {res[a]}) <= Cardinality(Counted) + 1
    <3>1. IsFiniteSet(Counted)
      BY LimitSets, CountedSets
    <3> QED
      BY <3>1, LimitSets, FS_AddElement
  <2>4. Cardinality(Counted)' <= Cardinality(Counted) + 1
    BY <2>2, <2>3, LimitSets, FS_Subset, FS_CardinalityType
  <2> QED
    BY <1>1, <2>1, <2>4, LimitSets DEF CountCovers
<1>4. CASE ~SaveReservation(a) /\ ~IncrActiveCount(a)
  <2> USE <1>4 DEF StartCron, PromotionStep, PromotionThrows, PromotionRejects, GetActiveCount,
          GetNextInQueue, DecrementSeats, AddJob, SetActive, RemoveFromQueue, SetexActive,
          UndoSeat, RestoreSeat, MarkSoldOut, RemoveSoldOut, Await
  <2>1. activeCount' = activeCount /\ Rows' = Rows /\ credited \subseteq credited'
    BY DEF cache, active, tables, Rows
  <2>2. OthersStay(a) /\ pc'[a] \notin AfterCredit
    BY <1>1 DEF Loop, Goto, Return, Forget, OthersStay, locals, AfterCredit, LockedCalls,
       ExpiryCalls
  <2>3. pc[a] \in AfterSave => pc'[a] \in AfterSave /\ res'[a] = res[a]
    BY <1>1 DEF Mishap, Benign, Goto, AfterSave, TryCalls, locals
  <2> QED
    BY <1>1, <2>1, <2>2, <2>3, QuietCount
<1> QED
  BY <1>2, <1>3, <1>4

\* INCR of the seats ends the count of a reservation only on paper, DECR of the
\* active counter really: by then the promotion has counted it.
LEMMA ExpiryCount ==
    ASSUME TypeInv, SeatInv, ServiceInv, InTime, LockOwned, CountCovers, NEW w \in Workers,
           TakeJob(w) \/ ExpiryStep(w) \/ ExpiryThrows(w)
    PROVE  CountCovers'
<1>1. /\ w \in Actors
      /\ pc \in [Actors -> Calls] /\ res \in [Actors -> Reservations \cup {None}]
      /\ status \in [Reservations -> ReservationStatuses]
      /\ activeCount \in Int
      /\ pc[w] \in ExpiryCalls => res[w] \in Reservations
  BY DEF Actors, Promoters, TypeInv, ControlOK, LocalsOK, StoresOK, TablesOK, CacheOK, Working
<1>2. OthersStay(w) /\ pc'[w] \notin AfterSave
  BY <1>1 DEF ExpiryStep, ExpiryThrows, ExpiryRejects, TakeJob, FindReservation, SetLock,
     ExpireLock, IncrementSeats, MarkExpired, ExpireEntry, DelActive, DecrActiveCount,
     Await, Goto, Return, Forget, TriggerPromotion, OthersStay, locals, AfterSave, TryCalls
<1>3. CASE IncrementSeats(w)
  <2>1. /\ pc[w] = "incrementSeats"
        /\ credited' = credited \cup {res[w]}
        /\ UNCHANGED <<status, res, activeCount>>
    BY <1>3 DEF IncrementSeats, Await, cache, active, tables, locals
  <2>2. res[w] \in Rows \ credited
    BY <2>1 DEF SeatInv, CreditsExclusive, Holding
  <2>3. Rows' = Rows
    BY <2>1 DEF Rows
  <2>4. pc[w] \notin AfterSave
    BY <2>1 DEF AfterSave, TryCalls
  <2>5. ASSUME NEW r \in Counted' PROVE r \in Counted
    <3>1. CASE r = res[w]
      BY <1>2, <2>1, <2>2, <2>4, <3>1, <2>5 DEF Counted, OthersStay
    <3>2. CASE r # res[w]
      BY <1>2, <2>1, <2>3, <2>4, <3>2, <2>5 DEF Counted, OthersStay
    <3> QED
      BY <3>1, <3>2
  <2> QED
    BY <2>1, <2>5, NoneCounted
<1>4. CASE DecrActiveCount(w)
  <2>1. /\ pc[w] = "decrActiveCount" /\ activeCount' = activeCount - 1
        /\ UNCHANGED <<status, credited>>
        /\ pc'[w] = "getActiveCount"
    BY <1>1, <1>4 DEF DecrActiveCount, TriggerPromotion, Goto, tables
  <2>2. /\ pc[w] \in AfterCredit /\ pc[w] \in LockedCalls /\ pc[w] \in ExpiryCalls
        /\ pc[w] \notin AfterSave /\ pc'[w] \notin AfterCredit
    BY <2>1 DEF AfterCredit, LockedCalls, OwnerCalls, ExpiryCalls, AfterSave, TryCalls
  <2>3. res[w] \in Counted
    BY <1>1, <2>2 DEF InTime, Counted
  <2>4. \A b \in Actors \ {w} : pc[b] \in AfterCredit => res[b] # res[w]
    BY <1>1, <2>2 DEF LockOwned, AfterCredit
  <2>5. Counted' \subseteq Counted \ {res[w]}
    <3>1. res[w] \in credited
      BY <1>1, <2>2 DEF LockOwned
    <3>2. Rows' = Rows
      BY <2>1 DEF Rows
    <3>3. res[w] \notin Counted'
      BY <1>2, <2>1, <2>2, <2>4, <3>1 DEF Counted, OthersStay
    <3>4. Counted' \subseteq Counted
      BY <1>2, <2>1, <2>2, <3>2 DEF Counted, OthersStay
    <3> QED
      BY <3>3, <3>4
  <2>6. Cardinality(Counted)' <= Cardinality(Counted) - 1
    <3>1. /\ IsFiniteSet(Counted \ {res[w]})
          /\ Cardinality(Counted \ {res[w]}) = Cardinality(Counted) - 1
      BY <2>3, LimitSets, CountedSets, OneLess
    <3> QED
      BY <2>5, <3>1, FS_Subset
  <2> QED
    BY <1>1, <2>1, <2>6, LimitSets DEF CountCovers
<1>5. CASE ~IncrementSeats(w) /\ ~DecrActiveCount(w)
  <2> USE <1>5 DEF ExpiryStep, ExpiryThrows, ExpiryRejects, TakeJob, FindReservation, SetLock,
          ExpireLock, MarkExpired, ExpireEntry, DelActive, Await
  <2>1. activeCount' = activeCount /\ credited' = credited
    BY DEF cache, active
  <2>2. Rows' \subseteq Rows
    <3>1. CASE MarkExpired(w)
      <4>1. res[w] \in Rows /\ status' = [status EXCEPT ![res[w]] = "EXPIRED"]
        BY <1>1, <3>1 DEF ServiceInv, Serves, RowCalls, ExpiryCalls
      <4> QED
        BY <1>1, <4>1 DEF Rows
    <3>2. CASE ~MarkExpired(w)
      BY <3>2 DEF tables, Rows
    <3> QED
      BY <3>1, <3>2
  <2>3. pc'[w] \in AfterCredit => pc[w] \in AfterCredit /\ res'[w] = res[w]
    BY <1>1 DEF Goto, Return, Forget, TriggerPromotion, AfterCredit, LockedCalls, OwnerCalls,
       ExpiryCalls, locals
  <2>4. pc[w] \notin AfterSave
    BY <1>1 DEF AfterSave, TryCalls, ExpiryCalls
  <2> QED
    BY <1>1, <1>2, <2>1, <2>2, <2>3, <2>4, QuietCount
<1> QED
  BY <1>3, <1>4, <1>5

\* Nobody else touches the counter or what it covers.
LEMMA OtherCount ==
    ASSUME Prompt, TypeInv, ServiceInv, CountCovers,
           \/ \E a \in Joiners \cup Payers :
                \/ a \in Joiners /\ JoinQueue(a)
                \/ a \in Payers /\ FindPayable(a)
                \/ RequestStep(a) \/ RequestThrows(a)
           \/ Environment
    PROVE  CountCovers'
<1>1. /\ pc \in [Actors -> Calls] /\ res \in [Actors -> Reservations \cup {None}]
      /\ status \in [Reservations -> ReservationStatuses]
  BY DEF TypeInv, ControlOK, LocalsOK, StoresOK, TablesOK
<1>2. ASSUME NEW a \in Joiners \cup Payers,
             \/ a \in Joiners /\ JoinQueue(a)
             \/ a \in Payers /\ FindPayable(a)
             \/ RequestStep(a) \/ RequestThrows(a)
      PROVE  CountCovers'
  <2> USE <1>2 DEF RequestStep, RequestThrows, RequestRejects, JoinQueue, FindPayable,
          FindEntry, AddToQueue, SaveEntry, SavePaid, MarkDone, Await
  <2>1. a \in Actors /\ UNCHANGED <<activeCount, credited>>
    BY DEF Actors, cache, active
  <2>2. Rows' \subseteq Rows
    <3>1. CASE SavePaid(a)
      <4>1. res[a] \in Rows /\ status' = [status EXCEPT ![res[a]] = "PAID"]
        BY <1>1, <2>1, <3>1 DEF ServiceInv, Serves, RowCalls, PayCalls
      <4> QED
        BY <1>1, <4>1 DEF Rows
    <3>2. CASE ~SavePaid(a)
      BY <3>2 DEF tables, Rows
    <3> QED
      BY <3>1, <3>2
  <2>3. pc[a] \notin AfterSave
    BY DEF AfterSave, TryCalls, JoinCalls, PayCalls
  <2>4. OthersStay(a) /\ pc'[a] \notin AfterCredit
    BY <1>1, <2>1 DEF Goto, Return, Forget, OthersStay, locals, AfterCredit, LockedCalls,
       ExpiryCalls
  <2> QED
    BY <2>1, <2>2, <2>3, <2>4, QuietCount
<1>3. CASE Environment
  <2>1. UNCHANGED <<pc, res, status, credited, activeCount>>
    BY <1>3 DEF Environment, InitializeSeats, OpenSales, CloseSales, Lapse, LockTTL, Mishap,
       StallRunning, StallAbandoned, KeyTTL, Crash, tables, cache, active, locals, Prompt
  <2>2. Counted' = Counted
    BY <2>1 DEF Counted, Rows
  <2> QED
    BY <2>1, <2>2, NoneCounted
<1> QED
  BY <1>2, <1>3

-----------------------------------------------------------------------------
(* The slots.                                                              *)

\* A step after which the counter and every loop stand no higher.
LEMMA FewerSlots ==
    ASSUME TypeInv, TypeInv', WithinLimit, activeCount' <= activeCount,
           \A a \in Promoters : slots'[a] <= slots[a]
    PROVE  WithinLimit'
<1>1. /\ activeCount \in Int /\ activeCount' \in Int
      /\ \A a \in Promoters : slots[a] \in Nat /\ slots'[a] \in Nat
  BY DEF TypeInv, StoresOK, CacheOK, ControlOK, LocalsOK, Actors
<1>2. Cardinality(SlotsLeft)' <= Cardinality(SlotsLeft)
  <2>1. SlotsLeft' \subseteq SlotsLeft
    BY <1>1 DEF SlotsLeft
  <2> QED
    BY <2>1, LimitSets, FS_Subset
<1>3. \A a \in Promoters : slots'[a] <= MaxActive
  BY <1>1, BoundAssumption DEF WithinLimit
<1>4. activeCount' + Cardinality(SlotsLeft)' <= Cardinality(Promoters) * MaxActive
  <2> DEFINE limit == Cardinality(Promoters) * MaxActive
  <2>1. limit \in Int
    BY CountedSets, BoundAssumption
  <2>2. activeCount + Cardinality(SlotsLeft) <= limit
    BY DEF WithinLimit
  <2> HIDE DEF limit
  <2>3. activeCount' + Cardinality(SlotsLeft)' <= limit
    BY <1>1, <1>2, <2>1, <2>2, LimitSets
  <2> QED
    BY <2>3 DEF limit
<1> QED
  BY <1>3, <1>4 DEF WithinLimit

\* The other promoters have MaxActive iterations left each, at most.
LEMMA OtherSlots ==
    ASSUME TypeInv, NEW a \in Promoters
    PROVE  LET others == {p \in (Promoters \ {a}) \X (1 .. MaxActive) : p[2] <= slots[p[1]]}
           IN /\ IsFiniteSet(others)
              /\ Cardinality(others) + MaxActive <= Cardinality(Promoters) * MaxActive
<1> DEFINE others == {p \in (Promoters \ {a}) \X (1 .. MaxActive) : p[2] <= slots[p[1]]}
           all == (Promoters \ {a}) \X (1 .. MaxActive)
<1>1. /\ IsFiniteSet(Promoters \ {a}) /\ Cardinality(Promoters) \in Nat
      /\ Cardinality(Promoters \ {a}) = Cardinality(Promoters) - 1
  BY CountedSets, OneLess
<1>2. IsFiniteSet(1 .. MaxActive) /\ Cardinality(1 .. MaxActive) = MaxActive
  BY FS_Interval, BoundAssumption
<1>3. IsFiniteSet(all) /\ Cardinality(all) = (Cardinality(Promoters) - 1) * MaxActive
  <2>1. /\ IsFiniteSet(all)
        /\ Cardinality(all) = Cardinality(Promoters \ {a}) * Cardinality(1 .. MaxActive)
    BY <1>1, <1>2, FS_Product, Zenon
  <2> QED
    BY <1>1, <1>2, <2>1, Zenon
<1>4. IsFiniteSet(others) /\ Cardinality(others) <= Cardinality(all)
  <2>1. others \subseteq all
    OBVIOUS
  <2> QED
    BY <1>3, <2>1, FS_Subset
<1>5. Cardinality(others) \in Nat
  BY <1>4, FS_CardinalityType
<1>6. (Cardinality(Promoters) - 1) * MaxActive + MaxActive = Cardinality(Promoters) * MaxActive
  BY <1>1, BoundAssumption
<1>7. /\ (Cardinality(Promoters) - 1) * MaxActive \in Int
      /\ Cardinality(Promoters) * MaxActive \in Int
  BY <1>1, BoundAssumption
<1>8. Cardinality(others) + MaxActive <= Cardinality(Promoters) * MaxActive
  BY <1>3, <1>4, <1>5, <1>6, <1>7, BoundAssumption
<1> QED
  BY <1>4, <1>8

\* A promoter that reads the counter takes as many slots as are missing to the
\* limit: with the others' it comes to MaxActive per promoter.
LEMMA GetActiveCountSlots ==
    ASSUME TypeInv, TypeInv', CountCovers, WithinLimit, NEW a \in Promoters,
           GetActiveCount(a)
    PROVE  WithinLimit'
<1>1. /\ a \in Actors /\ Promoters \subseteq Actors
      /\ slots \in [Actors -> Nat] /\ activeCount \in Nat
      /\ activeCount' = activeCount
  BY LimitSets DEF Actors, TypeInv, StoresOK, CacheOK, ControlOK, LocalsOK, CountCovers,
     GetActiveCount, cache, active
<1>2. /\ slots'[a] = SlotsAvailable
      /\ \A b \in Promoters \ {a} : slots'[b] = slots[b]
  BY <1>1 DEF GetActiveCount, Loop, Return, Forget
<1>3. CASE activeCount > MaxActive
  BY <1>1, <1>2, <1>3, FewerSlots DEF SlotsAvailable
<1>4. CASE ~(activeCount > MaxActive)
  <2> DEFINE n == MaxActive - activeCount
             others == {p \in (Promoters \ {a}) \X (1 .. MaxActive) : p[2] <= slots[p[1]]}
             mine == {a} \X (1 .. n)
  <2>1. n \in Nat /\ n <= MaxActive /\ slots'[a] = n
    BY <1>1, <1>2, <1>4, BoundAssumption DEF SlotsAvailable
  <2>2. SlotsLeft' \subseteq others \cup mine
    BY <1>1, <1>2, <2>1 DEF SlotsLeft
  <2>3. IsFiniteSet(mine) /\ Cardinality(mine) = n
    <3>1. IsFiniteSet({a}) /\ Cardinality({a}) = 1
      BY FS_Singleton
    <3>2. IsFiniteSet(1 .. n) /\ Cardinality(1 .. n) = n
      BY <2>1, FS_Interval
    <3>3. IsFiniteSet(mine) /\ Cardinality(mine) = Cardinality({a}) * Cardinality(1 .. n)
      BY <3>1, <3>2, FS_Product, Zenon
    <3> HIDE DEF n, mine
    <3> QED
      BY <2>1, <3>1, <3>2, <3>3
  <2>4. /\ IsFiniteSet(others) /\ Cardinality(others) \in Nat
        /\ Cardinality(others) + MaxActive <= Cardinality(Promoters) * MaxActive
    BY OtherSlots, FS_CardinalityType
  <2> HIDE DEF others, mine
  <2>5. /\ IsFiniteSet(others \cup mine)
        /\ Cardinality(others \cup mine) <= Cardinality(others) + n
    <3>1. /\ IsFiniteSet(others \cup mine) /\ IsFiniteSet(others \cap mine)
          /\ Cardinality(others \cup mine)
               = Cardinality(others) + Cardinality(mine) - Cardinality(others \cap mine)
      BY <2>3, <2>4, FS_Union, FS_Intersection
    <3>2. Cardinality(others \cap mine) \in Nat
      BY <3>1, FS_CardinalityType
    <3> QED
      BY <2>1, <2>3, <2>4, <3>1, <3>2
  <2>6. Cardinality(SlotsLeft)' <= Cardinality(others \cup mine)
    BY <2>2, <2>5, FS_Subset
  <2>7. activeCount' + Cardinality(SlotsLeft)' <= Cardinality(Promoters) * MaxActive
    <3> DEFINE limit == Cardinality(Promoters) * MaxActive
    <3>1. limit \in Int /\ Cardinality(others \cup mine) \in Nat
      BY <2>5, CountedSets, BoundAssumption, FS_CardinalityType
    <3>2. Cardinality(others) + MaxActive <= limit
      BY <2>4
    <3> HIDE DEF limit
    <3>3. activeCount' + Cardinality(SlotsLeft)' <= limit
      BY <1>1, <2>1, <2>4, <2>5, <2>6, <3>1, <3>2, LimitSets, BoundAssumption
    <3> QED
      BY <3>3 DEF limit
  <2>8. \A b \in Promoters : slots'[b] <= MaxActive
    BY <1>2, <2>1 DEF WithinLimit
  <2> QED
    BY <2>7, <2>8 DEF WithinLimit
<1> QED
  BY <1>3, <1>4

\* INCR turns an iteration of the loop into an active user.
LEMMA IncrActiveCountSlots ==
    ASSUME TypeInv, WithinLimit, NEW a \in Promoters, IncrActiveCount(a)
    PROVE  WithinLimit'
<1>1. /\ a \in Actors /\ Promoters \subseteq Actors
      /\ slots \in [Actors -> Nat] /\ activeCount \in Int
      /\ slots[a] > 0 /\ slots[a] <= MaxActive
      /\ activeCount' = activeCount + 1
  BY DEF Actors, TypeInv, StoresOK, CacheOK, ControlOK, LocalsOK, InLoop, LoopCalls,
     PromotionCalls, TryCalls, WithinLimit, IncrActiveCount
<1>2. /\ slots'[a] = slots[a] - 1
      /\ \A b \in Promoters \ {a} : slots'[b] = slots[b]
  BY <1>1 DEF IncrActiveCount, Loop, Return, Forget
<1>3. /\ <<a, slots[a]>> \in SlotsLeft
      /\ SlotsLeft' \subseteq SlotsLeft \ {<<a, slots[a]>>}
  BY <1>1, <1>2, BoundAssumption DEF SlotsLeft
<1>4. /\ IsFiniteSet(SlotsLeft \ {<<a, slots[a]>>})
      /\ Cardinality(SlotsLeft \ {<<a, slots[a]>>}) = Cardinality(SlotsLeft) - 1
  BY <1>3, LimitSets, FS_RemoveElement
<1>5. Cardinality(SlotsLeft)' <= Cardinality(SlotsLeft) - 1
  BY <1>3, <1>4, FS_Subset
<1>6. activeCount' + Cardinality(SlotsLeft)' <= Cardinality(Promoters) * MaxActive
  <2> DEFINE limit == Cardinality(Promoters) * MaxActive
  <2>1. limit \in Int
    BY CountedSets, BoundAssumption
  <2>2. activeCount + Cardinality(SlotsLeft) <= limit
    BY DEF WithinLimit
  <2> HIDE DEF limit
  <2>3. activeCount' + Cardinality(SlotsLeft)' <= limit
    BY <1>1, <1>5, <2>1, <2>2, LimitSets
  <2> QED
    BY <2>3 DEF limit
<1>7. \A b \in Promoters : slots'[b] <= MaxActive
  BY <1>1, <1>2, BoundAssumption DEF WithinLimit
<1> QED
  BY <1>6, <1>7 DEF WithinLimit

\* Every other step leaves the loops as they are or ends one, and does not
\* count anybody as active.
LEMMA OtherStepSlots ==
    ASSUME TypeInv, TypeInv', WithinLimit, Next,
           ~\E a \in Promoters : GetActiveCount(a) \/ IncrActiveCount(a)
    PROVE  WithinLimit'
<1>1. /\ activeCount \in Int
      /\ slots \in [Actors -> Nat] /\ Promoters \subseteq Actors
      /\ Crons \subseteq Promoters /\ Workers \subseteq Promoters
  BY DEF Actors, Promoters, TypeInv, StoresOK, CacheOK, ControlOK, LocalsOK
<1>2. ASSUME NEW a \in Promoters, StartCron(a) \/ PromotionStep(a) \/ PromotionThrows(a)
      PROVE  /\ activeCount' = activeCount
             /\ slots' = slots \/ slots' = [slots EXCEPT ![a] = 0]
  BY <1>2 DEF StartCron, PromotionStep, PromotionThrows, PromotionRejects, GetNextInQueue,
     DecrementSeats, SaveReservation, AddJob, SetActive, RemoveFromQueue, SetexActive,
     UndoSeat, RestoreSeat, MarkSoldOut, RemoveSoldOut, Return, Forget, cache, active, locals
<1>3. ASSUME NEW w \in Workers, TakeJob(w) \/ ExpiryStep(w) \/ ExpiryThrows(w)
      PROVE  /\ activeCount' \in {activeCount, activeCount - 1}
             /\ slots' = slots \/ slots' = [slots EXCEPT ![w] = 0]
  BY <1>3 DEF ExpiryStep, ExpiryThrows, ExpiryRejects, TakeJob, FindReservation, SetLock,
     ExpireLock, IncrementSeats, MarkExpired, ExpireEntry, DelActive, DecrActiveCount,
     Return, Forget, TriggerPromotion, cache, active, locals
<1>4. ASSUME NEW a \in Joiners \cup Payers,
             \/ a \in Joiners /\ JoinQueue(a)
             \/ a \in Payers /\ FindPayable(a)
             \/ RequestStep(a) \/ RequestThrows(a)
      PROVE  /\ activeCount' = activeCount
             /\ slots' = slots \/ slots' = [slots EXCEPT ![a] = 0]
  BY <1>4 DEF RequestStep, RequestThrows, RequestRejects, JoinQueue, FindPayable, FindEntry,
     AddToQueue, SaveEntry, SavePaid, MarkDone, Return, Forget, cache, active, locals
<1>5. ASSUME Environment
      PROVE  /\ activeCount' = activeCount
             /\ slots' = slots \/ \E I \in Instances :
                  slots' = [a \in Actors |-> IF a \in I THEN 0 ELSE slots[a]]
  BY <1>5 DEF Environment, InitializeSeats, OpenSales, CloseSales, Lapse, LockTTL,
     StallRunning, StallAbandoned, KeyTTL, Crash, cache, active, locals
<1>6. /\ activeCount' <= activeCount
      /\ \A a \in Promoters : slots'[a] <= slots[a]
  BY <1>1, <1>2, <1>3, <1>4, <1>5 DEF Next
<1> QED
  BY <1>6, FewerSlots

-----------------------------------------------------------------------------
(* The limit.                                                              *)

\* The limit of active users can be passed, but no further than once for each
\* promoter, in any interleaving of crons, workers and failing calls.
THEOREM OvershootLimited ==
    ASSUME Benign, Prompt
    PROVE  Spec => []OvershootBounded
<1> DEFINE IInv == TypeInv /\ SeatInv /\ UndoInv /\ ServiceInv /\ LimitInv
<1>1. Init => IInv
  <2> SUFFICES ASSUME Init PROVE LimitInv
    BY TypesInitially, SeatsInitially, ServiceInitially
  <2>1. InTime /\ LockOwned
    BY DEF Init, InTime, LockOwned, ExpiryCalls, AfterSave, TryCalls, LockedCalls, AfterCredit
  <2>2. activeCount = 0 /\ Counted = {} /\ SlotsLeft = {}
    BY DEF Init, Counted, Rows, SlotsLeft, Actors
  <2>3. Cardinality(Counted) = 0 /\ Cardinality(SlotsLeft) = 0
    BY <2>2, FS_EmptySet
  <2>4. CountCovers
    BY <2>2, <2>3 DEF CountCovers
  <2>5. WithinLimit
    <3>1. \A a \in Promoters : slots[a] <= MaxActive
      BY BoundAssumption DEF Init, Actors
    <3>2. Cardinality(Promoters) * MaxActive >= 0
      BY CountedSets, BoundAssumption
    <3> QED
      BY <2>2, <2>3, <3>1, <3>2 DEF WithinLimit
  <2> QED
    BY <2>1, <2>4, <2>5 DEF LimitInv
<1>2. IInv /\ [Next]_vars => IInv'
  <2> SUFFICES ASSUME TypeInv, SeatInv, UndoInv, ServiceInv, LimitInv, TypeInv', [Next]_vars
               PROVE  LimitInv'
    BY TypesPreserved, SeatsPreserved, ServicePreserved
  <2>1. CASE UNCHANGED vars
    BY <2>1 DEF vars, locals, world, cache, active, tables, LimitInv, InTime, LockOwned,
       CountCovers, Counted, WithinLimit, SlotsLeft, Rows
  <2>2. CASE Next
    <3>1. Crons \subseteq Promoters
      BY DEF Promoters
    <3>2. InTime' /\ LockOwned'
      BY <2>2, <3>1, PromotionInTime, ExpiryInTime, RequestInTime, EnvironmentInTime
         DEF Next, LimitInv
    <3>3. CountCovers'
      BY <2>2, <3>1, PromotionCount, ExpiryCount, OtherCount DEF Next, LimitInv
    <3>4. WithinLimit'
      BY <2>2, GetActiveCountSlots, IncrActiveCountSlots, OtherStepSlots DEF LimitInv
    <3> QED
      BY <3>2, <3>3, <3>4 DEF LimitInv
  <2> QED
    BY <2>1, <2>2
<1>3. IInv => OvershootBounded
  <2> SUFFICES ASSUME TypeInv, WithinLimit PROVE OvershootBounded
    BY DEF LimitInv
  <2> DEFINE limit == Cardinality(Promoters) * MaxActive
  <2>1. limit \in Int /\ activeCount \in Int
    BY CountedSets, BoundAssumption DEF TypeInv, StoresOK, CacheOK
  <2>2. activeCount + Cardinality(SlotsLeft) <= limit
    BY DEF WithinLimit
  <2> HIDE DEF limit
  <2>3. activeCount <= limit
    BY <2>1, <2>2, LimitSets
  <2> QED
    BY <2>3 DEF limit, OvershootBounded
<1> QED
  BY <1>1, <1>2, <1>3, PTL DEF Spec

=============================================================================
