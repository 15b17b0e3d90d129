----------------------------- MODULE SeatProofs -----------------------------
(***************************************************************************)
(* Proofs about the seat counter.  NoOverhold and CreditsExclusive hold    *)
(* for any number of promoters, workers, requests and instances that may   *)
(* crash, as long as none of three things happens (Benign): a call of      *)
(* handleSuccessfulPromotion throws after the reservation was saved, the   *)
(* sale opens before EventsService.create has set the counter, or the      *)
(* expiration lock times out after an expiration that failed between INCR  *)
(* and the update of the row, which takes two mishaps.  With any of them   *)
(* TLC finds a seat given back twice or created.                           *)
(***************************************************************************)
EXTENDS TicketQueueProofs

\* an expiration may stop between giving the seat back and marking the row
Unmarked == Faults \cap {"crash", "markExpired"} # {}

Benign == /\ Faults \cap (AfterSave \cup {"earlySales"}) = {}
          /\ "lockTTL" \in Faults => ~Unmarked \/ MaxMishaps <= 1

\* a promoter has no reservation in its hands before it saves one
CleanCalls == {"getNextInQueue", "decrementSeats", "saveReservation"}
Clean == \A a \in Promoters : pc[a] \in CleanCalls => res[a] = None

\* the catch block is entered without a reservation
UndoInv == \A a \in Promoters : pc[a] = "undoSeat" => res[a] = None

\* a handler about to update a reservation by its id has seen the row
UpdateCalls == {"setnx", "expireLock", "incrementSeats", "markExpired", "savePaid"}
Known == \A a \in Actors : pc[a] \in UpdateCalls => res[a] \in Rows

\* before the counter is set nothing of the sale has happened
Stocked == ~provisioned => /\ sales = "upcoming"
                           /\ \A a \in Actors : pc[a] = "idle"
                           /\ Rows = {}
                           /\ lapsed = {}
                           /\ seats = 0

\* no worker is about to take the lock of a row that was still unpaid
NotWanted(r) == /\ status[r] # "PENDING_PAYMENT"
                /\ \A w \in Workers : pc[w] = "setnx" => res[w] # r

\* only reserved seats are credited, and nobody can get at the lock of one
\* again: it is taken, or the row shows that the expiration is over
CreditedLocked == \A r \in credited : r \in Rows /\ (lock[r] # "free" \/ NotWanted(r))

\* a worker that gave a seat back marks the row, unless it was stopped
CreditedMarked ==
    \A r \in credited :
        \/ status[r] # "PENDING_PAYMENT"
        \/ \E w \in Workers : pc[w] = "markExpired" /\ res[w] = r
        \/ Unmarked /\ mishaps > 0

OwnerCalls == {"expireLock", "incrementSeats"}

SeatInv == /\ Clean /\ Known /\ Stocked
           /\ CreditedLocked /\ CreditedMarked /\ CreditsExclusive
           /\ NoOverhold

-----------------------------------------------------------------------------
(* Counting.                                                               *)

\* The sets of promoters and of reservations the seats are counted by are
\* finite.
LEMMA CountedSets ==
    ASSUME NEW S, S \subseteq Promoters \/ S \subseteq Reservations
    PROVE  IsFiniteSet(S) /\ Cardinality(S) \in Nat
<1>1. IsFiniteSet(Actors) /\ Promoters \subseteq Actors
  BY ActorAssumption DEF Actors
<1>2. IsFiniteSet(Reservations)
  BY IdAssumption
<1> QED
  BY <1>1, <1>2, FS_Subset, FS_CardinalityType

\* The three terms of SeatsAccounted are natural numbers, before and after a
\* step.
LEMMA Terms ==
    /\ Cardinality(Granted) \in Nat /\ Cardinality(Granted)' \in Nat
    /\ Cardinality(Refused) \in Nat /\ Cardinality(Refused)' \in Nat
    /\ Cardinality(Holding) \in Nat /\ Cardinality(Holding)' \in Nat
<1>1. /\ Granted \subseteq Promoters /\ Granted' \subseteq Promoters
      /\ Refused \subseteq Promoters /\ Refused' \subseteq Promoters
      /\ Holding \subseteq Reservations /\ Holding' \subseteq Reservations
  BY DEF Granted, Refused, Holding, Rows
<1> QED
  BY <1>1, CountedSets

\* A set that loses or gains one member.
LEMMA OneLess ==
    ASSUME NEW S, S \subseteq Promoters \/ S \subseteq Reservations, NEW x \in S
    PROVE  Cardinality(S \ {x}) = Cardinality(S) - 1
  BY CountedSets, FS_RemoveElement

LEMMA OneMore ==
    ASSUME NEW S, S \subseteq Promoters \/ S \subseteq Reservations, NEW x, x \notin S
    PROVE  Cardinality(S \cup {x}) = Cardinality(S) + 1
  BY CountedSets, FS_AddElement

\* Nothing is overheld by a step that takes no seat: one that adds nothing to
\* the counter and grants, refuses and holds no more than before.
LEMMA NoneTaken ==
    ASSUME NoOverhold, TypeInv, TypeInv', seats' <= seats, Granted' \subseteq Granted,
           Refused' \subseteq Refused, Holding' \subseteq Holding
    PROVE  NoOverhold'
<1>1. /\ Cardinality(Granted)' <= Cardinality(Granted)
      /\ Cardinality(Refused)' <= Cardinality(Refused)
      /\ Cardinality(Holding)' <= Cardinality(Holding)
  <2>1. /\ Granted \subseteq Promoters /\ Refused \subseteq Promoters
        /\ Holding \subseteq Reservations
    BY DEF Granted, Refused, Holding, Rows
  <2> QED
    BY <2>1, CountedSets, FS_Subset
<1>2. seats \in Int /\ seats' \in Int
  BY DEF TypeInv, StoresOK, CacheOK
<1> QED
  BY <1>1, <1>2, Terms, BoundAssumption DEF NoOverhold, SeatsAccounted

-----------------------------------------------------------------------------
(* Steps of one handler.                                                   *)

\* the other actors stay where they are
OthersStay(a) == \A b \in Actors \ {a} : pc'[b] = pc[b] /\ res'[b] = res[b]

\* The sale has been provisioned once any handler is running.
LEMMA Started ==
    ASSUME SeatInv, NEW a \in Actors, pc[a] # "idle"
    PROVE  provisioned
  BY DEF SeatInv, Stocked

\* What the step of one handler does to the rows and to its own call so that the
\* credited reservations stay out of reach.
KeepsMarks(a) ==
    /\ mishaps <= mishaps'
    /\ \A r \in Rows : status[r] # "PENDING_PAYMENT" => status'[r] # "PENDING_PAYMENT"
    /\ pc'[a] = "setnx" => status[res'[a]] = "PENDING_PAYMENT"
    /\ pc[a] = "markExpired" => \/ status'[res[a]] # "PENDING_PAYMENT"
                                \/ Unmarked /\ mishaps' > 0

LEMMA CreditsKept ==
    ASSUME TypeInv, TypeInv', CreditedLocked, CreditedMarked, NEW a \in Actors,
           OthersStay(a), KeepsMarks(a), credited' = credited, Rows \subseteq Rows',
           \A r \in Rows : lock[r] # "free" => lock'[r] # "free"
    PROVE  CreditedLocked' /\ CreditedMarked'
<1>1. Workers \subseteq Actors /\ mishaps \in Nat /\ mishaps' \in Nat
  BY DEF Actors, Promoters, TypeInv, StoresOK, WorldOK
<1>2. ASSUME NEW r \in credited, NotWanted(r), r \in Rows PROVE NotWanted(r)'
  BY <1>1, <1>2 DEF NotWanted, KeepsMarks, OthersStay
<1>3. CreditedLocked'
  BY <1>2 DEF CreditedLocked
<1>4. ASSUME NEW r \in credited, r \in Rows
      PROVE  \/ status'[r] # "PENDING_PAYMENT"
             \/ \E w \in Workers : pc'[w] = "markExpired" /\ res'[w] = r
             \/ Unmarked /\ mishaps' > 0
  <2>1. CASE status[r] # "PENDING_PAYMENT" \/ (Unmarked /\ mishaps > 0)
    BY <1>1, <1>4, <2>1 DEF KeepsMarks
  <2>2. ASSUME NEW w \in Workers, pc[w] = "markExpired", res[w] = r, w # a
        PROVE  pc'[w] = "markExpired" /\ res'[w] = r
    BY <1>1, <2>2 DEF OthersStay
  <2>3. CASE pc[a] = "markExpired" /\ res[a] = r
    BY <2>3 DEF KeepsMarks
  <2> QED
    BY <2>1, <2>2, <2>3 DEF CreditedMarked
<1> QED
  BY <1>3, <1>4 DEF CreditedLocked, CreditedMarked

\* A step of one handler that moves no seat: it changes neither the counter
\* nor the rows there are nor a lock, and it does not arrive at a call that
\* owns a seat or a lock.
LEMMA QuietStep ==
    ASSUME TypeInv, TypeInv', SeatInv, provisioned, NEW a \in Actors, OthersStay(a),
           UNCHANGED <<seats, credited, provisioned, lock>>,
           Rows' = Rows, KeepsMarks(a),
           a \in Promoters /\ pc'[a] \in CleanCalls => res'[a] = None,
           pc'[a] \in UpdateCalls => res'[a] \in Rows,
           pc'[a] \notin OwnerCalls \cup {"saveReservation", "restoreSeat"},
           pc'[a] = "undoSeat" => pc[a] = "saveReservation" \/ res'[a] # None
    PROVE  SeatInv'
<1> USE DEF SeatInv, OthersStay
<1>1. Clean' /\ Known'
  BY DEF Clean, Known, Promoters, Actors
<1>2. Stocked'
  BY DEF Stocked
<1>3. CreditedLocked' /\ CreditedMarked'
  BY CreditsKept
<1>4. CreditsExclusive'
  BY DEF CreditsExclusive, Holding, OwnerCalls, Promoters, Actors
<1>5. NoOverhold'
  <2>1. Granted' \subseteq Granted
    BY DEF Granted, Clean, CleanCalls, Promoters, Actors
  <2>2. /\ Refused' \subseteq Refused /\ Holding' \subseteq Holding
        /\ seats' <= seats
    BY DEF Refused, Holding, Promoters, Actors, TypeInv, StoresOK, CacheOK
  <2> QED
    BY <2>1, <2>2, NoneTaken
<1> QED
  BY <1>1, <1>2, <1>3, <1>4, <1>5

-----------------------------------------------------------------------------
(* The promotion.                                                          *)

\* A step of promoteUsers that takes or returns no seat.
QuietPromotion(a) ==
    \/ GetActiveCount(a) \/ GetNextInQueue(a) \/ AddJob(a) \/ SetActive(a)
    \/ RemoveFromQueue(a) \/ SetexActive(a) \/ IncrActiveCount(a)
    \/ MarkSoldOut(a) \/ RemoveSoldOut(a)

\* The reads of promoteUsers and its updates after the seat was granted or
\* refused leave the seats alone.
LEMMA QuietPromotionSeats ==
    ASSUME TypeInv, TypeInv', SeatInv, NEW a \in Promoters, QuietPromotion(a)
    PROVE  SeatInv'
<1>1. a \in Actors /\ pc[a] # "idle" /\ provisioned
  <2>1. a \in Actors /\ pc[a] # "idle"
    BY DEF Actors, QuietPromotion, GetActiveCount, GetNextInQueue, AddJob, SetActive,
       RemoveFromQueue, SetexActive, IncrActiveCount, MarkSoldOut, RemoveSoldOut, Await
  <2> QED
    BY <2>1, Started
<1>2. /\ pc \in [Actors -> Calls] /\ res \in [Actors -> Reservations \cup {None}]
      /\ \A r \in Reservations : r \in Rows' <=> status'[r] # "absent"
      /\ \A r \in Reservations : r \in Rows <=> status[r] # "absent"
  BY DEF TypeInv, ControlOK, LocalsOK, Rows
<1> DEFINE Unmoved == UNCHANGED <<seats, credited, provisioned, lock, status, mishaps>>
<1>m. mishaps \in Nat /\ pc[a] # "markExpired"
  BY DEF TypeInv, StoresOK, WorldOK, QuietPromotion, GetActiveCount, GetNextInQueue, AddJob,
     SetActive, RemoveFromQueue, SetexActive, IncrActiveCount, MarkSoldOut, RemoveSoldOut, Await
<1>3. ASSUME Unmoved, Return(a) PROVE SeatInv'
  <2>1. OthersStay(a) /\ pc'[a] = "idle" /\ Rows' = Rows /\ KeepsMarks(a)
    BY <1>1, <1>2, <1>m, <1>3 DEF Return, Forget, OthersStay, Rows, KeepsMarks
  <2> QED
    BY <1>1, <1>3, <2>1, QuietStep DEF CleanCalls, UpdateCalls, OwnerCalls
<1>4. ASSUME Unmoved, NEW n, Loop(a, n) PROVE SeatInv'
  <2>1. CASE n = 0
    BY <1>3, <1>4, <2>1 DEF Loop
  <2>2. CASE n # 0
    <3>1. /\ OthersStay(a) /\ Rows' = Rows /\ KeepsMarks(a)
          /\ pc'[a] = "getNextInQueue" /\ res'[a] = None
      BY <1>1, <1>2, <1>m, <1>4, <2>2 DEF Loop, Goto, OthersStay, Rows, KeepsMarks
    <3> QED
      BY <1>1, <1>4, <3>1, QuietStep DEF CleanCalls, UpdateCalls, OwnerCalls
  <2> QED
    BY <2>1, <2>2
<1>5. ASSUME Unmoved, UNCHANGED res,
             NEW c \in {"setActive", "removeFromQueue", "setexActive",
                        "incrActiveCount", "removeSoldOut"},
             Goto(a, c)
      PROVE  SeatInv'
  <2>1. OthersStay(a) /\ pc'[a] = c /\ Rows' = Rows /\ KeepsMarks(a)
    BY <1>1, <1>2, <1>m, <1>5 DEF Goto, OthersStay, Rows, KeepsMarks
  <2> QED
    BY <1>1, <1>5, <2>1, QuietStep DEF CleanCalls, UpdateCalls, OwnerCalls
<1>6. Unmoved
  BY DEF QuietPromotion, GetActiveCount, GetNextInQueue, AddJob, SetActive,
     RemoveFromQueue, SetexActive, IncrActiveCount, MarkSoldOut, RemoveSoldOut,
     cache, tables, world
<1>7. CASE GetActiveCount(a) \/ IncrActiveCount(a)
  BY <1>4, <1>6, <1>7 DEF GetActiveCount, IncrActiveCount
<1>8. CASE GetNextInQueue(a)
  <2>1. CASE Return(a)
    BY <1>3, <1>6, <2>1
  <2>2. CASE Goto(a, "decrementSeats") /\ UNCHANGED res
    <3>1. /\ OthersStay(a) /\ Rows' = Rows /\ KeepsMarks(a)
          /\ pc'[a] = "decrementSeats" /\ res'[a] = None
      BY <1>1, <1>2, <1>m, <1>6, <1>8, <2>2
         DEF GetNextInQueue, Goto, OthersStay, SeatInv, Clean, CleanCalls, Rows, KeepsMarks
    <3> QED
      BY <1>1, <1>6, <3>1, QuietStep DEF CleanCalls, UpdateCalls, OwnerCalls
  <2> QED
    BY <1>8, <2>1, <2>2 DEF GetNextInQueue
<1>9. CASE AddJob(a) \/ SetActive(a) \/ RemoveFromQueue(a) \/ SetexActive(a) \/ MarkSoldOut(a)
  BY <1>5, <1>6, <1>9 DEF AddJob, SetActive, RemoveFromQueue, SetexActive,
     MarkSoldOut, Await, locals
<1>10. CASE RemoveSoldOut(a)
  BY <1>3, <1>6, <1>10 DEF RemoveSoldOut
<1> QED
  BY <1>7, <1>8, <1>9, <1>10 DEF QuietPromotion

\* DECR: the seat is granted only if the counter stays at zero or above, and
\* then it was free; below zero the promoter owes an INCR.
LEMMA DecrementSeatsSeats ==
    ASSUME TypeInv, TypeInv', SeatInv, NEW a \in Promoters, DecrementSeats(a)
    PROVE  SeatInv'
<1> USE DEF SeatInv, DecrementSeats, Goto
<1>1. a \in Actors /\ provisioned /\ seats \in Int
  BY Started DEF Actors, TypeInv, StoresOK, CacheOK
<1>2. /\ UNCHANGED <<credited, provisioned, lock, status, res>>
      /\ pc' = [pc EXCEPT ![a] = IF SeatGranted(seats - 1) THEN "saveReservation"
                                                             ELSE "restoreSeat"]
      /\ pc \in [Actors -> Calls]
      /\ pc[a] = "decrementSeats"
  BY DEF cache, tables, world, locals, TypeInv, ControlOK, LocalsOK
<1>3. Clean' /\ Known'
  BY <1>1, <1>2 DEF Clean, Known, CleanCalls, UpdateCalls, Rows, Promoters, Actors
<1>4. Stocked' /\ CreditedLocked' /\ CreditedMarked'
  <2>1. OthersStay(a) /\ KeepsMarks(a) /\ Rows' = Rows
    BY <1>1, <1>2 DEF OthersStay, KeepsMarks, Rows, world, TypeInv, StoresOK, WorldOK
  <2> QED
    BY <1>1, <1>2, <2>1, CreditsKept DEF Stocked
<1>5. CreditsExclusive'
  BY <1>1, <1>2 DEF CreditsExclusive, Holding, Rows, Promoters, Actors
<1>6. Holding' = Holding
  BY <1>2 DEF Holding, Rows
<1>7. Promoters \subseteq Actors
  BY DEF Actors
<1>8. NoOverhold'
  <2>1. CASE SeatGranted(seats - 1)
    <3>1. pc'[a] = "saveReservation" /\ \A b \in Promoters \ {a} : pc'[b] = pc[b]
      BY <1>1, <1>2, <1>7, <2>1
    <3>2. /\ Granted' = Granted \cup {a}
          /\ a \notin Granted
          /\ Refused' = Refused
      BY <1>2, <3>1 DEF Granted, Refused
    <3>3. Cardinality(Granted)' = Cardinality(Granted) + 1
      BY <3>2, OneMore DEF Granted
    <3> QED
      BY <1>1, <1>6, <2>1, <3>2, <3>3, Terms, BoundAssumption
         DEF NoOverhold, SeatsAccounted, SeatGranted
  <2>2. CASE ~SeatGranted(seats - 1)
    <3>1. pc'[a] = "restoreSeat" /\ \A b \in Promoters \ {a} : pc'[b] = pc[b]
      BY <1>1, <1>2, <1>7, <2>2
    <3>2. /\ Refused' = Refused \cup {a}
          /\ a \notin Refused
          /\ Granted' = Granted
      BY <1>2, <3>1 DEF Granted, Refused
    <3>3. Cardinality(Refused)' = Cardinality(Refused) + 1
      BY <3>2, OneMore DEF Refused
    <3> QED
      BY <1>1, <1>6, <2>2, <3>2, <3>3, Terms, BoundAssumption
         DEF NoOverhold, SeatsAccounted
  <2> QED
    BY <2>1, <2>2
<1> QED
  BY <1>3, <1>4, <1>5, <1>8

\* Saving the reservation turns the granted seat into a held one.
LEMMA SaveReservationSeats ==
    ASSUME TypeInv, TypeInv', SeatInv, NEW a \in Promoters, SaveReservation(a)
    PROVE  SeatInv'
<1> USE DEF SeatInv, SaveReservation, Await, Goto
<1>1. a \in Actors /\ provisioned /\ seats \in Int /\ Promoters \subseteq Actors
  BY Started DEF Actors, TypeInv, StoresOK, CacheOK
<1>2. PICK r \in Reservations :
        /\ r \notin Rows
        /\ status' = [status EXCEPT ![r] = "PENDING_PAYMENT"]
        /\ res' = [res EXCEPT ![a] = r]
  BY DEF IsFresh
<1>3. /\ UNCHANGED <<seats, credited, provisioned, lock>>
      /\ pc' = [pc EXCEPT ![a] = "addJob"]
      /\ pc \in [Actors -> Calls] /\ res \in [Actors -> Reservations \cup {None}]
      /\ pc[a] = "saveReservation"
  BY DEF cache, world, TypeInv, ControlOK, LocalsOK
<1>4. Rows' = Rows \cup {r}
  BY <1>2 DEF Rows, TypeInv, StoresOK, TablesOK
<1>5. Clean' /\ Known'
  BY <1>1, <1>2, <1>3, <1>4 DEF Clean, Known, CleanCalls, UpdateCalls
<1>6. Stocked' /\ CreditedLocked' /\ CreditedMarked'
  <2>1. OthersStay(a) /\ KeepsMarks(a) /\ Rows \subseteq Rows'
    BY <1>1, <1>2, <1>3, <1>4 DEF OthersStay, KeepsMarks, Rows, world, TypeInv, StoresOK,
       WorldOK, TablesOK
  <2> QED
    BY <1>1, <1>3, <2>1, CreditsKept DEF Stocked
<1>7. CreditsExclusive'
  BY <1>1, <1>2, <1>3, <1>4 DEF CreditsExclusive, Holding, Promoters, Actors
<1>8. NoOverhold'
  <2>1. Granted' \subseteq Granted \ {a} /\ Refused' = Refused /\ a \in Granted
    BY <1>1, <1>2, <1>3 DEF Granted, Refused
  <2>2. Cardinality(Granted)' <= Cardinality(Granted) - 1
    <3>1. Granted \subseteq Promoters
      BY DEF Granted
    <3> QED
      BY <2>1, <3>1, OneLess, CountedSets, FS_Subset
  <2>3. Cardinality(Holding)' <= Cardinality(Holding) + 1
    <3>1. /\ Holding \subseteq Reservations
          /\ Holding' = Holding \cup {r} \/ Holding' = Holding
          /\ r \notin Holding
      BY <1>2, <1>3, <1>4 DEF Holding, Rows
    <3> QED
      BY <3>1, OneMore, CountedSets
  <2> QED
    BY <1>1, <1>3, <2>1, <2>2, <2>3, Terms, BoundAssumption
       DEF NoOverhold, SeatsAccounted
<1> QED
  BY <1>5, <1>6, <1>7, <1>8

\* The catch block returns a seat that was granted and never reserved.
LEMMA UndoSeatSeats ==
    ASSUME TypeInv, TypeInv', SeatInv, NEW a \in Promoters, UndoSeat(a), res[a] = None
    PROVE  SeatInv'
<1> USE DEF SeatInv, UndoSeat
<1>1. a \in Actors /\ provisioned /\ seats \in Int /\ Promoters \subseteq Actors
  BY Started DEF Actors, TypeInv, StoresOK, CacheOK
<1>2. UNCHANGED mishaps /\ mishaps \in Nat
  BY DEF world, TypeInv, StoresOK, WorldOK
<1>3. /\ UNCHANGED <<credited, provisioned, lock, status>>
      /\ pc' = [pc EXCEPT ![a] = "idle"] /\ res' = [res EXCEPT ![a] = None]
      /\ pc \in [Actors -> Calls] /\ res \in [Actors -> Reservations \cup {None}]
      /\ pc[a] = "undoSeat"
  BY DEF cache, tables, world, Return, Forget, TypeInv, ControlOK, LocalsOK
<1>4. Clean' /\ Known'
  BY <1>1, <1>3 DEF Clean, Known, CleanCalls, UpdateCalls, Rows
<1>5. Stocked' /\ CreditedLocked' /\ CreditedMarked'
  <2>1. OthersStay(a) /\ KeepsMarks(a) /\ Rows' = Rows
    BY <1>1, <1>2, <1>3 DEF OthersStay, KeepsMarks, Rows
  <2> QED
    BY <1>1, <1>3, <2>1, CreditsKept DEF Stocked
<1>6. CreditsExclusive'
  BY <1>1, <1>3 DEF CreditsExclusive, Holding, Rows, Promoters, Actors
<1>7. NoOverhold'
  <2>1. /\ Granted' = Granted \ {a} /\ a \in Granted
        /\ Refused' = Refused /\ Holding' = Holding
    BY <1>1, <1>3 DEF Granted, Refused, Holding, Rows
  <2>2. Cardinality(Granted)' = Cardinality(Granted) - 1
    BY <2>1, OneLess DEF Granted
  <2> QED
    BY <1>1, <2>1, <2>2, Terms, BoundAssumption DEF NoOverhold, SeatsAccounted
<1> QED
  BY <1>4, <1>5, <1>6, <1>7

\* handleSoldOut compensates the DECR that went below zero.
LEMMA RestoreSeatSeats ==
    ASSUME TypeInv, TypeInv', SeatInv, NEW a \in Promoters, RestoreSeat(a)
    PROVE  SeatInv'
<1> USE DEF SeatInv, RestoreSeat, Await, Goto
<1>1. a \in Actors /\ provisioned /\ seats \in Int /\ Promoters \subseteq Actors
  BY Started DEF Actors, TypeInv, StoresOK, CacheOK
<1>2. /\ UNCHANGED <<credited, provisioned, lock, status, res>>
      /\ pc' = [pc EXCEPT ![a] = "markSoldOut"]
      /\ pc \in [Actors -> Calls]
      /\ pc[a] = "restoreSeat"
  BY DEF cache, tables, world, locals, TypeInv, ControlOK, LocalsOK
<1>3. Clean' /\ Known'
  BY <1>1, <1>2 DEF Clean, Known, CleanCalls, UpdateCalls, Rows
<1>4. Stocked' /\ CreditedLocked' /\ CreditedMarked'
  <2>1. OthersStay(a) /\ KeepsMarks(a) /\ Rows' = Rows
    BY <1>1, <1>2 DEF OthersStay, KeepsMarks, Rows, world, TypeInv, StoresOK, WorldOK
  <2> QED
    BY <1>1, <1>2, <2>1, CreditsKept DEF Stocked
<1>5. CreditsExclusive'
  BY <1>1, <1>2 DEF CreditsExclusive, Holding, Rows, Promoters, Actors
<1>6. NoOverhold'
  <2>1. /\ Refused' = Refused \ {a} /\ a \in Refused
        /\ Granted' = Granted /\ Holding' = Holding
    BY <1>1, <1>2 DEF Granted, Refused, Holding, Rows
  <2>2. Cardinality(Refused)' = Cardinality(Refused) - 1
    BY <2>1, OneLess DEF Refused
  <2> QED
    BY <1>1, <2>1, <2>2, Terms, BoundAssumption DEF NoOverhold, SeatsAccounted
<1> QED
  BY <1>3, <1>4, <1>5, <1>6

\* A cron that starts, and a call of the promotion that is rejected, as a mishap
\* or by a client that gave up: the catch block is entered without a seat to
\* return only by a promoter that has a reservation in its hands.
LEMMA PromotionFaultSeats ==
    ASSUME TypeInv, TypeInv', SeatInv, NEW a \in Promoters,
           \/ StartCron(a)
           \/ /\ PromotionRejects(a) /\ mishaps <= mishaps'
              /\ pc[a] \in AfterSave => res[a] # None
    PROVE  SeatInv'
<1>1. a \in Actors /\ provisioned /\ pc[a] # "markExpired"
  <2>1. a \in Actors
    BY DEF Actors
  <2>2. CASE StartCron(a)
    BY <2>1, <2>2 DEF StartCron, Await, SeatInv, Stocked
  <2>3. CASE PromotionRejects(a)
    BY <2>1, <2>3, Started DEF PromotionRejects, PromotionCalls, TryCalls, SoldOutCalls
  <2> QED
    BY <2>1, <2>2, <2>3
<1>2. /\ UNCHANGED <<seats, credited, provisioned, lock, status>> /\ mishaps <= mishaps'
      /\ pc \in [Actors -> Calls] /\ res \in [Actors -> Reservations \cup {None}]
  BY DEF StartCron, PromotionRejects, cache, tables, world, TypeInv, StoresOK, WorldOK,
     ControlOK, LocalsOK
<1>3. Rows' = Rows
  BY <1>2 DEF Rows
<1>4. ASSUME OthersStay(a), pc'[a] # "setnx" PROVE KeepsMarks(a)
  BY <1>1, <1>2, <1>4 DEF KeepsMarks
<1>5. CASE StartCron(a)
  <2>1. OthersStay(a) /\ pc'[a] = "getActiveCount"
    BY <1>1, <1>2, <1>5 DEF StartCron, Await, Goto, OthersStay, locals
  <2> QED
    BY <1>1, <1>2, <1>3, <1>4, <2>1, QuietStep DEF CleanCalls, UpdateCalls, OwnerCalls
<1>6. CASE Return(a)
  <2>1. OthersStay(a) /\ pc'[a] = "idle"
    BY <1>1, <1>2, <1>6 DEF Return, Forget, OthersStay
  <2> QED
    BY <1>1, <1>2, <1>3, <1>4, <2>1, QuietStep DEF CleanCalls, UpdateCalls, OwnerCalls
<1>7. CASE PromotionRejects(a) /\ pc[a] \in TryCalls /\ Goto(a, "undoSeat") /\ UNCHANGED locals
  <2>1. pc[a] = "saveReservation" \/ res[a] # None
    BY <1>7 DEF AfterSave, TryCalls, StartCron, Await
  <2>2. OthersStay(a) /\ pc'[a] = "undoSeat" /\ res'[a] = res[a]
    BY <1>1, <1>2, <1>7 DEF Goto, OthersStay, locals
  <2> QED
    BY <1>1, <1>2, <1>3, <1>4, <2>1, <2>2, QuietStep DEF CleanCalls, UpdateCalls, OwnerCalls
<1> QED
  BY <1>5, <1>6, <1>7 DEF PromotionRejects

\* Every step of a promotion keeps the seats in balance.
LEMMA PromotionSeats ==
    ASSUME TypeInv, TypeInv', SeatInv, NEW a \in Promoters, PromotionStep(a),
           UndoSeat(a) => res[a] = None
    PROVE  SeatInv'
  BY QuietPromotionSeats, DecrementSeatsSeats, SaveReservationSeats, UndoSeatSeats,
     RestoreSeatSeats DEF PromotionStep, QuietPromotion

-----------------------------------------------------------------------------
(* The expiration.                                                         *)

\* SETNX gives a reservation to one worker: a free lock means nobody credited
\* it and nobody else is about to.
LEMMA SetLockSeats ==
    ASSUME TypeInv, TypeInv', SeatInv, NEW w \in Workers, SetLock(w)
    PROVE  SeatInv'
<1> USE DEF SeatInv
<1>1. w \in Actors /\ provisioned /\ Workers \subseteq Actors /\ Workers \subseteq Promoters
  BY Started DEF Actors, Promoters, SetLock
<1>2. /\ UNCHANGED <<seats, credited, provisioned, status>> /\ mishaps <= mishaps'
      /\ pc \in [Actors -> Calls] /\ res \in [Actors -> Reservations \cup {None}]
      /\ lock \in [Reservations -> LockStates]
      /\ pc[w] = "setnx" /\ res[w] \in Rows
  BY <1>1 DEF SetLock, tables, world, TypeInv, StoresOK, CacheOK, WorldOK, ControlOK, LocalsOK,
     Known, UpdateCalls
<1>3. Rows' = Rows /\ Rows \subseteq Reservations
  BY <1>2 DEF Rows
<1>4. CASE Return(w) /\ UNCHANGED lock
  <2>1. OthersStay(w) /\ pc'[w] = "idle" /\ KeepsMarks(w)
    BY <1>1, <1>2, <1>4 DEF Return, Forget, OthersStay, KeepsMarks
  <2> QED
    BY <1>1, <1>2, <1>3, <1>4, <2>1, QuietStep DEF CleanCalls, UpdateCalls, OwnerCalls
<1>5. CASE /\ lock[res[w]] = "free"
           /\ lock' = [lock EXCEPT ![res[w]] = "set"]
           /\ Goto(w, "expireLock")
           /\ UNCHANGED locals
  <2>1. /\ pc' = [pc EXCEPT ![w] = "expireLock"] /\ res' = res
        /\ \A r \in Reservations : lock[r] # "free" => lock'[r] # "free"
        /\ lock'[res[w]] # "free"
    BY <1>2, <1>3, <1>5 DEF Goto, locals
  <2>2. Clean' /\ Known' /\ Stocked'
    BY <1>1, <1>2, <1>3, <2>1 DEF Clean, Known, Stocked, CleanCalls, UpdateCalls
  <2>3. CreditedLocked' /\ CreditedMarked'
    <3>1. OthersStay(w) /\ KeepsMarks(w)
      BY <1>1, <1>2, <2>1 DEF OthersStay, KeepsMarks
    <3> QED
      BY <1>1, <1>2, <1>3, <2>1, <3>1, CreditsKept
  <2>4. CreditsExclusive'
    <3>1. /\ res[w] \in Holding
          /\ \A v \in Workers : pc[v] \in OwnerCalls => res[v] # res[w]
      BY <1>2, <1>5 DEF Holding, CreditedLocked, NotWanted, CreditsExclusive, OwnerCalls
    <3>2. Holding' = Holding /\ Holding \subseteq Reservations
      BY <1>2, <1>3 DEF Holding
    <3> QED
      BY <1>1, <1>2, <2>1, <3>1, <3>2 DEF CreditsExclusive, OwnerCalls
  <2>5. NoOverhold'
    <3>1. /\ Granted' \subseteq Granted /\ Refused' \subseteq Refused /\ Holding' = Holding
          /\ seats' <= seats
      BY <1>1, <1>2, <1>3, <2>1 DEF Granted, Refused, Holding, Actors, TypeInv, StoresOK,
         CacheOK
    <3> QED
      BY <1>2, <3>1, NoneTaken
  <2> QED
    BY <2>2, <2>3, <2>4, <2>5
<1> QED
  BY <1>4, <1>5 DEF SetLock

\* EXPIRE keeps the lock with its worker.
LEMMA ExpireLockSeats ==
    ASSUME TypeInv, TypeInv', SeatInv, NEW w \in Workers, ExpireLock(w)
    PROVE  SeatInv'
<1> USE DEF SeatInv
<1>1. w \in Actors /\ provisioned /\ Workers \subseteq Actors /\ Workers \subseteq Promoters
  BY Started DEF Actors, Promoters, ExpireLock, Await
<1>2. /\ UNCHANGED <<seats, credited, provisioned, status, res, mishaps>>
      /\ pc' = [pc EXCEPT ![w] = "incrementSeats"]
      /\ lock' = [lock EXCEPT ![res[w]] = "expiring"]
      /\ pc \in [Actors -> Calls]
      /\ lock \in [Reservations -> LockStates]
      /\ pc[w] = "expireLock" /\ res[w] \in Rows
  BY <1>1 DEF ExpireLock, Await, Goto, tables, world, locals, TypeInv, StoresOK, CacheOK,
     ControlOK, LocalsOK, Known, UpdateCalls
<1>3. Rows' = Rows /\ Holding' = Holding /\ Holding \subseteq Reservations
  BY <1>2 DEF Rows, Holding
<1>4. \A r \in Reservations : lock[r] # "free" => lock'[r] # "free"
  BY <1>2
<1>5. Clean' /\ Known' /\ Stocked'
  BY <1>1, <1>2, <1>3 DEF Clean, Known, Stocked, CleanCalls, UpdateCalls
<1>6. CreditedLocked' /\ CreditedMarked'
  <2>1. OthersStay(w) /\ KeepsMarks(w)
    BY <1>1, <1>2 DEF OthersStay, KeepsMarks, TypeInv, StoresOK, WorldOK
  <2> QED
    BY <1>1, <1>2, <1>3, <1>4, <2>1, CreditsKept DEF Rows
<1>7. CreditsExclusive'
  BY <1>1, <1>2, <1>3, <1>4 DEF CreditsExclusive
<1>8. NoOverhold'
  <2>1. Granted' \subseteq Granted /\ Refused' \subseteq Refused /\ seats' <= seats
    BY <1>1, <1>2 DEF Granted, Refused, Actors, TypeInv, StoresOK, CacheOK
  <2> QED
    BY <1>2, <1>3, <2>1, NoneTaken
<1> QED
  BY <1>5, <1>6, <1>7, <1>8

\* INCR: the worker's reservation still holds its seat, and gives it back.
LEMMA IncrementSeatsSeats ==
    ASSUME TypeInv, TypeInv', SeatInv, NEW w \in Workers, IncrementSeats(w)
    PROVE  SeatInv'
<1> USE DEF SeatInv
<1>1. /\ w \in Actors /\ provisioned /\ seats \in Int
      /\ Workers \subseteq Actors /\ Workers \subseteq Promoters
  BY Started DEF Actors, Promoters, IncrementSeats, Await, TypeInv, StoresOK, CacheOK
<1>2. /\ UNCHANGED <<provisioned, status, res, lock>>
      /\ seats' = seats + 1
      /\ credited' = credited \cup {res[w]}
      /\ pc' = [pc EXCEPT ![w] = "markExpired"]
      /\ pc \in [Actors -> Calls]
      /\ pc[w] = "incrementSeats" /\ res[w] \in Holding /\ lock[res[w]] # "free"
  BY DEF IncrementSeats, Await, Goto, cache, tables, world, locals, TypeInv,
     ControlOK, LocalsOK, CreditsExclusive
<1>3. Rows' = Rows /\ Holding' = Holding \ {res[w]} /\ Holding \subseteq Reservations
  BY <1>2 DEF Rows, Holding
<1>4. Clean' /\ Known' /\ Stocked'
  BY <1>1, <1>2, <1>3 DEF Clean, Known, Stocked, CleanCalls, UpdateCalls
<1>5. CreditedLocked' /\ CreditedMarked'
  <2>1. \A v \in Workers \ {w} : pc'[v] = pc[v] /\ res'[v] = res[v]
    BY <1>1, <1>2
  <2>2. /\ pc'[w] = "markExpired" /\ res'[w] = res[w] /\ res[w] \in Rows
        /\ UNCHANGED mishaps
    BY <1>1, <1>2 DEF Holding, IncrementSeats, world
  <2>3. CreditedLocked'
    BY <1>2, <1>3, <2>1, <2>2 DEF CreditedLocked, NotWanted
  <2>4. CreditedMarked'
    BY <1>1, <1>2, <2>1, <2>2 DEF CreditedMarked
  <2> QED
    BY <2>3, <2>4
<1>6. CreditsExclusive'
  BY <1>1, <1>2, <1>3 DEF CreditsExclusive
<1>7. NoOverhold'
  <2>1. Granted' = Granted /\ Refused' = Refused
    BY <1>1, <1>2 DEF Granted, Refused, Actors
  <2>2. Cardinality(Holding)' = Cardinality(Holding) - 1
    BY <1>2, <1>3, OneLess
  <2> QED
    BY <1>1, <1>2, <2>1, <2>2, Terms, BoundAssumption DEF NoOverhold, SeatsAccounted
<1> QED
  BY <1>4, <1>5, <1>6, <1>7

\* A call of an expiration is rejected; at the update of the row, which goes to
\* Postgres, that is a mishap.
ExpiryStops(w) ==
    /\ ExpiryRejects(w) /\ mishaps <= mishaps'
    /\ pc[w] = "markExpired" => Unmarked /\ mishaps' > 0

\* The other steps of an expiration, its start and its failures.
QuietExpiry(w) ==
    \/ TakeJob(w) \/ ExpiryStops(w) \/ FindReservation(w)
    \/ MarkExpired(w) \/ ExpireEntry(w) \/ DelActive(w) \/ DecrActiveCount(w)

\* Reading the reservation, marking it and removing the active user leave the
\* seats alone.
LEMMA QuietExpirySeats ==
    ASSUME TypeInv, TypeInv', SeatInv, NEW w \in Workers, QuietExpiry(w)
    PROVE  SeatInv'
<1>1. w \in Actors /\ provisioned
  <2>1. w \in Actors
    BY DEF Actors, Promoters
  <2>2. CASE TakeJob(w)
    <3>1. lapsed # {}
      BY <2>2 DEF TakeJob
    <3> QED
      BY <2>1, <3>1 DEF SeatInv, Stocked
  <2>3. CASE ~TakeJob(w)
    BY <2>1, <2>3, Started DEF QuietExpiry, ExpiryStops, ExpiryRejects, ExpiryCalls, FindReservation,
       MarkExpired, ExpireEntry, DelActive, DecrActiveCount, Await
  <2> QED
    BY <2>2, <2>3
<1>m. mishaps <= mishaps'
  <2>1. mishaps \in Nat
    BY DEF TypeInv, StoresOK, WorldOK
  <2>2. CASE ExpiryStops(w)
    BY <2>2 DEF ExpiryStops
  <2>3. CASE ~ExpiryStops(w)
    <3>1. UNCHANGED mishaps
      BY <2>3 DEF QuietExpiry, TakeJob, FindReservation, MarkExpired, ExpireEntry,
         DelActive, DecrActiveCount, world
    <3> QED
      BY <2>1, <3>1
  <2> QED
    BY <2>2, <2>3
<1>2. /\ UNCHANGED <<seats, credited, provisioned, lock>> /\ mishaps <= mishaps'
      /\ pc \in [Actors -> Calls] /\ res \in [Actors -> Reservations \cup {None}]
  BY <1>m DEF QuietExpiry, TakeJob, ExpiryStops, ExpiryRejects, FindReservation, MarkExpired, ExpireEntry,
     DelActive, DecrActiveCount, Await, cache, world, TypeInv, StoresOK, WorldOK, ControlOK, LocalsOK
<1>3. Rows' = Rows
  <2>1. CASE MarkExpired(w)
    <3>1. res[w] \in Rows /\ status' = [status EXCEPT ![res[w]] = "EXPIRED"]
      BY <1>1, <2>1 DEF MarkExpired, Await, SeatInv, Known, UpdateCalls
    <3> QED
      BY <3>1 DEF Rows, TypeInv, StoresOK, TablesOK
  <2>2. CASE ~MarkExpired(w)
    BY <2>2 DEF QuietExpiry, TakeJob, ExpiryStops, ExpiryRejects, FindReservation, ExpireEntry,
       DelActive, DecrActiveCount, tables, Rows
  <2> QED
    BY <2>1, <2>2
<1>4. /\ OthersStay(w)
      /\ pc'[w] \in {"idle", "findReservation", "setnx", "expireEntry", "delActive",
                     "decrActiveCount", "getActiveCount"}
  BY <1>1, <1>2 DEF QuietExpiry, TakeJob, ExpiryStops, ExpiryRejects, FindReservation, MarkExpired,
     ExpireEntry, DelActive, DecrActiveCount, Await, Goto, Return, Forget,
     TriggerPromotion, OthersStay, locals
<1>5. pc'[w] = "setnx" => res'[w] \in Rows
  <2>1. CASE FindReservation(w)
    <3>1. CASE status[res[w]] = "PENDING_PAYMENT" /\ UNCHANGED res
      <4>1. res[w] \in Reservations
        BY <2>1 DEF FindReservation, TypeInv, ControlOK, Working, ExpiryCalls
      <4> QED
        BY <3>1, <4>1 DEF Rows
    <3>2. CASE Return(w)
      BY <1>1, <1>2, <3>2 DEF Return, Forget
    <3> QED
      BY <2>1, <3>1, <3>2 DEF FindReservation
  <2>2. CASE ~FindReservation(w)
    BY <1>1, <1>2, <2>2 DEF QuietExpiry, TakeJob, ExpiryStops, ExpiryRejects, MarkExpired, ExpireEntry,
       DelActive, DecrActiveCount, Await, Goto, Forget, TriggerPromotion
  <2> QED
    BY <2>1, <2>2
<1>6. KeepsMarks(w)
  <2>1. CASE MarkExpired(w)
    <3>1. pc'[w] = "expireEntry" /\ res[w] \in Reservations
      BY <1>1, <1>2, <2>1 DEF MarkExpired, Await, Goto, SeatInv, Known, UpdateCalls, Rows
    <3>2. \A r \in Rows : status'[r] \in {status[r], "EXPIRED"}
      BY <2>1, <3>1 DEF MarkExpired, Rows, TypeInv, StoresOK, TablesOK
    <3>3. status'[res[w]] = "EXPIRED"
      BY <2>1, <3>1 DEF MarkExpired, TypeInv, StoresOK, TablesOK
    <3> QED
      BY <1>2, <3>1, <3>2, <3>3 DEF KeepsMarks
  <2>2. CASE FindReservation(w)
    <3>1. pc[w] = "findReservation" /\ UNCHANGED status
      BY <2>2 DEF FindReservation, tables
    <3>2. pc'[w] = "setnx" => status[res'[w]] = "PENDING_PAYMENT"
      BY <1>1, <1>2, <2>2 DEF FindReservation, Return, Forget
    <3> QED
      BY <1>2, <3>1, <3>2 DEF KeepsMarks
  <2>3. CASE ~MarkExpired(w) /\ ~FindReservation(w)
    <3>1. /\ UNCHANGED status /\ pc'[w] # "setnx"
          /\ pc[w] = "markExpired" => Unmarked /\ mishaps' > 0
      BY <1>1, <1>2, <2>3 DEF QuietExpiry, TakeJob, ExpiryStops, ExpiryRejects, ExpireEntry,
         DelActive, DecrActiveCount, Await, Goto, Forget, TriggerPromotion, tables
    <3> QED
      BY <1>2, <3>1 DEF KeepsMarks
  <2> QED
    BY <2>1, <2>2, <2>3
<1> QED
  BY <1>1, <1>2, <1>3, <1>4, <1>5, <1>6, QuietStep DEF CleanCalls, UpdateCalls, OwnerCalls

-----------------------------------------------------------------------------
(* Requests and the environment.                                           *)

\* The buyers' requests do not touch the seat counter, and a payment updates a
\* row that exists.
LEMMA RequestSeats ==
    ASSUME TypeInv, TypeInv', SeatInv, NEW a \in Joiners \cup Payers,
           \/ a \in Joiners /\ JoinQueue(a)
           \/ a \in Payers /\ FindPayable(a)
           \/ RequestStep(a)
           \/ RequestRejects(a) /\ mishaps <= mishaps'
    PROVE  SeatInv'
<1> USE DEF RequestStep, JoinQueue, FindPayable, FindEntry, AddToQueue, SaveEntry,
            SavePaid, MarkDone, RequestRejects, Await
<1>1. a \in Actors /\ provisioned /\ a \notin Promoters
  <2>1. a \in Actors /\ a \notin Promoters
    BY ActorAssumption DEF Actors
  <2>2. CASE JoinQueue(a) \/ FindPayable(a)
    <3>1. CASE JoinQueue(a)
      BY <2>1, <3>1 DEF SeatInv, Stocked
    <3>2. CASE FindPayable(a)
      <4>1. \E r \in Reservations : Payable(r)
        BY <3>2
      <4>2. Rows # {}
        BY <4>1 DEF Payable, Pending, Rows
      <4> QED
        BY <2>1, <4>2 DEF SeatInv, Stocked
    <3> QED
      BY <2>2, <3>1, <3>2
  <2>3. CASE RequestStep(a) \/ RequestRejects(a)
    BY <2>1, <2>3, Started DEF JoinCalls, PayCalls
  <2> QED
    BY <2>1, <2>2, <2>3
<1>2. /\ UNCHANGED <<seats, credited, provisioned, lock>> /\ mishaps <= mishaps'
      /\ pc \in [Actors -> Calls] /\ res \in [Actors -> Reservations \cup {None}]
  BY DEF cache, active, world, TypeInv, StoresOK, WorldOK, ControlOK, LocalsOK
<1>3. Rows' = Rows
  <2>1. CASE SavePaid(a)
    <3>1. res[a] \in Rows /\ status' = [status EXCEPT ![res[a]] = "PAID"]
      BY <1>1, <2>1 DEF SeatInv, Known, UpdateCalls
    <3> QED
      BY <3>1 DEF Rows, TypeInv, StoresOK, TablesOK
  <2>2. CASE ~SavePaid(a)
    BY <2>2 DEF tables, Rows
  <2> QED
    BY <2>1, <2>2
<1>4. /\ OthersStay(a)
      /\ pc'[a] \in {"idle", "findEntry", "zadd", "saveEntry", "savePaid", "markDone"}
  BY <1>1, <1>2 DEF Goto, Return, Forget, OthersStay, locals
<1>5. pc'[a] = "savePaid" => res'[a] \in Rows
  BY <1>1, <1>2 DEF Goto, Return, Forget, Payable, Pending, Rows
<1>6. KeepsMarks(a)
  <2>1. pc[a] # "markExpired"
    BY DEF JoinCalls, PayCalls
  <2>2. \A r \in Rows : status'[r] \in {status[r], "PAID"}
    BY DEF tables, Rows, TypeInv, StoresOK, TablesOK
  <2> QED
    BY <1>2, <1>4, <2>1, <2>2 DEF KeepsMarks
<1> QED
  BY <1>1, <1>2, <1>3, <1>4, <1>5, <1>6, QuietStep DEF CleanCalls, UpdateCalls, OwnerCalls

\* A crash loses seats: the promoters it stops no longer hold what they took.
LEMMA CrashSeats ==
    ASSUME TypeInv, TypeInv', SeatInv, NEW I \in Instances, Crash(I)
    PROVE  SeatInv'
<1> USE DEF SeatInv
<1>1. /\ UNCHANGED <<seats, credited, provisioned, status, lock, lapsed, sales>>
      /\ \A a \in Actors : \/ pc'[a] = "idle"
                           \/ pc'[a] = pc[a] /\ res'[a] = res[a]
      /\ provisioned /\ "crash" \in Faults /\ mishaps' = mishaps + 1
  <2>1. I \subseteq Actors
    BY ActorAssumption
  <2>2. \E a \in Actors : pc[a] # "idle"
    BY <2>1 DEF Crash
  <2>3. provisioned
    BY <2>2, Started
  <2> QED
    BY <2>3 DEF Crash, Mishap, cache, tables
<1>2. Rows' = Rows /\ Holding' = Holding
  BY <1>1 DEF Rows, Holding
<1>3. Promoters \subseteq Actors /\ Workers \subseteq Actors
  BY DEF Promoters, Actors
<1>4. Clean' /\ Known' /\ Stocked'
  BY <1>1, <1>2, <1>3 DEF Clean, Known, Stocked, CleanCalls, UpdateCalls
<1>5. CreditedLocked' /\ CreditedMarked' /\ CreditsExclusive'
  <2>1. CreditedLocked' /\ CreditsExclusive'
    BY <1>1, <1>2, <1>3 DEF CreditedLocked, NotWanted, CreditsExclusive
  <2>2. Unmarked /\ mishaps' > 0
    BY <1>1 DEF Unmarked, TypeInv, StoresOK, WorldOK
  <2> QED
    BY <2>1, <2>2 DEF CreditedMarked
<1>6. Granted' \subseteq Granted /\ Refused' \subseteq Refused /\ seats' <= seats
  BY <1>1, <1>3 DEF Granted, Refused, TypeInv, StoresOK, CacheOK
<1> QED
  BY <1>1, <1>2, <1>4, <1>5, <1>6, NoneTaken

\* A lock times out when no worker is at its reservation: if the seat went back,
\* the row shows it, because an expiration that was stopped before the mark
\* would have been the one mishap there may be.
LEMMA LockTTLSeats ==
    ASSUME Benign, TypeInv, TypeInv', SeatInv, NEW r \in Reservations, LockTTL(r)
    PROVE  SeatInv'
<1> USE DEF SeatInv
<1>1. /\ UNCHANGED <<seats, credited, provisioned, status, lapsed, sales, pc, res>>
      /\ \A s \in Reservations \ {r} : lock'[s] = lock[s]
      /\ \A w \in Workers : res[w] # r
      /\ "lockTTL" \in Faults /\ mishaps < MaxMishaps /\ mishaps' = mishaps + 1
      /\ mishaps \in Nat
  BY DEF LockTTL, Mishap, tables, locals, TypeInv, StoresOK, WorldOK, CacheOK
<1>2. Rows' = Rows /\ Holding' = Holding /\ Holding \subseteq Rows /\ Rows \subseteq Reservations
  BY <1>1 DEF Rows, Holding
<1>3. r \in credited => NotWanted(r)
  <2>1. ~(Unmarked /\ mishaps > 0)
    BY <1>1, BoundAssumption DEF Benign
  <2> QED
    BY <1>1, <2>1 DEF CreditedMarked, NotWanted
<1>4. CreditedLocked'
  BY <1>1, <1>2, <1>3 DEF CreditedLocked, NotWanted
<1>5. CreditedMarked'
  BY <1>1 DEF CreditedMarked
<1>6. CreditsExclusive'
  BY <1>1, <1>2 DEF CreditsExclusive
<1>7. Clean' /\ Known' /\ Stocked'
  BY <1>1, <1>2 DEF Clean, Known, Stocked
<1>8. NoOverhold'
  <2>1. Granted' = Granted /\ Refused' = Refused /\ seats' <= seats
    BY <1>1 DEF Granted, Refused, TypeInv, StoresOK, CacheOK
  <2> QED
    BY <1>2, <2>1, NoneTaken
<1> QED
  BY <1>4, <1>5, <1>6, <1>7, <1>8

\* Provisioning, the clock, TTLs and stalled jobs.
LEMMA EnvironmentSeats ==
    ASSUME Benign, TypeInv, TypeInv', SeatInv, Environment
    PROVE  SeatInv'
<1> USE DEF SeatInv
<1>1. CASE InitializeSeats
  <2>1. /\ UNCHANGED <<credited, status, lock, pc, res>>
        /\ provisioned' /\ seats' = TotalSeats /\ ~provisioned
    BY <1>1 DEF InitializeSeats, cache, tables, locals
  <2>2. /\ Clean' /\ Known' /\ Stocked' /\ CreditsExclusive'
        /\ credited = {}
    BY <2>1 DEF Clean, Known, Stocked, CreditedLocked, CreditsExclusive, Holding, Rows
  <2>3. Granted' = {} /\ Refused' = {} /\ Holding' = {}
    BY <2>1 DEF Stocked, Granted, Refused, Holding, Rows, Actors
  <2>4. NoOverhold'
    BY <2>1, <2>3, FS_EmptySet, BoundAssumption DEF NoOverhold, SeatsAccounted
  <2> QED
    BY <2>1, <2>2, <2>4 DEF CreditedLocked, CreditedMarked
<1>2. ASSUME UNCHANGED <<seats, credited, provisioned, status, lock, pc, res>>, Stocked',
             mishaps <= mishaps'
      PROVE  SeatInv'
  <2>1. Clean' /\ Known' /\ CreditedLocked' /\ CreditsExclusive'
    BY <1>2 DEF Clean, Known, CreditedLocked, NotWanted, CreditsExclusive, Holding, Rows
  <2>2. CreditedMarked'
    BY <1>2 DEF CreditedMarked, TypeInv, StoresOK, WorldOK
  <2>3. Granted' = Granted /\ Refused' = Refused /\ Holding' = Holding /\ seats' <= seats
    BY <1>2 DEF Granted, Refused, Holding, Rows, TypeInv, StoresOK, CacheOK
  <2> QED
    BY <1>2, <2>1, <2>2, <2>3, NoneTaken
<1>m. mishaps \in Nat
  BY DEF TypeInv, StoresOK, WorldOK
<1>3. CASE OpenSales \/ CloseSales
  BY <1>2, <1>3, <1>m DEF OpenSales, SavedOpen, CloseSales, Benign, Stocked, Rows, cache, tables,
     locals
<1>4. ASSUME NEW r \in Reservations, Lapse(r) \/ StallAbandoned(r) \/ StallRunning(r)
      PROVE  SeatInv'
  BY <1>2, <1>4, <1>m DEF Lapse, StallAbandoned, StallRunning, Mishap, Stocked, Rows, cache,
     tables, world, locals
<1>5. ASSUME NEW r \in Reservations, LockTTL(r) PROVE SeatInv'
  BY <1>5, LockTTLSeats
<1>6. ASSUME NEW u \in Users, KeyTTL(u) PROVE SeatInv'
  BY <1>2, <1>6, <1>m DEF KeyTTL, Stocked, Rows, tables, world, locals
<1>7. ASSUME NEW I \in Instances, Crash(I) PROVE SeatInv'
  BY <1>7, CrashSeats
<1> QED
  BY <1>1, <1>3, <1>4, <1>5, <1>6, <1>7 DEF Environment

-----------------------------------------------------------------------------
(* The invariant.                                                          *)

\* Every step of the system preserves the invariant about seats, if the catch
\* block gives nothing back for a reservation that was saved.
LEMMA SeatsKept ==
    ASSUME Benign, TypeInv, TypeInv', SeatInv, [Next]_vars,
           \A a \in Promoters : UndoSeat(a) => res[a] = None
    PROVE  SeatInv'
<1>1. CASE UNCHANGED vars
  BY <1>1 DEF vars, cache, queue, active, tables, world, locals, SeatInv, Clean, Known,
     Stocked, CreditedLocked, NotWanted, CreditedMarked, CreditsExclusive, NoOverhold,
     SeatsAccounted, Granted, Refused, Holding, Rows
<1>2. CASE Next
  <2>1. Crons \subseteq Promoters /\ Workers \subseteq Promoters /\ mishaps \in Nat
    BY DEF Promoters, TypeInv, StoresOK, WorldOK
  <2>2. ASSUME NEW w \in Workers, TakeJob(w) \/ ExpiryStep(w) \/ ExpiryThrows(w)
        PROVE  SeatInv'
    <3>1. ExpiryThrows(w) => ExpiryStops(w)
      BY <2>1 DEF ExpiryThrows, ExpiryStops, Mishap, Unmarked
    <3> QED
      BY <2>2, <3>1, SetLockSeats, ExpireLockSeats, IncrementSeatsSeats, QuietExpirySeats
         DEF ExpiryStep, QuietExpiry
  <2>3. ASSUME NEW a \in Promoters, PromotionThrows(a) PROVE SeatInv'
    <3>1. PromotionRejects(a) /\ mishaps <= mishaps' /\ pc[a] \notin AfterSave
      BY <2>1, <2>3 DEF PromotionThrows, Mishap, Benign
    <3> QED
      BY <3>1, PromotionFaultSeats
  <2>4. ASSUME NEW c \in Crons, StartCron(c) PROVE SeatInv'
    BY <2>1, <2>4, PromotionFaultSeats
  <2>5. ASSUME NEW a \in Joiners \cup Payers,
               \/ a \in Joiners /\ JoinQueue(a)
               \/ a \in Payers /\ FindPayable(a)
               \/ RequestStep(a) \/ RequestThrows(a)
        PROVE  SeatInv'
    <3>1. RequestThrows(a) => RequestRejects(a) /\ mishaps <= mishaps'
      BY <2>1 DEF RequestThrows, Mishap
    <3> QED
      BY <2>5, <3>1, RequestSeats
  <2> QED
    BY <1>2, <2>1, <2>2, <2>3, <2>4, <2>5, PromotionSeats, EnvironmentSeats DEF Next
<1> QED
  BY <1>1, <1>2

\* a handler starts, its call is answered, or rejected where no catch block
\* returns a seat
Advances(a) ==
    \/ a \in Promoters /\ (StartCron(a) \/ PromotionStep(a))
    \/ a \in Workers /\ (TakeJob(a) \/ ExpiryStep(a) \/ ExpiryRejects(a))
    \/ a \in Joiners /\ JoinQueue(a)
    \/ a \in Payers /\ FindPayable(a)
    \/ a \in Joiners \cup Payers /\ (RequestStep(a) \/ RequestRejects(a))

\* Such a step leaves the other handlers where they are and does not reach the
\* catch block.
LEMMA AdvancesAlone ==
    ASSUME TypeInv, NEW a \in Actors, Advances(a)
    PROVE  OthersStay(a) /\ pc'[a] # "undoSeat"
<1>1. pc \in [Actors -> Calls] /\ res \in [Actors -> Reservations \cup {None}]
  BY DEF TypeInv, ControlOK, LocalsOK
<1>2. CASE StartCron(a) \/ PromotionStep(a)
  BY <1>1, <1>2 DEF StartCron, PromotionStep, GetActiveCount, GetNextInQueue, DecrementSeats,
     SaveReservation, AddJob, SetActive, RemoveFromQueue, SetexActive, IncrActiveCount,
     UndoSeat, RestoreSeat, MarkSoldOut, RemoveSoldOut, Await, Loop, Goto, Return, Forget,
     OthersStay, locals
<1>3. CASE TakeJob(a) \/ ExpiryStep(a) \/ ExpiryRejects(a)
  BY <1>1, <1>3 DEF TakeJob, ExpiryStep, ExpiryRejects, FindReservation, SetLock, ExpireLock,
     IncrementSeats, MarkExpired, ExpireEntry, DelActive, DecrActiveCount, Await, Goto,
     Return, Forget, TriggerPromotion, OthersStay, locals
<1>4. CASE JoinQueue(a) \/ FindPayable(a) \/ RequestStep(a) \/ RequestRejects(a)
  BY <1>1, <1>4 DEF JoinQueue, FindPayable, RequestStep, FindEntry, AddToQueue, SaveEntry,
     SavePaid, MarkDone, RequestRejects, Await, Goto, Return, Forget, OthersStay, locals
<1> QED
  BY <1>2, <1>3, <1>4 DEF Advances

\* So does a rejected call of a promotion; the catch block is reached from the
\* try block, with what the promoter had in its hands.
LEMMA RejectsAlone ==
    ASSUME TypeInv, NEW a \in Promoters, PromotionRejects(a)
    PROVE  /\ OthersStay(a)
           /\ pc'[a] = "undoSeat" => pc[a] \in TryCalls /\ res'[a] = res[a]
<1>1. /\ a \in Actors
      /\ pc \in [Actors -> Calls] /\ res \in [Actors -> Reservations \cup {None}]
  BY DEF Actors, TypeInv, ControlOK, LocalsOK
<1> QED
  BY <1>1 DEF PromotionRejects, Goto, Return, Forget, OthersStay, locals

\* As nothing throws after the save, the catch block is entered without a
\* reservation.
LEMMA UndoPreserved ==
    ASSUME Benign, TypeInv, SeatInv, UndoInv, [Next]_vars
    PROVE  UndoInv'
<1>1. /\ pc \in [Actors -> Calls] /\ res \in [Actors -> Reservations \cup {None}]
      /\ Promoters \subseteq Actors
  BY DEF Actors, TypeInv, ControlOK, LocalsOK
<1>2. CASE UNCHANGED <<pc, res>>
  BY <1>2 DEF UndoInv
<1>3. ASSUME NEW a \in Actors, Advances(a) PROVE UndoInv'
  BY <1>1, <1>3, AdvancesAlone DEF UndoInv, OthersStay
<1>4. ASSUME NEW a \in Promoters, PromotionThrows(a) PROVE UndoInv'
  <2>1. PromotionRejects(a) /\ (pc[a] \in TryCalls => pc[a] = "saveReservation")
    BY <1>4 DEF PromotionThrows, Mishap, Benign, AfterSave
  <2> QED
    BY <1>1, <2>1, RejectsAlone DEF UndoInv, OthersStay, SeatInv, Clean, CleanCalls
<1>5. CASE Environment
  <2>1. ASSUME NEW I \in Instances, Crash(I) PROVE UndoInv'
    BY <1>1, <2>1 DEF Crash, UndoInv
  <2> QED
    BY <1>2, <1>5, <2>1 DEF Environment, InitializeSeats, OpenSales, CloseSales, Lapse,
       LockTTL, StallRunning, StallAbandoned, KeyTTL, locals
<1>6. Next => \/ \E a \in Actors : Advances(a)
              \/ \E a \in Promoters : PromotionThrows(a)
              \/ Environment
  BY DEF Next, Advances, ExpiryThrows, RequestThrows, Actors, Promoters
<1> QED
  BY <1>2, <1>3, <1>4, <1>5, <1>6 DEF vars, locals

\* The two parts of the invariant are preserved together.
LEMMA SeatsPreserved ==
    ASSUME Benign, TypeInv, TypeInv', SeatInv, UndoInv, [Next]_vars
    PROVE  SeatInv' /\ UndoInv'
<1>1. \A a \in Promoters : UndoSeat(a) => res[a] = None
  BY DEF UndoSeat, UndoInv
<1> QED
  BY <1>1, SeatsKept, UndoPreserved

\* Before the sale nobody holds a seat.
LEMMA SeatsInitially == ASSUME Init PROVE SeatInv /\ UndoInv
<1>1. Granted = {} /\ Refused = {} /\ Holding = {}
  BY DEF Init, Granted, Refused, Holding, Rows, Actors
<1>2. NoOverhold
  BY <1>1, FS_EmptySet, BoundAssumption DEF Init, NoOverhold, SeatsAccounted
<1>3. /\ Clean /\ UndoInv /\ Known /\ Stocked
      /\ CreditedLocked /\ CreditedMarked /\ CreditsExclusive
  BY DEF Init, Clean, CleanCalls, UndoInv, Known, UpdateCalls, Stocked, Rows, CreditedLocked,
     CreditedMarked, CreditsExclusive, Actors, Promoters
<1> QED
  BY <1>2, <1>3 DEF SeatInv

\* However many promoters, workers and instances run, are interrupted or
\* crash, the seats granted, reserved and still in the counter never exceed
\* totalSeats (requirements 5.1-5.3 and 7.2 of the queue design).
THEOREM SeatsNeverOverheld ==
    ASSUME Benign
    PROVE  Spec => []NoOverhold
<1>1. Init => TypeInv /\ SeatInv /\ UndoInv
  BY TypesInitially, SeatsInitially
<1>2. TypeInv /\ SeatInv /\ UndoInv /\ [Next]_vars => (TypeInv /\ SeatInv /\ UndoInv)'
  BY TypesPreserved, SeatsPreserved
<1>3. TypeInv /\ SeatInv => NoOverhold
  BY DEF SeatInv
<1> QED
  BY <1>1, <1>2, <1>3, PTL DEF Spec

\* A worker about to give a seat back is the only one to do so, and its
\* reservation still has the seat: retried and redelivered jobs are
\* idempotent (requirements 7.2 and 7.3).
THEOREM CreditsAreExclusive ==
    ASSUME Benign
    PROVE  Spec => []CreditsExclusive
<1>1. Init => TypeInv /\ SeatInv /\ UndoInv
  BY TypesInitially, SeatsInitially
<1>2. TypeInv /\ SeatInv /\ UndoInv /\ [Next]_vars => (TypeInv /\ SeatInv /\ UndoInv)'
  BY TypesPreserved, SeatsPreserved
<1>3. TypeInv /\ SeatInv => CreditsExclusive
  BY DEF SeatInv
<1> QED
  BY <1>1, <1>2, <1>3, PTL DEF Spec

-----------------------------------------------------------------------------
(* The movements of seats.  Every step is one of eight movements           *)
(* (SeatMoves), and each is a step of SeatPool or none: the sale           *)
(* implements the abstract pool.  Where no movement loses a seat           *)
(* (Lossless) the seats add up at every await, and a buyer is turned away  *)
(* only when they are taken.                                               *)

\* nothing interrupts a handler between taking a seat and handing it on or back
Lossless == /\ Benign
            /\ Faults \cap {"crash", "undoSeat", "restoreSeat"} = {}

PoolInv == SeatInv /\ UndoInv

-----------------------------------------------------------------------------
(* The movements: what one step does to the counter, to the seats granted, *)
(* refused and held, and to nothing else of these.                         *)

Kept == /\ UNCHANGED <<seats, provisioned, credited>>
        /\ Granted' = Granted /\ Refused' = Refused /\ Rows' = Rows

Provisioned == /\ ~provisioned /\ provisioned' /\ seats' = TotalSeats
               /\ Granted = {} /\ Refused = {} /\ Rows = {}
               /\ Granted' = {} /\ Refused' = {} /\ Rows' = {}
               /\ UNCHANGED credited

\* promoters are stopped, and what they took is forgotten
Lost == /\ UNCHANGED <<seats, provisioned, credited>>
        /\ Granted' \subseteq Granted /\ Refused' \subseteq Refused /\ Rows' = Rows

Grants(a) == /\ provisioned /\ seats > 0 /\ a \notin Granted
             /\ seats' = seats - 1 /\ Granted' = Granted \cup {a}
             /\ Refused' = Refused /\ Rows' = Rows
             /\ UNCHANGED <<provisioned, credited>>

Refuses(a) == /\ provisioned /\ seats <= 0 /\ a \notin Refused
              /\ seats' = seats - 1 /\ Refused' = Refused \cup {a}
              /\ Granted' = Granted /\ Rows' = Rows
              /\ UNCHANGED <<provisioned, credited>>

Restores(a) == /\ a \in Refused
               /\ seats' = seats + 1 /\ Refused' = Refused \ {a}
               /\ Granted' = Granted /\ Rows' = Rows
               /\ UNCHANGED <<provisioned, credited>>

Reserves(a, r) == /\ a \in Granted /\ r \in Reservations \ Rows
                  /\ Granted' = Granted \ {a} /\ Rows' = Rows \cup {r}
                  /\ Refused' = Refused
                  /\ UNCHANGED <<seats, provisioned, credited>>

Undoes(a) == /\ a \in Granted
             /\ seats' = seats + 1 /\ Granted' = Granted \ {a}
             /\ Refused' = Refused /\ Rows' = Rows
             /\ UNCHANGED <<provisioned, credited>>

\* by the worker that is at its INCR
Credits(r) == /\ r \in Holding
              /\ \E w \in Workers : /\ pc[w] = "incrementSeats" /\ res[w] = r
              /\ seats' = seats + 1 /\ credited' = credited \cup {r}
              /\ Granted' = Granted /\ Refused' = Refused /\ Rows' = Rows
              /\ UNCHANGED provisioned

SeatMove ==
    \/ Kept \/ Provisioned
    \/ Lost /\ ~Lossless
    \/ \E a \in Promoters :
         \/ Grants(a) \/ Refuses(a) \/ Restores(a) \/ Undoes(a)
         \/ \E r \in Reservations : Reserves(a, r)
    \/ \E r \in Reservations : Credits(r)

-----------------------------------------------------------------------------
(* Every step is one of the movements.                                     *)

SeatCalls == {"saveReservation", "undoSeat", "restoreSeat"}

\* A step of one handler that is at no call about seats, before or after, moves
\* none.
LEMMA QuietMove ==
    ASSUME NEW a \in Actors, OthersStay(a),
           UNCHANGED <<seats, credited, provisioned>>, Rows' = Rows,
           pc[a] \notin SeatCalls, pc'[a] \notin SeatCalls
    PROVE  Kept
  BY DEF Kept, Granted, Refused, SeatCalls, OthersStay, Promoters, Actors

\* The steps of promoteUsers that take and return no seat.
LEMMA QuietPromotionMoves ==
    ASSUME TypeInv, NEW a \in Promoters, QuietPromotion(a)
    PROVE  Kept
<1> USE DEF QuietPromotion, GetActiveCount, GetNextInQueue, AddJob, SetActive,
            RemoveFromQueue, SetexActive, IncrActiveCount, MarkSoldOut, RemoveSoldOut,
            Await
<1>1. a \in Actors /\ pc \in [Actors -> Calls] /\ res \in [Actors -> Reservations \cup {None}]
  BY DEF Actors, TypeInv, ControlOK, LocalsOK
<1>2. UNCHANGED <<seats, credited, provisioned, status>>
  BY DEF cache, tables, world
<1>3. OthersStay(a) /\ pc'[a] \notin SeatCalls /\ pc[a] \notin SeatCalls
  BY <1>1 DEF Loop, Goto, Return, Forget, OthersStay, SeatCalls, locals
<1> QED
  BY <1>1, <1>2, <1>3, QuietMove DEF Rows

\* DECR grants a seat exactly when one was left in the counter.
LEMMA DecrementSeatsMoves ==
    ASSUME TypeInv, SeatInv, NEW a \in Promoters, DecrementSeats(a)
    PROVE  Grants(a) \/ Refuses(a)
<1> USE DEF DecrementSeats, Goto
<1>1. /\ a \in Actors /\ Promoters \subseteq Actors /\ seats \in Int
      /\ pc \in [Actors -> Calls] /\ pc[a] = "decrementSeats"
  BY DEF Actors, TypeInv, StoresOK, CacheOK, ControlOK, LocalsOK
<1>2. provisioned /\ UNCHANGED <<credited, provisioned, status, res>>
  BY <1>1, Started DEF cache, tables, world, locals
<1>3. CASE SeatGranted(seats - 1)
  <2>1. pc'[a] = "saveReservation" /\ \A b \in Promoters \ {a} : pc'[b] = pc[b]
    BY <1>1, <1>3
  <2> QED
    BY <1>1, <1>2, <1>3, <2>1 DEF Grants, Granted, Refused, Rows, SeatGranted
<1>4. CASE ~SeatGranted(seats - 1)
  <2>1. pc'[a] = "restoreSeat" /\ \A b \in Promoters \ {a} : pc'[b] = pc[b]
    BY <1>1, <1>4
  <2> QED
    BY <1>1, <1>2, <1>4, <2>1 DEF Refuses, Granted, Refused, Rows, SeatGranted
<1> QED
  BY <1>3, <1>4

\* The INSERT turns a granted seat into a reserved one.
LEMMA SaveReservationMoves ==
    ASSUME TypeInv, SeatInv, NEW a \in Promoters, SaveReservation(a)
    PROVE  \E r \in Reservations : Reserves(a, r)
<1> USE DEF SaveReservation, Await, Goto
<1>1. /\ a \in Actors /\ Promoters \subseteq Actors
      /\ pc \in [Actors -> Calls] /\ res \in [Actors -> Reservations \cup {None}]
      /\ UNCHANGED <<seats, credited, provisioned>>
  BY DEF Actors, TypeInv, ControlOK, LocalsOK, cache, world
<1>2. PICK r \in Reservations \ Rows :
        /\ status' = [status EXCEPT ![r] = "PENDING_PAYMENT"]
        /\ res' = [res EXCEPT ![a] = r]
  BY DEF IsFresh
<1>3. Rows' = Rows \cup {r}
  BY <1>2 DEF Rows, TypeInv, StoresOK, TablesOK
<1>4. /\ pc'[a] = "addJob"
      /\ \A b \in Promoters \ {a} : pc'[b] = pc[b] /\ res'[b] = res[b]
  BY <1>1, <1>2
<1> QED
  BY <1>1, <1>2, <1>3, <1>4 DEF Reserves, Granted, Refused

\* The INCRs of a promotion give back the seat of the catch block or the
\* decrement that was refused.
LEMMA SeatReturnMoves ==
    ASSUME TypeInv, NEW a \in Promoters,
           (UndoSeat(a) /\ res[a] = None) \/ RestoreSeat(a)
    PROVE  Undoes(a) \/ Restores(a)
<1>1. /\ a \in Actors /\ Promoters \subseteq Actors
      /\ pc \in [Actors -> Calls] /\ res \in [Actors -> Reservations \cup {None}]
  BY DEF Actors, TypeInv, ControlOK, LocalsOK
<1>2. CASE UndoSeat(a) /\ res[a] = None
  <2>1. pc[a] = "undoSeat" /\ res[a] = None
    BY <1>2 DEF UndoSeat
  <2>2. /\ UNCHANGED <<credited, provisioned, status>> /\ seats' = seats + 1
        /\ pc'[a] = "idle"
        /\ \A b \in Promoters \ {a} : pc'[b] = pc[b] /\ res'[b] = res[b]
    BY <1>1, <1>2, <2>1 DEF UndoSeat, Return, Forget, cache, tables, world
  <2> QED
    BY <2>1, <2>2 DEF Undoes, Granted, Refused, Rows
<1>3. CASE RestoreSeat(a)
  <2>1. /\ UNCHANGED <<credited, provisioned, status, res>> /\ seats' = seats + 1
        /\ pc[a] = "restoreSeat" /\ pc'[a] = "markSoldOut"
        /\ \A b \in Promoters \ {a} : pc'[b] = pc[b]
    BY <1>1, <1>3 DEF RestoreSeat, Await, Goto, cache, tables, world, locals
  <2> QED
    BY <2>1 DEF Restores, Granted, Refused, Rows
<1> QED
  BY <1>2, <1>3

\* A cron that starts moves nothing.  A call of the promotion that is rejected
\* moves nothing either, unless it is one of the two INCRs.
LEMMA PromotionFaultMoves ==
    ASSUME TypeInv, SeatInv, NEW a \in Promoters,
           \/ StartCron(a)
           \/ PromotionRejects(a) /\ (pc[a] \in AfterSave => res[a] # None)
    PROVE  Kept \/ (Lost /\ pc[a] \in {"undoSeat", "restoreSeat"})
<1>1. /\ a \in Actors /\ Promoters \subseteq Actors
      /\ pc \in [Actors -> Calls] /\ res \in [Actors -> Reservations \cup {None}]
      /\ UNCHANGED <<seats, credited, provisioned, status>>
  BY DEF Actors, StartCron, PromotionRejects, cache, tables, world, TypeInv, ControlOK,
     LocalsOK
<1>2. CASE StartCron(a)
  <2>1. OthersStay(a) /\ pc[a] = "idle" /\ pc'[a] = "getActiveCount"
    BY <1>1, <1>2 DEF StartCron, Await, Goto, OthersStay, locals
  <2> QED
    BY <1>1, <2>1, QuietMove DEF SeatCalls, Rows
<1>3. CASE PromotionRejects(a) /\ pc[a] \in TryCalls /\ (pc[a] \in AfterSave => res[a] # None)
  <2>1. (pc[a] = "saveReservation" /\ res[a] = None) \/ (pc[a] \in AfterSave /\ res[a] # None)
    BY <1>3 DEF AfterSave, SeatInv, Clean, CleanCalls
  <2>2. /\ pc'[a] = "undoSeat" /\ UNCHANGED res
        /\ \A b \in Promoters \ {a} : pc'[b] = pc[b]
    BY <1>1, <1>3 DEF PromotionRejects, Goto, locals
  <2> QED
    BY <1>1, <2>1, <2>2 DEF Kept, Granted, Refused, Rows, AfterSave, TryCalls
<1>4. CASE PromotionRejects(a) /\ pc[a] \notin TryCalls
  <2>1. OthersStay(a) /\ pc'[a] = "idle"
    BY <1>1, <1>4 DEF PromotionRejects, Return, Forget, OthersStay
  <2>2. CASE pc[a] \in {"undoSeat", "restoreSeat"}
    BY <1>1, <2>1, <2>2 DEF Lost, Granted, Refused, Rows, OthersStay
  <2>3. CASE pc[a] \notin {"undoSeat", "restoreSeat"}
    BY <1>1, <1>4, <2>1, <2>3, QuietMove DEF SeatCalls, TryCalls, Rows
  <2> QED
    BY <2>2, <2>3
<1> QED
  BY <1>2, <1>3, <1>4

\* An expiration moves a seat only by its INCR.
LEMMA ExpiryMoves ==
    ASSUME TypeInv, SeatInv, NEW w \in Workers,
           TakeJob(w) \/ ExpiryStep(w) \/ ExpiryRejects(w)
    PROVE  Kept \/ \E r \in Reservations : Credits(r)
<1>1. /\ w \in Actors /\ w \in Promoters /\ Promoters \subseteq Actors
      /\ pc \in [Actors -> Calls] /\ res \in [Actors -> Reservations \cup {None}]
      /\ status \in [Reservations -> ReservationStatuses]
  BY DEF Promoters, Actors, TypeInv, StoresOK, TablesOK, ControlOK, LocalsOK
<1>2. CASE IncrementSeats(w)
  <2>1. /\ res[w] \in Holding /\ pc[w] = "incrementSeats" /\ pc'[w] = "markExpired"
        /\ seats' = seats + 1 /\ credited' = credited \cup {res[w]}
        /\ UNCHANGED <<provisioned, status, res>>
        /\ \A b \in Promoters \ {w} : pc'[b] = pc[b]
    BY <1>1, <1>2 DEF IncrementSeats, Await, Goto, cache, tables, world, locals,
       SeatInv, CreditsExclusive
  <2> QED
    BY <1>1, <2>1 DEF Credits, Granted, Refused, Rows, Holding
<1>3. CASE ~IncrementSeats(w)
  <2> USE <1>3 DEF ExpiryStep, ExpiryRejects, TakeJob, FindReservation, SetLock,
          ExpireLock, MarkExpired, ExpireEntry, DelActive, DecrActiveCount, Await
  <2>1. UNCHANGED <<seats, credited, provisioned>>
    BY DEF cache, world
  <2>2. OthersStay(w) /\ pc[w] \notin SeatCalls /\ pc'[w] \notin SeatCalls
    <3>1. pc[w] \notin SeatCalls
      BY <1>1 DEF ExpiryCalls, SeatCalls
    <3>2. OthersStay(w) /\ pc'[w] \notin SeatCalls
      BY <1>1 DEF Goto, Return, Forget, TriggerPromotion, OthersStay, SeatCalls, locals
    <3> QED
      BY <3>1, <3>2
  <2>3. Rows' = Rows
    <3>1. CASE MarkExpired(w)
      <4>1. res[w] \in Rows /\ status' = [status EXCEPT ![res[w]] = "EXPIRED"]
        BY <1>1, <3>1 DEF SeatInv, Known, UpdateCalls
      <4> QED
        BY <1>1, <4>1 DEF Rows
    <3>2. CASE ~MarkExpired(w)
      BY <3>2 DEF tables, Rows
    <3> QED
      BY <3>1, <3>2
  <2> QED
    BY <1>1, <2>1, <2>2, <2>3, QuietMove
<1> QED
  BY <1>2, <1>3

\* The requests move no seat.
LEMMA RequestMoves ==
    ASSUME TypeInv, SeatInv, NEW a \in Joiners \cup Payers,
           \/ a \in Joiners /\ JoinQueue(a)
           \/ a \in Payers /\ FindPayable(a)
           \/ RequestStep(a) \/ RequestRejects(a)
    PROVE  Kept
<1> USE DEF RequestStep, JoinQueue, FindPayable, FindEntry, AddToQueue, SaveEntry,
            SavePaid, MarkDone, RequestRejects, Await
<1>1. /\ a \in Actors /\ a \notin Promoters
      /\ pc \in [Actors -> Calls] /\ res \in [Actors -> Reservations \cup {None}]
      /\ status \in [Reservations -> ReservationStatuses]
  BY ActorAssumption DEF Actors, TypeInv, StoresOK, TablesOK, ControlOK, LocalsOK
<1>2. UNCHANGED <<seats, credited, provisioned>>
  BY DEF cache, active, world
<1>3. OthersStay(a) /\ pc[a] \notin SeatCalls /\ pc'[a] \notin SeatCalls
  BY <1>1 DEF JoinCalls, PayCalls, Goto, Return, Forget, OthersStay, SeatCalls, locals
<1>4. Rows' = Rows
  <2>1. CASE SavePaid(a)
    <3>1. res[a] \in Rows /\ status' = [status EXCEPT ![res[a]] = "PAID"]
      BY <1>1, <2>1 DEF SeatInv, Known, UpdateCalls
    <3> QED
      BY <1>1, <3>1 DEF Rows
  <2>2. CASE ~SavePaid(a)
    BY <2>2 DEF tables, Rows
  <2> QED
    BY <2>1, <2>2
<1> QED
  BY <1>1, <1>2, <1>3, <1>4, QuietMove

\* The environment provides the seats once, and loses some by a crash.
LEMMA EnvironmentMoves ==
    ASSUME TypeInv, SeatInv, Environment
    PROVE  Kept \/ Provisioned \/ (Lost /\ ~Lossless)
<1>1. CASE InitializeSeats
  <2>1. /\ ~provisioned /\ provisioned' /\ seats' = TotalSeats
        /\ UNCHANGED <<credited, status, pc, res>>
    BY <1>1 DEF InitializeSeats, cache, tables, locals
  <2>2. Granted = {} /\ Refused = {} /\ Rows = {}
    BY <2>1 DEF SeatInv, Stocked, Granted, Refused, Actors
  <2> QED
    BY <2>1, <2>2 DEF Provisioned, Granted, Refused, Rows
<1>2. ASSUME NEW I \in Instances, Crash(I) PROVE Lost /\ ~Lossless
  <2>1. /\ UNCHANGED <<seats, provisioned, credited, status>>
        /\ \A a \in Actors : \/ pc'[a] = "idle"
                             \/ pc'[a] = pc[a] /\ res'[a] = res[a]
        /\ "crash" \in Faults
    BY <1>2 DEF Crash, Mishap, cache, tables
  <2> QED
    BY <2>1 DEF Lost, Lossless, Granted, Refused, Rows, Actors
<1>3. ASSUME UNCHANGED <<seats, provisioned, credited, status, pc, res>> PROVE Kept
  BY <1>3 DEF Kept, Granted, Refused, Rows
<1>4. CASE OpenSales \/ CloseSales
  BY <1>3, <1>4 DEF OpenSales, CloseSales, cache, tables, locals
<1>5. ASSUME NEW r \in Reservations,
             Lapse(r) \/ LockTTL(r) \/ StallRunning(r) \/ StallAbandoned(r)
      PROVE  Kept
  BY <1>3, <1>5 DEF Lapse, LockTTL, StallRunning, StallAbandoned, Mishap, cache,
     tables, world, locals
<1>6. ASSUME NEW u \in Users, KeyTTL(u) PROVE Kept
  BY <1>3, <1>6 DEF KeyTTL, tables, world, locals
<1> QED
  BY <1>1, <1>2, <1>4, <1>5, <1>6 DEF Environment

\* Whatever the interleaving, a step moves at most one seat, in one of the ways
\* above.
LEMMA SeatMoves ==
    ASSUME Benign, TypeInv, SeatInv, [Next]_vars,
           \A a \in Promoters : UndoSeat(a) => res[a] = None
    PROVE  SeatMove
<1>1. CASE UNCHANGED vars
  BY <1>1 DEF vars, cache, tables, world, locals, SeatMove, Kept, Granted, Refused, Rows
<1>2. ASSUME NEW a \in Promoters, PromotionStep(a) PROVE SeatMove
  BY <1>2, QuietPromotionMoves, DecrementSeatsMoves, SaveReservationMoves,
     SeatReturnMoves DEF PromotionStep, QuietPromotion, SeatMove
<1>3. ASSUME NEW a \in Promoters, StartCron(a) \/ PromotionThrows(a) PROVE SeatMove
  <2>1. CASE StartCron(a)
    BY <2>1, PromotionFaultMoves DEF SeatMove, StartCron, Await
  <2>2. CASE PromotionThrows(a)
    <3>1. PromotionRejects(a) /\ pc[a] \notin AfterSave
      BY <2>2 DEF PromotionThrows, Mishap, Benign
    <3>2. pc[a] \in {"undoSeat", "restoreSeat"} => ~Lossless
      BY <2>2 DEF PromotionThrows, Mishap, Lossless
    <3> QED
      BY <3>1, <3>2, PromotionFaultMoves DEF SeatMove
  <2> QED
    BY <1>3, <2>1, <2>2
<1>4. ASSUME NEW w \in Workers, TakeJob(w) \/ ExpiryStep(w) \/ ExpiryThrows(w)
      PROVE  SeatMove
  BY <1>4, ExpiryMoves DEF SeatMove, ExpiryThrows
<1>5. ASSUME NEW a \in Joiners \cup Payers,
             \/ a \in Joiners /\ JoinQueue(a)
             \/ a \in Payers /\ FindPayable(a)
             \/ RequestStep(a) \/ RequestThrows(a)
      PROVE  SeatMove
  BY <1>5, RequestMoves DEF SeatMove, RequestThrows
<1>6. CASE Environment
  BY <1>6, EnvironmentMoves DEF SeatMove
<1>7. Crons \subseteq Promoters
  BY DEF Promoters
<1> QED
  BY <1>1, <1>2, <1>3, <1>4, <1>5, <1>6, <1>7 DEF Next

-----------------------------------------------------------------------------
(* What the movements do to the sums.                                      *)

\* the pool's free seats and its held ones, as TicketQueue maps them
Free == seats + Cardinality(Refused)
Held == Cardinality(Granted) + Cardinality(Holding)

\* What is lost comes off the free or the held seats.
LEMMA LostSums ==
    ASSUME TypeInv, TypeInv', Lost
    PROVE  Free' <= Free /\ Held' <= Held /\ UNCHANGED provisioned
<1>1. Granted \subseteq Promoters /\ Refused \subseteq Promoters
  BY DEF Granted, Refused
<1>2. /\ Cardinality(Granted)' <= Cardinality(Granted)
      /\ Cardinality(Refused)' <= Cardinality(Refused)
  BY <1>1, CountedSets, FS_Subset DEF Lost
<1>3. seats \in Int /\ seats' = seats /\ Holding' = Holding /\ UNCHANGED provisioned
  BY DEF Lost, Holding, TypeInv, StoresOK, CacheOK
<1> QED
  BY <1>2, <1>3, Terms DEF Free, Held

\* A movement changes the free and the held seats by at most one, and their
\* sum only by providing the seats or by losing some.
LEMMA MovedSums ==
    ASSUME TypeInv, TypeInv', SeatInv, SeatMove
    PROVE  \/ Free' = Free /\ Held' = Held /\ UNCHANGED provisioned
           \/ /\ ~provisioned /\ provisioned'
              /\ Free' = TotalSeats /\ Held = 0 /\ Held' = 0
           \/ /\ provisioned /\ Free > 0 /\ Free' = Free - 1 /\ Held' = Held + 1
              /\ UNCHANGED provisioned
           \/ /\ Held > 0 /\ Free' = Free + 1 /\ Held' = Held - 1
              /\ UNCHANGED provisioned
           \/ Free' <= Free /\ Held' <= Held /\ UNCHANGED provisioned /\ ~Lossless
<1> USE Terms DEF Free, Held
<1>1. seats \in Int
  BY DEF TypeInv, StoresOK, CacheOK
<1>2. /\ Granted \subseteq Promoters /\ Refused \subseteq Promoters
      /\ Holding \subseteq Reservations
  BY DEF Granted, Refused, Holding, Rows
<1>3. Rows' = Rows /\ UNCHANGED credited => Holding' = Holding
  BY DEF Holding
<1>4. CASE Kept
  BY <1>3, <1>4 DEF Kept
<1>5. CASE Provisioned
  <2>1. Holding = {} /\ Holding' = {}
    BY <1>5 DEF Provisioned, Holding
  <2>2. /\ Cardinality(Granted) = 0 /\ Cardinality(Granted)' = 0
        /\ Cardinality(Holding) = 0 /\ Cardinality(Holding)' = 0
        /\ Cardinality(Refused)' = 0
    BY <1>5, <2>1, FS_EmptySet DEF Provisioned
  <2>3. ~provisioned /\ provisioned' /\ seats' = TotalSeats
    BY <1>5 DEF Provisioned
  <2>4. Free' = TotalSeats /\ Held = 0 /\ Held' = 0
    BY <2>2, <2>3, BoundAssumption
  <2> QED
    BY <2>3, <2>4
<1>6. CASE Lost /\ ~Lossless
  BY <1>6, LostSums
<1>7. ASSUME NEW a \in Promoters, Grants(a) PROVE Free > 0 /\ Free' = Free - 1 /\ Held' = Held + 1
  <2>1. Cardinality(Granted)' = Cardinality(Granted) + 1
    BY <1>2, <1>7, OneMore DEF Grants
  <2> QED
    BY <1>1, <1>3, <1>7, <2>1 DEF Grants
<1>8. ASSUME NEW a \in Promoters, Refuses(a) PROVE Free' = Free /\ Held' = Held
  <2>1. Cardinality(Refused)' = Cardinality(Refused) + 1
    BY <1>2, <1>8, OneMore DEF Refuses
  <2> QED
    BY <1>1, <1>3, <1>8, <2>1 DEF Refuses
<1>9. ASSUME NEW a \in Promoters, Restores(a) PROVE Free' = Free /\ Held' = Held
  <2>1. Cardinality(Refused)' = Cardinality(Refused) - 1
    BY <1>2, <1>9, OneLess DEF Restores
  <2> QED
    BY <1>1, <1>3, <1>9, <2>1 DEF Restores
<1>10. ASSUME NEW a \in Promoters, Undoes(a)
       PROVE  Held > 0 /\ Free' = Free + 1 /\ Held' = Held - 1
  <2>1. Cardinality(Granted)' = Cardinality(Granted) - 1
    BY <1>2, <1>10, OneLess DEF Undoes
  <2> QED
    BY <1>1, <1>3, <1>10, <2>1 DEF Undoes
<1>11. ASSUME NEW a \in Promoters, NEW r \in Reservations, Reserves(a, r)
       PROVE  Free' = Free /\ Held' = Held
  <2>1. Cardinality(Granted)' = Cardinality(Granted) - 1
    BY <1>2, <1>11, OneLess DEF Reserves
  <2>2. Holding' = Holding \cup {r} /\ r \notin Holding
    BY <1>11 DEF Reserves, Holding, SeatInv, CreditedLocked
  <2>3. Cardinality(Holding)' = Cardinality(Holding) + 1
    BY <1>2, <2>2, OneMore
  <2> QED
    BY <1>1, <1>11, <2>1, <2>3 DEF Reserves
<1>12. ASSUME NEW r \in Reservations, Credits(r)
       PROVE  Held > 0 /\ Free' = Free + 1 /\ Held' = Held - 1
  <2>1. Holding' = Holding \ {r}
    BY <1>12 DEF Credits, Holding
  <2>2. Cardinality(Holding)' = Cardinality(Holding) - 1
    BY <1>2, <1>12, <2>1, OneLess DEF Credits
  <2> QED
    BY <1>1, <1>12, <2>2 DEF Credits
<1> QED
  BY <1>4, <1>5, <1>6, <1>7, <1>8, <1>9, <1>10, <1>11, <1>12
     DEF SeatMove, Kept, Grants, Refuses, Restores, Undoes, Reserves, Credits

-----------------------------------------------------------------------------
(* The theorems.                                                           *)

\* The invariant of these proofs is reached at the start and kept.
LEMMA PoolInvariant ==
    ASSUME Benign
    PROVE  Spec => [](TypeInv /\ PoolInv)
<1>1. Init => TypeInv /\ PoolInv
  BY TypesInitially, SeatsInitially DEF PoolInv
<1>2. TypeInv /\ PoolInv /\ [Next]_vars => (TypeInv /\ PoolInv)'
  BY TypesPreserved, SeatsPreserved DEF PoolInv
<1> QED
  BY <1>1, <1>2, PTL DEF Spec

\* In a state the sale can be in, every step is a movement.
LEMMA PoolMoves ==
    ASSUME Benign, TypeInv, PoolInv, [Next]_vars
    PROVE  SeatMove
<1>1. \A a \in Promoters : UndoSeat(a) => res[a] = None
  BY DEF UndoSeat, PoolInv, UndoInv
<1> QED
  BY <1>1, SeatMoves DEF PoolInv

\* A movement is a step of the pool or none, and so is anything that only takes
\* from the free and the held seats.
LEMMA PoolStep ==
    ASSUME TypeInv, TypeInv', SeatInv,
           \/ SeatMove
           \/ Free' <= Free /\ Held' <= Held /\ UNCHANGED provisioned
    PROVE  [Pool!Next]_<<provisioned, Free, Held>>
<1>1. Held = 0 /\ Held' = 0 => Held' = Held
  OBVIOUS
<1> QED
  BY <1>1, MovedSums
     DEF Pool!Next, Pool!Stock, Pool!Acquire, Pool!GiveBack, Pool!Lose, Free, Held

\* At the start the pool is not stocked.
LEMMA PoolInitially == ASSUME Init PROVE Pool!Init
<1>1. Granted = {} /\ Refused = {} /\ Holding = {}
  BY DEF Init, Granted, Refused, Holding, Rows, Actors
<1> QED
  BY <1>1, FS_EmptySet DEF Init, Pool!Init

\* The sale implements SeatPool: a seat is only acquired while one is free and
\* only returned by its holder, whatever interleaves, stalls or crashes
\* (requirements 5.1-5.3, 7.2 and 7.3 of the queue design).
THEOREM SeatPoolImplemented ==
    ASSUME Benign
    PROVE  Spec => RefinesSeatPool
<1>1. TypeInv /\ PoolInv /\ (TypeInv /\ PoolInv)' /\ [Next]_vars
        => [Pool!Next]_<<provisioned, Free, Held>>
  BY PoolMoves, PoolStep DEF PoolInv
<1> QED
  BY <1>1, PoolInitially, PoolInvariant, PTL
     DEF Spec, RefinesSeatPool, Pool!Spec, Free, Held

\* While no handler is interrupted between taking a seat and handing it on or
\* back, the counter, the seats granted or reserved and the decrements still to
\* be compensated add up to totalSeats at every await (Properties 1 and 8).
THEOREM SeatsConserved ==
    ASSUME Lossless
    PROVE  Spec => []SeatConservation
<1>1. Benign
  BY DEF Lossless
<1>2. Init => SeatConservation
  BY DEF Init, SeatConservation
<1>3. TypeInv /\ PoolInv /\ (TypeInv /\ PoolInv)' /\ SeatConservation /\ [Next]_vars
        => SeatConservation'
  <2> SUFFICES ASSUME TypeInv, PoolInv, TypeInv', SeatConservation, [Next]_vars
               PROVE  SeatConservation'
    OBVIOUS
  <2>1. SeatMove /\ SeatInv
    BY <1>1, PoolMoves DEF PoolInv
  <2>2. seats \in Int /\ seats' \in Int
    BY DEF TypeInv, StoresOK, CacheOK
  <2>3. SeatsAccounted \in Nat /\ SeatsAccounted' \in Nat
    BY Terms DEF SeatsAccounted
  <2>4. /\ seats + SeatsAccounted = Free + Held
        /\ (seats + SeatsAccounted)' = Free' + Held'
        /\ Free \in Int /\ Free' \in Int /\ Held \in Int /\ Held' \in Int
    BY <2>2, Terms DEF SeatsAccounted, Free, Held
  <2>5. \/ (seats + SeatsAccounted)' = seats + SeatsAccounted /\ UNCHANGED provisioned
        \/ (seats + SeatsAccounted)' = TotalSeats
    BY <2>1, <2>4, MovedSums, BoundAssumption
  <2> QED
    BY <2>5 DEF SeatConservation
<1> QED
  BY <1>1, <1>2, <1>3, PoolInvariant, PTL DEF Spec

\* Under the same condition a buyer is turned away only when every seat is
\* granted or reserved, or while another refusal is not yet compensated
\* (Property 6).
THEOREM RefusedWhenTaken ==
    ASSUME Lossless
    PROVE  Spec => RefusedOnlyWhenTaken
<1>1. Benign
  BY DEF Lossless
<1>2. TypeInv /\ PoolInv /\ SeatConservation /\ [Next]_vars =>
        [\A a \in Promoters :
           pc[a] = "decrementSeats" /\ pc'[a] = "restoreSeat" =>
              \/ Cardinality(Granted) + Cardinality(Holding) >= TotalSeats
              \/ Refused # {}]_vars
  <2> SUFFICES ASSUME TypeInv, PoolInv, SeatConservation, [Next]_vars,
                      NEW a \in Promoters,
                      pc[a] = "decrementSeats", pc'[a] = "restoreSeat", Refused = {}
               PROVE  Cardinality(Granted) + Cardinality(Holding) >= TotalSeats
    OBVIOUS
  <2>1. a \in Refused' \ Refused
    BY DEF Refused
  <2>2. \E b \in Promoters : Refuses(b)
    BY <1>1, <2>1, PoolMoves DEF SeatMove, Kept, Provisioned, Lost, Grants,
       Restores, Undoes, Reserves, Credits
  <2>3. seats \in Int /\ seats <= 0 /\ provisioned
    BY <2>2 DEF Refuses, TypeInv, StoresOK, CacheOK
  <2> QED
    BY <2>3, FS_EmptySet, Terms, BoundAssumption DEF SeatConservation, SeatsAccounted
<1> QED
  BY <1>1, <1>2, PoolInvariant, SeatsConserved, PTL DEF Spec, RefusedOnlyWhenTaken

=============================================================================
