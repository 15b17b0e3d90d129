----------------------------- MODULE PageProofs -----------------------------
(***************************************************************************)
(* Proofs about the buyer's page.  It applies an outcome to whatever       *)
(* reservation it knows, without comparing ids, and it learns of that      *)
(* reservation by one message that is never repeated.  That is enough as   *)
(* long as nobody ever has two reservations (OneRowEach): every message    *)
(* to a user is then about the same one, and outcomes are final.           *)
(***************************************************************************)
EXTENDS OutcomeProofs, QueueProofs, BuyerView

\* nobody is ever given a second reservation
OneRowEach == \A r, s \in Rows : r # s => owner[r] # owner[s]

Events == {"queue:active", "reservation:expired", "reservation:paid"}
Messages == [event : Events, res : Reservations \cup {None}]

ViewTypes ==
    /\ connected \subseteq Users /\ confirmed \subseteq Users /\ interrupted \subseteq Users
    /\ inbox \in [Users -> Seq(Messages)]
    /\ known \in [Users -> Reservations \cup {None}]
    /\ shown \in [Users -> {"-", "PENDING_PAYMENT", "PAID", "EXPIRED"}]

\* the messages under way to a user
Content(s) == {s[i] : i \in 1 .. Len(s)}
Mail(u) == Content(inbox[u])

\* a handler that is about to tell an outcome has written it
Announces(a) ==
    /\ pc[a] \in {"expireEntry", "delActive", "decrActiveCount"} => status[res[a]] = "EXPIRED"
    /\ pc[a] = "markDone" => status[res[a]] = "PAID"

AnnounceInv == \A a \in Actors : Announces(a)

\* a message is about a reservation of its receiver, and what it says is true
IsTrue(m, u) ==
    /\ m.res \in Rows /\ owner[m.res] = u
    /\ m.event = "reservation:expired" => status[m.res] = "EXPIRED"
    /\ m.event = "reservation:paid" => status[m.res] = "PAID"

HasOutcome(u, s) == \E r \in Rows : owner[r] = u /\ status[r] = s

PageInv ==
    \A u \in Users :
        /\ \A m \in Mail(u) : IsTrue(m, u)
        /\ known[u] # None => known[u] \in Rows /\ owner[known[u]] = u
        /\ shown[u] \in {"PAID", "EXPIRED"} => HasOutcome(u, shown[u])
        /\ u \in confirmed => HasOutcome(u, "PAID")

-----------------------------------------------------------------------------
(* The steps of the sale seen from the page.                               *)

\* a lost socket, for the sale only a mishap
OnlyMishap ==
    /\ UNCHANGED <<seats, cache, tables, jobs, lapsed, sales, provisioned, pc, locals, credited>>
    /\ mishaps' \in Nat

\* a step of the sale keeps its rows, whom they belong to, and their outcomes
Settled == /\ Rows \subseteq Rows'
           /\ \A r \in Rows : owner'[r] = owner[r]
           /\ KeepsFinal

\* The page and the sockets do nothing to the sale.
LEMMA ViewStep ==
    ASSUME TypeInv, [ViewNext]_viewVars
    PROVE  [Next]_vars \/ OnlyMishap
<1>1. mishaps \in Nat
  BY DEF TypeInv, StoresOK, WorldOK
<1>2. CASE UNCHANGED viewVars
  BY <1>2 DEF viewVars
<1>3. ASSUME NEW a \in Promoters, Promote(a) PROVE Next
  BY <1>3 DEF Promote, Next
<1>4. ASSUME NEW w \in Workers, Expire(w) PROVE Next
  BY <1>4 DEF Expire, Next
<1>5. ASSUME NEW j \in Joiners, AskToJoin(j) PROVE Next
  BY <1>5 DEF AskToJoin, Next
<1>6. ASSUME NEW p \in Payers, AskToPay(p) \/ FinishPayment(p) PROVE Next
  BY <1>6 DEF AskToPay, FinishPayment, RequestStep, Next
<1>7. ASSUME NEW u \in Users, Connect(u) \/ Disconnect(u) \/ Receive(u) \/ Confirm(u)
      PROVE  UNCHANGED vars \/ OnlyMishap
  BY <1>1, <1>7 DEF Connect, Disconnect, Receive, Confirm, Mishap, OnlyMishap
<1>8. CASE Silent
  BY <1>8 DEF Silent, Next
<1> QED
  BY <1>2, <1>3, <1>4, <1>5, <1>6, <1>7, <1>8 DEF ViewNext

\* Types and rows in the sale with its pages.
LEMMA ViewBase ==
    ASSUME TypeInv, ServiceInv, [ViewNext]_viewVars
    PROVE  TypeInv' /\ ServiceInv'
<1>1. CASE [Next]_vars
  BY <1>1, TypesPreserved, ServicePreserved
<1>2. CASE OnlyMishap
  <2>1. TypeInv'
    BY <1>2 DEF OnlyMishap, TypeInv, StoresOK, ControlOK, CacheOK, TablesOK, WorldOK,
       LocalsOK, HandlersOK, InLoop, Working, cache, queue, active, tables, locals
  <2>2. ServiceInv'
    BY <1>2 DEF OnlyMishap, ServiceInv, Serves, Rows, tables, locals
  <2> QED
    BY <2>1, <2>2
<1> QED
  BY <1>1, <1>2, ViewStep

\* A row is never deleted and never changes hands.
LEMMA RowsStay ==
    ASSUME TypeInv, ServiceInv, [Next]_vars
    PROVE  Rows \subseteq Rows' /\ \A r \in Rows : owner'[r] = owner[r]
<1>1. /\ status \in [Reservations -> ReservationStatuses]
      /\ owner \in [Reservations -> Users \cup {None}]
      /\ Promoters \subseteq Actors /\ Payers \subseteq Actors /\ Crons \subseteq Promoters
      /\ Workers \subseteq Actors
  BY DEF TypeInv, StoresOK, TablesOK, Actors, Promoters
<1>2. ASSUME NEW a \in Promoters, StartCron(a) \/ PromotionStep(a) \/ PromotionThrows(a)
      PROVE  Rows \subseteq Rows' /\ \A r \in Rows : owner'[r] = owner[r]
  BY <1>1, <1>2 DEF StartCron, PromotionStep, PromotionThrows, PromotionRejects,
     GetActiveCount, GetNextInQueue, DecrementSeats, SaveReservation, AddJob, SetActive,
     RemoveFromQueue, SetexActive, IncrActiveCount, UndoSeat, RestoreSeat, MarkSoldOut,
     RemoveSoldOut, IsFresh, Rows, tables
<1>3. ASSUME NEW w \in Workers, TakeJob(w) \/ ExpiryStep(w) \/ ExpiryThrows(w)
      PROVE  Rows \subseteq Rows' /\ \A r \in Rows : owner'[r] = owner[r]
  BY <1>1, <1>3 DEF ExpiryStep, ExpiryThrows, ExpiryRejects, TakeJob, FindReservation,
     SetLock, ExpireLock, IncrementSeats, MarkExpired, ExpireEntry, DelActive,
     DecrActiveCount, Rows, tables
<1>4. ASSUME NEW a \in Joiners \cup Payers,
             \/ a \in Joiners /\ JoinQueue(a)
             \/ a \in Payers /\ FindPayable(a)
             \/ RequestStep(a) \/ RequestThrows(a)
      PROVE  Rows \subseteq Rows' /\ \A r \in Rows : owner'[r] = owner[r]
  BY <1>1, <1>4 DEF RequestStep, RequestThrows, RequestRejects, JoinQueue, FindPayable,
     FindEntry, AddToQueue, SaveEntry, SavePaid, MarkDone, Rows, tables
<1>5. CASE Environment \/ UNCHANGED vars
  BY <1>5 DEF Environment, InitializeSeats, OpenSales, CloseSales, Lapse, LockTTL,
     StallRunning, StallAbandoned, KeyTTL, Crash, vars, Rows, tables
<1> QED
  BY <1>1, <1>2, <1>3, <1>4, <1>5 DEF Next

LEMMA ViewSettled ==
    ASSUME Punctual, TypeInv, ServiceInv, OutcomeInv, [ViewNext]_viewVars
    PROVE  OutcomeInv' /\ Settled
<1>1. CASE [Next]_vars
  BY <1>1, OutcomesPreserved, RowsStay DEF Settled
<1>2. CASE OnlyMishap
  BY <1>2 DEF OnlyMishap, OutcomeInv, Decides, Settled, KeepsFinal, Rows, tables, locals
<1> QED
  BY <1>1, <1>2, ViewStep

\* What a handler is about to announce is written just before and stays so.
LEMMA ViewAnnounces ==
    ASSUME TypeInv, ServiceInv, AnnounceInv, KeepsFinal, [ViewNext]_viewVars
    PROVE  AnnounceInv'
<1> DEFINE Calls1 == {"expireEntry", "delActive", "decrActiveCount"}
<1>1. /\ Promoters \subseteq Actors /\ Joiners \subseteq Actors /\ Payers \subseteq Actors
      /\ Workers \subseteq Promoters /\ Crons \subseteq Promoters
      /\ pc \in [Actors -> Calls] /\ res \in [Actors -> Reservations \cup {None}]
      /\ status \in [Reservations -> ReservationStatuses]
  BY DEF Actors, Promoters, TypeInv, ControlOK, LocalsOK, StoresOK, TablesOK
<1>2. \A a \in Actors : pc[a] \in Calls1 \cup {"markDone", "markExpired", "savePaid"} =>
                           res[a] \in Reservations
  BY DEF ServiceInv, Serves, RowCalls, ExpiryCalls, PayCalls, Rows
<1>3. ASSUME NEW a \in Actors,
             \/ pc'[a] = pc[a] /\ res'[a] = res[a]
             \/ pc'[a] \notin Calls1 \cup {"markDone"}
      PROVE  Announces(a)'
  BY <1>2, <1>3 DEF AnnounceInv, Announces, KeepsFinal
<1>4. ASSUME NEW a \in Promoters, StartCron(a) \/ PromotionStep(a) \/ PromotionThrows(a)
      PROVE  AnnounceInv'
  <2>1. OthersStay(a) /\ pc'[a] \in PromotionCalls \cup {"idle"}
    BY <1>1, <1>4 DEF StartCron, PromotionStep, PromotionThrows, PromotionRejects,
       GetActiveCount, GetNextInQueue, DecrementSeats, SaveReservation, AddJob, SetActive,
       RemoveFromQueue, SetexActive, IncrActiveCount, UndoSeat, RestoreSeat, MarkSoldOut,
       RemoveSoldOut, Await, Loop, Goto, Return, Forget, OthersStay, locals, PromotionCalls,
       TryCalls, SoldOutCalls
  <2> QED
    BY <1>3, <2>1 DEF OthersStay, AnnounceInv, PromotionCalls, TryCalls, SoldOutCalls
<1>5. ASSUME NEW w \in Workers, TakeJob(w) \/ ExpiryStep(w) \/ ExpiryThrows(w)
      PROVE  AnnounceInv'
  <2> USE DEF ExpiryStep, ExpiryThrows, ExpiryRejects, TakeJob, FindReservation, SetLock,
       ExpireLock, IncrementSeats, MarkExpired, ExpireEntry, DelActive, DecrActiveCount, Await
  <2>1. OthersStay(w)
    BY <1>1, <1>5 DEF Goto, Return, Forget, TriggerPromotion, OthersStay, locals
  <2>2. Announces(w)'
    <3>1. CASE MarkExpired(w)
      BY <1>1, <1>2, <3>1 DEF Announces, Goto, locals
    <3>2. CASE ~MarkExpired(w)
      <4>1. pc'[w] # "markDone"
        BY <1>1, <1>5, <3>2 DEF Goto, Return, Forget, TriggerPromotion
      <4>2. ASSUME pc'[w] \in Calls1
            PROVE  pc[w] \in Calls1 /\ res'[w] = res[w]
        BY <1>1, <1>5, <3>2, <4>2 DEF Goto, Return, Forget, TriggerPromotion, locals
      <4> QED
        BY <1>1, <1>2, <4>1, <4>2 DEF AnnounceInv, Announces, KeepsFinal
    <3> QED
      BY <3>1, <3>2
  <2> QED
    BY <1>3, <2>1, <2>2 DEF OthersStay, AnnounceInv
<1>6. ASSUME NEW a \in Joiners \cup Payers,
             \/ a \in Joiners /\ JoinQueue(a)
             \/ a \in Payers /\ FindPayable(a)
             \/ RequestStep(a) \/ RequestThrows(a)
      PROVE  AnnounceInv'
  <2> USE DEF RequestStep, RequestThrows, RequestRejects, JoinQueue, FindPayable, FindEntry,
              AddToQueue, SaveEntry, SavePaid, MarkDone, Await
  <2>1. a \in Actors /\ OthersStay(a)
    BY <1>1, <1>6 DEF Goto, Return, Forget, OthersStay, locals
  <2>2. CASE SavePaid(a)
    <3>1. Announces(a)'
      BY <1>1, <1>2, <2>1, <2>2 DEF Announces, Goto, locals
    <3> QED
      BY <1>3, <2>1, <3>1 DEF OthersStay, AnnounceInv
  <2>3. CASE ~SavePaid(a)
    <3>1. pc'[a] \notin Calls1 \cup {"markDone"}
      BY <1>1, <1>6, <2>1, <2>3 DEF Goto, Return, Forget
    <3> QED
      BY <1>3, <2>1, <3>1 DEF OthersStay, AnnounceInv
  <2> QED
    BY <2>2, <2>3
<1>7. CASE Environment \/ UNCHANGED vars \/ OnlyMishap
  <2>1. \A a \in Actors : \/ pc'[a] = pc[a] /\ res'[a] = res[a]
                          \/ pc'[a] = "idle"
    BY <1>1, <1>7 DEF Environment, InitializeSeats, OpenSales, CloseSales, Lapse, LockTTL,
       StallRunning, StallAbandoned, KeyTTL, Crash, vars, OnlyMishap, locals
  <2> QED
    BY <1>3, <2>1 DEF AnnounceInv
<1> QED
  BY <1>1, <1>4, <1>5, <1>6, <1>7, ViewStep DEF Next

-----------------------------------------------------------------------------
(* Messages.                                                               *)

LEMMA Appended ==
    ASSUME NEW T, NEW s \in Seq(T), NEW e \in T
    PROVE  Append(s, e) \in Seq(T) /\ Content(Append(s, e)) = Content(s) \cup {e}
<1>1. /\ Append(s, e) \in Seq(T) /\ Len(s) \in Nat
      /\ Len(Append(s, e)) = Len(s) + 1
      /\ \A i \in 1 .. Len(s) : Append(s, e)[i] = s[i]
      /\ Append(s, e)[Len(s) + 1] = e
  OBVIOUS
<1>2. 1 .. (Len(s) + 1) = (1 .. Len(s)) \cup {Len(s) + 1}
  BY <1>1
<1> QED
  BY <1>1, <1>2 DEF Content

LEMMA HeadRemoved ==
    ASSUME NEW T, NEW s \in Seq(T), s # <<>>
    PROVE  /\ Tail(s) \in Seq(T) /\ Head(s) \in T
           /\ Content(s) = Content(Tail(s)) \cup {Head(s)}
<1>1. /\ Tail(s) \in Seq(T) /\ Head(s) \in T /\ Len(s) \in Nat \ {0}
      /\ Len(Tail(s)) = Len(s) - 1 /\ Head(s) = s[1]
      /\ \A i \in 1 .. (Len(s) - 1) : Tail(s)[i] = s[i + 1]
  OBVIOUS
<1>2. \A i \in 1 .. Len(s) : i = 1 \/ i - 1 \in 1 .. (Len(s) - 1)
  BY <1>1
<1>3. \A i \in 1 .. (Len(s) - 1) : i + 1 \in 1 .. Len(s)
  BY <1>1
<1>4. ASSUME NEW i \in 1 .. Len(s) PROVE s[i] \in Content(Tail(s)) \cup {Head(s)}
  <2>1. CASE i = 1
    BY <1>1, <2>1
  <2>2. CASE i # 1
    <3>1. i - 1 \in 1 .. (Len(s) - 1) /\ (i - 1) + 1 = i
      BY <1>1, <1>2, <2>2
    <3>2. Tail(s)[i - 1] = s[i]
      BY <1>1, <3>1
    <3> QED
      BY <1>1, <3>1, <3>2 DEF Content
  <2> QED
    BY <2>1, <2>2
<1>5. Content(Tail(s)) \subseteq Content(s)
  BY <1>1, <1>3 DEF Content
<1>6. Head(s) \in Content(s)
  BY <1>1 DEF Content
<1> QED
  BY <1>1, <1>4, <1>5, <1>6 DEF Content

LEMMA NoContent == Content(<<>>) = {}
  BY DEF Content

\* An emit reaches the user it is for, if he is connected, and nobody else.
LEMMA Emitted ==
    ASSUME ViewTypes, NEW u, NEW event \in Events, NEW r \in Reservations \cup {None},
           Tell(u, event, r)
    PROVE  /\ inbox' \in [Users -> Seq(Messages)]
           /\ \A v \in Users :
                Mail(v)' = IF v = u /\ u \in connected
                           THEN Mail(v) \cup {[event |-> event, res |-> r]} ELSE Mail(v)
<1> DEFINE m == [event |-> event, res |-> r]
<1>1. m \in Messages
  BY DEF Messages
<1>2. CASE u \notin connected
  BY <1>2 DEF Tell, ViewTypes, Mail
<1>3. CASE u \in connected
  <2>1. u \in Users /\ inbox[u] \in Seq(Messages)
    BY <1>3 DEF ViewTypes
  <2>2. inbox' = [inbox EXCEPT ![u] = Append(inbox[u], m)]
    BY <1>3, <2>1 DEF Tell, ViewTypes
  <2> HIDE DEF m
  <2>3. /\ Append(inbox[u], m) \in Seq(Messages)
        /\ Content(Append(inbox[u], m)) = Content(inbox[u]) \cup {m}
    BY <1>1, <2>1, Appended
  <2>4. inbox' \in [Users -> Seq(Messages)]
    BY <2>1, <2>2, <2>3 DEF ViewTypes
  <2>5. Content(inbox'[u]) = Content(inbox[u]) \cup {m}
    BY <2>1, <2>2, <2>3 DEF ViewTypes
  <2>6. \A v \in Users \ {u} : inbox'[v] = inbox[v]
    BY <2>2 DEF ViewTypes
  <2>7. \A v \in Users : Mail(v)' = IF v = u THEN Mail(v) \cup {m} ELSE Mail(v)
    BY <2>5, <2>6 DEF Mail
  <2> QED
    BY <1>3, <2>4, <2>7 DEF m
<1> QED
  BY <1>2, <1>3

\* What a receiver takes from his inbox.
LEMMA Received ==
    ASSUME ViewTypes, NEW u \in Users, Receive(u)
    PROVE  /\ inbox' \in [Users -> Seq(Messages)]
           /\ Head(inbox[u]) \in Messages /\ Head(inbox[u]) \in Mail(u)
           /\ Mail(u) = Mail(u)' \cup {Head(inbox[u])}
           /\ \A v \in Users \ {u} : Mail(v)' = Mail(v)
<1>1. /\ inbox[u] \in Seq(Messages) /\ inbox[u] # <<>>
      /\ inbox' = [inbox EXCEPT ![u] = Tail(inbox[u])]
  BY DEF Receive, ViewTypes
<1>2. /\ Tail(inbox[u]) \in Seq(Messages) /\ Head(inbox[u]) \in Messages
      /\ Content(inbox[u]) = Content(Tail(inbox[u])) \cup {Head(inbox[u])}
  BY <1>1, HeadRemoved
<1>3. inbox' \in [Users -> Seq(Messages)]
  BY <1>1, <1>2 DEF ViewTypes
<1>4. inbox'[u] = Tail(inbox[u]) /\ \A v \in Users \ {u} : inbox'[v] = inbox[v]
  BY <1>1 DEF ViewTypes
<1> QED
  BY <1>2, <1>3, <1>4 DEF Mail

\* A lost socket loses the messages under way to it.
LEMMA Dropped ==
    ASSUME ViewTypes, NEW u \in Users, Disconnect(u)
    PROVE  /\ inbox' \in [Users -> Seq(Messages)]
           /\ Mail(u)' = {} /\ \A v \in Users \ {u} : Mail(v)' = Mail(v)
<1>1. inbox' = [inbox EXCEPT ![u] = <<>>] /\ <<>> \in Seq(Messages)
  BY DEF Disconnect
<1>2. inbox' \in [Users -> Seq(Messages)]
  BY <1>1 DEF ViewTypes
<1>3. inbox'[u] = <<>> /\ \A v \in Users \ {u} : inbox'[v] = inbox[v]
  BY <1>1 DEF ViewTypes
<1> QED
  BY <1>2, <1>3, NoContent DEF Mail

\* The messages of a promotion, an expiration and a payment.
Promoted(a) == Promote(a) /\ pc[a] = "incrActiveCount"
Expired(w) == Expire(w) /\ pc'[w] = "getActiveCount"
Emits == \/ \E a \in Promoters : Promoted(a)
         \/ \E w \in Workers : Expired(w)
         \/ \E p \in Payers : FinishPayment(p)
Socket == \E u \in Users : Connect(u) \/ Disconnect(u) \/ Receive(u) \/ Confirm(u)

\* Every other step of the sale leaves the sockets' messages and the pages.
LEMMA QuietView ==
    ASSUME [ViewNext]_viewVars, ~Emits, ~Socket
    PROVE  UNCHANGED <<connected, inbox, confirmed, page>>
<1>1. ASSUME NEW a \in Promoters, Promote(a) PROVE UNCHANGED <<connected, inbox, confirmed, page>>
  BY <1>1 DEF Promote, Promoted, Emits
<1>2. ASSUME NEW w \in Workers, Expire(w) PROVE UNCHANGED <<connected, inbox, confirmed, page>>
  BY <1>2 DEF Expire, Expired, Emits
<1> QED
  BY <1>1, <1>2 DEF ViewNext, Emits, Socket, AskToJoin, AskToPay, Silent, sockets, viewVars

\* What is emitted, to whom: a user with the reservation he holds.
LEMMA Emissions ==
    ASSUME TypeInv, ServiceInv, AnnounceInv, ViewTypes, Emits
    PROVE  \E u \in Users, event \in Events, r \in Rows :
             /\ Tell(u, event, r)
             /\ owner[r] = u
             /\ event = "reservation:expired" => status[r] = "EXPIRED"
             /\ event = "reservation:paid" => status[r] = "PAID"
             /\ confirmed' \subseteq confirmed \cup
                  (IF event = "reservation:paid" THEN {u} ELSE {})
             /\ UNCHANGED <<connected, interrupted, page>>
<1>1. Promoters \subseteq Actors /\ Payers \subseteq Actors /\ Workers \subseteq Actors
  BY DEF Actors, Promoters
<1>2. ASSUME NEW a \in Promoters, Promoted(a)
      PROVE  /\ Tell(user[a], "queue:active", res[a])
             /\ user[a] \in Users /\ res[a] \in Rows /\ owner[res[a]] = user[a]
             /\ UNCHANGED <<connected, confirmed, interrupted, page>>
  BY <1>1, <1>2 DEF Promoted, Promote, ServiceInv, Serves, BlankCalls, RowCalls, AfterSave,
     TryCalls
<1>3. ASSUME NEW w \in Workers, Expired(w)
      PROVE  /\ Tell(user[w], "reservation:expired", res[w])
             /\ user[w] \in Users /\ res[w] \in Rows /\ owner[res[w]] = user[w]
             /\ status[res[w]] = "EXPIRED"
             /\ UNCHANGED <<connected, confirmed, interrupted, page>>
  <2>1. pc[w] \in {"delActive", "decrActiveCount"}
    BY <1>1, <1>3 DEF Expired, Expire, ExpiryStep, FindReservation, SetLock, ExpireLock,
       IncrementSeats, MarkExpired, ExpireEntry, DelActive, DecrActiveCount, Await, Goto,
       Return, Forget, TypeInv, ControlOK, LocalsOK
  <2> QED
    BY <1>1, <1>3, <2>1 DEF Expired, Expire, ServiceInv, Serves, BlankCalls, RowCalls,
       ExpiryCalls, AnnounceInv, Announces
<1>4. ASSUME NEW p \in Payers, FinishPayment(p)
      PROVE  /\ Tell(user[p], "reservation:paid", res[p])
             /\ user[p] \in Users /\ res[p] \in Rows /\ owner[res[p]] = user[p]
             /\ status[res[p]] = "PAID"
             /\ confirmed' = confirmed \cup {user[p]}
             /\ UNCHANGED <<connected, interrupted, page>>
  <2>1. pc[p] = "markDone"
    BY <1>4 DEF FinishPayment, MarkDone
  <2> QED
    BY <1>1, <1>4, <2>1 DEF FinishPayment, ServiceInv, Serves, BlankCalls, RowCalls,
       PayCalls, AnnounceInv, Announces
<1> QED
  BY <1>2, <1>3, <1>4 DEF Emits, Events

LEMMA ViewTypesKept ==
    ASSUME TypeInv, ServiceInv, AnnounceInv, ViewTypes, [ViewNext]_viewVars
    PROVE  ViewTypes'
<1>1. CASE Emits
  <2>1. PICK u \in Users, event \in Events, r \in Rows :
             /\ Tell(u, event, r)
             /\ confirmed' \subseteq confirmed \cup {u}
             /\ UNCHANGED <<connected, interrupted, page>>
    BY <1>1, Emissions
  <2>2. inbox' \in [Users -> Seq(Messages)]
    BY <2>1, Emitted DEF Rows
  <2> QED
    BY <2>1, <2>2 DEF ViewTypes, page
<1>2. ASSUME NEW u \in Users, Connect(u) PROVE ViewTypes'
  BY <1>2 DEF Connect, ViewTypes, page
<1>3. ASSUME NEW u \in Users, Disconnect(u) PROVE ViewTypes'
  <2>1. inbox' \in [Users -> Seq(Messages)]
    BY <1>3, Dropped
  <2> QED
    BY <1>3, <2>1 DEF Disconnect, ViewTypes, page
<1>4. ASSUME NEW u \in Users, Receive(u) PROVE ViewTypes'
  <2>1. inbox' \in [Users -> Seq(Messages)] /\ Head(inbox[u]) \in Messages
    BY <1>4, Received
  <2>2. Head(inbox[u]).res \in Reservations \cup {None}
    BY <2>1 DEF Messages
  <2> QED
    BY <1>4, <2>1, <2>2 DEF Receive, ViewTypes
<1>5. ASSUME NEW u \in Users, Confirm(u) PROVE ViewTypes'
  BY <1>5 DEF Confirm, ViewTypes
<1>6. CASE ~Emits /\ ~Socket
  <2>1. UNCHANGED <<connected, inbox, confirmed, page>>
    BY <1>6, QuietView
  <2>2. interrupted' \subseteq Users
    <3>1. ASSUME NEW j \in Joiners, AskToJoin(j) PROVE interrupted' \subseteq Users
      <4>1. user'[j] \in Users
        BY <3>1 DEF AskToJoin, JoinQueue, Actors, TypeInv, ControlOK, LocalsOK
      <4> QED
        BY <3>1, <4>1 DEF AskToJoin, ViewTypes
    <3> QED
      BY <1>6, <3>1 DEF ViewTypes, ViewNext, Promote, Expire, Emits, Socket, AskToPay,
         Silent, sockets, viewVars
  <2> QED
    BY <2>1, <2>2 DEF ViewTypes, page
<1> QED
  BY <1>1, <1>2, <1>3, <1>4, <1>5, <1>6 DEF Socket

-----------------------------------------------------------------------------
(* What the page shows.                                                    *)

\* What was true stays true: a step may only add true messages, make the page
\* know a row of its user, and show what has happened to one.
LEMMA PageKept ==
    ASSUME TypeInv, ViewTypes, PageInv, Settled,
           \A u \in Users : \A m \in Mail(u)' : m \in Mail(u) \/ IsTrue(m, u),
           \A u \in Users : \/ known'[u] = known[u]
                            \/ known'[u] \in Rows /\ owner[known'[u]] = u,
           \A u \in Users : \/ shown'[u] \in {shown[u], "PENDING_PAYMENT"}
                            \/ HasOutcome(u, shown'[u]),
           \A u \in confirmed' : u \in confirmed \/ HasOutcome(u, "PAID")
    PROVE  PageInv'
<1>1. ASSUME NEW u \in Users, NEW s \in {"PAID", "EXPIRED"}, HasOutcome(u, s)
      PROVE  HasOutcome(u, s)'
  <2>1. PICK r \in Rows : owner[r] = u /\ status[r] = s
    BY <1>1 DEF HasOutcome
  <2>2. r \in Rows' /\ owner'[r] = u /\ status'[r] = s
    BY <1>1, <2>1 DEF Settled, KeepsFinal, Rows
  <2> QED
    BY <2>2 DEF HasOutcome
<1>2. ASSUME NEW u \in Users, NEW m, IsTrue(m, u) PROVE IsTrue(m, u)'
  <2>1. m.res \in Rows' /\ owner'[m.res] = u /\ m.res \in Reservations
    BY <1>2 DEF IsTrue, Settled, Rows
  <2>2. status[m.res] \in {"PAID", "EXPIRED"} => status'[m.res] = status[m.res]
    BY <2>1 DEF Settled, KeepsFinal
  <2> QED
    BY <1>2, <2>1, <2>2 DEF IsTrue
<1>3. ASSUME NEW u \in Users, NEW m \in Mail(u)' PROVE IsTrue(m, u)'
  BY <1>2, <1>3 DEF PageInv
<1>4. ASSUME NEW u \in Users, known'[u] # None
      PROVE  known'[u] \in Rows' /\ owner'[known'[u]] = u
  BY <1>4 DEF PageInv, Settled
<1>5. ASSUME NEW u \in Users, shown'[u] \in {"PAID", "EXPIRED"} PROVE HasOutcome(u, shown[u])'
  <2>1. HasOutcome(u, shown'[u])
    BY <1>5 DEF PageInv
  <2> QED
    BY <1>1, <1>5, <2>1 DEF HasOutcome
<1>6. ASSUME NEW u \in Users, u \in confirmed' PROVE HasOutcome(u, "PAID")'
  BY <1>1, <1>6 DEF PageInv
<1> QED
  BY <1>3, <1>4, <1>5, <1>6 DEF PageInv

LEMMA PagePreserved ==
    ASSUME TypeInv, ServiceInv, AnnounceInv, ViewTypes, PageInv, Settled,
           [ViewNext]_viewVars
    PROVE  PageInv'
<1>1. CASE Emits
  <2>1. PICK u \in Users, event \in Events, r \in Rows :
             /\ Tell(u, event, r)
             /\ owner[r] = u
             /\ event = "reservation:expired" => status[r] = "EXPIRED"
             /\ event = "reservation:paid" => status[r] = "PAID"
             /\ confirmed' \subseteq confirmed \cup
                  (IF event = "reservation:paid" THEN {u} ELSE {})
             /\ UNCHANGED <<connected, interrupted, page>>
    BY <1>1, Emissions
  <2> DEFINE m == [event |-> event, res |-> r]
  <2>2. IsTrue(m, u)
    BY <2>1 DEF IsTrue
  <2>3. \A v \in Users : Mail(v)' = IF v = u /\ u \in connected
                                    THEN Mail(v) \cup {m} ELSE Mail(v)
    BY <2>1, Emitted DEF Rows
  <2>4. \A v \in Users : \A n \in Mail(v)' : n \in Mail(v) \/ IsTrue(n, v)
    <3> HIDE DEF m
    <3> QED
      BY <2>2, <2>3
  <2>5. \A v \in confirmed' : v \in confirmed \/ HasOutcome(v, "PAID")
    BY <2>1 DEF HasOutcome
  <2>6. UNCHANGED <<known, shown>>
    BY <2>1 DEF page
  <2> QED
    BY <2>4, <2>5, <2>6, PageKept
<1>2. ASSUME NEW u \in Users, Connect(u) PROVE PageInv'
  <2>1. UNCHANGED <<inbox, confirmed, known, shown>>
    BY <1>2 DEF Connect, page
  <2> QED
    BY <2>1, PageKept DEF Mail
<1>3. ASSUME NEW u \in Users, Disconnect(u) PROVE PageInv'
  <2>1. /\ \A v \in Users : Mail(v)' \subseteq Mail(v)
        /\ UNCHANGED <<confirmed, known, shown>>
    BY <1>3, Dropped DEF Disconnect, page
  <2> QED
    BY <2>1, PageKept
<1>4. ASSUME NEW u \in Users, Receive(u) PROVE PageInv'
  <2> DEFINE m == Head(inbox[u])
  <2>1. m \in Mail(u) /\ \A v \in Users : Mail(v)' \subseteq Mail(v)
    BY <1>4, Received
  <2>2. IsTrue(m, u)
    BY <2>1 DEF PageInv
  <2>3. /\ \A v \in Users : \/ known'[v] = known[v]
                            \/ known'[v] \in Rows /\ owner[known'[v]] = v
        /\ \A v \in Users : \/ shown'[v] \in {shown[v], "PENDING_PAYMENT"}
                            \/ HasOutcome(v, shown'[v])
    BY <1>4, <2>2 DEF Receive, ViewTypes, IsTrue, HasOutcome
  <2>4. confirmed' = confirmed
    BY <1>4 DEF Receive
  <2> QED
    BY <2>1, <2>3, <2>4, PageKept
<1>5. ASSUME NEW u \in Users, Confirm(u) PROVE PageInv'
  <2>1. /\ HasOutcome(u, "PAID")
        /\ shown' = [shown EXCEPT ![u] = "PAID"]
        /\ confirmed' \subseteq confirmed
        /\ UNCHANGED <<inbox, known>>
    BY <1>5 DEF Confirm, PageInv
  <2>2. \A v \in Users : \/ shown'[v] \in {shown[v], "PENDING_PAYMENT"}
                         \/ HasOutcome(v, shown'[v])
    BY <2>1 DEF ViewTypes
  <2> QED
    BY <2>1, <2>2, PageKept DEF Mail
<1>6. CASE ~Emits /\ ~Socket
  <2>1. UNCHANGED <<inbox, confirmed, known, shown>>
    BY <1>6, QuietView DEF page
  <2> QED
    BY <2>1, PageKept DEF Mail
<1> QED
  BY <1>1, <1>2, <1>3, <1>4, <1>5, <1>6 DEF Socket

\* the invariant of the sale with its pages
ViewInv == TypeInv /\ ServiceInv /\ OutcomeInv /\ AnnounceInv /\ ViewTypes /\ PageInv

LEMMA ViewInitially ==
    ASSUME ViewInit
    PROVE  ViewInv
<1>1. TypeInv /\ ServiceInv /\ OutcomeInv /\ AnnounceInv
  BY TypesInitially, ServiceInitially DEF ViewInit, Init, OutcomeInv, Decides, ExpiryCalls,
     MarkCalls, AnnounceInv, Announces
<1>2. ViewTypes
  BY DEF ViewInit, ViewTypes
<1>3. \A u \in Users : Mail(u) = {}
  BY NoContent DEF ViewInit, Mail
<1>4. PageInv
  BY <1>3 DEF ViewInit, PageInv
<1> QED
  BY <1>1, <1>2, <1>4 DEF ViewInv

LEMMA ViewPreserved ==
    ASSUME Punctual, ViewInv, [ViewNext]_viewVars
    PROVE  ViewInv' /\ Settled
<1>1. OutcomeInv' /\ Settled
  BY ViewSettled DEF ViewInv
<1>2. TypeInv' /\ ServiceInv'
  BY ViewBase DEF ViewInv
<1>3. AnnounceInv'
  BY <1>1, ViewAnnounces DEF ViewInv, Settled
<1>4. ViewTypes' /\ PageInv'
  BY <1>1, ViewTypesKept, PagePreserved DEF ViewInv
<1> QED
  BY <1>1, <1>2, <1>3, <1>4 DEF ViewInv

\* A page that shows PAID or EXPIRED shows what became of the reservation it
\* knows, whatever is under way, lost, late or failed: a message about another
\* reservation cannot reach it, because there is none (requirements 6.4, 7.4).
THEOREM PageShowsTruth ==
    ASSUME Punctual
    PROVE  ViewSpec /\ []OneRowEach => []PageTruthful
<1>1. ViewInit => ViewInv
  BY ViewInitially
<1>2. ViewInv /\ [ViewNext]_viewVars => ViewInv'
  BY ViewPreserved
<1>3. ViewInv /\ OneRowEach => PageTruthful
  <2> SUFFICES ASSUME PageInv, OneRowEach, NEW u \in Users, known[u] # None,
                      shown[u] \in {"PAID", "EXPIRED"}
               PROVE  status[known[u]] = shown[u]
    BY DEF ViewInv, PageTruthful
  <2>1. PICK r \in Rows : owner[r] = u /\ status[r] = shown[u]
    BY DEF PageInv, HasOutcome
  <2>2. known[u] = r
    BY <2>1 DEF PageInv, OneRowEach
  <2> QED
    BY <2>1, <2>2
<1> QED
  BY <1>1, <1>2, <1>3, PTL DEF ViewSpec

-----------------------------------------------------------------------------
(* Whom the page tells.                                                    *)

\* a promotion that saved a reservation also announces it
Announced == Faults \cap (AfterSave \cup {"crash"}) = {}

\* users who were connected when they asked to join, and are no more or still
Reached == connected \cup interrupted

\* whoever is queued, promoted or promoted already has asked to join
ReachInv == /\ Queued \subseteq Reached
            /\ \A j \in Joiners : pc[j] # "idle" => user[j] \in Reached
            /\ \A a \in Promoters : pc[a] \in HeadCalls => user[a] \in Reached
            /\ \A r \in Rows : owner[r] \in Reached

\* the id of r has reached the page of its owner or is still under way
Handing(a, r) == pc[a] \in AfterSave /\ res[a] = r
Told(r) == \/ \E a \in Promoters : Handing(a, r)
           \/ [event |-> "queue:active", res |-> r] \in Mail(owner[r])
           \/ known[owner[r]] = r /\ shown[owner[r]] = "PENDING_PAYMENT"

ToldInv == \A r \in Pending \ lapsed : owner[r] \in connected \ interrupted => Told(r)

\* A socket that is lost is remembered as interrupted.
LEMMA ReachedGrows ==
    ASSUME [ViewNext]_viewVars
    PROVE  Reached \subseteq Reached' /\ interrupted \subseteq interrupted'
<1>1. CASE UNCHANGED viewVars
  BY <1>1 DEF viewVars, sockets, Reached
<1>2. CASE ViewNext
  BY <1>2 DEF ViewNext, Promote, Expire, AskToJoin, AskToPay, FinishPayment, Connect,
     Disconnect, Receive, Confirm, Silent, sockets, Reached
<1> QED
  BY <1>1, <1>2

\* A step of one handler that queues nobody new and inserts a row at most for
\* the user it works for.
LEMMA ReachKept ==
    ASSUME TypeInv, ServiceInv, ReachInv, Reached \subseteq Reached', NEW a \in Actors,
           OthersHold(a), \A u \in Users : score[u] = 0 => score'[u] = 0,
           \A r \in Rows' : (r \in Rows /\ owner'[r] = owner[r]) \/ owner'[r] \in Reached,
           a \in Joiners /\ pc'[a] # "idle" => user'[a] \in Reached',
           a \in Promoters /\ pc'[a] \in HeadCalls => user'[a] \in Reached'
    PROVE  ReachInv'
<1>1. Joiners \subseteq Actors /\ Promoters \subseteq Actors
  BY DEF Actors
<1>2. Queued' \subseteq Reached'
  BY DEF Queued, ReachInv
<1>3. \A j \in Joiners : pc'[j] # "idle" => user'[j] \in Reached'
  BY <1>1 DEF OthersHold, ReachInv
<1>4. \A b \in Promoters : pc'[b] \in HeadCalls => user'[b] \in Reached'
  BY <1>1 DEF OthersHold, ReachInv
<1>5. \A r \in Rows' : owner'[r] \in Reached'
  BY DEF ReachInv
<1> QED
  BY <1>2, <1>3, <1>4, <1>5 DEF ReachInv, HeadCalls, PromotionCalls, TryCalls, SoldOutCalls

LEMMA PromotionReach ==
    ASSUME TypeInv, ServiceInv, ReachInv, Reached \subseteq Reached', NEW a \in Promoters,
           StartCron(a) \/ PromotionStep(a) \/ PromotionThrows(a)
    PROVE  ReachInv'
<1> USE DEF StartCron, PromotionStep, PromotionThrows, PromotionRejects, GetActiveCount,
            GetNextInQueue, DecrementSeats, SaveReservation, AddJob, SetActive,
            RemoveFromQueue, SetexActive, IncrActiveCount, UndoSeat, RestoreSeat,
            MarkSoldOut, RemoveSoldOut, Await
<1>1. /\ a \in Actors /\ a \notin Joiners
      /\ pc \in [Actors -> Calls] /\ user \in [Actors -> Users \cup {None}]
      /\ res \in [Actors -> Reservations \cup {None}]
      /\ score \in [Users -> Nat]
      /\ status \in [Reservations -> ReservationStatuses]
      /\ owner \in [Reservations -> Users \cup {None}]
  BY ActorAssumption DEF Actors, TypeInv, ControlOK, LocalsOK, StoresOK, TablesOK, CacheOK
<1>2. \A u \in Users : score[u] = 0 => score'[u] = 0
  BY <1>1 DEF cache, queue, ZRem
<1>3. OthersHold(a)
  BY <1>1 DEF Loop, Goto, Return, Forget, OthersHold, locals
<1>4. ASSUME pc'[a] \in HeadCalls PROVE user'[a] \in Reached
  <2>1. CASE GetNextInQueue(a)
    <3>1. user'[a] \in Queued
      BY <1>1, <1>4, <2>1 DEF IsNext, Return, Forget, HeadCalls, PromotionCalls, TryCalls,
         SoldOutCalls
    <3> QED
      BY <3>1 DEF ReachInv
  <2>2. CASE ~GetNextInQueue(a)
    <3>1. user'[a] = user[a] /\ pc[a] \in HeadCalls
      BY <1>1, <1>4, <2>2 DEF Loop, Goto, Return, Forget, locals, HeadCalls,
         PromotionCalls, TryCalls, SoldOutCalls
    <3> QED
      BY <3>1 DEF ReachInv
  <2> QED
    BY <2>1, <2>2
<1>5. \A r \in Rows' : (r \in Rows /\ owner'[r] = owner[r]) \/ owner'[r] \in Reached
  <2>1. CASE SaveReservation(a)
    <3>1. user[a] \in Reached
      BY <2>1 DEF ReachInv, HeadCalls, PromotionCalls, TryCalls
    <3> QED
      BY <1>1, <2>1, <3>1 DEF Rows
  <2>2. CASE ~SaveReservation(a)
    BY <2>2 DEF tables, Rows
  <2> QED
    BY <2>1, <2>2
<1> QED
  BY <1>1, <1>2, <1>3, <1>4, <1>5, ReachKept

LEMMA ExpiryReach ==
    ASSUME TypeInv, ServiceInv, ReachInv, Reached \subseteq Reached', NEW w \in Workers,
           TakeJob(w) \/ ExpiryStep(w) \/ ExpiryThrows(w)
    PROVE  ReachInv'
<1> USE DEF ExpiryStep, ExpiryThrows, ExpiryRejects, TakeJob, FindReservation, SetLock,
            ExpireLock, IncrementSeats, MarkExpired, ExpireEntry, DelActive,
            DecrActiveCount, Await
<1>1. /\ w \in Actors /\ w \notin Joiners
      /\ pc \in [Actors -> Calls] /\ user \in [Actors -> Users \cup {None}]
      /\ res \in [Actors -> Reservations \cup {None}]
      /\ status \in [Reservations -> ReservationStatuses]
  BY ActorAssumption DEF Actors, Promoters, TypeInv, ControlOK, LocalsOK, StoresOK, TablesOK
<1>2. UNCHANGED <<score, owner>>
  BY DEF cache, queue, tables
<1>3. Rows' = Rows
  <2>1. pc[w] = "markExpired" => res[w] \in Rows
    BY <1>1 DEF ServiceInv, Serves, RowCalls, ExpiryCalls
  <2> QED
    BY <1>1, <2>1 DEF Rows, tables
<1>4. OthersHold(w)
  BY <1>1 DEF Goto, Return, Forget, TriggerPromotion, OthersHold, locals
<1>5. pc'[w] \notin HeadCalls
  BY <1>1 DEF Goto, Return, Forget, TriggerPromotion, HeadCalls, PromotionCalls, TryCalls,
     SoldOutCalls
<1> QED
  BY <1>1, <1>2, <1>3, <1>4, <1>5, ReachKept

LEMMA RequestReach ==
    ASSUME TypeInv, ServiceInv, ReachInv, Reached \subseteq Reached',
           NEW a \in Joiners \cup Payers,
           \/ a \in Joiners /\ JoinQueue(a) /\ user'[a] \in Reached'
           \/ a \in Payers /\ FindPayable(a)
           \/ RequestStep(a) \/ RequestThrows(a)
    PROVE  ReachInv'
<1> USE DEF RequestStep, RequestThrows, RequestRejects, JoinQueue, FindPayable, FindEntry,
            AddToQueue, SaveEntry, SavePaid, MarkDone, Await
<1>1. /\ a \in Actors /\ a \notin Promoters
      /\ Joiners \subseteq Actors /\ Promoters \subseteq Actors
      /\ pc \in [Actors -> Calls] /\ user \in [Actors -> Users \cup {None}]
      /\ res \in [Actors -> Reservations \cup {None}]
      /\ score \in [Users -> Nat] /\ status \in [Reservations -> ReservationStatuses]
      /\ a \in Payers => a \notin Joiners
      /\ a \in Joiners => pc[a] \in JoinCalls \cup {"idle"}
      /\ a \in Payers => pc[a] \in PayCalls \cup {"idle"}
  BY ActorAssumption DEF Actors, TypeInv, ControlOK, LocalsOK, HandlersOK, StoresOK,
     TablesOK, CacheOK
<1>2. UNCHANGED owner
  BY DEF tables
<1>3. Rows' = Rows
  <2>1. pc[a] = "savePaid" => res[a] \in Rows
    BY <1>1 DEF ServiceInv, Serves, RowCalls, PayCalls
  <2> QED
    BY <1>1, <2>1 DEF Rows, tables
<1>4. OthersHold(a)
  BY <1>1 DEF Goto, Return, Forget, OthersHold, locals
<1>5. a \in Joiners /\ pc'[a] # "idle" => user'[a] \in Reached'
  BY <1>1 DEF Goto, Return, Forget, locals, ReachInv, PayCalls, JoinCalls
<1>6. CASE a \in Joiners /\ AddToQueue(a)
  <2>1. user[a] \in Users /\ user[a] \in Reached
    BY <1>1, <1>6 DEF ServiceInv, Serves, BlankCalls, ReachInv
  <2>2. \A u \in Users : u # user[a] => score'[u] = score[u]
    BY <1>1, <1>6 DEF ZAdd
  <2>3. Queued' \subseteq Reached'
    BY <2>1, <2>2 DEF Queued, ReachInv
  <2>4. \A j \in Joiners : pc'[j] # "idle" => user'[j] \in Reached'
    BY <1>1, <1>4, <1>5 DEF OthersHold, ReachInv
  <2>5. \A b \in Promoters : pc'[b] \in HeadCalls => user'[b] \in Reached'
    BY <1>1, <1>4 DEF OthersHold, ReachInv
  <2>6. \A r \in Rows' : owner'[r] \in Reached'
    BY <1>2, <1>3 DEF ReachInv
  <2> QED
    BY <2>3, <2>4, <2>5, <2>6 DEF ReachInv, HeadCalls, PromotionCalls, TryCalls, SoldOutCalls
<1>7. CASE ~(a \in Joiners /\ AddToQueue(a))
  <2>1. UNCHANGED score
    BY <1>1, <1>7 DEF cache, queue, PayCalls
  <2> QED
    BY <1>1, <1>2, <1>3, <1>4, <1>5, <2>1, ReachKept
<1> QED
  BY <1>6, <1>7

LEMMA ReachPreserved ==
    ASSUME TypeInv, ServiceInv, ReachInv, [ViewNext]_viewVars
    PROVE  ReachInv'
<1>1. Reached \subseteq Reached' /\ Crons \subseteq Promoters
  BY ReachedGrows DEF Promoters
<1>2. ASSUME NEW a \in Promoters, StartCron(a) \/ PromotionStep(a) \/ PromotionThrows(a)
      PROVE  ReachInv'
  BY <1>1, <1>2, PromotionReach
<1>3. ASSUME NEW w \in Workers, TakeJob(w) \/ ExpiryStep(w) \/ ExpiryThrows(w)
      PROVE  ReachInv'
  BY <1>1, <1>3, ExpiryReach
<1>4. ASSUME NEW a \in Joiners \cup Payers, RequestStep(a) \/ RequestThrows(a)
      PROVE  ReachInv'
  BY <1>1, <1>4, RequestReach
<1>5. ASSUME NEW j \in Joiners, AskToJoin(j) PROVE ReachInv'
  <2>1. JoinQueue(j) /\ user'[j] \in Reached'
    BY <1>5 DEF AskToJoin, Reached
  <2> QED
    BY <1>1, <2>1, RequestReach
<1>6. ASSUME NEW p \in Payers, AskToPay(p) PROVE ReachInv'
  BY <1>1, <1>6, RequestReach DEF AskToPay
<1>7. CASE Environment \/ UNCHANGED vars \/ OnlyMishap
  <2>1. /\ UNCHANGED <<score, status, owner>>
        /\ \A a \in Actors : \/ pc'[a] = pc[a] /\ user'[a] = user[a]
                             \/ pc'[a] = "idle"
    BY <1>7 DEF Environment, InitializeSeats, OpenSales, CloseSales, Lapse, LockTTL,
       StallRunning, StallAbandoned, KeyTTL, Crash, vars, OnlyMishap, cache, queue, tables,
       locals, TypeInv, ControlOK, LocalsOK
  <2> QED
    BY <1>1, <2>1 DEF ReachInv, Queued, Rows, Actors, HeadCalls, PromotionCalls, TryCalls,
       SoldOutCalls
<1>8. ASSUME NEW u \in Users, Connect(u) \/ Disconnect(u) \/ Receive(u) \/ Confirm(u)
      PROVE  UNCHANGED vars \/ OnlyMishap
  BY <1>8 DEF Connect, Disconnect, Receive, Confirm, Mishap, OnlyMishap, TypeInv, StoresOK,
     WorldOK
<1>9. ASSUME NEW p \in Payers, FinishPayment(p) PROVE ReachInv'
  BY <1>4, <1>9 DEF FinishPayment, RequestStep
<1> QED
  BY <1>1, <1>2, <1>3, <1>4, <1>5, <1>6, <1>7, <1>8, <1>9
     DEF ViewNext, Promote, Expire, Silent, viewVars

\* A promotion that saved a reservation goes on to announce it.
LEMMA HandingKept ==
    ASSUME Announced, TypeInv, NEW a \in Promoters, NEW r, Handing(a, r),
           [ViewNext]_viewVars, ~Promoted(a)
    PROVE  Handing(a, r)'
<1>1. /\ Promoters \subseteq Actors /\ Joiners \subseteq Actors /\ Payers \subseteq Actors
      /\ Workers \subseteq Promoters /\ Crons \subseteq Promoters
      /\ pc \in [Actors -> Calls] /\ res \in [Actors -> Reservations \cup {None}]
      /\ pc[a] \in AfterSave /\ pc[a] \in PromotionCalls /\ res[a] = r
      /\ a \notin Joiners \cup Payers
  BY ActorAssumption DEF Actors, Promoters, TypeInv, ControlOK, LocalsOK, Handing, AfterSave,
     PromotionCalls
<1>2. ASSUME NEW b \in Actors, b # a, OthersStay(b) PROVE Handing(a, r)'
  BY <1>1, <1>2 DEF OthersStay, Handing
<1>3. ASSUME NEW b \in Promoters, StartCron(b) \/ Promote(b) \/ PromotionThrows(b)
      PROVE  Handing(a, r)'
  <2> USE DEF StartCron, PromotionStep, PromotionThrows, PromotionRejects, GetActiveCount,
       GetNextInQueue, DecrementSeats, SaveReservation, AddJob, SetActive, RemoveFromQueue,
       SetexActive, IncrActiveCount, UndoSeat, RestoreSeat, MarkSoldOut, RemoveSoldOut,
       Await, Promote
  <2>1. CASE b = a
    <3>1. ~PromotionThrows(a)
      BY <1>1 DEF Mishap, Announced
    <3>2. Promote(a) => pc[a] # "incrActiveCount"
      BY DEF Promoted
    <3> QED
      BY <1>1, <1>3, <2>1, <3>1, <3>2 DEF Goto, locals, Handing, AfterSave, TryCalls
  <2>2. CASE b # a
    <3>1. OthersStay(b)
      BY <1>1, <1>3 DEF Loop, Goto, Return, Forget, OthersStay, locals
    <3> QED
      BY <1>1, <1>2, <2>2, <3>1
  <2> QED
    BY <2>1, <2>2
<1>4. ASSUME NEW w \in Workers, TakeJob(w) \/ ExpiryStep(w) \/ ExpiryThrows(w)
      PROVE  Handing(a, r)'
  <2> USE DEF ExpiryStep, ExpiryThrows, ExpiryRejects, TakeJob, FindReservation, SetLock,
       ExpireLock, IncrementSeats, MarkExpired, ExpireEntry, DelActive, DecrActiveCount, Await
  <2>1. w # a
    BY <1>1, <1>4 DEF AfterSave, TryCalls, ExpiryCalls
  <2>2. OthersStay(w)
    BY <1>1, <1>4 DEF Goto, Return, Forget, TriggerPromotion, OthersStay, locals
  <2> QED
    BY <1>1, <1>2, <2>1, <2>2
<1>5. ASSUME NEW b \in Joiners \cup Payers,
             \/ b \in Joiners /\ JoinQueue(b)
             \/ b \in Payers /\ FindPayable(b)
             \/ RequestStep(b) \/ RequestThrows(b)
      PROVE  Handing(a, r)'
  <2>1. b \in Actors /\ OthersStay(b)
    BY <1>1, <1>5 DEF RequestStep, RequestThrows, RequestRejects, JoinQueue, FindPayable,
       FindEntry, AddToQueue, SaveEntry, SavePaid, MarkDone, Await, Goto, Return, Forget,
       OthersStay, locals
  <2> QED
    BY <1>1, <1>2, <2>1
<1>6. CASE Environment \/ UNCHANGED vars \/ OnlyMishap
  <2>1. UNCHANGED <<pc, res>>
    BY <1>6 DEF Environment, InitializeSeats, OpenSales, CloseSales, Lapse, LockTTL,
       StallRunning, StallAbandoned, KeyTTL, Crash, Mishap, Announced, vars, OnlyMishap, locals
  <2> QED
    BY <1>1, <2>1 DEF Handing
<1>7. ASSUME NEW v \in Users, Connect(v) \/ Disconnect(v) \/ Receive(v) \/ Confirm(v)
      PROVE  UNCHANGED vars \/ OnlyMishap
  BY <1>7 DEF Connect, Disconnect, Receive, Confirm, Mishap, OnlyMishap, TypeInv, StoresOK,
     WorldOK
<1> QED
  BY <1>1, <1>3, <1>4, <1>5, <1>6, <1>7
     DEF ViewNext, Expire, AskToJoin, AskToPay, FinishPayment, RequestStep, Silent, viewVars

\* A new reservation is in the hands of the promotion that saved it.
LEMMA NewRowHanded ==
    ASSUME TypeInv, ServiceInv, [Next]_vars, NEW r \in Rows' \ Rows
    PROVE  \E a \in Promoters : Handing(a, r)'
<1>1. /\ status \in [Reservations -> ReservationStatuses]
      /\ res \in [Actors -> Reservations \cup {None}] /\ pc \in [Actors -> Calls]
      /\ Promoters \subseteq Actors /\ Payers \subseteq Actors /\ Crons \subseteq Promoters
      /\ Workers \subseteq Actors
  BY DEF TypeInv, StoresOK, TablesOK, ControlOK, LocalsOK, Actors, Promoters
<1>2. ASSUME NEW a \in Promoters, SaveReservation(a) PROVE Handing(a, r)'
  BY <1>1, <1>2 DEF SaveReservation, Await, Goto, Rows, Handing, AfterSave, TryCalls
<1>3. ASSUME NEW a \in Promoters, ~SaveReservation(a),
             StartCron(a) \/ PromotionStep(a) \/ PromotionThrows(a)
      PROVE  UNCHANGED status
  BY <1>3 DEF StartCron, PromotionStep, PromotionThrows, PromotionRejects, GetActiveCount,
     GetNextInQueue, DecrementSeats, AddJob, SetActive, RemoveFromQueue, SetexActive,
     IncrActiveCount, UndoSeat, RestoreSeat, MarkSoldOut, RemoveSoldOut, tables
<1>4. ASSUME NEW w \in Workers, TakeJob(w) \/ ExpiryStep(w) \/ ExpiryThrows(w)
      PROVE  Rows' = Rows
  <2>1. pc[w] = "markExpired" => res[w] \in Rows
    BY <1>1 DEF ServiceInv, Serves, RowCalls, ExpiryCalls
  <2> QED
    BY <1>1, <1>4, <2>1 DEF ExpiryStep, ExpiryThrows, ExpiryRejects, TakeJob,
       FindReservation, SetLock, ExpireLock, IncrementSeats, MarkExpired, ExpireEntry,
       DelActive, DecrActiveCount, Await, Rows, tables
<1>5. ASSUME NEW a \in Joiners \cup Payers,
             \/ a \in Joiners /\ JoinQueue(a)
             \/ a \in Payers /\ FindPayable(a)
             \/ RequestStep(a) \/ RequestThrows(a)
      PROVE  Rows' = Rows
  <2>1. pc[a] = "savePaid" => res[a] \in Rows
    BY <1>1 DEF ServiceInv, Serves, RowCalls, PayCalls, Actors
  <2> QED
    BY <1>1, <1>5, <2>1 DEF RequestStep, RequestThrows, RequestRejects, JoinQueue,
       FindPayable, FindEntry, AddToQueue, SaveEntry, SavePaid, MarkDone, Await, Rows, tables
<1>6. CASE Environment \/ UNCHANGED vars
  BY <1>6 DEF Environment, InitializeSeats, OpenSales, CloseSales, Lapse, LockTTL,
     StallRunning, StallAbandoned, KeyTTL, Crash, vars, Rows, tables
<1> QED
  BY <1>1, <1>2, <1>3, <1>4, <1>5, <1>6 DEF Next, Rows

\* Whoever was told of his reservation stays told while he can pay for it.
LEMMA StillTold ==
    ASSUME Announced, ViewInv, Settled, OneRowEach, [ViewNext]_viewVars,
           NEW r \in Pending, Told(r), owner[r] \in connected,
           owner[r] \notin interrupted'
    PROVE  Told(r)'
<1> DEFINE u == owner[r]
           m == [event |-> "queue:active", res |-> r]
<1>1. /\ r \in Rows /\ u \in Users /\ status[r] = "PENDING_PAYMENT"
      /\ owner'[r] = u /\ Promoters \subseteq Actors
      /\ TypeInv /\ ServiceInv /\ AnnounceInv /\ ViewTypes /\ PageInv
  BY DEF Pending, Rows, ViewInv, ServiceInv, Settled, Actors
<1>2. \A s \in Rows : owner[s] = u => s = r
  BY <1>1 DEF OneRowEach
<1>3. CASE \E a \in Promoters : Handing(a, r)
  <2>1. PICK a \in Promoters : Handing(a, r)
    BY <1>3
  <2>2. CASE Promoted(a)
    <3>1. Tell(u, "queue:active", r)
      BY <1>1, <2>1, <2>2 DEF Promoted, Promote, Handing, ServiceInv, Serves,
         BlankCalls, RowCalls, AfterSave, TryCalls
    <3>2. m \in Mail(u)'
      BY <1>1, <3>1, Emitted DEF Events, Rows
    <3> QED
      BY <1>1, <3>2 DEF Told, Mail
  <2>3. CASE ~Promoted(a)
    BY <1>1, <2>1, <2>3, HandingKept DEF Told
  <2> QED
    BY <2>2, <2>3
<1>4. CASE m \in Mail(u) \/ (known[u] = r /\ shown[u] = "PENDING_PAYMENT")
  <2> SUFFICES \/ m \in Mail(u)'
               \/ known'[u] = r /\ shown'[u] = "PENDING_PAYMENT"
    BY <1>1 DEF Told, Mail
  <2>1. CASE Emits
    <3>1. PICK v \in Users, event \in Events, s \in Rows :
                 Tell(v, event, s) /\ UNCHANGED page
      BY <1>1, <2>1, Emissions
    <3>2. Mail(u) \subseteq Mail(u)'
      BY <1>1, <3>1, Emitted DEF Rows
    <3> QED
      BY <1>4, <3>1, <3>2 DEF page
  <2>2. ASSUME NEW v \in Users, Connect(v) \/ Disconnect(v)
        PROVE  Mail(u)' = Mail(u) /\ UNCHANGED page
    <3>1. CASE Connect(v)
      BY <1>1, <3>1 DEF Connect, Mail
    <3>2. CASE Disconnect(v)
      <4>1. v # u
        BY <1>1, <3>2 DEF Disconnect
      <4> QED
        BY <1>1, <3>2, <4>1, Dropped DEF Disconnect
    <3> QED
      BY <2>2, <3>1, <3>2
  <2>3. ASSUME NEW v \in Users, v # u, Receive(v) \/ Confirm(v)
        PROVE  Mail(u)' = Mail(u) /\ known'[u] = known[u] /\ shown'[u] = shown[u]
    <3>1. CASE Receive(v)
      BY <1>1, <2>3, <3>1, Received DEF Receive, ViewTypes
    <3>2. CASE Confirm(v)
      BY <1>1, <2>3, <3>2 DEF Confirm, ViewTypes, Mail
    <3> QED
      BY <2>3, <3>1, <3>2
  <2>4. CASE Receive(u)
    <3>1. Head(inbox[u]) \in Mail(u)
      BY <1>1, <2>4, Received
    <3>2. IsTrue(Head(inbox[u]), u)
      BY <1>1, <3>1 DEF PageInv
    <3>3. Head(inbox[u]).res = r
      BY <1>2, <3>2 DEF IsTrue
    <3>4. Head(inbox[u]).event \notin {"reservation:expired", "reservation:paid"}
      BY <1>1, <3>2, <3>3 DEF IsTrue
    <3> QED
      BY <1>1, <2>4, <3>3, <3>4 DEF Receive, ViewTypes
  <2>5. ~Confirm(u)
    <3>1. ~HasOutcome(u, "PAID")
      BY <1>1, <1>2 DEF HasOutcome
    <3> QED
      BY <1>1, <3>1 DEF Confirm, PageInv
  <2>6. CASE ~Emits /\ ~Socket
    BY <1>1, <1>4, <2>6, QuietView DEF page, Mail
  <2> QED
    BY <1>1, <1>4, <2>1, <2>2, <2>3, <2>4, <2>5, <2>6 DEF Socket, page
<1> QED
  BY <1>3, <1>4 DEF Told

LEMMA ToldPreserved ==
    ASSUME Announced, ViewInv, Settled, OneRowEach, ReachInv, ToldInv, [ViewNext]_viewVars
    PROVE  ToldInv'
<1> SUFFICES ASSUME NEW r \in Pending', r \notin lapsed', owner'[r] \in connected',
                    owner'[r] \notin interrupted'
             PROVE  Told(r)'
  BY DEF ToldInv
<1>1. CASE r \in Rows
  <2>1. r \in Pending
    BY <1>1 DEF Pending, Rows, Settled, KeepsFinal, ViewInv, TypeInv, StoresOK, TablesOK,
       ReservationStatuses
  <2>2. r \notin lapsed
    BY DEF Settled, KeepsFinal
  <2>3. owner'[r] = owner[r]
    BY <1>1 DEF Settled
  <2>4. owner[r] \in connected \ interrupted
    BY <1>1, <2>3, ReachedGrows DEF ReachInv, Reached
  <2> QED
    BY <2>1, <2>2, <2>3, <2>4, StillTold DEF ToldInv
<1>2. CASE r \notin Rows
  <2>1. r \in Rows' \ Rows /\ TypeInv /\ ServiceInv
    BY <1>2 DEF Pending, Rows, ViewInv
  <2>2. [Next]_vars
    BY <2>1, ViewStep DEF OnlyMishap, Rows, tables
  <2> QED
    BY <2>1, <2>2, NewRowHanded DEF Told
<1> QED
  BY <1>1, <1>2

\* the invariant of the pages of a sale whose promotions announce what they save
TellInv == ViewInv /\ ReachInv /\ ToldInv

\* A buyer who never lost his connection can pay for the reservation he was
\* given: when nothing is under way his page has its id and shows it as unpaid.
\* The one message that carries the id comes after the row, the job and the
\* active key, and no other message can change what it made the page show
\* before the reservation itself is decided (4.3).
THEOREM HolderTold ==
    ASSUME Punctual, Announced
    PROVE  ViewSpec /\ []OneRowEach => []HolderIsTold
<1>1. ViewInit => TellInv
  <2> SUFFICES ASSUME ViewInit PROVE TellInv
    OBVIOUS
  <2>1. ViewInv
    BY ViewInitially
  <2>2. Rows = {} /\ Pending = {} /\ Queued = {} /\ \A a \in Actors : pc[a] = "idle"
    BY DEF ViewInit, Init, Rows, Pending, Queued
  <2>3. ReachInv
    BY <2>2 DEF ReachInv, HeadCalls, PromotionCalls, TryCalls, SoldOutCalls, Actors
  <2>4. ToldInv
    BY <2>2 DEF ToldInv
  <2> QED
    BY <2>1, <2>3, <2>4 DEF TellInv
<1>2. TellInv /\ OneRowEach /\ [ViewNext]_viewVars => TellInv'
  BY ViewPreserved, ReachPreserved, ToldPreserved DEF TellInv, ViewInv
<1>3. TellInv => HolderIsTold
  <2> SUFFICES ASSUME ViewInv, ToldInv, AtRest, NEW r \in Pending \ lapsed,
                      owner[r] \in connected \ interrupted
               PROVE  known[owner[r]] = r /\ shown[owner[r]] = "PENDING_PAYMENT"
    BY DEF TellInv, HolderIsTold, CanPay
  <2>1. owner[r] \in Users /\ Told(r)
    BY DEF ToldInv, ViewInv, ServiceInv, Pending, Rows
  <2>2. Mail(owner[r]) = {}
    BY <2>1, NoContent DEF AtRest, Mail
  <2>3. \A a \in Promoters : ~Handing(a, r)
    BY DEF AtRest, Idle, Handing, AfterSave, TryCalls, Actors
  <2> QED
    BY <2>1, <2>2, <2>3 DEF Told
<1> QED
  BY <1>1, <1>2, <1>3, PTL DEF ViewSpec

-----------------------------------------------------------------------------
(* When nobody has two reservations.                                       *)

\* The sale with its pages keeps one row per user under the conditions under
\* which the sale alone does.
LEMMA ViewRowsOnce ==
    ASSUME Registered, Dequeued
    PROVE  ViewSpec /\ []OneJoinEach /\ []OnePromotion => []OneRowEach
<1> DEFINE IInv == TypeInv /\ ServiceInv /\ QueueInv /\ OnceInv
<1>1. ViewInit => IInv
  BY TypesInitially, ServiceInitially, QueueInitially, OnceInitially DEF ViewInit
<1>2. IInv /\ OneJoinEach /\ OnePromotion /\ [ViewNext]_viewVars => IInv'
  <2> SUFFICES ASSUME TypeInv, ServiceInv, QueueInv, OnceInv, OneJoinEach, OnePromotion,
                      [ViewNext]_viewVars
               PROVE  IInv'
    OBVIOUS
  <2>1. TypeInv' /\ ServiceInv'
    BY ViewBase
  <2>2. CASE [Next]_vars
    BY <2>1, <2>2, QueuePreserved, OncePreserved
  <2>3. CASE OnlyMishap
    <3>1. QueueInv'
      BY <2>3 DEF OnlyMishap, QueueInv, HoldsHead, Joined, Queued, cache, queue, tables, locals
    <3>2. Rows' = Rows /\ Queued' = Queued /\ \A u \in Users : Joined(u) => Joined(u)'
      BY <2>3 DEF OnlyMishap, cache, queue, tables, locals, Rows, Queued, Joined
    <3>3. OnceInv'
      BY <2>3, <3>2, OnceElsewhere DEF OnlyMishap, tables, locals
    <3> QED
      BY <2>1, <3>1, <3>3
  <2> QED
    BY <2>2, <2>3, ViewStep
<1>3. IInv => OneRowEach
  BY DEF OnceInv, OneRowEach
<1> QED
  BY <1>1, <1>2, <1>3, PTL DEF ViewSpec

\* So the two promises of the page hold whenever promotions do not overlap and
\* lose nothing on the way, and a buyer sends one join at a time.
COROLLARY PagesServe ==
    ASSUME Punctual, Announced, Registered, Dequeued
    PROVE  ViewSpec /\ []OneJoinEach /\ []OnePromotion =>
              []PageTruthful /\ []HolderIsTold
  BY ViewRowsOnce, PageShowsTruth, HolderTold, PTL
=============================================================================
