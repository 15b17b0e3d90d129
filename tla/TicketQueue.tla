----------------------------- MODULE TicketQueue -----------------------------
(***************************************************************************)
(* The ticket sale of one event: promotion, expiration and the buyers'     *)
(* requests composed over the shared stores, with the event's provisioning *)
(* (EventsService.create), the passing of time, crashes of application     *)
(* instances, and the properties of the whole.                             *)
(***************************************************************************)
EXTENDS QueuePromotion, ReservationExpiry, ClientRequests

\* the event row is visible from the start; its seat counter is not yet set
Init ==
    /\ seats = 0
    /\ score = [u \in Users |-> 0]
    /\ stamp = 0
    /\ activeKey = [u \in Users |-> None]
    /\ activeCount = 0
    /\ lock = [r \in Reservations |-> "free"]
    /\ entry = [u \in Users |-> "absent"]
    /\ status = [r \in Reservations |-> "absent"]
    /\ owner = [r \in Reservations |-> None]
    /\ jobs = [r \in Reservations |-> NoJob]
    /\ lapsed = {}
    /\ sales = "upcoming"
    /\ provisioned = FALSE
    /\ mishaps = 0
    /\ pc = [a \in Actors |-> "idle"]
    /\ slots = [a \in Actors |-> 0]
    /\ user = [a \in Actors |-> None]
    /\ res = [a \in Actors |-> None]
    /\ job = [a \in Actors |-> None]
    /\ credited = {}

\* EventsService.create: initializeSeats, after the event row was saved
InitializeSeats ==
    /\ ~provisioned
    /\ provisioned' = TRUE
    /\ seats' = TotalSeats
    /\ UNCHANGED <<cache, tables, jobs, lapsed, sales, mishaps, pc, locals, credited>>

-----------------------------------------------------------------------------
(* What the requests that only read answer.                                *)

Count(st) == Cardinality({r \in Reservations : status[r] = st})

\* getStats: the counter, the length of the queue, the rows by status
Stats == [remainingSeats |-> seats,
          queueLength |-> Cardinality(Queued),
          reservationCounts |-> [st \in ReservationStatuses \ {"absent"} |-> Count(st)]]

\* getQueueStatus: the status of the entry and the live position; without one
\* the reply repeats the position of the time the entry was inserted
QueueStatus(u) == [status |-> entry[u], position |-> Position(u)]

-----------------------------------------------------------------------------
(* Time and failures.                                                      *)

\* an event, like those of seed.ts, whose salesStartAt is past when its row is
\* saved: its window is open before its counter is set
SavedOpen == "earlySales" \in Faults

\* salesStartAt
OpenSales ==
    /\ sales = "upcoming"
    /\ provisioned \/ SavedOpen
    /\ sales' = "open"
    /\ UNCHANGED <<seats, cache, tables, jobs, lapsed, provisioned, mishaps, pc,
                   locals, credited>>

CloseSales ==
    /\ sales = "open"
    /\ "closeSales" \in Faults
    /\ sales' = "closed"
    /\ UNCHANGED <<seats, cache, tables, jobs, lapsed, provisioned, mishaps, pc,
                   locals, credited>>

\* expiresAt passes, 300 s after the reservation; without "slowPay" a payment
\* accepted before it is also saved before it, without "slowPromotion" no
\* promotion of the owner takes that long
Lapse(r) ==
    /\ r \in Rows \ lapsed
    /\ "slowPay" \in Faults \/ \A p \in Payers : ~(pc[p] = "savePaid" /\ res[p] = r)
    /\ \/ "slowPromotion" \in Faults
       \/ \A a \in Promoters : ~(pc[a] \in PromotionCalls /\ user[a] = owner[r])
    /\ lapsed' = lapsed \cup {r}
    /\ UNCHANGED <<seats, cache, tables, jobs, sales, provisioned, mishaps, pc,
                   locals, credited>>

\* the TTL of active:{event}:{user}, 300 s like the reservation's own
KeyTTL(u) ==
    /\ "keyTTL" \in Faults
    /\ activeKey[u] \in lapsed
    /\ activeKey' = [activeKey EXCEPT ![u] = None]
    /\ UNCHANGED <<seats, queue, activeCount, lock, tables, jobs, world, pc,
                   locals, credited>>

\* the TTL of reservationExpired:{r}, 3600 s: no worker is still at work on r
LockTTL(r) ==
    /\ lock[r] = "expiring"
    /\ \A w \in Workers : res[w] # r
    /\ Mishap("lockTTL")
    /\ lock' = [lock EXCEPT ![r] = "free"]
    /\ UNCHANGED <<seats, queue, active, tables, jobs,
                   lapsed, sales, provisioned, pc, locals, credited>>

\* an instance dies: its actors and their variables are gone, the stores stay
Crash(I) ==
    /\ \E a \in I : pc[a] # "idle"
    /\ Mishap("crash")
    /\ pc' = [a \in Actors |-> IF a \in I THEN "idle" ELSE pc[a]]
    /\ slots' = [a \in Actors |-> IF a \in I THEN 0 ELSE slots[a]]
    /\ user' = [a \in Actors |-> IF a \in I THEN None ELSE user[a]]
    /\ res' = [a \in Actors |-> IF a \in I THEN None ELSE res[a]]
    /\ job' = [a \in Actors |-> IF a \in I THEN None ELSE job[a]]
    /\ UNCHANGED <<seats, cache, tables, jobs, lapsed, sales, provisioned, credited>>

-----------------------------------------------------------------------------
Environment ==
    \/ InitializeSeats \/ OpenSales \/ CloseSales
    \/ \E r \in Reservations :
         Lapse(r) \/ LockTTL(r) \/ StallRunning(r)
    \/ \E u \in Users : KeyTTL(u)
    \/ \E I \in Instances :
         Crash(I) \/ \E r \in Reservations : StallAbandoned(r)

Next ==
    \/ \E c \in Crons : StartCron(c)
    \/ \E w \in Workers : TakeJob(w) \/ ExpiryStep(w) \/ ExpiryThrows(w)
    \/ \E a \in Promoters : PromotionStep(a) \/ PromotionThrows(a)
    \/ \E j \in Joiners : JoinQueue(j)
    \/ \E p \in Payers : FindPayable(p)
    \/ \E a \in Joiners \cup Payers : RequestStep(a) \/ RequestThrows(a)
    \/ Environment

Spec == Init /\ [][Next]_vars

\* an awaited call is answered, the cron ticks, BullMQ hands out due jobs and
\* checks for stalled ones, and time passes; nobody has to join, pay or fail
Fairness ==
    /\ WF_vars(InitializeSeats) /\ WF_vars(OpenSales) /\ WF_vars(CloseSales)
    /\ \A c \in Crons : WF_vars(StartCron(c))
    /\ \A a \in Promoters : WF_vars(PromotionStep(a))
    /\ \A w \in Workers : WF_vars(TakeJob(w)) /\ WF_vars(ExpiryStep(w))
    /\ \A a \in Joiners \cup Payers : WF_vars(RequestStep(a))
    /\ \A r \in Reservations : WF_vars(Lapse(r)) /\ WF_vars(StallAbandoned(r))

FairSpec == Spec /\ Fairness

-----------------------------------------------------------------------------
(* Type invariant.                                                         *)

CacheOK == /\ seats \in Int
           /\ score \in [Users -> Nat]
           /\ stamp \in Nat
           /\ activeKey \in [Users -> Reservations \cup {None}]
           /\ activeCount \in Int
           /\ lock \in [Reservations -> LockStates]

TablesOK == /\ entry \in [Users -> EntryStatuses]
            /\ status \in [Reservations -> ReservationStatuses]
            /\ owner \in [Reservations -> Users \cup {None}]
            /\ credited \subseteq Reservations

WorldOK == /\ lapsed \subseteq Reservations
           /\ sales \in {"upcoming", "open", "closed"}
           /\ provisioned \in BOOLEAN
           /\ mishaps \in Nat

Calls == PromotionCalls \cup ExpiryCalls \cup JoinCalls \cup PayCalls \cup {"idle"}

LocalsOK == /\ pc \in [Actors -> Calls]
            /\ slots \in [Actors -> Nat]
            /\ user \in [Actors -> Users \cup {None}]
            /\ res \in [Actors -> Reservations \cup {None}]
            /\ job \in [Actors -> Reservations \cup {None}]

\* an actor is at a call of its own handler
HandlersOK ==
    /\ \A c \in Crons : pc[c] \in PromotionCalls \cup {"idle"}
    /\ \A w \in Workers : pc[w] \in PromotionCalls \cup ExpiryCalls \cup {"idle"}
    /\ \A j \in Joiners : pc[j] \in JoinCalls \cup {"idle"}
    /\ \A p \in Payers : pc[p] \in PayCalls \cup {"idle"}

\* every store and every local variable holds a value of its kind
TypeOK == /\ CacheOK /\ TablesOK /\ WorldOK /\ LocalsOK /\ HandlersOK
          /\ jobs \in [Reservations -> Jobs]

-----------------------------------------------------------------------------
(* Seats.                                                                  *)

\* promoters that took a seat and have not committed a reservation for it
Granted == {a \in Promoters : \/ pc[a] = "saveReservation"
                              \/ pc[a] = "undoSeat" /\ res[a] = None}
\* promoters whose DECR went below zero and is not yet compensated
Refused == {a \in Promoters : pc[a] = "restoreSeat"}
\* reservations whose seat has not been given back
Holding == Rows \ credited

SeatsAccounted == Cardinality(Granted) + Cardinality(Refused) + Cardinality(Holding)

\* Once the counter is set, the seats left, the seats granted or reserved and
\* the decrements still to be compensated add up to totalSeats, whatever the
\* interleaving of DECRs and INCRs (design.md Properties 1 and 8).
SeatConservation == provisioned => seats + SeatsAccounted = TotalSeats

\* A DECR is refused, and its user turned away, only when every seat is granted
\* or reserved, or while another refused DECR still keeps the counter too low:
\* the last seat is sold (design.md Property 6).
RefusedOnlyWhenTaken ==
    [][\A a \in Promoters :
         pc[a] = "decrementSeats" /\ pc'[a] = "restoreSeat" =>
            \/ Cardinality(Granted) + Cardinality(Holding) >= TotalSeats
            \/ Refused # {}]_vars

\* Seats are never granted or reserved beyond totalSeats, and seats lost to a
\* failure are lost, never duplicated (requirements 5.1-5.3, 7.2).
NoOverhold == /\ Cardinality(Granted) + Cardinality(Holding) <= TotalSeats
              /\ seats + SeatsAccounted <= TotalSeats

Pool == INSTANCE SeatPool WITH Capacity <- TotalSeats, stocked <- provisioned,
            free <- seats + Cardinality(Refused),
            held <- Cardinality(Granted) + Cardinality(Holding)

\* Promotion, expiration and their failures use the seat counter as a pool: a
\* seat is only acquired from a free one and only returned by its holder.
RefinesSeatPool == Pool!Spec

\* A seat goes back to the counter at most once per reservation and only while
\* a worker owns the reservation's expiration lock: the worker about to run
\* INCR is alone with its reservation and nobody credited it yet (7.2, 7.3).
CreditsExclusive ==
    \A w \in Workers : pc[w] \in {"expireLock", "incrementSeats"} =>
        /\ res[w] \in Holding
        /\ lock[res[w]] # "free"
        /\ \A v \in Workers \ {w} :
             pc[v] \in {"expireLock", "incrementSeats"} => res[v] # res[w]

\* Sold or still payable reservations never exceed totalSeats (1 user 1 seat,
\* no oversell), provided payments are saved before the deadline.
Sellable == {r \in Reservations : \/ status[r] = "PAID"
                                  \/ status[r] = "PENDING_PAYMENT" /\ r \notin lapsed}
NoOversell == Cardinality(Sellable) <= TotalSeats

Idle == \A a \in Actors : pc[a] = "idle"

\* When no handler is running, what the administrator is shown adds up: the
\* seats left, the unpaid and the paid reservations are totalSeats (10.1-10.3).
StatsAddUp ==
    provisioned /\ Idle =>
        LET counts == Stats.reservationCounts IN
        Stats.remainingSeats + counts["PENDING_PAYMENT"] + counts["PAID"] = TotalSeats

\* A paid or expired reservation keeps its outcome: no payment is overwritten
\* by an expiration, no expired reservation is sold (6.1, 6.2, 7.1).
OutcomeIsFinal ==
    [][\A r \in Reservations :
         status[r] \in {"PAID", "EXPIRED"} => status'[r] = status[r]]_vars

-----------------------------------------------------------------------------
(* Jobs and reservations.                                                  *)

\* an actor that will still change the reservation's fate
Expiring(w, r) == /\ res[w] = r
                  /\ pc[w] \in {"findReservation", "setnx", "expireLock",
                                "incrementSeats", "markExpired"}
Scheduling(a, r) == res[a] = r /\ pc[a] = "addJob"

\* An unpaid reservation is always watched: its job is due, queued for a retry
\* or in the hands of a worker that has not yet marked it, so it cannot keep
\* its seat for ever (7.1).
PendingIsWatched ==
    \A r \in Pending :
        \/ jobs[r].state = "delayed"
        \/ \E w \in Workers : Expiring(w, r)
        \/ \E a \in Promoters : Scheduling(a, r)

-----------------------------------------------------------------------------
(* The limit on active users.                                              *)

\* The counter the limit is checked against never falls behind the active keys,
\* whatever order SETEX, INCR, DEL, DECR and the TTL take: unless a promoter
\* fails between SETEX and INCR, the counter errs towards fewer promotions.
ActiveNeverUndercounted ==
    activeCount + Cardinality({a \in Promoters : pc[a] = "incrActiveCount"})
      >= Cardinality({u \in Users : activeKey[u] # None})
         + Cardinality({w \in Workers : pc[w] = "decrActiveCount"})

\* Promoters check the limit and act on it without coordination, so each may
\* fill it once: this is how far the limit of 4.5 can be overshot, as long as no
\* promotion is stopped before its INCR or takes until its reservation expires.
OvershootBounded == activeCount <= Cardinality(Promoters) * MaxActive

-----------------------------------------------------------------------------
(* The queue.                                                              *)

\* A user leaves the queue only after everybody who joined strictly earlier,
\* even when overlapping promoters work on stale heads (requirement 4.1).
FirstComeFirstServed ==
    [][\A u, v \in Queued :
         score[u] < score[v] /\ score'[v] = 0 => score'[u] = 0]_vars

\* Nobody holds two unpaid reservations (requirement 12.3, one seat per user).
OneReservationEach ==
    \A r, s \in Pending : r # s => owner[r] # owner[s]

\* When no handler is running, a buyer who is told that he is waiting is in the
\* queue, and the position he is told is his own (requirement 3.1).
WaitingIsQueued ==
    Idle => \A u \in Users :
        QueueStatus(u).status = "WAITING" => QueueStatus(u).position # None

\* When no handler is running, the owner of an unpaid unexpired reservation is
\* not shown as EXPIRED: nobody with a seat was told the event is sold out.
HolderNotTurnedAway ==
    Idle =>
        \A r \in Pending \ lapsed : entry[owner[r]] # "EXPIRED"

-----------------------------------------------------------------------------
(* Liveness.                                                               *)

\* A user who waits in the queue is eventually taken out of it: promoted or
\* told the event is sold out (4.4).
QueueDrains == \A u \in Users : u \in Queued ~> u \notin Queued

\* Once the sale is over, every seat that was not paid for is back in the
\* counter: none is stuck with a promoter, a job or an unpaid reservation.
UnsoldSeatsReturn == <>[](seats + Cardinality(Paid) = TotalSeats)
=============================================================================
