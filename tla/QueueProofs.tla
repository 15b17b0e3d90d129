----------------------------- MODULE QueueProofs -----------------------------
(***************************************************************************)
(* Proofs about the wait queue.  A promoter removes the user it read as    *)
(* the head several awaits ago, by name.  That is first come, first served *)
(* because a user never comes back to the queue once he has left it: his   *)
(* row in queue_entries turns the second join away, unless saving the row  *)
(* failed (Registered) or he joins while his own first join is still under *)
(* way (OneJoinEach).  It is one reservation per user only if, in          *)
(* addition, promotions do not overlap (OnePromotion) and none fails       *)
(* between its INSERT and its ZREM (Dequeued).                             *)
(***************************************************************************)
EXTENDS TicketQueueProofs

\* a join that reached the queue also saves its row
Registered ==
    /\ "saveEntry" \notin Faults
    /\ "crash" \in Faults => \A I \in Instances : I \cap Joiners = {}

\* nobody sends a second join while the first is not answered
OneJoinEach ==
    \A i, j \in Joiners :
        i # j /\ pc[i] # "idle" /\ pc[j] # "idle" => user[i] # user[j]

\* the calls of a promoter that works on the head it read
HeadCalls == PromotionCalls \ {"getActiveCount", "getNextInQueue"}

\* the user's row is there or about to be
Joined(u) == \/ entry[u] # "absent"
             \/ \E j \in Joiners : pc[j] = "saveEntry" /\ user[j] = u

\* the user of a promoter is ahead of the whole queue, if he is still in it
HoldsHead(a) ==
    pc[a] \in HeadCalls =>
        /\ Joined(user[a])
        /\ user[a] \in Queued => \A v \in Queued : score[user[a]] <= score[v]

QueueInv ==
    /\ \A u \in Queued : Joined(u) /\ score[u] <= stamp
    /\ \A a \in Promoters : HoldsHead(a)
    /\ \A j \in Joiners : pc[j] = "zadd" => entry[user[j]] = "absent"

-----------------------------------------------------------------------------
(* Steps that add nobody to the queue.                                     *)

\* A step of one handler that adds nobody to the queue and no row.
LEMMA QueueKept ==
    ASSUME TypeInv, TypeInv', QueueInv, NEW a \in Actors, OthersHold(a),
           \A u \in Users : score'[u] \in {score[u], 0}, stamp' = stamp,
           \A u \in Users : entry[u] = "absent" <=> entry'[u] = "absent",
           a \in Joiners => pc[a] # "saveEntry",
           a \in Joiners /\ pc'[a] = "zadd" =>
              user'[a] \in Users /\ entry[user'[a]] = "absent",
           \A b \in Actors : pc[b] \in HeadCalls \cup {"zadd"} => user[b] \in Users,
           a \in Promoters /\ pc'[a] \in HeadCalls =>
              /\ user'[a] \in Users
              /\ Joined(user'[a])
              /\ user'[a] \in Queued =>
                    \A v \in Queued : score[user'[a]] <= score[v]
    PROVE  QueueInv'
<1>1. Joiners \subseteq Actors /\ Promoters \subseteq Actors
  BY DEF Actors
<1>2. ASSUME NEW u \in Users, Joined(u) PROVE Joined(u)'
  BY <1>1, <1>2 DEF Joined, OthersHold
<1>3. ASSUME NEW u \in Queued'
      PROVE  u \in Queued /\ score'[u] = score[u]
  BY <1>3 DEF Queued
<1>4. ASSUME NEW u \in Queued' PROVE Joined(u)' /\ score'[u] <= stamp'
  BY <1>2, <1>3, <1>4 DEF QueueInv, Queued
<1>5. ASSUME NEW b \in Promoters PROVE HoldsHead(b)'
  <2>1. CASE b = a
    BY <1>2, <1>3, <2>1 DEF HoldsHead
  <2>2. CASE b # a
    BY <1>1, <1>2, <1>3, <2>2 DEF HoldsHead, QueueInv, OthersHold
  <2> QED
    BY <2>1, <2>2
<1>6. ASSUME NEW j \in Joiners, pc'[j] = "zadd" PROVE entry'[user'[j]] = "absent"
  <2>1. CASE j = a
    BY <1>6, <2>1
  <2>2. CASE j # a
    BY <1>1, <1>6, <2>2 DEF QueueInv, OthersHold
  <2> QED
    BY <2>1, <2>2
<1> QED
  BY <1>4, <1>5, <1>6 DEF QueueInv

\* A promotion reads the head of the queue; what it removes, it removes from
\* the front.
LEMMA PromotionQueue ==
    ASSUME TypeInv, TypeInv', ServiceInv, QueueInv, NEW a \in Promoters,
           StartCron(a) \/ PromotionStep(a) \/ PromotionThrows(a)
    PROVE  QueueInv'
<1> USE DEF StartCron, PromotionStep, PromotionThrows, PromotionRejects, GetActiveCount,
            GetNextInQueue, DecrementSeats, SaveReservation, AddJob, SetActive,
            RemoveFromQueue, SetexActive, IncrActiveCount, UndoSeat, RestoreSeat,
            MarkSoldOut, RemoveSoldOut, Await
<1>1. /\ a \in Actors /\ a \notin Joiners
      /\ pc \in [Actors -> Calls] /\ user \in [Actors -> Users \cup {None}]
      /\ res \in [Actors -> Reservations \cup {None}]
      /\ score \in [Users -> Nat] /\ entry \in [Users -> EntryStatuses]
  BY ActorAssumption DEF Actors, TypeInv, ControlOK, LocalsOK, StoresOK, TablesOK, CacheOK
<1>2. (\A u \in Users : score'[u] \in {score[u], 0}) /\ stamp' = stamp
  BY <1>1 DEF cache, queue, ZRem
<1>3. \A u \in Users : entry[u] = "absent" <=> entry'[u] = "absent"
  BY <1>1 DEF tables, UpdateEntry
<1>4. OthersHold(a)
  BY <1>1 DEF Loop, Goto, Return, Forget, OthersHold, locals
<1>5. ASSUME NEW b \in Actors, pc[b] \in HeadCalls \cup {"zadd"} PROVE user[b] \in Users
  BY <1>5 DEF ServiceInv, Serves, BlankCalls, HeadCalls, PromotionCalls, TryCalls, SoldOutCalls
<1>6. ASSUME pc'[a] \in HeadCalls
      PROVE  /\ user'[a] \in Users
             /\ Joined(user'[a])
             /\ user'[a] \in Queued =>
                   \A v \in Queued : score[user'[a]] <= score[v]
  <2>1. CASE GetNextInQueue(a)
    <3>1. IsNext(user'[a]) /\ user'[a] \in Users
      BY <1>1, <1>6, <2>1 DEF Return, Forget, HeadCalls, PromotionCalls, TryCalls, SoldOutCalls
    <3>2. user'[a] \in Queued /\ \A v \in Queued : score[user'[a]] <= score[v]
      BY <1>1, <3>1 DEF IsNext, Before, Queued
    <3> QED
      BY <3>1, <3>2 DEF QueueInv
  <2>2. CASE ~GetNextInQueue(a)
    <3>1. user'[a] = user[a] /\ pc[a] \in HeadCalls
      BY <1>1, <1>6, <2>2 DEF Loop, Goto, Return, Forget, locals, HeadCalls,
         PromotionCalls, TryCalls, SoldOutCalls
    <3> QED
      BY <1>1, <1>5, <3>1 DEF QueueInv, HoldsHead
  <2> QED
    BY <2>1, <2>2
<1> QED
  BY <1>1, <1>2, <1>3, <1>4, <1>5, <1>6, QueueKept

\* An expiration leaves the queue alone.
LEMMA ExpiryQueue ==
    ASSUME TypeInv, TypeInv', ServiceInv, QueueInv, NEW w \in Workers,
           TakeJob(w) \/ ExpiryStep(w) \/ ExpiryThrows(w)
    PROVE  QueueInv'
<1> USE DEF ExpiryStep, ExpiryThrows, ExpiryRejects, TakeJob, FindReservation, SetLock,
            ExpireLock, IncrementSeats, MarkExpired, ExpireEntry, DelActive,
            DecrActiveCount, Await
<1>1. /\ w \in Actors /\ w \notin Joiners
      /\ pc \in [Actors -> Calls] /\ user \in [Actors -> Users \cup {None}]
      /\ res \in [Actors -> Reservations \cup {None}]
      /\ entry \in [Users -> EntryStatuses]
  BY ActorAssumption DEF Actors, Promoters, TypeInv, ControlOK, LocalsOK, StoresOK, TablesOK
<1>2. UNCHANGED <<score, stamp>>
  BY DEF cache, queue
<1>3. \A u \in Users : entry[u] = "absent" <=> entry'[u] = "absent"
  BY <1>1 DEF tables, UpdateEntry
<1>4. OthersHold(w)
  BY <1>1 DEF Goto, Return, Forget, TriggerPromotion, OthersHold, locals
<1>5. ASSUME NEW b \in Actors, pc[b] \in HeadCalls \cup {"zadd"} PROVE user[b] \in Users
  BY <1>5 DEF ServiceInv, Serves, BlankCalls, HeadCalls, PromotionCalls, TryCalls, SoldOutCalls
<1>6. pc'[w] \notin HeadCalls
  BY <1>1 DEF Goto, Return, Forget, TriggerPromotion, HeadCalls, PromotionCalls, TryCalls,
     SoldOutCalls
<1> QED
  BY <1>1, <1>2, <1>3, <1>4, <1>5, <1>6, QueueKept

-----------------------------------------------------------------------------
(* Joining.                                                                *)

\* ZADD puts in a user who has no row, hence was not in the queue and is not
\* in the hands of a promoter, and it puts him last.
LEMMA AddToQueueQueue ==
    ASSUME OneJoinEach, TypeInv, ServiceInv, QueueInv, NEW j \in Joiners, AddToQueue(j)
    PROVE  QueueInv'
<1>1. /\ j \in Actors /\ Joiners \subseteq Actors /\ Promoters \subseteq Actors
      /\ j \notin Promoters
      /\ pc \in [Actors -> Calls] /\ user \in [Actors -> Users \cup {None}]
      /\ score \in [Users -> Nat] /\ stamp \in Nat
  BY ActorAssumption DEF Actors, TypeInv, ControlOK, LocalsOK, StoresOK, CacheOK
<1>2. /\ pc[j] = "zadd" /\ pc' = [pc EXCEPT ![j] = "saveEntry"]
      /\ UNCHANGED <<user, entry>>
  BY DEF AddToQueue, Await, Goto, tables, locals
<1>3. user[j] \in Users /\ ~Joined(user[j])
  BY <1>1, <1>2 DEF ServiceInv, Serves, BlankCalls, QueueInv, Joined, OneJoinEach
<1>4. user[j] \notin Queued
  BY <1>3 DEF QueueInv
<1>5. PICK now \in {stamp, stamp + 1} \ {0} :
        score' = [score EXCEPT ![user[j]] = now] /\ stamp' = now
  BY <1>4 DEF AddToQueue, ZAdd
<1>6. Queued' = Queued \cup {user[j]} /\ now \in Nat /\ now >= stamp
  BY <1>1, <1>3, <1>5 DEF Queued
<1>7. ASSUME NEW u \in Users, Joined(u) \/ u = user[j] PROVE Joined(u)'
  BY <1>1, <1>2, <1>7 DEF Joined
<1>8. ASSUME NEW u \in Queued PROVE score'[u] = score[u] /\ score[u] <= now /\ u # user[j]
  BY <1>1, <1>4, <1>5, <1>6, <1>8 DEF QueueInv, Queued
<1>9. ASSUME NEW u \in Queued' PROVE Joined(u)' /\ score'[u] <= stamp'
  BY <1>1, <1>3, <1>5, <1>6, <1>7, <1>8, <1>9 DEF QueueInv, Queued
<1>10. ASSUME NEW b \in Promoters, pc'[b] \in HeadCalls
       PROVE  /\ Joined(user[b])'
              /\ user'[b] \in Queued' => \A v \in Queued' : score'[user'[b]] <= score'[v]
  <2>1. pc[b] \in HeadCalls /\ user'[b] = user[b] /\ user[b] \in Users
    BY <1>1, <1>2, <1>10 DEF ServiceInv, Serves, BlankCalls, HeadCalls, PromotionCalls,
       TryCalls, SoldOutCalls
  <2>2. Joined(user[b]) /\ user[b] # user[j]
    BY <1>3, <2>1 DEF QueueInv, HoldsHead
  <2>3. ASSUME user[b] \in Queued', NEW v \in Queued' PROVE score'[user[b]] <= score'[v]
    BY <1>1, <1>3, <1>5, <1>6, <1>8, <2>1, <2>2, <2>3 DEF QueueInv, HoldsHead
  <2> QED
    BY <1>7, <2>1, <2>2, <2>3
<1>11. ASSUME NEW i \in Joiners, pc'[i] = "zadd" PROVE entry'[user'[i]] = "absent"
  BY <1>1, <1>2, <1>11 DEF QueueInv
<1> QED
  BY <1>9, <1>10, <1>11 DEF QueueInv, HoldsHead

\* The row replaces the join that saved it.
LEMMA SaveEntryQueue ==
    ASSUME OneJoinEach, TypeInv, ServiceInv, QueueInv, NEW j \in Joiners, SaveEntry(j)
    PROVE  QueueInv'
<1>1. /\ j \in Actors /\ Joiners \subseteq Actors /\ Promoters \subseteq Actors
      /\ j \notin Promoters
      /\ pc \in [Actors -> Calls] /\ user \in [Actors -> Users \cup {None}]
      /\ entry \in [Users -> EntryStatuses]
  BY ActorAssumption DEF Actors, TypeInv, ControlOK, LocalsOK, StoresOK, TablesOK
<1>2. /\ pc[j] = "saveEntry" /\ pc' = [pc EXCEPT ![j] = "idle"]
      /\ user' = [user EXCEPT ![j] = None] /\ UNCHANGED <<score, stamp>>
  BY DEF SaveEntry, Return, Forget, cache, queue
<1>3. user[j] \in Users
  BY <1>1, <1>2 DEF ServiceInv, Serves, BlankCalls
<1>4. /\ entry'[user[j]] # "absent"
      /\ \A u \in Users : u # user[j] => entry'[u] = entry[u]
      /\ \A u \in Users : entry[u] # "absent" => entry'[u] # "absent"
  BY <1>1, <1>3 DEF SaveEntry
<1>5. ASSUME NEW u \in Users, Joined(u) PROVE Joined(u)'
  BY <1>1, <1>2, <1>4, <1>5 DEF Joined
<1>6. Queued' = Queued
  BY <1>2 DEF Queued
<1>7. ASSUME NEW u \in Queued' PROVE Joined(u)' /\ score'[u] <= stamp'
  BY <1>2, <1>5, <1>6, <1>7 DEF QueueInv, Queued
<1>8. ASSUME NEW b \in Promoters, pc'[b] \in HeadCalls
      PROVE  /\ Joined(user[b])'
             /\ user'[b] \in Queued' => \A v \in Queued' : score'[user'[b]] <= score'[v]
  <2>1. pc[b] \in HeadCalls /\ user'[b] = user[b] /\ user[b] \in Users
    BY <1>1, <1>2, <1>8 DEF ServiceInv, Serves, BlankCalls, HeadCalls, PromotionCalls,
       TryCalls, SoldOutCalls
  <2> QED
    BY <1>2, <1>5, <1>6, <2>1 DEF QueueInv, HoldsHead
<1>9. ASSUME NEW i \in Joiners, pc'[i] = "zadd" PROVE entry'[user'[i]] = "absent"
  <2>1. i # j /\ pc[i] = "zadd" /\ user'[i] = user[i] /\ user[i] \in Users
    BY <1>1, <1>2, <1>9 DEF ServiceInv, Serves, BlankCalls
  <2>2. user[i] # user[j]
    BY <1>2, <2>1 DEF OneJoinEach
  <2> QED
    BY <1>4, <2>1, <2>2 DEF QueueInv
<1> QED
  BY <1>7, <1>8, <1>9 DEF QueueInv, HoldsHead

\* The other steps of the requests.
LEMMA RequestQueue ==
    ASSUME Registered, OneJoinEach, TypeInv, TypeInv', ServiceInv, QueueInv,
           NEW a \in Joiners \cup Payers,
           \/ a \in Joiners /\ JoinQueue(a)
           \/ a \in Payers /\ FindPayable(a)
           \/ RequestStep(a) \/ RequestThrows(a)
    PROVE  QueueInv'
<1>1. /\ a \in Actors /\ a \notin Promoters
      /\ pc \in [Actors -> Calls] /\ user \in [Actors -> Users \cup {None}]
      /\ res \in [Actors -> Reservations \cup {None}]
      /\ score \in [Users -> Nat] /\ entry \in [Users -> EntryStatuses]
      /\ a \in Joiners => pc[a] \in JoinCalls \cup {"idle"}
      /\ a \in Payers => pc[a] \in PayCalls \cup {"idle"}
  BY ActorAssumption DEF Actors, TypeInv, ControlOK, LocalsOK, HandlersOK, StoresOK,
     TablesOK, CacheOK
<1>2. CASE a \in Joiners /\ (AddToQueue(a) \/ SaveEntry(a))
  BY <1>2, AddToQueueQueue, SaveEntryQueue
<1>3. CASE ~(a \in Joiners /\ (AddToQueue(a) \/ SaveEntry(a)))
  <2> USE DEF RequestStep, RequestThrows, RequestRejects, JoinQueue, FindPayable,
          FindEntry, SavePaid, MarkDone, Await
  <2>1. ~AddToQueue(a) /\ ~SaveEntry(a)
    BY <1>1, <1>3 DEF AddToQueue, SaveEntry, PayCalls
  <2>2. UNCHANGED <<score, stamp>>
    BY <2>1 DEF cache, queue
  <2>3. \A u \in Users : entry[u] = "absent" <=> entry'[u] = "absent"
    BY <1>1, <2>1 DEF tables, UpdateEntry
  <2>4. OthersHold(a)
    BY <1>1, <2>1 DEF Goto, Return, Forget, OthersHold, locals
  <2>5. a \in Joiners => pc[a] # "saveEntry"
    BY <2>1 DEF Mishap, Registered
  <2>6. ASSUME pc'[a] = "zadd" PROVE user'[a] \in Users /\ entry[user'[a]] = "absent"
    <3>1. pc[a] = "findEntry" /\ user'[a] = user[a] /\ entry[user[a]] = "absent"
      BY <1>1, <2>1, <2>6 DEF Goto, Return, Forget, locals
    <3> QED
      BY <1>1, <3>1 DEF ServiceInv, Serves, BlankCalls
  <2>7. ASSUME NEW b \in Actors, pc[b] \in HeadCalls \cup {"zadd"} PROVE user[b] \in Users
    BY <2>7 DEF ServiceInv, Serves, BlankCalls, HeadCalls, PromotionCalls, TryCalls, SoldOutCalls
  <2> QED
    BY <1>1, <2>2, <2>3, <2>4, <2>5, <2>6, <2>7, QueueKept
<1> QED
  BY <1>2, <1>3

\* Time passes outside the queue, and a crash does not stop a join.
LEMMA EnvironmentQueue ==
    ASSUME Registered, TypeInv, QueueInv, Environment
    PROVE  QueueInv'
<1>1. UNCHANGED <<score, stamp, entry>>
  BY DEF Environment, InitializeSeats, OpenSales, CloseSales, Lapse, LockTTL,
     StallRunning, StallAbandoned, KeyTTL, Crash, cache, queue, tables
<1>2. /\ \A a \in Promoters : \/ pc'[a] = "idle"
                              \/ pc'[a] = pc[a] /\ user'[a] = user[a]
      /\ \A j \in Joiners : pc'[j] = pc[j] /\ user'[j] = user[j]
  <2>1. CASE \E I \in Instances : Crash(I)
    <3>1. PICK I \in Instances : Crash(I)
      BY <2>1
    <3>2. I \cap Joiners = {}
      BY <3>1 DEF Crash, Mishap, Registered
    <3> QED
      BY <3>1, <3>2 DEF Crash, Actors, TypeInv, ControlOK, LocalsOK
  <2>2. CASE ~\E I \in Instances : Crash(I)
    BY <2>2 DEF Environment, InitializeSeats, OpenSales, CloseSales, Lapse, LockTTL,
       StallRunning, StallAbandoned, KeyTTL, locals
  <2> QED
    BY <2>1, <2>2
<1>3. \A u \in Users \cup {None} : Joined(u) => Joined(u)'
  BY <1>1, <1>2 DEF Joined
<1>4. Queued' = Queued
  BY <1>1 DEF Queued
<1>5. ASSUME NEW u \in Queued' PROVE Joined(u)' /\ score'[u] <= stamp'
  BY <1>1, <1>3, <1>4, <1>5 DEF QueueInv, Queued
<1>6. ASSUME NEW a \in Promoters PROVE HoldsHead(a)'
  <2>1. user[a] \in Users \cup {None}
    BY DEF TypeInv, ControlOK, LocalsOK, Actors
  <2> QED
    BY <1>1, <1>2, <1>3, <1>4, <2>1 DEF QueueInv, HoldsHead, HeadCalls, PromotionCalls,
       TryCalls, SoldOutCalls
<1> QED
  BY <1>1, <1>2, <1>5, <1>6 DEF QueueInv

-----------------------------------------------------------------------------
(* First come, first served.                                               *)

\* Whoever is taken out of the queue is a head that was read before.
LEMMA HeadLeaves ==
    ASSUME TypeInv, QueueInv, [Next]_vars, NEW v \in Queued, score'[v] = 0
    PROVE  \A u \in Queued : score[v] <= score[u]
<1>1. score \in [Users -> Nat] /\ v \in Users /\ score[v] # 0 /\ Crons \subseteq Promoters
  BY DEF TypeInv, StoresOK, CacheOK, Queued, Promoters
<1>2. score' # score
  BY <1>1
<1>3. CASE \E a \in Promoters : RemoveFromQueue(a) \/ RemoveSoldOut(a)
  <2>1. PICK a \in Promoters : RemoveFromQueue(a) \/ RemoveSoldOut(a)
    BY <1>3
  <2>2. pc[a] \in HeadCalls /\ score' = [score EXCEPT ![user[a]] = 0]
    BY <2>1 DEF RemoveFromQueue, RemoveSoldOut, Await, ZRem, HeadCalls, PromotionCalls,
       TryCalls, SoldOutCalls
  <2>3. v = user[a]
    BY <1>1, <2>2
  <2> QED
    BY <2>2, <2>3 DEF QueueInv, HoldsHead
<1>4. CASE \E a \in Joiners \cup Payers : AddToQueue(a)
  <2>1. PICK a \in Joiners \cup Payers : AddToQueue(a)
    BY <1>4
  <2>2. PICK now \in {stamp, stamp + 1} \ {0} : ZAdd(user[a], now)
    BY <2>1 DEF AddToQueue
  <2> QED
    BY <1>1, <1>2, <2>2 DEF ZAdd
<1>5. CASE ~\E a \in Promoters : PromotionStep(a) \/ PromotionThrows(a) \/ StartCron(a)
  <2>1. \/ \E w \in Workers : TakeJob(w) \/ ExpiryStep(w) \/ ExpiryThrows(w)
        \/ \E j \in Joiners : JoinQueue(j)
        \/ \E p \in Payers : FindPayable(p)
        \/ \E a \in Joiners \cup Payers : RequestStep(a) \/ RequestThrows(a)
        \/ Environment
    BY <1>1, <1>2, <1>5 DEF Next, vars, cache, queue
  <2>2. \E a \in Joiners \cup Payers : AddToQueue(a)
    BY <1>2, <2>1 DEF ExpiryStep, ExpiryThrows, ExpiryRejects, TakeJob, FindReservation,
       SetLock, ExpireLock, IncrementSeats, MarkExpired, ExpireEntry, DelActive,
       DecrActiveCount, RequestStep, RequestThrows, RequestRejects, JoinQueue, FindPayable,
       FindEntry, SaveEntry, SavePaid, MarkDone, Environment, InitializeSeats, OpenSales,
       CloseSales, Lapse, LockTTL, StallRunning, StallAbandoned, KeyTTL, Crash, cache, queue
  <2> QED
    BY <2>2, <1>4
<1>6. CASE \E a \in Promoters : PromotionStep(a) \/ PromotionThrows(a) \/ StartCron(a)
  <2>1. \E a \in Promoters : RemoveFromQueue(a) \/ RemoveSoldOut(a)
    BY <1>2, <1>6 DEF StartCron, PromotionStep, PromotionThrows, PromotionRejects,
       GetActiveCount, GetNextInQueue, DecrementSeats, SaveReservation, AddJob, SetActive,
       SetexActive, IncrActiveCount, UndoSeat, RestoreSeat, MarkSoldOut, cache, queue
  <2> QED
    BY <2>1, <1>3
<1> QED
  BY <1>5, <1>6

LEMMA QueueInitially == Init => QueueInv
<1> SUFFICES ASSUME Init PROVE QueueInv
  OBVIOUS
<1>1. Queued = {} /\ \A a \in Actors : pc[a] = "idle"
  BY DEF Init, Queued
<1> QED
  BY <1>1 DEF QueueInv, HoldsHead, HeadCalls, PromotionCalls, TryCalls, SoldOutCalls, Actors

\* Every step of the sale keeps the promoters ahead of the queue.
LEMMA QueuePreserved ==
    ASSUME Registered, OneJoinEach, TypeInv, TypeInv', ServiceInv, QueueInv, [Next]_vars
    PROVE  QueueInv'
<1>1. CASE UNCHANGED vars
  BY <1>1 DEF vars, cache, queue, tables, locals, QueueInv, HoldsHead, Joined, Queued
<1>2. CASE Next
  <2>1. Crons \subseteq Promoters
    BY DEF Promoters
  <2> QED
    BY <1>2, <2>1, PromotionQueue, ExpiryQueue, RequestQueue, EnvironmentQueue DEF Next
<1> QED
  BY <1>1, <1>2

\* Nobody leaves the queue before somebody who joined strictly earlier,
\* whatever stale heads overlapping promoters work on and wherever they fail,
\* provided nobody sends two joins at once and a join that reached the queue
\* saves its row (requirement 4.1).
THEOREM ServedInOrder ==
    ASSUME Registered
    PROVE  Spec /\ []OneJoinEach => FirstComeFirstServed
<1> DEFINE IInv == TypeInv /\ ServiceInv /\ QueueInv
<1>1. Init => IInv
  BY TypesInitially, ServiceInitially, QueueInitially
<1>2. IInv /\ OneJoinEach /\ [Next]_vars => IInv'
  BY TypesPreserved, ServicePreserved, QueuePreserved
<1>3. IInv /\ [Next]_vars =>
        [\A u, v \in Queued : score[u] < score[v] /\ score'[v] = 0 => score'[u] = 0]_vars
  <2> SUFFICES ASSUME TypeInv, QueueInv, [Next]_vars, NEW u \in Queued, NEW v \in Queued,
                      score[u] < score[v], score'[v] = 0
               PROVE  FALSE
    OBVIOUS
  <2>1. score[u] \in Nat /\ score[v] \in Nat
    BY DEF TypeInv, StoresOK, CacheOK, Queued
  <2> QED
    BY <2>1, HeadLeaves
<1> QED
  BY <1>1, <1>2, <1>3, PTL DEF Spec, FirstComeFirstServed

-----------------------------------------------------------------------------
(* One promoter at a time.  What the code relies on without enforcing it:  *)
(* a user is promoted once when no promotion overlaps another and every    *)
(* promotion that saved a reservation takes its user out of the queue.     *)

OnePromotion ==
    \A a, b \in Promoters :
        pc[a] \in PromotionCalls /\ pc[b] \in PromotionCalls => a = b

\* a promotion that saved a reservation also takes its user out of the queue
Dequeued == Faults \cap {"addJob", "setActive", "removeFromQueue", "crash"} = {}

\* the promoter that has reserved for u and has not yet taken him out
HandsOver(a, u) == pc[a] \in {"addJob", "setActive", "removeFromQueue"} /\ user[a] = u
\* the promoter that has reserved for u and has not yet written his entry
Activates(a, u) == pc[a] \in {"addJob", "setActive"} /\ user[a] = u

\* the calls of a promoter that has no reservation for its user
SeatlessCalls == {"decrementSeats", "saveReservation", "restoreSeat", "markSoldOut",
                  "removeSoldOut"}

Unbooked(a) == pc[a] \in SeatlessCalls => \A r \in Rows : owner[r] # user[a]
Due(w) == pc[w] \in ExpiryCalls => res[w] \in lapsed
Booked(r) == /\ Joined(owner[r])
             /\ owner[r] \in Queued => \E a \in Promoters : HandsOver(a, owner[r])
NotSoldOut(r) == r \notin lapsed /\ entry[owner[r]] = "EXPIRED" =>
                    \E a \in Promoters : Activates(a, owner[r])

\* Nobody ever has two rows: a user with a row is out of the queue and cannot
\* come back.  This is more than OneReservationEach and is inductive.
OnceInv ==
    /\ \A r, s \in Rows : r # s => owner[r] # owner[s]
    /\ \A r \in Rows : Booked(r) /\ NotSoldOut(r)
    /\ \A a \in Promoters : Unbooked(a)
    /\ \A w \in Workers : Due(w)

\* A step of one handler that adds no row and nobody to the queue.
LEMMA OnceKept ==
    ASSUME TypeInv, TypeInv', ServiceInv, OnceInv, NEW a \in Actors, OthersHold(a),
           Rows' = Rows, \A r \in Rows : owner'[r] = owner[r], lapsed' = lapsed,
           \A u \in Users : score'[u] \in {score[u], 0},
           \A u \in Users : entry[u] = "absent" <=> entry'[u] = "absent",
           a \in Joiners => pc[a] # "saveEntry",
           \A r \in Rows \ lapsed : entry'[owner[r]] = "EXPIRED" => entry[owner[r]] = "EXPIRED",
           \A u \in Users : HandsOver(a, u) => HandsOver(a, u)' \/ score'[u] = 0,
           \A u \in Users : Activates(a, u) => Activates(a, u)' \/ entry'[u] # "EXPIRED",
           a \in Promoters => Unbooked(a)',
           a \in Workers => Due(a)'
    PROVE  OnceInv'
<1>1. Joiners \subseteq Actors /\ Promoters \subseteq Actors /\ Workers \subseteq Actors
  BY DEF Actors, Promoters
<1>2. \A r \in Rows : owner[r] \in Users
  BY DEF ServiceInv
<1>3. ASSUME NEW u \in Users, Joined(u) PROVE Joined(u)'
  BY <1>1, <1>3 DEF Joined, OthersHold
<1>4. ASSUME NEW r \in Rows PROVE Booked(r)'
  <2>1. Joined(owner[r])'
    BY <1>2, <1>3 DEF OnceInv, Booked, Joined
  <2>2. ASSUME owner[r] \in Queued' PROVE \E b \in Promoters : HandsOver(b, owner[r])'
    <3>1. score'[owner[r]] # 0 /\ owner[r] \in Queued
      BY <1>2, <2>2 DEF Queued
    <3>2. PICK b \in Promoters : HandsOver(b, owner[r])
      BY <3>1 DEF OnceInv, Booked
    <3>3. HandsOver(b, owner[r])'
      BY <1>1, <1>2, <3>1, <3>2 DEF OthersHold, HandsOver
    <3> QED
      BY <3>3
  <2> QED
    BY <2>1, <2>2 DEF Booked, HandsOver, Joined
<1>5. ASSUME NEW r \in Rows PROVE NotSoldOut(r)'
  <2>1. ASSUME r \notin lapsed, entry'[owner[r]] = "EXPIRED"
        PROVE  \E b \in Promoters : Activates(b, owner[r])'
    <3>1. PICK b \in Promoters : Activates(b, owner[r])
      BY <2>1 DEF OnceInv, NotSoldOut
    <3>2. Activates(b, owner[r])'
      BY <1>1, <1>2, <2>1, <3>1 DEF OthersHold, Activates
    <3> QED
      BY <3>2
  <2> QED
    BY <2>1 DEF NotSoldOut, Activates
<1>6. ASSUME NEW b \in Promoters PROVE Unbooked(b)'
  <2>1. CASE b = a
    BY <2>1
  <2>2. CASE b # a
    BY <1>1, <2>2 DEF OnceInv, Unbooked, OthersHold
  <2> QED
    BY <2>1, <2>2
<1>7. ASSUME NEW w \in Workers PROVE Due(w)'
  <2>1. CASE w = a
    BY <2>1
  <2>2. CASE w # a
    BY <1>1, <2>2 DEF OnceInv, Due, OthersHold
  <2> QED
    BY <2>1, <2>2
<1>8. \A r, q \in Rows' : r # q => owner'[r] # owner'[q]
  BY DEF OnceInv
<1> QED
  BY <1>4, <1>5, <1>6, <1>7, <1>8 DEF OnceInv

\* The row a promotion inserts is the first of its user, who stays queued only
\* while this promotion is handing over.
LEMMA SaveReservationOnce ==
    ASSUME OnePromotion, TypeInv, TypeInv', ServiceInv, QueueInv, OnceInv,
           NEW a \in Promoters, SaveReservation(a)
    PROVE  OnceInv'
<1>1. /\ a \in Actors /\ Promoters \subseteq Actors /\ Workers \subseteq Actors
      /\ pc \in [Actors -> Calls] /\ res \in [Actors -> Reservations \cup {None}]
      /\ status \in [Reservations -> ReservationStatuses]
      /\ owner \in [Reservations -> Users \cup {None}]
  BY DEF Actors, Promoters, TypeInv, ControlOK, LocalsOK, StoresOK, TablesOK
<1>2. PICK n \in Reservations \ Rows :
        /\ status' = [status EXCEPT ![n] = "PENDING_PAYMENT"]
        /\ owner' = [owner EXCEPT ![n] = user[a]]
        /\ res' = [res EXCEPT ![a] = n]
  BY DEF SaveReservation, IsFresh
<1>3. /\ pc[a] = "saveReservation" /\ pc' = [pc EXCEPT ![a] = "addJob"]
      /\ UNCHANGED <<user, score, entry, lapsed>>
  BY DEF SaveReservation, Await, Goto, cache, queue, world
<1>4. user[a] \in Users /\ Joined(user[a])
  BY <1>1, <1>3 DEF ServiceInv, Serves, BlankCalls, QueueInv, HoldsHead, HeadCalls,
     PromotionCalls, TryCalls, SoldOutCalls
<1>5. /\ Rows' = Rows \cup {n} /\ owner'[n] = user[a]
      /\ \A r \in Rows : owner'[r] = owner[r] /\ owner[r] # user[a]
  BY <1>1, <1>2, <1>3 DEF Rows, OnceInv, Unbooked, SeatlessCalls
<1>6. \A r, q \in Rows' : r # q => owner'[r] # owner'[q]
  BY <1>5 DEF OnceInv
<1>7. a \notin Joiners /\ Queued' = Queued
  BY ActorAssumption, <1>3 DEF Queued
<1>8. \A u \in Users : Joined(u) => Joined(u)'
  BY <1>1, <1>3, <1>7 DEF Joined, Actors
<1>9. ASSUME NEW r \in Rows' PROVE Booked(r)' /\ NotSoldOut(r)'
  <2>1. CASE r = n
    <3>1. owner'[r] = user'[a] /\ owner'[r] = user[a]
      BY <1>3, <1>5, <2>1
    <3>2. HandsOver(a, owner[r])' /\ Activates(a, owner[r])'
      BY <1>1, <1>3, <3>1 DEF HandsOver, Activates
    <3>3. Joined(owner[r])'
      BY <1>4, <1>8, <3>1 DEF Joined
    <3>4. Booked(r)' /\ NotSoldOut(r)'
      BY <3>2, <3>3 DEF Booked, NotSoldOut
    <3> QED
      BY <3>4
  <2>2. CASE r \in Rows
    <3>1. owner'[r] = owner[r] /\ owner[r] \in Users
      BY <1>5, <2>2 DEF ServiceInv
    <3>2. \A b \in Promoters : HandsOver(b, owner[r]) => HandsOver(b, owner[r])'
      BY <1>1, <1>3, <3>1 DEF HandsOver
    <3>3. \A b \in Promoters : Activates(b, owner[r]) => Activates(b, owner[r])'
      BY <1>1, <1>3, <3>1 DEF Activates
    <3>4. Booked(r)'
      BY <1>7, <1>8, <2>2, <3>1, <3>2 DEF OnceInv, Booked, HandsOver, Joined
    <3>5. NotSoldOut(r)'
      BY <1>3, <2>2, <3>1, <3>3 DEF OnceInv, NotSoldOut, Activates
    <3> QED
      BY <3>4, <3>5
  <2> QED
    BY <1>5, <2>1, <2>2
<1>10. ASSUME NEW b \in Promoters PROVE Unbooked(b)'
  <2>1. CASE b = a
    BY <1>1, <1>3, <2>1 DEF Unbooked, SeatlessCalls
  <2>2. CASE b # a
    BY <1>1, <1>3, <2>2 DEF OnePromotion, Unbooked, SeatlessCalls, PromotionCalls,
       TryCalls, SoldOutCalls
  <2> QED
    BY <2>1, <2>2
<1>11. ASSUME NEW w \in Workers PROVE Due(w)'
  BY <1>1, <1>2, <1>3 DEF OnceInv, Due, ExpiryCalls
<1> QED
  BY <1>6, <1>9, <1>10, <1>11 DEF OnceInv

\* A promotion turns away only users without a reservation, and the head it
\* reads has none, because no other promotion is handing it over.
LEMMA PromotionOnce ==
    ASSUME OnePromotion, Dequeued, TypeInv, TypeInv', ServiceInv, QueueInv, OnceInv,
           NEW a \in Promoters, StartCron(a) \/ PromotionStep(a) \/ PromotionThrows(a)
    PROVE  OnceInv'
<1>1. CASE SaveReservation(a)
  BY <1>1, SaveReservationOnce
<1>2. CASE ~SaveReservation(a)
  <2> USE DEF StartCron, PromotionStep, PromotionThrows, PromotionRejects, GetActiveCount,
              GetNextInQueue, DecrementSeats, AddJob, SetActive, RemoveFromQueue,
              SetexActive, IncrActiveCount, UndoSeat, RestoreSeat, MarkSoldOut,
              RemoveSoldOut, Await
  <2>1. /\ a \in Actors /\ a \notin Joiners
        /\ pc \in [Actors -> Calls] /\ user \in [Actors -> Users \cup {None}]
        /\ res \in [Actors -> Reservations \cup {None}]
        /\ score \in [Users -> Nat] /\ entry \in [Users -> EntryStatuses]
    BY ActorAssumption DEF Actors, TypeInv, ControlOK, LocalsOK, StoresOK, TablesOK, CacheOK
  <2>2. UNCHANGED <<status, owner, lapsed>>
    BY <1>2 DEF tables, world
  <2>3. Rows' = Rows
    BY <2>2 DEF Rows
  <2>4. \A u \in Users : score'[u] \in {score[u], 0}
    BY <2>1, <1>2 DEF cache, queue, ZRem
  <2>5. \A u \in Users : entry[u] = "absent" <=> entry'[u] = "absent"
    BY <2>1, <1>2 DEF tables, UpdateEntry
  <2>6. OthersHold(a)
    BY <2>1, <1>2 DEF Loop, Goto, Return, Forget, OthersHold, locals
  <2>7. ASSUME NEW r \in Rows \ lapsed, entry'[owner[r]] = "EXPIRED"
        PROVE  entry[owner[r]] = "EXPIRED"
    <3>1. owner[r] \in Users
      BY DEF ServiceInv
    <3>2. CASE MarkSoldOut(a)
      BY <2>1, <2>7, <3>1, <3>2 DEF UpdateEntry, OnceInv, Unbooked, SeatlessCalls
    <3>3. CASE ~MarkSoldOut(a)
      BY <1>2, <2>1, <2>7, <3>1, <3>3 DEF UpdateEntry, tables
    <3> QED
      BY <3>2, <3>3
  <2>8. ASSUME NEW u \in Users, HandsOver(a, u)
        PROVE  HandsOver(a, u)' \/ score'[u] = 0
    BY <1>2, <2>1, <2>8 DEF HandsOver, Mishap, Dequeued, Goto, ZRem, locals, PromotionCalls,
       TryCalls, SoldOutCalls
  <2>9. ASSUME NEW u \in Users, Activates(a, u)
        PROVE  Activates(a, u)' \/ entry'[u] # "EXPIRED"
    BY <1>2, <2>1, <2>9 DEF Activates, Mishap, Dequeued, Goto, UpdateEntry, locals,
       PromotionCalls, TryCalls, SoldOutCalls
  <2>10. Unbooked(a)'
    <3>1. SUFFICES ASSUME pc'[a] \in SeatlessCalls, NEW r \in Rows PROVE owner[r] # user'[a]
      BY <2>2, <2>3 DEF Unbooked
    <3>2. CASE GetNextInQueue(a)
      <4>1. pc[a] = "getNextInQueue" /\ user'[a] \in Queued
        BY <2>1, <3>1, <3>2 DEF IsNext, Return, Forget, SeatlessCalls
      <4>2. \A b \in Promoters : ~HandsOver(b, user'[a])
        BY <4>1 DEF OnePromotion, HandsOver, PromotionCalls, TryCalls, SoldOutCalls
      <4> QED
        BY <4>1, <4>2 DEF OnceInv, Booked
    <3>3. CASE ~GetNextInQueue(a)
      <4>1. pc[a] \in SeatlessCalls /\ user'[a] = user[a]
        BY <1>2, <2>1, <3>1, <3>3 DEF Loop, Goto, Return, Forget, locals, SeatlessCalls,
           PromotionCalls, TryCalls, SoldOutCalls
      <4> QED
        BY <4>1 DEF OnceInv, Unbooked
    <3> QED
      BY <3>2, <3>3
  <2>11. Due(a)'
    BY <1>2, <2>1 DEF Loop, Goto, Return, Forget, Due, ExpiryCalls, PromotionCalls,
       TryCalls, SoldOutCalls
  <2> QED
    BY <2>1, <2>2, <2>3, <2>4, <2>5, <2>6, <2>7, <2>8, <2>9, <2>10, <2>11, OnceKept
<1> QED
  BY <1>1, <1>2

\* An expiration is about a lapsed reservation, and the entry it marks is that
\* of the user whose only row this is.
LEMMA ExpiryOnce ==
    ASSUME TypeInv, TypeInv', ServiceInv, OnceInv, NEW w \in Workers,
           TakeJob(w) \/ ExpiryStep(w) \/ ExpiryThrows(w)
    PROVE  OnceInv'
<1> USE DEF ExpiryStep, ExpiryThrows, ExpiryRejects, TakeJob, FindReservation, SetLock,
            ExpireLock, IncrementSeats, MarkExpired, ExpireEntry, DelActive,
            DecrActiveCount, Await
<1>1. /\ w \in Actors /\ w \in Promoters /\ w \notin Joiners
      /\ pc \in [Actors -> Calls] /\ user \in [Actors -> Users \cup {None}]
      /\ res \in [Actors -> Reservations \cup {None}]
      /\ status \in [Reservations -> ReservationStatuses]
      /\ entry \in [Users -> EntryStatuses]
  BY ActorAssumption DEF Actors, Promoters, TypeInv, ControlOK, LocalsOK, StoresOK, TablesOK
<1>2. UNCHANGED <<score, owner, lapsed>>
  BY DEF cache, queue, tables, world
<1>3. Rows' = Rows
  <2>1. pc[w] = "markExpired" => res[w] \in Rows
    BY <1>1 DEF ServiceInv, Serves, RowCalls, ExpiryCalls
  <2> QED
    BY <1>1, <2>1 DEF Rows, tables
<1>4. \A u \in Users : entry[u] = "absent" <=> entry'[u] = "absent"
  BY <1>1 DEF tables, UpdateEntry
<1>5. OthersHold(w)
  BY <1>1 DEF Goto, Return, Forget, TriggerPromotion, OthersHold, locals
<1>6. ASSUME NEW r \in Rows \ lapsed, entry'[owner[r]] = "EXPIRED"
      PROVE  entry[owner[r]] = "EXPIRED"
  <2>1. owner[r] \in Users
    BY DEF ServiceInv
  <2>2. CASE ExpireEntry(w)
    <3>1. /\ res[w] \in Rows /\ owner[res[w]] = user[w] /\ res[w] \in lapsed
      BY <1>1, <2>2 DEF ServiceInv, Serves, RowCalls, ExpiryCalls, OnceInv, Due
    <3>2. owner[r] # user[w]
      BY <3>1 DEF OnceInv
    <3> QED
      BY <1>1, <1>6, <2>1, <2>2, <3>2 DEF UpdateEntry
  <2>3. CASE ~ExpireEntry(w)
    BY <1>1, <1>6, <2>1, <2>3 DEF tables
  <2> QED
    BY <2>2, <2>3
<1>7. ASSUME NEW u \in Users PROVE ~HandsOver(w, u) /\ ~Activates(w, u)
  BY <1>1 DEF HandsOver, Activates, ExpiryCalls
<1>8. Unbooked(w)'
  BY <1>1 DEF Goto, Return, Forget, TriggerPromotion, Unbooked, SeatlessCalls
<1>9. Due(w)'
  BY <1>1, <1>2 DEF Goto, Return, Forget, TriggerPromotion, Due, ExpiryCalls, OnceInv, locals
<1> QED
  BY <1>1, <1>2, <1>3, <1>4, <1>5, <1>6, <1>7, <1>8, <1>9, OnceKept

-----------------------------------------------------------------------------
(* Joins and time.                                                         *)

\* A step that touches neither the rows nor a promoter, and turns away nobody.
LEMMA OnceElsewhere ==
    ASSUME ServiceInv, OnceInv,
           Rows' = Rows, \A r \in Rows : owner'[r] = owner[r], lapsed \subseteq lapsed',
           \A u \in Users : Joined(u) => Joined(u)',
           \A r \in Rows : owner[r] \in Queued' => owner[r] \in Queued,
           \A r \in Rows : entry'[owner[r]] = "EXPIRED" => entry[owner[r]] = "EXPIRED",
           \A a \in Promoters : /\ pc'[a] = pc[a] /\ user'[a] = user[a]
                                /\ res'[a] = res[a]
    PROVE  OnceInv'
<1>1. \A r \in Rows : owner[r] \in Users
  BY DEF ServiceInv
<1>2. \A r \in Rows : Booked(r)'
  BY <1>1 DEF OnceInv, Booked, HandsOver, Joined
<1>3. \A r \in Rows : NotSoldOut(r)'
  BY <1>1 DEF OnceInv, NotSoldOut, Activates
<1>4. \A a \in Promoters : Unbooked(a)'
  BY DEF OnceInv, Unbooked
<1>5. \A w \in Workers : Due(w)'
  BY DEF OnceInv, Due, Promoters
<1>6. \A r, q \in Rows' : r # q => owner'[r] # owner'[q]
  BY DEF OnceInv
<1> QED
  BY <1>2, <1>3, <1>4, <1>5, <1>6 DEF OnceInv

\* A request adds no row; a join queues a user who has none.
LEMMA RequestOnce ==
    ASSUME Registered, OneJoinEach, TypeInv, ServiceInv, QueueInv, OnceInv,
           NEW a \in Joiners \cup Payers,
           \/ a \in Joiners /\ JoinQueue(a)
           \/ a \in Payers /\ FindPayable(a)
           \/ RequestStep(a) \/ RequestThrows(a)
    PROVE  OnceInv'
<1> USE DEF RequestStep, RequestThrows, RequestRejects, JoinQueue, FindPayable, FindEntry,
            AddToQueue, SaveEntry, SavePaid, MarkDone, Await
<1>1. /\ a \in Actors /\ a \notin Promoters
      /\ Joiners \subseteq Actors /\ Promoters \subseteq Actors
      /\ pc \in [Actors -> Calls] /\ user \in [Actors -> Users \cup {None}]
      /\ res \in [Actors -> Reservations \cup {None}]
      /\ score \in [Users -> Nat] /\ entry \in [Users -> EntryStatuses]
      /\ status \in [Reservations -> ReservationStatuses]
      /\ a \in Payers => a \notin Joiners
      /\ a \in Joiners => pc[a] \in JoinCalls \cup {"idle"}
      /\ a \in Payers => pc[a] \in PayCalls \cup {"idle"}
  BY ActorAssumption DEF Actors, TypeInv, ControlOK, LocalsOK, HandlersOK, StoresOK,
     TablesOK, CacheOK
<1>2. UNCHANGED <<owner, lapsed>>
  BY DEF tables, world
<1>3. Rows' = Rows
  <2>1. pc[a] = "savePaid" => res[a] \in Rows
    BY <1>1 DEF ServiceInv, Serves, RowCalls, PayCalls
  <2> QED
    BY <1>1, <2>1 DEF Rows, tables
<1>4. OthersHold(a)
  BY <1>1 DEF Goto, Return, Forget, OthersHold, locals
<1>5. \A u \in Users : entry[u] # "absent" => entry'[u] # "absent"
  BY <1>1 DEF tables, UpdateEntry
<1>6. pc[a] = "saveEntry" => entry'[user[a]] # "absent"
  <2>1. pc[a] = "saveEntry" => user[a] \in Users /\ SaveEntry(a)
    BY <1>1 DEF ServiceInv, Serves, BlankCalls, Mishap, Registered, JoinCalls, PayCalls
  <2> QED
    BY <1>1, <2>1
<1>7. ASSUME NEW u \in Users, Joined(u) PROVE Joined(u)'
  BY <1>1, <1>4, <1>5, <1>6, <1>7 DEF Joined, OthersHold
<1>8. ASSUME NEW r \in Rows, owner[r] \in Queued' PROVE owner[r] \in Queued
  <2>1. CASE a \in Joiners /\ AddToQueue(a)
    <3>1. user[a] \in Users /\ ~Joined(user[a])
      BY <1>1, <2>1 DEF ServiceInv, Serves, BlankCalls, QueueInv, Joined, OneJoinEach
    <3>2. owner[r] # user[a]
      BY <3>1 DEF OnceInv, Booked
    <3> QED
      BY <1>1, <1>8, <2>1, <3>1, <3>2 DEF ZAdd, Queued
  <2>2. CASE ~(a \in Joiners /\ AddToQueue(a))
    <3>1. UNCHANGED score
      BY <1>1, <2>2 DEF cache, queue, PayCalls
    <3> QED
      BY <1>8, <3>1 DEF Queued
  <2> QED
    BY <2>1, <2>2
<1>9. ASSUME NEW r \in Rows, entry'[owner[r]] = "EXPIRED" PROVE entry[owner[r]] = "EXPIRED"
  <2>1. owner[r] \in Users
    BY DEF ServiceInv
  <2> QED
    BY <1>1, <1>9, <2>1 DEF UpdateEntry, tables
<1>10. \A b \in Promoters : pc'[b] = pc[b] /\ user'[b] = user[b] /\ res'[b] = res[b]
  BY <1>1, <1>4 DEF OthersHold
<1> QED
  BY <1>2, <1>3, <1>7, <1>8, <1>9, <1>10, OnceElsewhere

\* Time and BullMQ leave rows, entries and the queue alone.
LEMMA EnvironmentOnce ==
    ASSUME Dequeued, ServiceInv, OnceInv, Environment
    PROVE  OnceInv'
<1>1. ~\E I \in Instances : Crash(I)
  BY DEF Crash, Mishap, Dequeued
<1>2. UNCHANGED <<score, entry, status, owner, pc, user, res>> /\ lapsed \subseteq lapsed'
  BY <1>1 DEF Environment, InitializeSeats, OpenSales, CloseSales, Lapse, LockTTL,
     StallRunning, StallAbandoned, KeyTTL, cache, queue, tables, world, locals
<1>3. Rows' = Rows /\ Queued' = Queued /\ \A u \in Users : Joined(u) => Joined(u)'
  BY <1>2 DEF Rows, Queued, Joined
<1> QED
  BY <1>2, <1>3, OnceElsewhere

LEMMA OnceInitially ==
    ASSUME Init
    PROVE  OnceInv
<1>1. Rows = {} /\ \A a \in Actors : pc[a] = "idle"
  BY DEF Init, Rows
<1> QED
  BY <1>1 DEF OnceInv, Unbooked, Due, SeatlessCalls, ExpiryCalls, Actors, Promoters

\* Every step of a sale without overlapping promotions keeps one row each.
LEMMA OncePreserved ==
    ASSUME Registered, Dequeued, OneJoinEach, OnePromotion, TypeInv, TypeInv', ServiceInv,
           QueueInv, OnceInv, [Next]_vars
    PROVE  OnceInv'
<1>1. CASE UNCHANGED vars
  <2>1. Rows' = Rows /\ Queued' = Queued /\ \A u \in Users : Joined(u) => Joined(u)'
    BY <1>1 DEF vars, cache, queue, tables, locals, Rows, Queued, Joined
  <2> QED
    BY <1>1, <2>1, OnceElsewhere DEF vars, tables, world, locals
<1>2. CASE Next
  <2>1. Crons \subseteq Promoters
    BY DEF Promoters
  <2> QED
    BY <1>2, <2>1, PromotionOnce, ExpiryOnce, RequestOnce, EnvironmentOnce DEF Next
<1> QED
  BY <1>1, <1>2

\* What the two properties rest on: nobody ever has two rows.
LEMMA RowsOnce ==
    ASSUME Registered, Dequeued
    PROVE  Spec /\ []OneJoinEach /\ []OnePromotion => []OnceInv
<1> DEFINE IInv == TypeInv /\ ServiceInv /\ QueueInv /\ OnceInv
<1>1. Init => IInv
  BY TypesInitially, ServiceInitially, QueueInitially, OnceInitially
<1>2. IInv /\ OneJoinEach /\ OnePromotion /\ [Next]_vars => IInv'
  BY TypesPreserved, ServicePreserved, QueuePreserved, OncePreserved
<1>3. IInv => OnceInv
  OBVIOUS
<1> QED
  BY <1>1, <1>2, <1>3, PTL DEF Spec

\* Nobody holds two unpaid reservations when promotions do not overlap, the
\* promotion inside a worker included, and none fails between the INSERT of a
\* reservation and the ZREM of its user (requirement 12.3).
THEOREM PromotedOnce ==
    ASSUME Registered, Dequeued
    PROVE  Spec /\ []OneJoinEach /\ []OnePromotion => []OneReservationEach
<1>1. OnceInv => OneReservationEach
  BY DEF OnceInv, OneReservationEach, Pending, Rows
<1> QED
  BY <1>1, RowsOnce, PTL

\* Under the same conditions nobody who can still pay is shown as EXPIRED once
\* the handlers have returned: the sold-out path meets only users without a
\* reservation, the expiration only the owner of the reservation it expires.
THEOREM HolderServed ==
    ASSUME Registered, Dequeued
    PROVE  Spec /\ []OneJoinEach /\ []OnePromotion => []HolderNotTurnedAway
<1>1. OnceInv => HolderNotTurnedAway
  BY DEF OnceInv, NotSoldOut, Activates, HolderNotTurnedAway, Idle, Pending, Rows, Actors
<1> QED
  BY <1>1, RowsOnce, PTL

=============================================================================
