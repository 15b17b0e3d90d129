--------------------------- MODULE QueuePromotion ---------------------------
(***************************************************************************)
(* QueueService.promoteUsers and what it calls, run by the cron of         *)
(* QueuePromotionProcessor and, after an expiration, by a worker: for each *)
(* free slot take the head of the wait queue, take a seat with DECR, and   *)
(* either create a reservation and make the user active, or put the seat   *)
(* back and expire the user as sold out.                                   *)
(***************************************************************************)
EXTENDS TicketStore

\* the calls inside the try block of handleSuccessfulPromotion
TryCalls == {"saveReservation", "addJob", "setActive", "removeFromQueue",
             "setexActive", "incrActiveCount"}
\* those that run after the reservation row is committed
AfterSave == TryCalls \ {"saveReservation"}
SoldOutCalls == {"restoreSeat", "markSoldOut", "removeSoldOut"}
PromotionCalls == TryCalls \cup SoldOutCalls \cup
    {"getActiveCount", "getNextInQueue", "decrementSeats", "undoSeat"}

\* handlePromotionCheck: only events whose sales window is open are promoted
StartCron(c) ==
    /\ Await(c, "idle", "getActiveCount")
    /\ sales = "open"
    /\ UNCHANGED <<seats, cache, tables, jobs, world, locals, credited>>

\* the for loop of promoteUsers, with n iterations left
Loop(a, n) ==
    IF n = 0
    THEN Return(a)
    ELSE /\ Goto(a, "getNextInQueue")
         /\ slots' = [slots EXCEPT ![a] = n]
         /\ user' = [user EXCEPT ![a] = None]
         /\ res' = [res EXCEPT ![a] = None]
         /\ UNCHANGED <<job, jobs>>

SlotsAvailable_Inclusive ==
    IF activeCount > MaxActive THEN 0 ELSE MaxActive - activeCount + 1

SlotsAvailable_Unclamped == MaxActive - activeCount

SlotsAvailable ==
    IF activeCount > MaxActive THEN 0 ELSE MaxActive - activeCount

GetActiveCount(a) ==
    /\ pc[a] = "getActiveCount"
    /\ Loop(a, SlotsAvailable)
    /\ UNCHANGED <<seats, cache, tables, world, credited>>

GetNextInQueue(a) ==
    /\ pc[a] = "getNextInQueue"
    /\ \/ /\ Queued = {}
          /\ Return(a)
       \/ \E u \in Users :
            /\ IsNext(u)
            /\ user' = [user EXCEPT ![a] = u]
            /\ Goto(a, "decrementSeats")
            /\ UNCHANGED <<jobs, slots, res, job>>
    /\ UNCHANGED <<seats, cache, tables, world, credited>>

SeatGranted_OneMore(remaining) == remaining >= -1

SeatGranted_KeepsLast(remaining) == remaining > 0

\* promoteNextUser: the value DECR returned decides
SeatGranted(remaining) == remaining >= 0

DecrementSeats(a) ==
    /\ pc[a] = "decrementSeats"
    /\ seats' = seats - 1
    /\ Goto(a, IF SeatGranted(seats - 1) THEN "saveReservation" ELSE "restoreSeat")
    /\ UNCHANGED <<cache, tables, jobs, world, locals, credited>>

-----------------------------------------------------------------------------
(* handleSuccessfulPromotion                                               *)

\* createReservation: INSERT of a PENDING_PAYMENT row
SaveReservation(a) ==
    /\ Await(a, "saveReservation", "addJob")
    /\ \E r \in Reservations :
         /\ IsFresh(r)
         /\ status' = [status EXCEPT ![r] = "PENDING_PAYMENT"]
         /\ owner' = [owner EXCEPT ![r] = user[a]]
         /\ res' = [res EXCEPT ![a] = r]
    /\ UNCHANGED <<seats, cache, entry, jobs, world, slots, user, job,
                   credited>>

\* createReservation: expirationQueue.add with a delay of 300 s
AddJob(a) ==
    /\ Await(a, "addJob", "setActive")
    /\ jobs' = [jobs EXCEPT ![res[a]] = [NoJob EXCEPT !.state = "delayed"]]
    /\ UNCHANGED <<seats, cache, tables, world, locals, credited>>

SetActive(a) ==
    /\ Await(a, "setActive", "removeFromQueue")
    /\ UpdateEntry(user[a], "ACTIVE")
    /\ UNCHANGED <<seats, cache, status, owner, jobs, world, locals, credited>>

RemoveFromQueue_Skipped(a) ==
    /\ Await(a, "removeFromQueue", "setexActive")
    /\ UNCHANGED <<seats, cache, tables, jobs, world, locals, credited>>

RemoveFromQueue(a) ==
    /\ Await(a, "removeFromQueue", "setexActive")
    /\ ZRem(user[a])
    /\ UNCHANGED <<seats, stamp, active, lock, tables, jobs, world, locals,
                   credited>>

\* RedisService.setActiveUser, first command
SetexActive(a) ==
    /\ Await(a, "setexActive", "incrActiveCount")
    /\ activeKey' = [activeKey EXCEPT ![user[a]] = res[a]]
    /\ UNCHANGED <<seats, queue, activeCount, lock, tables, jobs, world,
                   locals, credited>>

\* RedisService.setActiveUser, second command; the promotion is complete
IncrActiveCount(a) ==
    /\ pc[a] = "incrActiveCount"
    /\ activeCount' = activeCount + 1
    /\ Loop(a, slots[a] - 1)
    /\ UNCHANGED <<seats, queue, activeKey, lock, tables, world, credited>>

\* the catch block puts the seat back, whatever part of the try block threw;
\* promoteUsersForEvent swallows the rethrown error, so the loop ends
UndoSeat(a) ==
    /\ pc[a] = "undoSeat"
    /\ seats' = seats + 1
    /\ credited' = IF res[a] = None THEN credited ELSE credited \cup {res[a]}
    /\ Return(a)
    /\ UNCHANGED <<cache, tables, world>>

-----------------------------------------------------------------------------
(* handleSoldOut                                                           *)

RestoreSeat_Skipped(a) ==
    /\ Await(a, "restoreSeat", "markSoldOut")
    /\ UNCHANGED <<seats, cache, tables, jobs, world, locals, credited>>

RestoreSeat(a) ==
    /\ Await(a, "restoreSeat", "markSoldOut")
    /\ seats' = seats + 1
    /\ UNCHANGED <<cache, tables, jobs, world, locals, credited>>

MarkSoldOut(a) ==
    /\ Await(a, "markSoldOut", "removeSoldOut")
    /\ UpdateEntry(user[a], "EXPIRED")
    /\ UNCHANGED <<seats, cache, status, owner, jobs, world, locals, credited>>

\* 'sold_out' ends the loop of promoteUsers
RemoveSoldOut(a) ==
    /\ pc[a] = "removeSoldOut"
    /\ ZRem(user[a])
    /\ Return(a)
    /\ UNCHANGED <<seats, stamp, active, lock, tables, world, credited>>

-----------------------------------------------------------------------------
PromotionRejects_KeepsSeat(a) ==
    /\ pc[a] \in PromotionCalls
    /\ Return(a)
    /\ UNCHANGED <<seats, cache, tables, lapsed, sales, provisioned, credited>>

PromotionRejects_AlwaysUndo(a) ==
    /\ pc[a] \in PromotionCalls
    /\ Goto(a, "undoSeat")
    /\ UNCHANGED <<seats, cache, tables, jobs, lapsed, sales, provisioned,
                   locals, credited>>

\* a call of the promotion rejects before taking effect: inside the try block
\* control goes to the catch block, elsewhere to promoteUsersForEvent
PromotionRejects(a) ==
    /\ pc[a] \in PromotionCalls
    /\ \/ /\ pc[a] \in TryCalls
          /\ Goto(a, "undoSeat")
          /\ UNCHANGED <<jobs, locals>>
       \/ /\ pc[a] \notin TryCalls
          /\ Return(a)
    /\ UNCHANGED <<seats, cache, tables, lapsed, sales, provisioned, credited>>

PromotionThrows(a) == Mishap(pc[a]) /\ PromotionRejects(a)

PromotionStep(a) ==
    \/ GetActiveCount(a) \/ GetNextInQueue(a) \/ DecrementSeats(a)
    \/ SaveReservation(a) \/ AddJob(a) \/ SetActive(a) \/ RemoveFromQueue(a)
    \/ SetexActive(a) \/ IncrActiveCount(a) \/ UndoSeat(a)
    \/ RestoreSeat(a) \/ MarkSoldOut(a) \/ RemoveSoldOut(a)
=============================================================================
