--------------------------- MODULE ClientRequests ---------------------------
(***************************************************************************)
(* The two requests of a ticket buyer that change state: joining the queue *)
(* (QueueService.joinQueue) and paying (ReservationsService.processPayment) *)
(***************************************************************************)
EXTENDS TicketStore

JoinCalls == {"findEntry", "zadd", "saveEntry"}
PayCalls == {"savePaid", "markDone"}

\* the event is found and now is inside the sales window
JoinQueue(j) ==
    /\ Await(j, "idle", "findEntry")
    /\ sales = "open"
    /\ \E u \in Users : user' = [user EXCEPT ![j] = u]
    /\ UNCHANGED <<seats, cache, tables, jobs, world, slots, res, job,
                   credited>>

\* 'Already in queue' only reads
FindEntry(j) ==
    /\ pc[j] = "findEntry"
    /\ \/ /\ entry[user[j]] = "absent"
          /\ Goto(j, "zadd")
          /\ UNCHANGED <<jobs, locals>>
       \/ /\ entry[user[j]] # "absent"
          /\ Return(j)
    /\ UNCHANGED <<seats, cache, tables, world, credited>>

\* addToQueue; Date.now() may equal the stamp of the previous join
AddToQueue(j) ==
    /\ Await(j, "zadd", "saveEntry")
    /\ \E now \in {stamp, stamp + 1} \ {0} : ZAdd(user[j], now)
    /\ UNCHANGED <<seats, active, lock, tables, jobs, world, locals, credited>>

\* INSERT; the unique index on (eventId, userId) rejects a second row
SaveEntry(j) ==
    /\ pc[j] = "saveEntry"
    /\ entry' = IF entry[user[j]] = "absent"
                THEN [entry EXCEPT ![user[j]] = "WAITING"] ELSE entry
    /\ Return(j)
    /\ UNCHANGED <<seats, cache, status, owner, world, credited>>

Payable_NoDeadline(r) == r \in Pending

\* processPayment: the row is PENDING_PAYMENT and expiresAt has not passed
Payable(r) == r \in Pending \ lapsed

\* the owner's request is accepted; any other request is rejected unchanged
FindPayable(p) ==
    /\ Await(p, "idle", "savePaid")
    /\ \E r \in Reservations :
         /\ Payable(r)
         /\ res' = [res EXCEPT ![p] = r]
         /\ user' = [user EXCEPT ![p] = owner[r]]
    /\ UNCHANGED <<seats, cache, tables, jobs, world, slots, job, credited>>

\* save writes the status by id, whatever it has become since the check
SavePaid(p) ==
    /\ Await(p, "savePaid", "markDone")
    /\ status' = [status EXCEPT ![res[p]] = "PAID"]
    /\ UNCHANGED <<seats, cache, entry, owner, jobs, world, locals, credited>>

MarkDone(p) ==
    /\ pc[p] = "markDone"
    /\ UpdateEntry(user[p], "DONE")
    /\ Return(p)
    /\ UNCHANGED <<seats, cache, status, owner, world, credited>>

\* a call of the request rejects before taking effect: the client gets a 500
RequestRejects(a) ==
    /\ pc[a] \in JoinCalls \cup PayCalls
    /\ Return(a)
    /\ UNCHANGED <<seats, cache, tables, lapsed, sales, provisioned, credited>>

RequestThrows(a) == Mishap(pc[a]) /\ RequestRejects(a)

RequestStep(a) ==
    \/ FindEntry(a) \/ AddToQueue(a) \/ SaveEntry(a)
    \/ SavePaid(a) \/ MarkDone(a)
=============================================================================
