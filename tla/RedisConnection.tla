--------------------------- MODULE RedisConnection ---------------------------
(***************************************************************************)
(* The sale with the Redis client of each application instance             *)
(* (RedisService): a broken connection, commands that wait in the client   *)
(* or are sent a second time, and a client that gives up for good.         *)
(* BullMQ and Postgres have connections of their own and go on.            *)
(*                                                                         *)
(* While the client reconnects its commands wait.  On every close it asks  *)
(* retryStrategy, with the number of closes since it was last ready,       *)
(* whether to go on; once it does not, each command is rejected at once.   *)
(* A command whose reply was lost with the connection is sent again.       *)
(***************************************************************************)
EXTENDS TicketQueue

CONSTANT Resent   \* the calls that a lost reply makes Redis execute twice

\* to execute any other call twice in a row is to execute it once
NotIdempotent == {"decrementSeats", "incrementSeats", "undoSeat", "restoreSeat",
                  "incrActiveCount", "decrActiveCount", "delActive", "setnx",
                  "zadd"}

ASSUME ResentAssumption == Resent \subseteq NotIdempotent

VARIABLES
    link,          \* the status of the client of each instance
    retryAttempts  \* its closes since it was last ready

links == <<link, retryAttempts>>
linkVars == <<vars, links>>

RedisCalls == {"getActiveCount", "getNextInQueue", "decrementSeats",
               "removeFromQueue", "setexActive", "incrActiveCount", "undoSeat",
               "restoreSeat", "removeSoldOut", "setnx", "expireLock",
               "incrementSeats", "delActive", "decrActiveCount", "zadd"}

\* findAll of the cron tick and findById of a join read the counter first; a
\* repeated join reads its position
NeedsRedis(a) == \/ pc[a] \in RedisCalls
                 \/ pc[a] = "idle" /\ a \in Crons \cup Joiners
                 \/ pc[a] = "findEntry" /\ entry[user[a]] # "absent"

\* the connection serves the actor's next call, or the call needs none
Served(a) ==
    NeedsRedis(a) => \A I \in Instances : a \in I => link[I] = "ready"

Cut(a) == NeedsRedis(a) /\ \E I \in Instances : a \in I /\ link[I] = "end"

LinkInit == /\ Init
            /\ link = [I \in Instances |-> "ready"]
            /\ retryAttempts = [I \in Instances |-> 0]

-----------------------------------------------------------------------------
(* The client.                                                             *)

\* maxRetriesPerRequest null, as BullMQ wants it, and a delay every time
RetryStrategy_Forever(times) == "reconnecting"

\* null after 3 retries; maxRetriesPerRequest 3 would reject the commands that
\* wait at the fourth close, which is the one that ends the client
RetryStrategy(times) == IF times > 3 THEN "end" ELSE "reconnecting"

\* the connection, or an attempt to restore it, is closed; bound: the count
\* starts again after 4, where the strategy has given up
Close(I) ==
    LET times == (retryAttempts[I] % 4) + 1 IN
    /\ retryAttempts' = [retryAttempts EXCEPT ![I] = times]
    /\ link' = [link EXCEPT ![I] = RetryStrategy(times)]

SeatDelta(call) == CASE call = "decrementSeats" -> -1
                     [] call \in {"incrementSeats", "undoSeat", "restoreSeat"} -> 1
                     [] OTHER -> 0
ActiveDelta(call) == CASE call = "incrActiveCount" -> 1
                       [] call = "decrActiveCount" -> -1
                       [] OTHER -> 0

\* Redis executed the command the actor awaits, and the reply was lost
Unanswered(a) ==
    /\ pc[a] \in Resent
    /\ seats' = seats + SeatDelta(pc[a])
    /\ activeCount' = activeCount + ActiveDelta(pc[a])
    /\ activeKey' = IF pc[a] = "delActive"
                    THEN [activeKey EXCEPT ![user[a]] = None] ELSE activeKey
    /\ lock' = IF pc[a] = "setnx" /\ lock[res[a]] = "free"
               THEN [lock EXCEPT ![res[a]] = "set"] ELSE lock
    /\ IF pc[a] = "zadd" THEN ZAdd(user[a], stamp + 1) ELSE UNCHANGED queue

\* bound: one of the commands under way was executed, or none
Break(I) ==
    /\ link[I] = "ready"
    /\ Mishap("break")
    /\ Close(I)
    /\ \/ UNCHANGED <<seats, cache>>
       \/ \E a \in I : Unanswered(a)
    /\ UNCHANGED <<tables, jobs, lapsed, sales, provisioned, pc, locals, credited>>

RetryFails(I) ==
    /\ link[I] = "reconnecting"
    /\ Close(I)
    /\ UNCHANGED vars

Reconnect(I) ==
    /\ link[I] = "reconnecting"
    /\ link' = [link EXCEPT ![I] = "ready"]
    /\ retryAttempts' = [retryAttempts EXCEPT ![I] = 0]
    /\ UNCHANGED vars

\* a process that is started again has a new client; restarting an idle one
\* leads to a state that is reached without the broken connection
Restart(I) ==
    /\ Crash(I)
    /\ link' = [link EXCEPT ![I] = "ready"]
    /\ retryAttempts' = [retryAttempts EXCEPT ![I] = 0]

-----------------------------------------------------------------------------
(* The handlers.                                                           *)

Starts(a) == \/ a \in Crons /\ StartCron(a)
             \/ a \in Workers /\ TakeJob(a)
             \/ a \in Joiners /\ JoinQueue(a)
             \/ a \in Payers /\ FindPayable(a)

\* the actor's call is answered, or rejected by a client that has ended
Proceeds(a) ==
    /\ pc[a] # "idle"
    /\ \/ /\ Served(a)
          /\ PromotionStep(a) \/ ExpiryStep(a) \/ RequestStep(a)
       \/ /\ Cut(a)
          /\ PromotionRejects(a) \/ ExpiryRejects(a) \/ RequestRejects(a)
          /\ UNCHANGED mishaps
    /\ UNCHANGED links

Throws(a) == /\ Served(a)
             /\ PromotionThrows(a) \/ ExpiryThrows(a) \/ RequestThrows(a)

LinkNext ==
    \/ \E a \in Actors : Proceeds(a)
    \/ \E a \in Actors : Served(a) /\ Starts(a) /\ UNCHANGED links
    \/ \E a \in Actors : Throws(a) /\ UNCHANGED links
    \/ \E I \in Instances : Break(I) \/ RetryFails(I) \/ Reconnect(I) \/ Restart(I)
    \/ Environment /\ UNCHANGED <<pc, links>>

\* a call is answered or rejected, an attempt to reconnect has an outcome
LinkFairness ==
    /\ \A a \in Actors : WF_linkVars(Proceeds(a))
    /\ \A I \in Instances : WF_linkVars(RetryFails(I) \/ Reconnect(I))

LinkSpec == LinkInit /\ [][LinkNext]_linkVars /\ LinkFairness

-----------------------------------------------------------------------------
\* Every handler returns, whatever becomes of its connection: no cron tick, job
\* or request waits for Redis for ever (unless the instance of the model has
\* no reservation ids left).
HandlersReturn ==
    \A a \in Actors : pc[a] # "idle" ~> pc[a] = "idle" \/ Rows = Reservations
=============================================================================
