------------------------------ MODULE BuyerView ------------------------------
(***************************************************************************)
(* What a buyer's page (public/index.html) knows of the sale.  The         *)
(* handlers end by emitting a Socket.IO message to the room of the user    *)
(* (NotificationService, NotificationGateway); it reaches the sockets      *)
(* that are in the room at that moment, in the order of the emits, and     *)
(* nobody else, ever.  A payment is also confirmed by its HTTP reply.  The *)
(* page pays for the reservation it was told of.                           *)
(*                                                                         *)
(* Messages and replies that carry no reservation (queue:soldout, the      *)
(* answers to join and to the status query) only change other parts of the *)
(* page and are left out, and so is queue:position, which no code emits.   *)
(***************************************************************************)
EXTENDS TicketQueue, Sequences

VARIABLES
    connected,    \* users whose socket has joined the room user:{id}
    inbox,        \* the messages emitted to a user's socket, not yet received
    confirmed,    \* users whose pay request succeeded, the reply on its way
    known,        \* the page's currentReservationId
    shown,        \* the page's reservation-status
    interrupted   \* history: users once offline after they asked to join

page == <<known, shown>>
sockets == <<connected, inbox, confirmed, interrupted>>
viewVars == <<vars, sockets, page>>

ViewInit == /\ Init
            /\ connected = {}
            /\ inbox = [u \in Users |-> <<>>]
            /\ confirmed = {}
            /\ known = [u \in Users |-> None]
            /\ shown = [u \in Users |-> "-"]
            /\ interrupted = {}

-----------------------------------------------------------------------------
(* The gateway.                                                            *)

\* handleConnection: the token is valid and the socket joins the room
Connect(u) ==
    /\ u \notin connected
    /\ connected' = connected \cup {u}
    /\ UNCHANGED <<vars, inbox, confirmed, interrupted, page>>

\* the socket closes; what it did not receive is lost, the page stays
Disconnect(u) ==
    /\ u \in connected
    /\ Mishap("lostSocket")
    /\ connected' = connected \ {u}
    /\ inbox' = [inbox EXCEPT ![u] = <<>>]
    /\ interrupted' = interrupted \cup {u}
    /\ UNCHANGED <<seats, cache, tables, jobs, lapsed, sales, provisioned, pc,
                   locals, credited, confirmed, page>>

Tell_Everyone(u, event, r) ==
    inbox' = [v \in Users |->
                IF v \in connected
                THEN Append(inbox[v], [event |-> event, res |-> r]) ELSE inbox[v]]

\* emitToUser: server.to(room).emit
Tell(u, event, r) ==
    inbox' = IF u \in connected
             THEN [inbox EXCEPT ![u] = Append(@, [event |-> event, res |-> r])]
             ELSE inbox

-----------------------------------------------------------------------------
(* The handlers, with the message they end by.                             *)

\* notifyActiveStatus once setActiveUser has returned
Promote(a) ==
    /\ PromotionStep(a)
    /\ IF pc[a] = "incrActiveCount" THEN Tell(user[a], "queue:active", res[a])
                                    ELSE UNCHANGED inbox
    /\ UNCHANGED <<connected, confirmed, interrupted, page>>

\* notifyReservationExpired once removeActiveUser has returned
Expire(w) ==
    /\ ExpiryStep(w)
    /\ IF pc'[w] = "getActiveCount"
       THEN Tell(user[w], "reservation:expired", res[w]) ELSE UNCHANGED inbox
    /\ UNCHANGED <<connected, confirmed, interrupted, page>>

\* notifyPaymentSuccess and the HTTP reply, after the entry is DONE
FinishPayment(p) ==
    /\ MarkDone(p)
    /\ Tell(user[p], "reservation:paid", res[p])
    /\ confirmed' = confirmed \cup {user[p]}
    /\ UNCHANGED <<connected, interrupted, page>>

\* joinQueue of the page; with "lateSocket" before the socket is connected,
\* which the page does not wait for
AskToJoin(j) ==
    /\ JoinQueue(j)
    /\ LET u == user'[j] IN
         /\ u \in connected \/ "lateSocket" \in Faults
         /\ interrupted' = IF u \in connected THEN interrupted
                                              ELSE interrupted \cup {u}
    /\ UNCHANGED <<connected, inbox, confirmed, page>>

\* processPayment of the page, with the id it knows
AskToPay(p) ==
    /\ FindPayable(p)
    /\ known[user'[p]] = res'[p]
    /\ UNCHANGED <<sockets, page>>

\* every other step of the system says nothing to anybody
Silent ==
    /\ \/ \E c \in Crons : StartCron(c)
       \/ \E w \in Workers : TakeJob(w) \/ ExpiryThrows(w)
       \/ \E a \in Promoters : PromotionThrows(a)
       \/ \E a \in Joiners \cup Payers :
            RequestThrows(a) \/ (pc[a] # "markDone" /\ RequestStep(a))
       \/ Environment
    /\ UNCHANGED <<sockets, page>>

-----------------------------------------------------------------------------
(* The page.                                                               *)

\* the socket.on handlers: none compares data.reservationId with the id shown
Receive(u) ==
    /\ inbox[u] # <<>>
    /\ inbox' = [inbox EXCEPT ![u] = Tail(@)]
    /\ LET m == Head(inbox[u]) IN
         \/ /\ m.event = "queue:active"
            /\ known' = [known EXCEPT ![u] = m.res]
            /\ shown' = [shown EXCEPT ![u] = "PENDING_PAYMENT"]
         \/ /\ m.event = "reservation:expired"
            /\ shown' = [shown EXCEPT ![u] = "EXPIRED"]
            /\ UNCHANGED known
         \/ /\ m.event = "reservation:paid"
            /\ shown' = [shown EXCEPT ![u] = "PAID"]
            /\ UNCHANGED known
    /\ UNCHANGED <<vars, connected, confirmed, interrupted>>

\* the page's pay request was answered with 200
Confirm(u) ==
    /\ u \in confirmed
    /\ confirmed' = confirmed \ {u}
    /\ shown' = [shown EXCEPT ![u] = "PAID"]
    /\ UNCHANGED <<vars, connected, inbox, interrupted, known>>

ViewNext ==
    \/ \E a \in Promoters : Promote(a)
    \/ \E w \in Workers : Expire(w)
    \/ \E j \in Joiners : AskToJoin(j)
    \/ \E p \in Payers : AskToPay(p) \/ FinishPayment(p)
    \/ \E u \in Users : Connect(u) \/ Disconnect(u) \/ Receive(u) \/ Confirm(u)
    \/ Silent

ViewSpec == ViewInit /\ [][ViewNext]_viewVars

-----------------------------------------------------------------------------
\* A page that shows its reservation as PAID or EXPIRED shows the truth, for
\* good: no later step changes the row, no message of an older state overtakes
\* a newer one (requirements 6.4, 7.4).
PageTruthful ==
    \A u \in Users :
        known[u] # None /\ shown[u] \in {"PAID", "EXPIRED"} =>
            status[known[u]] = shown[u]

\* no handler runs and everything emitted has been received
AtRest == /\ Idle
          /\ \A u \in Users : inbox[u] = <<>> /\ u \notin confirmed

\* the page of every user in U who has a reservation to pay lets him pay it
CanPay(U) ==
    \A r \in Pending \ lapsed :
        owner[r] \in U => /\ known[owner[r]] = r
                          /\ shown[owner[r]] = "PENDING_PAYMENT"

\* A buyer who stayed connected can pay for the reservation he was given:
\* whatever else happened, his page has its id and shows it as unpaid (4.3).
HolderIsTold == AtRest => CanPay(connected \ interrupted)

\* The same for a buyer who lost his connection and has a new one (8.5).
ReconnectedHolderIsTold == AtRest => CanPay(connected)
=============================================================================
