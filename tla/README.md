# A TLA+ verification of nest-ticket-queue

nest-ticket-queue sells the tickets of an event through a waiting queue. Buyers
join a Redis ZSET; a cron tick every five seconds, and every expiration of an
unpaid reservation, promotes users from the head of the queue: it takes a seat
with DECR, writes a reservation that must be paid within 300 s, schedules a
BullMQ job that expires it, and marks the user active. Postgres and Redis are
updated by separate awaited commands with no transaction around them, any number
of handlers and application instances run at once, and every command may fail.
This directory models that, call by call.

## Inventory

| Component | State | Operations | Module |
|---|---|---|---|
| Redis store (`redis/redis.service.ts`) | `remainingSeats`, `queue` ZSET, `active:*` keys with TTL, `activeCount`, `reservationExpired:*` locks with TTL | DECR, INCR, SET, ZADD NX, ZRANGE, ZREM, SETEX, DEL, SETNX, EXPIRE | `TicketStore` |
| Tables (`queue-entry.entity.ts`, `reservation.entity.ts`) | status of each entry and reservation, owner | INSERT (unique on event and user), UPDATE by id or by event and user | `TicketStore` |
| Promotion (`queue.service.ts`, `queue-promotion.processor.ts`) | locals of `promoteUsers` | cron tick, peek, DECR, reserve, activate, sold out, undo | `QueuePromotion` |
| Expiration (`reservations.service.ts`, `reservation-expiration.processor.ts`, BullMQ options of `queue.module.ts`) | delayed jobs, attempts, stalls, locals of `expireReservation` | take job, lock, INCR, mark, free the active slot, promote, fail, retry, redeliver | `ReservationExpiry` |
| Buyer requests (`joinQueue`, `processPayment`) | locals of the two handlers | check, ZADD, INSERT; check, save PAID, mark DONE | `ClientRequests` |
| Event lifecycle (`events.service.ts`) | sales window, whether the counter exists | create, window opens and closes; `getStats`, `getQueueStatus` as operators | `TicketQueue` |
| Redis client (`redis.service.ts`, constructor) | status of the connection of each instance, attempts to restore it | break, retry, reconnect, end, commands that wait, are rejected or are sent twice | `RedisConnection` |
| Notifications and the page (`notification/`, `public/index.html`) | rooms, messages under way, the reservation a page knows and the status it shows | connect, lose the socket, emit, receive, ask to join, ask to pay, HTTP confirmation | `BuyerView` |
| Auth, users, DTOs, configuration, seed, shell | none of their own | checks in front of the handlers | not modelled |

Who talks to whom: the cron and the worker both call `promoteUsers`;
`promoteUsers` calls `createReservation`, which creates the row and the job; the
job calls `expireReservation`, and the worker then promotes inside the same job;
a payment meets the expiration only in the reservation row; all of them meet in
the seat counter. The handlers end by emitting a message to the room of the user,
and the page can pay only for a reservation a message told it of. What each part must get right:

- **seats**: every DECR is matched by a reservation or exactly one INCR; nothing
  is sold twice; a failure may lose a seat, never create one;
- **reservations**: paid or expired exactly once; an unpaid one always has a job
  that will end it; a seat comes back once per reservation whatever BullMQ
  redelivers;
- **active limit**: the counter never falls behind the keys it counts;
- **queue**: first come first served; promoted once; nobody holding a seat is
  told the event is sold out; nobody waits for ever;
- **connection**: no handler waits for Redis for ever, and no seat is created by a
  command that is sent again or by a client that has given up;
- **page**: an outcome it shows is the true one; a buyer with a reservation to pay
  knows it.

What is hard: handlers interleave at every `await`; values read before an await
are acted on after it (queue head, active count, reservation status, deadline);
one of several writes fails or the process dies between two of them; a job is
retried after half of its work or runs twice; TTLs end in the middle; the Redis
client waits, sends again, or gives up for good under a handler.
`PROJECT.json` lists these hazards with the line where each bites.

## The modules and how they correspond to the code

    TicketStore  <-  QueuePromotion, ReservationExpiry, ClientRequests
                 <-  TicketQueue  <-  MCTicketQueue            (TLC)
                                  <-  BuyerView <- MCBuyerView (TLC)
                                  <-  RedisConnection <- MCRedisConnection (TLC)
    SeatPool     <-  TicketQueue (INSTANCE, refinement)

    TicketQueue  <-  TicketQueueProofs  <-  SeatProofs  <-  OutcomeProofs, ActiveProofs
                     TicketQueueProofs  <-  QueueProofs, JobProofs
                     SeatProofs, RedisConnection            <-  LinkProofs
                     OutcomeProofs, QueueProofs, BuyerView  <-  PageProofs     (TLAPS)

*Actors and atomicity.* An actor is one activation: a cron tick, a slot of the
BullMQ worker, a request. `pc[a]` names the awaited call it performs next, and
one awaited call is one step, because a Redis or SQL command is atomic and
JavaScript between two awaits is not interrupted. The locals a handler carries
over its awaits are `slots` (iterations of the loop left), `user`, `res`, `job`.
Two elements of `Crons` are two overlapping ticks, in one process or in two:
`@Cron` does not wait for the previous tick. The promotion of a worker is the
code of the cron, run by the worker's actor before its job completes; it does
not look at the sales window, as in the code.

*Failures.* `Faults` is the set of calls that may reject, and of other mishaps
(`crash`, `stall`, `lockTTL`, `break`), `MaxMishaps` bounds how many happen. A call
rejects before taking effect; a call that took effect and whose reply was lost
is the same as the rejection of the next call, for the catch blocks depend only
on where control is. Where control goes is the code's own: inside the `try` of
`handleSuccessfulPromotion` to its catch block, elsewhere in a promotion to
`promoteUsersForEvent`, which swallows the error, in an expiration to BullMQ,
in a request to the client. These are `PromotionRejects`, `ExpiryRejects` and
`RequestRejects`; the `...Throws` actions are the same, counted as a mishap. `Crash(I)` forgets everything the actors of an
instance hold and leaves the stores. `Faults` also switches on ordinary events
that only some questions need: `keyTTL` (active keys time out), `closeSales`,
`slowPay` (the deadline may pass between the check and the save of a payment),
`slowPromotion` (a reservation may lapse while a promoter still handles its
owner), `lateSocket` (a buyer joins before his socket is connected),
`earlySales` (the window is already open when the event row becomes visible, as
for two of the events of `seed.ts`).

*The Redis client.* `RedisConnection` takes the steps of `TicketQueue` under the
condition that the connection of the actor's instance serves them. `link[I]` is
the status of the ioredis client. On every close, of the connection or of an
attempt to restore it, the client asks `retryStrategy`; after the third failed
retry the answer is null and the status is `end` until the process is restarted.
While the client reconnects, a command waits in it (ioredis' offline queue), so
the handler simply does not proceed; when it has ended, the handler's call rejects
at once, every time, without being counted as a mishap. `maxRetriesPerRequest` 3
would reject the waiting commands at the fourth close, the one that ends the client
anyway. A command that Redis executed and whose reply was lost with the connection
is sent again (ioredis' default `autoResendUnfulfilledCommands`): `Unanswered` is
the execution nobody saw, for one command under way at the break, and the actor
stays at its call. `Resent` names the calls to which that may happen. The first
reads of a cron tick (`findAll`) and of a join (`findById`) need the connection as
well. BullMQ and Postgres have their own connections and go on: a worker of an
instance whose client has ended still takes jobs.

*BullMQ* (not under `src/`; modelled from the options and the way the code uses
it): a delayed job becomes active for one worker slot, is completed when the
processor returns while it still holds the job, is delayed again until
`MaxAttempts` failures, and, when it stalls, is handed out once more
(`maxStalledCount` 1) and fails the second time.

*Data.* One event is modelled: every key and row carries the event id, and the
cron treats the events one after another with their errors swallowed. Users are
numbers because ZSET ties are ordered by member; two joins may get the same
millisecond, and time does not run backwards. An active key remembers the
reservation it was set for (the code stores '1') so that its TTL can end no
earlier than that reservation's. `credited` is a history variable.

*The page.* `BuyerView` takes the steps of `TicketQueue` and adds what they tell
whom. `emitToUser` reaches the sockets that are in the room at that moment, in
order, and keeps nothing for later: `Tell` appends to the inbox of a connected
user, `Disconnect` drops it. The page keeps `currentReservationId` (`known`) and
the status label (`shown`). Only `queue:active` sets the id: the handlers of the
join and status replies would, but neither reply carries a reservation id, so
they are left out. The page never compares the id of a message with its own.

A definition `D_Mistake` is `D` with a plausible bug. It is not used by the
model; it shows that a property is able to fail.

## What TLC checks

The runs use `MCTicketQueue`, the two about the page `MCBuyerView`, the one about
failures `MCRedisConnection`. All but `sale` and the two about the page have
`slowPromotion` in `Faults`. Deadlock is off: when the users of the instance
have been served the system stops (a real one would wait for requests).

| Run | Instance | Shows |
|---|---|---|
| `sale` (0.5 M states) | 2 users, 2 seats, 1 cron, 1 worker, 1 joiner, one stalled job, lapsed lock or failing call before anything is committed, key TTLs, closing window | `TypeOK`; `SeatConservation`: counter + seats granted or held + DECRs to be undone = totalSeats at every await; `PendingIsWatched`: an unpaid reservation has a job or a worker; `OvershootBounded`: the limit of active users is passed no further than once per promoter; `FirstComeFirstServed` |
| `failures` (0.4 M) | 2 instances (a cron with a worker, a second worker), one crash, stalled job running twice, lapsed lock, failing call or broken connection, with DECR, SETNX, DEL and the INCR of the active counter executed twice | `NoOverhold`, `RefinesSeatPool`: the system implements the abstract `SeatPool`, seats may be lost and are never created; `CreditsExclusive`: SETNX leaves one worker in front of INCR; `HandlersReturn`: every tick, job and request ends |
| `single_promoter` (1.0 M) | 3 users, 2 seats, one cron, a payer whose request may fail at either write | `OneReservationEach`, `HolderNotTurnedAway` hold when promotions do not overlap |
| `seats_return` (1.1 M) | `FairSpec`, 2 users, 1 seat, a payer, key TTLs, closing window | `SeatConservation`; `RefusedOnlyWhenTaken`: nobody is refused while a seat is free, but for another refusal not yet undone; `NoOversell`, `StatsAddUp` (the statistics of the administrator add up to totalSeats whenever nothing runs); `ActiveNeverUndercounted`: the active counter never falls behind the keys; `OutcomeIsFinal`: with payments saved before the deadline, expirations and payments never contradict each other; `UnsoldSeatsReturn`: in the end every unpaid seat is in the counter |
| `buyer_page` (3.9 M) | 2 users with a page each, a payer, active limit 2, a lost or late socket or a payment failing after PAID was saved | `PageTruthful`: a page that shows PAID or EXPIRED is right; `HolderIsTold`: whoever stayed connected can pay the reservation he holds |

*Why the bounds are enough.* With one seat and two users (`seats_return`) a seat
is contended, refused, returned and sold again; `sale` has a seat for each of its
users, so that both can be promoted, which the order of the queue and the limit
of active users need, and leaves the refusal to the other runs. With two promoters, or a
cron and a worker, heads and counts are stale; the third reservation id lets a
seat go round twice. The number of ids bounds how often a promotion can reserve:
with none left `SaveReservation` waits, which is harmless for safety, and
`seats_return` has one id more than it has users. One mishap reaches every single
failure at every await, and a client that ended fails every later call as well,
the compensations included. The actors of `failures` are few because it checks
liveness; the cron's instance is the one that can lose the work of a promotion,
and the other worker takes over its jobs. `MaxAttempts` is 3 as in
`queue.module.ts`. The actors of one kind are interchangeable and symmetric in
the safety runs; the instances of `failures` are not, and no liveness run uses
symmetry. The theorems have none of these bounds: they hold for any number of
users, seats, ids, actors, instances and mishaps.

*Fairness.* Weak fairness of each actor's own steps (a command on a healthy
store is answered), of the cron (it ticks every five seconds), of handing out due
jobs and of the stalled check (BullMQ polls), and of time. Nobody has to join or
pay, and no fault has to happen. `LinkSpec` assumes of an actor that its call is
answered or rejected when the client allows either, and of a client that an
attempt to reconnect has an outcome, success or failure: nothing says that Redis
ever comes back, and handlers return because `retryStrategy` gives up. Its number
of breaks is bounded like every mishap. Strong fairness is not assumed.

## Where the code and its documents disagree

Each is a run that TLC finds violated; `PROJECT.json` quotes the lines.

- `v_two_reservations`: two overlapping promotions peek the same head and give
  one user two reservations and two seats.
- `v_starvation`: a payment never gives back its slot in `activeCount`; after
  MAX_ACTIVE_USERS payments nobody is promoted any more, seats or not.
- `v_late_payment`: PAID is saved by id after a check that is stale by then; if
  the expiration restored the seat meanwhile, it is sold twice.
- `v_seat_restored_after_save`: the catch block restores the seat for any failure
  of the try block, also when the reservation already exists and stays payable.
- `v_missed_message`: a buyer who is promoted while his socket is down connects
  again and is told nothing, and no reply gives him the id of his reservation; the
  seat is lost to him until it expires.
- `v_ghost_row`: a join adds the user to the queue before it inserts his entry; if
  he is promoted in between, no row is updated, and the entry inserted then says
  WAITING of somebody who is not queued. If he was turned away it says so for ever.
- `v_retry_skips`: the retry of an expiration that failed after SETNX meets its
  own lock, reports `already_processed` and leaves the reservation unpaid and
  unwatched for ever.

The model reaches more, for which no run is kept: two promoters fill the active
limit twice (`OvershootBounded` says how far it can go); with `slowPay` an
expiration overwrites PAID; a worker that crashes after INCR and is redelivered
after the lock's TTL restores the seat again; a crash between SETEX and INCR
leaves an active key that nobody counted, and the counter falls behind; an INCR
of the seat counter that is sent again creates a seat (`incrementSeats` in
`Resent` violates `NoOverhold`), and a DECR of the active counter that is sent
again raises the limit; a worker whose client has ended uses up the attempts of
the jobs it takes and leaves their reservations unwatched, and so do two stalls
of one job with a failing attempt between them; a promotion that takes longer
than the 300 s of its reservation finds the active key gone and the counter
taken down before its own INCR, the counter goes below zero and three promoters
pass the limit by more than one each; a user who sends two joins at once and is
promoted between them is queued again behind his reservation, and a promoter
that still works on him as the head of the queue then removes him in front of
somebody else; with `earlySales` the SET of `initializeSeats` overwrites DECRs
already done; a losing promoter turns the entry of a user who holds a seat into
EXPIRED.

## What is proved

TLAPS checks the theorems below for every value of the constants that satisfies
`IdAssumption`, `ActorAssumption` and `BoundAssumption` of `TicketStore`: ids
are numbers, users, reservations and actors are finite sets, the kinds of actors
are disjoint, bounds are natural numbers. Every invariant and action property
that a run checks is stated by a theorem.

The code keeps most of these promises only while certain things do not happen.
Each theorem names what it excludes, as an operator over `Faults` or as an
assumption about the environment, and allows everything else: any number of
overlapping ticks, workers, instances and requests, stalls and redelivery, TTLs,
crashes and failing calls as far as they are not named.

| Theorem | States, of `Spec` | Excludes |
|---|---|---|
| `TypeCorrect` (`TicketQueueProofs`) | `TypeOK` | nothing |
| `SeatsNeverOverheld`, `CreditsAreExclusive`, `SeatPoolImplemented` (`SeatProofs`) | `NoOverhold`, `CreditsExclusive`, `RefinesSeatPool` | `Benign`: a call that throws after the reservation was saved, an early window, and the lock's TTL after an expiration that was stopped between INCR and the mark (a second mishap) |
| `LinkSeatsNeverOverheld`, `LinkCreditsExclusive`, `LinkImplementsPool` (`LinkProofs`) | the same, of `LinkSpec` | besides, an INCR of the seat counter that is executed twice (`IncrOnce`) |
| `LinkTypeCorrect` | `TypeOK`, of `LinkSpec` | nothing |
| `SeatsConserved`, `RefusedWhenTaken` (`SeatProofs`) | `SeatConservation`, `RefusedOnlyWhenTaken` | `Lossless`: besides, a crash, a failing compensation |
| `OutcomesAreFinal` (`OutcomeProofs`) | `OutcomeIsFinal` | `Punctual`: a payment accepted before the deadline and saved after it |
| `NothingOversold` | `NoOversell` | `Benign` and `Punctual` |
| `StatisticsAddUp` | `StatsAddUp` | `Marking`: `Lossless`, `Punctual` and no failure between giving the seat back and marking the row |
| `ActiveCounted` (`ActiveProofs`) | `ActiveNeverUndercounted` | `Paired`: a promoter stopped between SETEX and INCR |
| `OvershootLimited` | `OvershootBounded` | `Prompt`: a crash, a promotion lasting 300 s, and what `Benign` excludes |
| `ServedInOrder` (`QueueProofs`) | `FirstComeFirstServed` | a join that reaches the queue and saves no row (`Registered`), two joins of one user at once (`OneJoinEach`) |
| `PromotedOnce`, `HolderServed` | `OneReservationEach`, `HolderNotTurnedAway` | these, overlapping promotions (`OnePromotion`), one that stops between its INSERT and its ZREM (`Dequeued`) |
| `PendingWatched` (`JobProofs`) | `PendingIsWatched` | `Watchful`: a failure between INSERT and the job, or between SETNX and the update of the row; as many mishaps as a job has attempts; two stalls and a failing attempt of one job |
| `PageShowsTruth` (`PageProofs`) | `PageTruthful`, of `ViewSpec` | a late save of a payment, a second reservation of one user (`OneRowEach`) |
| `HolderTold` | `HolderIsTold`, of `ViewSpec` | these, and a promotion stopped before it tells its user (`Announced`) |
| `PagesServe` | both, of `ViewSpec` | the same, with `OneRowEach` derived from one join each and promotions that do not overlap |

The exclusions were found by TLC: with one of them lifted it shows a behaviour
that breaks the property, a finding above or one of those the model "reaches
more"; `OvershootLimited` alone excludes the early window and the lock's TTL only
because its invariant builds on that of the seats. The ones that are formulas over
the state (`OneJoinEach`, `OnePromotion`, `OneRowEach`) are hypotheses of the form
`Spec /\ []H => []P`; they say how buyers and the scheduler behave, which the code
leaves to chance. The runs satisfy them: `single_promoter` and `sale` have one
joiner, `single_promoter` has one promoter and no worker, and in `buyer_page` one
seat leaves no room for a second reservation. They satisfy `Benign` with every
expiration lock that lapses, for `failures` and `sale` have one mishap, and
`failures` sends no INCR of the seat counter twice.

*Along which argument.* No property is inductive as it stands. All proofs share
`TypeInv`, and most `ServiceInv`.

- `TypeInv`: the loop of `promoteUsers` decrements `slots`, so `InLoop` says
  that a promoter inside the loop has an iteration left, and a worker updates
  the row of its job, so `Working` says it has one. `MoveControl`,
  `ReturnControl` and `LoopControl` treat the three ways a handler moves on.
- `ServiceInv` says whom each handler works for: the row in its hands exists,
  was created for the user in its hands, and so on.
- *Seats* (`SeatInv`). `NoOverhold` needs to know that the catch block returns a
  seat nobody holds (`Clean`, `UndoInv`: no reservation in hand) and that INCR in
  an expiration returns a seat that is held (`CreditsExclusive`); that needs a
  credited reservation to be out of reach (`CreditedLocked`: its lock is taken, or
  its row is marked and nobody who read it unmarked is before SETNX), the lock's
  TTL to end only when the row is marked (`CreditedMarked`), the rows a handler
  updates to exist (`Known`, or else writing a status would create one), and
  nothing to have happened before the counter is set (`Stocked`). Most steps move
  no seat: `QuietStep` treats them at once.
- *The Redis clients* (`LinkInv`). A client that has ended rejects calls after a
  reservation was saved, as `Benign` forbids to single failures, and the catch
  block is entered with a reservation; `UndoCut` says that its INCR is then
  rejected as well. A command executed without an answer only takes locks and
  seats (`BreakTakes`), which the pool allows. All other steps are steps of `Spec`
  (`LinkSteps`, `SaleSteps`).
- *The pool* (`PoolInv`). `SeatMoves` shows that every step is one of eight
  movements (kept, provisioned, lost, granted, refused, returned, reserved,
  credited). Each maps to a step of `SeatPool` or to none, which is the
  refinement; all but `Lost` keep the sum (`MovedSums`), which is conservation.
  The refusal property follows from the sum.
- *Outcomes* (`OutcomeInv`): an expiration works on a row whose deadline has
  passed, a payment on one whose deadline has not, so the two never meet in the
  same row. `CreditedDue` and `MarkInv` tie the seats given back to the rows
  marked, from which `NoOversell` and the statistics follow by counting.
- *The active counter*. `ActiveNeverUndercounted` is inductive with the sets of
  promoters before their INCR and of workers before their DECR in it. `LimitInv`
  adds that the counter never goes below zero, for each DECR has had its INCR,
  and that a promoter's remaining slots fit under the limit as it read it.
- *The queue* (`QueueInv`): the user of a promoter is ahead of everybody queued,
  or has left the queue already; he cannot come back, for his row is there or
  about to be (`Joined`). `OnceInv` adds, for one promotion at a time, that a
  user with a row in `reservations` has left the queue or is the one being
  promoted.
- *Jobs* (`HandInv`, `JobInv`): the cases of `Watched` follow a reservation from
  the promoter that schedules its job to the worker that marks it, with what
  attempts and stalls have used up bounded by `mishaps`.
- *The page* (`ViewInv`, `PageInv`): every message under way and every id known
  is about a reservation of the receiver, and what it says is true by now.
  `ReachInv` and `ToldInv` add that a holder's reservation is on his page, in
  his inbox, or with the promoter that will tell him.

*Only model-checked.* Liveness (`HandlersReturn`, `UnsoldSeatsReturn`; the
prover does not reach it). That the excluded behaviours break the properties: the
findings.

## Not modelled, and why

- The labels of the page other than the reservation's: queue status and position,
  countdown, sold out. A second socket of the same user, reloading the page.
- `getStats` and `getQueueStatus` change nothing; they are operators over one
  state, the interleaving of their reads with the sale is left out. Timestamps and
  the columns `position` and `reservationId` of an entry influence no control.
- Authentication, users, validation, configuration, the seed script: stateless
  checks in front of the handlers, or run before the system.
- Redis losing data, the connections of BullMQ and Postgres, several commands of
  one instance executed unseen at the same break, clocks that disagree, deleting
  rows by hand. ZADD and the ZRANK that follows it are one step.
- `queue:soldout` changes only the queue label of the page; `queue:position` is
  emitted by no code.

## Plan

Done: the store, the three handlers, their composition, the abstract pool, the
buyer's page, the Redis client, the runs and the theorems above. Next:

1. The other safety properties of `LinkSpec`, where a client that has ended breaks
   some of them (`PendingIsWatched`) and a resent command others
   (`OvershootBounded`): with the hypotheses that remain.
2. `BuyerView`: the queue label and the answers to join and to the status query,
   which may overtake a push message; a second reservation of one user, whose
   page keeps the pay button disabled.
3. Runs for what the model reaches and no run shows: an event whose window opens
   before its counter is set, a resent INCR, the attempts a dead client burns.
