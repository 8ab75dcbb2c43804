# A TLA+ development of goComet-backend

goComet-backend is a ride-hailing back end: an HTTP and Socket.IO API
(`src/apps/api`) and a Kafka worker (`src/apps/worker`), both NestJS, over
PostgreSQL, Redis and Kafka. Each of its processes is single-threaded, but every
`await` is a point where another call, another process or a failure can come in,
and most of what can go wrong here goes wrong between two awaits. The modules in
this directory model that: a handler is a sequence of steps, each one command to
the database, to Redis or to Kafka, and all handlers interleave.

Line numbers below are of the files under `src/`.

## The system

| Component | State it keeps | Operations | Hard behaviour |
| --- | --- | --- | --- |
| Ride service (`rides/ride.service.ts`) | `rides` row, idempotency cache, deletes `ride:offer:*` | createRide, cancelRide, fare estimate | a key used twice at once; the row and the message are two writes; a cancellation meets a search or an assignment |
| Matching worker (`matching.consumer.ts`, `matching.service.ts`) | `processed:event:*`, `matching:lock:*`, `ride:declined:*`, `ride:offer:*`, `driver:status:*`, `rides` and `trips` rows | one run per message: search in 5, 10, 15 km, offer to one driver after the other, wait for pub/sub or ten seconds, assign or fail | two workers, redelivery, a lock shorter than a run, messages nobody listens to, a rider who cancels |
| Driver gateway (`driver.gateway.ts`) | sockets, grace timers, deletes `ride:offer:*` | connect, disconnect, location, answer to an offer | double taps; a timer against a reconnection |
| Trip service (`trip.service.ts`) | `trips`, `rides`, `trip_events`, `payments` rows, `driver:status:*`, `driver:active-ride:*` | arriving, arrived, start, complete, cancel (two routes) | the status is checked on a row read before the transaction |
| TripCompletedConsumer | `driver:status:*`, `driver:active-ride:*` | frees the driver | the id it is given |
| Consumer base, dead letters (`kafka-consumer.base.ts`) | `processed:event:*`, `*.dlq` topics | mark, handle three times, park | marked before it is handled |
| Notifications (`notification.consumer.ts`) | `processed:event:*` | mark, log | neither retried nor parked |
| Driver presence (`driver.service.ts`, `stale-driver.cron.ts`) | `drivers` row, GEO index, `driver:status:*` with a TTL, heartbeats | online, offline, reconnect, eviction | the row and the key disagree; a reconnection during a ride |
| Location (`location.service.ts`, `location-snapshot.consumer.ts`) | GEO index, heartbeats, rate window, snapshot throttle | update, limit, snapshot | the hash it refreshes may be gone |
| Payments (`payment.service.ts`, `payment.consumer.ts`) | `payments` row | charge, webhook | results out of order, a result nobody reads |
| Authentication (`auth.service.ts`) | `session:*`, `blacklist:*`, `login:fail:*` | register, login, refresh, logout | concurrent refreshes, a limiter without its expiry |
| Riders (`rider.service.ts`) | `riders` row, payment methods, preferences | profile, update, add, choose the default | reads and writes without a transaction |
| Surge (`surge.service.ts`, `surge-pricing.cron.ts`) | `surge:*` | recompute, read | a region the cron no longer sees |
| Tenants, users, health, filters, rider gateway | rows, a slug cache, sockets | CRUD and output | none |

How they interact: `createRide` sends `ride.request.created`; a worker takes it,
offers the ride to drivers through the gateway (Socket.IO out, Redis pub/sub
back), inserts the trip and marks the driver busy in Redis; the driver then moves
the trip through TripService; `completeRide` sends `trip.completed`, whose
consumer frees the driver, and `payment.charge.requested`, whose consumer asks the
provider, which calls the webhook. A rider's cancellation goes to the ride while no
driver is assigned, and to TripService afterwards. Matching finds its drivers in
the index and the hashes that presence and locations keep.

What makes each component correct: a ride is worked on by one run, ends, and is given
only to a driver who accepted it; a trip enters no status before its predecessors, and
its records agree; it is completed, paid for and charged at most once; a driver is
offered rides exactly when free, present and online; a session is renewed once per
token; a rider has one default payment method; an event is handled or parked; a key has
one ride. `hazards` in `PROJECT.json` names the lines where these are at stake.

## The modules

| Module | What it is |
| --- | --- |
| `TripStatuses` | the statuses, the driver's calls with the status each moves from and to, the fee |
| `TripStateMachine` | the abstract trip, as far as it can be promised without a lock: one atomic step per transition, from a status the trip *has had* |
| `TripLifecycle` | TripService with the worker's assignment, the cancellation of a ride that has no driver yet, the Redis keys and TripCompletedConsumer |
| `RideRequest` (extends `SurgePricing`) | createRide: cache, price, unique index, message |
| `SurgePricing` | the surge cron, its keys and the two indexes of drivers it reads |
| `Dispatch` | from the message to the assignment: the matching worker, the offers, the gateway, the cancellation of a ride without a driver |
| `DriverPresence` | one driver's row, hash, index entry, heartbeat, sockets and timers |
| `EventHandling` | the abstract promise of the consumers about one event |
| `EventConsumer` | KafkaConsumerBase with PaymentConsumer and NotificationConsumer; implements `EventHandling` |
| `PaymentFlow` (extends `EventConsumer`) | the payments rows and the webhook |
| `AuthSessions` | one user's sessions, tokens and login counter |
| `RiderAccount` | one rider's profile, preferences and payment methods |
| `TripLifecycleProofs`, `DispatchProofs`, `DispatchSearchProofs`, `RideRequestProofs`, `PaymentFlowProofs`, `AuthSessionsProofs`, `RiderAccountProofs`, `DriverPresenceProofs` | theorems about the module they are named after |
| `MC...` | the instances that TLC checks |

How they compose: `RideRequest` and `SurgePricing` share the surge keys,
`PaymentFlow` and `EventConsumer` the events and the failures. The other modules
meet at a message or a key that both sides model: `RideRequest` ends where
`Dispatch` begins (a message sent), `Dispatch` where `TripLifecycle` begins (the
assignment, which both contain), `TripLifecycle` inserts the PENDING row that
`PaymentFlow` starts from, and the BUSY and AVAILABLE that matching and trips write
into the hash are actions of `DriverPresence` as well.

### TripLifecycle

One ride, one trip row and one driver per element of `Trips`. `call[h]` is an HTTP
call in progress: its place, its operation, its trip and the status it *read*.
The steps of a call are those of the code:

| Action | Code |
| --- | --- |
| `LoadTrip`, `LoadForCancel`, `LoadRide`, `LoadByRide` | `loadAndAuthorizeDriver`, the head of `cancelTrip`, `cancelRide` of an assigned ride, `cancelTripByRideId` |
| `LoadPending`, `ReloadRide`, `SaveRide` | `cancelRide` of a ride without a driver: `findOne`, and the reload and the UPDATE of `save()`, which may come after the assignment |
| `Commit`, `Rollback` | the transaction: UPDATE rides, the check of `transition`, UPDATE trips, INSERT trip_events, INSERT payments |
| `Emit` | the `Promise.all` of Kafka sends |
| `ReleaseStatus`, `ReleaseActive` | HSET and DEL of `cancelTrip` |
| `Assign`, `MarkBusy`, `SetActiveRide` | the transaction of `offerRide` and the Redis writes after it |
| `ConsumeCompleted` | `TripCompletedConsumer.handle` |
| `CallFails`, `MatcherDies`, `LoseCompleted` | a crash, a rejected send (after any part of the `Promise.all`), an event marked as processed and never handled |

The transaction is one step because its first statement locks the row of the
ride. The check compares the status that was read *before* the transaction, so
calls that overlap may both pass it; the model keeps that, and so does the abstract
machine, which lets a trip leave any status it has had. The driver's keys are
indexed by the id they are named after (`DriverKeys`), because `completeRide`
sends the id of the user and everybody else uses the id of the driver.

### Dispatch

A worker handles one message at a time. `worker[w]` says where it is in
`startMatching` and `offerRide`, with the radius, the candidates left, the driver
asked and the first pub/sub message it got. `tap[k]` is an answer in the gateway
(EXISTS, DEL, PUBLISH), `cancel[r]` the cancellation of a ride (read, reload of
`save()`, UPDATE, PUBLISH, KEYS, the DELs). A message reaches only workers that
wait for it at that moment. `Candidates` is `findCandidates` with the filter of
its caller, in the code's order: cut by the search, cut by rank, then filtered.

What is simplified: the statuses of the candidates are read at once (in the code
one after the other, before any of them is asked, so a list that is out of date
is reached here too); a search has no drivers of another vehicle type; all have
the rating 5, because nothing writes ratings to Redis; the half hour of
`ride:declined` never ends within a run, which lasts at most 150 s; Redis
commands that nobody reads (`ride:active`) and messages that nobody consumes are
left out; the two DELs at the end of a run are one step, which is sound since no
other process reads either key without a run of its own; the mark of a processed
event lasts a day (processed-events.service.ts:11) and does not end here, so an
outage of a day between two deliveries is left out. `LockExpires` may happen
at any time, `OfferExpires` too, and the worker's timer not before the offer's
key is gone, for it starts later with the same ten seconds. A driver stays busy:
freeing it is TripLifecycle's part.

Two things the model does because the code does, and no property forbids: a run that
was stopped by a cancellation announces a failure of the cancelled ride, since
`rowCount` is read off a result that has none (matching.service.ts:84-89), and
`MarkMatching` writes MATCHING over a CANCELLED that came in between, so that such a
ride may be assigned or failed. What is checked is `FailureIsFinal`: once a failure has
been announced, the ride is never assigned nor searched for again.

### DriverPresence

One driver, since drivers share no key. `row` is the status in PostgreSQL, `hash`
the status in `driver:status` ("blank" where a location update made a hash that has
none), `geo` and `heartbeat` the two index entries. `job` is a `setAvailability`
under way, for the HTTP call and for the grace timer of each process; `handler[s]`
is the place of a socket in `handleConnection` and `refreshRedisPresence`;
`timers` counts the timers that run and `tracked` says whether the map has an
entry, because a second disconnection replaces the entry and leaves the timer
running. `Scan` and `Sweep` are the cron's read and its pipeline. Every time to
live and every timer may end at any moment, in any order: the code relies on no
relation between them.

`raced`, `leaked`, `sighted` and `several` are history variables that the
properties use: two writers overlapped or one died; the hash got no TTL; the place
in the index came from a location; the driver connected while an earlier connection
lived, or its handler had not ended. They are in the model because the code has no
remedy in these cases; the properties say what holds outside of them, and the `raced`
of one period on line does not outlive an undisturbed offline.

`TimerMeansGone` speaks of the process a driver is connected to, and of no other. The
map of timers is per process (driver.gateway.ts:81), so a driver who comes back to
another process is put off line by the timer that the first one still runs; LLD.md:989
promises the opposite. A callback that has already begun (`CheckOnline`) is not stopped
by a connection either. Both happen in the model, and neither is excluded by a property
or by a flag.

### EventConsumer, EventHandling and PaymentFlow

`worker[w]` is a worker with its message and its attempt. `Mark` is SET NX of the
event's key, `Charge` and `Reply` the handler of PaymentConsumer, `ReplyFails` the
retry or the end of retries, `Park` the dead letter with the swallowed error,
`Commit` the offset. A notice takes the loop of NotificationConsumer, which
handles at once. `Deliver` repeats a message that is not committed, and gives it
to a second worker after a rebalance. `EventHandling` is the promise: an event is
taken once, worked on at most `MaxRetries` times by the one who took it, then
never again, or it is lost between the mark and the handler. The refinement maps
an event to the phase told by its topic, its mark and the worker that holds it.

PaymentFlow adds the rows. A webhook is read, saved and announced in three steps;
`save()` writes the entity as it was read, so that two webhooks may overwrite each
other; the reload and the UPDATE of that `save()` are one step, which leaves every
column as the entity has it. The provider is the environment: it may call or not, with
a reference or without. That it calls only once it was asked for the charge is an
assumption about it (`ReceiveWebhook`); the handler asks for no such thing.

### RideRequest and SurgePricing

A call looks at the cache, prices, inserts, caches the answer and sends the
message. The insert fails on the unique index of tenant and key. The cached answer
is gone after a day, the index is for ever. A price is its multiplier, in tenths;
the rest of the fare is fixed by the request. The cron counts the drivers of all
regions for each region that has an index, and Redis removes an index with its
last member. It finds regions by `drivers:geo:*` and counts `drivers:heartbeat`, and
the two are not written together: `GoOnline` and `GoOffline` touch the first alone,
`UpdateLocation` adds to both and `Evict`, the other cron, takes from both. So a driver
who went off line is still counted, and one who has sent no location is not.

### AuthSessions

A device id is made by each login, registration and refresh, in the order of use; `made`
records from which device and which login it descends. A call is at the command it waits
for: INCR, EXPIRE, compare, DEL, sign, HSET, EXPIRE, or DEL and SET of a logout.
`HttpAccepts` is JwtStrategy, which reads the blacklist, and `SocketAccepts` is
`authenticateWsClient`, which verifies the signature and the time and nothing else
(ws-auth.helper.ts:34): a token that was logged out opens a socket until it expires.
What is claimed of it is claimed of HTTP. Time is in half seconds, because a JWT's `exp`
and the TTL of the blacklist count whole seconds of a clock that does not. A token of an
inactive user, and a refresh token that is not the session's, cannot occur: no code
deactivates users, and a session has one token for life.

### RiderAccount

Each call is at the query it waits for. The profile is made under a unique index.
`updateProfile` reads the row, may write the `users` table, and saves what it read
with the new fields. `addPaymentMethod` counts and then inserts,
`setDefaultPaymentMethod` clears and then sets.

## What the runs check

| Run | Instance | Properties |
| --- | --- | --- |
| `MCTripLifecycle_two` | 1 trip, 2 overlapping calls, 5 calls in all, 1 failure, fair | type; the records agree up to a late save of the ride; no skipping; completed once; charged once; a fee only for a driver who had arrived; implements `TripStateMachine`; a completion is charged and handled; a cancellation frees the driver |
| `MCDispatch_ride` | 1 ride, 2 drivers (3 and 8 km), 2 workers, 1 redelivery, 2 answers one after the other, 1 cancellation, 1 failure, fair | one run per ride; only who accepted is assigned; ride and trip agree; nobody is asked twice; one offer at a time; the search is exhaustive; no request is forgotten; an announced failure is final; every ride is assigned, cancelled, or failed and announced |
| `MCDriverPresence_driver` | 2 sockets, 2 processes, 4 acts (connections, calls, locations, offers, crashes), fair cron and expiries | type; who went offline is not on offer; a place given by a location is watched by the cron; no grace timer runs in the process a driver is connected to; who is gone does not stay on offer |
| `MCPaymentFlow_events` | 1 charge, 1 notice, 1 message that does not parse, 2 workers, 3 attempts, 1 failure, 2 webhooks, fair | type; implements `EventHandling`; every event is settled; what is announced was saved and what is saved is announced |
| `MCAuthSessions_account` | 2 calls at a time, 4 in all, 3 devices, 3 half seconds, 1 crash, tokens of 1 s, 2 tries, fair | type; a login has one live session; a token that logged out is refused over HTTP; its refresh token makes no session; a lockout ends |
| `MCRideRequest_request` | 1 key, 3 requests, 2 at a time, 1 failure; 2 drivers in one of 2 regions, thresholds 2 and 3, fair | type; a key has one ride, requested once, and answers name it; a saved ride is requested; the surge ends with the drivers |
| `MCRiderAccount_rider` | 3 calls at a time, 5 in all, 2 methods, 1 failure | type; one default; preferences are kept |

Why these bounds are enough. The conflicts of TripLifecycle are between two calls on one
trip: a third can only repeat what one of two did, and five calls complete a trip, four
by the driver and one that overlaps any of them, or cancel it twice. Trips share
nothing. The single failure may hit any step of any process; the liveness properties ask
for nothing once it has. In Dispatch, two drivers at different radii give a list that
runs empty and a radius that grows, two workers with a redelivery give the second run
that the lock should and the mark does prevent, and two answers give a late answer, a
second answer to one offer and an answer to each of two offers. Two answers at the same
moment are left to the proofs, which hold for any number. `OfferLimit` and `SearchLimit`
are 2 instead of 5 and 10: as many as there are drivers, so that the cut removes nobody.
`EveryoneIsAsked` has that as its hypothesis: with more drivers within the radius than
the limit, the code cuts before it filters and leaves some unasked.

In DriverPresence four acts are a call online, a connection, a location or an offer, and
one more of any kind; disconnections, timers, the cron and expiries are not counted. Two
processes are enough for a driver who comes back to another one. Two events of each kind
would share nothing; two workers give the rebalance, three attempts are those of the
code. Three devices are a login and two refreshes, or a refresh and a second login; two
overlapping calls are what each of its conflicts takes, and two seconds with a half hold
the ends of a token and of its blacklist entry in every relation. The rate limit is 2
instead of 5. One key is enough, since keys share nothing; three requests give an
overlap and a replay after it. The surge needs a region with drivers and one without;
two drivers, at thresholds of 2 and 3 instead of 5 and 10, give counts of none, one and
two, and so the multipliers 2.5, 1.8 and 1.3. The fourth, 1.0, is reached by the missing
key only, since a third driver is beyond the time of a run. Three calls on an account
give two that overlap and one that comes in between. Counters that no guard needs are
unbounded in the type and bounded by the run.

Runs check no deadlock, except `MCRideRequest_request`, where drivers always come
and go: elsewhere the system stops when nobody asks for anything.

The runs that expect a violation show where a document or a comment promises
something that the code does not do. Each is a `findings` entry that quotes the
line:

| Run | What happens |
| --- | --- |
| `MCTripLifecycle_late` | a cancellation reads a ride without a driver, the worker assigns it, and `save()` then makes the ride CANCELLED: its trip goes on |
| `MCTripLifecycle_release` | the consumer of `trip.completed` frees the key of the *user's* id; the driver stays BUSY |
| `MCDispatch_double` | two workers find one driver AVAILABLE and both assign it: the lock is per ride |
| `MCDriverPresence_reconnect` | a driver connects during a ride: the key says BUSY, the row AVAILABLE, and the key is written AVAILABLE |
| `MCPaymentFlow_result` | the result of a charge is sent to a topic without a consumer; the payment stays PENDING |

Other disagreements met while modelling, which no run states:

- trips: no optimistic lock guards the status, so a call that read the trip earlier
  overwrites COMPLETED or CANCELLED (HLD.md:376; trip.service.ts:439); the fee can
  be that of a status the trip has left (RIDE_FLOW.md:467; trip.service.ts:315);
  the assignment writes no `trip_events` row (README.md:111;
  matching.service.ts:181-203);
- cancellation: a run between two offers goes on offering, so a late accept is not
  rejected (ride.service.ts:200, :208);
- matching: an error is logged and the run is never repeated (LLD.md:864;
  matching.consumer.ts:58); `rowCount` is read off a result that has none, so a run
  stopped by a cancellation announces a failure (matching.service.ts:84-89); an
  answer given before the worker subscribes, or as its timer ends, is lost
  (RIDE_FLOW.md:265; matching.service.ts:171-177); two taps that overlap are both
  published (RIDE_FLOW.md:590; driver.gateway.ts:128-136); candidates are cut to
  five before the ones already asked are taken out (LLD.md:596;
  matching.service.ts:136);
- requests: a send that fails after the insert leaves a ride nobody searches for
  (HLD.md:576; ride.service.ts:138-163); a replay that finds no cached answer, as
  after a crash, during an overlap or a day later, is refused with an error instead
  of the same answer (RIDE_FLOW.md:587; ride.service.ts:138);
- sessions: a refresh makes a new device id and deletes the old session, so that
  the branch that detects the reuse of a token is never reached (HLD.md:560;
  auth.service.ts:129);
- presence: a grace timer of another process, or of one of two sockets, puts a
  connected driver off line (LLD.md:989; driver.gateway.ts:81);
- surge: it is computed from one count of drivers for all regions, not from the
  demand of each (HLD.md:147; surge.service.ts:21);
- riders: setting the default payment method leaves
  `preferences.defaultPaymentMethodId` as it is (rider.service.ts:106).

## Fairness

Only what the code schedules by itself is fair: the next step of a call, a run, an
answer, a webhook or a cancellation that has begun (the event loop resumes an
awaited promise), the delivery of a message that was sent (KafkaJS polls), the
cron, and the expiry of a key or a timer (time passes). Weak fairness is enough,
since such a step stays enabled until it is taken. Nobody is ever obliged to ask
for a ride, to answer, to cancel, to drive, to connect, to call a webhook, or to
fail. Where the code repeats nothing after a failure, the liveness properties say
"unless one happened".

`CancelReleasesDriver` begins where the worker has finished its Redis writes. The race
before that is excluded by its hypothesis, not caught: a cancellation committed earlier
is overtaken by the worker's HSET BUSY, and the driver stays busy. `EventIsSettled`
needs no fair broker: a send that is rejected for ever uses up the attempts.
`GoneIsNotOffered` rests on the cron and the expiries alone: calls, handlers and grace
timers have no fairness there, because the process that runs them may hang or die.

## What the models take as one step

A transaction whose first statement locks a row; a `Promise.all` of Kafka sends or of
Redis commands, and a Redis pipeline (which the code sends together on one connection,
though other connections may come between its commands), except where one part of it
failing matters: a failed `Promise.all` of a completion may have sent any part; the
UPDATE of a `save()` with its reload in `PaymentFlow`, two steps in `Dispatch` and
`TripLifecycle`; the verification of a token with the GET of its blacklist key.

## What is proved

With TLAPS, for every value of the constants: any number of trips, rides, drivers,
workers, sockets, processes, calls, events, tokens and failures, any distances, list
limits and lives. The assumptions are those of the modules, which TLC evaluates in the
runs: `Null` is none of the other values, the bounds are numbers, the drivers are
finitely many and no two are equally far away, sockets and processes are finitely many
and different things.

| Proofs | Theorems, each `Spec => []` the property unless said otherwise |
| --- | --- |
| `TripLifecycleProofs` | `TypeCorrect`, `Invariant`, `StatusesAgree`, `NothingIsSkipped`, `CompletionIsUnique`, `ChargeIsUnique`, `FeesAreEarned`, `CompletionsAreCarried`, and `Refinement` (`Spec` implies the abstract specification) |
| `DispatchProofs` | `TypeCorrect`, `Invariant`, `OneRun`, `AssigneeAccepted`, `RowsAgree`, `AskedOnce`, `OneOffer` |
| `DispatchSearchProofs` | `SearchIsExhaustive`, `NoRideForgotten`, `FailureStays`; for a single worker `OneWorkerOneRide` |
| `RideRequestProofs` | `TypeCorrect`, `Invariant`, `KeyHasOneRide`, `NoRideForgotten` |
| `PaymentFlowProofs` | `TypeCorrect`, `Invariant`, `AnnouncementsAreTrue`, `SettledBeforeCommit`, and `Refinement` (`Spec` implies the abstract specification) |
| `AuthSessionsProofs` | `TypeCorrect`, `Invariant`, `LoginHasOneSession`, `LogoutIsFinal`, `CountsAreTimed`, and `LogoutEndsRefresh` (an action property) |
| `RiderAccountProofs` | `TypeCorrect`, `DefaultIsOne`, `PreferencesAreKept` |
| `DriverPresenceProofs` | `TypeCorrect`, `OfflineStaysOff`, `SightingsAreWatched`, `ConnectedIsNotTimed` |

None of the properties is inductive alone, because the calls and the runs act on what
they read earlier. Each proof adds what they know, has a lemma per action, and shares
a frame lemma among the actions that touch nothing of it.

**TripLifecycle.** `CallsAreBacked`: the status a call read is one that the trip *has
entered*, a cancellation read a cancellable one, and a completion past its transaction
is the only one of its trip, has its payment row and has charged nothing. This makes
stale commits harmless to `NoSkipping` (the audit row leaves a status entered before,
by an edge of the diagram) and makes the unique index on payments stand for
`ChargedOnce`. `RowsFollowAssignment`: the trip row exists exactly once the worker's
transaction is over, so the assignment meets no earlier audit row; until then the ride
is not assigned. `RecordsAgree` allows the ride one difference, the CANCELLED of a late
`save()`, and no other. `FeeNeedsArrival` follows from what the cancellation read being
entered: a fee computed from a stale status is still that of a status the driver
reached. `Refinement` has no condition: the abstract machine asks that the status a step
leaves *has been entered*, which is what `CallsAreBacked` knows, and that a completion
finds no payment row, which is what the unique index sees to.

**Dispatch.** `RunInv` is what a run knows: its ride is marked as processed, which
gives the ride one run for ever (`OneRunPerRide` never uses the lock); while an offer
is open the only offer key of the ride is that driver's; whoever was offered the ride
is out of the run's list and in the declined set, or is the driver in hand; an
`accepted` answer stands for an accept that was published; a trip exists only from the
transaction on. `RideInv` is what the rows say: a driver in the row means a trip, and
a cancellation that is about to take the driver off the row will leave, or has found,
CANCELLED. The last is what `RideFollowsTrip` needs, because save() writes only the
columns that differed when it reloaded the row. `DispatchSearchProofs` adds `Asking`
(every free driver within the current radius was asked or is in the list) and `Asked`;
a list whose limit is the number of drivers cuts nobody (`NobodyIsCut`, by
cardinality), so an empty list means that everybody within the radius was asked.
`FailInv` is what `FailureIsFinal` needs: a ride whose failure was announced has no
trip and is FAILED or CANCELLED, its event is marked (`Told`), and the run that
announced it only unlocks; a run that still looks for a driver has announced nothing and
finds its ride MATCHING or CANCELLED (`Seeks`).

**RideRequest.** A call between its insert and its answer has a ride of its key that
nobody requested (`CallsKnow`), alone (`OneSender`), and a cached answer is a ride of
its key (`CacheTells`). The unique index is used once, at the insert.

**PaymentFlow.** A worker holds a message that was sent (`HasMessage`), of an event
marked before (`MarkedFirst`), which no other worker holds (`OneHandler`), and the
work done on it follows the attempts (`WorkIsCounted`). With these every step of the
consumer is a step of `EventHandling` or a stutter (`Refinement`). `WebhooksTell`
relates the webhook calls in progress to the rows they saved.

**AuthSessions.** A refresh makes a device that no client has and alone stores its
session (`CallsKnow`, `OneMaker`); a login has one live session *or* one refresh that
may make one, unless it forked (`LiveOrRenewed`, `RenewedOnce`); a device that logs
out has no session, and whoever renews it forked its login (`EndedForGood`); the
blacklist key lasts as long as the signature (`BlacklistLasts`, from the rounding of
both ends).

**RiderAccount.** `Untangled` and `SeesMethods` tell when a call is the only one that
makes a default and what the count it read still means; `ReadsAreFresh` that the
preferences a call read are the saved ones while no other call saved.

**DriverPresence.** `OfflineInv`: unless writers overlapped or died, the writers of the
row and the hash are one at a time (`OneWriter`, from the cardinality that `Race`
counts), a refresh that is past the row has read it AVAILABLE and still finds it so
(`RowIsKnown`), and an OFFLINE row with an AVAILABLE hash has a call between its two
writes (`HashFollowsRow`). `TimerInv`: unless connections overlapped, the map of a
process knows its only timer (`TimersAreTracked`), and the process a driver is connected
to has cleared its own (`TimersAreCleared`).

### One worker

`MCDispatch_double` shows two workers giving one driver two rides. `OneWorkerOneRide`
says that it takes two: with a single worker no driver gets two rides, unless something
failed, for any number of rides and drivers. Its lemma `NoDriverTwice` has the reason:
the driver of a trip is marked BUSY or is still in the hands of the run that assigned
it (`BusyInv`), so that no other run finds that driver unless two runs have one driver
on their lists at a time (`NoSharedDriver`), which a lock on the driver would prevent
and the code does not.

### What needs no fairness

Of a liveness property the prover can be given the part that is safety: whoever waits is
in the hands of somebody who can go on. It excludes that the thing is lost, and leaves to
fairness only that the holder makes progress.

| Liveness, checked by TLC | Its safety part, proved |
| --- | --- |
| `CompletionIsSettled` | `CompletionIsCarried`: a payment row has both of its messages, or a call that is about to send them |
| `RequestIsAnswered` | `RequestIsCarried`, also a property of the run: a ride has a message on its way, a run, or an outcome that was announced if it is a failure |
| `RideIsRequested` | `RideIsCarried`: a row was requested, or a call has still to do it |
| `EventIsSettled` | `CommittedIsSettled`: what is committed has a result or is a dead letter |
| `LockoutEnds` | `CountIsTimed`: a counter has a time to live, or a login about to set it |

All of them excuse failures where the code repeats nothing after one. In `Dispatch` it is
the mark of the event, not the lock, that hands a ride to one run (`CarryInv`): a ride
whose event is unmarked is never locked, so the run that marks it also gets the lock. In
`PaymentFlow` an event is, without a failure, in the hands of one worker from its
delivery to its commit (`OneDelivery`), and whoever marked it has it still
(`UnmarkedUntilMark`): a delivery that finds the mark of somebody else, and commits what
is not settled, takes a failure.

### What is left to TLC

All liveness, for the prover has neither fairness nor ENABLED. `GoneIsNotOffered` and
`SurgeEndsWithDrivers` have no safety part worth stating: who is gone is in nobody's
hands but those of timers. Of the surge keys only the types are proved, with those of
`RideRequest`.

## Not modelled, and the plan

What could come next: a composition of `Dispatch` and `TripLifecycle` over several
rides of one driver, whose state space the separate runs keep apart, and the clock of
the rate window and of the throttle of the snapshots, as a module of their own.

Not modelled:

- the location snapshots: a throttle key and one UPDATE of coordinates that only a
  reconnection without an index entry reads; `ReadGeo` lets them be there or not;
- the rate limit of locations and the cache of driver ids: an update that is
  refused is no update, and the ids never change;
- tenants and regions: inserts, queries and a slug cache of five minutes that is
  never wrong, because no code changes or deactivates a tenant;
- vehicles and the profile of a driver, `lastLoginAt`, all queries;
- the arithmetic of the base fare and of distances, which no guard reads;
- the rider gateway and the realtime service (socket output that nobody reads
  back), health, filters, interceptors and adapters (input and output), migrations
  and seeds beyond the statuses and unique indexes that the models use,
  `createTrip` (it has no caller).
