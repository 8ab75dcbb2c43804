------------------------------ MODULE Dispatch ------------------------------
(***************************************************************************)
(* How a ride finds its driver: RideService.createRide and the direct part *)
(* of cancelRide (apps/api), MatchingConsumer with MatchingService         *)
(* (apps/worker), and DriverGateway.handleOfferResponse (apps/api). They   *)
(* share the rides and trips tables, the Redis keys of the lock, of the    *)
(* offers and of the drivers, and two kinds of pub/sub channel.            *)
(*                                                                         *)
(* Each worker is a process that handles one ride.request.created message  *)
(* at a time; a step of it ends at an await. A pub/sub message reaches     *)
(* only who is subscribed at that moment, and of the messages a worker     *)
(* gets for an offer only the first counts.                                *)
(*                                                                         *)
(* The statuses of the drivers found by a search are read one at a time in *)
(* the code and at once here; a list that is stale for a driver is reached *)
(* all the same, because the offers come later. Only drivers of the ride's *)
(* vehicle type are in Drivers. No code writes the rating of a driver to   *)
(* Redis, so every candidate has the default rating and distance alone     *)
(* ranks them. All drivers are online, and none becomes available again    *)
(* after an assignment: the trip that follows, with its cancellation, is   *)
(* TripLifecycle's subject.                                                *)
(***************************************************************************)
EXTENDS TripStatuses, Naturals, Sequences, FiniteSets

CONSTANTS Rides, Drivers, Workers,
          Taps,             \* answers of drivers the gateway handles at a time
          Null,             \* absent value
          Distance,         \* km from each driver to the pickup point
          SearchLimit,      \* COUNT of the GEOSEARCH, 10 in the code
          OfferLimit,       \* candidates kept of a search, 5 in the code
          MaxRedeliveries,  \* bound: redeliveries of each message
          MaxTaps,          \* bound: answers sent by drivers
          MaxCancels,       \* bound: cancellations requested by riders
          MaxFailures       \* bound: crashes and failed calls

ASSUME NullAssumption == Null \notin Drivers /\ Null \notin Rides
ASSUME DistanceAssumption ==
    /\ Distance \in [Drivers -> Nat]
    /\ \A d, e \in Drivers : Distance[d] = Distance[e] => d = e
ASSUME DriversAssumption == IsFiniteSet(Drivers)
ASSUME LimitAssumption == SearchLimit \in Nat /\ OfferLimit \in Nat
ASSUME BoundAssumption == /\ MaxRedeliveries \in Nat /\ MaxTaps \in Nat
                          /\ MaxCancels \in Nat /\ MaxFailures \in Nat

VARIABLES
    ride,        \* rides.status, NoRideRow before the insert
    rideDriver,  \* rides.driverId
    trip,        \* driver of the ride's trips row, Null without one
    request,     \* createRide's progress for each ride
    deliveries,  \* times ride.request.created was delivered for each ride
    processed,   \* rides whose message has its processed:event key
    failedSent,  \* rides with a ride.matching.failed message sent
    lock,        \* rides with a matching:lock key
    declined,    \* ride:declined set of each ride
    offerKey,    \* ride:offer keys, as pairs of ride and driver
    fresh,       \* offers made less than ten seconds ago
    busy,        \* drivers whose driver:status is BUSY
    worker,      \* progress of each worker
    tap,         \* progress of each answer in the gateway
    cancel,      \* progress of the cancellation of each ride
    offered,     \* times each ride was offered to each driver
    accepted,    \* times each driver's accept of each ride was published
    taps, cancels, failures    \* counted against the bounds

dbVars == <<ride, rideDriver, trip>>
kafkaVars == <<request, deliveries, processed, failedSent>>
apiVars == <<tap, cancel>>
seenVars == <<offered, accepted>>
countVars == <<taps, cancels, failures>>
vars == <<dbVars, kafkaVars, lock, declined, offerKey, fresh, busy, worker,
          apiVars, seenVars, countVars>>
-----------------------------------------------------------------------------
NoRideRow == "NONE"

Radii == <<5, 10, 15>>

Answers == {"accepted", "declined", "timeout", "cancelled"}

ASSUME AnswerAssumption == Null \notin Answers

\* Where a worker is in startMatching and offerRide.
Searching == {"mark", "search", "offer", "subscribe", "wait", "assign", "busy",
              "close", "decline", "fail", "sendFailed", "unlock"}

NoRun == [pc |-> "idle", ride |-> Null, round |-> 1, left |-> {},
          driver |-> Null, answer |-> Null]

WorkerStates ==
    {NoRun} \cup
    [pc : {"lock"} \cup Searching, ride : Rides, round : DOMAIN Radii,
     left : SUBSET Drivers, driver : Drivers \cup {Null},
     answer : Answers \cup {Null}]

NoTap == [pc |-> "idle", ride |-> Null, driver |-> Null, says |-> Null]

NoCancel == [pc |-> "idle", restatus |-> FALSE, unassign |-> FALSE, keys |-> {}]

TypeOK ==
    /\ ride \in [Rides -> RideStatus \cup {NoRideRow}]
    /\ rideDriver \in [Rides -> Drivers \cup {Null}]
    /\ trip \in [Rides -> Drivers \cup {Null}]
    /\ request \in [Rides -> {"none", "saved", "sent", "lost"}]
    /\ deliveries \in [Rides -> Nat]
    /\ processed \subseteq Rides /\ failedSent \subseteq Rides
    /\ lock \subseteq Rides
    /\ declined \in [Rides -> SUBSET Drivers]
    /\ offerKey \subseteq Rides \X Drivers /\ fresh \subseteq Rides \X Drivers
    /\ busy \subseteq Drivers
    /\ worker \in [Workers -> WorkerStates]
    /\ tap \in [Taps -> {NoTap} \cup
                        [pc : {"delete", "publish"}, ride : Rides,
                         driver : Drivers, says : {"accepted", "declined"}]]
    /\ cancel \in [Rides -> [pc : {"idle", "reload", "save", "publish", "keys",
                                   "delete"},
                             restatus : BOOLEAN, unassign : BOOLEAN,
                             keys : SUBSET Drivers]]
    /\ offered \in [Rides -> [Drivers -> Nat]]
    /\ accepted \in [Rides -> [Drivers -> Nat]]
    /\ taps \in Nat /\ cancels \in Nat /\ failures \in Nat

Init ==
    /\ ride = [r \in Rides |-> NoRideRow]
    /\ rideDriver = [r \in Rides |-> Null]
    /\ trip = [r \in Rides |-> Null]
    /\ request = [r \in Rides |-> "none"]
    /\ deliveries = [r \in Rides |-> 0]
    /\ processed = {} /\ failedSent = {} /\ lock = {}
    /\ declined = [r \in Rides |-> {}]
    /\ offerKey = {} /\ fresh = {} /\ busy = {}
    /\ worker = [w \in Workers |-> NoRun]
    /\ tap = [k \in Taps |-> NoTap]
    /\ cancel = [r \in Rides |-> NoCancel]
    /\ offered = [r \in Rides |-> [d \in Drivers |-> 0]]
    /\ accepted = [r \in Rides |-> [d \in Drivers |-> 0]]
    /\ taps = 0 /\ cancels = 0 /\ failures = 0

NewFailure == failures < MaxFailures /\ failures' = failures + 1
-----------------------------------------------------------------------------
(* RideService.createRide                                                  *)

\* The row is inserted.
CreateRide(r) ==
    /\ request[r] = "none"
    /\ ride' = [ride EXCEPT ![r] = "REQUESTED"]
    /\ request' = [request EXCEPT ![r] = "saved"]
    /\ UNCHANGED <<rideDriver, trip, deliveries, processed, failedSent, lock,
                   declined, offerKey, fresh, busy, worker, apiVars, seenVars,
                   countVars>>

\* ride.request.created is sent.
SendRequest(r) ==
    /\ request[r] = "saved"
    /\ request' = [request EXCEPT ![r] = "sent"]
    /\ UNCHANGED <<dbVars, deliveries, processed, failedSent, lock, declined,
                   offerKey, fresh, busy, worker, apiVars, seenVars, countVars>>

\* The send is rejected, or the process dies before it: nobody repeats it.
RequestFails(r) ==
    /\ NewFailure
    /\ request[r] = "saved"
    /\ request' = [request EXCEPT ![r] = "lost"]
    /\ UNCHANGED <<dbVars, deliveries, processed, failedSent, lock, declined,
                   offerKey, fresh, busy, worker, apiVars, seenVars, taps, cancels>>
-----------------------------------------------------------------------------
(* MatchingConsumer and the frame of startMatching                         *)

\* What the worker goes through: its record with a new place and what the
\* step found out.
Go(w, pc) == worker' = [worker EXCEPT ![w].pc = pc]

\* Plausible faults of the code, each used in place of one definition below
\* to show that a property notices it.
FaultNoDedup(r) == FALSE

\* ProcessedEventsService.isProcessed: SET NX, so the key is also set. It
\* lasts a day; a redelivery comes within minutes, so here it does not end.
IsProcessed(r) == r \in processed

\* A message is delivered, and again when its offset was not committed: a
\* run of offers outlasts the session timeout of the consumer group. The
\* event is marked as processed before it is handled.
Deliver(w, r) ==
    /\ worker[w].pc = "idle"
    /\ request[r] = "sent"
    /\ deliveries[r] <= MaxRedeliveries
    /\ deliveries' = [deliveries EXCEPT ![r] = @ + 1]
    /\ processed' = processed \cup {r}
    /\ worker' = IF IsProcessed(r) THEN worker
                 ELSE [worker EXCEPT ![w] = [NoRun EXCEPT !.pc = "lock", !.ride = r]]
    /\ UNCHANGED <<dbVars, request, failedSent, lock, declined, offerKey, fresh,
                   busy, apiVars, seenVars, countVars>>

\* SET matching:lock NX; another run's lock ends this one.
Lock(w) ==
    LET r == worker[w].ride
    IN /\ worker[w].pc = "lock"
       /\ IF r \in lock THEN worker' = [worker EXCEPT ![w] = NoRun]
                        ELSE Go(w, "mark")
       /\ lock' = lock \cup {r}
       /\ UNCHANGED <<dbVars, kafkaVars, declined, offerKey, fresh, busy,
                      apiVars, seenVars, countVars>>

\* The lock's thirty seconds are over, whoever holds it.
LockExpires(r) ==
    /\ r \in lock
    /\ lock' = lock \ {r}
    /\ UNCHANGED <<dbVars, kafkaVars, declined, offerKey, fresh, busy, worker,
                   apiVars, seenVars, countVars>>

\* UPDATE rides SET status = MATCHING, whatever the status is.
MarkMatching(w) ==
    /\ worker[w].pc = "mark"
    /\ ride' = [ride EXCEPT ![worker[w].ride] = "MATCHING"]
    /\ Go(w, "search")
    /\ UNCHANGED <<rideDriver, trip, kafkaVars, lock, declined, offerKey, fresh,
                   busy, apiVars, seenVars, countVars>>

\* The finally block: DEL matching:lock and DEL ride:declined. The two keys
\* are unrelated, and nobody reads the second without a run.
Unlock(w) ==
    LET r == worker[w].ride
    IN /\ worker[w].pc = "unlock"
       /\ lock' = lock \ {r}
       /\ declined' = [declined EXCEPT ![r] = {}]
       /\ worker' = [worker EXCEPT ![w] = NoRun]
       /\ UNCHANGED <<dbVars, kafkaVars, offerKey, fresh, busy, apiVars,
                      seenVars, countVars>>
-----------------------------------------------------------------------------
(* The search loop and one offer                                           *)

FaultDeclinedIgnored(r, round) ==
    {d \in Drivers : Distance[d] <= Radii[round]} \ busy
FaultPastLastRadius(run, left) ==
    IF left # {} THEN [run EXCEPT !.pc = "offer", !.left = left]
    ELSE [run EXCEPT !.pc = "search", !.left = {}, !.round = @ + 1]
FaultSameRadiusAgain(run, left) ==
    IF left # {} THEN [run EXCEPT !.pc = "offer", !.left = left]
    ELSE [run EXCEPT !.pc = "search", !.left = {}]
FaultRideOnly(w) ==
    /\ ride' = [ride EXCEPT ![worker[w].ride] = "DRIVER_ASSIGNED"]
    /\ UNCHANGED <<rideDriver, trip>>
FaultKeyKept(w) == UNCHANGED offerKey
FaultFirstRadiusOnly(run, left) ==
    IF left # {} THEN [run EXCEPT !.pc = "offer", !.left = left]
    ELSE [run EXCEPT !.pc = "fail", !.left = {}]

\* The n members of S nearest to the pickup point.
Nearest(S, n) ==
    {d \in S : Cardinality({e \in S : Distance[e] < Distance[d]}) < n}

\* findCandidates, less the drivers who already had the offer: the limit of
\* a search is applied before they are taken out.
Candidates(r, round) ==
    LET found == Nearest({d \in Drivers : Distance[d] <= Radii[round]}, SearchLimit)
    IN Nearest(found \ busy, OfferLimit) \ declined[r]

\* What a run does next with the candidates it has left: offer to one of
\* them, else widen the search, else give up.
Continue(run, left) ==
    CASE left # {} -> [run EXCEPT !.pc = "offer", !.left = left]
      [] left = {} /\ run.round < Len(Radii) ->
            [run EXCEPT !.pc = "search", !.left = {}, !.round = @ + 1]
      [] OTHER -> [run EXCEPT !.pc = "fail", !.left = {}]

Search(w) ==
    LET run == worker[w]
    IN /\ run.pc = "search"
       /\ worker' = [worker EXCEPT
                        ![w] = Continue(run, Candidates(run.ride, run.round))]
       /\ UNCHANGED <<dbVars, kafkaVars, lock, declined, offerKey, fresh, busy,
                      apiVars, seenVars, countVars>>

\* SET ride:offer EX 10, then the offer goes to the driver's app.
Offer(w) ==
    LET r == worker[w].ride
    IN /\ worker[w].pc = "offer"
       /\ \E d \in Nearest(worker[w].left, 1) :
             /\ offerKey' = offerKey \cup {<<r, d>>}
             /\ fresh' = fresh \cup {<<r, d>>}
             /\ offered' = [offered EXCEPT ![r][d] = @ + 1]
             /\ worker' = [worker EXCEPT ![w].pc = "subscribe",
                                         ![w].left = @ \ {d},
                                         ![w].driver = d]
       /\ UNCHANGED <<dbVars, kafkaVars, lock, declined, busy, apiVars, accepted,
                      countVars>>

\* The offer's ten seconds are over: its key is gone.
OfferExpires(r, d) ==
    /\ <<r, d>> \in fresh
    /\ fresh' = fresh \ {<<r, d>>}
    /\ offerKey' = offerKey \ {<<r, d>>}
    /\ UNCHANGED <<dbVars, kafkaVars, lock, declined, busy, worker, apiVars,
                   seenVars, countVars>>

\* SUBSCRIBE, on a connection opened after the offer went out.
Subscribe(w) ==
    /\ worker[w].pc = "subscribe"
    /\ Go(w, "wait")
    /\ UNCHANGED <<dbVars, kafkaVars, lock, declined, offerKey, fresh, busy,
                   apiVars, seenVars, countVars>>

Settle(w, answer) ==
    worker' = [worker EXCEPT ![w].answer = answer,
                             ![w].pc = IF answer = "accepted" THEN "assign" ELSE "close"]

\* The first message of the two channels.
Answered(w) ==
    /\ worker[w].pc = "wait"
    /\ worker[w].answer # Null
    /\ Settle(w, worker[w].answer)
    /\ UNCHANGED <<dbVars, kafkaVars, lock, declined, offerKey, fresh, busy,
                   apiVars, seenVars, countVars>>

\* The timer, started after the key was set with the same ten seconds. A
\* message still on its way is lost.
Timeout(w) ==
    /\ worker[w].pc = "wait"
    /\ <<worker[w].ride, worker[w].driver>> \notin fresh
    /\ Settle(w, "timeout")
    /\ UNCHANGED <<dbVars, kafkaVars, lock, declined, offerKey, fresh, busy,
                   apiVars, seenVars, countVars>>

\* SUBSCRIBE fails, which counts as a timeout.
SubscribeFails(w) ==
    /\ NewFailure
    /\ worker[w].pc = "subscribe"
    /\ Settle(w, "timeout")
    /\ UNCHANGED <<dbVars, kafkaVars, lock, declined, offerKey, fresh, busy,
                   apiVars, seenVars, taps, cancels>>

\* UPDATE rides by id and INSERT trips, in one transaction.
AssignRows(w) ==
    LET r == worker[w].ride
    IN /\ ride' = [ride EXCEPT ![r] = "DRIVER_ASSIGNED"]
       /\ rideDriver' = [rideDriver EXCEPT ![r] = worker[w].driver]
       /\ trip' = [trip EXCEPT ![r] = worker[w].driver]

\* The transaction; the unique index on trips (tenantId, rideId) makes a
\* second one throw.
Assign(w) ==
    /\ worker[w].pc = "assign"
    /\ IF trip[worker[w].ride] = Null
       THEN AssignRows(w) /\ Go(w, "busy")
       ELSE Go(w, "unlock") /\ UNCHANGED dbVars
    /\ UNCHANGED <<kafkaVars, lock, declined, offerKey, fresh, busy, apiVars,
                   seenVars, countVars>>

\* HSET driver:status status BUSY.
SetBusy(w) == busy' = busy \cup {worker[w].driver}

\* The driver leaves the candidates of later searches. The keys and messages
\* that follow (driver:active-ride, ride:active, driver.assignment.created)
\* are nobody's input here.
MarkBusy(w) ==
    /\ worker[w].pc = "busy"
    /\ SetBusy(w)
    /\ Go(w, "close")
    /\ UNCHANGED <<dbVars, kafkaVars, lock, declined, offerKey, fresh, apiVars,
                   seenVars, countVars>>

\* DEL ride:offer.
DeleteOffer(w) == offerKey' = offerKey \ {<<worker[w].ride, worker[w].driver>>}

FaultTimeoutEndsRun == [accepted |-> "unlock", cancelled |-> "fail",
                        declined |-> "decline", timeout |-> "unlock"]

AfterOffer == [accepted |-> "unlock", cancelled |-> "fail",
               declined |-> "decline", timeout |-> "decline"]

\* The end of offerRide and the test of its result.
Close(w) ==
    /\ worker[w].pc = "close"
    /\ DeleteOffer(w)
    /\ Go(w, AfterOffer[worker[w].answer])
    /\ UNCHANGED <<dbVars, kafkaVars, lock, declined, fresh, busy, apiVars,
                   seenVars, countVars>>

\* SADD ride:declined, and on to the next candidate.
Decline(w) ==
    LET run == worker[w]
    IN /\ run.pc = "decline"
       /\ declined' = [declined EXCEPT ![run.ride] = @ \cup {run.driver}]
       /\ worker' = [worker EXCEPT
             ![w] = Continue([run EXCEPT !.driver = Null, !.answer = Null], run.left)]
       /\ UNCHANGED <<dbVars, kafkaVars, lock, offerKey, fresh, busy, apiVars,
                      seenVars, countVars>>

\* The WHERE clause of the UPDATE to FAILED.
FailsRide(r) == ride[r] = "MATCHING"

\* UPDATE rides SET status = FAILED. The driver of the database returns no
\* rowCount for it, so the early return after it is never taken.
Fail(w) ==
    LET r == worker[w].ride
    IN /\ worker[w].pc = "fail"
       /\ ride' = IF FailsRide(r) THEN [ride EXCEPT ![r] = "FAILED"] ELSE ride
       /\ Go(w, "sendFailed")
       /\ UNCHANGED <<rideDriver, trip, kafkaVars, lock, declined, offerKey,
                      fresh, busy, apiVars, seenVars, countVars>>

\* ride.matching.failed, and the rider is told that the ride is FAILED.
SendFailed(w) ==
    /\ worker[w].pc = "sendFailed"
    /\ failedSent' = failedSent \cup {worker[w].ride}
    /\ Go(w, "unlock")
    /\ UNCHANGED <<dbVars, request, deliveries, processed, lock, declined,
                   offerKey, fresh, busy, apiVars, seenVars, countVars>>

\* An awaited call of the run rejects: the finally block runs, the consumer
\* logs the error, and the message counts as handled.
RunThrows(w) ==
    /\ NewFailure
    /\ worker[w].pc \in Searching \ {"subscribe", "wait", "unlock"}
    /\ Go(w, "unlock")
    /\ UNCHANGED <<dbVars, kafkaVars, lock, declined, offerKey, fresh, busy,
                   apiVars, seenVars, taps, cancels>>

\* The worker's process dies and another takes its place.
WorkerDies(w) ==
    /\ NewFailure
    /\ worker[w].pc # "idle"
    /\ worker' = [worker EXCEPT ![w] = NoRun]
    /\ UNCHANGED <<dbVars, kafkaVars, lock, declined, offerKey, fresh, busy,
                   apiVars, seenVars, taps, cancels>>
-----------------------------------------------------------------------------
(* DriverGateway.handleOfferResponse                                       *)

\* Who is subscribed to the channel of the offers of ride r to drivers D.
Listeners(r, D) == {w \in Workers : /\ worker[w].pc = "wait"
                                    /\ worker[w].ride = r
                                    /\ worker[w].driver \in D}

FaultOneChannelPerRide(r, d) == Listeners(r, Drivers)

\* Who hears the answer of driver d to the offer of ride r.
AnswerReaches(r, d) == Listeners(r, {d})

Publish(listeners, message) ==
    worker' = [w \in Workers |->
                  IF w \in listeners /\ worker[w].answer = Null
                  THEN [worker[w] EXCEPT !.answer = message] ELSE worker[w]]

\* EXISTS ride:offer: without the key the driver gets an error and nothing
\* changes.
CheckOffer(k, r, d, says) ==
    /\ tap[k].pc = "idle"
    /\ taps < MaxTaps
    /\ taps' = taps + 1
    /\ <<r, d>> \in offerKey
    /\ tap' = [tap EXCEPT ![k] = [pc |-> "delete", ride |-> r, driver |-> d,
                                  says |-> says]]
    /\ UNCHANGED <<dbVars, kafkaVars, lock, declined, offerKey, fresh, busy,
                   worker, cancel, seenVars, cancels, failures>>

\* DEL ride:offer.
TakeOffer(k) ==
    /\ tap[k].pc = "delete"
    /\ offerKey' = offerKey \ {<<tap[k].ride, tap[k].driver>>}
    /\ tap' = [tap EXCEPT ![k].pc = "publish"]
    /\ UNCHANGED <<dbVars, kafkaVars, lock, declined, fresh, busy, worker,
                   cancel, seenVars, countVars>>

\* PUBLISH offer:response.
Respond(k) ==
    LET r == tap[k].ride
        d == tap[k].driver
    IN /\ tap[k].pc = "publish"
       /\ Publish(AnswerReaches(r, d), tap[k].says)
       /\ accepted' = IF tap[k].says = "accepted"
                      THEN [accepted EXCEPT ![r][d] = @ + 1] ELSE accepted
       /\ tap' = [tap EXCEPT ![k] = NoTap]
       /\ UNCHANGED <<dbVars, kafkaVars, lock, declined, offerKey, fresh, busy,
                      cancel, offered, countVars>>

\* A Redis call of the handler fails, or its process dies.
TapFails(k) ==
    /\ NewFailure
    /\ tap[k].pc # "idle"
    /\ tap' = [tap EXCEPT ![k] = NoTap]
    /\ UNCHANGED <<dbVars, kafkaVars, lock, declined, offerKey, fresh, busy,
                   worker, cancel, seenVars, taps, cancels>>
-----------------------------------------------------------------------------
(* RideService.cancelRide of a ride without a driver                       *)

\* findOne and the two tests of the status. A ride with a driver goes to
\* TripService.
ReadForCancel(r) ==
    /\ cancel[r].pc = "idle"
    /\ cancels < MaxCancels
    /\ cancels' = cancels + 1
    /\ ride[r] \in PreAssignment
    /\ cancel' = [cancel EXCEPT ![r].pc = "reload"]
    /\ UNCHANGED <<dbVars, kafkaVars, lock, declined, offerKey, fresh, busy,
                   worker, tap, seenVars, taps, failures>>

\* save() of the entity reads the row again and compares: it will write the
\* columns that differ. The entity is CANCELLED and has no driver.
ReloadForSave(r) ==
    /\ cancel[r].pc = "reload"
    /\ cancel' = [cancel EXCEPT ![r].pc = "save",
                                ![r].restatus = ride[r] # "CANCELLED",
                                ![r].unassign = rideDriver[r] # Null]
    /\ UNCHANGED <<dbVars, kafkaVars, lock, declined, offerKey, fresh, busy,
                   worker, tap, seenVars, countVars>>

\* The UPDATE of save(), by id.
Save(r) ==
    /\ cancel[r].pc = "save"
    /\ ride' = IF cancel[r].restatus THEN [ride EXCEPT ![r] = "CANCELLED"] ELSE ride
    /\ rideDriver' = IF cancel[r].unassign THEN [rideDriver EXCEPT ![r] = Null]
                     ELSE rideDriver
    /\ cancel' = [cancel EXCEPT ![r].pc = "publish"]
    /\ UNCHANGED <<trip, kafkaVars, lock, declined, offerKey, fresh, busy,
                   worker, tap, seenVars, countVars>>

\* PUBLISH ride:lifecycle 'cancelled'.
PublishCancel(r) ==
    /\ cancel[r].pc = "publish"
    /\ Publish(Listeners(r, Drivers), "cancelled")
    /\ cancel' = [cancel EXCEPT ![r].pc = "keys"]
    /\ UNCHANGED <<dbVars, kafkaVars, lock, declined, offerKey, fresh, busy,
                   tap, seenVars, countVars>>

\* KEYS ride:offer:<ride>:*.
ScanOffers(r) ==
    /\ cancel[r].pc = "keys"
    /\ cancel' = [cancel EXCEPT ![r].pc = "delete",
                                ![r].keys = {d \in Drivers : <<r, d>> \in offerKey}]
    /\ UNCHANGED <<dbVars, kafkaVars, lock, declined, offerKey, fresh, busy,
                   worker, tap, seenVars, countVars>>

\* DEL of the next key; after the last, ride.request.cancelled, which nobody
\* consumes, and the answer to the rider.
DropOffer(r) ==
    /\ cancel[r].pc = "delete"
    /\ \/ \E d \in cancel[r].keys :
             /\ offerKey' = offerKey \ {<<r, d>>}
             /\ cancel' = [cancel EXCEPT ![r].keys = @ \ {d}]
       \/ /\ cancel[r].keys = {}
          /\ cancel' = [cancel EXCEPT ![r] = NoCancel]
          /\ UNCHANGED offerKey
    /\ UNCHANGED <<dbVars, kafkaVars, lock, declined, fresh, busy, worker, tap,
                   seenVars, countVars>>

\* A call of the handler fails, or its process dies.
CancelFails(r) ==
    /\ NewFailure
    /\ cancel[r].pc # "idle"
    /\ cancel' = [cancel EXCEPT ![r] = NoCancel]
    /\ UNCHANGED <<dbVars, kafkaVars, lock, declined, offerKey, fresh, busy,
                   worker, tap, seenVars, taps, cancels>>
-----------------------------------------------------------------------------
\* The steps of a run between its message and its end.
RunStep(w) ==
    \/ Lock(w) \/ MarkMatching(w) \/ Search(w) \/ Offer(w) \/ Subscribe(w)
    \/ Answered(w) \/ Timeout(w) \/ Assign(w) \/ MarkBusy(w) \/ Close(w)
    \/ Decline(w) \/ Fail(w) \/ SendFailed(w) \/ Unlock(w)

\* The steps of the gateway and of a cancellation that have begun.
TapStep(k) == TakeOffer(k) \/ Respond(k)
CancelStep(r) == \/ ReloadForSave(r) \/ Save(r) \/ PublishCancel(r)
                 \/ ScanOffers(r) \/ DropOffer(r)

Next ==
    \/ \E r \in Rides :
          \/ CreateRide(r) \/ SendRequest(r) \/ RequestFails(r)
          \/ LockExpires(r) \/ ReadForCancel(r) \/ CancelStep(r) \/ CancelFails(r)
          \/ \E d \in Drivers :
                \/ OfferExpires(r, d)
                \/ \E k \in Taps, says \in {"accepted", "declined"} :
                      CheckOffer(k, r, d, says)
    \/ \E w \in Workers :
          \/ \E r \in Rides : Deliver(w, r)
          \/ RunStep(w) \/ SubscribeFails(w) \/ RunThrows(w) \/ WorkerDies(w)
    \/ \E k \in Taps : TapStep(k) \/ TapFails(k)

Spec == Init /\ [][Next]_vars

\* Started handlers go on, messages are delivered, keys expire and timers
\* fire. Nobody has to ask for a ride, answer an offer or cancel.
FairSpec ==
    /\ Spec
    /\ \A r \in Rides :
          /\ WF_vars(SendRequest(r))
          /\ WF_vars(\E w \in Workers : Deliver(w, r))
          /\ WF_vars(CancelStep(r))
          /\ \A d \in Drivers : WF_vars(OfferExpires(r, d))
    /\ \A w \in Workers : WF_vars(RunStep(w))
    /\ \A k \in Taps : WF_vars(TapStep(k))
-----------------------------------------------------------------------------
(* What holds however the processes interleave and fail                    *)

\* A ride is never worked on by two runs, although its lock lasts thirty
\* seconds and a run up to two and a half minutes: only the mark that the
\* consumer leaves before it starts (isProcessed) ensures it.
OneRunPerRide ==
    \A v, w \in Workers :
        worker[v].ride = worker[w].ride /\ worker[v].ride # Null => v = w

\* A driver gets a ride only after the gateway passed on that driver's own
\* accept of that very ride: no answer reaches the run through the channel of
\* an earlier offer (waitForResponse).
AssignmentIsAccepted == \A r \in Rides : trip[r] # Null => accepted[r][trip[r]] > 0

\* The ride row and the trip row of an assignment are written together, and
\* all that comes between them later is the save() of a cancellation that was
\* read before: a ride with a trip is DRIVER_ASSIGNED with the trip's driver,
\* or that save() made it CANCELLED and kept or erased the driver. Without a
\* trip it is not assigned and names no driver.
RideFollowsTrip ==
    \A r \in Rides :
        IF trip[r] = Null
        THEN rideDriver[r] = Null /\ ride[r] # "DRIVER_ASSIGNED"
        ELSE \/ ride[r] = "DRIVER_ASSIGNED" /\ rideDriver[r] = trip[r]
             \/ ride[r] = "CANCELLED" /\ rideDriver[r] \in {Null, trip[r]}

\* No driver is asked twice about a ride, however the radius grows: whoever
\* declined, or did not answer, is left out of the later searches.
NoDriverAskedTwice == \A r \in Rides, d \in Drivers : offered[r][d] <= 1

\* The offers of a ride are made one after the other: never do two drivers
\* hold an offer that the gateway would take.
OneOfferAtATime ==
    \A r \in Rides, d, e \in Drivers :
        <<r, d>> \in offerKey /\ <<r, e>> \in offerKey => d = e

\* A failure that the rider was told of is final: no redelivery, late answer
\* or second run gives the ride a driver or starts its search again, and all
\* that may still happen to the row is a cancellation that was read before.
FailureIsFinal ==
    \A r \in failedSent : trip[r] = Null /\ ride[r] \in {"FAILED", "CANCELLED"}

\* The search is exhaustive: a ride fails only after every driver within the
\* largest radius had the offer, however the answers fell, unless the rider
\* meddled or a list was too short for all of them.
EveryoneIsAsked ==
    \A r \in Rides, d \in Drivers :
        /\ ride[r] = "FAILED" /\ cancels = 0
        /\ Cardinality(Drivers) <= OfferLimit /\ OfferLimit <= SearchLimit
        /\ Distance[d] <= Radii[Len(Radii)] /\ d \notin busy
        => offered[r][d] > 0
-----------------------------------------------------------------------------
(* What happens in the end unless something failed                         *)

\* Every ride that was asked for is assigned, cancelled, or failed with the
\* failure announced, in the end.
RequestIsAnswered ==
    \A r \in Rides :
        ride[r] \in PreAssignment
        ~> \/ failures > 0
           \/ ride[r] \notin PreAssignment /\ (ride[r] = "FAILED" => r \in failedSent)

\* The part of it that needs no fairness: unless something failed, a ride has
\* a message to be sent or to be delivered, a run that works on it, or an
\* outcome, which was announced if it is a failure.
RequestIsCarried ==
    \A r \in Rides :
        \/ failures > 0
        \/ request[r] = "saved"
        \/ request[r] = "sent" /\ r \notin processed
        \/ \E w \in Workers : worker[w].ride = r
        \/ ride[r] \notin PreAssignment /\ (ride[r] = "FAILED" => r \in failedSent)
-----------------------------------------------------------------------------
(* What the documents and the comments say and the code does not do        *)

\* HLD.md on the lock of a ride, and matching.service.ts on the writes that
\* follow an assignment: no driver gets two rides at a time.
OneRidePerDriver ==
    \A r, q \in Rides : trip[r] = trip[q] /\ trip[r] # Null => r = q

\* The drivers that a run may still give its ride to: the ones on its list,
\* and the one in hand until that driver's hash says BUSY.
Courted(w) ==
    (IF worker[w].pc \in {"offer", "subscribe", "wait", "assign", "busy", "close",
                          "decline"} THEN worker[w].left ELSE {})
    \cup (IF worker[w].pc \in {"subscribe", "wait", "assign", "busy"}
          THEN {worker[w].driver} ELSE {})

\* What a lock on the driver would see to, or a single worker: no driver is on
\* the lists of two runs.
NoSharedDriver ==
    \A v, w \in Workers : v # w => Courted(v) \cap Courted(w) = {}

\* Then, unless something failed, no driver gets two rides.
OneRideUnlessFailed == failures = 0 => OneRidePerDriver
=============================================================================
