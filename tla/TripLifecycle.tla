--------------------------- MODULE TripLifecycle ---------------------------
(***************************************************************************)
(* TripService of apps/api with what surrounds a trip: the insertion of    *)
(* the trip by the matching worker and the Redis writes that follow it,    *)
(* the concurrent HTTP calls of the driver and of the rider, the rides and *)
(* trips rows, the audit rows in trip_events, the payments row, the        *)
(* trip.completed and payment.charge.requested messages, the driver's      *)
(* Redis keys and TripCompletedConsumer.                                   *)
(*                                                                         *)
(* A call is several steps with an await between each two: read the trip   *)
(* (and, for a completion, the ride, whose fare never changes), run one    *)
(* database transaction, emit to Kafka, and for a cancellation reset the   *)
(* driver's keys. The transaction is one step: it begins by updating the   *)
(* ride's row, so two transactions on a trip never overlap. It checks the  *)
(* status that was read before it began, never the row it updates.         *)
(*                                                                         *)
(* RideService is here with cancelRide: of an assigned ride it goes on to  *)
(* TripService, of one without a driver it saves the row by itself, some   *)
(* time after it read it. What follows that save (the channel and the      *)
(* offer keys) and the driverId column are in Dispatch.                    *)
(*                                                                         *)
(* Each trip has its own ride and its own driver here. Socket messages and *)
(* the topics nobody consumes (trip.status.changed) or that only trigger   *)
(* a notification are left out.                                            *)
(***************************************************************************)
EXTENDS TripStatuses, Naturals, Sequences

CONSTANTS Trips,        \* trips, each with its ride and its driver
          Handlers,     \* HTTP calls that can be in progress at a time
          Null,         \* absent value
          MaxCalls,     \* bound: calls made in a behaviour
          MaxFailures   \* bound: crashes and failed sends in a behaviour

ASSUME NullAssumption == Null \notin Trips /\ Null \notin {0, 50}
ASSUME BoundAssumption == MaxCalls \in Nat /\ MaxFailures \in Nat

VARIABLES
    ride,         \* rides.status, per trip
    trip,         \* trips.status, NoTripRow before the insert
    fee,          \* trips.cancellationFee
    events,       \* trip_events rows of each trip, oldest first
    payments,     \* trips with a payments row
    call,         \* progress of each HTTP call
    charged,      \* payment.charge.requested messages sent for each trip
    completed,    \* trips with a trip.completed message sent
    consumer,     \* TripCompletedConsumer's progress on that message
    matcher,      \* the worker's progress in the rest of offerRide
    driverStatus, \* driver:status:<key> .status
    activeRide,   \* driver:active-ride:<key> present
    calls,        \* calls made so far
    failures      \* failures so far

tripVars == <<trip, fee, events, payments>>
dbVars == <<ride, tripVars>>
redisVars == <<driverStatus, activeRide>>
topicVars == <<charged, completed, consumer>>
vars == <<dbVars, call, topicVars, matcher, redisVars, calls, failures>>

-----------------------------------------------------------------------------
\* The driver's Redis keys are named after drivers.id everywhere but in the
\* consumer of trip.completed, which uses the id found in the message.
DriverKeys == {"driverId", "userId"}

\* The id completeRide puts in trip.completed as driverId: its argument, the
\* caller's user id, and not trip.driverId.
CompletedKey == "userId"

\* The endpoints that change a trip. What the completion's replay cache holds
\* is only an answer.
Ops == DriverOps \cup {"cancelTrip"}

NoCall == [pc |-> "idle", op |-> "cancelTrip", on |-> Null, seen |-> NoTripRow]

\* A call that cancels a ride without a driver, by itself.
Direct == [pc : {"reload", "save"}, op : {"cancelRide"}, on : Trips,
           seen : {NoTripRow}]

\* A call has not started, cancels a ride directly, is about to read the trip
\* of a ride, or carries the status it read.
CallStates ==
    {NoCall} \cup Direct
    \cup [pc : {"byRide"}, op : {"cancelTrip"}, on : Trips, seen : {NoTripRow}]
    \cup [pc : {"commit", "emit", "release", "clear"}, op : Ops, on : Trips,
          seen : TripStatus]

TypeOK ==
    /\ ride \in [Trips -> RideStatus]
    /\ trip \in [Trips -> TripStatus \cup {NoTripRow}]
    /\ fee \in [Trips -> {Null, 0, 50}]
    /\ events \in [Trips -> Seq([from : TripStatus, to : TripStatus])]
    /\ payments \subseteq Trips
    /\ call \in [Handlers -> CallStates]
    /\ charged \in [Trips -> Nat]
    /\ completed \subseteq Trips
    /\ consumer \in [Trips -> {"waiting", "done"}]
    /\ matcher \in [Trips -> {"idle", "busy", "active", "done"}]
    /\ driverStatus \in [Trips -> [DriverKeys -> {"NONE", "AVAILABLE", "BUSY"}]]
    /\ activeRide \in [Trips -> [DriverKeys -> BOOLEAN]]
    /\ calls \in Nat
    /\ failures \in Nat

Init ==
    /\ ride = [t \in Trips |-> "MATCHING"]
    /\ trip = [t \in Trips |-> NoTripRow]
    /\ fee = [t \in Trips |-> Null]
    /\ events = [t \in Trips |-> <<>>]
    /\ payments = {}
    /\ call = [h \in Handlers |-> NoCall]
    /\ charged = [t \in Trips |-> 0]
    /\ completed = {}
    /\ consumer = [t \in Trips |-> "waiting"]
    /\ matcher = [t \in Trips |-> "idle"]
    /\ driverStatus =
          [t \in Trips |-> [k \in DriverKeys |->
              IF k = "driverId" THEN "AVAILABLE" ELSE "NONE"]]
    /\ activeRide = [t \in Trips |-> [k \in DriverKeys |-> FALSE]]
    /\ calls = 0
    /\ failures = 0

-----------------------------------------------------------------------------
(* The matching worker, from the accepted offer on                         *)

\* The transaction of offerRide: ride and trip become DRIVER_ASSIGNED. No
\* trip_events row is written.
Assign(t) ==
    /\ matcher[t] = "idle"
    /\ ride' = [ride EXCEPT ![t] = "DRIVER_ASSIGNED"]
    /\ trip' = [trip EXCEPT ![t] = "DRIVER_ASSIGNED"]
    /\ matcher' = [matcher EXCEPT ![t] = "busy"]
    /\ UNCHANGED <<fee, events, payments, call, topicVars, redisVars, calls,
                   failures>>

\* HSET driver:status status BUSY.
MarkBusy(t) ==
    /\ matcher[t] = "busy"
    /\ driverStatus' = [driverStatus EXCEPT ![t]["driverId"] = "BUSY"]
    /\ matcher' = [matcher EXCEPT ![t] = "active"]
    /\ UNCHANGED <<dbVars, call, topicVars, activeRide, calls, failures>>

\* SET driver:active-ride.
SetActiveRide(t) ==
    /\ matcher[t] = "active"
    /\ activeRide' = [activeRide EXCEPT ![t]["driverId"] = TRUE]
    /\ matcher' = [matcher EXCEPT ![t] = "done"]
    /\ UNCHANGED <<dbVars, call, topicVars, driverStatus, calls, failures>>
-----------------------------------------------------------------------------
(* Reading the trip                                                        *)

Enter(h, pc, op, t, seen) ==
    call' = [call EXCEPT ![h] = [pc |-> pc, op |-> op, on |-> t, seen |-> seen]]

Leave(h) == call' = [call EXCEPT ![h] = NoCall]

NewCall(h) ==
    /\ call[h].pc = "idle"
    /\ calls < MaxCalls
    /\ calls' = calls + 1

\* loadAndAuthorizeDriver: the driver's call reads the trip it is about. A
\* trip that does not exist, or another driver's, ends the call unchanged.
LoadTrip(h, t, op) ==
    /\ NewCall(h)
    /\ trip[t] # NoTripRow
    /\ Enter(h, "commit", op, t, trip[t])
    /\ UNCHANGED <<dbVars, topicVars, matcher, redisVars, failures>>

\* cancelTrip reads the trip and refuses, with no effect, a status that is
\* not cancellable.
LoadForCancel(h, t) ==
    /\ NewCall(h)
    /\ trip[t] \in TripCancellable
    /\ Enter(h, "commit", "cancelTrip", t, trip[t])
    /\ UNCHANGED <<dbVars, topicVars, matcher, redisVars, failures>>

\* RideService.cancelRide of an assigned ride: it reads the ride, refuses a
\* started or final one, and goes on to cancelTripByRideId.
LoadRide(h, t) ==
    /\ NewCall(h)
    /\ ride[t] \in RideCancellable \ PreAssignment
    /\ Enter(h, "byRide", "cancelTrip", t, NoTripRow)
    /\ UNCHANGED <<dbVars, topicVars, matcher, redisVars, failures>>

\* cancelTripByRideId and the start of cancelTrip: the trip is read again,
\* and the call ends with no effect when it is no longer cancellable.
LoadByRide(h) ==
    /\ call[h].pc = "byRide"
    /\ LET t == call[h].on
       IN IF trip[t] \in TripCancellable
          THEN Enter(h, "commit", "cancelTrip", t, trip[t])
          ELSE Leave(h)
    /\ UNCHANGED <<dbVars, topicVars, matcher, redisVars, calls, failures>>
-----------------------------------------------------------------------------
(* RideService.cancelRide of a ride without a driver                       *)

\* findOne and the tests of the status: the ride has no driver.
LoadPending(h, t) ==
    /\ NewCall(h)
    /\ ride[t] \in PreAssignment
    /\ Enter(h, "reload", "cancelRide", t, NoTripRow)
    /\ UNCHANGED <<dbVars, topicVars, matcher, redisVars, failures>>

\* save() reads the row again to see what differs from the entity, which is
\* CANCELLED: nothing if the row is too.
ReloadRide(h) ==
    /\ call[h].pc = "reload"
    /\ IF ride[call[h].on] = "CANCELLED"
       THEN Leave(h) ELSE call' = [call EXCEPT ![h].pc = "save"]
    /\ UNCHANGED <<dbVars, topicVars, matcher, redisVars, calls, failures>>

\* The UPDATE of save(), by id, whatever the row has become since.
SaveRide(h) ==
    /\ call[h].pc = "save"
    /\ ride' = [ride EXCEPT ![call[h].on] = "CANCELLED"]
    /\ Leave(h)
    /\ UNCHANGED <<tripVars, topicVars, matcher, redisVars, calls, failures>>
-----------------------------------------------------------------------------
(* The transaction                                                         *)

IsCancel(h) == call[h].op = "cancelTrip"

\* Plausible faults of the code, each used in place of one definition below
\* to show that a property notices it.
FaultCancelFails(h) == IF IsCancel(h) THEN "FAILED" ELSE ToStatus[call[h].op]

\* The status a call moves the trip to.
Target(h) == IF IsCancel(h) THEN "CANCELLED" ELSE ToStatus[call[h].op]

\* More faults, as above.
FaultNoStatusCheck(op, seen) == TRUE
FaultNoUniqueIndex(t) == TRUE
FaultCancelLeavesRide(h) ==
    IF IsCancel(h) THEN ride ELSE [ride EXCEPT ![call[h].on] = Target(h)]
FaultRollbackEmits(h) == call' = [call EXCEPT ![h].pc = "emit"]

\* The check of transition(): the status read earlier against the one the
\* call starts from. cancelTrip passes the status it read, which agrees.
TransitionAllowed(op, seen) == op \in DriverOps => seen = FromStatus[op]

\* The unique index on payments (tenantId, idempotencyKey), the key being the
\* trip's id.
NoPaymentYet(t) == t \notin payments

\* The fee of a cancellation, computed from the status read earlier.
FeeOf(h) == CancellationFee(call[h].seen)

AuditRow(h) == [from |-> call[h].seen, to |-> Target(h)]

\* UPDATE rides, the first statement of every transaction.
RideUpdated(h) == [ride EXCEPT ![call[h].on] = Target(h)]

CanCommit(h) ==
    /\ TransitionAllowed(call[h].op, call[h].seen)
    /\ call[h].op = "completeRide" => NoPaymentYet(call[h].on)

\* UPDATE rides; the check; UPDATE trips by id; INSERT trip_events; for a
\* completion INSERT payments.
Commit(h) ==
    LET t == call[h].on
    IN /\ call[h].pc = "commit"
       /\ CanCommit(h)
       /\ ride' = RideUpdated(h)
       /\ trip' = [trip EXCEPT ![t] = Target(h)]
       /\ fee' = IF IsCancel(h) THEN [fee EXCEPT ![t] = FeeOf(h)] ELSE fee
       /\ events' = [events EXCEPT ![t] = Append(@, AuditRow(h))]
       /\ payments' = IF call[h].op = "completeRide"
                      THEN payments \cup {t} ELSE payments
       /\ call' = [call EXCEPT ![h].pc = "emit"]
       /\ UNCHANGED <<topicVars, matcher, redisVars, calls, failures>>

\* What the call does when the transaction throws: nothing.
Abandon(h) == Leave(h)

\* The check fails, or the payments row exists: everything is rolled back.
Rollback(h) ==
    /\ call[h].pc = "commit"
    /\ ~CanCommit(h)
    /\ Abandon(h)
    /\ UNCHANGED <<dbVars, topicVars, matcher, redisVars, calls, failures>>
-----------------------------------------------------------------------------
(* After the transaction                                                   *)

FaultOnlyChargeSent(h) == {"payment.charge.requested"}
FaultReleaseSkipped(h) == Leave(h) /\ UNCHANGED driverStatus

\* The messages with a consumer that a call sends: two for a completion,
\* none for the other calls.
Messages(h) == IF call[h].op = "completeRide"
               THEN {"trip.completed", "payment.charge.requested"} ELSE {}

Send(h, sent) ==
    LET t == call[h].on
    IN /\ completed' = IF "trip.completed" \in sent
                       THEN completed \cup {t} ELSE completed
       /\ charged' = IF "payment.charge.requested" \in sent
                     THEN [charged EXCEPT ![t] = @ + 1] ELSE charged

\* The Promise.all of Kafka emits. A cancellation goes on to release the
\* driver.
Emit(h) ==
    /\ call[h].pc = "emit"
    /\ Send(h, Messages(h))
    /\ IF IsCancel(h) THEN call' = [call EXCEPT ![h].pc = "release"]
                      ELSE Leave(h)
    /\ UNCHANGED <<dbVars, consumer, matcher, redisVars, calls, failures>>

\* HSET driver:status status AVAILABLE, for trip.driverId.
SetAvailable(h) ==
    /\ driverStatus' = [driverStatus EXCEPT ![call[h].on]["driverId"] = "AVAILABLE"]
    /\ call' = [call EXCEPT ![h].pc = "clear"]

ReleaseStatus(h) ==
    /\ call[h].pc = "release"
    /\ SetAvailable(h)
    /\ UNCHANGED <<dbVars, topicVars, matcher, activeRide, calls, failures>>

\* DEL driver:active-ride, sent right behind on the same connection.
ReleaseActive(h) ==
    /\ call[h].pc = "clear"
    /\ activeRide' = [activeRide EXCEPT ![call[h].on]["driverId"] = FALSE]
    /\ Leave(h)
    /\ UNCHANGED <<dbVars, topicVars, matcher, driverStatus, calls, failures>>

\* TripCompletedConsumer.handle: both writes in one Promise.all, on the keys
\* of the id in the message.
ConsumeCompleted(t) ==
    /\ t \in completed
    /\ consumer[t] = "waiting"
    /\ driverStatus' = [driverStatus EXCEPT ![t][CompletedKey] = "AVAILABLE"]
    /\ activeRide' = [activeRide EXCEPT ![t][CompletedKey] = FALSE]
    /\ consumer' = [consumer EXCEPT ![t] = "done"]
    /\ UNCHANGED <<dbVars, call, charged, completed, matcher, calls, failures>>
-----------------------------------------------------------------------------
(* Failures                                                                *)

NewFailure == failures < MaxFailures /\ failures' = failures + 1

\* The API process dies, a Kafka send rejects after any part of the
\* Promise.all was sent, or a Redis write fails: the call goes no further.
CallFails(h) ==
    /\ NewFailure
    /\ call[h].pc # "idle"
    /\ \E sent \in SUBSET Messages(h) :
          Send(h, IF call[h].pc = "emit" THEN sent ELSE {})
    /\ Leave(h)
    /\ UNCHANGED <<dbVars, consumer, matcher, redisVars, calls>>

\* The worker dies between the transaction and the Redis writes.
MatcherDies(t) ==
    /\ NewFailure
    /\ matcher[t] \in {"busy", "active"}
    /\ matcher' = [matcher EXCEPT ![t] = "done"]
    /\ UNCHANGED <<dbVars, call, topicVars, redisVars, calls>>

\* The worker dies after marking trip.completed as processed and before
\* handling it: the redelivered message is skipped as a duplicate.
LoseCompleted(t) ==
    /\ NewFailure
    /\ t \in completed
    /\ consumer[t] = "waiting"
    /\ consumer' = [consumer EXCEPT ![t] = "done"]
    /\ UNCHANGED <<dbVars, call, charged, completed, matcher, redisVars, calls>>
-----------------------------------------------------------------------------
\* The steps a call takes by itself once it has been made.
CallStep(h) ==
    \/ LoadByRide(h) \/ Commit(h) \/ Rollback(h)
    \/ Emit(h) \/ ReleaseStatus(h) \/ ReleaseActive(h)
    \/ ReloadRide(h) \/ SaveRide(h)

Next ==
    \/ \E t \in Trips :
          \/ Assign(t) \/ MarkBusy(t) \/ SetActiveRide(t)
          \/ ConsumeCompleted(t)
          \/ MatcherDies(t) \/ LoseCompleted(t)
    \/ \E h \in Handlers :
          \/ \E t \in Trips : \/ \E op \in DriverOps : LoadTrip(h, t, op)
                              \/ LoadForCancel(h, t)
                              \/ LoadRide(h, t)
                              \/ LoadPending(h, t)
          \/ CallStep(h)
          \/ CallFails(h)

Spec == Init /\ [][Next]_vars

\* A call that was made, a message that was sent and the worker's tail go on
\* unless something fails; nobody has to make a call or accept an offer.
Fairness ==
    /\ \A h \in Handlers : WF_vars(CallStep(h))
    /\ \A t \in Trips : /\ WF_vars(MarkBusy(t) \/ SetActiveRide(t))
                        /\ WF_vars(ConsumeCompleted(t))

FairSpec == Spec /\ Fairness
-----------------------------------------------------------------------------
(* What holds however the calls interleave                                 *)

Rows(t) == DOMAIN events[t]
RowsTo(t, s) == {i \in Rows(t) : events[t][i].to = s}

\* A transaction that commits with a stale status still keeps the records of
\* a trip together: the trip row tells the status of the newest audit row,
\* and so does the ride row (transition and the UPDATE of rides before it, in
\* one transaction), unless the late save of cancelRide made it CANCELLED.
RecordsAgree ==
    \A t \in Trips : trip[t] # NoTripRow =>
        /\ trip[t] = IF events[t] = <<>> THEN "DRIVER_ASSIGNED"
                     ELSE events[t][Len(events[t])].to
        /\ ride[t] \in {trip[t], "CANCELLED"}

RowIsLegal(t, i) ==
    /\ \/ events[t][i].from = "DRIVER_ASSIGNED"
       \/ \E j \in Rows(t) : j < i /\ events[t][j].to = events[t][i].from
    /\ \/ /\ events[t][i].to = "CANCELLED"
          /\ events[t][i].from \in TripCancellable
       \/ \E op \in DriverOps :
             events[t][i] = [from |-> FromStatus[op], to |-> ToStatus[op]]

\* "No skipping": every audit row is an edge of the diagram, and leaves a
\* status the trip had entered before. With lost updates a status can be
\* left more than once, but none is reached without its predecessors.
NoSkipping == \A t \in Trips : \A i \in Rows(t) : RowIsLegal(t, i)

\* A trip is completed at most once, whatever is replayed or raced, and has
\* its payment row from that moment on and not before: the unique index
\* turns the second completion into a rollback (completeRide).
CompletedOnce ==
    \A t \in Trips :
        /\ t \in payments <=> RowsTo(t, "COMPLETED") # {}
        /\ \A i, j \in RowsTo(t, "COMPLETED") : i = j

\* The rider is asked to pay at most once, and never for a trip whose
\* payment row was not committed: the emits come after the transaction.
ChargedOnce ==
    \A t \in Trips : /\ charged[t] <= 1
                     /\ charged[t] = 1 \/ t \in completed => t \in payments

\* A rider pays for a cancellation only if the driver had arrived, however
\* old the status is that the fee was computed from, and has no fee without a
\* cancellation (cancelTrip).
FeeNeedsArrival ==
    \A t \in Trips :
        /\ fee[t] # Null => RowsTo(t, "CANCELLED") # {}
        /\ fee[t] = 50 => RowsTo(t, "DRIVER_ARRIVED") # {}

Entered(t, s) == s = "DRIVER_ASSIGNED" \/ RowsTo(t, s) # {}

\* The completion of trip t committed in call h, its messages are not sent.
Completing(h, t) ==
    call[h].pc = "emit" /\ call[h].op = "completeRide" /\ call[h].on = t

ReadIsBacked(h) ==
    call[h].pc \notin {"idle", "reload", "save"} =>
        /\ trip[call[h].on] # NoTripRow
        /\ call[h].pc = "commit" =>
              /\ Entered(call[h].on, call[h].seen)
              /\ IsCancel(h) => call[h].seen \in TripCancellable

CompletionIsBacked(h, t) ==
    Completing(h, t) =>
        /\ t \in payments \ completed
        /\ charged[t] = 0
        /\ \A g \in Handlers : Completing(g, t) => g = h

\* What a call knows is never invented: the status it read is one the trip
\* had, however long ago, and a completion that is past its transaction is
\* the only one of its trip, has its payment row and has not charged yet.
CallsAreBacked ==
    \A h \in Handlers : /\ ReadIsBacked(h)
                        /\ \A t \in Trips : CompletionIsBacked(h, t)

\* A trip row is there once the worker's transaction is over, never before;
\* without it the ride is not assigned, though perhaps cancelled, and nothing
\* is recorded.
RowsFollowAssignment ==
    \A t \in Trips :
        /\ matcher[t] = "idle" <=> trip[t] = NoTripRow
        /\ trip[t] = NoTripRow => /\ events[t] = <<>>
                                  /\ ride[t] \in PreAssignment \cup {"CANCELLED"}

\* The inductive invariant of the specification.
IInv ==
    /\ TypeOK
    /\ RecordsAgree
    /\ NoSkipping
    /\ CompletedOnce
    /\ ChargedOnce
    /\ FeeNeedsArrival
    /\ CallsAreBacked
    /\ RowsFollowAssignment
-----------------------------------------------------------------------------
(* The abstract trip                                                       *)

\* The statuses a trip has had, by its audit trail.
EnteredStatuses ==
    [t \in Trips |->
        IF trip[t] = NoTripRow THEN {}
        ELSE {"DRIVER_ASSIGNED"} \cup {events[t][i].to : i \in Rows(t)}]

TripPromise == INSTANCE TripStateMachine
                   WITH status <- trip, entered <- EnteredStatuses, paid <- payments

\* However the calls on it overlap and fail, a trip does what the abstract one
\* does, in steps of one transaction each.
ImplementsTripStateMachine == TripPromise!Spec
-----------------------------------------------------------------------------
(* What happens in the end unless something failed                         *)

\* A completed trip is charged and its trip.completed message is handled.
CompletionIsSettled ==
    \A t \in Trips :
        t \in payments ~> (failures > 0 \/ (charged[t] = 1 /\ consumer[t] = "done"))

\* The part of it that needs no fairness: unless something failed, a payment
\* row has both of its messages, or a call that is about to send them.
CompletionIsCarried ==
    \A t \in payments :
        \/ failures > 0
        \/ charged[t] = 1 /\ t \in completed
        \/ \E h \in Handlers : Completing(h, t)

\* A cancellation committed once the worker has marked the driver busy makes
\* the driver available again, for good.
CancelReleasesDriver ==
    \A t \in Trips :
        (matcher[t] = "done" /\ \E h \in Handlers :
            call[h].pc = "emit" /\ IsCancel(h) /\ call[h].on = t)
        ~> (failures > 0 \/ [](driverStatus[t]["driverId"] = "AVAILABLE"
                               /\ ~activeRide[t]["driverId"]))
-----------------------------------------------------------------------------
(* What the documents say and the code does not do                         *)

\* LLD.md: TripCompletedConsumer resets the driver's Redis status to
\* AVAILABLE.
CompletionReleasesDriver ==
    \A t \in Trips :
        consumer[t] = "done" => driverStatus[t]["driverId"] = "AVAILABLE"

\* cancelRide saves a ride by itself because no trip exists yet: no ride is
\* cancelled beside a trip that goes on.
CancelledRideHasNoLiveTrip ==
    \A t \in Trips :
        ride[t] = "CANCELLED" => trip[t] \in {NoTripRow, "CANCELLED"}
=============================================================================
