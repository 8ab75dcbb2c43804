---------------------------- MODULE TripStatuses ----------------------------
(***************************************************************************)
(* The vocabulary that the ride and the trip modules share: the statuses   *)
(* of packages/common, the driver-driven part of the trip diagram, the     *)
(* statuses a trip or a ride can be cancelled from, and the cancellation   *)
(* fee.                                                                    *)
(***************************************************************************)

\* A trip row that does not exist yet.
NoTripRow == "NONE"

\* ACTIVE_STATUSES of TripService: the statuses of a trip under way.
ActiveStatuses ==
    {"DRIVER_ASSIGNED", "DRIVER_ARRIVING", "DRIVER_ARRIVED", "RIDE_STARTED"}

FinalStatuses == {"COMPLETED", "CANCELLED"}

TripStatus == ActiveStatuses \cup FinalStatuses

\* CANCELLABLE_STATUSES of TripService: every active status.
TripCancellable == ActiveStatuses

\* CANCELLABLE_STATUSES of RideService: a started ride cannot be cancelled
\* through the rides endpoint.
PreAssignment == {"REQUESTED", "MATCHING"}
RideCancellable ==
    PreAssignment \cup {"DRIVER_ASSIGNED", "DRIVER_ARRIVING", "DRIVER_ARRIVED"}

RideStatus == PreAssignment \cup TripStatus \cup {"FAILED"}

\* The calls a driver makes in the course of a trip, with the status that
\* each one moves the trip from and to.
DriverOps == {"markArriving", "markArrived", "startRide", "completeRide"}

FromStatus ==
    [op \in DriverOps |->
        CASE op = "markArriving" -> "DRIVER_ASSIGNED"
          [] op = "markArrived"  -> "DRIVER_ARRIVING"
          [] op = "startRide"    -> "DRIVER_ARRIVED"
          [] op = "completeRide" -> "RIDE_STARTED"]

ToStatus ==
    [op \in DriverOps |->
        CASE op = "markArriving" -> "DRIVER_ARRIVING"
          [] op = "markArrived"  -> "DRIVER_ARRIVED"
          [] op = "startRide"    -> "RIDE_STARTED"
          [] op = "completeRide" -> "COMPLETED"]

\* A plausible fault of the code, used in place of the next definition to show
\* that a property notices it.
FaultEarlyStatuses == {"DRIVER_ASSIGNED"}

\* The fee of a trip cancelled while its status is s: free until the driver
\* has arrived at the pickup point.
EarlyStatuses == {"DRIVER_ASSIGNED", "DRIVER_ARRIVING"}
CancellationFee(s) == IF s \in EarlyStatuses THEN 0 ELSE 50
=============================================================================
