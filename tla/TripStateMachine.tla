-------------------------- MODULE TripStateMachine --------------------------
(***************************************************************************)
(* What a trip promises to its rider, its driver and the payment side even *)
(* though no lock and no version column guard its row: one atomic step per *)
(* transition, each along an edge of the diagram, from a status that the   *)
(* trip has had. That is not always the one it has at that moment, so      *)
(* a final status may be overwritten; but no status is had before its      *)
(* predecessors, the fee is the fee of a status the trip has had, and a    *)
(* trip is completed once at most, with its payment row in the same step.  *)
(* TripLifecycle implements this specification.                            *)
(***************************************************************************)
EXTENDS TripStatuses

CONSTANTS Trips,    \* the trips
          Null      \* no fee recorded

VARIABLES status,   \* status of each trip, NoTripRow before the assignment
          entered,  \* statuses each trip has had
          fee,      \* cancellation fee, Null unless cancelled
          paid      \* trips with a payment row

vars == <<status, entered, fee, paid>>

Init ==
    /\ status = [t \in Trips |-> NoTripRow]
    /\ entered = [t \in Trips |-> {}]
    /\ fee = [t \in Trips |-> Null]
    /\ paid = {}

Move(t, s) ==
    /\ status' = [status EXCEPT ![t] = s]
    /\ entered' = [entered EXCEPT ![t] = @ \cup {s}]

\* A driver accepted: the trip exists.
Assign(t) ==
    /\ status[t] = NoTripRow
    /\ Move(t, "DRIVER_ASSIGNED")
    /\ UNCHANGED <<fee, paid>>

\* The driver moves the trip on; a completion creates the payment row in the
\* same step, and there is one only.
Advance(t, op) ==
    /\ FromStatus[op] \in entered[t]
    /\ op = "completeRide" => t \notin paid
    /\ Move(t, ToStatus[op])
    /\ paid' = IF op = "completeRide" THEN paid \cup {t} ELSE paid
    /\ UNCHANGED fee

\* Either side cancels the trip, for the fee of a status it has had.
Cancel(t) ==
    /\ \E s \in TripCancellable \cap entered[t] :
          fee' = [fee EXCEPT ![t] = CancellationFee(s)]
    /\ Move(t, "CANCELLED")
    /\ UNCHANGED paid

Next == \E t \in Trips : \/ Assign(t)
                         \/ \E op \in DriverOps : Advance(t, op)
                         \/ Cancel(t)

Spec == Init /\ [][Next]_vars
=============================================================================
