------------------------ MODULE TripLifecycleProofs ------------------------
(***************************************************************************)
(* Proofs about TripLifecycle for any set of trips, any number of          *)
(* overlapping calls and any bounds.                                       *)
(***************************************************************************)
EXTENDS TripLifecycle, TLAPS

\* The operators on statuses stay within the statuses.
LEMMA StatusFacts ==
    /\ \A op \in DriverOps : /\ FromStatus[op] \in ActiveStatuses
                             /\ ToStatus[op] \in TripStatus
    /\ \A s : CancellationFee(s) \in {0, 50}
    /\ ActiveStatuses \subseteq TripStatus
    /\ TripCancellable \subseteq TripStatus
    /\ TripStatus \subseteq RideStatus
    /\ NoTripRow \notin TripStatus
BY DEF DriverOps, FromStatus, ToStatus, ActiveStatuses, TripStatus,
       FinalStatuses, CancellationFee, TripCancellable, RideStatus, NoTripRow

\* A committed call leaves a legal status behind.
LEMMA CommitTypes ==
    ASSUME TypeOK, NEW h \in Handlers, call[h].pc = "commit"
    PROVE  /\ call[h].on \in Trips
           /\ call[h].op \in Ops
           /\ call[h].seen \in TripStatus
           /\ Target(h) \in TripStatus
           /\ FeeOf(h) \in {0, 50}
           /\ AuditRow(h) \in [from : TripStatus, to : TripStatus]
           /\ [call[h] EXCEPT !.pc = "emit"] \in CallStates
<1>1. call[h] \in CallStates
  BY DEF TypeOK
<1>2. /\ call[h] \in [pc : {"commit", "emit", "release", "clear"}, op : Ops,
                      on : Trips, seen : TripStatus]
  BY <1>1 DEF CallStates, Direct, NoCall
<1>3. Target(h) \in TripStatus
  BY <1>2, StatusFacts DEF Target, IsCancel, Ops, TripStatus, FinalStatuses
<1>4. FeeOf(h) \in {0, 50}
  BY StatusFacts DEF FeeOf
<1>5. [call[h] EXCEPT !.pc = "emit"] \in CallStates
  BY <1>2 DEF CallStates
<1>6. QED
  BY <1>2, <1>3, <1>4, <1>5 DEF AuditRow
-----------------------------------------------------------------------------
\* What each action does to the calls keeps them calls.
LEMMA CallTypes ==
    ASSUME TypeOK, NEW h \in Handlers
    PROVE  /\ \A pc \in {"emit", "release", "clear"} :
                 call[h].pc \in {"commit", "emit", "release", "clear"} =>
                     [call EXCEPT ![h].pc = pc] \in [Handlers -> CallStates]
           /\ Leave(h) => call' \in [Handlers -> CallStates]
           /\ \A op \in Ops, t \in Trips, s \in TripStatus :
                 Enter(h, "commit", op, t, s) => call' \in [Handlers -> CallStates]
           /\ \A t \in Trips :
                 Enter(h, "byRide", "cancelTrip", t, NoTripRow)
                     => call' \in [Handlers -> CallStates]
           /\ \A t \in Trips :
                 Enter(h, "reload", "cancelRide", t, NoTripRow)
                     => call' \in [Handlers -> CallStates]
           /\ call[h].pc = "reload" =>
                 [call EXCEPT ![h].pc = "save"] \in [Handlers -> CallStates]
           /\ call[h].pc # "idle" => call[h].on \in Trips
<1>1. call \in [Handlers -> CallStates] /\ call[h] \in CallStates
  BY DEF TypeOK
<1>2. NoCall \in CallStates
  BY DEF CallStates
<1>3. ASSUME NEW pc \in {"emit", "release", "clear"},
             call[h].pc \in {"commit", "emit", "release", "clear"}
      PROVE  [call EXCEPT ![h].pc = pc] \in [Handlers -> CallStates]
  <2>1. call[h] \in [pc : {"commit", "emit", "release", "clear"}, op : Ops,
                     on : Trips, seen : TripStatus]
    BY <1>1, <1>3 DEF CallStates, Direct, NoCall
  <2>2. [call[h] EXCEPT !.pc = pc] \in CallStates
    BY <2>1 DEF CallStates
  <2>3. QED
    BY <1>1, <2>2
<1>4. Leave(h) => call' \in [Handlers -> CallStates]
  BY <1>1, <1>2 DEF Leave
<1>5. ASSUME NEW op \in Ops, NEW t \in Trips, NEW s \in TripStatus,
             Enter(h, "commit", op, t, s)
      PROVE  call' \in [Handlers -> CallStates]
  <2>1. [pc |-> "commit", op |-> op, on |-> t, seen |-> s] \in CallStates
    BY DEF CallStates
  <2>2. QED
    BY <1>1, <1>5, <2>1 DEF Enter
<1>6. ASSUME NEW t \in Trips, Enter(h, "byRide", "cancelTrip", t, NoTripRow)
      PROVE  call' \in [Handlers -> CallStates]
  <2>1. [pc |-> "byRide", op |-> "cancelTrip", on |-> t, seen |-> NoTripRow]
           \in CallStates
    BY DEF CallStates
  <2>2. QED
    BY <1>1, <1>6, <2>1 DEF Enter
<1>7. call[h].pc # "idle" => call[h].on \in Trips
  BY <1>1 DEF CallStates, Direct, NoCall
<1>8. ASSUME NEW t \in Trips, Enter(h, "reload", "cancelRide", t, NoTripRow)
      PROVE  call' \in [Handlers -> CallStates]
  <2>1. [pc |-> "reload", op |-> "cancelRide", on |-> t, seen |-> NoTripRow]
           \in CallStates
    BY DEF CallStates, Direct
  <2>2. QED
    BY <1>1, <1>8, <2>1 DEF Enter
<1>9. call[h].pc = "reload" =>
         [call EXCEPT ![h].pc = "save"] \in [Handlers -> CallStates]
  <2>1. SUFFICES ASSUME call[h].pc = "reload"
                 PROVE  [call[h] EXCEPT !.pc = "save"] \in CallStates
    BY <1>1
  <2>2. call[h] \in Direct
    BY <1>1, <2>1 DEF CallStates, NoCall
  <2>3. QED
    BY <2>2 DEF CallStates, Direct
<1>10. QED
  BY <1>3, <1>4, <1>5, <1>6, <1>7, <1>8, <1>9

\* Sending messages keeps the topics well formed.
LEMMA SendTypes ==
    ASSUME TypeOK, NEW h \in Handlers, call[h].on \in Trips, NEW sent,
           Send(h, sent)
    PROVE  charged' \in [Trips -> Nat] /\ completed' \subseteq Trips
BY DEF TypeOK, Send

\* The counters of the bounds stay natural numbers.
LEMMA CounterTypes ==
    ASSUME TypeOK
    PROVE  /\ \A h : NewCall(h) => calls' \in Nat
           /\ NewFailure => failures' \in Nat
<1>1. calls \in Nat /\ failures \in Nat
  BY DEF TypeOK
<1>2. QED
  BY <1>1 DEF NewCall, NewFailure

LEMMA TypeInit == Init => TypeOK
BY NullAssumption DEF Init, TypeOK, CallStates, RideStatus, PreAssignment, DriverKeys

LEMMA TypeStep == TypeOK /\ [Next]_vars => TypeOK'
<1> SUFFICES ASSUME TypeOK, [Next]_vars PROVE TypeOK'
  OBVIOUS
<1> USE DEF dbVars, tripVars, topicVars, redisVars
<1>1. ASSUME NEW t \in Trips, Assign(t) PROVE TypeOK'
  BY <1>1, StatusFacts DEF Assign, TypeOK, TripStatus, ActiveStatuses
<1>2. ASSUME NEW t \in Trips, MarkBusy(t) PROVE TypeOK'
  BY <1>2 DEF MarkBusy, TypeOK, DriverKeys
<1>3. ASSUME NEW t \in Trips, SetActiveRide(t) PROVE TypeOK'
  BY <1>3 DEF SetActiveRide, TypeOK, DriverKeys
<1>4. ASSUME NEW t \in Trips, ConsumeCompleted(t) PROVE TypeOK'
  BY <1>4 DEF ConsumeCompleted, TypeOK, DriverKeys, CompletedKey
<1>5. ASSUME NEW t \in Trips, MatcherDies(t) PROVE TypeOK'
  BY <1>5, CounterTypes DEF MatcherDies, TypeOK
<1>6. ASSUME NEW t \in Trips, LoseCompleted(t) PROVE TypeOK'
  BY <1>6, CounterTypes DEF LoseCompleted, TypeOK
<1>7. ASSUME NEW h \in Handlers, NEW t \in Trips, NEW op \in DriverOps,
             LoadTrip(h, t, op)
      PROVE  TypeOK'
  <2>1. trip[t] \in TripStatus
    BY <1>7 DEF LoadTrip, TypeOK
  <2>2. op \in Ops
    BY DEF Ops
  <2>3. call' \in [Handlers -> CallStates]
    BY <1>7, <2>1, <2>2, CallTypes DEF LoadTrip
  <2>4. QED
    BY <1>7, <2>3, CounterTypes DEF LoadTrip, TypeOK
<1>8. ASSUME NEW h \in Handlers, NEW t \in Trips, LoadForCancel(h, t)
      PROVE  TypeOK'
  <2>1. trip[t] \in TripStatus
    BY <1>8, StatusFacts DEF LoadForCancel
  <2>2. "cancelTrip" \in Ops
    BY DEF Ops
  <2>3. call' \in [Handlers -> CallStates]
    BY <1>8, <2>1, <2>2, CallTypes DEF LoadForCancel
  <2>4. QED
    BY <1>8, <2>3, CounterTypes DEF LoadForCancel, TypeOK
<1>9. ASSUME NEW h \in Handlers, NEW t \in Trips, LoadRide(h, t) PROVE TypeOK'
  <2>1. call' \in [Handlers -> CallStates]
    BY <1>9, CallTypes DEF LoadRide
  <2>2. QED
    BY <1>9, <2>1, CounterTypes DEF LoadRide, TypeOK
<1>10. ASSUME NEW h \in Handlers, LoadByRide(h) PROVE TypeOK'
  <2>1. call[h].on \in Trips
    BY <1>10, CallTypes DEF LoadByRide
  <2>2. "cancelTrip" \in Ops
    BY DEF Ops
  <2>3. call' \in [Handlers -> CallStates]
    BY <1>10, <2>1, <2>2, CallTypes, StatusFacts DEF LoadByRide
  <2>4. QED
    BY <1>10, <2>3 DEF LoadByRide, TypeOK
<1>11. ASSUME NEW h \in Handlers, Commit(h) PROVE TypeOK'
  <2>1. call[h].pc = "commit"
    BY <1>11 DEF Commit
  <2> DEFINE t == call[h].on
  <2>2. /\ t \in Trips
        /\ Target(h) \in TripStatus
        /\ FeeOf(h) \in {0, 50}
        /\ AuditRow(h) \in [from : TripStatus, to : TripStatus]
    BY <2>1, CommitTypes
  <2>3. call' \in [Handlers -> CallStates]
    BY <1>11, <2>1, CallTypes DEF Commit
  <2>4. ride' \in [Trips -> RideStatus]
    BY <1>11, <2>2, StatusFacts DEF Commit, RideUpdated, TypeOK
  <2>5. trip' \in [Trips -> TripStatus \cup {NoTripRow}]
    BY <1>11, <2>2 DEF Commit, TypeOK
  <2>6. fee' \in [Trips -> {Null, 0, 50}]
    BY <1>11, <2>2 DEF Commit, TypeOK
  <2>7. events' \in [Trips -> Seq([from : TripStatus, to : TripStatus])]
    <3>1. events[t] \in Seq([from : TripStatus, to : TripStatus])
      BY <2>2 DEF TypeOK
    <3>2. Append(events[t], AuditRow(h)) \in Seq([from : TripStatus, to : TripStatus])
      BY <3>1, <2>2
    <3>3. QED
      BY <1>11, <3>2 DEF Commit, TypeOK
  <2>8. payments' \subseteq Trips
    BY <1>11, <2>2 DEF Commit, TypeOK
  <2>9. QED
    BY <1>11, <2>3, <2>4, <2>5, <2>6, <2>7, <2>8 DEF Commit, TypeOK
<1>12. ASSUME NEW h \in Handlers, Rollback(h) PROVE TypeOK'
  <2>1. call' \in [Handlers -> CallStates]
    BY <1>12, CallTypes DEF Rollback, Abandon
  <2>2. QED
    BY <1>12, <2>1 DEF Rollback, TypeOK
<1>13. ASSUME NEW h \in Handlers, Emit(h) PROVE TypeOK'
  <2>1. call[h].on \in Trips
    BY <1>13, CallTypes DEF Emit
  <2>2. call' \in [Handlers -> CallStates]
    BY <1>13, CallTypes DEF Emit
  <2>3. charged' \in [Trips -> Nat] /\ completed' \subseteq Trips
    BY <1>13, <2>1, SendTypes DEF Emit
  <2>4. QED
    BY <1>13, <2>2, <2>3 DEF Emit, TypeOK
<1>14. ASSUME NEW h \in Handlers, ReleaseStatus(h) PROVE TypeOK'
  <2>1. call[h].on \in Trips
    BY <1>14, CallTypes DEF ReleaseStatus
  <2>2. call' \in [Handlers -> CallStates]
    BY <1>14, CallTypes DEF ReleaseStatus, SetAvailable
  <2>3. QED
    BY <1>14, <2>1, <2>2 DEF ReleaseStatus, SetAvailable, TypeOK, DriverKeys
<1>15. ASSUME NEW h \in Handlers, ReleaseActive(h) PROVE TypeOK'
  <2>1. call[h].on \in Trips
    BY <1>15, CallTypes DEF ReleaseActive
  <2>2. call' \in [Handlers -> CallStates]
    BY <1>15, CallTypes DEF ReleaseActive
  <2>3. QED
    BY <1>15, <2>1, <2>2 DEF ReleaseActive, TypeOK, DriverKeys
<1>16. ASSUME NEW h \in Handlers, CallFails(h) PROVE TypeOK'
  <2>1. call[h].on \in Trips
    BY <1>16, CallTypes DEF CallFails
  <2>2. call' \in [Handlers -> CallStates]
    BY <1>16, CallTypes DEF CallFails
  <2>3. PICK sent : Send(h, sent)
    BY <1>16 DEF CallFails
  <2>4. charged' \in [Trips -> Nat] /\ completed' \subseteq Trips
    BY <2>1, <2>3, SendTypes
  <2>5. QED
    BY <1>16, <2>2, <2>4, CounterTypes DEF CallFails, TypeOK
<1>17. ASSUME NEW h \in Handlers, NEW t \in Trips, LoadPending(h, t) PROVE TypeOK'
  <2>1. call' \in [Handlers -> CallStates]
    BY <1>17, CallTypes DEF LoadPending
  <2>2. QED
    BY <1>17, <2>1, CounterTypes DEF LoadPending, TypeOK
<1>18. ASSUME NEW h \in Handlers, ReloadRide(h) PROVE TypeOK'
  <2>1. call' \in [Handlers -> CallStates]
    BY <1>18, CallTypes DEF ReloadRide
  <2>2. QED
    BY <1>18, <2>1 DEF ReloadRide, TypeOK
<1>19. ASSUME NEW h \in Handlers, SaveRide(h) PROVE TypeOK'
  <2>1. call' \in [Handlers -> CallStates] /\ call[h].on \in Trips
    BY <1>19, CallTypes DEF SaveRide
  <2>2. ride' \in [Trips -> RideStatus]
    BY <1>19, <2>1 DEF SaveRide, TypeOK, RideStatus, TripStatus, FinalStatuses
  <2>3. QED
    BY <1>19, <2>1, <2>2 DEF SaveRide, TypeOK
<1>20. CASE UNCHANGED vars
  BY <1>20 DEF vars, TypeOK
<1>21. QED
  BY <1>1, <1>2, <1>3, <1>4, <1>5, <1>6, <1>7, <1>8, <1>9, <1>10, <1>11, <1>12,
     <1>13, <1>14, <1>15, <1>16, <1>17, <1>18, <1>19, <1>20 DEF Next, CallStep

\* Every state the service, the worker and the consumer reach is well formed.
THEOREM TypeCorrect == Spec => []TypeOK
BY TypeInit, TypeStep, PTL DEF Spec
-----------------------------------------------------------------------------
(* The audit trail                                                         *)

\* The trips are judged from their rows and audit rows alone.
LEMMA TripFrame ==
    ASSUME UNCHANGED tripVars
    PROVE  /\ NoSkipping => NoSkipping'
           /\ CompletedOnce => CompletedOnce'
           /\ FeeNeedsArrival => FeeNeedsArrival'
BY DEF tripVars, NoSkipping, RowIsLegal, CompletedOnce, FeeNeedsArrival, Rows, RowsTo

\* And with the row of the ride, so are all the records.
LEMMA DbFrame ==
    ASSUME UNCHANGED dbVars
    PROVE  /\ UNCHANGED tripVars
           /\ RecordsAgree => RecordsAgree'
           /\ RowsFollowAssignment /\ UNCHANGED matcher => RowsFollowAssignment'
BY DEF dbVars, tripVars, RecordsAgree, RowsFollowAssignment

\* A status the trip has is one it entered.
LEMMA CurrentIsEntered ==
    ASSUME TypeOK, RecordsAgree, NEW t \in Trips, trip[t] # NoTripRow
    PROVE  Entered(t, trip[t])
<1>1. CASE events[t] = <<>>
  BY <1>1 DEF RecordsAgree, Entered
<1>2. CASE events[t] # <<>>
  <2>1. events[t] \in Seq([from : TripStatus, to : TripStatus])
    BY DEF TypeOK
  <2>2. Len(events[t]) \in DOMAIN events[t]
    BY <1>2, <2>1
  <2>3. Len(events[t]) \in RowsTo(t, trip[t])
    BY <1>2, <2>2 DEF RecordsAgree, Rows, RowsTo
  <2>4. QED
    BY <2>3 DEF Entered
<1>3. QED
  BY <1>1, <1>2

\* A call that ends, or goes on after its transaction, disturbs nothing the
\* other calls rely on. It is the only one to touch the messages of a trip
\* whose completion it committed.
LEMMA CallFrame ==
    ASSUME TypeOK, CallsAreBacked, NEW h \in Handlers, UNCHANGED tripVars,
           \A g \in Handlers : g # h => call'[g] = call[g],
           call'[h].pc # "commit",
           call'[h].pc \notin {"idle", "reload", "save"} =>
               /\ call[h].pc \notin {"idle", "reload", "save"}
               /\ call'[h].on = call[h].on,
           \A t \in Trips : ~Completing(h, t)',
           \A t \in Trips : ~Completing(h, t) =>
               charged'[t] = charged[t] /\ (t \in completed' => t \in completed)
    PROVE  CallsAreBacked'
<1>1. ASSUME NEW g \in Handlers PROVE ReadIsBacked(g)'
  <2>1. CASE g = h
    BY <2>1 DEF CallsAreBacked, ReadIsBacked, tripVars
  <2>2. CASE g # h
    BY <2>2 DEF CallsAreBacked, ReadIsBacked, tripVars, Entered, RowsTo, Rows,
                IsCancel
  <2>3. QED
    BY <2>1, <2>2
<1>2. ASSUME NEW g \in Handlers, NEW t \in Trips PROVE CompletionIsBacked(g, t)'
  <2> SUFFICES ASSUME Completing(g, t)' PROVE CompletionIsBacked(g, t)'
    BY DEF CompletionIsBacked
  <2>1. g # h
    OBVIOUS
  <2>2. Completing(g, t)
    BY <2>1 DEF Completing
  <2>3. ~Completing(h, t)
    BY <2>1, <2>2 DEF CallsAreBacked, CompletionIsBacked
  <2>4. \A k \in Handlers : Completing(k, t)' => k = h \/ Completing(k, t)
    BY DEF Completing
  <2>5. QED
    BY <2>2, <2>3, <2>4 DEF CallsAreBacked, CompletionIsBacked, tripVars
<1>3. QED
  BY <1>1, <1>2 DEF CallsAreBacked

\* A call that has just read a trip knows a status the trip entered.
LEMMA EnterFrame ==
    ASSUME TypeOK, RecordsAgree, CallsAreBacked, NEW h \in Handlers, NEW t \in Trips,
           NEW op \in Ops, trip[t] # NoTripRow, UNCHANGED <<tripVars, charged, completed>>,
           \/ /\ Enter(h, "commit", op, t, trip[t])
              /\ op = "cancelTrip" => trip[t] \in TripCancellable
           \/ Enter(h, "byRide", "cancelTrip", t, NoTripRow)
    PROVE  CallsAreBacked'
<1>1. call \in [Handlers -> CallStates]
  BY DEF TypeOK
<1>2. /\ \A g \in Handlers : g # h => call'[g] = call[g]
      /\ call'[h].on = t /\ call'[h].pc \in {"commit", "byRide"}
      /\ call'[h].pc = "commit" => call'[h].op = op /\ call'[h].seen = trip[t]
  BY <1>1 DEF Enter
<1>3. Entered(t, trip[t])
  BY CurrentIsEntered
<1>4. ASSUME NEW g \in Handlers PROVE ReadIsBacked(g)'
  <2>1. CASE g = h
    <3>1. call'[h].pc = "commit" /\ op = "cancelTrip" => trip[t] \in TripCancellable
      BY <1>1 DEF Enter
    <3>2. QED
      BY <1>2, <1>3, <2>1, <3>1
      DEF ReadIsBacked, tripVars, Entered, RowsTo, Rows, IsCancel
  <2>2. CASE g # h
    BY <1>2, <2>2
    DEF CallsAreBacked, ReadIsBacked, tripVars, Entered, RowsTo, Rows, IsCancel
  <2>3. QED
    BY <2>1, <2>2
<1>5. \A g \in Handlers, u \in Trips : Completing(g, u)' => Completing(g, u)
  BY <1>2 DEF Completing
<1>6. \A g \in Handlers, u \in Trips : CompletionIsBacked(g, u)'
  BY <1>5 DEF CallsAreBacked, CompletionIsBacked, tripVars
<1>7. QED
  BY <1>4, <1>6 DEF CallsAreBacked
-----------------------------------------------------------------------------
\* The statuses the transactions write, and the ones that are told apart.
LEMMA TargetFacts ==
    ASSUME NEW h \in Handlers, call[h].op \in Ops
    PROVE  /\ Target(h) = "COMPLETED" <=> call[h].op = "completeRide"
           /\ Target(h) = "CANCELLED" <=> IsCancel(h)
           /\ ~IsCancel(h) => call[h].op \in DriverOps /\ Target(h) = ToStatus[call[h].op]
BY DEF Target, IsCancel, Ops, DriverOps, ToStatus

\* The position of the row a transaction adds.
NewRow(h) == Len(events[call[h].on]) + 1

\* A transaction adds one row at the end of its trip's audit trail and leaves
\* every other row as it was.
LEMMA CommitRows ==
    ASSUME TypeOK, NEW h \in Handlers, Commit(h), NEW t \in Trips, t = call[h].on
    PROVE  /\ NewRow(h) \in Nat \ {0}
           /\ Rows(t) = 1 .. NewRow(h) - 1 /\ Rows(t)' = 1 .. NewRow(h)
           /\ events'[t][NewRow(h)] = AuditRow(h)
           /\ \A i \in Rows(t) : events'[t][i] = events[t][i]
           /\ events'[t] # <<>> /\ Len(events'[t]) = NewRow(h)
           /\ \A u \in Trips : u # t => events'[u] = events[u]
<1> DEFINE n == NewRow(h)
<1>1. events[t] \in Seq([from : TripStatus, to : TripStatus])
  BY DEF TypeOK
<1>2. AuditRow(h) \in [from : TripStatus, to : TripStatus]
  BY CommitTypes DEF Commit
<1>3. events' = [events EXCEPT ![t] = Append(@, AuditRow(h))]
  BY DEF Commit
<1>4. events'[t] = Append(events[t], AuditRow(h))
  BY <1>3 DEF TypeOK
<1>5. \A u \in Trips : u # t => events'[u] = events[u]
  BY <1>3 DEF TypeOK
<1>6. n = Len(events[t]) + 1
  BY DEF NewRow
<1>7. /\ Len(events'[t]) = n
      /\ events'[t][n] = AuditRow(h)
      /\ \A i \in 1 .. Len(events[t]) : events'[t][i] = events[t][i]
      /\ DOMAIN events'[t] = 1 .. n
      /\ DOMAIN events[t] = 1 .. Len(events[t])
  BY <1>1, <1>2, <1>4, <1>6
<1>8. n \in Nat \ {0} /\ Len(events[t]) = n - 1
  BY <1>1, <1>6
<1>9. events'[t] # <<>>
  BY <1>7, <1>8
<1>10. QED
  BY <1>5, <1>7, <1>8, <1>9 DEF Rows

\* Who is at which status after a transaction.
LEMMA CommitRowsTo ==
    ASSUME TypeOK, NEW h \in Handlers, Commit(h), NEW t \in Trips, t = call[h].on,
           NEW s
    PROVE  /\ RowsTo(t, s)' = IF s = Target(h) THEN RowsTo(t, s) \cup {NewRow(h)}
                              ELSE RowsTo(t, s)
           /\ \A u \in Trips : u # t => RowsTo(u, s)' = RowsTo(u, s)
           /\ \A i \in RowsTo(t, s) : i \in Nat /\ i < NewRow(h)
<1> DEFINE n == NewRow(h)
<1>1. /\ n \in Nat \ {0}
      /\ Rows(t) = 1 .. n - 1 /\ Rows(t)' = 1 .. n
      /\ events'[t][n] = AuditRow(h)
      /\ \A i \in Rows(t) : events'[t][i] = events[t][i]
      /\ \A u \in Trips : u # t => events'[u] = events[u]
  BY CommitRows
<1> HIDE DEF n
<1>2. Rows(t)' = Rows(t) \cup {n} /\ n \notin Rows(t)
  BY <1>1
<1>3. events'[t][n].to = Target(h)
  BY <1>1 DEF AuditRow
<1>4. RowsTo(t, s)' = {i \in Rows(t)' : events'[t][i].to = s}
  BY DEF RowsTo
<1>5. RowsTo(t, s)' = IF s = Target(h) THEN RowsTo(t, s) \cup {n} ELSE RowsTo(t, s)
  BY <1>1, <1>2, <1>3, <1>4 DEF RowsTo
<1>6. \A u \in Trips : u # t => RowsTo(u, s)' = RowsTo(u, s)
  BY <1>1 DEF RowsTo, Rows
<1>7. \A i \in RowsTo(t, s) : i \in Nat /\ i < n
  BY <1>1 DEF RowsTo
<1>8. QED
  BY <1>5, <1>6, <1>7 DEF n

\* What the guards of a transaction say about its row.
LEMMA CommitRowLegal ==
    ASSUME TypeOK, CallsAreBacked, NEW h \in Handlers, Commit(h)
    PROVE  /\ Entered(call[h].on, AuditRow(h).from)
           /\ \/ AuditRow(h).to = "CANCELLED" /\ AuditRow(h).from \in TripCancellable
              \/ \E op \in DriverOps :
                    AuditRow(h) = [from |-> FromStatus[op], to |-> ToStatus[op]]
<1>1. call[h].pc = "commit" /\ TransitionAllowed(call[h].op, call[h].seen)
  BY DEF Commit, CanCommit
<1>2. ReadIsBacked(h)
  BY DEF CallsAreBacked
<1>3. call[h].op \in Ops
  BY <1>1, CommitTypes
<1>4. AuditRow(h).from = call[h].seen /\ AuditRow(h).to = Target(h)
  BY DEF AuditRow
<1>5. CASE IsCancel(h)
  BY <1>1, <1>2, <1>3, <1>4, <1>5, TargetFacts DEF ReadIsBacked
<1>6. CASE ~IsCancel(h)
  <2>1. call[h].op \in DriverOps /\ Target(h) = ToStatus[call[h].op]
    BY <1>3, <1>6, TargetFacts
  <2>2. call[h].seen = FromStatus[call[h].op]
    BY <1>1, <2>1 DEF TransitionAllowed
  <2>3. AuditRow(h) = [from |-> FromStatus[call[h].op], to |-> ToStatus[call[h].op]]
    BY <2>1, <2>2 DEF AuditRow
  <2>4. QED
    BY <1>1, <1>2, <1>4, <2>1, <2>3 DEF ReadIsBacked
<1>7. QED
  BY <1>5, <1>6

LEMMA CommitRecordsAgree ==
    ASSUME TypeOK, RecordsAgree, NEW h \in Handlers, Commit(h) PROVE RecordsAgree'
<1> DEFINE t == call[h].on
<1>1. t \in Trips /\ Target(h) \in TripStatus
  BY CommitTypes DEF Commit
<1>2. events'[t] # <<>> /\ events'[t][Len(events'[t])] = AuditRow(h)
  BY <1>1, CommitRows
<1>3. ride'[t] = Target(h) /\ trip'[t] = Target(h)
  BY <1>1 DEF Commit, RideUpdated, TypeOK
<1>4. \A u \in Trips : u # t =>
          ride'[u] = ride[u] /\ trip'[u] = trip[u] /\ events'[u] = events[u]
  BY <1>1 DEF Commit, RideUpdated, TypeOK
<1>5. AuditRow(h).to = Target(h)
  BY DEF AuditRow
<1> HIDE DEF t
<1>6. QED
  BY <1>2, <1>3, <1>4, <1>5 DEF RecordsAgree

LEMMA CommitNoSkipping ==
    ASSUME TypeOK, NoSkipping, CallsAreBacked, NEW h \in Handlers, Commit(h),
           NEW t \in Trips, t = call[h].on
    PROVE  NoSkipping'
<1>0. PICK n : n = NewRow(h)
  OBVIOUS
<1>1. /\ n \in Nat \ {0}
      /\ Rows(t) = 1 .. n - 1 /\ Rows(t)' = 1 .. n
      /\ events'[t][n] = AuditRow(h)
      /\ \A i \in Rows(t) : events'[t][i] = events[t][i]
      /\ \A u \in Trips : u # t => events'[u] = events[u]
  BY <1>0, CommitRows
<1>2. /\ Rows(t)' = Rows(t) \cup {n}
      /\ \A i \in Rows(t) : i < n
  BY <1>1
<1>3. \/ AuditRow(h).from = "DRIVER_ASSIGNED"
      \/ \E j \in Rows(t) : events[t][j].to = AuditRow(h).from
  BY CommitRowLegal DEF Entered, RowsTo
<1>4. \/ AuditRow(h).to = "CANCELLED" /\ AuditRow(h).from \in TripCancellable
      \/ \E op \in DriverOps :
            AuditRow(h) = [from |-> FromStatus[op], to |-> ToStatus[op]]
  BY CommitRowLegal
<1>5. \A i \in Rows(t) : RowIsLegal(t, i)'
  <2>1. \A i \in Rows(t) : RowIsLegal(t, i)
    BY DEF NoSkipping
  <2>2. QED
    BY <1>1, <1>2, <2>1 DEF RowIsLegal
<1>6. RowIsLegal(t, n)'
  BY <1>1, <1>2, <1>3, <1>4 DEF RowIsLegal
<1>7. \A u \in Trips : u # t => \A i \in Rows(u)' : RowIsLegal(u, i)'
  BY <1>1 DEF NoSkipping, RowIsLegal, Rows
<1>8. QED
  BY <1>2, <1>5, <1>6, <1>7 DEF NoSkipping

LEMMA CommitCompletedOnce ==
    ASSUME TypeOK, CompletedOnce, NEW h \in Handlers, Commit(h),
           NEW t \in Trips, t = call[h].on
    PROVE  CompletedOnce'
<1>0. PICK n : n = NewRow(h)
  OBVIOUS
<1>1. call[h].op \in Ops
  BY CommitTypes DEF Commit
<1>2. /\ payments' = IF Target(h) = "COMPLETED" THEN payments \cup {t} ELSE payments
      /\ Target(h) = "COMPLETED" => t \notin payments
  BY <1>1, TargetFacts DEF Commit, CanCommit, NoPaymentYet
<1>3. /\ RowsTo(t, "COMPLETED")' = IF "COMPLETED" = Target(h)
            THEN RowsTo(t, "COMPLETED") \cup {n} ELSE RowsTo(t, "COMPLETED")
      /\ \A u \in Trips : u # t => RowsTo(u, "COMPLETED")' = RowsTo(u, "COMPLETED")
  BY <1>0, CommitRowsTo
<1>4. QED
  BY <1>2, <1>3 DEF CompletedOnce

LEMMA CommitChargedOnce ==
    ASSUME TypeOK, ChargedOnce, NEW h \in Handlers, Commit(h) PROVE ChargedOnce'
<1>1. payments \subseteq payments' /\ UNCHANGED <<charged, completed>>
  BY DEF Commit, topicVars
<1>2. QED
  BY <1>1 DEF ChargedOnce

\* A trip that entered a status for which a cancellation costs something had
\* its driver at the pickup point.
LEMMA PaidStatuses ==
    ASSUME NoSkipping, NEW t \in Trips, NEW s \in TripCancellable,
           Entered(t, s), CancellationFee(s) = 50
    PROVE  RowsTo(t, "DRIVER_ARRIVED") # {}
<1>1. s \in {"DRIVER_ARRIVED", "RIDE_STARTED"}
  BY DEF TripCancellable, ActiveStatuses, CancellationFee, EarlyStatuses
<1>2. RowsTo(t, s) # {}
  BY <1>1 DEF Entered
<1>3. CASE s = "RIDE_STARTED"
  <2>1. PICK i \in Rows(t) : events[t][i].to = "RIDE_STARTED"
    BY <1>2, <1>3 DEF RowsTo
  <2>2. RowIsLegal(t, i)
    BY <2>1 DEF NoSkipping
  <2>3. events[t][i].from = "DRIVER_ARRIVED"
    BY <2>1, <2>2 DEF RowIsLegal, DriverOps, FromStatus, ToStatus
  <2>4. \E j \in Rows(t) : events[t][j].to = "DRIVER_ARRIVED"
    BY <2>2, <2>3 DEF RowIsLegal
  <2>5. QED
    BY <2>4 DEF RowsTo
<1>4. QED
  BY <1>1, <1>2, <1>3

LEMMA CommitFee ==
    ASSUME TypeOK, NoSkipping, CallsAreBacked, FeeNeedsArrival, NEW h \in Handlers,
           Commit(h), NEW t \in Trips, t = call[h].on
    PROVE  FeeNeedsArrival'
<1>1. call[h].op \in Ops /\ call[h].pc = "commit"
  BY CommitTypes DEF Commit
<1>2. \A u \in Trips : \A s : RowsTo(u, s) # {} => RowsTo(u, s)' # {}
  BY CommitRowsTo
<1>3. \A u \in Trips : u # t => fee'[u] = fee[u]
  BY DEF Commit, TypeOK
<1>4. CASE IsCancel(h)
  <2>1. RowsTo(t, "CANCELLED")' # {}
    BY <1>1, <1>4, CommitRowsTo, TargetFacts
  <2>2. fee'[t] = CancellationFee(call[h].seen)
    BY <1>4 DEF Commit, FeeOf, TypeOK
  <2>3. Entered(t, call[h].seen) /\ call[h].seen \in TripCancellable
    BY <1>1, <1>4 DEF CallsAreBacked, ReadIsBacked
  <2>4. fee'[t] = 50 => RowsTo(t, "DRIVER_ARRIVED") # {}
    BY <2>2, <2>3, PaidStatuses
  <2>5. QED
    BY <1>2, <1>3, <2>1, <2>4 DEF FeeNeedsArrival
<1>5. CASE ~IsCancel(h)
  <2>1. fee' = fee
    BY <1>5 DEF Commit
  <2>2. QED
    BY <1>2, <2>1 DEF FeeNeedsArrival
<1>6. QED
  BY <1>4, <1>5

\* The other calls keep what they know; this one has committed the only
\* completion of its trip if it is one.
LEMMA CommitCalls ==
    ASSUME TypeOK, ChargedOnce, CallsAreBacked, NEW h \in Handlers, Commit(h),
           NEW t \in Trips, t = call[h].on
    PROVE  CallsAreBacked'
<1>1. /\ call[h].op \in Ops /\ Target(h) \in TripStatus
      /\ call \in [Handlers -> CallStates]
  BY CommitTypes DEF Commit, TypeOK
<1>2. /\ call' = [call EXCEPT ![h].pc = "emit"]
      /\ trip' = [trip EXCEPT ![t] = Target(h)]
      /\ UNCHANGED <<charged, completed>>
  BY DEF Commit, topicVars
<1>3. /\ \A g \in Handlers : g # h => call'[g] = call[g]
      /\ call'[h].pc = "emit" /\ call'[h].on = t /\ call'[h].op = call[h].op
  BY <1>1, <1>2 DEF CallStates, Direct, NoCall
<1>4. ASSUME NEW g \in Handlers PROVE ReadIsBacked(g)'
  <2>1. \A u \in Trips : trip[u] # NoTripRow => trip'[u] # NoTripRow
    BY <1>1, <1>2, StatusFacts DEF TypeOK
  <2>2. \A u \in Trips : \A s : Entered(u, s) => Entered(u, s)'
    <3> SUFFICES ASSUME NEW u \in Trips, NEW s, RowsTo(u, s) # {}
                 PROVE  RowsTo(u, s)' # {}
      BY DEF Entered
    <3>1. QED
      BY CommitRowsTo
  <2>3. CASE g = h
    BY <1>1, <1>2, <1>3, <2>3, StatusFacts DEF ReadIsBacked, TypeOK
  <2>4. CASE g # h
    <3>1. call[g].pc # "idle" => call[g].on \in Trips
      BY CallTypes
    <3>2. ReadIsBacked(g)
      BY DEF CallsAreBacked
    <3>3. call'[g] = call[g]
      BY <1>3, <2>4
    <3>4. call[g].pc = "commit" => Entered(call[g].on, call[g].seen)'
      <4>1. SUFFICES ASSUME call[g].pc = "commit"
                     PROVE  Entered(call[g].on, call[g].seen)'
        OBVIOUS
      <4>2. PICK u, s : u = call[g].on /\ s = call[g].seen
        OBVIOUS
      <4>3. u \in Trips /\ Entered(u, s)
        BY <3>1, <3>2, <4>1, <4>2 DEF ReadIsBacked
      <4>4. Entered(u, s)'
        BY <2>2, <4>3
      <4>5. QED
        BY <3>3, <4>2, <4>4
    <3>5. QED
      BY <2>1, <3>1, <3>2, <3>3, <3>4 DEF ReadIsBacked, IsCancel
  <2>5. QED
    BY <2>3, <2>4
<1>5. ASSUME NEW g \in Handlers, NEW u \in Trips PROVE CompletionIsBacked(g, u)'
  <2> SUFFICES ASSUME Completing(g, u)' PROVE CompletionIsBacked(g, u)'
    BY DEF CompletionIsBacked
  <2>1. payments \subseteq payments'
    BY DEF Commit
  <2>2. \A k \in Handlers : k # h => (Completing(k, u)' <=> Completing(k, u))
    BY <1>3 DEF Completing
  <2>3. CASE Completing(h, u)'
    <3>1. u = t /\ call[h].op = "completeRide"
      BY <1>3, <2>3 DEF Completing
    <3>2. t \notin payments /\ t \in payments'
      BY <3>1 DEF Commit, CanCommit, NoPaymentYet
    <3>3. charged[t] = 0 /\ t \notin completed
      <4>1. charged[t] \in Nat /\ charged[t] <= 1 /\ charged[t] # 1 /\ t \notin completed
        BY <3>2 DEF ChargedOnce, TypeOK
      <4>2. QED
        BY <4>1
    <3>4. \A k \in Handlers : Completing(k, u)' => k = h
      BY <2>2, <3>1, <3>2 DEF CallsAreBacked, CompletionIsBacked
    <3>5. QED
      BY <1>2, <3>1, <3>2, <3>3, <3>4 DEF CompletionIsBacked
  <2>4. CASE ~Completing(h, u)'
    <3>1. Completing(g, u)
      BY <2>2, <2>4
    <3>2. QED
      BY <1>2, <2>1, <2>2, <2>4, <3>1 DEF CallsAreBacked, CompletionIsBacked
  <2>5. QED
    BY <2>3, <2>4
<1>6. QED
  BY <1>4, <1>5 DEF CallsAreBacked
-----------------------------------------------------------------------------
(* The invariant                                                           *)

LEMMA InvInit == Init => IInv
<1> SUFFICES ASSUME Init PROVE IInv
  OBVIOUS
<1>1. TypeOK
  BY TypeInit
<1>2. \A t \in Trips : RowsTo(t, "COMPLETED") = {} /\ RowsTo(t, "CANCELLED") = {}
  BY DEF Init, RowsTo, Rows
<1>3. RecordsAgree /\ RowsFollowAssignment
  BY DEF Init, RecordsAgree, RowsFollowAssignment, PreAssignment
<1>4. NoSkipping
  BY DEF Init, NoSkipping, Rows
<1>5. CompletedOnce /\ ChargedOnce /\ FeeNeedsArrival
  BY <1>2, NullAssumption DEF Init, CompletedOnce, ChargedOnce, FeeNeedsArrival
<1>6. CallsAreBacked
  BY DEF Init, CallsAreBacked, ReadIsBacked, CompletionIsBacked, Completing, NoCall
<1>7. QED
  BY <1>1, <1>3, <1>4, <1>5, <1>6 DEF IInv

\* A step that leaves the database, the calls and the messages alone.
LEMMA QuietStep ==
    ASSUME IInv, TypeOK', UNCHANGED <<dbVars, call, charged, completed>>,
           RowsFollowAssignment'
    PROVE  IInv'
<1>1. RecordsAgree' /\ NoSkipping' /\ CompletedOnce' /\ FeeNeedsArrival'
  BY DbFrame, TripFrame DEF IInv
<1>2. ChargedOnce'
  BY DEF IInv, ChargedOnce, dbVars, tripVars
<1>3. CallsAreBacked'
  BY DEF IInv, CallsAreBacked, ReadIsBacked, CompletionIsBacked, Completing,
         Entered, RowsTo, Rows, IsCancel, dbVars, tripVars
<1>4. QED
  BY <1>1, <1>2, <1>3 DEF IInv

\* A step of a call outside its transaction.
LEMMA CallStepKeeps ==
    ASSUME IInv, TypeOK', UNCHANGED <<dbVars, matcher>>, ChargedOnce', CallsAreBacked'
    PROVE  IInv'
BY DbFrame, TripFrame DEF IInv

\* Sending part of a call's messages and leaving, or going on to the release:
\* only a completion sends anything, and it sends it once.
LEMMA SendKeeps ==
    ASSUME IInv, TypeOK', NEW h \in Handlers, UNCHANGED <<dbVars, matcher>>,
           call[h].pc # "idle", NEW sent, Send(h, sent),
           sent # {} => call[h].pc = "emit" /\ call[h].op = "completeRide",
           \A g \in Handlers : g # h => call'[g] = call[g],
           call'[h].pc \notin {"commit", "emit"},
           call'[h].pc \notin {"idle", "reload", "save"} =>
               /\ call[h].pc \notin {"idle", "reload", "save"}
               /\ call'[h].on = call[h].on
    PROVE  IInv'
<1>1. TypeOK /\ call[h].on \in Trips
  BY CallTypes DEF IInv
<1>2. PICK t \in Trips : t = call[h].on
  BY <1>1
<1>3. /\ \A u \in Trips : u # t => charged'[u] = charged[u]
      /\ completed' \subseteq completed \cup {t}
      /\ sent = {} => charged' = charged /\ completed' = completed
      /\ charged'[t] \in {charged[t], charged[t] + 1}
  BY <1>1, <1>2 DEF Send, TypeOK
<1>4. sent # {} => Completing(h, t)
  BY <1>2 DEF Completing
<1>5. ChargedOnce'
  <2>1. CASE sent = {}
    BY <1>3, <2>1 DEF IInv, ChargedOnce, dbVars, tripVars
  <2>2. CASE sent # {}
    <3>1. t \in payments /\ charged[t] = 0
      BY <1>1, <1>4, <2>2 DEF IInv, CallsAreBacked, CompletionIsBacked
    <3>2. charged'[t] <= 1
      BY <1>3, <3>1
    <3>3. QED
      BY <1>3, <3>1, <3>2 DEF IInv, ChargedOnce, dbVars, tripVars
  <2>3. QED
    BY <2>1, <2>2
<1>6. \A u \in Trips : ~Completing(h, u) =>
          charged'[u] = charged[u] /\ (u \in completed' => u \in completed)
  BY <1>3, <1>4
<1>7. \A u \in Trips : ~Completing(h, u)'
  BY DEF Completing
<1>8. CallsAreBacked'
  BY <1>1, <1>6, <1>7, CallFrame DEF IInv, dbVars
<1>9. QED
  BY <1>5, <1>8, CallStepKeeps

\* What the three ways of ending a step do to the call.
LEMMA CallMoves ==
    ASSUME TypeOK, NEW h \in Handlers, call[h].pc # "idle"
    PROVE  /\ Leave(h) => /\ \A g \in Handlers : g # h => call'[g] = call[g]
                          /\ call'[h].pc = "idle"
           /\ \A pc \in {"release", "clear", "save"} : call' = [call EXCEPT ![h].pc = pc] =>
                 /\ \A g \in Handlers : g # h => call'[g] = call[g]
                 /\ call'[h].pc = pc /\ call'[h].on = call[h].on
<1>1. call \in [Handlers -> CallStates] /\ call[h] \in CallStates
  BY DEF TypeOK
<1>2. QED
  BY <1>1 DEF Leave, NoCall, CallStates, Direct

LEMMA InvStep == IInv /\ [Next]_vars => IInv'
<1> SUFFICES ASSUME IInv, [Next]_vars PROVE IInv'
  OBVIOUS
<1>0. TypeOK /\ TypeOK' /\ RecordsAgree /\ CallsAreBacked
  BY TypeStep DEF IInv
<1> USE <1>0 DEF redisVars
<1>1. ASSUME NEW t \in Trips, Assign(t) PROVE IInv'
  <2>1. trip[t] = NoTripRow /\ events[t] = <<>>
    BY <1>1 DEF Assign, IInv, RowsFollowAssignment
  <2>2. /\ trip'[t] = "DRIVER_ASSIGNED" /\ ride'[t] = "DRIVER_ASSIGNED"
        /\ \A u \in Trips : u # t => trip'[u] = trip[u] /\ ride'[u] = ride[u]
        /\ UNCHANGED <<fee, events, payments, call, charged, completed>>
    BY <1>1 DEF Assign, topicVars, TypeOK
  <2>3. RecordsAgree'
    BY <2>1, <2>2 DEF RecordsAgree
  <2>4. RowsFollowAssignment'
    <3>1. matcher' = [matcher EXCEPT ![t] = "busy"]
      BY <1>1 DEF Assign
    <3>2. QED
      BY <2>1, <2>2, <3>1 DEF IInv, RowsFollowAssignment, TypeOK, NoTripRow
  <2>5. NoSkipping' /\ CompletedOnce' /\ FeeNeedsArrival' /\ ChargedOnce'
    BY <2>2 DEF IInv, NoSkipping, RowIsLegal, CompletedOnce, FeeNeedsArrival,
                ChargedOnce, RowsTo, Rows
  <2>6. CallsAreBacked'
    <3>1. \A u \in Trips : trip[u] # NoTripRow => trip'[u] # NoTripRow
      BY <2>1, <2>2
    <3>2. ASSUME NEW g \in Handlers PROVE ReadIsBacked(g)'
      <4>1. call[g].pc # "idle" => call[g].on \in Trips
        BY CallTypes
      <4>2. ReadIsBacked(g)
        BY DEF CallsAreBacked
      <4>3. QED
        BY <2>2, <3>1, <4>1, <4>2 DEF ReadIsBacked, Entered, RowsTo, Rows, IsCancel
    <3>3. \A g \in Handlers, u \in Trips : CompletionIsBacked(g, u)'
      BY <2>2 DEF CallsAreBacked, CompletionIsBacked, Completing
    <3>4. QED
      BY <3>2, <3>3 DEF CallsAreBacked
  <2>7. QED
    BY <2>3, <2>4, <2>5, <2>6 DEF IInv
<1>2. ASSUME NEW t \in Trips, MarkBusy(t) \/ SetActiveRide(t) \/ MatcherDies(t)
      PROVE  IInv'
  <2>1. /\ UNCHANGED <<dbVars, call, charged, completed>>
        /\ matcher[t] # "idle"
        /\ matcher' \in {[matcher EXCEPT ![t] = "active"], [matcher EXCEPT ![t] = "done"]}
    BY <1>2 DEF MarkBusy, SetActiveRide, MatcherDies, topicVars
  <2>2. RowsFollowAssignment'
    BY <2>1 DEF IInv, RowsFollowAssignment, TypeOK, dbVars, tripVars
  <2>3. QED
    BY <2>1, <2>2, QuietStep
<1>3. ASSUME NEW t \in Trips, ConsumeCompleted(t) \/ LoseCompleted(t) PROVE IInv'
  <2>1. UNCHANGED <<dbVars, call, charged, completed, matcher>>
    BY <1>3 DEF ConsumeCompleted, LoseCompleted
  <2>2. RowsFollowAssignment'
    BY <2>1, DbFrame DEF IInv
  <2>3. QED
    BY <2>1, <2>2, QuietStep
<1>4. ASSUME NEW h \in Handlers, NEW t \in Trips,
             \/ \E op \in DriverOps : LoadTrip(h, t, op)
             \/ LoadForCancel(h, t) \/ LoadRide(h, t)
      PROVE  IInv'
  <2>1. UNCHANGED <<dbVars, charged, completed, matcher>>
    BY <1>4 DEF LoadTrip, LoadForCancel, LoadRide, topicVars
  <2>2. ChargedOnce'
    BY <2>1 DEF IInv, ChargedOnce, dbVars, tripVars
  <2>3. trip[t] # NoTripRow
    <3>1. LoadRide(h, t) => trip[t] # NoTripRow
      BY DEF LoadRide, IInv, RowsFollowAssignment, RideCancellable, PreAssignment
    <3>2. QED
      BY <1>4, <3>1, StatusFacts DEF LoadTrip, LoadForCancel
  <2>4. CallsAreBacked'
    <3>1. CASE \E op \in DriverOps : LoadTrip(h, t, op)
      <4>1. PICK op \in DriverOps : LoadTrip(h, t, op)
        BY <3>1
      <4>2. op \in Ops /\ op # "cancelTrip" /\ Enter(h, "commit", op, t, trip[t])
        BY <4>1 DEF Ops, DriverOps, LoadTrip
      <4>3. QED
        BY <2>1, <2>3, <4>2, EnterFrame, DbFrame
    <3>2. CASE LoadForCancel(h, t)
      <4>1. "cancelTrip" \in Ops
        BY DEF Ops
      <4>2. QED
        BY <2>1, <2>3, <3>2, <4>1, EnterFrame, DbFrame DEF LoadForCancel
    <3>3. CASE LoadRide(h, t)
      <4>1. "cancelTrip" \in Ops
        BY DEF Ops
      <4>2. QED
        BY <2>1, <2>3, <3>3, <4>1, EnterFrame, DbFrame DEF LoadRide
    <3>4. QED
      BY <1>4, <3>1, <3>2, <3>3
  <2>5. QED
    BY <2>1, <2>2, <2>4, CallStepKeeps
<1>5. ASSUME NEW h \in Handlers, LoadByRide(h) PROVE IInv'
  <2>1. /\ UNCHANGED <<dbVars, charged, completed, matcher>>
        /\ call[h].pc = "byRide"
    BY <1>5 DEF LoadByRide, topicVars
  <2>2. ChargedOnce'
    BY <2>1 DEF IInv, ChargedOnce, dbVars, tripVars
  <2>3. PICK t \in Trips : t = call[h].on
    BY <2>1, CallTypes
  <2>4. CallsAreBacked'
    <3>1. CASE trip[t] \in TripCancellable
      <4>1. "cancelTrip" \in Ops /\ trip[t] # NoTripRow
        BY <3>1, StatusFacts DEF Ops
      <4>2. Enter(h, "commit", "cancelTrip", t, trip[t])
        BY <1>5, <2>3, <3>1 DEF LoadByRide
      <4>3. QED
        BY <2>1, <3>1, <4>1, <4>2, EnterFrame, DbFrame
    <3>2. CASE trip[t] \notin TripCancellable
      <4>1. Leave(h)
        BY <1>5, <2>3, <3>2 DEF LoadByRide
      <4>2. /\ \A g \in Handlers : g # h => call'[g] = call[g]
            /\ call'[h].pc = "idle"
        BY <2>1, <4>1, CallMoves
      <4>3. \A u \in Trips : ~Completing(h, u)'
        BY <4>2 DEF Completing
      <4>4. QED
        BY <2>1, <4>2, <4>3, CallFrame, DbFrame
    <3>3. QED
      BY <3>1, <3>2
  <2>5. QED
    BY <2>1, <2>2, <2>4, CallStepKeeps
<1>6. ASSUME NEW h \in Handlers, Commit(h) PROVE IInv'
  <2>1. PICK t \in Trips : t = call[h].on
    BY <1>6, CommitTypes DEF Commit
  <2>2. RecordsAgree' /\ ChargedOnce'
    BY <1>6, CommitRecordsAgree, CommitChargedOnce DEF IInv
  <2>3. NoSkipping' /\ CompletedOnce' /\ FeeNeedsArrival' /\ CallsAreBacked'
    BY <1>6, <2>1, CommitNoSkipping, CommitCompletedOnce, CommitFee, CommitCalls
    DEF IInv
  <2>4. RowsFollowAssignment'
    <3>1. trip[t] # NoTripRow
      BY <1>6, <2>1 DEF Commit, CallsAreBacked, ReadIsBacked
    <3>2. trip'[t] # NoTripRow /\ matcher' = matcher
      <4>1. Target(h) \in TripStatus
        BY <1>6, CommitTypes DEF Commit
      <4>2. trip' = [trip EXCEPT ![t] = Target(h)] /\ matcher' = matcher
        BY <1>6, <2>1 DEF Commit
      <4>3. QED
        BY <4>1, <4>2, StatusFacts DEF TypeOK
    <3>3. \A u \in Trips : u # t => /\ trip'[u] = trip[u]
                                    /\ events'[u] = events[u]
                                    /\ ride'[u] = ride[u]
      BY <1>6, <2>1 DEF Commit, RideUpdated, TypeOK
    <3>4. QED
      BY <3>1, <3>2, <3>3 DEF IInv, RowsFollowAssignment
  <2>5. QED
    BY <2>2, <2>3, <2>4 DEF IInv
<1>7. ASSUME NEW h \in Handlers, Rollback(h) \/ ReleaseStatus(h) \/ ReleaseActive(h)
      PROVE  IInv'
  <2>1. /\ UNCHANGED <<dbVars, charged, completed, matcher>>
        /\ call[h].pc \in {"commit", "release", "clear"}
        /\ Leave(h) \/ call' = [call EXCEPT ![h].pc = "clear"]
    BY <1>7 DEF Rollback, Abandon, ReleaseStatus, SetAvailable, ReleaseActive,
                topicVars
  <2>2. ChargedOnce'
    BY <2>1 DEF IInv, ChargedOnce, dbVars, tripVars
  <2>3. /\ \A g \in Handlers : g # h => call'[g] = call[g]
        /\ call'[h].pc \in {"idle", "clear"}
        /\ call'[h].pc # "idle" => call'[h].on = call[h].on
    BY <2>1, CallMoves
  <2>4. \A u \in Trips : ~Completing(h, u)'
    BY <2>3 DEF Completing
  <2>5. CallsAreBacked'
    BY <2>1, <2>3, <2>4, CallFrame, DbFrame
  <2>6. QED
    BY <2>1, <2>2, <2>5, CallStepKeeps
<1>8. ASSUME NEW h \in Handlers, Emit(h) PROVE IInv'
  <2>1. /\ UNCHANGED <<dbVars, matcher>> /\ call[h].pc = "emit"
        /\ Send(h, Messages(h))
        /\ Leave(h) \/ call' = [call EXCEPT ![h].pc = "release"]
    BY <1>8 DEF Emit
  <2>2. PICK sent : sent = Messages(h)
    OBVIOUS
  <2>3. Send(h, sent)
    BY <2>1, <2>2
  <2>4. sent # {} => call[h].op = "completeRide"
    BY <2>2 DEF Messages
  <2>5. /\ \A g \in Handlers : g # h => call'[g] = call[g]
        /\ call'[h].pc \in {"idle", "release"}
        /\ call'[h].pc # "idle" => call'[h].on = call[h].on
    BY <2>1, CallMoves
  <2>6. QED
    BY <2>1, <2>3, <2>4, <2>5, SendKeeps
<1>9. ASSUME NEW h \in Handlers, CallFails(h) PROVE IInv'
  <2>1. UNCHANGED <<dbVars, matcher>> /\ call[h].pc # "idle" /\ Leave(h)
    BY <1>9 DEF CallFails
  <2>2. PICK sent : /\ sent \subseteq Messages(h)
                    /\ call[h].pc # "emit" => sent = {}
                    /\ Send(h, sent)
    <3>1. PICK part \in SUBSET Messages(h) :
             Send(h, IF call[h].pc = "emit" THEN part ELSE {})
      BY <1>9 DEF CallFails
    <3>2. QED
      BY <3>1
  <2>3. sent # {} => call[h].pc = "emit" /\ call[h].op = "completeRide"
    BY <2>2 DEF Messages
  <2>4. /\ \A g \in Handlers : g # h => call'[g] = call[g]
        /\ call'[h].pc = "idle"
    BY <2>1, CallMoves
  <2>5. QED
    BY <2>1, <2>2, <2>3, <2>4, SendKeeps
<1>10. CASE UNCHANGED vars
  <2>1. UNCHANGED <<dbVars, call, charged, completed, matcher>>
    BY <1>10 DEF vars, topicVars
  <2>2. RowsFollowAssignment'
    BY <2>1, DbFrame DEF IInv
  <2>3. QED
    BY <2>1, <2>2, QuietStep
<1>11. ASSUME NEW h \in Handlers, NEW t \in Trips, LoadPending(h, t) PROVE IInv'
  <2>1. /\ UNCHANGED <<dbVars, charged, completed, matcher>>
        /\ \A g \in Handlers : g # h => call'[g] = call[g]
        /\ call'[h].pc = "reload"
    BY <1>11 DEF LoadPending, Enter, topicVars, TypeOK
  <2>2. ChargedOnce'
    BY <2>1 DEF IInv, ChargedOnce, dbVars, tripVars
  <2>3. \A u \in Trips : ~Completing(h, u)'
    BY <2>1 DEF Completing
  <2>4. CallsAreBacked'
    BY <2>1, <2>3, CallFrame, DbFrame
  <2>5. QED
    BY <2>1, <2>2, <2>4, CallStepKeeps
<1>12. ASSUME NEW h \in Handlers, ReloadRide(h) PROVE IInv'
  <2>1. /\ UNCHANGED <<dbVars, charged, completed, matcher>>
        /\ call[h].pc = "reload"
        /\ Leave(h) \/ call' = [call EXCEPT ![h].pc = "save"]
    BY <1>12 DEF ReloadRide, topicVars
  <2>2. ChargedOnce'
    BY <2>1 DEF IInv, ChargedOnce, dbVars, tripVars
  <2>3. /\ \A g \in Handlers : g # h => call'[g] = call[g]
        /\ call'[h].pc \in {"idle", "save"}
    BY <2>1, CallMoves
  <2>4. \A u \in Trips : ~Completing(h, u)'
    BY <2>3 DEF Completing
  <2>5. CallsAreBacked'
    BY <2>1, <2>3, <2>4, CallFrame, DbFrame
  <2>6. QED
    BY <2>1, <2>2, <2>5, CallStepKeeps
<1>13. ASSUME NEW h \in Handlers, SaveRide(h) PROVE IInv'
  <2>1. /\ UNCHANGED <<tripVars, charged, completed, matcher>>
        /\ call[h].pc = "save" /\ Leave(h)
        /\ ride' = [ride EXCEPT ![call[h].on] = "CANCELLED"]
    BY <1>13 DEF SaveRide, topicVars
  <2>2. /\ UNCHANGED <<trip, events>>
        /\ \A t \in Trips : ride'[t] \in {ride[t], "CANCELLED"}
    BY <2>1 DEF tripVars, TypeOK
  <2>3. RecordsAgree' /\ RowsFollowAssignment'
    BY <2>1, <2>2 DEF IInv, RecordsAgree, RowsFollowAssignment
  <2>4. NoSkipping' /\ CompletedOnce' /\ FeeNeedsArrival'
    BY <2>1, TripFrame DEF IInv
  <2>5. ChargedOnce'
    BY <2>1 DEF IInv, ChargedOnce, tripVars
  <2>6. /\ \A g \in Handlers : g # h => call'[g] = call[g]
        /\ call'[h].pc = "idle"
    BY <2>1, CallMoves
  <2>7. \A u \in Trips : ~Completing(h, u)'
    BY <2>6 DEF Completing
  <2>8. CallsAreBacked'
    BY <2>1, <2>6, <2>7, CallFrame
  <2>9. QED
    BY <2>3, <2>4, <2>5, <2>8 DEF IInv
<1>14. QED
  BY <1>1, <1>2, <1>3, <1>4, <1>5, <1>6, <1>7, <1>8, <1>9, <1>10, <1>11, <1>12,
     <1>13 DEF Next, CallStep

\* The inductive invariant holds of every reachable state.
THEOREM Invariant == Spec => []IInv
BY InvInit, InvStep, PTL DEF Spec

\* However the calls interleave and fail, the trip row tells the status of the
\* newest audit row, and the ride row tells the same or CANCELLED: more a late
\* save of cancelRide does not allow (CancelledRideHasNoLiveTrip fails).
THEOREM StatusesAgree == Spec => []RecordsAgree
<1>1. IInv => RecordsAgree
  BY DEF IInv
<1>2. QED
  BY <1>1, Invariant, PTL

\* No audit row skips a status: each is an edge of the diagram from a status
\* the trip had entered.
THEOREM NothingIsSkipped == Spec => []NoSkipping
<1>1. IInv => NoSkipping
  BY DEF IInv
<1>2. QED
  BY <1>1, Invariant, PTL

\* A trip is completed at most once, with its payment row.
THEOREM CompletionIsUnique == Spec => []CompletedOnce
<1>1. IInv => CompletedOnce
  BY DEF IInv
<1>2. QED
  BY <1>1, Invariant, PTL

\* The rider is charged at most once, and only for a committed completion.
THEOREM ChargeIsUnique == Spec => []ChargedOnce
<1>1. IInv => ChargedOnce
  BY DEF IInv
<1>2. QED
  BY <1>1, Invariant, PTL

\* No rider pays for a cancellation unless the driver had arrived.
THEOREM FeesAreEarned == Spec => []FeeNeedsArrival
<1>1. IInv => FeeNeedsArrival
  BY DEF IInv
<1>2. QED
  BY <1>1, Invariant, PTL
-----------------------------------------------------------------------------
(* The abstract trip                                                       *)

\* A step assigns a trip, commits a transaction, or leaves the trips as they
\* are.
LEMMA StepKinds ==
    ASSUME [Next]_vars
    PROVE  \/ \E t \in Trips : Assign(t)
           \/ \E h \in Handlers : Commit(h)
           \/ UNCHANGED tripVars
<1> USE DEF dbVars
<1>1. ASSUME NEW t \in Trips,
             \/ MarkBusy(t) \/ SetActiveRide(t) \/ ConsumeCompleted(t)
             \/ MatcherDies(t) \/ LoseCompleted(t)
      PROVE  UNCHANGED tripVars
  BY <1>1 DEF MarkBusy, SetActiveRide, ConsumeCompleted, MatcherDies, LoseCompleted
<1>2. ASSUME NEW h \in Handlers, NEW t \in Trips,
             \/ \E op \in DriverOps : LoadTrip(h, t, op)
             \/ LoadForCancel(h, t) \/ LoadRide(h, t) \/ LoadPending(h, t)
      PROVE  UNCHANGED tripVars
  BY <1>2 DEF LoadTrip, LoadForCancel, LoadRide, LoadPending
<1>3. ASSUME NEW h \in Handlers,
             \/ LoadByRide(h) \/ Rollback(h) \/ Emit(h) \/ ReleaseStatus(h)
             \/ ReleaseActive(h) \/ ReloadRide(h) \/ SaveRide(h) \/ CallFails(h)
      PROVE  UNCHANGED tripVars
  BY <1>3 DEF LoadByRide, Rollback, Emit, ReleaseStatus, ReleaseActive, ReloadRide,
              SaveRide, CallFails
<1>4. CASE UNCHANGED vars
  BY <1>4 DEF vars
<1>5. QED
  BY <1>1, <1>2, <1>3, <1>4 DEF Next, CallStep

\* The abstract trip speaks of the same statuses and fees.
LEMMA SameWords ==
    /\ TripPromise!NoTripRow = NoTripRow
    /\ TripPromise!DriverOps = DriverOps
    /\ TripPromise!FromStatus = FromStatus
    /\ TripPromise!ToStatus = ToStatus
    /\ TripPromise!TripCancellable = TripCancellable
    /\ \A s : TripPromise!CancellationFee(s) = CancellationFee(s)
BY DEF TripPromise!NoTripRow, NoTripRow, TripPromise!DriverOps, DriverOps,
       TripPromise!FromStatus, FromStatus, TripPromise!ToStatus, ToStatus,
       TripPromise!TripCancellable, TripCancellable,
       TripPromise!ActiveStatuses, ActiveStatuses,
       TripPromise!CancellationFee, CancellationFee,
       TripPromise!EarlyStatuses, EarlyStatuses

\* A status a trip entered is one of its entered statuses.
LEMMA EnteredIsEntered ==
    ASSUME NEW t \in Trips, NEW s, trip[t] # NoTripRow, Entered(t, s)
    PROVE  s \in EnteredStatuses[t]
BY DEF Entered, EnteredStatuses, RowsTo

\* A trip whose rows stay has entered what it had.
LEMMA EnteredStays ==
    ASSUME NEW t \in Trips, trip'[t] = trip[t], events'[t] = events[t]
    PROVE  EnteredStatuses'[t] = EnteredStatuses[t]
<1>1. Rows(t)' = Rows(t)
  BY DEF Rows
<1>2. {events'[t][i].to : i \in Rows(t)'} = {events[t][i].to : i \in Rows(t)}
  BY <1>1
<1>3. QED
  BY <1>2 DEF EnteredStatuses

\* A transaction adds the status it writes to the ones its trip entered.
LEMMA CommitEnters ==
    ASSUME IInv, NEW h \in Handlers, Commit(h), NEW t \in Trips, t = call[h].on
    PROVE  EnteredStatuses' = [EnteredStatuses EXCEPT ![t] = @ \cup {Target(h)}]
<1>0. PICK n : n = NewRow(h)
  OBVIOUS
<1>1. /\ trip[t] # NoTripRow /\ trip'[t] # NoTripRow
      /\ \A u \in Trips : u # t => trip'[u] = trip[u]
  <2>1. Target(h) \in TripStatus /\ trip' = [trip EXCEPT ![t] = Target(h)]
    BY CommitTypes DEF Commit, IInv
  <2>2. trip[t] # NoTripRow
    BY DEF Commit, IInv, CallsAreBacked, ReadIsBacked
  <2>3. QED
    BY <2>1, <2>2, StatusFacts DEF IInv, TypeOK
<1>2. /\ Rows(t) = 1 .. n - 1 /\ Rows(t)' = 1 .. n /\ n \in Nat \ {0}
      /\ events'[t][n] = AuditRow(h)
      /\ \A i \in Rows(t) : events'[t][i] = events[t][i]
      /\ \A u \in Trips : u # t => events'[u] = events[u]
  BY <1>0, CommitRows DEF IInv
<1>3. Rows(t)' = Rows(t) \cup {n} /\ AuditRow(h).to = Target(h)
  BY <1>2 DEF AuditRow
<1>4. {events'[t][i].to : i \in Rows(t)'}
         = {events[t][i].to : i \in Rows(t)} \cup {Target(h)}
  BY <1>2, <1>3
<1>5. EnteredStatuses'[t] = EnteredStatuses[t] \cup {Target(h)}
  BY <1>1, <1>4 DEF EnteredStatuses
<1>6. ASSUME NEW u \in Trips, u # t PROVE EnteredStatuses'[u] = EnteredStatuses[u]
  BY <1>1, <1>2, <1>6, EnteredStays
<1>7. QED
  BY <1>5, <1>6 DEF EnteredStatuses

\* A transaction is a transition of the abstract trip.
LEMMA CommitRefines ==
    ASSUME IInv, NEW h \in Handlers, Commit(h)
    PROVE  TripPromise!Next
<1>1. PICK t \in Trips : t = call[h].on
  BY CommitTypes DEF Commit, IInv
<1>2. /\ call[h].pc = "commit" /\ call[h].op \in Ops
      /\ TransitionAllowed(call[h].op, call[h].seen)
      /\ trip' = [trip EXCEPT ![t] = Target(h)]
      /\ EnteredStatuses' = [EnteredStatuses EXCEPT ![t] = @ \cup {Target(h)}]
  BY <1>1, CommitTypes, CommitEnters DEF Commit, CanCommit, IInv
<1>3. call[h].seen \in EnteredStatuses[t]
  BY <1>1, <1>2, EnteredIsEntered DEF IInv, CallsAreBacked, ReadIsBacked
<1>4. CASE IsCancel(h)
  <2>1. call[h].op # "completeRide"
    BY <1>4 DEF IsCancel
  <2>2. call[h].seen \in TripCancellable
    BY <1>2, <1>4 DEF IInv, CallsAreBacked, ReadIsBacked
  <2>3. /\ fee' = [fee EXCEPT ![t] = CancellationFee(call[h].seen)]
        /\ Target(h) = "CANCELLED"
        /\ UNCHANGED payments
    BY <1>1, <1>4, <2>1 DEF Commit, Target, FeeOf
  <2>4. TripPromise!Move(t, "CANCELLED")
    BY <1>2, <2>3 DEF TripPromise!Move
  <2>5. TripPromise!Cancel(t)
    BY <1>3, <2>2, <2>3, <2>4, SameWords DEF TripPromise!Cancel
  <2>6. QED
    BY <2>5 DEF TripPromise!Next
<1>5. CASE ~IsCancel(h)
  <2>1. PICK op \in DriverOps : op = call[h].op
    BY <1>2, <1>5 DEF Ops, IsCancel
  <2>2. FromStatus[op] \in EnteredStatuses[t]
    BY <1>2, <1>3, <2>1 DEF TransitionAllowed
  <2>3. /\ Target(h) = ToStatus[op]
        /\ payments' = IF op = "completeRide" THEN payments \cup {t} ELSE payments
        /\ op = "completeRide" => t \notin payments
        /\ UNCHANGED fee
    BY <1>1, <1>5, <2>1 DEF Commit, CanCommit, NoPaymentYet, Target
  <2>4. TripPromise!Move(t, ToStatus[op])
    BY <1>2, <2>3 DEF TripPromise!Move
  <2>5. TripPromise!Advance(t, op)
    BY <2>2, <2>3, <2>4, SameWords DEF TripPromise!Advance
  <2>6. QED
    BY <2>1, <2>5, SameWords DEF TripPromise!Next
<1>6. QED
  BY <1>4, <1>5

\* The worker's transaction makes the abstract trip.
LEMMA AssignRefines ==
    ASSUME IInv, NEW t \in Trips, Assign(t)
    PROVE  TripPromise!Next
<1>1. /\ trip[t] = NoTripRow /\ events[t] = <<>>
      /\ trip' = [trip EXCEPT ![t] = "DRIVER_ASSIGNED"]
      /\ UNCHANGED <<fee, events, payments>>
  BY DEF Assign, IInv, RowsFollowAssignment
<1>2. trip'[t] # NoTripRow /\ \A u \in Trips : u # t => trip'[u] = trip[u]
  BY <1>1 DEF IInv, TypeOK, NoTripRow
<1>3. EnteredStatuses' = [EnteredStatuses EXCEPT ![t] = @ \cup {"DRIVER_ASSIGNED"}]
  <2>1. EnteredStatuses[t] = {}
    BY <1>1 DEF EnteredStatuses
  <2>2. Rows(t)' = {}
    BY <1>1 DEF Rows
  <2>3. EnteredStatuses'[t] = {"DRIVER_ASSIGNED"}
    BY <1>2, <2>2 DEF EnteredStatuses
  <2>4. \A u \in Trips : u # t => EnteredStatuses'[u] = EnteredStatuses[u]
    BY <1>1, <1>2, EnteredStays
  <2>5. QED
    BY <2>1, <2>3, <2>4 DEF EnteredStatuses
<1>4. TripPromise!Assign(t)
  BY <1>1, <1>3, SameWords DEF TripPromise!Assign, TripPromise!Move
<1>5. QED
  BY <1>4 DEF TripPromise!Next

LEMMA StepRefines ==
    ASSUME IInv, [Next]_vars
    PROVE  [TripPromise!Next]_(TripPromise!vars)
<1>1. UNCHANGED tripVars => UNCHANGED TripPromise!vars
  BY DEF tripVars, TripPromise!vars, EnteredStatuses, Rows
<1>2. QED
  BY <1>1, StepKinds, AssignRefines, CommitRefines

\* However many calls on a trip overlap and fail, TripService with the worker's
\* assignment implements the abstract trip: each transaction is one transition
\* along an edge of the diagram from a status the trip has had, and completes
\* the trip at most once.
THEOREM Refinement == Spec => ImplementsTripStateMachine
<1>1. Init => TripPromise!Init
  BY SameWords DEF Init, TripPromise!Init, EnteredStatuses
<1>2. QED
  BY <1>1, StepRefines, Invariant, PTL
  DEF Spec, ImplementsTripStateMachine, TripPromise!Spec
-----------------------------------------------------------------------------
(* The messages of a completion                                            *)

\* A step that sends nothing and commits nothing keeps who has to send.
LEMMA CarriedFrame ==
    ASSUME CompletionIsCarried, UNCHANGED <<payments, charged, completed>>,
           failures > 0 => failures' > 0,
           \A g \in Handlers, t \in Trips : Completing(g, t) => Completing(g, t)',
           payments \subseteq Trips
    PROVE  CompletionIsCarried'
BY DEF CompletionIsCarried

LEMMA CarriedStep ==
    ASSUME IInv, CompletionIsCarried, [Next]_vars
    PROVE  CompletionIsCarried'
<1> USE DEF topicVars, dbVars, tripVars
<1>0. /\ TypeOK /\ payments \subseteq Trips /\ failures \in Nat
      /\ call \in [Handlers -> CallStates] /\ charged \in [Trips -> Nat]
  BY DEF IInv, TypeOK
<1>1. ASSUME NEW t \in Trips,
             \/ Assign(t) \/ MarkBusy(t) \/ SetActiveRide(t) \/ ConsumeCompleted(t)
      PROVE  CompletionIsCarried'
  BY <1>0, <1>1, CarriedFrame
  DEF Assign, MarkBusy, SetActiveRide, ConsumeCompleted, Completing
<1>2. ASSUME NEW t \in Trips, MatcherDies(t) \/ LoseCompleted(t)
      PROVE  CompletionIsCarried'
  BY <1>0, <1>2 DEF MatcherDies, LoseCompleted, NewFailure, CompletionIsCarried
<1>3. ASSUME NEW h \in Handlers, CallFails(h) PROVE CompletionIsCarried'
  BY <1>0, <1>3 DEF CallFails, NewFailure, CompletionIsCarried
<1>4. ASSUME NEW h \in Handlers, NEW t \in Trips,
             \/ \E op \in DriverOps : LoadTrip(h, t, op)
             \/ LoadForCancel(h, t) \/ LoadRide(h, t) \/ LoadPending(h, t)
      PROVE  CompletionIsCarried'
  <2>1. /\ call[h].pc = "idle"
        /\ \A g \in Handlers : g # h => call'[g] = call[g]
        /\ UNCHANGED <<payments, charged, completed, failures>>
    BY <1>0, <1>4 DEF LoadTrip, LoadForCancel, LoadRide, LoadPending, NewCall, Enter
  <2>2. QED
    BY <1>0, <2>1, CarriedFrame DEF Completing
<1>5. ASSUME NEW h \in Handlers,
             \/ LoadByRide(h) \/ Rollback(h) \/ ReleaseStatus(h) \/ ReleaseActive(h)
             \/ ReloadRide(h) \/ SaveRide(h)
      PROVE  CompletionIsCarried'
  <2>1. /\ call[h].pc # "emit"
        /\ \A g \in Handlers : g # h => call'[g] = call[g]
        /\ UNCHANGED <<payments, charged, completed, failures>>
    BY <1>0, <1>5 DEF LoadByRide, Rollback, Abandon, ReleaseStatus, SetAvailable,
                      ReleaseActive, ReloadRide, SaveRide, Enter, Leave
  <2>2. QED
    BY <1>0, <2>1, CarriedFrame DEF Completing
<1>6. ASSUME NEW h \in Handlers, Commit(h) PROVE CompletionIsCarried'
  <2>1. PICK t \in Trips : t = call[h].on
    BY <1>0, <1>6, CommitTypes DEF Commit
  <2>2. /\ call[h].pc = "commit" /\ call' = [call EXCEPT ![h].pc = "emit"]
        /\ UNCHANGED <<charged, completed, failures>>
        /\ payments' = IF call[h].op = "completeRide" THEN payments \cup {t}
                       ELSE payments
    BY <1>6, <2>1 DEF Commit
  <2>3. /\ \A g \in Handlers : g # h => call'[g] = call[g]
        /\ call'[h].pc = "emit" /\ call'[h].op = call[h].op /\ call'[h].on = t
    BY <1>0, <2>1, <2>2 DEF CallStates, Direct, NoCall
  <2>4. \A g \in Handlers, u \in Trips : Completing(g, u) => Completing(g, u)'
    BY <2>2, <2>3 DEF Completing
  <2>5. call[h].op = "completeRide" => Completing(h, t)'
    BY <2>3 DEF Completing
  <2>6. QED
    BY <1>0, <2>2, <2>4, <2>5 DEF CompletionIsCarried
<1>7. ASSUME NEW h \in Handlers, Emit(h) PROVE CompletionIsCarried'
  <2>1. PICK t \in Trips : t = call[h].on
    BY <1>0, <1>7, CallTypes DEF Emit
  <2>2. /\ call[h].pc = "emit" /\ Send(h, Messages(h))
        /\ UNCHANGED <<payments, failures>>
        /\ \A g \in Handlers : g # h => call'[g] = call[g]
    BY <1>0, <1>7 DEF Emit, Leave
  <2>3. CASE call[h].op # "completeRide"
    <3>1. UNCHANGED <<charged, completed>>
      BY <2>2, <2>3 DEF Send, Messages
    <3>2. \A g \in Handlers, u \in Trips : Completing(g, u) => Completing(g, u)'
      BY <2>2, <2>3 DEF Completing
    <3>3. QED
      BY <1>0, <2>2, <3>1, <3>2, CarriedFrame
  <2>4. CASE call[h].op = "completeRide"
    <3>1. charged[t] = 0
      BY <2>1, <2>2, <2>4
      DEF IInv, CallsAreBacked, CompletionIsBacked, Completing
    <3>2. charged' = [charged EXCEPT ![t] = @ + 1] /\ completed' = completed \cup {t}
      BY <2>1, <2>2, <2>4 DEF Send, Messages
    <3>3. charged'[t] = 1 /\ t \in completed'
      BY <1>0, <3>1, <3>2
    <3>4. \A g \in Handlers, u \in Trips \ {t} : Completing(g, u) => Completing(g, u)'
      BY <2>1, <2>2 DEF Completing
    <3>5. QED
      BY <1>0, <2>2, <3>2, <3>3, <3>4 DEF CompletionIsCarried
  <2>5. QED
    BY <2>3, <2>4
<1>8. CASE UNCHANGED vars
  BY <1>0, <1>8, CarriedFrame DEF vars, Completing
<1>9. QED
  BY <1>1, <1>2, <1>3, <1>4, <1>5, <1>6, <1>7, <1>8 DEF Next, CallStep

\* The messages of a completion that was committed are sent or about to be
\* sent, unless something failed: what CompletionIsSettled has left to
\* fairness is the progress of that call and of the consumer.
THEOREM CompletionsAreCarried == Spec => []CompletionIsCarried
<1>1. Init => CompletionIsCarried
  BY DEF Init, CompletionIsCarried
<1>2. QED
  BY <1>1, CarriedStep, Invariant, PTL DEF Spec
=============================================================================
