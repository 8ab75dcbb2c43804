----------------------- MODULE DriverPresenceProofs -----------------------
(***************************************************************************)
(* Proofs about DriverPresence for any number of sockets, processes and    *)
(* acts.                                                                   *)
(***************************************************************************)
EXTENDS DriverPresence, FiniteSetTheorems, TLAPS

\* Who writes the row or the hash does so alone, and knows the row.
OneWriter == \A x, y \in Writers : x = y

RowIsKnown ==
    /\ \A s \in Sockets : handler[s] \in {"geo", "restore", "online"} => row = "AVAILABLE"
    /\ \A j \in Jobs : job[j].pc = "redis" => row = job[j].to

\* Only a job that has written the row and not yet the hash leaves an offline
\* driver AVAILABLE, in the index or not.
HashFollowsRow ==
    row = "OFFLINE" /\ hash = "AVAILABLE" => \E j \in Jobs : job[j].pc = "redis"

OfflineInv == raced \/ (OneWriter /\ RowIsKnown /\ HashFollowsRow)

\* A socket that is connected or whose connection is being handled.
InUse(s) == s \in alive \/ handler[s] # "idle"

OneConnection == \A s, t \in Sockets : InUse(s) /\ InUse(t) => s = t

\* The map knows every timer that runs.
TimersAreTracked ==
    \A p \in Processes : timers[p] <= 1 /\ (timers[p] > 0 => p \in tracked)

\* While connected, a timer runs in the process of the connection only until
\* the handler clears it.
TimersAreCleared == \A s \in alive : timers[home[s]] > 0 => handler[s] = "auth"

TimerInv == several \/ (OneConnection /\ TimersAreTracked /\ TimersAreCleared)
-----------------------------------------------------------------------------
LEMMA TypeInit == Init => TypeOK
<1>1. SUFFICES ASSUME Init PROVE TypeOK
  OBVIOUS
<1>2. job \in [Jobs -> [pc : {"idle", "check", "save", "redis"},
                       to : {"AVAILABLE", "OFFLINE"}]]
  BY <1>1 DEF Init, NoJob
<1>3. handler \in [Sockets ->
          {"idle", "auth", "hash", "row", "geo", "restore", "expire", "online"}]
      /\ timers \in [Processes -> Nat]
  BY <1>1 DEF Init
<1>4. home \in [Sockets -> Processes]
  <2>1. (CHOOSE p \in Processes : TRUE) \in Processes
    BY PresenceAssumption
  <2>2. QED
    BY <1>1, <2>1 DEF Init
<1>5. /\ row = "OFFLINE" /\ hash = "none" /\ expiring = FALSE /\ geo = FALSE
      /\ heartbeat = "none" /\ alive = {} /\ tracked = {} /\ scan = FALSE /\ trip = "none"
      /\ raced = FALSE /\ leaked = FALSE /\ sighted = FALSE /\ several = FALSE /\ acts = 0
  BY <1>1 DEF Init
<1>6. QED
  BY <1>2, <1>3, <1>4, <1>5 DEF TypeOK

LEMMA ActTypes == acts \in Nat /\ Act => acts' \in Nat
BY DEF Act

\* What the calls and the timers of the availability write.
LEMMA JobTypes ==
    ASSUME TypeOK, NEW j \in Jobs, NEW p \in Processes, NEW status \in {"AVAILABLE", "OFFLINE"},
           \/ CallAvailability(status) \/ SaveStatus(j) \/ ApplyStatus(j)
           \/ GraceEnds(p) \/ CheckOnline(p)
    PROVE  TypeOK'
<1>1. CASE CallAvailability(status)
  BY <1>1 DEF CallAvailability, Act, Race, TypeOK, Jobs, redisVars, socketVars, timerVars
<1>2. CASE SaveStatus(j)
  BY <1>2 DEF SaveStatus, TypeOK, redisVars, socketVars, timerVars, seenVars
<1>3. CASE ApplyStatus(j)
  BY <1>3 DEF ApplyStatus, goOnline, goOffline, NoJob, TypeOK, socketVars, timerVars
<1>4. CASE GraceEnds(p)
  BY <1>4 DEF GraceEnds, DeleteEntry, Jobs, TypeOK, redisVars, socketVars, seenVars
<1>5. CASE CheckOnline(p)
  BY <1>5 DEF CheckOnline, Race, NoJob, Jobs, TypeOK, redisVars, socketVars, timerVars
<1>6. QED
  BY <1>1, <1>2, <1>3, <1>4, <1>5

\* What connections write.
LEMMA SocketTypes ==
    ASSUME TypeOK, NEW s \in Sockets, NEW p \in Processes,
           \/ Connect(s, p) \/ HandlerStep(s) \/ Refuse(s) \/ Drop(s)
    PROVE  TypeOK'
<1>1. CASE Connect(s, p)
  BY <1>1 DEF Connect, Act, TypeOK, redisVars, timerVars, seenVars
<1>2. CASE Refuse(s)
  BY <1>2 DEF Refuse, TypeOK, redisVars, timerVars, seenVars
<1>3. CASE Drop(s)
  BY <1>3 DEF Drop, TypeOK, redisVars, timerVars, seenVars
<1>4. CASE Authenticate(s)
  BY <1>4 DEF Authenticate, ClearTimer, DeleteEntry, TypeOK, redisVars, seenVars
<1>5. CASE ReadHash(s)
  BY <1>5 DEF ReadHash, Goto, TypeOK, redisVars, timerVars, seenVars
<1>6. CASE ReadRow(s)
  BY <1>6 DEF ReadRow, Goto, Race, TypeOK, redisVars, timerVars
<1>7. CASE ReadGeo(s)
  BY <1>7 DEF ReadGeo, Goto, TypeOK, redisVars, timerVars, seenVars
<1>8. CASE RestoreHash(s)
  BY <1>8 DEF RestoreHash, Goto, HSet, TypeOK, timerVars
<1>9. CASE ExtendHash(s)
  BY <1>9 DEF ExtendHash, Goto, Expire, TypeOK, timerVars
<1>10. CASE ReturnOnline(s)
  BY <1>10 DEF ReturnOnline, Goto, goOnline, TypeOK, timerVars
<1>11. QED
  BY <1>1, <1>2, <1>3, <1>4, <1>5, <1>6, <1>7, <1>8, <1>9, <1>10 DEF HandlerStep

\* What locations, the cron, time and trips write.
LEMMA OutsideTypes ==
    ASSUME TypeOK,
           \/ UpdateLocation \/ Scan \/ Sweep \/ HeartbeatAges \/ HashExpires
           \/ Offer \/ AnswerOffer \/ MarkBusy \/ CancelTrip \/ CompleteTrip
    PROVE  TypeOK'
<1>1. CASE UpdateLocation
  <2>1. hash' \in {"blank", "AVAILABLE", "BUSY"}
    BY <1>1 DEF UpdateLocation, LocationStatus, TypeOK
  <2>2. acts' \in Nat
    BY <1>1, ActTypes DEF UpdateLocation, TypeOK
  <2>3. QED
    BY <1>1, <2>1, <2>2 DEF UpdateLocation, TypeOK, socketVars, timerVars
<1>2. CASE Scan
  BY <1>2 DEF Scan, TypeOK, redisVars, socketVars, timerVars, seenVars
<1>3. CASE Sweep
  BY <1>3 DEF Sweep, goOffline, TypeOK, socketVars, timerVars
<1>4. CASE HeartbeatAges
  BY <1>4 DEF HeartbeatAges, TypeOK, socketVars, timerVars, seenVars
<1>5. CASE HashExpires
  BY <1>5 DEF HashExpires, TypeOK, socketVars, timerVars
<1>6. CASE Offer
  BY <1>6 DEF Offer, Act, TypeOK, redisVars, socketVars, timerVars, seenVars
<1>7. CASE AnswerOffer
  BY <1>7 DEF AnswerOffer, TypeOK, redisVars, socketVars, timerVars, seenVars
<1>8. CASE MarkBusy
  BY <1>8 DEF MarkBusy, HSet, TypeOK, socketVars, timerVars
<1>9. CASE CancelTrip
  BY <1>9 DEF CancelTrip, HSet, TypeOK, socketVars, timerVars
<1>10. CASE CompleteTrip
  BY <1>10 DEF CompleteTrip, TypeOK, redisVars, socketVars, timerVars, seenVars
<1>11. QED
  BY <1>1, <1>2, <1>3, <1>4, <1>5, <1>6, <1>7, <1>8, <1>9, <1>10

LEMMA CrashTypes ==
    ASSUME TypeOK, NEW p \in Processes, Crash(p) PROVE TypeOK'
<1>1. job' \in [Jobs -> [pc : {"idle", "check", "save", "redis"},
                        to : {"AVAILABLE", "OFFLINE"}]]
  BY DEF Crash, NoJob, TypeOK
<1>2. /\ alive' \subseteq Sockets
      /\ handler' \in [Sockets ->
             {"idle", "auth", "hash", "row", "geo", "restore", "expire", "online"}]
      /\ timers' \in [Processes -> Nat]
  BY DEF Crash, TypeOK
<1>3. tracked' \subseteq Processes /\ (\A q \in tracked' : timers'[q] > 0)
  BY DEF Crash, TypeOK
<1>4. raced' \in BOOLEAN
  BY Zenon DEF Crash
<1>5. scan' \in BOOLEAN
  BY Zenon DEF Crash, TypeOK
<1>6. acts' \in Nat
  BY ActTypes DEF Crash, TypeOK
<1>7. QED
  BY <1>1, <1>2, <1>3, <1>4, <1>5, <1>6 DEF Crash, TypeOK, redisVars

LEMMA TypeStep == TypeOK /\ [Next]_vars => TypeOK'
<1>1. SUFFICES ASSUME TypeOK, [Next]_vars PROVE TypeOK'
  OBVIOUS
<1>2. CASE UNCHANGED vars
  BY <1>1, <1>2 DEF TypeOK, vars, redisVars, socketVars, timerVars, seenVars
<1>3. PICK p \in Processes : TRUE
  BY PresenceAssumption
<1>4. "AVAILABLE" \in {"AVAILABLE", "OFFLINE"} /\ p \in Jobs
  BY DEF Jobs
<1>5. QED
  BY <1>1, <1>2, <1>3, <1>4, JobTypes, SocketTypes, OutsideTypes, CrashTypes
     DEF Next, JobStep, handleLocationUpdate, PostLocation

\* Every variable keeps its type; in particular a timer in the map runs, and
\* only a hash that exists expires.
THEOREM TypeCorrect == Spec => []TypeOK
BY TypeInit, TypeStep, PTL DEF Spec
-----------------------------------------------------------------------------
\* The index holds a place that a location gave only with a heartbeat: the
\* cron takes both away in one pipeline (StaleDriverCleanupService).
THEOREM SightingsAreWatched == Spec => []SightingIsWatched
<1>1. Init => SightingIsWatched
  BY DEF Init, SightingIsWatched
<1>2. ASSUME SightingIsWatched, [Next]_vars PROVE SightingIsWatched'
  <2>1. CASE UNCHANGED <<heartbeat, sighted>>
    BY <1>2, <2>1 DEF SightingIsWatched
  <2>2. CASE UpdateLocation \/ Sweep \/ HeartbeatAges
    BY <1>2, <2>2 DEF UpdateLocation, Sweep, HeartbeatAges, goOffline, SightingIsWatched,
       seenVars
  <2>3. ASSUME NEW j \in Jobs, ApplyStatus(j) PROVE heartbeat' = heartbeat /\ (sighted' => sighted)
    BY <2>3 DEF ApplyStatus, goOnline, goOffline
  <2>4. CASE \/ \E status \in {"AVAILABLE", "OFFLINE"} : CallAvailability(status)
             \/ \E j \in Jobs : SaveStatus(j)
             \/ \E p \in Processes : GraceEnds(p) \/ CheckOnline(p) \/ Crash(p)
    BY <2>1, <2>4 DEF CallAvailability, SaveStatus, GraceEnds, CheckOnline, Crash, redisVars,
       seenVars
  <2>5. CASE \E s \in Sockets : \/ HandlerStep(s) \/ Refuse(s) \/ Drop(s)
                                \/ \E p \in Processes : Connect(s, p)
    BY <2>1, <2>5 DEF HandlerStep, Authenticate, ReadHash, ReadRow, ReadGeo, RestoreHash,
       ExtendHash, ReturnOnline, goOnline, Refuse, Drop, Connect, redisVars, seenVars
  <2>6. CASE Scan \/ HashExpires \/ Offer \/ AnswerOffer \/ MarkBusy \/ CancelTrip \/ CompleteTrip
    BY <2>1, <2>6 DEF Scan, HashExpires, Offer, AnswerOffer, MarkBusy, CancelTrip, CompleteTrip,
       redisVars, seenVars
  <2>7. CASE UNCHANGED vars
    BY <2>1, <2>7 DEF vars, redisVars, seenVars
  <2>8. CASE \E j \in Jobs : ApplyStatus(j)
    BY <1>2, <2>3, <2>8 DEF SightingIsWatched
  <2>9. QED
    BY <1>2, <2>2, <2>4, <2>5, <2>6, <2>7, <2>8 DEF Next, JobStep, handleLocationUpdate,
       PostLocation
<1>3. QED
  BY <1>1, <1>2, PTL DEF Spec
-----------------------------------------------------------------------------
(* Offline drivers.                                                        *)

LEMMA AtMostOne ==
    ASSUME NEW W, IsFiniteSet(W), Cardinality(W) <= 1
    PROVE  \A x, y \in W : x = y
<1>1. SUFFICES ASSUME NEW x \in W, NEW y \in W, x # y PROVE FALSE
  OBVIOUS
<1>2. IsFiniteSet({x}) /\ Cardinality({x}) = 1
  BY FS_Singleton
<1>3. IsFiniteSet({x} \cup {y}) /\ Cardinality({x} \cup {y}) = 2
  <2>1. y \notin {x}
    BY <1>1
  <2>2. QED
    BY <1>2, <2>1, FS_AddElement, SMTT(30)
<1>4. Cardinality({x} \cup {y}) <= Cardinality(W)
  BY <1>1, FS_Subset
<1>5. Cardinality(W) \in Nat
  BY FS_CardinalityType
<1>6. QED
  BY <1>3, <1>4, <1>5

\* An overlap of writers is noticed where one of them begins.
LEMMA OverlapIsNoticed ==
    ASSUME Race PROVE raced' \/ OneWriter'
<1>1. SUFFICES ASSUME ~raced' PROVE OneWriter'
  OBVIOUS
<1>2. ~(Cardinality(Writers') > 1)
  BY <1>1, Zenon DEF Race
<1>3. IsFiniteSet(Jobs \cup Sockets)
  <2>1. IsFiniteSet({"http"})
    BY FS_Singleton
  <2>2. IsFiniteSet(Jobs)
    BY <2>1, FS_Union, PresenceAssumption DEF Jobs
  <2>3. QED
    BY <2>2, FS_Union, PresenceAssumption
<1>4. Writers' \subseteq Jobs \cup Sockets
  BY DEF Writers
<1>5. IsFiniteSet(Writers')
  BY <1>3, <1>4, FS_Subset
<1>6. Cardinality(Writers') <= 1
  BY <1>2, <1>5, FS_CardinalityType
<1>7. QED
  BY <1>5, <1>6, AtMostOne DEF OneWriter

\* A step that leaves the row and the jobs in Redis alone.
LEMMA Undisturbed ==
    ASSUME OfflineInv, row' = row, raced => raced', raced' \/ OneWriter',
           raced' \/ (hash' = "AVAILABLE" => hash = "AVAILABLE" \/ row = "AVAILABLE"),
           \A s \in Sockets : handler'[s] \in {"geo", "restore", "online"} =>
                   handler[s] \in {"geo", "restore", "online"} \/ row = "AVAILABLE",
           raced' \/ \A j \in Jobs : job'[j].pc = "redis" \/ job[j].pc = "redis" =>
                         job'[j] = job[j]
    PROVE  OfflineInv'
<1>1. SUFFICES ASSUME ~raced' PROVE OneWriter' /\ RowIsKnown' /\ HashFollowsRow'
  BY DEF OfflineInv
<1>2. RowIsKnown /\ HashFollowsRow
  BY <1>1 DEF OfflineInv
<1>3. RowIsKnown'
  BY <1>1, <1>2 DEF RowIsKnown
<1>4. HashFollowsRow'
  BY <1>1, <1>2 DEF HashFollowsRow
<1>5. QED
  BY <1>1, <1>3, <1>4

\* No writer comes, and no hash of an offline driver becomes AVAILABLE.
LEMMA NoNewWriter ==
    ASSUME OfflineInv, row' = row, raced' = raced,
           raced \/ (hash' = "AVAILABLE" => hash = "AVAILABLE" \/ row = "AVAILABLE"),
           \A s \in Sockets : handler'[s] \in {"geo", "restore", "online"} =>
                   handler[s] \in {"geo", "restore", "online"},
           \A j \in Jobs : job'[j].pc \in {"save", "redis"} \/ job[j].pc = "redis" =>
                   job'[j] = job[j]
    PROVE  OfflineInv'
<1>1. Writers' \subseteq Writers
  BY DEF Writers
<1>2. raced' \/ OneWriter'
  BY <1>1 DEF OfflineInv, OneWriter
<1>3. QED
  BY <1>2, Undisturbed

\* The jobs of setAvailability and of the grace timers.
LEMMA JobOffline ==
    ASSUME TypeOK, OfflineInv, NEW j \in Jobs, NEW p \in Processes,
           NEW status \in {"AVAILABLE", "OFFLINE"},
           \/ CallAvailability(status) \/ SaveStatus(j) \/ ApplyStatus(j)
           \/ GraceEnds(p) \/ CheckOnline(p)
    PROVE  OfflineInv'
<1> "http" \in Jobs /\ p \in Jobs
  BY DEF Jobs
<1>1. CASE CallAvailability(status)
  <2>1. \A i \in Jobs : job'[i].pc = "redis" \/ job[i].pc = "redis" => job'[i] = job[i]
    BY <1>1 DEF CallAvailability, TypeOK
  <2>2. /\ row' = row /\ hash' = hash /\ handler' = handler
        /\ raced => raced'
    BY <1>1 DEF CallAvailability, Race, redisVars, socketVars
  <2>3. raced' \/ OneWriter'
    BY <1>1, OverlapIsNoticed DEF CallAvailability
  <2>4. QED
    BY <2>1, <2>2, <2>3, Undisturbed
<1>2. CASE SaveStatus(j)
  <2>1. SUFFICES ASSUME ~raced PROVE OneWriter' /\ RowIsKnown' /\ HashFollowsRow'
    BY <1>2 DEF OfflineInv, SaveStatus, seenVars
  <2>2. OneWriter /\ j \in Writers
    BY <1>2, <2>1 DEF OfflineInv, SaveStatus, Writers
  <2>3. handler' = handler /\ row' = job[j].to /\ job' = [job EXCEPT ![j].pc = "redis"]
    BY <1>2 DEF SaveStatus, socketVars
  <2>4. job'[j].pc = "redis" /\ job'[j].to = job[j].to /\ \A i \in Jobs \ {j} : job'[i] = job[i]
    BY <2>3 DEF TypeOK
  <2>5. OneWriter'
    BY <2>2, <2>3, <2>4 DEF OneWriter, Writers
  <2>6. \A s \in Sockets : handler[s] \notin {"geo", "restore", "online"}
    BY <2>2, PresenceAssumption DEF OneWriter, Writers, Jobs
  <2>7. \A i \in Jobs \ {j} : job[i].pc # "redis"
    BY <2>2 DEF OneWriter, Writers
  <2>8. QED
    BY <2>3, <2>4, <2>5, <2>6, <2>7 DEF RowIsKnown, HashFollowsRow
<1>3. CASE ApplyStatus(j)
  <2>1. SUFFICES ASSUME ~raced' PROVE OneWriter' /\ RowIsKnown' /\ HashFollowsRow'
    BY DEF OfflineInv
  <2>2. j \in Writers
    BY <1>3 DEF ApplyStatus, Writers
  <2>3. \A x \in Writers : x = j
    BY <1>3, <2>1, <2>2 DEF OfflineInv, OneWriter, ApplyStatus
  <2>4. /\ handler' = handler /\ row' = row
        /\ job'[j].pc = "idle" /\ \A i \in Jobs \ {j} : job'[i] = job[i]
    BY <1>3 DEF ApplyStatus, NoJob, TypeOK, socketVars
  <2>5. \A s \in Sockets : handler'[s] \notin {"geo", "restore", "online"}
    BY <2>3, <2>4, PresenceAssumption DEF Writers, Jobs
  <2>6. \A i \in Jobs : job'[i].pc \notin {"save", "redis"}
    BY <2>3, <2>4 DEF Writers
  <2>7. row = "OFFLINE" => hash' # "AVAILABLE"
    <3>1. CASE job[j].to = "AVAILABLE"
      BY <1>3, <2>1, <3>1 DEF ApplyStatus, OfflineInv, RowIsKnown
    <3>2. CASE job[j].to = "OFFLINE"
      BY <1>3, <3>2 DEF ApplyStatus, goOffline
    <3>3. QED
      BY <3>1, <3>2 DEF TypeOK
  <2>8. QED
    BY <2>4, <2>5, <2>6, <2>7 DEF OneWriter, Writers, RowIsKnown, HashFollowsRow
<1>4. CASE GraceEnds(p)
  <2>1. \A i \in Jobs : job'[i].pc \in {"save", "redis"} \/ job[i].pc = "redis" =>
            job'[i] = job[i]
    BY <1>4 DEF GraceEnds, TypeOK
  <2>2. QED
    BY <1>4, <2>1, NoNewWriter DEF GraceEnds, redisVars, socketVars, seenVars
<1>5. CASE CheckOnline(p)
  <2>1. \A i \in Jobs : job'[i].pc = "redis" \/ job[i].pc = "redis" => job'[i] = job[i]
    BY <1>5 DEF CheckOnline, NoJob, TypeOK
  <2>2. /\ row' = row /\ hash' = hash /\ handler' = handler
        /\ raced => raced'
    BY <1>5 DEF CheckOnline, Race, redisVars, socketVars
  <2>3. raced' \/ OneWriter'
    BY <1>5, OverlapIsNoticed DEF CheckOnline
  <2>4. QED
    BY <2>1, <2>2, <2>3, Undisturbed
<1>6. QED
  BY <1>1, <1>2, <1>3, <1>4, <1>5

\* Connections: one that reads the row AVAILABLE becomes a writer, and it is
\* for an AVAILABLE row that it restores the hash.
LEMMA SocketOffline ==
    ASSUME TypeOK, OfflineInv, NEW s \in Sockets, NEW p \in Processes,
           \/ Connect(s, p) \/ HandlerStep(s) \/ Refuse(s) \/ Drop(s)
    PROVE  OfflineInv'
<1>1. CASE Connect(s, p)
  BY <1>1, NoNewWriter DEF Connect, TypeOK, redisVars, seenVars
<1>2. CASE Refuse(s)
  BY <1>2, NoNewWriter DEF Refuse, TypeOK, redisVars, seenVars
<1>3. CASE Drop(s)
  BY <1>3, NoNewWriter DEF Drop, TypeOK, redisVars, seenVars
<1>4. CASE Authenticate(s)
  BY <1>4, NoNewWriter DEF Authenticate, TypeOK, redisVars, seenVars
<1>5. CASE ReadHash(s)
  BY <1>5, NoNewWriter DEF ReadHash, Goto, TypeOK, redisVars, seenVars
<1>6. CASE ReadRow(s)
  <2>1. \A t \in Sockets : handler'[t] \in {"geo", "restore", "online"} =>
            handler[t] \in {"geo", "restore", "online"} \/ row = "AVAILABLE"
    BY <1>6 DEF ReadRow, Goto, TypeOK
  <2>2. /\ row' = row /\ hash' = hash /\ job' = job
        /\ raced => raced'
    BY <1>6 DEF ReadRow, Race, redisVars
  <2>3. raced' \/ OneWriter'
    BY <1>6, OverlapIsNoticed DEF ReadRow
  <2>4. QED
    BY <2>1, <2>2, <2>3, Undisturbed
<1>7. CASE ReadGeo(s)
  BY <1>7, NoNewWriter DEF ReadGeo, Goto, TypeOK, redisVars, seenVars
<1>8. CASE RestoreHash(s) \/ ReturnOnline(s)
  <2>1. raced \/ row = "AVAILABLE"
    BY <1>8 DEF RestoreHash, ReturnOnline, OfflineInv, RowIsKnown
  <2>2. \A t \in Sockets : handler'[t] \in {"geo", "restore", "online"} =>
            handler[t] \in {"geo", "restore", "online"}
    BY <1>8 DEF RestoreHash, ReturnOnline, Goto, TypeOK
  <2>3. row' = row /\ job' = job /\ raced' = raced
    BY <1>8 DEF RestoreHash, ReturnOnline
  <2>4. QED
    BY <2>1, <2>2, <2>3, NoNewWriter
<1>9. CASE ExtendHash(s)
  BY <1>9, NoNewWriter DEF ExtendHash, Goto, TypeOK
<1>10. QED
  BY <1>1, <1>2, <1>3, <1>4, <1>5, <1>6, <1>7, <1>8, <1>9 DEF HandlerStep

\* The pipeline of a location keeps the status, and what a trip frees is
\* known to be so.
LEMMA OutsideOffline ==
    ASSUME TypeOK, OfflineInv,
           \/ UpdateLocation \/ Scan \/ Sweep \/ HeartbeatAges \/ HashExpires
           \/ Offer \/ AnswerOffer \/ MarkBusy \/ CancelTrip \/ CompleteTrip
    PROVE  OfflineInv'
<1>1. CASE CancelTrip
  BY <1>1 DEF CancelTrip, OfflineInv
<1>2. CASE ~CancelTrip
  <2>1. /\ row' = row /\ raced' = raced /\ handler' = handler /\ job' = job
    BY <1>2 DEF UpdateLocation, Scan, Sweep, HeartbeatAges, HashExpires, Offer, AnswerOffer,
       MarkBusy, CompleteTrip, socketVars, seenVars
  <2>2. hash' = "AVAILABLE" => hash = "AVAILABLE"
    BY <1>2 DEF UpdateLocation, LocationStatus, Scan, Sweep, goOffline, HeartbeatAges,
       HashExpires, Offer, AnswerOffer, MarkBusy, HSet, CompleteTrip, redisVars
  <2>3. QED
    BY <2>1, <2>2, NoNewWriter
<1>3. QED
  BY <1>1, <1>2

\* A writer that dies is noticed.
LEMMA CrashOffline ==
    ASSUME TypeOK, OfflineInv, NEW p \in Processes, Crash(p) PROVE OfflineInv'
<1>1. raced' \/ (~raced /\ Writers' = Writers)
  BY Zenon DEF Crash
<1>2. raced => raced'
  BY Zenon DEF Crash
<1>3. row' = row /\ hash' = hash
  BY DEF Crash, redisVars
<1>4. \A s \in Sockets : handler'[s] \in {"geo", "restore", "online"} =>
          handler[s] \in {"geo", "restore", "online"}
  BY DEF Crash, TypeOK
<1>5. \A j \in Jobs : job'[j] = NoJob \/ job'[j] = job[j]
  BY DEF Crash
<1>6. raced' \/ \A j \in Jobs : job'[j].pc = "redis" \/ job[j].pc = "redis" =>
          job'[j] = job[j]
  <2>1. SUFFICES ASSUME ~raced', NEW j \in Jobs,
                        job'[j].pc = "redis" \/ job[j].pc = "redis"
                 PROVE  job'[j] = job[j]
    OBVIOUS
  <2>2. j \notin Sockets
    BY PresenceAssumption DEF Jobs
  <2>3. job[j].pc = "redis" => job'[j].pc \in {"save", "redis"}
    BY <1>1, <2>1, <2>2 DEF Writers
  <2>4. QED
    BY <1>5, <2>1, <2>3 DEF NoJob
<1>7. raced' \/ OneWriter'
  BY <1>1 DEF OfflineInv, OneWriter
<1>8. QED
  BY <1>2, <1>3, <1>4, <1>6, <1>7, Undisturbed

LEMMA OfflineStep == TypeOK /\ OfflineInv /\ [Next]_vars => OfflineInv'
<1>1. SUFFICES ASSUME TypeOK, OfflineInv, [Next]_vars PROVE OfflineInv'
  OBVIOUS
<1>2. CASE UNCHANGED vars
  BY <1>1, <1>2, NoNewWriter DEF vars, redisVars, socketVars, seenVars
<1>3. PICK p \in Processes : TRUE
  BY PresenceAssumption
<1>4. "AVAILABLE" \in {"AVAILABLE", "OFFLINE"} /\ p \in Jobs
  BY DEF Jobs
<1>5. QED
  BY <1>1, <1>2, <1>3, <1>4, JobOffline, SocketOffline, OutsideOffline, CrashOffline
     DEF Next, JobStep, handleLocationUpdate, PostLocation

\* An offline driver is on offer only while the call that wrote the row has
\* not reached Redis, whatever connections, locations, the cron and trips do
\* at the same time; every exception is one that raced names
\* (DriverService.setAvailability).
THEOREM OfflineStaysOff == Spec => []OfflineIsNotOffered
<1>1. Init => OfflineInv
  BY DEF Init, OfflineInv, OneWriter, Writers, RowIsKnown, HashFollowsRow, NoJob
<1>2. OfflineInv => OfflineIsNotOffered
  BY DEF OfflineInv, HashFollowsRow, OfflineIsNotOffered, Offerable
<1>3. QED
  BY <1>1, <1>2, OfflineStep, TypeCorrect, PTL DEF Spec
-----------------------------------------------------------------------------
(* Grace timers.                                                           *)

\* A step that clears and starts no timer and connects nobody.
LEMMA StillApart ==
    ASSUME TimerInv, several' = several, timers' = timers, tracked' = tracked, home' = home,
           alive' \subseteq alive,
           \A s \in Sockets : handler[s] = "idle" /\ s \notin alive => handler'[s] = "idle",
           \A s \in alive' : handler[s] = "auth" => handler'[s] = "auth"
    PROVE  TimerInv'
<1>1. SUFFICES ASSUME ~several
               PROVE  OneConnection' /\ TimersAreTracked' /\ TimersAreCleared'
  BY DEF TimerInv
<1>2. OneConnection /\ TimersAreTracked /\ TimersAreCleared
  BY <1>1 DEF TimerInv
<1>3. OneConnection'
  BY <1>2 DEF OneConnection, InUse
<1>4. TimersAreTracked' /\ TimersAreCleared'
  BY <1>2 DEF TimersAreTracked, TimersAreCleared
<1>5. QED
  BY <1>3, <1>4

\* Connections: the one that comes clears the timer of its process, the one
\* that goes starts it.
LEMMA SocketTimers ==
    ASSUME TypeOK, TimerInv, NEW s \in Sockets, NEW p \in Processes,
           \/ Connect(s, p) \/ HandlerStep(s) \/ Refuse(s) \/ Drop(s)
    PROVE  TimerInv'
<1>1. CASE Connect(s, p)
  <2>1. SUFFICES ASSUME ~several'
                 PROVE  OneConnection' /\ TimersAreTracked' /\ TimersAreCleared'
    BY DEF TimerInv
  <2>2. /\ ~several /\ alive = {}
        /\ \A t \in Sockets : handler[t] = "idle"
    BY <1>1, <2>1, Zenon DEF Connect
  <2>3. TimersAreTracked
    BY <2>2 DEF TimerInv
  <2>4. /\ alive' = {s} /\ handler' = [handler EXCEPT ![s] = "auth"]
        /\ home' = [home EXCEPT ![s] = p] /\ timers' = timers /\ tracked' = tracked
    BY <1>1, <2>2 DEF Connect, timerVars
  <2>5. handler'[s] = "auth" /\ home'[s] = p /\ \A t \in Sockets \ {s} : handler'[t] = "idle"
    BY <2>2, <2>4 DEF TypeOK
  <2>6. OneConnection'
    BY <2>4, <2>5 DEF OneConnection, InUse
  <2>7. TimersAreTracked'
    BY <2>3, <2>4 DEF TimersAreTracked
  <2>8. TimersAreCleared'
    BY <2>2, <2>4, <2>5 DEF TimersAreCleared
  <2>9. QED
    BY <2>6, <2>7, <2>8
<1>2. CASE Refuse(s)
  <2>1. \A t \in Sockets : t # s => handler'[t] = handler[t]
    BY <1>2 DEF Refuse, TypeOK
  <2>2. handler'[s] = "idle" /\ s \notin alive'
    BY <1>2 DEF Refuse, TypeOK
  <2>3. QED
    BY <1>2, <2>1, <2>2, StillApart DEF Refuse, TypeOK, timerVars
<1>3. CASE Authenticate(s)
  <2>1. SUFFICES ASSUME ~several
                 PROVE  OneConnection' /\ TimersAreTracked' /\ TimersAreCleared'
    BY <1>3 DEF TimerInv, Authenticate
  <2>2. OneConnection /\ TimersAreTracked /\ TimersAreCleared
    BY <2>1 DEF TimerInv
  <2> DEFINE q == home[s]
  <2>3. /\ q \in Processes /\ handler[s] = "auth"
        /\ alive' = alive /\ home' = home /\ tracked' = tracked \ {q}
        /\ handler' = [handler EXCEPT ![s] = "hash"]
        /\ timers' = [timers EXCEPT ![q] = timers[q] - (IF q \in tracked THEN 1 ELSE 0)]
    BY <1>3 DEF Authenticate, ClearTimer, DeleteEntry, TypeOK
  <2>4. \A t \in Sockets : InUse(t)' => InUse(t)
    BY <2>3 DEF InUse, TypeOK
  <2>5. timers'[q] = 0 /\ \A r \in Processes \ {q} : timers'[r] = timers[r]
    <3>1. timers[q] \in Nat /\ timers[q] <= 1 /\ (timers[q] > 0 => q \in tracked)
      BY <2>2, <2>3 DEF TimersAreTracked, TypeOK
    <3>2. timers[q] > 0 <=> q \in tracked
      BY <3>1 DEF TypeOK
    <3>3. QED
      BY <2>3, <3>1, <3>2 DEF TypeOK
  <2> HIDE DEF q
  <2>6. OneConnection'
    BY <2>2, <2>4 DEF OneConnection
  <2>7. TimersAreTracked'
    BY <2>2, <2>3, <2>5 DEF TimersAreTracked
  <2>8. TimersAreCleared'
    <3>1. \A t \in alive : t = s
      BY <2>2, <2>3 DEF OneConnection, InUse, TypeOK
    <3>2. home'[s] = q /\ ~(timers'[q] > 0)
      BY <2>3, <2>5 DEF q
    <3>3. QED
      BY <2>3, <3>1, <3>2 DEF TimersAreCleared
  <2>9. QED
    BY <2>6, <2>7, <2>8
<1>4. CASE Drop(s)
  <2>1. SUFFICES ASSUME ~several
                 PROVE  OneConnection' /\ TimersAreTracked' /\ TimersAreCleared'
    BY <1>4 DEF TimerInv, Drop
  <2>2. OneConnection /\ TimersAreTracked /\ TimersAreCleared
    BY <2>1 DEF TimerInv
  <2>3. s \in alive /\ alive' = alive \ {s} /\ handler' = handler /\ home' = home
    BY <1>4 DEF Drop
  <2>4. alive' = {}
    BY <2>2, <2>3 DEF OneConnection, InUse, TypeOK
  <2>5. OneConnection'
    BY <2>2, <2>3 DEF OneConnection, InUse
  <2>6. TimersAreTracked'
    <3>1. CASE handler[s] = "auth"
      BY <1>4, <2>2, <3>1 DEF Drop, timerVars, TimersAreTracked
    <3>2. CASE handler[s] # "auth"
      <4> DEFINE q == home[s]
      <4>1. q \in Processes /\ timers[q] \in Nat /\ ~(timers[q] > 0)
        BY <2>2, <2>3, <3>2 DEF TimersAreCleared, TypeOK
      <4>2. timers' = [timers EXCEPT ![q] = timers[q] + 1] /\ tracked' = tracked \cup {q}
        BY <1>4, <3>2 DEF Drop
      <4>3. timers'[q] = 1 /\ \A r \in Processes \ {q} : timers'[r] = timers[r]
        BY <4>1, <4>2 DEF TypeOK
      <4> HIDE DEF q
      <4>4. QED
        BY <2>2, <4>1, <4>2, <4>3 DEF TimersAreTracked
    <3>3. QED
      BY <3>1, <3>2
  <2>7. QED
    BY <2>4, <2>5, <2>6 DEF TimersAreCleared
<1>5. CASE ReadHash(s) \/ ReadRow(s) \/ ReadGeo(s) \/ RestoreHash(s) \/ ExtendHash(s)
           \/ ReturnOnline(s)
  <2>1. /\ handler[s] # "auth" /\ handler[s] # "idle"
        /\ \A t \in Sockets : t # s => handler'[t] = handler[t]
    BY <1>5 DEF ReadHash, ReadRow, ReadGeo, RestoreHash, ExtendHash, ReturnOnline, Goto, TypeOK
  <2>2. /\ several' = several /\ timers' = timers /\ tracked' = tracked
        /\ home' = home /\ alive' = alive
    BY <1>5 DEF ReadHash, ReadRow, ReadGeo, RestoreHash, ExtendHash, ReturnOnline, timerVars
  <2>3. QED
    BY <2>1, <2>2, StillApart DEF TypeOK
<1>6. QED
  BY <1>1, <1>2, <1>3, <1>4, <1>5 DEF HandlerStep

LEMMA GraceTimers ==
    ASSUME TypeOK, TimerInv, NEW p \in Processes, GraceEnds(p) PROVE TimerInv'
<1>1. SUFFICES ASSUME ~several
               PROVE  OneConnection' /\ TimersAreTracked' /\ TimersAreCleared'
  BY DEF TimerInv, GraceEnds, socketVars
<1>2. OneConnection /\ TimersAreTracked /\ TimersAreCleared
  BY <1>1 DEF TimerInv
<1>3. /\ timers[p] > 0 /\ timers' = [timers EXCEPT ![p] = timers[p] - 1]
      /\ tracked' = tracked \ {p}
      /\ alive' = alive /\ handler' = handler /\ home' = home
  BY DEF GraceEnds, DeleteEntry, socketVars
<1>4. timers'[p] = 0 /\ \A q \in Processes \ {p} : timers'[q] = timers[q]
  BY <1>2, <1>3 DEF TimersAreTracked, TypeOK
<1>5. OneConnection'
  BY <1>2, <1>3 DEF OneConnection, InUse
<1>6. TimersAreTracked'
  BY <1>2, <1>3, <1>4 DEF TimersAreTracked
<1>7. TimersAreCleared'
  BY <1>2, <1>3, <1>4 DEF TimersAreCleared
<1>8. QED
  BY <1>5, <1>6, <1>7

LEMMA CrashTimers ==
    ASSUME TypeOK, TimerInv, NEW p \in Processes, Crash(p) PROVE TimerInv'
<1>1. SUFFICES ASSUME ~several
               PROVE  OneConnection' /\ TimersAreTracked' /\ TimersAreCleared'
  BY DEF TimerInv, Crash
<1>2. OneConnection /\ TimersAreTracked /\ TimersAreCleared
  BY <1>1 DEF TimerInv
<1>3. /\ alive' = {s \in alive : home[s] # p} /\ home' = home
      /\ \A s \in Sockets : handler'[s] = IF home[s] # p THEN handler[s] ELSE "idle"
      /\ tracked' = tracked \ {p} /\ timers' = [timers EXCEPT ![p] = 0]
  BY DEF Crash
<1>4. timers'[p] = 0 /\ \A q \in Processes \ {p} : timers'[q] = timers[q]
  BY <1>3 DEF TypeOK
<1>5. \A s \in Sockets : InUse(s)' => InUse(s)
  BY <1>3 DEF InUse
<1>6. OneConnection'
  BY <1>2, <1>5 DEF OneConnection
<1>7. TimersAreTracked'
  BY <1>2, <1>3, <1>4 DEF TimersAreTracked
<1>8. TimersAreCleared'
  BY <1>2, <1>3, <1>4 DEF TimersAreCleared, TypeOK
<1>9. QED
  BY <1>6, <1>7, <1>8

LEMMA TimerStep == TypeOK /\ TimerInv /\ [Next]_vars => TimerInv'
<1>1. SUFFICES ASSUME TypeOK, TimerInv, [Next]_vars PROVE TimerInv'
  OBVIOUS
<1>2. CASE UNCHANGED <<socketVars, timerVars>>
  BY <1>1, <1>2, StillApart DEF socketVars, timerVars
<1>3. CASE \/ \E status \in {"AVAILABLE", "OFFLINE"} : CallAvailability(status)
           \/ \E j \in Jobs : JobStep(j)
           \/ \E p \in Processes : CheckOnline(p)
  BY <1>2, <1>3 DEF CallAvailability, JobStep, SaveStatus, ApplyStatus, CheckOnline
<1>4. CASE \/ UpdateLocation \/ Scan \/ Sweep \/ HeartbeatAges \/ HashExpires
           \/ Offer \/ AnswerOffer \/ MarkBusy \/ CancelTrip \/ CompleteTrip
  BY <1>2, <1>4 DEF UpdateLocation, Scan, Sweep, HeartbeatAges, HashExpires, Offer,
     AnswerOffer, MarkBusy, CancelTrip, CompleteTrip
<1>5. CASE UNCHANGED vars
  BY <1>2, <1>5 DEF vars
<1>6. PICK p \in Processes : TRUE
  BY PresenceAssumption
<1>7. QED
  BY <1>1, <1>3, <1>4, <1>5, <1>6, SocketTimers, GraceTimers, CrashTimers
     DEF Next, handleLocationUpdate, PostLocation

\* A driver who never had two connections at a time has no timer left in the
\* process of the connection: through every reconnect, to whatever process,
\* its map knew every timer of its own (DriverGateway.handleConnection). The
\* timers of other processes are not promised to be gone.
THEOREM ConnectedIsNotTimed == Spec => []TimerMeansGone
<1>1. Init => TimerInv
  BY DEF Init, TimerInv, OneConnection, InUse, TimersAreTracked, TimersAreCleared
<1>2. TypeOK /\ TimerInv => TimerMeansGone
  BY DEF TypeOK, TimerInv, TimersAreCleared, TimerMeansGone
<1>3. QED
  BY <1>1, <1>2, TimerStep, TypeCorrect, PTL DEF Spec
=============================================================================
