--------------------------- MODULE DriverPresence ---------------------------
(***************************************************************************)
(* What the system believes about one driver: the drivers row, the         *)
(* driver:status hash, the member of drivers:geo and the member of         *)
(* drivers:heartbeat. Drivers share none of it, so one driver is enough.   *)
(*                                                                         *)
(* DriverService.setAvailability and refreshRedisPresence, the connections *)
(* and grace timers of DriverGateway, LocationService.updateLocation and   *)
(* the StaleDriverCleanupService cron write it; MatchingService and        *)
(* TripService.cancelTrip write the hash.                                  *)
(*                                                                         *)
(* A handler is a sequence of steps that end at an await. The commands of  *)
(* one pipeline, and of goOnline and goOffline, which send theirs on one   *)
(* connection before they wait, are one step. The driver has a vehicle;    *)
(* a call that is refused before its first write is no call here, and the  *)
(* row has coordinates to fall back on or not. Time is what may expire:    *)
(* thirty seconds of grace, the thirty minutes of the hash and the five of *)
(* a heartbeat end at any moment, in any order.                            *)
(***************************************************************************)
EXTENDS Naturals, FiniteSets

CONSTANTS Sockets, Processes,
          MaxActs   \* bound: connections, calls, locations, offers and crashes

ASSUME PresenceAssumption ==
    /\ IsFiniteSet(Processes) /\ IsFiniteSet(Sockets) /\ Processes # {}
    /\ Processes \cap Sockets = {} /\ "http" \notin Processes \cup Sockets
    /\ MaxActs \in Nat

VARIABLES
    row,         \* status of the drivers row
    hash,        \* status in driver:status, "blank" when the hash has none
    expiring,    \* the hash has a time to live
    geo,         \* the driver is a member of drivers:geo
    heartbeat,   \* age of the driver's member of drivers:heartbeat
    alive,       \* sockets that are connected
    home,        \* the process of each socket
    handler,     \* progress of handleConnection for each socket
    timers,      \* grace timers that run in each process
    tracked,     \* processes whose disconnectTimers has an entry
    job,         \* setAvailability, for the HTTP call and each grace timer
    scan,        \* cleanupStaleDrivers has read the driver as stale
    trip,        \* what matching and the trip do with the driver
    raced,       \* two writers overlapped, or one died, since the last offline
    leaked,      \* the hash was made without a time to live
    sighted,     \* the member of drivers:geo has been set by a location
    several,     \* the driver connected while an earlier connection lived, or
                 \* was still being handled
    acts         \* counted against the bound

redisVars == <<hash, expiring, geo, heartbeat>>
socketVars == <<alive, home, handler, several>>
timerVars == <<timers, tracked>>
seenVars == <<raced, leaked, sighted>>
vars == <<row, redisVars, socketVars, timerVars, job, scan, trip,
          seenVars, acts>>
-----------------------------------------------------------------------------
Jobs == Processes \cup {"http"}

NoJob == [pc |-> "idle", to |-> "OFFLINE"]

TypeOK ==
    /\ row \in {"AVAILABLE", "OFFLINE"}
    /\ hash \in {"none", "blank", "AVAILABLE", "BUSY"}
    /\ expiring \in BOOLEAN /\ (hash = "none" => ~expiring)
    /\ geo \in BOOLEAN /\ scan \in BOOLEAN
    /\ heartbeat \in {"none", "fresh", "stale"}
    /\ alive \subseteq Sockets
    /\ home \in [Sockets -> Processes]
    /\ handler \in [Sockets ->
           {"idle", "auth", "hash", "row", "geo", "restore", "expire", "online"}]
    /\ timers \in [Processes -> Nat]
    /\ tracked \subseteq Processes /\ (\A p \in tracked : timers[p] > 0)
    /\ job \in [Jobs -> [pc : {"idle", "check", "save", "redis"},
                         to : {"AVAILABLE", "OFFLINE"}]]
    /\ trip \in {"none", "offered", "assigned", "riding"}
    /\ raced \in BOOLEAN /\ leaked \in BOOLEAN
    /\ sighted \in BOOLEAN /\ several \in BOOLEAN
    /\ acts \in Nat

\* A driver whose profile was just created. No socket has been used: which
\* process it will reach does not matter before it connects.
Init ==
    /\ row = "OFFLINE"
    /\ hash = "none" /\ expiring = FALSE /\ geo = FALSE
    /\ heartbeat = "none"
    /\ alive = {} /\ home = [s \in Sockets |-> CHOOSE p \in Processes : TRUE]
    /\ handler = [s \in Sockets |-> "idle"]
    /\ timers = [p \in Processes |-> 0] /\ tracked = {}
    /\ job = [j \in Jobs |-> NoJob]
    /\ scan = FALSE /\ trip = "none"
    /\ raced = FALSE /\ leaked = FALSE
    /\ sighted = FALSE /\ several = FALSE
    /\ acts = 0

\* Matching offers rides to members of drivers:geo whose hash is AVAILABLE.
Offerable == geo /\ hash = "AVAILABLE"

\* Who is about to write the row or, from what the row said, the hash.
Writers == {j \in Jobs : job[j].pc \in {"save", "redis"}} \cup
           {s \in Sockets : handler[s] \in {"geo", "restore", "online"}}

\* What drivers, workers and failures do of their own accord.
Act == acts < MaxActs /\ acts' = acts + 1

Race == raced' = (raced \/ Cardinality(Writers') > 1)
-----------------------------------------------------------------------------
(* The writes of DriverService to Redis.                                   *)

\* HSET gives a new key no time to live and keeps that of an old one.
HSet(status) ==
    /\ hash' = status
    /\ leaked' = (leaked \/ hash = "none")
    /\ UNCHANGED expiring

\* EXPIRE of driver:status does nothing without the key.
Expire == /\ expiring' = (hash # "none")
          /\ leaked' = (leaked /\ hash = "none")

FaultGoOnline ==
    /\ geo' = TRUE /\ hash' = "AVAILABLE" /\ expiring' = expiring
    /\ leaked' = FALSE /\ UNCHANGED sighted

goOnline ==
    /\ geo' = TRUE
    /\ hash' = "AVAILABLE"
    /\ expiring' = TRUE
    /\ leaked' = FALSE /\ UNCHANGED sighted

FaultGoOffline ==
    /\ geo' = geo /\ hash' = hash /\ UNCHANGED <<expiring, leaked>>
    /\ sighted' = sighted

goOffline ==
    /\ geo' = FALSE
    /\ hash' = "none"
    /\ expiring' = FALSE
    /\ leaked' = FALSE /\ sighted' = FALSE
-----------------------------------------------------------------------------
(* DriverService.setAvailability: the row, then Redis.                     *)

\* POST drivers/me/availability: reads the profile and checks the vehicle.
CallAvailability(status) ==
    /\ Act /\ job["http"].pc = "idle"
    /\ job' = [job EXCEPT !["http"] = [pc |-> "save", to |-> status]]
    /\ UNCHANGED <<row, redisVars, socketVars, timerVars, scan, trip,
                   leaked, sighted>>
    /\ Race

\* save(driver).
SaveStatus(j) ==
    /\ job[j].pc = "save"
    /\ row' = job[j].to
    /\ job' = [job EXCEPT ![j].pc = "redis"]
    /\ UNCHANGED <<redisVars, socketVars, timerVars, scan, trip,
                   seenVars, acts>>

\* goOnline or goOffline. An offline that nobody interferes with settles
\* what earlier writers left behind.
ApplyStatus(j) ==
    /\ job[j].pc = "redis"
    /\ \/ job[j].to = "AVAILABLE" /\ goOnline /\ UNCHANGED raced
       \/ job[j].to = "OFFLINE" /\ goOffline
          /\ raced' = (raced /\ Writers # {j})
    /\ job' = [job EXCEPT ![j] = NoJob]
    /\ UNCHANGED <<row, heartbeat, socketVars, timerVars, scan, trip,
                   acts>>
-----------------------------------------------------------------------------
(* DriverGateway: connections and the grace timer.                         *)

\* A socket connects and handleConnection verifies its token.
Connect(s, p) ==
    /\ Act /\ s \notin alive /\ handler[s] = "idle"
    /\ alive' = alive \cup {s} /\ home' = [home EXCEPT ![s] = p]
    /\ handler' = [handler EXCEPT ![s] = "auth"]
    /\ several' = (several \/ alive # {} \/ \E t \in Sockets : handler[t] # "idle")
    /\ UNCHANGED <<row, redisVars, timerVars, job, scan, trip,
                   seenVars>>

\* Not the token of a driver: the server closes the socket.
Refuse(s) ==
    /\ handler[s] = "auth"
    /\ handler' = [handler EXCEPT ![s] = "idle"]
    /\ alive' = alive \ {s}
    /\ UNCHANGED <<row, redisVars, home, several, timerVars, job,
                   scan, trip, seenVars, acts>>

FaultDeleteEntry(p) == tracked' = tracked

\* The removal of the driver's entry from the map.
DeleteEntry(p) == tracked' = tracked \ {p}

FaultClearTimer(p) == timers' = timers /\ DeleteEntry(p)

\* clearTimeout of the timer in the map.
ClearTimer(p) ==
    /\ timers' = [timers EXCEPT ![p] = @ - (IF p \in tracked THEN 1 ELSE 0)]
    /\ DeleteEntry(p)

\* The token is a driver's: the timer is cleared, the profile is read and
\* the socket joins its room, which it does even if it has been closed.
Authenticate(s) ==
    /\ handler[s] = "auth"
    /\ ClearTimer(home[s])
    /\ handler' = [handler EXCEPT ![s] = "hash"]
    /\ UNCHANGED <<row, redisVars, alive, home, several, job, scan,
                   trip, seenVars, acts>>

\* handleDisconnect: a timer replaces the one in the map, which runs on. A
\* socket that is still being authenticated has no user and gets no timer.
Drop(s) ==
    /\ s \in alive
    /\ alive' = alive \ {s}
    /\ IF handler[s] = "auth" THEN UNCHANGED timerVars
       ELSE /\ timers' = [timers EXCEPT ![home[s]] = @ + 1]
            /\ tracked' = tracked \cup {home[s]}
    /\ UNCHANGED <<row, redisVars, home, handler, several, job, scan,
                   trip, seenVars, acts>>

\* A timer fires: its callback empties the map's entry, whoever's it is.
GraceEnds(p) ==
    /\ timers[p] > 0 /\ job[p].pc = "idle"
    /\ timers' = [timers EXCEPT ![p] = @ - 1]
    /\ DeleteEntry(p)
    /\ job' = [job EXCEPT ![p].pc = "check"]
    /\ UNCHANGED <<row, redisVars, socketVars, scan, trip, seenVars,
                   acts>>

\* The callback reads the row and leaves an offline driver alone.
CheckOnline(p) ==
    /\ job[p].pc = "check"
    /\ job' = [job EXCEPT ![p] = IF row = "OFFLINE" THEN NoJob
                                 ELSE [pc |-> "save", to |-> "OFFLINE"]]
    /\ UNCHANGED <<row, redisVars, socketVars, timerVars, scan, trip,
                   leaked, sighted, acts>>
    /\ Race
-----------------------------------------------------------------------------
(* DriverService.refreshRedisPresence, the end of handleConnection.        *)

Goto(s, pc) == handler' = [handler EXCEPT ![s] = pc]

\* HGETALL: an AVAILABLE driver gets a longer time to live and no more.
ReadHash(s) ==
    /\ handler[s] = "hash"
    /\ Goto(s, IF hash = "AVAILABLE" THEN "expire" ELSE "row")
    /\ UNCHANGED <<row, redisVars, alive, home, several, timerVars,
                   job, scan, trip, seenVars, acts>>

\* The row of a driver who is not online ends the refresh.
ReadRow(s) ==
    /\ handler[s] = "row"
    /\ Goto(s, IF row = "AVAILABLE" THEN "geo" ELSE "idle")
    /\ UNCHANGED <<row, redisVars, alive, home, several, timerVars,
                   job, scan, trip, leaked, sighted, acts>>
    /\ Race

\* GEOPOS: a driver in the index keeps the place, another one takes that of
\* the row, if it has one.
ReadGeo(s) ==
    /\ handler[s] = "geo"
    /\ \E next \in IF geo THEN {"restore"} ELSE {"online", "idle"} : Goto(s, next)
    /\ UNCHANGED <<row, redisVars, alive, home, several, timerVars,
                   job, scan, trip, seenVars, acts>>

\* HSET of the whole hash, whatever status it has by now.
RestoreHash(s) ==
    /\ handler[s] = "restore"
    /\ HSet("AVAILABLE")
    /\ Goto(s, "expire")
    /\ UNCHANGED <<row, geo, heartbeat, alive, home, several,
                   timerVars, job, scan, trip, raced, sighted, acts>>

\* EXPIRE, for the hash that was found or restored.
ExtendHash(s) ==
    /\ handler[s] = "expire"
    /\ Expire /\ Goto(s, "idle")
    /\ UNCHANGED <<row, hash, geo, heartbeat, alive, home, several,
                   timerVars, job, scan, trip, raced, sighted,
                   acts>>

ReturnOnline(s) ==
    /\ handler[s] = "online"
    /\ goOnline /\ Goto(s, "idle")
    /\ UNCHANGED <<row, heartbeat, alive, home, several, timerVars,
                   job, scan, trip, raced, acts>>
-----------------------------------------------------------------------------
(* Locations.                                                              *)

FaultLocationStatus == "AVAILABLE"

\* The fields the pipeline sets are not the status.
LocationStatus == IF hash = "none" THEN "blank" ELSE hash

\* The pipeline of LocationService.updateLocation.
UpdateLocation ==
    /\ Act
    /\ geo' = TRUE /\ heartbeat' = "fresh"
    /\ hash' = LocationStatus /\ expiring' = TRUE
    /\ leaked' = FALSE /\ sighted' = TRUE
    /\ UNCHANGED <<row, socketVars, timerVars, job, scan, trip, raced>>

\* POST drivers/location needs no connection.
PostLocation == UpdateLocation

\* A location on a socket whose user is known.
handleLocationUpdate(s) ==
    /\ s \in alive /\ handler[s] # "auth"
    /\ UpdateLocation

\* cleanupStaleDrivers reads the stale members, this driver among them.
Scan ==
    /\ ~scan /\ heartbeat = "stale" /\ scan' = TRUE
    /\ UNCHANGED <<row, redisVars, socketVars, timerVars, job, trip, seenVars,
                   acts>>

\* The pipeline of the cron evicts whom it read, seen again or not, and
\* removes the heartbeats up to the cutoff of the read.
Sweep ==
    /\ scan /\ scan' = FALSE
    /\ goOffline
    /\ heartbeat' = IF heartbeat = "stale" THEN "none" ELSE heartbeat
    /\ UNCHANGED <<row, socketVars, timerVars, job, trip, raced, acts>>

\* Five minutes without a location. A scan takes less.
HeartbeatAges ==
    /\ heartbeat = "fresh" /\ ~scan /\ heartbeat' = "stale"
    /\ UNCHANGED <<row, hash, expiring, geo, socketVars, timerVars,
                   job, scan, trip, seenVars, acts>>

\* Thirty minutes after the last EXPIRE.
HashExpires ==
    /\ expiring /\ hash' = "none" /\ expiring' = FALSE /\ leaked' = FALSE
    /\ UNCHANGED <<row, geo, heartbeat, socketVars, timerVars, job,
                   scan, trip, raced, sighted, acts>>
-----------------------------------------------------------------------------
(* Matching and trips write the status and no other field.                 *)

Offer ==
    /\ Act /\ Offerable /\ trip = "none"
    /\ trip' = "offered"
    /\ UNCHANGED <<row, redisVars, socketVars, timerVars, job, scan,
                   seenVars>>

\* The driver accepts and the transaction commits, or the offer ends.
AnswerOffer ==
    /\ trip = "offered" /\ trip' \in {"assigned", "none"}
    /\ UNCHANGED <<row, redisVars, socketVars, timerVars, job, scan,
                   seenVars, acts>>

\* MatchingService.offerRide marks the driver.
MarkBusy ==
    /\ trip = "assigned" /\ trip' = "riding"
    /\ HSet("BUSY")
    /\ UNCHANGED <<row, geo, heartbeat, socketVars, timerVars, job,
                   scan, raced, sighted, acts>>

\* TripService.cancelTrip frees the driver, online or not.
CancelTrip ==
    /\ trip = "riding" /\ trip' = "none"
    /\ HSet("AVAILABLE") /\ raced' = TRUE
    /\ UNCHANGED <<row, geo, heartbeat, socketVars, timerVars, job,
                   scan, sighted, acts>>

\* The consumer of trip.completed frees the key of another id (see
\* TripLifecycle).
CompleteTrip ==
    /\ trip = "riding" /\ trip' = "none"
    /\ UNCHANGED <<row, redisVars, socketVars, timerVars, job, scan,
                   seenVars, acts>>

\* An API process dies with its sockets, its timers and the calls it runs,
\* the HTTP call and the scan among them or not.
Crash(p) ==
    /\ Act
    /\ alive' = {s \in alive : home[s] # p}
    /\ handler' = [s \in Sockets |-> IF home[s] # p THEN handler[s]
                                     ELSE "idle"]
    /\ timers' = [timers EXCEPT ![p] = 0] /\ tracked' = tracked \ {p}
    /\ \E dead \in {{p}, {p, "http"}} :
           job' = [j \in Jobs |-> IF j \in dead THEN NoJob ELSE job[j]]
    /\ scan' \in {scan, FALSE}
    /\ raced' = (raced \/ Writers' # Writers)
    /\ UNCHANGED <<row, redisVars, home, several, trip, leaked, sighted>>
-----------------------------------------------------------------------------
JobStep(j) == SaveStatus(j) \/ ApplyStatus(j)

HandlerStep(s) == \/ Authenticate(s) \/ ReadHash(s) \/ ReadRow(s) \/ ReadGeo(s)
                  \/ RestoreHash(s) \/ ExtendHash(s) \/ ReturnOnline(s)

Next ==
    \/ \E status \in {"AVAILABLE", "OFFLINE"} : CallAvailability(status)
    \/ \E j \in Jobs : JobStep(j)
    \/ \E s \in Sockets : \/ HandlerStep(s) \/ Refuse(s) \/ Drop(s)
                          \/ handleLocationUpdate(s)
    \/ \E s \in Sockets, p \in Processes : Connect(s, p)
    \/ \E p \in Processes : GraceEnds(p) \/ CheckOnline(p) \/ Crash(p)
    \/ PostLocation \/ Scan \/ Sweep \/ HeartbeatAges
    \/ HashExpires \/ Offer \/ AnswerOffer \/ MarkBusy \/ CancelTrip
    \/ CompleteTrip

Spec == Init /\ [][Next]_vars

\* The cron runs every minute and time passes. Nobody has to connect, to call
\* or to drive, and no call, handler or grace timer has to come to its end:
\* the process it runs in may hang.
FairSpec ==
    /\ Spec
    /\ WF_vars(Scan) /\ WF_vars(Sweep)
    /\ WF_vars(HeartbeatAges) /\ WF_vars(HashExpires)
-----------------------------------------------------------------------------
\* A driver who is gone does not stay on offer: whichever of the grace timer,
\* the time to live and the cron is lost or late, another one removes the
\* driver. The one way out is a hash that a trip or an interrupted refresh
\* made without a time to live, of a driver without a heartbeat
\* (driver.gateway.ts:75, driver.service.ts:205, stale-driver.cron.ts:16).
GoneIsNotOffered ==
    (Offerable /\ alive = {})
        ~> (~Offerable \/ alive # {} \/ (leaked /\ heartbeat = "none"))

\* Who went offline is not on offer, unless the writers of the row and the
\* hash overlapped, one of them died half way, or a trip freed the driver
\* after that; location updates in particular put nobody back on offer
\* (driver.service.ts:98, location.service.ts:54).
OfflineIsNotOffered ==
    (row = "OFFLINE" /\ Offerable)
        => raced \/ \E j \in Jobs : job[j].pc = "redis"

\* A place that a location update gave to the index is under the watch of
\* the cron for as long as it is there (location.service.ts:63,
\* stale-driver.cron.ts:39).
SightingIsWatched == sighted => heartbeat # "none"

\* A driver with one connection at a time has no grace timer running in the
\* process of that connection, through any number of disconnects, reconnects
\* to this and other processes, firings and crashes (driver.gateway.ts:56). A
\* timer of another process may run on: its map is that process's own.
TimerMeansGone ==
    (\E s \in alive : handler[s] # "auth" /\ timers[home[s]] > 0) => several

\* A refresh makes an expired driver AVAILABLE again, and no other
\* (driver.service.ts:154).
RefreshIsForExpired ==
    [][\A s \in Sockets : RestoreHash(s) \/ ReturnOnline(s) => hash # "BUSY"]_vars
=============================================================================
