---------------------------- MODULE SurgePricing ----------------------------
(***************************************************************************)
(* SurgePricingCron and SurgeService: every 30 s the regions that have a   *)
(* key drivers:geo get a multiplier that lives for 60 s, from the number   *)
(* of drivers in drivers:heartbeat, which is one index for all regions.    *)
(* Multipliers are in tenths. A driver who goes on line or off line writes *)
(* the first index alone, so that either may hold a driver the other does  *)
(* not; DriverPresence has the steps of these handlers.                    *)
(***************************************************************************)
EXTENDS Naturals, FiniteSets

CONSTANTS Regions,
          Drivers,
          RegionOf,   \* the region of each driver's account
          Few,        \* below: 1.8, 5 in the code
          Many        \* below: 1.3, 10 in the code

ASSUME SurgeAssumption ==
    /\ IsFiniteSet(Drivers) /\ RegionOf \in [Drivers -> Regions]
    /\ Few \in Nat /\ Many \in Nat

VARIABLES
    geo,      \* drivers in the index drivers:geo of their region
    heartbeat,    \* drivers in drivers:heartbeat, as {region}:{driver}
    surge,    \* surge:{region}:default, 0 without the key
    cron      \* progress of the tick for each region

surgeVars == <<geo, heartbeat, surge, cron>>
-----------------------------------------------------------------------------
Multipliers == {10, 13, 18, 25}

Asleep == [pc |-> "idle", multiplier |-> 10]

SurgeTypeOK ==
    /\ geo \subseteq Drivers /\ heartbeat \subseteq Drivers
    /\ surge \in [Regions -> Multipliers \cup {0}]
    /\ cron \in [Regions -> [pc : {"idle", "count", "store"},
                             multiplier : Multipliers]]

SurgeInit ==
    /\ geo = {} /\ heartbeat = {}
    /\ surge = [r \in Regions |-> 0]
    /\ cron = [r \in Regions |-> Asleep]

\* KEYS drivers:geo:*: Redis drops an index with its last member.
Tracked == {RegionOf[d] : d \in geo}

\* GEOADD without a heartbeat: on line, or connected again.
GoOnline(d) ==
    /\ geo' = geo \cup {d}
    /\ UNCHANGED <<heartbeat, surge, cron>>

\* ZREM, which leaves the heartbeat.
GoOffline(d) ==
    /\ geo' = geo \ {d}
    /\ UNCHANGED <<heartbeat, surge, cron>>

\* The pipeline of a location, which asks for no status.
UpdateLocation(d) ==
    /\ geo' = geo \cup {d} /\ heartbeat' = heartbeat \cup {d}
    /\ UNCHANGED <<surge, cron>>

\* The pipeline of the cron, for a heartbeat of five minutes ago.
Evict(d) ==
    /\ d \in heartbeat
    /\ geo' = geo \ {d} /\ heartbeat' = heartbeat \ {d}
    /\ UNCHANGED <<surge, cron>>

\* The tick of the cron: a service call for each region.
UpdateSurgePricing ==
    /\ \A r \in Regions : cron[r].pc = "idle"
    /\ Tracked # {}
    /\ cron' = [r \in Regions |->
           [cron[r] EXCEPT !.pc = IF r \in Tracked THEN "count" ELSE "idle"]]
    /\ UNCHANGED <<geo, heartbeat, surge>>

Multiplier(count) ==
    CASE count = 0 -> 25
      [] count > 0 /\ count < Few -> 18
      [] count >= Few /\ count < Many -> 13
      [] OTHER -> 10

\* ZCARD of drivers:heartbeat.
CountDrivers(r) ==
    /\ cron[r].pc = "count"
    /\ cron' = [cron EXCEPT ![r] = [pc |-> "store",
                                      multiplier |-> Multiplier(Cardinality(heartbeat))]]
    /\ UNCHANGED <<geo, heartbeat, surge>>

\* SET with EX 60.
StoreSurge(r) ==
    /\ cron[r].pc = "store"
    /\ surge' = [surge EXCEPT ![r] = cron[r].multiplier]
    /\ cron' = [cron EXCEPT ![r] = Asleep]
    /\ UNCHANGED <<geo, heartbeat>>

FaultSurgeEnds(r) == FALSE

\* The key's sixty seconds are over.
SurgeEnds(r) ==
    /\ surge[r] # 0 /\ surge' = [surge EXCEPT ![r] = 0]
    /\ UNCHANGED <<geo, heartbeat, cron>>

FaultCurrentSurge(r) == surge[r]

\* What estimateFare and the surge map read. No writer passes MAX_SURGE.
CurrentSurge(r) == IF surge[r] = 0 THEN 10 ELSE surge[r]

SurgeNext ==
    \/ UpdateSurgePricing
    \/ \E r \in Regions : CountDrivers(r) \/ StoreSurge(r) \/ SurgeEnds(r)
    \/ \E d \in Drivers :
           GoOnline(d) \/ GoOffline(d) \/ UpdateLocation(d) \/ Evict(d)

\* The calls of a tick go on, and the time to live of a key passes.
SurgeFairness ==
    \A r \in Regions :
        WF_surgeVars(CountDrivers(r) \/ StoreSurge(r)) /\ WF_surgeVars(SurgeEnds(r))
-----------------------------------------------------------------------------
\* Where no drivers are left, prices fall to the normal, whoever is still
\* counted and by whatever tick is under way: the cron skips the region,
\* whose multiplier ends with its key (surge-pricing.cron.ts:18,
\* surge.service.ts:24).
SurgeEndsWithDrivers ==
    \A r \in Regions : <>[](r \notin Tracked) => <>[](CurrentSurge(r) = 10)
=============================================================================
