------------------------- MODULE RideRequestProofs --------------------------
(***************************************************************************)
(* Proofs about RideRequest for any number of keys, of overlapping         *)
(* requests, of failures, of regions and of drivers.                       *)
(***************************************************************************)
EXTENDS RideRequest, FiniteSetTheorems, TLAPS

Rows == [key : Keys, surge : Multipliers]

\* Between the insert and the answer.
Sends(c) == call[c].pc \in {"cache", "emit"}

\* What a call knows: its key, the price of the ride it inserts, and, after
\* that, a ride of its key that nobody has requested.
CallsKnow ==
    \A c \in Calls :
        /\ call[c].pc # "idle" => call[c].key \in Keys
        /\ call[c].pc = "insert" => call[c].surge \in Multipliers
        /\ Sends(c) => /\ call[c].ride \in DOMAIN rides
                       /\ rides[call[c].ride].key = call[c].key
                       /\ requested[call[c].ride] = 0

\* A ride is sent by the call that inserted it.
OneSender ==
    \A c, o \in Calls : Sends(c) /\ Sends(o) /\ call[c].ride = call[o].ride => c = o

\* A cached answer is a ride of its key.
CacheTells ==
    \A k \in Keys : cache[k] # NoRide => rides[cache[k]].key = k

IInv ==
    /\ TypeOK
    /\ CallsKnow
    /\ OneSender
    /\ CacheTells
    /\ OneRidePerKey
-----------------------------------------------------------------------------
\* Append adds one element and keeps the others.
LEMMA AppendFacts ==
    ASSUME NEW S, NEW s \in Seq(S), NEW x \in S
    PROVE  /\ Append(s, x) \in Seq(S)
           /\ Len(Append(s, x)) = Len(s) + 1
           /\ Len(s) + 1 \notin DOMAIN s
           /\ DOMAIN Append(s, x) = DOMAIN s \cup {Len(s) + 1}
           /\ Append(s, x)[Len(s) + 1] = x
           /\ \A i \in DOMAIN s : Append(s, x)[i] = s[i]
OBVIOUS

\* The rows and their messages have the same numbers, which are numbers.
LEMMA Domains ==
    TypeOK => /\ DOMAIN rides = 1..Len(rides)
              /\ DOMAIN requested = 1..Len(rides)
              /\ Len(rides) \in Nat
              /\ NoRide \notin DOMAIN rides
BY DEF TypeOK, NoRide

\* A step of a call keeps the other calls.
LEMMA CallMoves ==
    ASSUME TypeOK, NEW c \in Calls, NEW r, call' = [call EXCEPT ![c] = r]
    PROVE  /\ call'[c] = r
           /\ \A o \in Calls \ {c} : call'[o] = call[o]
           /\ r \in CallStates => call' \in [Calls -> CallStates]
BY DEF TypeOK

\* What a call may go on to is still a call.
LEMMA CallRecords ==
    ASSUME TypeOK, NEW c \in Calls
    PROVE  /\ Idle \in CallStates
           /\ \A k \in Keys : [call[c] EXCEPT !.pc = "price", !.key = k] \in CallStates
           /\ \A m \in Multipliers :
                 [call[c] EXCEPT !.pc = "insert", !.surge = m] \in CallStates
           /\ \A i \in Nat : [call[c] EXCEPT !.pc = "cache", !.ride = i] \in CallStates
           /\ [call[c] EXCEPT !.pc = "emit"] \in CallStates
<1>1. call[c] \in CallStates
  BY DEF TypeOK
<1>2. Idle \in CallStates
  BY DEF Idle, CallStates, NoRide
<1>3. QED
  BY <1>1, <1>2 DEF CallStates

\* Surge pricing keeps its types, and a price is a multiplier.
LEMMA SurgeTypes ==
    /\ SurgeInit => SurgeTypeOK
    /\ SurgeTypeOK /\ SurgeNext => SurgeTypeOK'
    /\ SurgeTypeOK => CurrentSurge(Home) \in Multipliers
<1>1. SurgeInit => SurgeTypeOK
  BY DEF SurgeInit, SurgeTypeOK, Asleep, Multipliers
<1>2. ASSUME SurgeTypeOK PROVE CurrentSurge(Home) \in Multipliers
  BY <1>2, RequestAssumption DEF SurgeTypeOK, CurrentSurge, Multipliers
<1>3. ASSUME SurgeTypeOK, SurgeNext PROVE SurgeTypeOK'
  <2>1. Asleep \in [pc : {"idle", "count", "store"}, multiplier : Multipliers]
    BY DEF Asleep, Multipliers
  <2>2. CASE UpdateSurgePricing
    BY <1>3, <2>2 DEF SurgeTypeOK, UpdateSurgePricing
  <2>3. ASSUME NEW r \in Regions, CountDrivers(r) PROVE SurgeTypeOK'
    <3>1. heartbeat \subseteq Drivers
      BY <1>3 DEF SurgeTypeOK
    <3>2. Cardinality(heartbeat) \in Nat
      BY <3>1, SurgeAssumption, FS_Subset, FS_CardinalityType
    <3>3. Multiplier(Cardinality(heartbeat)) \in Multipliers
      BY <3>2, SurgeAssumption DEF Multiplier, Multipliers
    <3>4. QED
      BY <1>3, <2>3, <3>3 DEF SurgeTypeOK, CountDrivers
  <2>4. ASSUME NEW r \in Regions, StoreSurge(r) PROVE SurgeTypeOK'
    BY <1>3, <2>1, <2>4 DEF SurgeTypeOK, StoreSurge
  <2>5. ASSUME NEW r \in Regions, SurgeEnds(r) PROVE SurgeTypeOK'
    BY <1>3, <2>5 DEF SurgeTypeOK, SurgeEnds
  <2>6. ASSUME NEW d \in Drivers,
               GoOnline(d) \/ GoOffline(d) \/ UpdateLocation(d) \/ Evict(d)
        PROVE  SurgeTypeOK'
    BY <1>3, <2>6 DEF SurgeTypeOK, GoOnline, GoOffline, UpdateLocation, Evict
  <2>7. QED
    BY <1>3, <2>2, <2>3, <2>4, <2>5, <2>6 DEF SurgeNext
<1>4. QED
  BY <1>1, <1>2, <1>3
-----------------------------------------------------------------------------
LEMMA InvInit == Init => IInv
<1>1. SUFFICES ASSUME Init PROVE IInv
  OBVIOUS
<1>2. rides = << >> /\ requested = << >> /\ answers = {} /\ failed = {}
  BY <1>1 DEF Init
<1>3. \A c \in Calls : call[c] = Idle
  BY <1>1 DEF Init
<1>4. TypeOK
  <2>1. Idle \in CallStates
    BY DEF Idle, CallStates, NoRide
  <2>2. call \in [Calls -> CallStates]
    BY <1>1, <2>1 DEF Init
  <2>3. \A c \in Calls : call[c].ride \in DOMAIN rides \cup {NoRide}
    BY <1>3 DEF Idle
  <2>4. cache \in [Keys -> DOMAIN rides \cup {NoRide}]
    BY <1>1 DEF Init
  <2>5. calls \in 0..MaxCalls /\ failures \in 0..MaxFailures
    BY <1>1, RequestAssumption DEF Init
  <2>6. SurgeTypeOK
    BY <1>1, SurgeTypes DEF Init
  <2>7. QED
    BY <1>2, <2>2, <2>3, <2>4, <2>5, <2>6 DEF TypeOK
<1>5. CallsKnow /\ OneSender
  BY <1>3 DEF CallsKnow, OneSender, Sends, Idle
<1>6. CacheTells
  BY <1>1 DEF Init, CacheTells
<1>7. OneRidePerKey
  BY <1>2 DEF OneRidePerKey
<1>8. QED
  BY <1>4, <1>5, <1>6, <1>7 DEF IInv

\* A step that leaves the rides, their messages and the cache alone, and
\* whose call neither was nor is between the insert and the answer.
LEMMA EarlyStep ==
    ASSUME IInv, NEW c \in Calls,
           UNCHANGED <<surgeVars, rides, requested, cache, failures>>,
           failed' \subseteq Keys, answers' \subseteq Keys \X DOMAIN rides,
           \A a \in answers' : rides[a[2]].key = a[1],
           call' \in [Calls -> CallStates], calls' \in 0..MaxCalls,
           \A o \in Calls \ {c} : call'[o] = call[o],
           call'[c].ride \in DOMAIN rides \cup {NoRide},
           call'[c].pc # "idle" => call'[c].key \in Keys,
           call'[c].pc = "insert" => call'[c].surge \in Multipliers,
           call'[c].pc \notin {"cache", "emit"}
    PROVE  IInv'
<1>1. TypeOK'
  BY DEF IInv, TypeOK, SurgeTypeOK, surgeVars
<1>2. CallsKnow'
  BY DEF IInv, CallsKnow, Sends
<1>3. OneSender'
  BY DEF IInv, OneSender, Sends
<1>4. CacheTells' /\ OneRidePerKey'
  BY DEF IInv, CacheTells, OneRidePerKey
<1>5. QED
  BY <1>1, <1>2, <1>3, <1>4 DEF IInv

LEMMA InvStep == IInv /\ [Next]_vars => IInv'
<1>1. SUFFICES ASSUME IInv, [Next]_vars PROVE IInv'
  OBVIOUS
<1>a. TypeOK /\ CallsKnow /\ OneSender /\ CacheTells /\ OneRidePerKey
  BY <1>1 DEF IInv
<1>b. /\ answers \subseteq Keys \X DOMAIN rides /\ failed \subseteq Keys
      /\ \A a \in answers : rides[a[2]].key = a[1]
      /\ call \in [Calls -> CallStates] /\ calls \in 0..MaxCalls
      /\ failures \in 0..MaxFailures
      /\ \A o \in Calls : call[o].ride \in DOMAIN rides \cup {NoRide}
      /\ cache \in [Keys -> DOMAIN rides \cup {NoRide}]
  BY <1>a DEF TypeOK, OneRidePerKey
<1>2. ASSUME NEW c \in Calls, NEW k \in Keys, Request(c, k) PROVE IInv'
  <2>1. /\ UNCHANGED <<surgeVars, rides, requested, cache, failures, failed>>
        /\ calls' \in 0..MaxCalls /\ call[c].pc = "idle"
    BY <1>b, <1>2, RequestAssumption DEF Request, At
  <2>2. CASE cache[k] # NoRide
    <3>1. answers' = answers \cup {<<k, cache[k]>>} /\ UNCHANGED call
      BY <1>2, <2>2 DEF Request
    <3>2. cache[k] \in DOMAIN rides /\ rides[cache[k]].key = k
      BY <1>a, <1>b, <2>2 DEF CacheTells
    <3>3. answers' \subseteq Keys \X DOMAIN rides
      BY <1>b, <3>1, <3>2
    <3>4. \A a \in answers' : rides[a[2]].key = a[1]
      BY <1>b, <3>1, <3>2
    <3>5. QED
      BY <1>1, <1>b, <2>1, <3>1, <3>3, <3>4, EarlyStep
  <2>3. CASE cache[k] = NoRide
    <3>1. /\ UNCHANGED answers
          /\ call' = [call EXCEPT ![c] = [call[c] EXCEPT !.pc = "price", !.key = k]]
      BY <1>2, <2>3 DEF Request
    <3>2. /\ call'[c] = [call[c] EXCEPT !.pc = "price", !.key = k]
          /\ \A o \in Calls \ {c} : call'[o] = call[o]
          /\ call' \in [Calls -> CallStates]
      BY <1>a, <3>1, CallRecords, CallMoves
    <3>3. call'[c].pc = "price" /\ call'[c].key = k /\ call'[c].ride = call[c].ride
      BY <1>b, <3>2 DEF CallStates
    <3>4. QED
      BY <1>1, <1>b, <2>1, <3>1, <3>2, <3>3, EarlyStep
  <2>4. QED
    BY <2>2, <2>3
<1>3. ASSUME NEW c \in Calls, Price(c) PROVE IInv'
  <2>1. CurrentSurge(Home) \in Multipliers
    BY <1>a, SurgeTypes DEF TypeOK
  <2>2. call' = [call EXCEPT ![c] = [call[c] EXCEPT !.pc = "insert",
                                                    !.surge = CurrentSurge(Home)]]
    BY <1>3 DEF Price
  <2>3. /\ call'[c] = [call[c] EXCEPT !.pc = "insert", !.surge = CurrentSurge(Home)]
        /\ \A o \in Calls \ {c} : call'[o] = call[o]
        /\ call' \in [Calls -> CallStates]
    BY <1>a, <2>1, <2>2, CallRecords, CallMoves
  <2>4. /\ call'[c].pc = "insert" /\ call'[c].surge \in Multipliers
        /\ call'[c].key = call[c].key /\ call'[c].ride = call[c].ride
    BY <1>b, <2>1, <2>3 DEF CallStates
  <2>5. call[c].key \in Keys
    BY <1>a, <1>3 DEF CallsKnow, Price, At
  <2>6. UNCHANGED <<surgeVars, rides, requested, cache, failures, failed, answers, calls>>
    BY <1>3 DEF Price
  <2>7. QED
    BY <1>1, <1>b, <2>3, <2>4, <2>5, <2>6, EarlyStep
<1>4. ASSUME NEW c \in Calls, Insert(c) PROVE IInv'
  <2>1. call[c].pc = "insert" /\ call[c].key \in Keys /\ call[c].surge \in Multipliers
    BY <1>a, <1>4 DEF Insert, At, CallsKnow
  <2>2. CASE KeyIsFree(call[c].key)
    <3> DEFINE row == [key |-> call[c].key, surge |-> call[c].surge]
    <3> DEFINE n == Len(rides) + 1
    <3>1. /\ rides' = Append(rides, row) /\ requested' = Append(requested, 0)
          /\ UNCHANGED <<surgeVars, cache, answers, failed, calls, failures>>
      BY <1>4, <2>2 DEF Insert
    <3>2. row \in Rows /\ rides \in Seq(Rows) /\ requested \in Seq(Nat)
          /\ Len(requested) = Len(rides) /\ n \in Nat
      BY <1>a, <2>1 DEF Rows, TypeOK
    <3>3. /\ rides' \in Seq(Rows) /\ Len(rides') = n
          /\ DOMAIN rides' = DOMAIN rides \cup {n} /\ n \notin DOMAIN rides
          /\ rides'[n] = row /\ \A i \in DOMAIN rides : rides'[i] = rides[i]
      BY <3>1, <3>2, AppendFacts
    <3>4. /\ requested' \in Seq(Nat) /\ Len(requested') = n
          /\ DOMAIN requested = DOMAIN rides
          /\ requested'[n] = 0 /\ \A i \in DOMAIN rides : requested'[i] = requested[i]
      BY <1>a, <3>1, <3>2, AppendFacts, Domains
    <3>5. call' = [call EXCEPT ![c] = [call[c] EXCEPT !.pc = "cache", !.ride = n]]
      BY <1>4, <2>2, <3>3 DEF Insert
    <3>6. /\ call'[c] = [call[c] EXCEPT !.pc = "cache", !.ride = n]
          /\ \A o \in Calls \ {c} : call'[o] = call[o]
          /\ call' \in [Calls -> CallStates]
      BY <1>a, <3>2, <3>5, CallRecords, CallMoves
    <3>7. call'[c].pc = "cache" /\ call'[c].ride = n /\ call'[c].key = call[c].key
      BY <1>b, <3>6 DEF CallStates
    <3>8. \A i \in DOMAIN rides : rides[i].key # call[c].key
      BY <2>2 DEF KeyIsFree, RidesOf
    <3>9. TypeOK'
      <4>1. \A o \in Calls : call'[o].ride \in DOMAIN rides' \cup {NoRide}
        BY <1>b, <3>3, <3>6, <3>7
      <4>2. /\ cache' \in [Keys -> DOMAIN rides' \cup {NoRide}]
            /\ answers' \subseteq Keys \X DOMAIN rides'
        BY <1>b, <3>1, <3>3
      <4>3. QED
        BY <1>a, <3>1, <3>3, <3>4, <3>6, <4>1, <4>2
        DEF TypeOK, SurgeTypeOK, surgeVars, Rows
    <3>10. CallsKnow'
      <4>1. \A o \in Calls \ {c} : Sends(o)' =>
                /\ call[o].ride \in DOMAIN rides
                /\ rides[call[o].ride].key = call[o].key
                /\ requested[call[o].ride] = 0
        BY <1>a, <3>6 DEF CallsKnow, Sends
      <4>2. \A o \in Calls \ {c} : Sends(o)' =>
                /\ call'[o].ride \in DOMAIN rides'
                /\ rides'[call'[o].ride].key = call'[o].key
                /\ requested'[call'[o].ride] = 0
        BY <3>3, <3>4, <3>6, <4>1
      <4>3. /\ call'[c].ride \in DOMAIN rides'
            /\ rides'[call'[c].ride].key = call'[c].key
            /\ requested'[call'[c].ride] = 0
        BY <3>3, <3>4, <3>7
      <4>4. \A o \in Calls : /\ call'[o].pc # "idle" => call'[o].key \in Keys
                             /\ call'[o].pc = "insert" => call'[o].surge \in Multipliers
        BY <1>a, <2>1, <3>6, <3>7 DEF CallsKnow
      <4>5. QED
        BY <4>2, <4>3, <4>4 DEF CallsKnow
    <3>11. OneSender'
      <4>1. \A o \in Calls \ {c} : Sends(o)' => Sends(o) /\ call'[o].ride # n
        BY <1>a, <3>3, <3>6 DEF CallsKnow, Sends
      <4>2. QED
        BY <1>a, <3>6, <3>7, <4>1 DEF OneSender
    <3>12. CacheTells'
      BY <1>a, <1>b, <3>1, <3>3 DEF CacheTells
    <3>13. OneRidePerKey'
      <4>1. \A i, j \in DOMAIN rides' : rides'[i].key = rides'[j].key => i = j
        BY <1>a, <3>3, <3>8 DEF OneRidePerKey
      <4>2. \A i \in DOMAIN rides' : requested'[i] <= 1
        BY <1>a, <3>3, <3>4 DEF OneRidePerKey
      <4>3. \A a \in answers' : rides'[a[2]].key = a[1]
        BY <1>b, <3>1, <3>3
      <4>4. QED
        BY <4>1, <4>2, <4>3 DEF OneRidePerKey
    <3>14. QED
      BY <3>9, <3>10, <3>11, <3>12, <3>13 DEF IInv
  <2>3. CASE ~KeyIsFree(call[c].key)
    <3>1. /\ call' = [call EXCEPT ![c] = Idle]
          /\ UNCHANGED <<surgeVars, rides, requested, cache, failures, failed, answers,
                         calls>>
      BY <1>4, <2>3 DEF Insert, Return
    <3>2. /\ call'[c].pc = "idle" /\ call'[c].ride = NoRide
          /\ \A o \in Calls \ {c} : call'[o] = call[o]
          /\ call' \in [Calls -> CallStates]
      BY <1>a, <3>1, CallRecords, CallMoves DEF Idle
    <3>3. QED
      BY <1>1, <1>b, <3>1, <3>2, EarlyStep
  <2>4. QED
    BY <2>2, <2>3
<1>5. ASSUME NEW c \in Calls, CacheAnswer(c) PROVE IInv'
  <2>1. /\ call[c].pc = "cache" /\ Sends(c)
        /\ UNCHANGED <<surgeVars, rides, requested, answers, failed, calls, failures>>
        /\ cache' = [cache EXCEPT ![call[c].key] = call[c].ride]
        /\ call' = [call EXCEPT ![c] = [call[c] EXCEPT !.pc = "emit"]]
    BY <1>5 DEF CacheAnswer, At, Sends
  <2>2. /\ call[c].key \in Keys /\ call[c].ride \in DOMAIN rides
        /\ rides[call[c].ride].key = call[c].key
    BY <1>a, <2>1 DEF CallsKnow
  <2>3. /\ call'[c] = [call[c] EXCEPT !.pc = "emit"]
        /\ \A o \in Calls \ {c} : call'[o] = call[o]
        /\ call' \in [Calls -> CallStates]
    BY <1>a, <2>1, CallRecords, CallMoves
  <2>4. /\ call'[c].pc = "emit" /\ call'[c].key = call[c].key
        /\ call'[c].ride = call[c].ride
    BY <1>b, <2>3 DEF CallStates
  <2>5. cache' \in [Keys -> DOMAIN rides \cup {NoRide}]
    BY <1>b, <2>1, <2>2
  <2>6. TypeOK'
    <3>1. \A o \in Calls : call'[o].ride \in DOMAIN rides' \cup {NoRide}
      BY <1>b, <2>1, <2>3, <2>4
    <3>2. QED
      BY <1>a, <2>1, <2>3, <2>5, <3>1 DEF TypeOK, SurgeTypeOK, surgeVars
  <2>7. CallsKnow'
    BY <1>a, <2>1, <2>2, <2>3, <2>4 DEF CallsKnow, Sends
  <2>8. OneSender'
    BY <1>a, <2>1, <2>3, <2>4 DEF OneSender, Sends
  <2>9. CacheTells'
    BY <1>a, <1>b, <2>1, <2>2 DEF CacheTells
  <2>10. OneRidePerKey'
    BY <1>a, <2>1 DEF OneRidePerKey
  <2>11. QED
    BY <2>6, <2>7, <2>8, <2>9, <2>10 DEF IInv
<1>6. ASSUME NEW c \in Calls, Emit(c) PROVE IInv'
  <2> DEFINE i == call[c].ride
  <2>1. /\ Sends(c)
        /\ UNCHANGED <<surgeVars, rides, cache, failed, calls, failures>>
        /\ requested' = [requested EXCEPT ![i] = @ + 1]
        /\ answers' = answers \cup {<<call[c].key, i>>}
        /\ call' = [call EXCEPT ![c] = Idle]
    BY <1>6 DEF Emit, At, Sends, Return
  <2>2. /\ call[c].key \in Keys /\ i \in DOMAIN rides
        /\ rides[i].key = call[c].key /\ requested[i] = 0
    BY <1>a, <2>1 DEF CallsKnow, Sends
  <2>3. /\ call'[c].pc = "idle" /\ call'[c].ride = NoRide
        /\ \A o \in Calls \ {c} : call'[o] = call[o]
        /\ call' \in [Calls -> CallStates]
    BY <1>a, <2>1, CallRecords, CallMoves DEF Idle
  <2>4. /\ requested' \in Seq(Nat) /\ Len(requested') = Len(rides)
        /\ requested'[i] = 1
        /\ \A j \in DOMAIN rides \ {i} : requested'[j] = requested[j]
    BY <1>a, <2>1, <2>2, Domains DEF TypeOK
  <2>5. /\ answers' \subseteq Keys \X DOMAIN rides
        /\ \A a \in answers' : rides[a[2]].key = a[1]
    BY <1>b, <2>1, <2>2
  <2>6. TypeOK'
    <3>1. \A o \in Calls : call'[o].ride \in DOMAIN rides' \cup {NoRide}
      BY <1>b, <2>1, <2>3
    <3>2. QED
      BY <1>a, <2>1, <2>3, <2>4, <2>5, <3>1 DEF TypeOK, SurgeTypeOK, surgeVars
  <2>7. CallsKnow'
    <3>1. \A o \in Calls \ {c} : Sends(o) => call[o].ride # i
      BY <1>a, <2>1 DEF OneSender
    <3>2. QED
      BY <1>a, <2>1, <2>3, <2>4, <3>1 DEF CallsKnow, Sends
  <2>8. OneSender'
    BY <1>a, <2>3 DEF OneSender, Sends
  <2>9. CacheTells'
    BY <1>a, <2>1 DEF CacheTells
  <2>10. OneRidePerKey'
    <3>1. \A j \in DOMAIN rides' : requested'[j] <= 1
      BY <1>a, <2>1, <2>4 DEF OneRidePerKey
    <3>2. QED
      BY <1>a, <2>1, <2>5, <3>1 DEF OneRidePerKey
  <2>11. QED
    BY <2>6, <2>7, <2>8, <2>9, <2>10 DEF IInv
<1>7. ASSUME NEW c \in Calls, Fail(c) PROVE IInv'
  <2>1. /\ call[c].pc # "idle" /\ call' = [call EXCEPT ![c] = Idle]
        /\ failed' = failed \cup {call[c].key} /\ failures' \in 0..MaxFailures
        /\ UNCHANGED <<surgeVars, rides, requested, cache, answers, calls>>
    BY <1>b, <1>7, RequestAssumption DEF Fail, At, Return
  <2>2. failed' \subseteq Keys
    BY <1>a, <1>b, <2>1 DEF CallsKnow
  <2>3. /\ call'[c].pc = "idle" /\ call'[c].ride = NoRide
        /\ \A o \in Calls \ {c} : call'[o] = call[o]
        /\ call' \in [Calls -> CallStates]
    BY <1>a, <2>1, CallRecords, CallMoves DEF Idle
  <2>4. TypeOK'
    <3>1. \A o \in Calls : call'[o].ride \in DOMAIN rides' \cup {NoRide}
      BY <1>b, <2>1, <2>3
    <3>2. QED
      BY <1>a, <2>1, <2>2, <2>3, <3>1 DEF TypeOK, SurgeTypeOK, surgeVars
  <2>5. CallsKnow'
    BY <1>a, <2>1, <2>3 DEF CallsKnow, Sends
  <2>6. OneSender'
    BY <1>a, <2>3 DEF OneSender, Sends
  <2>7. CacheTells' /\ OneRidePerKey'
    BY <1>a, <2>1 DEF CacheTells, OneRidePerKey
  <2>8. QED
    BY <2>4, <2>5, <2>6, <2>7 DEF IInv
<1>8. ASSUME NEW k \in Keys, CacheEnds(k) PROVE IInv'
  <2>1. /\ cache' = [cache EXCEPT ![k] = NoRide]
        /\ UNCHANGED <<surgeVars, rides, requested, answers, failed, call, calls, failures>>
    BY <1>8 DEF CacheEnds
  <2>2. TypeOK' /\ CacheTells'
    BY <1>a, <1>b, <2>1 DEF TypeOK, SurgeTypeOK, surgeVars, CacheTells
  <2>3. CallsKnow' /\ OneSender' /\ OneRidePerKey'
    BY <1>a, <2>1 DEF CallsKnow, OneSender, Sends, OneRidePerKey
  <2>4. QED
    BY <2>2, <2>3 DEF IInv
<1>9. CASE SurgeNext /\ UNCHANGED requestVars
  <2>1. TypeOK'
    BY <1>a, <1>9, SurgeTypes DEF TypeOK, requestVars
  <2>2. CallsKnow' /\ OneSender' /\ CacheTells' /\ OneRidePerKey'
    BY <1>a, <1>9 DEF requestVars, CallsKnow, OneSender, Sends, CacheTells, OneRidePerKey
  <2>3. QED
    BY <2>1, <2>2 DEF IInv
<1>10. CASE UNCHANGED vars
  BY <1>a, <1>10 DEF vars, requestVars, surgeVars, IInv, TypeOK, SurgeTypeOK,
                     CallsKnow, OneSender, Sends, CacheTells, OneRidePerKey
<1>11. QED
  BY <1>1, <1>2, <1>3, <1>4, <1>5, <1>6, <1>7, <1>8, <1>9, <1>10
  DEF Next, RequestNext, CallStep

\* The inductive invariant holds of every reachable state.
THEOREM Invariant == Spec => []IInv
BY InvInit, InvStep, PTL DEF Spec

\* Every variable keeps its type: in particular every price is one of the
\* four multipliers.
THEOREM TypeCorrect == Spec => []TypeOK
<1>1. IInv => TypeOK
  BY DEF IInv
<1>2. QED
  BY <1>1, Invariant, PTL

\* A key has one ride, requested once, and every answer to it names that ride.
THEOREM KeyHasOneRide == Spec => []OneRidePerKey
<1>1. IInv => OneRidePerKey
  BY DEF IInv
<1>2. QED
  BY <1>1, Invariant, PTL
-----------------------------------------------------------------------------
\* A row that was not requested, and whose call did not die, is in the hands
\* of a call between the insert and the answer.
CarryInv ==
    \A i \in DOMAIN rides :
        \/ requested[i] = 1
        \/ rides[i].key \in failed
        \/ \E c \in Calls : Sends(c) /\ call[c].ride = i

\* A step that keeps the rows, takes back no message and forgets no failure,
\* and after which every call that was sending is sending the same ride.
LEMMA CarryKeeps ==
    ASSUME CarryInv, UNCHANGED rides, failed \subseteq failed',
           \A i \in DOMAIN rides : requested[i] = 1 => requested'[i] = 1,
           \A o \in Calls : Sends(o) => \/ Sends(o)' /\ call'[o].ride = call[o].ride
                                        \/ requested'[call[o].ride] = 1
                                        \/ rides[call[o].ride].key \in failed'
    PROVE  CarryInv'
<1>1. SUFFICES ASSUME NEW i \in DOMAIN rides,
                      requested'[i] # 1, rides[i].key \notin failed'
               PROVE  \E c \in Calls : Sends(c)' /\ call'[c].ride = i
  BY DEF CarryInv
<1>2. PICK c \in Calls : Sends(c) /\ call[c].ride = i
  BY <1>1 DEF CarryInv
<1>3. QED
  BY <1>1, <1>2

LEMMA CarryStep == IInv /\ CarryInv /\ [Next]_vars => CarryInv'
<1>1. SUFFICES ASSUME IInv, CarryInv, [Next]_vars PROVE CarryInv'
  OBVIOUS
<1>a. TypeOK /\ CallsKnow /\ OneRidePerKey
  BY <1>1 DEF IInv
<1>2. ASSUME NEW c \in Calls, NEW k \in Keys, Request(c, k) PROVE CarryInv'
  <2>1. ~Sends(c) /\ UNCHANGED <<rides, requested, failed>>
    BY <1>2 DEF Request, At, Sends
  <2>2. \A o \in Calls \ {c} : call'[o] = call[o]
    BY <1>a, <1>2 DEF Request, TypeOK
  <2>3. QED
    BY <1>1, <2>1, <2>2, CarryKeeps DEF Sends
<1>3. ASSUME NEW c \in Calls, Price(c) PROVE CarryInv'
  <2>1. ~Sends(c) /\ UNCHANGED <<rides, requested, failed>>
    BY <1>3 DEF Price, At, Sends
  <2>2. \A o \in Calls \ {c} : call'[o] = call[o]
    BY <1>a, <1>3 DEF Price, TypeOK
  <2>3. QED
    BY <1>1, <2>1, <2>2, CarryKeeps DEF Sends
<1>4. ASSUME NEW c \in Calls, Insert(c) PROVE CarryInv'
  <2>1. call[c].pc = "insert" /\ call[c].key \in Keys /\ call[c].surge \in Multipliers
    BY <1>a, <1>4 DEF Insert, At, CallsKnow
  <2>2. CASE KeyIsFree(call[c].key)
    <3> DEFINE row == [key |-> call[c].key, surge |-> call[c].surge]
    <3> DEFINE n == Len(rides) + 1
    <3>1. rides' = Append(rides, row) /\ requested' = Append(requested, 0)
          /\ UNCHANGED failed
      BY <1>4, <2>2 DEF Insert
    <3>2. row \in Rows /\ rides \in Seq(Rows) /\ requested \in Seq(Nat) /\ n \in Nat
          /\ Len(requested) = Len(rides) /\ DOMAIN requested = DOMAIN rides
      BY <1>a, <2>1, Domains DEF Rows, TypeOK
    <3>3. /\ DOMAIN rides' = DOMAIN rides \cup {n} /\ Len(rides') = n
          /\ \A i \in DOMAIN rides : rides'[i] = rides[i]
          /\ \A i \in DOMAIN rides : requested'[i] = requested[i]
      BY <3>1, <3>2, AppendFacts
    <3>4. call' = [call EXCEPT ![c] = [call[c] EXCEPT !.pc = "cache", !.ride = n]]
      BY <1>4, <2>2, <3>3 DEF Insert
    <3>5. /\ call'[c].pc = "cache" /\ call'[c].ride = n
          /\ \A o \in Calls \ {c} : call'[o] = call[o]
      BY <1>a, <3>4 DEF TypeOK, CallStates
    <3>6. ASSUME NEW i \in DOMAIN rides, requested'[i] # 1, rides'[i].key \notin failed'
          PROVE  \E o \in Calls : Sends(o)' /\ call'[o].ride = i
      <4>1. PICK o \in Calls : Sends(o) /\ call[o].ride = i
        BY <1>1, <3>1, <3>3, <3>6 DEF CarryInv
      <4>2. o # c
        BY <2>1, <4>1 DEF Sends
      <4>3. QED
        BY <3>5, <4>1, <4>2 DEF Sends
    <3>7. Sends(c)' /\ call'[c].ride = n
      BY <3>5 DEF Sends
    <3>8. QED
      BY <3>3, <3>6, <3>7 DEF CarryInv
  <2>3. CASE ~KeyIsFree(call[c].key)
    <3>1. ~Sends(c) /\ UNCHANGED <<rides, requested, failed>>
      BY <1>4, <2>1, <2>3 DEF Insert, Sends
    <3>2. \A o \in Calls \ {c} : call'[o] = call[o]
      BY <1>a, <1>4, <2>3 DEF Insert, Return, TypeOK
    <3>3. QED
      BY <1>1, <3>1, <3>2, CarryKeeps DEF Sends
  <2>4. QED
    BY <2>2, <2>3
<1>5. ASSUME NEW c \in Calls, CacheAnswer(c) PROVE CarryInv'
  <2>1. UNCHANGED <<rides, requested, failed>>
    BY <1>5 DEF CacheAnswer
  <2>2. /\ call'[c].pc = "emit" /\ call'[c].ride = call[c].ride
        /\ \A o \in Calls \ {c} : call'[o] = call[o]
    BY <1>a, <1>5 DEF CacheAnswer, TypeOK, CallStates
  <2>3. QED
    BY <1>1, <2>1, <2>2, CarryKeeps DEF Sends
<1>6. ASSUME NEW c \in Calls, Emit(c) PROVE CarryInv'
  <2>1. /\ call[c].ride \in DOMAIN requested /\ requested[call[c].ride] = 0
    BY <1>a, <1>6, Domains DEF Emit, At, CallsKnow, Sends
  <2>2. /\ UNCHANGED <<rides, failed>> /\ requested'[call[c].ride] = 1
        /\ \A i \in DOMAIN requested \ {call[c].ride} : requested'[i] = requested[i]
    BY <1>a, <1>6, <2>1 DEF Emit, TypeOK
  <2>3. \A o \in Calls \ {c} : call'[o] = call[o]
    BY <1>a, <1>6 DEF Emit, Return, TypeOK
  <2>4. \A i \in DOMAIN rides : requested[i] = 1 => requested'[i] = 1
    BY <1>a, <2>1, <2>2, Domains
  <2>5. QED
    BY <1>1, <2>2, <2>3, <2>4, CarryKeeps DEF Sends
<1>7. ASSUME NEW c \in Calls, Fail(c) PROVE CarryInv'
  <2>1. /\ UNCHANGED <<rides, requested>> /\ failed' = failed \cup {call[c].key}
        /\ \A o \in Calls \ {c} : call'[o] = call[o]
    BY <1>a, <1>7 DEF Fail, Return, TypeOK
  <2>2. Sends(c) => rides[call[c].ride].key \in failed'
    BY <1>a, <2>1 DEF CallsKnow
  <2>3. QED
    BY <1>1, <2>1, <2>2, CarryKeeps DEF Sends
<1>8. ASSUME NEW k \in Keys, CacheEnds(k) PROVE CarryInv'
  BY <1>1, <1>8 DEF CacheEnds, CarryInv, Sends
<1>9. CASE SurgeNext /\ UNCHANGED requestVars
  BY <1>1, <1>9 DEF requestVars, CarryInv, Sends
<1>10. CASE UNCHANGED vars
  BY <1>1, <1>10 DEF vars, requestVars, CarryInv, Sends
<1>11. QED
  BY <1>1, <1>2, <1>3, <1>4, <1>5, <1>6, <1>7, <1>8, <1>9, <1>10
  DEF Next, RequestNext, CallStep

\* No row of the table of rides is forgotten: it was requested, or its call
\* died, or the call that made it has still to send the request.
THEOREM NoRideForgotten == Spec => []RideIsCarried
<1>1. Init => CarryInv
  BY DEF Init, CarryInv
<1>2. CarryInv => RideIsCarried
  BY DEF CarryInv, RideIsCarried
<1>3. QED
  BY <1>1, <1>2, Invariant, CarryStep, PTL DEF Spec
=============================================================================
