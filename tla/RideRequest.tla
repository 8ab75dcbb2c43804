---------------------------- MODULE RideRequest -----------------------------
(***************************************************************************)
(* RideService.createRide: requests of riders of one region, each with an  *)
(* idempotency key, retried and overlapping. A key has a cached answer for *)
(* 24 h and a unique index in the table of rides. The price of a ride is   *)
(* its surge: base fare and distance are fixed by the request. A message   *)
(* sent is a run of Dispatch. A step of a call ends at an await.           *)
(***************************************************************************)
EXTENDS SurgePricing, Sequences

CONSTANTS Keys,          \* idempotency keys
          Calls,         \* calls handled at a time
          Home,          \* the region of the riders
          Null,          \* no key
          MaxCalls,      \* bound: calls
          MaxFailures    \* bound: calls that die

ASSUME RequestAssumption == Home \in Regions /\ {MaxCalls, MaxFailures} \subseteq Nat

VARIABLES
    rides,       \* rows: the key and surge of each ride id, in order
    cache,       \* idempotency:rides, the ride id of each key or NoRide
    requested,   \* ride.request.created messages sent for each of them
    answers,     \* keys and ride ids that clients were told
    failed,      \* keys of which a call died
    call,        \* progress of each call
    calls, failures    \* counted against the bounds

requestVars == <<rides, cache, requested, answers, failed, call, calls, failures>>
vars == <<surgeVars, requestVars>>
-----------------------------------------------------------------------------
NoRide == 0

Idle == [pc |-> "idle", key |-> Null, surge |-> 0, ride |-> NoRide]

CallStates ==
    [pc : {"idle", "price", "insert", "cache", "emit"}, key : Keys \cup {Null},
     surge : Multipliers \cup {0}, ride : Nat]

TypeOK ==
    /\ SurgeTypeOK
    /\ rides \in Seq([key : Keys, surge : Multipliers])
    /\ cache \in [Keys -> DOMAIN rides \cup {NoRide}]
    /\ requested \in Seq(Nat) /\ Len(requested) = Len(rides)
    /\ answers \subseteq Keys \X DOMAIN rides
    /\ failed \subseteq Keys
    /\ call \in [Calls -> CallStates]
    /\ \A c \in Calls : call[c].ride \in DOMAIN rides \cup {NoRide}
    /\ calls \in 0..MaxCalls /\ failures \in 0..MaxFailures

Init ==
    /\ SurgeInit
    /\ rides = << >> /\ requested = << >> /\ cache = [k \in Keys |-> NoRide]
    /\ answers = {} /\ failed = {}
    /\ call = [c \in Calls |-> Idle]
    /\ calls = 0 /\ failures = 0

At(c, pc) == call[c].pc = pc

Return(c) == call' = [call EXCEPT ![c] = Idle]

\* GET of the cached answer: a replay is answered from it.
Request(c, k) ==
    /\ At(c, "idle") /\ calls < MaxCalls /\ calls' = calls + 1
    /\ \/ /\ cache[k] # NoRide
          /\ answers' = answers \cup {<<k, cache[k]>>}
          /\ UNCHANGED call
       \/ /\ cache[k] = NoRide
          /\ call' = [call EXCEPT ![c].pc = "price", ![c].key = k]
          /\ UNCHANGED answers
    /\ UNCHANGED <<surgeVars, rides, cache, requested, failed, failures>>

\* estimateFare.
Price(c) ==
    /\ At(c, "price")
    /\ call' = [call EXCEPT ![c].pc = "insert", ![c].surge = CurrentSurge(Home)]
    /\ UNCHANGED <<surgeVars, rides, cache, requested, answers, failed, calls, failures>>

RidesOf(k) == {i \in DOMAIN rides : rides[i].key = k}

FaultKeyIsFree(k) == TRUE

\* The unique index on the tenant and the key.
KeyIsFree(k) == RidesOf(k) = {}

\* save() throws on the index, and the client sees an error of the server.
Insert(c) ==
    /\ At(c, "insert")
    /\ \/ /\ KeyIsFree(call[c].key)
          /\ rides' = Append(rides, [key |-> call[c].key, surge |-> call[c].surge])
          /\ requested' = Append(requested, 0)
          /\ call' = [call EXCEPT ![c].pc = "cache", ![c].ride = Len(rides')]
       \/ ~KeyIsFree(call[c].key) /\ Return(c) /\ UNCHANGED <<rides, requested>>
    /\ UNCHANGED <<surgeVars, cache, answers, failed, calls, failures>>

FaultCacheAnswer(c) ==
    /\ At(c, "cache")
    /\ cache' = [cache EXCEPT ![call[c].key] = call[c].ride]
    /\ Return(c)
    /\ UNCHANGED <<surgeVars, rides, requested, answers, failed, calls, failures>>

\* SET with EX 86400, before the message is sent.
CacheAnswer(c) ==
    /\ At(c, "cache")
    /\ cache' = [cache EXCEPT ![call[c].key] = call[c].ride]
    /\ call' = [call EXCEPT ![c].pc = "emit"]
    /\ UNCHANGED <<surgeVars, rides, requested, answers, failed, calls, failures>>

\* emit of ride.request.created, and the answer.
Emit(c) ==
    /\ At(c, "emit")
    /\ requested' = [requested EXCEPT ![call[c].ride] = @ + 1]
    /\ answers' = answers \cup {<<call[c].key, call[c].ride>>}
    /\ Return(c)
    /\ UNCHANGED <<surgeVars, rides, cache, failed, calls, failures>>

\* A command rejects, or the process dies with the call.
Fail(c) ==
    /\ ~At(c, "idle") /\ failures < MaxFailures /\ failures' = failures + 1
    /\ failed' = failed \cup {call[c].key}
    /\ Return(c)
    /\ UNCHANGED <<surgeVars, rides, cache, requested, answers, calls>>

\* A day later.
CacheEnds(k) ==
    /\ cache[k] # NoRide /\ cache' = [cache EXCEPT ![k] = NoRide]
    /\ UNCHANGED <<surgeVars, rides, requested, answers, failed, call, calls, failures>>
-----------------------------------------------------------------------------
CallStep(c) == Price(c) \/ Insert(c) \/ CacheAnswer(c) \/ Emit(c)

RequestNext ==
    \/ \E c \in Calls : CallStep(c) \/ Fail(c) \/ \E k \in Keys : Request(c, k)
    \/ \E k \in Keys : CacheEnds(k)

Next == RequestNext \/ (SurgeNext /\ UNCHANGED requestVars)

Spec == Init /\ [][Next]_vars

FairSpec == Spec /\ SurgeFairness /\ \A c \in Calls : WF_vars(CallStep(c))
-----------------------------------------------------------------------------
\* A key has one ride, requested once, and every client that gets an answer
\* is told of that ride, however the requests overlap, fail and come again
\* after the cached answer is gone (ride.service.ts:108, :140).
OneRidePerKey ==
    /\ \A i, j \in DOMAIN rides : rides[i].key = rides[j].key => i = j
    /\ \A i \in DOMAIN rides : requested[i] <= 1
    /\ \A a \in answers : rides[a[2]].key = a[1]

\* A ride that is saved is requested, unless a call with its key died, the
\* one that saved it or another: no request with the key after it sends a
\* message, whether it is answered or refused (ride.service.ts:140, :144).
RideIsRequested ==
    \A k \in Keys :
        (~KeyIsFree(k)) ~> (k \in failed \/ \E i \in RidesOf(k) : requested[i] = 1)

\* The part of it that needs no fairness: every row was requested, or a call
\* that made it is about to send the request, or has died
\* (ride.service.ts:140, :144).
RideIsCarried ==
    \A i \in DOMAIN rides :
        \/ requested[i] = 1
        \/ rides[i].key \in failed
        \/ \E c \in Calls : call[c].ride = i
=============================================================================
