---------------------------- MODULE RiderAccount ----------------------------
(***************************************************************************)
(* RiderService for one user: the profile made on first access, its        *)
(* preferences, and the payment methods. Riders share nothing. A call is a *)
(* sequence of steps that end at an await; the profile is never deleted,   *)
(* so that finding it is one step with the read that follows. The name and *)
(* the phone, kept in the users row, are not told apart.                   *)
(***************************************************************************)
EXTENDS Naturals

CONSTANTS Calls,         \* calls handled at a time
          MaxMethods,    \* bound: payment methods
          MaxCalls,      \* bound: calls
          MaxFailures    \* bound: calls that die

ASSUME AccountAssumption == {MaxMethods, MaxCalls, MaxFailures} \subseteq Nat

VARIABLES
    profiles,       \* riders rows of the user
    preferences,    \* of the profile
    methods,        \* rider_payment_methods rows, by id
    default,        \* those whose isDefault is true
    call,           \* progress of each call
    wanted,         \* the preferences last saved, field by field
    mixed,          \* an update was saved while another one was under way
    tangled,        \* two calls that make a default overlapped
    cleared,        \* a setting of the default ended without one
    calls, failures    \* counted against the bounds

rows == <<profiles, preferences, methods, default>>
history == <<wanted, mixed, tangled, cleared>>
vars == <<rows, call, history, calls, failures>>
-----------------------------------------------------------------------------
Fields == {"defaultVehicleType", "defaultPaymentMethodId"}

\* The values of a preference that are told apart.
Values == {0, 1}

Preferences == [Fields -> Values]

MethodIds == 1..MaxMethods

None == 0

Dtos == UNION {[F -> Values] : F \in SUBSET Fields}

NoDto == [f \in {} |-> 0]

Idle == [pc |-> "idle", read |-> [f \in Fields |-> 0], dto |-> NoDto,
         first |-> FALSE, method |-> None]

CallStates ==
    [pc : {"idle", "find", "create", "insert", "set", "user", "save"},
     read : Preferences, dto : Dtos, first : BOOLEAN, method : MethodIds \cup {None}]

TypeOK ==
    /\ profiles \in 0..1
    /\ preferences \in Preferences /\ wanted \in Preferences
    /\ methods \subseteq MethodIds /\ default \subseteq methods
    /\ call \in [Calls -> CallStates]
    /\ {mixed, tangled, cleared} \subseteq BOOLEAN
    /\ calls \in 0..MaxCalls /\ failures \in 0..MaxFailures

Init ==
    /\ profiles = 0 /\ preferences = [f \in Fields |-> 0]
    /\ methods = {} /\ default = {}
    /\ call = [c \in Calls |-> Idle]
    /\ wanted = [f \in Fields |-> 0] /\ mixed = FALSE
    /\ tangled = FALSE /\ cleared = FALSE
    /\ calls = 0 /\ failures = 0

At(c, pc) == call[c].pc = pc

Goto(c, pc) == call' = [call EXCEPT ![c].pc = pc]

Return(c) == call' = [call EXCEPT ![c] = Idle]

Begin(c, record) ==
    /\ At(c, "idle") /\ calls < MaxCalls /\ calls' = calls + 1
    /\ call' = [call EXCEPT ![c] = record]
    /\ UNCHANGED failures
-----------------------------------------------------------------------------
(* The profile and its preferences.                                        *)

\* findOrCreateProfile, which finds none; one that is found is the answer.
FindProfile(c) ==
    /\ profiles = 0 /\ Begin(c, [Idle EXCEPT !.pc = "find"])
    /\ UNCHANGED <<rows, history>>

\* userService.findById.
FindUser(c) ==
    /\ At(c, "find") /\ Goto(c, "create")
    /\ UNCHANGED <<rows, history, calls, failures>>

FaultRowIsNew == TRUE

\* The unique index on the tenant and the user.
RowIsNew == profiles = 0

CreateProfile(c) ==
    /\ At(c, "create") /\ Return(c)
    /\ profiles' = IF RowIsNew THEN profiles + 1 ELSE profiles
    /\ UNCHANGED <<preferences, methods, default, history, calls, failures>>

\* updateProfile reads the row, and goes on to the table the fields are in.
UpdateProfile(c, dto, name) ==
    /\ profiles > 0 /\ (name \/ DOMAIN dto # {})
    /\ Begin(c, [Idle EXCEPT !.pc = IF name THEN "user" ELSE "save",
                             !.read = preferences, !.dto = dto])
    /\ UNCHANGED <<rows, history>>

\* userService.updateProfile.
UpdateUser(c) ==
    /\ At(c, "user")
    /\ IF call[c].dto = NoDto THEN Return(c) ELSE Goto(c, "save")
    /\ UNCHANGED <<rows, history, calls, failures>>

FaultMerged(old, dto) ==
    [f \in Fields |-> IF f \in DOMAIN dto THEN dto[f] ELSE 0]

\* The spread of the old preferences and the fields that are given.
Merged(old, dto) ==
    [f \in Fields |-> IF f \in DOMAIN dto THEN dto[f] ELSE old[f]]

\* save() of what was read when the call began.
SavePreferences(c) ==
    /\ At(c, "save")
    /\ preferences' = Merged(call[c].read, call[c].dto)
    /\ wanted' = [f \in Fields |->
           IF f \in DOMAIN call[c].dto THEN call[c].dto[f] ELSE wanted[f]]
    /\ mixed' = (mixed \/ \E o \in Calls \ {c} : At(o, "user") \/ At(o, "save"))
    /\ Return(c)
    /\ UNCHANGED <<profiles, methods, default, tangled, cleared, calls, failures>>
-----------------------------------------------------------------------------
(* The payment methods.                                                    *)

\* A call under way that makes a default.
MakesDefault(o) == At(o, "set") \/ (At(o, "insert") /\ call[o].first)

\* addPaymentMethod counts the methods.
CountMethods(c) ==
    /\ profiles > 0
    /\ Begin(c, [Idle EXCEPT !.pc = "insert", !.first = methods = {}])
    /\ tangled' = (tangled \/ (methods = {} /\ \E o \in Calls : MakesDefault(o)))
    /\ UNCHANGED <<rows, wanted, mixed, cleared>>

InsertMethod(c) ==
    \E m \in MethodIds \ methods :
        /\ At(c, "insert") /\ \A n \in MethodIds : n < m => n \in methods
        /\ methods' = methods \cup {m}
        /\ default' = IF call[c].first THEN default \cup {m} ELSE default
        /\ Return(c)
        /\ UNCHANGED <<profiles, preferences, history, calls, failures>>

FaultNoDefault == default

\* The first UPDATE of setDefaultPaymentMethod.
NoDefault == {}

\* The id may be one of no method of the rider.
ClearDefault(c, m) ==
    /\ profiles > 0
    /\ Begin(c, [Idle EXCEPT !.pc = "set", !.method = m])
    /\ default' = NoDefault
    /\ tangled' = (tangled \/ \E o \in Calls : MakesDefault(o))
    /\ UNCHANGED <<profiles, preferences, methods, wanted, mixed, cleared>>

\* The second UPDATE, which affects no row when the method is not found.
SetDefault(c) ==
    LET found == methods \cap {call[c].method} IN
    /\ At(c, "set") /\ Return(c)
    /\ default' = default \cup found
    /\ cleared' = (found = {})
    /\ UNCHANGED <<profiles, preferences, methods, wanted, mixed, tangled, calls, failures>>
-----------------------------------------------------------------------------
\* A query rejects, as on a phone that is taken, or the process dies.
Fail(c) ==
    /\ ~At(c, "idle") /\ failures < MaxFailures /\ failures' = failures + 1
    /\ cleared' = (cleared \/ At(c, "set"))
    /\ Return(c)
    /\ UNCHANGED <<rows, wanted, mixed, tangled, calls>>

Next ==
    \E c \in Calls :
        \/ FindProfile(c) \/ FindUser(c) \/ CreateProfile(c)
        \/ \E dto \in Dtos, name \in BOOLEAN : UpdateProfile(c, dto, name)
        \/ UpdateUser(c) \/ SavePreferences(c)
        \/ CountMethods(c) \/ InsertMethod(c)
        \/ \E m \in MethodIds : ClearDefault(c, m)
        \/ SetDefault(c) \/ Fail(c)

Spec == Init /\ [][Next]_vars
-----------------------------------------------------------------------------
\* A rider with payment methods has one default, except while it is being
\* set, after a setting that failed, and after two calls that make a default
\* overlapped: the first method is added, or one is set, while another call
\* is between its two queries (rider.service.ts:91, :107).
OneDefault ==
    /\ \A m, n \in default : m = n \/ tangled
    /\ methods # {} /\ default = {} =>
           cleared \/ \E c \in Calls : At(c, "set")

\* No preference that was saved is lost to an update of the other one, unless
\* the two overlapped: save() writes what was read (rider.service.ts:63).
PreferencesKept == preferences = wanted \/ mixed
=============================================================================
