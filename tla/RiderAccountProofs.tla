------------------------- MODULE RiderAccountProofs -------------------------
(***************************************************************************)
(* Proofs about RiderAccount for any number of overlapping calls, of       *)
(* payment methods and of failures.                                        *)
(***************************************************************************)
EXTENDS RiderAccount, TLAPS

\* What a call begins with is a call.
LEMMA CallRecords ==
    /\ Idle \in CallStates
    /\ NoDto \in Dtos
    /\ [Idle EXCEPT !.pc = "find"] \in CallStates
    /\ \A pc \in {"user", "save"}, pr \in Preferences, dto \in Dtos :
          [Idle EXCEPT !.pc = pc, !.read = pr, !.dto = dto] \in CallStates
    /\ \A b \in BOOLEAN : [Idle EXCEPT !.pc = "insert", !.first = b] \in CallStates
    /\ \A m \in MethodIds : [Idle EXCEPT !.pc = "set", !.method = m] \in CallStates
<1>1. NoDto \in Dtos
  <2>1. NoDto \in [{} -> Values]
    BY DEF NoDto
  <2>2. QED
    BY <2>1 DEF Dtos
<1>2. [f \in Fields |-> 0] \in Preferences
  BY DEF Preferences, Values
<1>3. Idle \in CallStates
  BY <1>1, <1>2 DEF Idle, CallStates
<1>4. QED
  BY <1>1, <1>3 DEF Idle, CallStates

\* A step of a call keeps the other calls, and its own is a call.
LEMMA CallMoves ==
    ASSUME TypeOK, NEW c \in Calls, NEW r \in CallStates,
           call' = [call EXCEPT ![c] = r]
    PROVE  /\ call' \in [Calls -> CallStates]
           /\ call'[c] = r
           /\ \A o \in Calls \ {c} : call'[o] = call[o]
BY DEF TypeOK

\* Where a call goes on to, it is still a call.
LEMMA GotoTypes ==
    ASSUME TypeOK, NEW c \in Calls, NEW pc \in {"create", "save"}, Goto(c, pc)
    PROVE  /\ call' \in [Calls -> CallStates]
           /\ call'[c] = [call[c] EXCEPT !.pc = pc]
           /\ \A o \in Calls \ {c} : call'[o] = call[o]
<1>1. [call[c] EXCEPT !.pc = pc] \in CallStates
  BY DEF TypeOK, CallStates
<1>2. call' = [call EXCEPT ![c] = [call[c] EXCEPT !.pc = pc]]
  BY DEF Goto
<1>3. QED
  BY <1>1, <1>2, CallMoves
-----------------------------------------------------------------------------
LEMMA TypeInit == Init => TypeOK
<1>1. SUFFICES ASSUME Init PROVE TypeOK
  OBVIOUS
<1>2. [f \in Fields |-> 0] \in Preferences
  BY DEF Preferences, Values
<1>3. preferences \in Preferences /\ wanted \in Preferences
  BY <1>1, <1>2 DEF Init
<1>4. call \in [Calls -> CallStates]
  BY <1>1, CallRecords DEF Init
<1>5. {mixed, tangled, cleared} \subseteq BOOLEAN
  BY <1>1 DEF Init
<1>6. /\ profiles \in 0..1 /\ methods \subseteq MethodIds /\ default \subseteq methods
      /\ calls \in 0..MaxCalls /\ failures \in 0..MaxFailures
  BY <1>1, AccountAssumption DEF Init
<1>7. QED
  BY <1>3, <1>4, <1>5, <1>6 DEF TypeOK

LEMMA TypeStep == TypeOK /\ [Next]_vars => TypeOK'
<1>1. SUFFICES ASSUME TypeOK, [Next]_vars PROVE TypeOK'
  OBVIOUS
<1> USE AccountAssumption
<1>2. ASSUME NEW c \in Calls, FindProfile(c) PROVE TypeOK'
  <2>1. call' \in [Calls -> CallStates]
    BY <1>1, <1>2, CallRecords, CallMoves DEF FindProfile, Begin
  <2>2. QED
    BY <1>1, <1>2, <2>1 DEF TypeOK, FindProfile, Begin, rows, history
<1>3. ASSUME NEW c \in Calls, FindUser(c) PROVE TypeOK'
  <2>1. call' \in [Calls -> CallStates]
    BY <1>1, <1>3, GotoTypes DEF FindUser
  <2>2. QED
    BY <1>1, <1>3, <2>1 DEF TypeOK, FindUser, rows, history
<1>4. ASSUME NEW c \in Calls, CreateProfile(c) PROVE TypeOK'
  <2>1. call' \in [Calls -> CallStates]
    BY <1>1, <1>4, CallRecords, CallMoves DEF CreateProfile, Return
  <2>2. profiles' \in 0..1
    BY <1>1, <1>4 DEF TypeOK, CreateProfile, RowIsNew
  <2>3. QED
    BY <1>1, <1>4, <2>1, <2>2 DEF TypeOK, CreateProfile, history
<1>5. ASSUME NEW c \in Calls, NEW dto \in Dtos, NEW name \in BOOLEAN,
             UpdateProfile(c, dto, name)
      PROVE TypeOK'
  <2>1. [Idle EXCEPT !.pc = IF name THEN "user" ELSE "save",
                     !.read = preferences, !.dto = dto] \in CallStates
    BY <1>1, CallRecords DEF TypeOK
  <2>2. call' \in [Calls -> CallStates]
    BY <1>1, <1>5, <2>1, CallMoves DEF UpdateProfile, Begin
  <2>3. QED
    BY <1>1, <1>5, <2>2 DEF TypeOK, UpdateProfile, Begin, rows, history
<1>6. ASSUME NEW c \in Calls, UpdateUser(c) PROVE TypeOK'
  <2>1. call' \in [Calls -> CallStates]
    BY <1>1, <1>6, GotoTypes, CallRecords, CallMoves DEF UpdateUser, Return
  <2>2. QED
    BY <1>1, <1>6, <2>1 DEF TypeOK, UpdateUser, rows, history
<1>7. ASSUME NEW c \in Calls, SavePreferences(c) PROVE TypeOK'
  <2>1. call' \in [Calls -> CallStates]
    BY <1>1, <1>7, CallRecords, CallMoves DEF SavePreferences, Return
  <2>2. call[c].read \in Preferences /\ call[c].dto \in Dtos
    BY <1>1 DEF TypeOK, CallStates
  <2>3. \A f \in DOMAIN call[c].dto : call[c].dto[f] \in Values
    BY <2>2 DEF Dtos
  <2>4. preferences' \in Preferences /\ wanted' \in Preferences
    BY <1>1, <1>7, <2>2, <2>3 DEF TypeOK, SavePreferences, Merged, Preferences
  <2>5. mixed' \in BOOLEAN
    BY <1>7 DEF SavePreferences
  <2>6. QED
    BY <1>1, <1>7, <2>1, <2>4, <2>5 DEF TypeOK, SavePreferences
<1>8. ASSUME NEW c \in Calls, CountMethods(c) PROVE TypeOK'
  <2>1. call' \in [Calls -> CallStates]
    BY <1>1, <1>8, CallRecords, CallMoves DEF CountMethods, Begin
  <2>2. tangled' \in BOOLEAN
    BY <1>8 DEF CountMethods
  <2>3. QED
    BY <1>1, <1>8, <2>1, <2>2 DEF TypeOK, CountMethods, Begin, rows
<1>9. ASSUME NEW c \in Calls, InsertMethod(c) PROVE TypeOK'
  <2>1. call' \in [Calls -> CallStates]
    BY <1>1, <1>9, CallRecords, CallMoves DEF InsertMethod, Return
  <2>2. methods' \subseteq MethodIds /\ default' \subseteq methods'
    BY <1>1, <1>9 DEF TypeOK, InsertMethod
  <2>3. QED
    BY <1>1, <1>9, <2>1, <2>2 DEF TypeOK, InsertMethod, history
<1>10. ASSUME NEW c \in Calls, NEW m \in MethodIds, ClearDefault(c, m) PROVE TypeOK'
  <2>1. call' \in [Calls -> CallStates]
    BY <1>1, <1>10, CallRecords, CallMoves DEF ClearDefault, Begin
  <2>2. tangled' \in BOOLEAN
    BY <1>10 DEF ClearDefault
  <2>3. QED
    BY <1>1, <1>10, <2>1, <2>2 DEF TypeOK, ClearDefault, Begin, NoDefault
<1>11. ASSUME NEW c \in Calls, SetDefault(c) PROVE TypeOK'
  <2>1. call' \in [Calls -> CallStates]
    BY <1>1, <1>11, CallRecords, CallMoves DEF SetDefault, Return
  <2>2. cleared' \in BOOLEAN
    BY <1>11 DEF SetDefault
  <2>3. QED
    BY <1>1, <1>11, <2>1, <2>2 DEF TypeOK, SetDefault
<1>12. ASSUME NEW c \in Calls, Fail(c) PROVE TypeOK'
  <2>1. call' \in [Calls -> CallStates]
    BY <1>1, <1>12, CallRecords, CallMoves DEF Fail, Return
  <2>2. cleared' \in BOOLEAN
    BY <1>12 DEF Fail
  <2>3. QED
    BY <1>1, <1>12, <2>1, <2>2 DEF TypeOK, Fail, rows
<1>13. CASE UNCHANGED vars
  BY <1>1, <1>13 DEF TypeOK, vars, rows, history
<1>14. QED
  BY <1>1, <1>2, <1>3, <1>4, <1>5, <1>6, <1>7, <1>8, <1>9, <1>10, <1>11, <1>12,
     <1>13 DEF Next

\* Every variable keeps its type; the unique index keeps the profile one.
THEOREM TypeCorrect == Spec => []TypeOK
BY TypeInit, TypeStep, PTL DEF Spec
-----------------------------------------------------------------------------
(* The default payment method.                                             *)

\* Calls that make a default and do not overlap: there is one of them, while
\* it sets a default there is none, while it adds a first method there is no
\* other. A call that adds another one has seen the first.
Untangled ==
    /\ \A c, o \in Calls : MakesDefault(c) /\ MakesDefault(o) => c = o
    /\ \A c \in Calls : At(c, "set") => default = {}
    /\ \A c \in Calls : At(c, "insert") /\ call[c].first => methods = {}

SeesMethods ==
    \A c \in Calls : At(c, "insert") /\ ~call[c].first => methods # {}

DefaultInv == (tangled \/ Untangled) /\ SeesMethods /\ OneDefault

\* A step that leaves the payment methods alone, and whose call neither was
\* nor is at one of them.
LEMMA OtherStep ==
    ASSUME TypeOK, DefaultInv, NEW c \in Calls,
           UNCHANGED <<methods, default, tangled, cleared>>,
           \A o \in Calls \ {c} : call'[o] = call[o],
           call[c].pc \notin {"insert", "set"},
           call'[c].pc \notin {"insert", "set"}
    PROVE  DefaultInv'
BY DEF DefaultInv, Untangled, SeesMethods, OneDefault, MakesDefault, At

LEMMA DefaultStep == TypeOK /\ DefaultInv /\ [Next]_vars => DefaultInv'
<1>1. SUFFICES ASSUME TypeOK, DefaultInv, [Next]_vars PROVE DefaultInv'
  OBVIOUS
<1>2. ASSUME NEW c \in Calls, FindProfile(c) PROVE DefaultInv'
  <2>1. call'[c] = [Idle EXCEPT !.pc = "find"] /\ \A o \in Calls \ {c} : call'[o] = call[o]
    BY <1>1, <1>2, CallRecords, CallMoves DEF FindProfile, Begin
  <2>2. QED
    BY <1>1, <1>2, <2>1, OtherStep DEF FindProfile, Begin, At, Idle, rows, history
<1>3. ASSUME NEW c \in Calls, FindUser(c) PROVE DefaultInv'
  <2>1. /\ call'[c] = [call[c] EXCEPT !.pc = "create"]
        /\ \A o \in Calls \ {c} : call'[o] = call[o]
    BY <1>1, <1>3, GotoTypes DEF FindUser
  <2>2. call'[c].pc = "create"
    BY <1>1, <2>1 DEF TypeOK, CallStates
  <2>3. QED
    BY <1>1, <1>3, <2>1, <2>2, OtherStep DEF FindUser, At, rows, history
<1>4. ASSUME NEW c \in Calls, CreateProfile(c) PROVE DefaultInv'
  <2>1. call'[c] = Idle /\ \A o \in Calls \ {c} : call'[o] = call[o]
    BY <1>1, <1>4, CallRecords, CallMoves DEF CreateProfile, Return
  <2>2. QED
    BY <1>1, <1>4, <2>1, OtherStep DEF CreateProfile, At, Idle, history
<1>5. ASSUME NEW c \in Calls, NEW dto \in Dtos, NEW name \in BOOLEAN,
             UpdateProfile(c, dto, name)
      PROVE DefaultInv'
  <2>1. [Idle EXCEPT !.pc = IF name THEN "user" ELSE "save",
                     !.read = preferences, !.dto = dto] \in CallStates
    BY <1>1, CallRecords DEF TypeOK
  <2>2. /\ call'[c].pc \in {"user", "save"}
        /\ \A o \in Calls \ {c} : call'[o] = call[o]
    BY <1>1, <1>5, <2>1, CallMoves DEF UpdateProfile, Begin, Idle
  <2>3. QED
    BY <1>1, <1>5, <2>2, OtherStep DEF UpdateProfile, Begin, At, rows, history
<1>6. ASSUME NEW c \in Calls, UpdateUser(c) PROVE DefaultInv'
  <2>1. /\ call'[c] \in {Idle, [call[c] EXCEPT !.pc = "save"]}
        /\ \A o \in Calls \ {c} : call'[o] = call[o]
    BY <1>1, <1>6, GotoTypes, CallRecords, CallMoves DEF UpdateUser, Return
  <2>2. call'[c].pc \in {"idle", "save"}
    BY <1>1, <2>1 DEF TypeOK, CallStates, Idle
  <2>3. QED
    BY <1>1, <1>6, <2>1, <2>2, OtherStep DEF UpdateUser, At, rows, history
<1>7. ASSUME NEW c \in Calls, SavePreferences(c) PROVE DefaultInv'
  <2>1. call'[c] = Idle /\ \A o \in Calls \ {c} : call'[o] = call[o]
    BY <1>1, <1>7, CallRecords, CallMoves DEF SavePreferences, Return
  <2>2. QED
    BY <1>1, <1>7, <2>1, OtherStep DEF SavePreferences, At, Idle
<1>8. ASSUME NEW c \in Calls, CountMethods(c) PROVE DefaultInv'
  <2>1. /\ call'[c].pc = "insert" /\ call'[c].first = (methods = {})
        /\ \A o \in Calls \ {c} : call'[o] = call[o]
    BY <1>1, <1>8, CallRecords, CallMoves DEF CountMethods, Begin, Idle
  <2>2. call[c].pc = "idle" /\ UNCHANGED <<methods, default, cleared>>
    BY <1>8 DEF CountMethods, Begin, At, rows
  <2>3. (tangled \/ Untangled)'
    <3>1. SUFFICES ASSUME ~tangled' PROVE Untangled'
      OBVIOUS
    <3>2. Untangled /\ (methods = {} => \A o \in Calls : ~MakesDefault(o))
      BY <1>1, <1>8, <3>1 DEF DefaultInv, CountMethods
    <3>3. \A o \in Calls \ {c} : MakesDefault(o)' => MakesDefault(o) /\ methods # {}
      BY <2>1, <3>2 DEF MakesDefault, At
    <3>4. MakesDefault(c)' => methods = {}
      BY <2>1 DEF MakesDefault, At
    <3>5. \A o, e \in Calls : (MakesDefault(o) /\ MakesDefault(e))' => o = e
      BY <3>2, <3>3, <3>4 DEF Untangled
    <3>6. \A o \in Calls : At(o, "set")' => default' = {}
      BY <2>1, <2>2, <3>2 DEF Untangled, At
    <3>7. \A o \in Calls : (At(o, "insert") /\ call[o].first)' => methods' = {}
      BY <2>1, <2>2, <3>2 DEF Untangled, At
    <3>8. QED
      BY <3>5, <3>6, <3>7 DEF Untangled
  <2>4. SeesMethods'
    BY <1>1, <2>1, <2>2 DEF DefaultInv, SeesMethods, At
  <2>5. OneDefault'
    <3>1. tangled => tangled'
      BY <1>8 DEF CountMethods
    <3>2. \A o \in Calls : At(o, "set") => At(o, "set")'
      BY <2>1, <2>2 DEF At
    <3>3. QED
      BY <1>1, <2>2, <3>1, <3>2 DEF DefaultInv, OneDefault
  <2>6. QED
    BY <2>3, <2>4, <2>5 DEF DefaultInv
<1>9. ASSUME NEW c \in Calls, InsertMethod(c) PROVE DefaultInv'
  <2>1. call'[c] = Idle /\ \A o \in Calls \ {c} : call'[o] = call[o]
    BY <1>1, <1>9, CallRecords, CallMoves DEF InsertMethod, Return
  <2>2. PICK m \in MethodIds \ methods :
            /\ methods' = methods \cup {m}
            /\ default' = IF call[c].first THEN default \cup {m} ELSE default
    BY <1>9 DEF InsertMethod
  <2>3. At(c, "insert") /\ UNCHANGED <<tangled, cleared>>
    BY <1>9 DEF InsertMethod, history
  <2>4. call'[c].pc = "idle"
    BY <2>1 DEF Idle
  <2>5. (tangled \/ Untangled)'
    <3>1. SUFFICES ASSUME Untangled PROVE Untangled'
      BY <1>1, <2>3 DEF DefaultInv
    <3>2. \A o \in Calls \ {c} : At(o, "insert") /\ call[o].first => call[c].first
      BY <1>1, <2>3, <3>1 DEF DefaultInv, SeesMethods, Untangled, At
    <3>3. \A o \in Calls \ {c} : call[c].first => ~MakesDefault(o)
      BY <2>3, <3>1 DEF Untangled, MakesDefault
    <3>4. \A o \in Calls : At(o, "set")' => default' = {}
      BY <2>1, <2>2, <2>4, <3>1, <3>3 DEF Untangled, MakesDefault, At
    <3>5. \A o \in Calls : ~(At(o, "insert") /\ call[o].first)'
      BY <2>1, <2>4, <3>2, <3>3 DEF MakesDefault, At
    <3>6. \A o, e \in Calls : (MakesDefault(o) /\ MakesDefault(e))' => o = e
      BY <2>1, <2>4, <3>1 DEF Untangled, MakesDefault, At
    <3>7. QED
      BY <3>4, <3>5, <3>6 DEF Untangled
  <2>6. SeesMethods'
    BY <2>2 DEF SeesMethods
  <2>7. OneDefault'
    <3>1. \A i, j \in default' : i = j \/ tangled'
      <4>1. CASE tangled
        BY <2>3, <4>1
      <4>2. CASE ~tangled /\ call[c].first
        <5>1. default = {}
          BY <1>1, <2>3, <4>2 DEF DefaultInv, Untangled, TypeOK
        <5>2. QED
          BY <2>2, <4>2, <5>1
      <4>3. CASE ~call[c].first
        BY <1>1, <2>2, <2>3, <4>3 DEF DefaultInv, OneDefault
      <4>4. QED
        BY <4>1, <4>2, <4>3
    <3>2. ASSUME default' = {}
          PROVE  cleared' \/ \E o \in Calls : At(o, "set")'
      <4>1. ~call[c].first /\ default = {} /\ methods # {}
        BY <1>1, <2>2, <2>3, <3>2 DEF DefaultInv, SeesMethods
      <4>2. cleared \/ \E o \in Calls : At(o, "set")
        BY <1>1, <4>1 DEF DefaultInv, OneDefault
      <4>3. \A o \in Calls : At(o, "set") => At(o, "set")'
        BY <2>1, <2>3 DEF At
      <4>4. QED
        BY <2>3, <4>2, <4>3
    <3>3. QED
      BY <3>1, <3>2 DEF OneDefault
  <2>8. QED
    BY <2>5, <2>6, <2>7 DEF DefaultInv
<1>10. ASSUME NEW c \in Calls, NEW m \in MethodIds, ClearDefault(c, m) PROVE DefaultInv'
  <2>1. /\ call'[c].pc = "set"
        /\ \A o \in Calls \ {c} : call'[o] = call[o]
    BY <1>1, <1>10, CallRecords, CallMoves DEF ClearDefault, Begin, Idle
  <2>2. default' = {} /\ UNCHANGED methods
    BY <1>10 DEF ClearDefault, NoDefault
  <2>3. (tangled \/ Untangled)'
    <3>1. SUFFICES ASSUME ~tangled' PROVE Untangled'
      OBVIOUS
    <3>2. Untangled /\ \A o \in Calls : ~MakesDefault(o)
      BY <1>1, <1>10, <3>1 DEF DefaultInv, ClearDefault
    <3>3. QED
      BY <2>1, <2>2, <3>2 DEF Untangled, MakesDefault, At
  <2>4. SeesMethods'
    BY <1>1, <2>1, <2>2 DEF DefaultInv, SeesMethods, At
  <2>5. OneDefault'
    BY <2>1, <2>2 DEF OneDefault, At
  <2>6. QED
    BY <2>3, <2>4, <2>5 DEF DefaultInv
<1>11. ASSUME NEW c \in Calls, SetDefault(c) PROVE DefaultInv'
  <2>1. call'[c] = Idle /\ \A o \in Calls \ {c} : call'[o] = call[o]
    BY <1>1, <1>11, CallRecords, CallMoves DEF SetDefault, Return
  <2>2. call'[c].pc = "idle"
    BY <2>1 DEF Idle
  <2>3. DEFINE found == methods \cap {call[c].method}
  <2>4. /\ At(c, "set") /\ UNCHANGED <<methods, tangled>>
        /\ default' = default \cup found /\ cleared' = (found = {})
    BY <1>11 DEF SetDefault
  <2>5. (tangled \/ Untangled)'
    <3>1. SUFFICES ASSUME Untangled PROVE Untangled'
      BY <1>1, <2>4 DEF DefaultInv
    <3>2. \A o \in Calls : ~MakesDefault(o)'
      BY <2>1, <2>2, <2>4, <3>1 DEF Untangled, MakesDefault, At
    <3>3. QED
      BY <3>2 DEF Untangled, MakesDefault
  <2>6. SeesMethods'
    BY <1>1, <2>1, <2>2, <2>4 DEF DefaultInv, SeesMethods, At
  <2>7. OneDefault'
    <3>1. \A i, j \in default' : i = j \/ tangled'
      <4>1. CASE tangled
        BY <2>4, <4>1
      <4>2. CASE ~tangled
        <5>1. default = {}
          BY <1>1, <2>4, <4>2 DEF DefaultInv, Untangled
        <5>2. QED
          BY <2>4, <5>1
      <4>3. QED
        BY <4>1, <4>2
    <3>2. default' = {} => cleared'
      BY <2>4
    <3>3. QED
      BY <3>1, <3>2 DEF OneDefault
  <2>8. QED
    BY <2>5, <2>6, <2>7 DEF DefaultInv
<1>12. ASSUME NEW c \in Calls, Fail(c) PROVE DefaultInv'
  <2>1. call'[c] = Idle /\ \A o \in Calls \ {c} : call'[o] = call[o]
    BY <1>1, <1>12, CallRecords, CallMoves DEF Fail, Return
  <2>2. call'[c].pc = "idle"
    BY <2>1 DEF Idle
  <2>3. /\ UNCHANGED <<methods, default, tangled>>
        /\ cleared' = (cleared \/ At(c, "set"))
    BY <1>12 DEF Fail, rows
  <2>4. (tangled \/ Untangled)'
    BY <1>1, <2>1, <2>2, <2>3 DEF DefaultInv, Untangled, MakesDefault, At
  <2>5. SeesMethods'
    BY <1>1, <2>1, <2>2, <2>3 DEF DefaultInv, SeesMethods, At
  <2>6. OneDefault'
    BY <1>1, <2>1, <2>2, <2>3 DEF DefaultInv, OneDefault, At
  <2>7. QED
    BY <2>4, <2>5, <2>6 DEF DefaultInv
<1>13. CASE UNCHANGED vars
  BY <1>1, <1>13 DEF vars, rows, history, DefaultInv, Untangled, SeesMethods,
                     OneDefault, MakesDefault, At
<1>14. QED
  BY <1>1, <1>2, <1>3, <1>4, <1>5, <1>6, <1>7, <1>8, <1>9, <1>10, <1>11, <1>12,
     <1>13 DEF Next

LEMMA DefaultInit == Init => DefaultInv
BY DEF Init, Idle, DefaultInv, Untangled, SeesMethods, OneDefault, MakesDefault, At

\* A rider with payment methods has one default, but while it is set, after
\* a setting that failed, and after calls that make a default overlapped.
THEOREM DefaultIsOne == Spec => []OneDefault
<1>1. DefaultInv => OneDefault
  BY DEF DefaultInv
<1>2. Spec => []DefaultInv
  BY DefaultInit, DefaultStep, TypeCorrect, PTL DEF Spec
<1>3. QED
  BY <1>1, <1>2, PTL
-----------------------------------------------------------------------------
(* The preferences.                                                        *)

\* As long as no update was saved in the middle of another one, whoever is
\* in the middle of one has read what the row says.
ReadsAreFresh ==
    \A c \in Calls : At(c, "user") \/ At(c, "save") => call[c].read = preferences

PreferencesInv == mixed \/ (ReadsAreFresh /\ preferences = wanted)

\* A step that leaves the preferences alone, and whose call is not left in
\* the middle of an update unless it was and has the same reading.
LEMMA OtherFieldStep ==
    ASSUME TypeOK, PreferencesInv, NEW c \in Calls,
           UNCHANGED <<preferences, wanted, mixed>>,
           \A o \in Calls \ {c} : call'[o] = call[o],
           call'[c].pc \in {"user", "save"} =>
               \/ call'[c].read = preferences
               \/ call[c].pc \in {"user", "save"} /\ call'[c].read = call[c].read
    PROVE  PreferencesInv'
BY DEF PreferencesInv, ReadsAreFresh, At

LEMMA PreferencesStep == TypeOK /\ PreferencesInv /\ [Next]_vars => PreferencesInv'
<1>1. SUFFICES ASSUME TypeOK, PreferencesInv, [Next]_vars PROVE PreferencesInv'
  OBVIOUS
<1>2. ASSUME NEW c \in Calls, FindProfile(c) PROVE PreferencesInv'
  <2>1. /\ call'[c].pc = "find"
        /\ \A o \in Calls \ {c} : call'[o] = call[o]
    BY <1>1, <1>2, CallRecords, CallMoves DEF FindProfile, Begin, Idle
  <2>2. QED
    BY <1>1, <1>2, <2>1, OtherFieldStep DEF FindProfile, Begin, rows, history
<1>3. ASSUME NEW c \in Calls, FindUser(c) PROVE PreferencesInv'
  <2>1. /\ call'[c] = [call[c] EXCEPT !.pc = "create"]
        /\ \A o \in Calls \ {c} : call'[o] = call[o]
    BY <1>1, <1>3, GotoTypes DEF FindUser
  <2>2. call'[c].pc = "create"
    BY <1>1, <2>1 DEF TypeOK, CallStates
  <2>3. QED
    BY <1>1, <1>3, <2>1, <2>2, OtherFieldStep DEF FindUser, rows, history
<1>4. ASSUME NEW c \in Calls, NEW dto \in Dtos, NEW name \in BOOLEAN,
             UpdateProfile(c, dto, name)
      PROVE PreferencesInv'
  <2>1. [Idle EXCEPT !.pc = IF name THEN "user" ELSE "save",
                     !.read = preferences, !.dto = dto] \in CallStates
    BY <1>1, CallRecords DEF TypeOK
  <2>2. /\ call'[c].read = preferences
        /\ \A o \in Calls \ {c} : call'[o] = call[o]
    BY <1>1, <1>4, <2>1, CallMoves DEF UpdateProfile, Begin, Idle
  <2>3. QED
    BY <1>1, <1>4, <2>2, OtherFieldStep DEF UpdateProfile, Begin, rows, history
<1>5. ASSUME NEW c \in Calls, UpdateUser(c) PROVE PreferencesInv'
  <2>1. /\ call'[c] \in {Idle, [call[c] EXCEPT !.pc = "save"]}
        /\ \A o \in Calls \ {c} : call'[o] = call[o]
    BY <1>1, <1>5, GotoTypes, CallRecords, CallMoves DEF UpdateUser, Return
  <2>2. call'[c].pc = "idle" \/ call'[c].read = call[c].read
    BY <1>1, <2>1 DEF TypeOK, CallStates, Idle
  <2>3. QED
    BY <1>1, <1>5, <2>1, <2>2, OtherFieldStep DEF UpdateUser, At, rows, history
<1>6. ASSUME NEW c \in Calls, SavePreferences(c) PROVE PreferencesInv'
  <2>1. call'[c].pc = "idle" /\ \A o \in Calls \ {c} : call'[o] = call[o]
    BY <1>1, <1>6, CallRecords, CallMoves DEF SavePreferences, Return, Idle
  <2>2. SUFFICES ASSUME ~mixed' PROVE (ReadsAreFresh /\ preferences = wanted)'
    BY DEF PreferencesInv
  <2>3. ~mixed /\ \A o \in Calls \ {c} : ~At(o, "user") /\ ~At(o, "save")
    BY <1>6, <2>2 DEF SavePreferences
  <2>4. ReadsAreFresh'
    BY <2>1, <2>3 DEF ReadsAreFresh, At
  <2>5. call[c].read = preferences /\ preferences = wanted
    BY <1>1, <1>6, <2>3 DEF PreferencesInv, ReadsAreFresh, SavePreferences
  <2>6. preferences' = wanted'
    BY <1>6, <2>5 DEF SavePreferences, Merged
  <2>7. QED
    BY <2>4, <2>6
<1>7. ASSUME NEW c \in Calls, CountMethods(c) PROVE PreferencesInv'
  <2>1. call'[c].pc = "insert" /\ \A o \in Calls \ {c} : call'[o] = call[o]
    BY <1>1, <1>7, CallRecords, CallMoves DEF CountMethods, Begin, Idle
  <2>2. QED
    BY <1>1, <1>7, <2>1, OtherFieldStep DEF CountMethods, rows
<1>8. ASSUME NEW c \in Calls, NEW m \in MethodIds, ClearDefault(c, m)
      PROVE PreferencesInv'
  <2>1. call'[c].pc = "set" /\ \A o \in Calls \ {c} : call'[o] = call[o]
    BY <1>1, <1>8, CallRecords, CallMoves DEF ClearDefault, Begin, Idle
  <2>2. QED
    BY <1>1, <1>8, <2>1, OtherFieldStep DEF ClearDefault
<1>9. ASSUME NEW c \in Calls,
             CreateProfile(c) \/ InsertMethod(c) \/ SetDefault(c) \/ Fail(c)
      PROVE PreferencesInv'
  <2>1. Return(c) /\ UNCHANGED <<preferences, wanted, mixed>>
    BY <1>9 DEF CreateProfile, InsertMethod, SetDefault, Fail, rows, history
  <2>2. call'[c].pc = "idle" /\ \A o \in Calls \ {c} : call'[o] = call[o]
    BY <1>1, <2>1, CallRecords, CallMoves DEF Return, Idle
  <2>3. QED
    BY <1>1, <2>1, <2>2, OtherFieldStep
<1>10. CASE UNCHANGED vars
  BY <1>1, <1>10 DEF vars, rows, history, PreferencesInv, ReadsAreFresh, At
<1>11. QED
  BY <1>1, <1>2, <1>3, <1>4, <1>5, <1>6, <1>7, <1>8, <1>9, <1>10 DEF Next

LEMMA PreferencesInit == Init => PreferencesInv
BY DEF Init, Idle, PreferencesInv, ReadsAreFresh, At

\* No preference that was saved is lost to an update of the other one, unless
\* two updates overlapped.
THEOREM PreferencesAreKept == Spec => []PreferencesKept
<1>1. PreferencesInv => PreferencesKept
  BY DEF PreferencesInv, PreferencesKept
<1>2. Spec => []PreferencesInv
  BY PreferencesInit, PreferencesStep, TypeCorrect, PTL DEF Spec
<1>3. QED
  BY <1>1, <1>2, PTL
=============================================================================
