------------------------- MODULE AuthSessionsProofs -------------------------
(***************************************************************************)
(* Proofs about AuthSessions for any number of overlapping calls, devices, *)
(* crashes, tries and any life of a token.                                 *)
(***************************************************************************)
EXTENDS AuthSessions, TLAPS

Early == {"insert", "count", "fade", "compare", "reset"}

\* What a call knows: the device whose tokens it got, and the one it makes,
\* which no client has and whose session it alone stores.
CallsKnow ==
    \A c \in Calls :
        /\ call[c].device \in given \cup {None}
        /\ call[c].pc \in Early => call[c].device = None
        /\ call[c].pc \in {"drop", "end", "blacklist"} => call[c].device # None
        /\ call[c].pc \in {"store", "keep"} =>
              /\ call[c].new \in Devices /\ call[c].new \notin given
              /\ made[call[c].new].root # None
              /\ call[c].device # None =>
                    made[call[c].new].root = made[call[c].device].root
              /\ session[call[c].new] = IF call[c].pc = "store" THEN "none" ELSE "plain"

\* A device is made by one call.
OneMaker ==
    \A c, o \in Calls :
        /\ call[c].pc \in {"store", "keep"} /\ call[o].pc \in {"store", "keep"}
        /\ call[c].new = call[o].new
        => c = o

\* A login is named by a device that was made, and only those have sessions.
RootsMade ==
    \A d \in Devices :
        /\ made[d].root # None => made[made[d].root].root # None
        /\ session[d] # "none" => made[d].root # None

\* A call that may make a session for a login that had one.
Renews(c) ==
    \/ call[c].pc \in {"drop", "store"}
    \/ call[c].pc = "sign" /\ call[c].device # None

RootOf(c) ==
    IF call[c].pc = "store" THEN made[call[c].new].root ELSE made[call[c].device].root

\* One live session and one renewal for each login, unless it was forked; if
\* there are both, the renewal has yet to delete the session.
LiveOrRenewed ==
    \A d \in Devices, c \in Calls :
        session[d] # "none" /\ Renews(c) /\ RootOf(c) = made[d].root
        => made[d].root \in forked \/ (call[c].pc = "drop" /\ call[c].device = d)

RenewedOnce ==
    \A c, o \in Calls :
        c # o /\ Renews(c) /\ Renews(o) /\ RootOf(c) = RootOf(o) => RootOf(c) \in forked

LogsOut(d) ==
    d \in loggedOut \/ \E c \in Calls : call[c].pc = "blacklist" /\ call[c].device = d

\* A device that logs out has no session, and who renews it forked its login.
EndedForGood ==
    \A d \in Devices :
        LogsOut(d) =>
            /\ session[d] = "none"
            /\ \A c \in Calls : /\ call[c].pc \in {"drop", "sign", "store", "keep"}
                                /\ call[c].device = d
                                => made[d].root \in forked

\* The key of the blacklist lasts as long as the signature.
BlacklistLasts ==
    \A d \in loggedOut : 2 * made[d].exp <= blacklist[d] \/ 2 * made[d].exp <= now

IInv ==
    /\ TypeOK
    /\ CallsKnow
    /\ OneMaker
    /\ RootsMade
    /\ OneSessionPerLogin
    /\ LiveOrRenewed
    /\ RenewedOnce
    /\ EndedForGood
    /\ BlacklistLasts
-----------------------------------------------------------------------------
LEMMA InvInit == Init => IInv
<1>1. SUFFICES ASSUME Init PROVE IInv
  OBVIOUS
<1>2. None \notin Devices
  BY AuthAssumption DEF None, Devices
<1>3. Idle \in CallStates
  BY DEF Idle, CallStates
<1>4. TypeOK
  <2>1. call \in [Calls -> CallStates]
    BY <1>1, <1>3 DEF Init
  <2>2. made \in [Devices -> [from : Devices \cup {None}, root : Devices \cup {None},
                             exp : Nat]]
    BY <1>1 DEF Init
  <2>3. now \in 0..MaxTime /\ calls \in 0..MaxCalls /\ crashes \in 0..MaxCrashes
    BY <1>1, AuthAssumption DEF Init
  <2>4. QED
    BY <1>1, <2>1, <2>2, <2>3 DEF Init, TypeOK
<1>5. /\ \A c \in Calls : call[c] = Idle
      /\ \A d \in Devices : session[d] = "none" /\ made[d].root = None
  BY <1>1 DEF Init
<1>6. CallsKnow /\ OneMaker /\ RootsMade
  BY <1>5 DEF CallsKnow, OneMaker, RootsMade, Idle, Early
<1>7. OneSessionPerLogin /\ LiveOrRenewed /\ RenewedOnce
  BY <1>5 DEF OneSessionPerLogin, LiveOrRenewed, RenewedOnce, Renews, Idle
<1>8. EndedForGood /\ BlacklistLasts
  BY <1>1, <1>5 DEF Init, EndedForGood, LogsOut, BlacklistLasts, Idle
<1>9. QED
  BY <1>4, <1>6, <1>7, <1>8 DEF IInv

\* A step of a call keeps the other calls.
LEMMA CallMoves ==
    ASSUME TypeOK, NEW c \in Calls, NEW r \in CallStates,
           call' = [call EXCEPT ![c] = r]
    PROVE  /\ call'[c] = r
           /\ \A o \in Calls \ {c} : call'[o] = call[o]
           /\ call' \in [Calls -> CallStates]
BY DEF TypeOK

LEMMA GotoMoves ==
    ASSUME TypeOK, NEW c \in Calls,
           NEW pc \in {"sign", "keep", "blacklist", "fade", "compare", "reset"},
           Goto(c, pc)
    PROVE  /\ call'[c].pc = pc
           /\ call'[c].device = call[c].device /\ call'[c].new = call[c].new
           /\ \A o \in Calls \ {c} : call'[o] = call[o]
           /\ call' \in [Calls -> CallStates]
<1>1. call[c] \in CallStates
  BY DEF TypeOK
<1>2. /\ [call[c] EXCEPT !.pc = pc] \in CallStates
      /\ [call[c] EXCEPT !.pc = pc].pc = pc
      /\ [call[c] EXCEPT !.pc = pc].device = call[c].device
      /\ [call[c] EXCEPT !.pc = pc].new = call[c].new
  BY <1>1 DEF CallStates
<1>3. call' = [call EXCEPT ![c] = [call[c] EXCEPT !.pc = pc]]
  BY DEF Goto
<1>4. QED
  BY <1>2, <1>3, CallMoves

LEMMA ReturnMoves ==
    ASSUME TypeOK, NEW c \in Calls, Return(c)
    PROVE  /\ call'[c] = Idle /\ call'[c].pc = "idle" /\ call'[c].device = None
           /\ \A o \in Calls \ {c} : call'[o] = call[o]
           /\ call' \in [Calls -> CallStates]
<1>1. Idle \in CallStates
  BY DEF Idle, CallStates
<1>2. QED
  BY <1>1, CallMoves DEF Return, Idle

\* The state a call begins with.
LEMMA BeginMoves ==
    ASSUME TypeOK, NEW c \in Calls, NEW pc \in {"insert", "count", "drop", "end"},
           NEW d \in Devices \cup {None}, Begin(c, pc, d)
    PROVE  /\ call[c].pc = "idle" /\ call'[c].pc = pc /\ call'[c].device = d
           /\ \A o \in Calls \ {c} : call'[o] = call[o]
           /\ call' \in [Calls -> CallStates]
           /\ calls' \in 0..MaxCalls /\ UNCHANGED crashes
<1>1. [pc |-> pc, device |-> d, new |-> None] \in CallStates
  BY DEF CallStates
<1>2. calls' \in 0..MaxCalls
  BY AuthAssumption DEF Begin, TypeOK
<1>3. QED
  BY <1>1, <1>2, CallMoves DEF Begin, At
-----------------------------------------------------------------------------
\* A call that has no device yet, or is over.
Bare(c) == call[c].pc \in Early \cup {"idle", "sign"} /\ call[c].device = None

\* Steps of registration and login, and the passing of time.
LEMMA QuietKeeps ==
    ASSUME IInv, TypeOK', UNCHANGED <<session, tokenVars>>, now <= now',
           \A o \in Calls : call'[o] = call[o] \/ Bare(o)'
    PROVE  IInv'
<1>1. UNCHANGED <<session, made, given, blacklist, loggedOut, forked>>
  BY DEF tokenVars
<1>2. \A o \in Calls : Bare(o)' => ~Renews(o)'
  BY DEF Bare, Renews, Early
<1>3. \A o \in Calls : Renews(o)' => call'[o] = call[o] /\ Renews(o) /\ RootOf(o)' = RootOf(o)
  BY <1>1, <1>2 DEF Renews, RootOf
<1>4. CallsKnow' /\ OneMaker'
  <2>1. CallsKnow'
    BY <1>1 DEF IInv, CallsKnow, Bare, Early
  <2>2. OneMaker'
    BY <1>1 DEF IInv, OneMaker, Bare, Early
  <2>3. QED
    BY <2>1, <2>2
<1>5. RootsMade' /\ OneSessionPerLogin'
  BY <1>1 DEF IInv, RootsMade, OneSessionPerLogin
<1>6. LiveOrRenewed' /\ RenewedOnce'
  BY <1>1, <1>3 DEF IInv, LiveOrRenewed, RenewedOnce
<1>7. EndedForGood'
  <2>1. ASSUME NEW d \in Devices, LogsOut(d)'
        PROVE  /\ session[d] = "none"
               /\ \A c \in Calls : /\ call[c].pc \in {"drop", "sign", "store", "keep"}
                                   /\ call[c].device = d
                                   => made[d].root \in forked
    <3>1. LogsOut(d)
      BY <1>1, <2>1 DEF LogsOut, Bare, Early
    <3>2. QED
      BY <3>1 DEF IInv, EndedForGood
  <2>2. \A d \in Devices : d # None
    BY AuthAssumption DEF Devices, None
  <2>3. QED
    BY <1>1, <2>1, <2>2 DEF EndedForGood, Bare
<1>8. BlacklistLasts'
  <2>1. \A d \in loggedOut : made[d].exp \in Nat /\ blacklist[d] \in Nat
    BY DEF IInv, TypeOK
  <2>2. now \in Nat /\ now' \in Nat
    BY AuthAssumption DEF IInv, TypeOK
  <2>3. QED
    BY <1>1, <2>1, <2>2 DEF IInv, BlacklistLasts
<1>9. QED
  BY <1>4, <1>5, <1>6, <1>7, <1>8 DEF IInv

LEMMA RegisterKeeps == ASSUME IInv, NEW c \in Calls, Register(c) PROVE IInv'
<1>1. Begin(c, "insert", None) /\ UNCHANGED <<now, session, tokenVars, loginVars>>
  BY DEF Register
<1>2. /\ call'[c].pc = "insert" /\ call'[c].device = None
      /\ \A o \in Calls \ {c} : call'[o] = call[o]
      /\ call' \in [Calls -> CallStates]
      /\ calls' \in 0..MaxCalls /\ UNCHANGED crashes
  BY <1>1, BeginMoves DEF IInv
<1>3. TypeOK'
  BY <1>1, <1>2 DEF IInv, TypeOK, tokenVars, loginVars
<1>4. now <= now'
  BY <1>1, AuthAssumption DEF IInv, TypeOK
<1>5. QED
  BY <1>1, <1>2, <1>3, <1>4, QuietKeeps DEF Bare, Early

LEMMA LoginKeeps == ASSUME IInv, NEW c \in Calls, Login(c) PROVE IInv'
<1>1. Begin(c, "count", None) /\ UNCHANGED <<now, session, tokenVars, loginVars>>
  BY DEF Login
<1>2. /\ call'[c].pc = "count" /\ call'[c].device = None
      /\ \A o \in Calls \ {c} : call'[o] = call[o]
      /\ call' \in [Calls -> CallStates]
      /\ calls' \in 0..MaxCalls /\ UNCHANGED crashes
  BY <1>1, BeginMoves DEF IInv
<1>3. TypeOK'
  BY <1>1, <1>2 DEF IInv, TypeOK, tokenVars, loginVars
<1>4. now <= now'
  BY <1>1, AuthAssumption DEF IInv, TypeOK
<1>5. QED
  BY <1>1, <1>2, <1>3, <1>4, QuietKeeps DEF Bare, Early

\* A step of registration or login.
LEMMA EarlyKeeps ==
    ASSUME IInv, NEW c \in Calls,
           InsertUser(c) \/ CountTry(c) \/ StartWindow(c) \/ Compare(c) \/ ResetTries(c)
    PROVE  IInv'
<1>1. call[c].pc \in Early /\ call[c].device = None
  BY DEF InsertUser, CountTry, StartWindow, Compare, ResetTries, At, Early, IInv, CallsKnow
<1>2. /\ UNCHANGED <<now, session, tokenVars, countVars>>
      /\ Return(c) \/ \E pc \in {"sign", "fade", "compare", "reset"} : Goto(c, pc)
  BY DEF InsertUser, CountTry, StartWindow, Compare, ResetTries, loginVars
<1>3. /\ Bare(c)' /\ \A o \in Calls \ {c} : call'[o] = call[o]
      /\ call' \in [Calls -> CallStates]
  BY <1>1, <1>2, ReturnMoves, GotoMoves DEF IInv, Bare, Early
<1>4. /\ account' \in BOOLEAN /\ fading' \in BOOLEAN
      /\ tries' \in Nat /\ (fading' => tries' > 0)
  <2>1. /\ account \in BOOLEAN /\ fading \in BOOLEAN
        /\ tries \in Nat /\ (fading => tries > 0)
    BY DEF IInv, TypeOK
  <2>2. CASE InsertUser(c)
    BY <2>1, <2>2 DEF InsertUser
  <2>3. CASE CountTry(c)
    BY <2>1, <2>3 DEF CountTry
  <2>4. CASE StartWindow(c)
    <3>1. UNCHANGED <<account, tries>> /\ fading' = (tries > 0)
      BY <2>4 DEF StartWindow, Window
    <3>2. QED
      BY <2>1, <3>1
  <2>5. CASE Compare(c)
    BY <2>1, <2>5 DEF Compare, loginVars
  <2>6. CASE ResetTries(c)
    BY <2>1, <2>6 DEF ResetTries, DelTries
  <2>7. QED
    BY <2>2, <2>3, <2>4, <2>5, <2>6
<1>5. TypeOK'
  BY <1>2, <1>3, <1>4 DEF IInv, TypeOK, tokenVars, countVars
<1>6. now <= now'
  BY <1>2, AuthAssumption DEF IInv, TypeOK
<1>7. QED
  BY <1>2, <1>3, <1>5, <1>6, QuietKeeps

LEMMA CrashKeeps == ASSUME IInv, NEW c \in Calls, Crash(c) PROVE IInv'
<1>1. Return(c) /\ UNCHANGED <<now, session, tokenVars, loginVars, calls>>
  BY DEF Crash
<1>2. /\ call'[c].pc = "idle" /\ call'[c].device = None
      /\ \A o \in Calls \ {c} : call'[o] = call[o]
      /\ call' \in [Calls -> CallStates]
  BY <1>1, ReturnMoves DEF IInv
<1>3. crashes' \in 0..MaxCrashes
  BY AuthAssumption DEF Crash, IInv, TypeOK
<1>4. TypeOK'
  BY <1>1, <1>2, <1>3 DEF IInv, TypeOK, tokenVars, loginVars
<1>5. now <= now'
  BY <1>1, AuthAssumption DEF IInv, TypeOK
<1>6. QED
  BY <1>1, <1>2, <1>4, <1>5, QuietKeeps DEF Bare, Early

LEMMA TimeKeeps == ASSUME IInv, WindowEnds \/ Tick \/ UNCHANGED vars PROVE IInv'
<1>1. UNCHANGED <<session, tokenVars, call, countVars>>
  BY DEF WindowEnds, Tick, vars
<1>2. now <= now' /\ now' \in 0..MaxTime
  BY AuthAssumption DEF WindowEnds, Tick, vars, IInv, TypeOK
<1>3. /\ account' \in BOOLEAN /\ fading' \in BOOLEAN
      /\ tries' \in Nat /\ (fading' => tries' > 0)
  <2>1. CASE WindowEnds
    BY <2>1 DEF WindowEnds, DelTries, IInv, TypeOK
  <2>2. CASE UNCHANGED loginVars
    BY <2>2 DEF loginVars, IInv, TypeOK
  <2>3. QED
    BY <2>1, <2>2 DEF Tick, vars
<1>4. TypeOK'
  BY <1>1, <1>2, <1>3 DEF IInv, TypeOK, tokenVars, countVars
<1>5. QED
  BY <1>1, <1>2, <1>4, QuietKeeps
-----------------------------------------------------------------------------
\* What is known of a call's device and of the device it makes.
LEMMA Devs ==
    ASSUME IInv
    PROVE  /\ None \notin Devices
           /\ given \subseteq Devices
           /\ \A d \in given : made[d].root \in Devices
           /\ \A c \in Calls : call[c] \in CallStates
           /\ \A c \in Calls : call[c].device # None =>
                 call[c].device \in given /\ call[c].device \in Devices
           /\ \A c \in Calls : call[c].pc \in {"drop", "end", "blacklist"} =>
                 call[c].device # None
           /\ \A c \in Calls : call[c].pc \in {"store", "keep"} => call[c].new \in Devices
<1>1. None \notin Devices
  BY AuthAssumption DEF None, Devices
<1>2. QED
  BY <1>1 DEF IInv, TypeOK, CallsKnow

LEMMA RefreshKeeps ==
    ASSUME IInv, NEW c \in Calls, NEW d \in Devices, Refresh(c, d) PROVE IInv'
<1>1. /\ call[c].pc = "idle" /\ call'[c].pc = "drop" /\ call'[c].device = d
      /\ \A o \in Calls \ {c} : call'[o] = call[o]
      /\ call' \in [Calls -> CallStates]
      /\ calls' \in 0..MaxCalls /\ UNCHANGED crashes
  BY BeginMoves DEF Refresh, IInv
<1>2. /\ d \in given /\ session[d] # "none"
      /\ UNCHANGED <<now, session, made, given, blacklist, loggedOut, loginVars>>
      /\ forked \subseteq forked'
      /\ (\E o \in Calls : call[o].device = d /\ call[o].pc = "drop")
             => made[d].root \in forked'
  BY DEF Refresh, Presented, UsedBy
<1>3. forked' \subseteq Devices
  BY <1>2, Devs DEF Refresh, IInv, TypeOK
<1>4. TypeOK'
  BY <1>1, <1>2, <1>3 DEF IInv, TypeOK, loginVars
<1>5. CallsKnow'
  BY <1>1, <1>2, Devs DEF IInv, CallsKnow, Early
<1>6. OneMaker' /\ RootsMade' /\ OneSessionPerLogin'
  BY <1>1, <1>2 DEF IInv, OneMaker, RootsMade, OneSessionPerLogin
<1>7. \A o \in Calls \ {c} : (Renews(o)' <=> Renews(o)) /\ RootOf(o)' = RootOf(o)
  BY <1>1, <1>2 DEF Renews, RootOf
<1>8. RootOf(c)' = made[d].root
  BY <1>1, <1>2 DEF RootOf
<1>9. LiveOrRenewed'
  <2>1. ASSUME NEW e \in Devices, session[e] # "none", e # d, made[e].root = made[d].root
        PROVE  made[e].root \in forked
    BY <1>2, <2>1 DEF IInv, OneSessionPerLogin
  <2>2. QED
    BY <1>1, <1>2, <1>7, <1>8, <2>1 DEF IInv, LiveOrRenewed
<1>10. RenewedOnce'
  <2>1. ASSUME NEW o \in Calls \ {c}, Renews(o), RootOf(o) = made[d].root
        PROVE  made[d].root \in forked'
    <3>1. made[d].root \in forked \/ (call[o].pc = "drop" /\ call[o].device = d)
      BY <1>2, <2>1 DEF IInv, LiveOrRenewed
    <3>2. QED
      BY <1>2, <3>1
  <2>2. QED
    BY <1>2, <1>7, <1>8, <2>1 DEF IInv, RenewedOnce
<1>11. EndedForGood'
  <2>1. \A e \in Devices : LogsOut(e)' => LogsOut(e) /\ e # d
    BY <1>1, <1>2 DEF LogsOut, IInv, EndedForGood
  <2>2. QED
    BY <1>1, <1>2, <2>1 DEF IInv, EndedForGood
<1>12. BlacklistLasts'
  BY <1>2 DEF IInv, BlacklistLasts
<1>13. QED
  BY <1>4, <1>5, <1>6, <1>9, <1>10, <1>11, <1>12 DEF IInv

LEMMA DropKeeps ==
    ASSUME IInv, NEW c \in Calls, DropSession(c), NEW d, d = call[c].device PROVE IInv'
<1>1. /\ call[c].pc = "drop" /\ d # None /\ d \in given /\ d \in Devices
  BY Devs DEF DropSession, At
<1>2. /\ call'[c].pc = "sign" /\ call'[c].device = d
      /\ \A o \in Calls \ {c} : call'[o] = call[o]
      /\ call' \in [Calls -> CallStates]
  BY GotoMoves DEF DropSession, IInv
<1>3. /\ session' = [session EXCEPT ![d] = "none"]
      /\ UNCHANGED <<now, made, given, blacklist, loggedOut, forked, loginVars, countVars>>
  BY DEF DropSession, Rotated, tokenVars
<1>4. /\ session'[d] = "none" /\ \A e \in Devices \ {d} : session'[e] = session[e]
      /\ session' \in [Devices -> {"none", "plain", "expiring"}]
  BY <1>1, <1>3 DEF IInv, TypeOK
<1>5. TypeOK'
  BY <1>2, <1>3, <1>4 DEF IInv, TypeOK, loginVars, countVars
<1>6. CallsKnow'
  <2>1. ASSUME NEW o \in Calls, call[o].pc \in {"store", "keep"}
        PROVE  session'[call[o].new] = session[call[o].new]
    BY <1>1, <1>4, <2>1 DEF IInv, CallsKnow
  <2>2. QED
    BY <1>1, <1>2, <1>3, <2>1 DEF IInv, CallsKnow, Early
<1>7. OneMaker' /\ RootsMade' /\ OneSessionPerLogin'
  BY <1>2, <1>3, <1>4 DEF IInv, OneMaker, RootsMade, OneSessionPerLogin
<1>8. \A o \in Calls : (Renews(o)' <=> Renews(o)) /\ RootOf(o)' = RootOf(o)
  BY <1>1, <1>2, <1>3 DEF Renews, RootOf
<1>9. LiveOrRenewed'
  BY <1>1, <1>2, <1>3, <1>4, <1>8 DEF IInv, LiveOrRenewed
<1>10. RenewedOnce'
  BY <1>3, <1>8 DEF IInv, RenewedOnce
<1>11. EndedForGood'
  <2>1. \A e \in Devices : LogsOut(e)' => LogsOut(e)
    BY <1>2, <1>3 DEF LogsOut
  <2>2. QED
    BY <1>1, <1>2, <1>3, <1>4, <2>1 DEF IInv, EndedForGood
<1>12. BlacklistLasts'
  BY <1>3 DEF IInv, BlacklistLasts
<1>13. QED
  BY <1>5, <1>6, <1>7, <1>9, <1>10, <1>11, <1>12 DEF IInv

LEMMA StoreKeeps ==
    ASSUME IInv, NEW c \in Calls, StoreSession(c), NEW d, d = call[c].new PROVE IInv'
<1>1. /\ call[c].pc = "store" /\ d \in Devices /\ d \notin given
      /\ session[d] = "none" /\ made[d].root # None
  BY Devs DEF StoreSession, At, IInv, CallsKnow
<1>2. /\ call'[c].pc = "keep" /\ call'[c].device = call[c].device /\ call'[c].new = d
      /\ \A o \in Calls \ {c} : call'[o] = call[o]
      /\ call' \in [Calls -> CallStates]
  BY GotoMoves DEF StoreSession, IInv
<1>3. /\ session' = [session EXCEPT ![d] = "plain"]
      /\ UNCHANGED <<now, made, given, blacklist, loggedOut, forked, loginVars, countVars>>
  BY DEF StoreSession, tokenVars
<1>4. /\ session'[d] = "plain" /\ \A e \in Devices \ {d} : session'[e] = session[e]
      /\ session' \in [Devices -> {"none", "plain", "expiring"}]
  BY <1>1, <1>3 DEF IInv, TypeOK
<1>5. TypeOK'
  BY <1>2, <1>3, <1>4 DEF IInv, TypeOK, loginVars, countVars
<1>6. CallsKnow'
  <2>1. ASSUME NEW o \in Calls \ {c}, call[o].pc \in {"store", "keep"}
        PROVE  session'[call[o].new] = session[call[o].new]
    <3>1. call[o].new # d /\ call[o].new \in Devices
      BY <1>1, <2>1 DEF IInv, OneMaker, CallsKnow
    <3>2. QED
      BY <1>4, <3>1
  <2>2. QED
    BY <1>1, <1>2, <1>3, <1>4, <2>1 DEF IInv, CallsKnow, Early
<1>7. OneMaker' /\ RootsMade'
  BY <1>1, <1>2, <1>3, <1>4 DEF IInv, OneMaker, RootsMade
<1>8. /\ \A o \in Calls \ {c} : (Renews(o)' <=> Renews(o)) /\ RootOf(o)' = RootOf(o)
      /\ ~Renews(c)' /\ Renews(c) /\ RootOf(c) = made[d].root
  BY <1>1, <1>2, <1>3 DEF Renews, RootOf
<1>9. OneSessionPerLogin'
  <2>1. ASSUME NEW e \in Devices \ {d}, session[e] # "none", made[e].root = made[d].root
        PROVE  made[d].root \in forked
    BY <1>1, <1>8, <2>1 DEF IInv, LiveOrRenewed
  <2>2. QED
    BY <1>3, <1>4, <2>1 DEF IInv, OneSessionPerLogin
<1>10. LiveOrRenewed'
  <2>1. ASSUME NEW o \in Calls \ {c}, Renews(o), RootOf(o) = made[d].root
        PROVE  made[d].root \in forked
    BY <1>8, <2>1 DEF IInv, RenewedOnce
  <2>2. QED
    BY <1>2, <1>3, <1>4, <1>8, <2>1 DEF IInv, LiveOrRenewed
<1>11. RenewedOnce'
  BY <1>3, <1>8 DEF IInv, RenewedOnce
<1>12. EndedForGood'
  <2>1. \A e \in Devices : LogsOut(e)' => LogsOut(e)
    BY <1>2, <1>3 DEF LogsOut
  <2>2. \A e \in Devices : LogsOut(e) => e \in given
    BY Devs DEF LogsOut, IInv, TypeOK
  <2>3. \A o \in Calls :
            /\ call'[o].device = call[o].device
            /\ call'[o].pc \in {"drop", "sign", "store", "keep"}
                  => call[o].pc \in {"drop", "sign", "store", "keep"}
    BY <1>1, <1>2
  <2>4. ASSUME NEW e \in Devices, LogsOut(e)'
        PROVE  /\ session'[e] = "none"
               /\ \A o \in Calls : /\ call'[o].pc \in {"drop", "sign", "store", "keep"}
                                   /\ call'[o].device = e
                                   => made[e].root \in forked
    <3>1. e # d /\ LogsOut(e)
      BY <1>1, <2>1, <2>2, <2>4
    <3>2. session'[e] = "none"
      BY <1>4, <3>1 DEF IInv, EndedForGood
    <3>3. \A o \in Calls : /\ call[o].pc \in {"drop", "sign", "store", "keep"}
                           /\ call[o].device = e
                           => made[e].root \in forked
      BY <3>1 DEF IInv, EndedForGood
    <3>4. ASSUME NEW o \in Calls, call'[o].pc \in {"drop", "sign", "store", "keep"},
                 call'[o].device = e
          PROVE  made[e].root \in forked
      <4>1. call[o].pc \in {"drop", "sign", "store", "keep"} /\ call[o].device = e
        BY <2>3, <3>4
      <4>2. QED
        BY <3>3, <4>1
    <3>5. QED
      BY <3>2, <3>4
  <2>5. QED
    BY <1>3, <2>4 DEF EndedForGood
<1>13. BlacklistLasts'
  BY <1>3 DEF IInv, BlacklistLasts
<1>14. QED
  BY <1>5, <1>6, <1>7, <1>9, <1>10, <1>11, <1>12, <1>13 DEF IInv
LEMMA KeepKeeps ==
    ASSUME IInv, NEW c \in Calls, KeepSession(c), NEW d, d = call[c].new PROVE IInv'
<1>1. /\ call[c].pc = "keep" /\ d \in Devices /\ d \notin given
      /\ session[d] = "plain" /\ made[d].root # None
  BY Devs DEF KeepSession, At, IInv, CallsKnow
<1>2. /\ call'[c] = Idle /\ call'[c].pc = "idle" /\ call'[c].device = None
      /\ \A o \in Calls \ {c} : call'[o] = call[o]
      /\ call' \in [Calls -> CallStates]
  BY ReturnMoves DEF KeepSession, IInv
<1>3. /\ session' = [session EXCEPT ![d] = "expiring"] /\ given' = given \cup {d}
      /\ UNCHANGED <<now, made, blacklist, loggedOut, forked, loginVars, countVars>>
  BY DEF KeepSession
<1>4. /\ session'[d] = "expiring" /\ \A e \in Devices \ {d} : session'[e] = session[e]
      /\ session' \in [Devices -> {"none", "plain", "expiring"}]
  BY <1>1, <1>3 DEF IInv, TypeOK
<1>5. TypeOK'
  BY <1>1, <1>2, <1>3, <1>4 DEF IInv, TypeOK, loginVars, countVars
<1>6. CallsKnow'
  <2>1. ASSUME NEW o \in Calls \ {c}, call[o].pc \in {"store", "keep"}
        PROVE  call[o].new # d /\ session'[call[o].new] = session[call[o].new]
    <3>1. call[o].new # d /\ call[o].new \in Devices
      BY <1>1, <2>1 DEF IInv, OneMaker, CallsKnow
    <3>2. QED
      BY <1>4, <3>1
  <2>2. QED
    BY <1>1, <1>2, <1>3, <2>1 DEF IInv, CallsKnow, Early
<1>7. OneMaker' /\ RootsMade' /\ OneSessionPerLogin'
  BY <1>1, <1>2, <1>3, <1>4 DEF IInv, OneMaker, RootsMade, OneSessionPerLogin
<1>8. /\ \A o \in Calls \ {c} : (Renews(o)' <=> Renews(o)) /\ RootOf(o)' = RootOf(o)
      /\ ~Renews(c)'
  BY <1>2, <1>3 DEF Renews, RootOf
<1>9. LiveOrRenewed'
  BY <1>1, <1>2, <1>3, <1>4, <1>8 DEF IInv, LiveOrRenewed
<1>10. RenewedOnce'
  BY <1>3, <1>8 DEF IInv, RenewedOnce
<1>11. EndedForGood'
  <2>1. \A e \in Devices : LogsOut(e)' => LogsOut(e) /\ e \in given
    BY <1>2, <1>3, Devs DEF LogsOut, IInv, TypeOK
  <2>2. QED
    BY <1>1, <1>2, <1>3, <1>4, <2>1 DEF IInv, EndedForGood
<1>12. BlacklistLasts'
  BY <1>3 DEF IInv, BlacklistLasts
<1>13. QED
  BY <1>5, <1>6, <1>7, <1>9, <1>10, <1>11, <1>12 DEF IInv

LEMMA EndsKeeps == ASSUME IInv, NEW d \in Devices, SessionEnds(d) PROVE IInv'
<1>1. /\ session[d] = "expiring" /\ session' = [session EXCEPT ![d] = "none"]
      /\ UNCHANGED <<now, made, given, blacklist, loggedOut, forked, loginVars, call,
                     countVars>>
  BY DEF SessionEnds, tokenVars
<1>2. /\ session'[d] = "none" /\ \A e \in Devices \ {d} : session'[e] = session[e]
      /\ session' \in [Devices -> {"none", "plain", "expiring"}]
  BY <1>1 DEF IInv, TypeOK
<1>3. TypeOK'
  BY <1>1, <1>2 DEF IInv, TypeOK, loginVars, countVars
<1>4. CallsKnow'
  <2>1. ASSUME NEW o \in Calls, call[o].pc \in {"store", "keep"}
        PROVE  session'[call[o].new] = session[call[o].new]
    BY <1>1, <1>2, <2>1 DEF IInv, CallsKnow
  <2>2. QED
    BY <1>1, <2>1 DEF IInv, CallsKnow, Early
<1>5. OneMaker' /\ RootsMade' /\ OneSessionPerLogin'
  BY <1>1, <1>2 DEF IInv, OneMaker, RootsMade, OneSessionPerLogin
<1>6. \A o \in Calls : (Renews(o)' <=> Renews(o)) /\ RootOf(o)' = RootOf(o)
  BY <1>1 DEF Renews, RootOf
<1>7. LiveOrRenewed' /\ RenewedOnce'
  BY <1>1, <1>2, <1>6 DEF IInv, LiveOrRenewed, RenewedOnce
<1>8. EndedForGood' /\ BlacklistLasts'
  BY <1>1, <1>2 DEF IInv, EndedForGood, LogsOut, BlacklistLasts
<1>9. QED
  BY <1>3, <1>4, <1>5, <1>7, <1>8 DEF IInv

LEMMA LogoutKeeps ==
    ASSUME IInv, NEW c \in Calls, NEW d \in Devices, Logout(c, d) PROVE IInv'
<1>1. /\ call[c].pc = "idle" /\ call'[c].pc = "end" /\ call'[c].device = d
      /\ \A o \in Calls \ {c} : call'[o] = call[o]
      /\ call' \in [Calls -> CallStates]
      /\ calls' \in 0..MaxCalls /\ UNCHANGED crashes
  BY BeginMoves DEF Logout, IInv
<1>2. /\ d \in given
      /\ UNCHANGED <<now, session, made, given, blacklist, loggedOut, forked, loginVars>>
  BY DEF Logout, HttpAccepts, SocketAccepts, tokenVars
<1>3. TypeOK'
  BY <1>1, <1>2 DEF IInv, TypeOK, loginVars
<1>4. CallsKnow'
  BY <1>1, <1>2, Devs DEF IInv, CallsKnow, Early
<1>5. OneMaker' /\ RootsMade' /\ OneSessionPerLogin'
  BY <1>1, <1>2 DEF IInv, OneMaker, RootsMade, OneSessionPerLogin
<1>6. /\ \A o \in Calls \ {c} : (Renews(o)' <=> Renews(o)) /\ RootOf(o)' = RootOf(o)
      /\ ~Renews(c)'
  BY <1>1, <1>2 DEF Renews, RootOf
<1>7. LiveOrRenewed' /\ RenewedOnce'
  BY <1>1, <1>2, <1>6 DEF IInv, LiveOrRenewed, RenewedOnce
<1>8. EndedForGood' /\ BlacklistLasts'
  BY <1>1, <1>2 DEF IInv, EndedForGood, LogsOut, BlacklistLasts
<1>9. QED
  BY <1>3, <1>4, <1>5, <1>7, <1>8 DEF IInv

LEMMA EndKeeps ==
    ASSUME IInv, NEW c \in Calls, EndSession(c), NEW d, d = call[c].device PROVE IInv'
<1>1. call[c].pc = "end" /\ d # None /\ d \in given /\ d \in Devices
  BY Devs DEF EndSession, At
<1>2. /\ call'[c].pc = "blacklist" /\ call'[c].device = d
      /\ \A o \in Calls \ {c} : call'[o] = call[o]
      /\ call' \in [Calls -> CallStates]
  BY GotoMoves DEF EndSession, IInv
<1>3. /\ session' = [session EXCEPT ![d] = "none"]
      /\ UNCHANGED <<now, made, given, blacklist, loggedOut, loginVars, countVars>>
      /\ forked \subseteq forked'
      /\ (\E o \in Calls : /\ call[o].device = d
                           /\ call[o].pc \in {"drop", "sign", "store", "keep"})
             => made[d].root \in forked'
  BY DEF EndSession, Ended, UsedBy
<1>4. /\ session'[d] = "none" /\ \A e \in Devices \ {d} : session'[e] = session[e]
      /\ session' \in [Devices -> {"none", "plain", "expiring"}]
  BY <1>1, <1>3 DEF IInv, TypeOK
<1>5. forked' \subseteq Devices
  BY <1>1, Devs DEF EndSession, IInv, TypeOK
<1>6. TypeOK'
  BY <1>2, <1>3, <1>4, <1>5 DEF IInv, TypeOK, loginVars, countVars
<1>7. CallsKnow'
  <2>1. ASSUME NEW o \in Calls, call[o].pc \in {"store", "keep"}
        PROVE  session'[call[o].new] = session[call[o].new]
    BY <1>1, <1>4, <2>1 DEF IInv, CallsKnow
  <2>2. QED
    BY <1>1, <1>2, <1>3, <2>1 DEF IInv, CallsKnow, Early
<1>8. OneMaker' /\ RootsMade' /\ OneSessionPerLogin'
  BY <1>2, <1>3, <1>4 DEF IInv, OneMaker, RootsMade, OneSessionPerLogin
<1>9. /\ \A o \in Calls \ {c} : (Renews(o)' <=> Renews(o)) /\ RootOf(o)' = RootOf(o)
      /\ ~Renews(c)'
  BY <1>2, <1>3 DEF Renews, RootOf
<1>10. LiveOrRenewed' /\ RenewedOnce'
  BY <1>2, <1>3, <1>4, <1>9 DEF IInv, LiveOrRenewed, RenewedOnce
<1>11. EndedForGood'
  <2>1. \A e \in Devices : LogsOut(e)' => LogsOut(e) \/ e = d
    BY <1>2, <1>3 DEF LogsOut
  <2>2. QED
    BY <1>1, <1>2, <1>3, <1>4, <2>1 DEF IInv, EndedForGood
<1>12. BlacklistLasts'
  BY <1>3 DEF IInv, BlacklistLasts
<1>13. QED
  BY <1>6, <1>7, <1>8, <1>10, <1>11, <1>12 DEF IInv

LEMMA BlacklistKeeps ==
    ASSUME IInv, NEW c \in Calls, BlacklistToken(c), NEW d, d = call[c].device PROVE IInv'
<1>1. call[c].pc = "blacklist" /\ d # None /\ d \in given /\ d \in Devices
  BY Devs DEF BlacklistToken, At
<1>2. /\ call'[c] = Idle /\ call'[c].pc = "idle" /\ call'[c].device = None
      /\ \A o \in Calls \ {c} : call'[o] = call[o]
      /\ call' \in [Calls -> CallStates]
  BY ReturnMoves DEF BlacklistToken, IInv
<1>3. /\ loggedOut' = loggedOut \cup {d}
      /\ UNCHANGED <<now, session, made, given, forked, loginVars, countVars>>
  BY DEF BlacklistToken
<1>4. /\ now \in Nat /\ made[d].exp \in Nat /\ blacklist \in [Devices -> Nat]
      /\ \A e \in loggedOut : made[e].exp \in Nat /\ e \in Devices
  BY <1>1, AuthAssumption DEF IInv, TypeOK
<1>5. /\ blacklist' \in [Devices -> Nat]
      /\ \A e \in Devices \ {d} : blacklist'[e] = blacklist[e]
      /\ 2 * made[d].exp <= blacklist'[d] \/ 2 * made[d].exp <= now
  <2>1. CASE now \div 2 < made[d].exp
    <3>1. blacklist' = [blacklist EXCEPT ![d] = now + 2 * Rest(d)]
      BY <2>1 DEF BlacklistToken
    <3>2. /\ now + 2 * Rest(d) \in Nat /\ 2 * made[d].exp <= now + 2 * Rest(d)
      BY <1>4, <2>1 DEF Rest
    <3>3. QED
      BY <1>1, <1>4, <3>1, <3>2
  <2>2. CASE ~(now \div 2 < made[d].exp)
    <3>1. UNCHANGED blacklist
      BY <2>2 DEF BlacklistToken
    <3>2. 2 * made[d].exp <= now
      BY <1>4, <2>2
    <3>3. QED
      BY <1>4, <3>1, <3>2
  <2>3. QED
    BY <2>1, <2>2
<1>6. TypeOK'
  BY <1>1, <1>2, <1>3, <1>5 DEF IInv, TypeOK, loginVars, countVars
<1>7. CallsKnow'
  BY <1>1, <1>2, <1>3 DEF IInv, CallsKnow, Early
<1>8. OneMaker' /\ RootsMade' /\ OneSessionPerLogin'
  BY <1>2, <1>3 DEF IInv, OneMaker, RootsMade, OneSessionPerLogin
<1>9. /\ \A o \in Calls \ {c} : (Renews(o)' <=> Renews(o)) /\ RootOf(o)' = RootOf(o)
      /\ ~Renews(c)'
  BY <1>2, <1>3 DEF Renews, RootOf
<1>10. LiveOrRenewed' /\ RenewedOnce'
  BY <1>2, <1>3, <1>9 DEF IInv, LiveOrRenewed, RenewedOnce
<1>11. EndedForGood'
  <2>1. \A e \in Devices : LogsOut(e)' => LogsOut(e)
    BY <1>1, <1>2, <1>3 DEF LogsOut
  <2>2. QED
    BY <1>1, <1>2, <1>3, <2>1 DEF IInv, EndedForGood
<1>12. BlacklistLasts'
  BY <1>1, <1>3, <1>4, <1>5 DEF IInv, BlacklistLasts
<1>13. QED
  BY <1>6, <1>7, <1>8, <1>10, <1>11, <1>12 DEF IInv
\* A device is made that no call, session or login knew before.
LEMMA SignKeeps == ASSUME IInv, NEW c \in Calls, Sign(c) PROVE IInv'
<1> DEFINE Row(from, d) ==
        [from |-> from, exp |-> now \div 2 + Life,
         root |-> IF from = None THEN d ELSE made[from].root]
<1>1. PICK d \in Devices, from \in Devices \cup {None} :
          /\ from = call[c].device /\ call[c].pc = "sign" /\ made[d].root = None
          /\ made' = [made EXCEPT ![d] = Row(from, d)]
          /\ call' = [call EXCEPT ![c].pc = "store", ![c].new = d]
          /\ UNCHANGED <<now, session, given, blacklist, loggedOut, forked, loginVars,
                         countVars>>
  BY Devs DEF Sign, At, CallStates
<1>2. from # None => from \in given /\ from \in Devices /\ made[from].root \in Devices
  BY <1>1, Devs
<1>3. d # None /\ d \notin given /\ session[d] = "none" /\ from # d
  BY <1>1, <1>2, Devs DEF IInv, TypeOK, RootsMade
<1>4. now \div 2 + Life \in Nat
  BY AuthAssumption DEF IInv, TypeOK
<1>5. Row(from, d) \in [from : Devices \cup {None}, root : Devices, exp : Nat]
  BY <1>2, <1>4
<1>6. /\ made' \in [Devices -> [from : Devices \cup {None}, root : Devices \cup {None},
                              exp : Nat]]
      /\ \A e \in Devices \ {d} : made'[e] = made[e]
      /\ made'[d].root = IF from = None THEN d ELSE made[from].root
  BY <1>1, <1>5 DEF IInv, TypeOK
<1>7. made'[d].root \in Devices
  BY <1>2, <1>6
<1>8. /\ call'[c].pc = "store" /\ call'[c].device = from /\ call'[c].new = d
      /\ \A o \in Calls \ {c} : call'[o] = call[o]
      /\ call' \in [Calls -> CallStates]
  <2>1. call[c] \in CallStates
    BY Devs
  <2>2. /\ [call[c] EXCEPT !.pc = "store", !.new = d] \in CallStates
        /\ [call[c] EXCEPT !.pc = "store", !.new = d].pc = "store"
        /\ [call[c] EXCEPT !.pc = "store", !.new = d].device = from
        /\ [call[c] EXCEPT !.pc = "store", !.new = d].new = d
    BY <1>1, <2>1 DEF CallStates
  <2>3. call' = [call EXCEPT ![c] = [call[c] EXCEPT !.pc = "store", !.new = d]]
    BY <1>1
  <2>4. QED
    BY <2>2, <2>3, CallMoves DEF IInv
<1>9. TypeOK'
  <2>1. given \subseteq {e \in Devices : made'[e].root # None}
    BY <1>3, <1>6 DEF IInv, TypeOK
  <2>2. QED
    BY <1>1, <1>6, <1>8, <2>1 DEF IInv, TypeOK, loginVars, countVars
<1>10. \A e \in given : e # d /\ made'[e] = made[e]
  BY <1>3, <1>6, Devs
<1>11. \A o \in Calls : call[o].pc \in {"store", "keep"} =>
           call[o].new # d /\ made'[call[o].new] = made[call[o].new]
  BY <1>1, <1>6 DEF IInv, CallsKnow
<1>12. CallsKnow'
  <2>1. ASSUME NEW o \in Calls \ {c}
        PROVE  /\ call'[o].device \in given \cup {None}
               /\ call'[o].pc \in Early => call'[o].device = None
               /\ call'[o].pc \in {"drop", "end", "blacklist"} => call'[o].device # None
               /\ call'[o].pc \in {"store", "keep"} =>
                     /\ call'[o].new \in Devices /\ call'[o].new \notin given
                     /\ made'[call'[o].new].root # None
                     /\ call'[o].device # None =>
                           made'[call'[o].new].root = made'[call'[o].device].root
                     /\ session[call'[o].new] = IF call'[o].pc = "store" THEN "none" ELSE "plain"
    BY <1>8, <1>10, <1>11 DEF IInv, CallsKnow
  <2>2. /\ from \in given \cup {None}
        /\ made'[d].root # None
        /\ from # None => made'[d].root = made'[from].root
    BY <1>2, <1>6, <1>7, <1>10, Devs
  <2>3. QED
    BY <1>1, <1>3, <1>8, <2>1, <2>2 DEF CallsKnow, Early
<1>13. OneMaker'
  BY <1>8, <1>11 DEF IInv, OneMaker
<1>14. RootsMade'
  <2>1. ASSUME NEW e \in Devices \ {d}, made[e].root # None
        PROVE  made'[made[e].root].root # None
    <3>1. made[e].root \in Devices /\ made[made[e].root].root # None
      BY <2>1 DEF IInv, TypeOK, RootsMade
    <3>2. QED
      BY <1>1, <1>6, <3>1
  <2>2. made'[made'[d].root].root # None
    <3>1. CASE from = None
      BY <1>3, <1>6, <3>1
    <3>2. CASE from # None
      <4>1. made[from].root # None /\ from \in Devices \ {d}
        BY <1>2, <1>3, <3>2, Devs
      <4>2. QED
        BY <1>6, <2>1, <3>2, <4>1
    <3>3. QED
      BY <3>1, <3>2
  <2>3. QED
    BY <1>1, <1>3, <1>6, <2>1, <2>2 DEF IInv, RootsMade
<1>15. \A e \in Devices : session[e] # "none" => made'[e] = made[e]
  BY <1>3, <1>6
<1>16. OneSessionPerLogin'
  BY <1>1, <1>15 DEF IInv, OneSessionPerLogin
<1>17. \A o \in Calls \ {c} : /\ Renews(o)' <=> Renews(o)
                              /\ Renews(o) => RootOf(o)' = RootOf(o)
  <2>1. ASSUME NEW o \in Calls \ {c}, Renews(o) PROVE RootOf(o)' = RootOf(o)
    <3>1. CASE call[o].pc = "store"
      BY <1>8, <1>11, <3>1 DEF RootOf
    <3>2. CASE call[o].pc # "store"
      <4>1. call[o].device \in given
        BY <2>1, <3>2, Devs DEF Renews
      <4>2. QED
        BY <1>8, <1>10, <3>2, <4>1 DEF RootOf
    <3>3. QED
      BY <3>1, <3>2
  <2>2. QED
    BY <1>8, <2>1 DEF Renews
<1>18. RootOf(c)' = made'[d].root
  BY <1>8 DEF RootOf
\* Without a device the login is new, and no session or renewal belongs to it.
<1>19. ASSUME from = None PROVE LiveOrRenewed' /\ RenewedOnce'
  <2>1. \A e \in Devices : made[e].root # d
    BY <1>1, <1>3 DEF IInv, RootsMade
  <2>2. \A o \in Calls : Renews(o) => RootOf(o) # d
    <3>1. ASSUME NEW o \in Calls, Renews(o) PROVE RootOf(o) # d
      <4>1. call[o].pc = "store" => call[o].new \in Devices
        BY Devs
      <4>2. call[o].pc # "store" => call[o].device \in Devices
        BY <3>1, Devs DEF Renews
      <4>3. QED
        BY <2>1, <4>1, <4>2 DEF RootOf
    <3>2. QED
      BY <3>1
  <2>3. RootOf(c)' = d
    BY <1>6, <1>18, <1>19
  <2>4. LiveOrRenewed'
    BY <1>1, <1>8, <1>15, <1>17, <2>1, <2>3 DEF IInv, LiveOrRenewed
  <2>5. RenewedOnce'
    BY <1>1, <1>17, <2>2, <2>3 DEF IInv, RenewedOnce
  <2>6. QED
    BY <2>4, <2>5
\* With a device the call goes on with the renewal that it was.
<1>20. ASSUME from # None PROVE LiveOrRenewed' /\ RenewedOnce'
  <2>1. Renews(c) /\ RootOf(c) = made[from].root /\ RootOf(c)' = RootOf(c)
    BY <1>1, <1>6, <1>18, <1>20 DEF Renews, RootOf
  <2>2. LiveOrRenewed'
    BY <1>1, <1>8, <1>15, <1>17, <2>1 DEF IInv, LiveOrRenewed
  <2>3. RenewedOnce'
    BY <1>1, <1>17, <2>1 DEF IInv, RenewedOnce
  <2>4. QED
    BY <2>2, <2>3
<1>21. EndedForGood'
  <2>1. \A e \in Devices : LogsOut(e)' => LogsOut(e) /\ e \in given
    BY <1>1, <1>8, Devs DEF LogsOut, IInv, TypeOK
  <2>2. \A o \in Calls :
            /\ call'[o].device = call[o].device
            /\ call'[o].pc \in {"drop", "sign", "store", "keep"}
                  => call[o].pc \in {"drop", "sign", "store", "keep"}
    BY <1>1, <1>8
  <2>3. ASSUME NEW e \in Devices, LogsOut(e)'
        PROVE  /\ session[e] = "none"
               /\ \A o \in Calls : /\ call'[o].pc \in {"drop", "sign", "store", "keep"}
                                   /\ call'[o].device = e
                                   => made'[e].root \in forked
    <3>1. made'[e] = made[e] /\ LogsOut(e)
      BY <1>10, <2>1, <2>3
    <3>2. /\ session[e] = "none"
          /\ \A o \in Calls : /\ call[o].pc \in {"drop", "sign", "store", "keep"}
                              /\ call[o].device = e
                              => made[e].root \in forked
      BY <3>1 DEF IInv, EndedForGood
    <3>3. ASSUME NEW o \in Calls, call'[o].pc \in {"drop", "sign", "store", "keep"},
                 call'[o].device = e
          PROVE  made'[e].root \in forked
      <4>1. call[o].pc \in {"drop", "sign", "store", "keep"} /\ call[o].device = e
        BY <2>2, <3>3
      <4>2. QED
        BY <3>1, <3>2, <4>1
    <3>4. QED
      BY <3>2, <3>3
  <2>4. QED
    BY <1>1, <2>3 DEF EndedForGood
<1>22. BlacklistLasts'
  BY <1>1, <1>10 DEF IInv, BlacklistLasts, TypeOK
<1>23. QED
  BY <1>9, <1>12, <1>13, <1>14, <1>16, <1>19, <1>20, <1>21, <1>22 DEF IInv

LEMMA InvStep == IInv /\ [Next]_vars => IInv'
<1>1. SUFFICES ASSUME IInv, [Next]_vars PROVE IInv'
  OBVIOUS
<1>2. ASSUME NEW c \in Calls, CallStep(c) PROVE IInv'
  BY <1>1, <1>2, EarlyKeeps, SignKeeps, StoreKeeps, KeepKeeps, DropKeeps, EndKeeps,
     BlacklistKeeps DEF CallStep
<1>3. ASSUME NEW c \in Calls, Register(c) \/ Login(c) \/ Crash(c) PROVE IInv'
  BY <1>1, <1>3, RegisterKeeps, LoginKeeps, CrashKeeps
<1>4. ASSUME NEW c \in Calls, NEW d \in Devices, Refresh(c, d) \/ Logout(c, d) PROVE IInv'
  BY <1>1, <1>4, RefreshKeeps, LogoutKeeps
<1>5. ASSUME NEW d \in Devices, SessionEnds(d) PROVE IInv'
  BY <1>1, <1>5, EndsKeeps
<1>6. CASE WindowEnds \/ Tick \/ UNCHANGED vars
  BY <1>1, <1>6, TimeKeeps
<1>7. QED
  BY <1>1, <1>2, <1>3, <1>4, <1>5, <1>6 DEF Next

\* The inductive invariant holds of every reachable state.
THEOREM Invariant == Spec => []IInv
BY InvInit, InvStep, PTL DEF Spec

\* Every variable keeps its type; the login counter that fades is there.
THEOREM TypeCorrect == Spec => []TypeOK
<1>1. IInv => TypeOK
  BY DEF IInv
<1>2. QED
  BY <1>1, Invariant, PTL

\* However refreshes, logouts and crashes interleave, a login has one live
\* session, unless two calls used one session at once
\* (AuthService.refreshTokens).
THEOREM LoginHasOneSession == Spec => []OneSessionPerLogin
<1>1. IInv => OneSessionPerLogin
  BY DEF IInv
<1>2. QED
  BY <1>1, Invariant, PTL

\* Over HTTP the blacklist outlasts the signature of a token that was logged
\* out, whatever its life and whenever the logout (AuthService.logout). The
\* sockets do not read it, and nothing is said of them.
THEOREM LogoutIsFinal == Spec => []LoggedOutIsRefusedByHttp
<1>1. IInv => LoggedOutIsRefusedByHttp
  <2>1. SUFFICES ASSUME IInv, NEW d \in loggedOut, HttpAccepts(d) PROVE FALSE
    BY DEF LoggedOutIsRefusedByHttp
  <2>2. now \in Nat /\ made[d].exp \in Nat /\ blacklist[d] \in Nat
    BY <2>1, AuthAssumption DEF IInv, TypeOK
  <2>3. 2 * made[d].exp <= blacklist[d] \/ 2 * made[d].exp <= now
    BY <2>1 DEF IInv, BlacklistLasts
  <2>4. now \div 2 < made[d].exp /\ blacklist[d] <= now
    BY <2>1, <2>2 DEF HttpAccepts, SocketAccepts
  <2>5. QED
    BY <2>2, <2>3, <2>4
<1>2. QED
  BY <1>1, Invariant, PTL

\* A refresh of a device that logged out stores no session unless it was
\* under way at the logout (AuthService.logout).
THEOREM LogoutEndsRefresh == Spec => LogoutEndsDevice
<1>1. IInv => \A c \in Calls : StoreSession(c) /\ call[c].device \in loggedOut
                                  => made[call[c].new].root \in forked
  <2>1. SUFFICES ASSUME IInv, NEW c \in Calls, StoreSession(c), NEW d \in loggedOut,
                        d = call[c].device
                 PROVE  made[call[c].new].root \in forked
    OBVIOUS
  <2>2. call[c].pc = "store" /\ d \in given /\ d \in Devices /\ d # None
    BY <2>1, Devs DEF StoreSession, At, IInv, TypeOK
  <2>3. made[d].root \in forked
    BY <2>1, <2>2 DEF IInv, EndedForGood, LogsOut
  <2>4. QED
    BY <2>1, <2>2, <2>3 DEF IInv, CallsKnow
<1>2. QED
  BY <1>1, Invariant, PTL DEF LogoutEndsDevice
-----------------------------------------------------------------------------
\* A step that keeps the counter and its time to live, and takes no call from
\* the time to live it is to set.
LEMMA TimedKeeps ==
    ASSUME CountIsTimed, UNCHANGED <<tries, fading, crashes>>,
           \A o \in Calls : At(o, "fade") => At(o, "fade")'
    PROVE  CountIsTimed'
BY DEF CountIsTimed

\* A step of a call that was not about to set the time to live.
LEMMA TimedElsewhere ==
    ASSUME TypeOK, CountIsTimed, NEW c \in Calls, call[c].pc # "fade",
           NEW r, call' = [call EXCEPT ![c] = r],
           UNCHANGED <<tries, fading, crashes>>
    PROVE  CountIsTimed'
<1>1. \A o \in Calls : o # c => call'[o] = call[o]
  BY DEF TypeOK
<1>2. QED
  BY <1>1, TimedKeeps DEF At

LEMMA TimedStep == TypeOK /\ CountIsTimed /\ [Next]_vars => CountIsTimed'
<1>1. SUFFICES ASSUME TypeOK, CountIsTimed, [Next]_vars PROVE CountIsTimed'
  OBVIOUS
<1>a. tries \in Nat /\ crashes \in Nat
  BY <1>1, AuthAssumption DEF TypeOK
<1>2. ASSUME NEW c \in Calls, CountTry(c) PROVE CountIsTimed'
  <2>1. /\ call[c].pc = "count" /\ tries' = tries + 1 /\ UNCHANGED <<fading, crashes>>
        /\ tries' = 1 => Goto(c, "fade")
        /\ \A o \in Calls : o # c => call'[o] = call[o]
    BY <1>1, <1>2 DEF CountTry, At, Goto, Return, countVars, TypeOK
  <2>2. CASE tries = 0
    <3>1. At(c, "fade")'
      BY <1>1, <2>1, <2>2 DEF Goto, At, TypeOK, CallStates
    <3>2. QED
      BY <3>1 DEF CountIsTimed
  <2>3. CASE tries > 0
    BY <1>1, <2>1, <2>3 DEF CountIsTimed, At
  <2>4. QED
    BY <1>a, <2>2, <2>3
<1>3. ASSUME NEW c \in Calls, StartWindow(c) PROVE CountIsTimed'
  <2>1. UNCHANGED tries /\ (fading' = (tries > 0))
    BY <1>3 DEF StartWindow, Window
  <2>2. QED
    BY <2>1 DEF CountIsTimed
<1>4. ASSUME NEW c \in Calls, ResetTries(c) PROVE CountIsTimed'
  BY <1>4 DEF ResetTries, DelTries, CountIsTimed
<1>5. ASSUME NEW c \in Calls, Crash(c) PROVE CountIsTimed'
  <2>1. crashes' > 0
    BY <1>a, <1>5 DEF Crash
  <2>2. QED
    BY <2>1 DEF CountIsTimed
<1>6. ASSUME NEW c \in Calls,
             InsertUser(c) \/ Compare(c) \/ StoreSession(c) \/ KeepSession(c)
                \/ DropSession(c) \/ EndSession(c) \/ BlacklistToken(c)
      PROVE  CountIsTimed'
  <2>1. call[c].pc # "fade" /\ UNCHANGED <<tries, fading, crashes>>
    BY <1>6 DEF InsertUser, Compare, StoreSession, KeepSession, DropSession, EndSession,
                BlacklistToken, At, loginVars, countVars
  <2>2. Return(c) \/ \E pc \in {"sign", "reset", "keep", "blacklist"} : Goto(c, pc)
    BY <1>6 DEF InsertUser, Compare, StoreSession, KeepSession, DropSession, EndSession,
                BlacklistToken
  <2>3. \E r : call' = [call EXCEPT ![c] = r]
    BY <2>2 DEF Return, Goto
  <2>4. QED
    BY <1>1, <2>1, <2>3, TimedElsewhere
<1>7. ASSUME NEW c \in Calls, Sign(c) PROVE CountIsTimed'
  <2>1. call[c].pc # "fade" /\ UNCHANGED <<tries, fading, crashes>>
    BY <1>7 DEF Sign, At, loginVars, countVars
  <2>2. \E r : call' = [call EXCEPT ![c] = r]
    BY <1>7 DEF Sign
  <2>3. QED
    BY <1>1, <2>1, <2>2, TimedElsewhere
<1>8. ASSUME NEW c \in Calls, NEW d \in Devices, Refresh(c, d) \/ Logout(c, d)
      PROVE  CountIsTimed'
  <2>1. /\ call[c].pc # "fade" /\ UNCHANGED <<tries, fading, crashes>>
        /\ \E r : call' = [call EXCEPT ![c] = r]
    BY <1>8 DEF Refresh, Logout, Begin, At, loginVars
  <2>2. QED
    BY <1>1, <2>1, TimedElsewhere
<1>9. CASE WindowEnds
  BY <1>9 DEF WindowEnds, DelTries, CountIsTimed
<1>10. ASSUME Tick \/ UNCHANGED vars \/ \E d \in Devices : SessionEnds(d)
       PROVE  CountIsTimed'
  <2>1. UNCHANGED <<tries, fading, crashes, call>>
    BY <1>10 DEF Tick, SessionEnds, vars, loginVars, countVars
  <2>2. QED
    BY <1>1, <2>1, TimedKeeps DEF At
<1>11. ASSUME NEW c \in Calls, Register(c) \/ Login(c) PROVE CountIsTimed'
  <2>1. /\ call[c].pc # "fade" /\ UNCHANGED <<tries, fading, crashes>>
        /\ \E r : call' = [call EXCEPT ![c] = r]
    BY <1>11 DEF Register, Login, Begin, At, loginVars
  <2>2. QED
    BY <1>1, <2>1, TimedElsewhere
<1>12. ASSUME NEW c \in Calls, CallStep(c) PROVE CountIsTimed'
  BY <1>2, <1>3, <1>4, <1>6, <1>7, <1>12 DEF CallStep
<1>13. QED
  BY <1>1, <1>5, <1>8, <1>9, <1>10, <1>11, <1>12 DEF Next

\* However counts, resets and the ends of windows fall, no address is locked
\* out without a time to live on its counter, unless a process died
\* (AuthService.enforceLoginRateLimit).
THEOREM CountsAreTimed == Spec => []CountIsTimed
<1>1. Init => CountIsTimed
  BY DEF Init, CountIsTimed
<1>2. IInv => TypeOK
  BY DEF IInv
<1>3. QED
  BY <1>1, <1>2, Invariant, TimedStep, PTL DEF Spec
=============================================================================
