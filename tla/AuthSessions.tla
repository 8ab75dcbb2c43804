---------------------------- MODULE AuthSessions ----------------------------
(***************************************************************************)
(* The account of one user, its sessions and its tokens: AuthService with  *)
(* the two guards of the access token (JwtStrategy for HTTP, and           *)
(* authenticateWsClient for the sockets) and the login limiter of one      *)
(* address. Accounts share nothing.                                        *)
(*                                                                         *)
(* Every login, registration and refresh makes a new device id, so that a  *)
(* session has one refresh token for life: the branch of refreshTokens for *)
(* a token whose hash differs cannot be reached and is left out. So is the *)
(* one for an inactive user: no code deactivates any. Calls are sequences  *)
(* of steps that end at an await; a call refused before its first write is *)
(* no call here. Time is in half seconds, because JWTs count whole ones.   *)
(***************************************************************************)
EXTENDS Naturals

CONSTANTS Calls,        \* calls handled at a time
          MaxDevices,   \* bound: device ids
          MaxCalls,     \* bound: calls
          MaxTime,      \* bound: half seconds
          MaxCrashes,   \* bound: crashes
          Life,         \* seconds an access token is valid, 900 in the code
          MaxTries      \* LOGIN_RATE_LIMIT_MAX, 5 in the code

ASSUME AuthAssumption ==
    /\ {MaxDevices, MaxCalls, MaxTime, MaxCrashes, Life} \subseteq Nat
    /\ MaxTries \in Nat \ {0}

VARIABLES
    now,         \* half seconds
    account,     \* the users row exists
    session,     \* of each device: none, plain, or expiring with a TTL
    made,        \* of each device: where it comes from and its token's exp
    given,       \* devices whose tokens a client has
    blacklist,   \* of each device: when the key of its access token ends
    loggedOut,   \* devices whose logout returned
    forked,      \* logins of which two calls used one session at once
    tries,       \* login:fail counter, 0 without the key
    fading,      \* the counter has a time to live
    call,        \* progress of each call
    calls, crashes    \* counted against the bounds

tokenVars == <<made, given, blacklist, loggedOut, forked>>
loginVars == <<account, tries, fading>>
countVars == <<calls, crashes>>
vars == <<now, session, tokenVars, loginVars, call, countVars>>
-----------------------------------------------------------------------------
Devices == 1..MaxDevices

None == 0

Idle == [pc |-> "idle", device |-> None, new |-> None]

CallStates ==
    [pc : {"idle", "insert", "count", "fade", "compare", "reset", "sign",
           "store", "keep", "drop", "end", "blacklist"},
     device : Devices \cup {None}, new : Devices \cup {None}]

TypeOK ==
    /\ now \in 0..MaxTime
    /\ account \in BOOLEAN /\ fading \in BOOLEAN
    /\ session \in [Devices -> {"none", "plain", "expiring"}]
    /\ made \in [Devices -> [from : Devices \cup {None}, root : Devices \cup {None},
                             exp : Nat]]
    /\ given \subseteq {d \in Devices : made[d].root # None}
    /\ blacklist \in [Devices -> Nat]
    /\ loggedOut \subseteq given /\ forked \subseteq Devices
    /\ tries \in Nat /\ (fading => tries > 0)
    /\ call \in [Calls -> CallStates]
    /\ calls \in 0..MaxCalls /\ crashes \in 0..MaxCrashes

Init ==
    /\ now = 0 /\ account = FALSE
    /\ session = [d \in Devices |-> "none"]
    /\ made = [d \in Devices |-> [from |-> None, root |-> None, exp |-> 0]]
    /\ given = {} /\ blacklist = [d \in Devices |-> 0]
    /\ loggedOut = {} /\ forked = {}
    /\ tries = 0 /\ fading = FALSE
    /\ call = [c \in Calls |-> Idle]
    /\ calls = 0 /\ crashes = 0

At(c, pc) == call[c].pc = pc

Goto(c, pc) == call' = [call EXCEPT ![c].pc = pc]

Return(c) == call' = [call EXCEPT ![c] = Idle]

\* A request arrives and gets as far as pc with the tokens of the device.
Begin(c, pc, d) ==
    /\ At(c, "idle") /\ calls < MaxCalls /\ calls' = calls + 1
    /\ call' = [call EXCEPT ![c] = [pc |-> pc, device |-> d, new |-> None]]
    /\ UNCHANGED crashes
-----------------------------------------------------------------------------
(* Registration and login.                                                 *)

\* What UserService finds by email, by phone and by id.
UserFound == account

\* Neither the email nor the phone is taken; the password is hashed.
Register(c) ==
    /\ ~UserFound /\ Begin(c, "insert", None)
    /\ UNCHANGED <<now, session, tokenVars, loginVars>>

\* The unique indexes of the users table let one insert through.
InsertUser(c) ==
    /\ At(c, "insert") /\ account' = TRUE
    /\ IF account THEN Return(c) ELSE Goto(c, "sign")
    /\ UNCHANGED <<now, session, tokenVars, tries, fading, countVars>>

Login(c) ==
    /\ Begin(c, "count", None)
    /\ UNCHANGED <<now, session, tokenVars, loginVars>>

\* enforceLoginRateLimit: INCR keeps the time to live of the key.
CountTry(c) ==
    /\ At(c, "count") /\ tries' = tries + 1
    /\ IF tries' = 1 THEN Goto(c, "fade")
       ELSE IF tries' > MaxTries THEN Return(c) ELSE Goto(c, "compare")
    /\ UNCHANGED <<now, session, tokenVars, account, fading, countVars>>

FaultWindow == FALSE

\* EXPIRE does nothing without the key.
Window == tries > 0

StartWindow(c) ==
    /\ At(c, "fade") /\ fading' = Window /\ Goto(c, "compare")
    /\ UNCHANGED <<now, session, tokenVars, account, tries, countVars>>

\* bcrypt.compare with the hash of the user, or a dummy without one.
Compare(c) ==
    /\ At(c, "compare")
    /\ (UserFound /\ Goto(c, "reset")) \/ Return(c)
    /\ UNCHANGED <<now, session, tokenVars, loginVars, countVars>>

FaultDelTries == tries' = 0 /\ fading' = fading

DelTries == tries' = 0 /\ fading' = FALSE

\* resetLoginRateLimit, and the time of the login is written to the row.
ResetTries(c) ==
    /\ At(c, "reset") /\ DelTries /\ Goto(c, "sign")
    /\ UNCHANGED <<now, session, tokenVars, account, countVars>>

\* Fifteen minutes after the first try.
WindowEnds ==
    /\ fading /\ DelTries
    /\ UNCHANGED <<now, session, tokenVars, account, call, countVars>>
-----------------------------------------------------------------------------
(* issueTokens.                                                            *)

\* New ids and the signed tokens.
Sign(c) ==
    \E d \in Devices :
        LET from == call[c].device IN
        /\ At(c, "sign")
        /\ made[d].root = None /\ \A e \in Devices : e < d => made[e].root # None
        /\ made' = [made EXCEPT ![d] =
               [from |-> from, exp |-> now \div 2 + Life,
                root |-> IF from = None THEN d ELSE made[from].root]]
        /\ call' = [call EXCEPT ![c].pc = "store", ![c].new = d]
        /\ UNCHANGED <<now, session, given, blacklist, loggedOut, forked, loginVars,
                       countVars>>

\* HSET of the session.
StoreSession(c) ==
    /\ At(c, "store") /\ session' = [session EXCEPT ![call[c].new] = "plain"]
    /\ Goto(c, "keep")
    /\ UNCHANGED <<now, tokenVars, loginVars, countVars>>

\* EXPIRE of the session, after which the reply sets the cookies.
KeepSession(c) ==
    LET d == call[c].new IN
    /\ At(c, "keep") /\ session' = [session EXCEPT ![d] = "expiring"]
    /\ given' = given \cup {d}
    /\ Return(c)
    /\ UNCHANGED <<now, made, blacklist, loggedOut, forked, loginVars, countVars>>

\* Seven days.
SessionEnds(d) ==
    /\ session[d] = "expiring" /\ session' = [session EXCEPT ![d] = "none"]
    /\ UNCHANGED <<now, tokenVars, loginVars, call, countVars>>
-----------------------------------------------------------------------------
(* refreshTokens and logout.                                               *)

UsedBy(d, pcs) == \E c \in Calls : call[c].device = d /\ call[c].pc \in pcs

\* A refresh token that the guard accepts: one of the server's.
Presented(d) == d \in given

\* HGETALL finds the session, and the user is found.
Refresh(c, d) ==
    /\ Presented(d) /\ UserFound /\ session[d] # "none"
    /\ Begin(c, "drop", d)
    /\ forked' = forked \cup IF UsedBy(d, {"drop"}) THEN {made[d].root} ELSE {}
    /\ UNCHANGED <<now, session, made, given, blacklist, loggedOut, loginVars>>

FaultRotated(d) == session

\* DEL.
Rotated(d) == [session EXCEPT ![d] = "none"]

\* The old session goes before the new one is made.
DropSession(c) ==
    /\ At(c, "drop") /\ session' = Rotated(call[c].device) /\ Goto(c, "sign")
    /\ UNCHANGED <<now, tokenVars, loginVars, countVars>>

\* authenticateWsClient: the signature and the time of the access token, which
\* is all that a socket is asked for.
SocketAccepts(d) == d \in given /\ now \div 2 < made[d].exp

\* JwtStrategy: the same, and the key of the blacklist is not there. The
\* guard verifies and then reads the key, here in one step: a key is only
\* read later than it says, and by then the logout has gone further.
HttpAccepts(d) == SocketAccepts(d) /\ now >= blacklist[d]

Logout(c, d) ==
    /\ HttpAccepts(d) /\ Begin(c, "end", d)
    /\ UNCHANGED <<now, session, tokenVars, loginVars>>

FaultEnded(d) == session

Ended(d) == [session EXCEPT ![d] = "none"]

\* DEL of the session, which a refresh may have read.
EndSession(c) ==
    LET d == call[c].device IN
    /\ At(c, "end") /\ session' = Ended(d) /\ Goto(c, "blacklist")
    /\ forked' = forked \cup IF UsedBy(d, {"drop", "sign", "store", "keep"})
                             THEN {made[d].root} ELSE {}
    /\ UNCHANGED <<now, made, given, blacklist, loggedOut, loginVars, countVars>>

FaultRest(d) == made[d].exp - (now + 1) \div 2

\* Seconds the access token has left, from Math.floor of the time.
Rest(d) == made[d].exp - now \div 2

\* SET blacklist:token with EX, unless the token has expired.
BlacklistToken(c) ==
    LET d == call[c].device IN
    /\ At(c, "blacklist")
    /\ blacklist' = IF now \div 2 < made[d].exp
                    THEN [blacklist EXCEPT ![d] = now + 2 * Rest(d)] ELSE blacklist
    /\ loggedOut' = loggedOut \cup {d}
    /\ Return(c)
    /\ UNCHANGED <<now, session, made, given, forked, loginVars, countVars>>

Tick ==
    /\ now < MaxTime /\ now' = now + 1
    /\ UNCHANGED <<session, tokenVars, loginVars, call, countVars>>

\* The process dies with the call.
Crash(c) ==
    /\ ~At(c, "idle") /\ crashes < MaxCrashes /\ crashes' = crashes + 1
    /\ Return(c)
    /\ UNCHANGED <<now, session, tokenVars, loginVars, calls>>
-----------------------------------------------------------------------------
CallStep(c) ==
    \/ InsertUser(c) \/ CountTry(c) \/ StartWindow(c) \/ Compare(c) \/ ResetTries(c)
    \/ Sign(c) \/ StoreSession(c) \/ KeepSession(c) \/ DropSession(c)
    \/ EndSession(c) \/ BlacklistToken(c)

Next ==
    \/ \E c \in Calls : CallStep(c) \/ Register(c) \/ Login(c) \/ Crash(c)
    \/ \E c \in Calls, d \in Devices : Refresh(c, d) \/ Logout(c, d)
    \/ \E d \in Devices : SessionEnds(d)
    \/ WindowEnds \/ Tick

Spec == Init /\ [][Next]_vars

\* Calls go on and the time to live of the counter passes.
FairSpec == Spec /\ WF_vars(WindowEnds) /\ \A c \in Calls : WF_vars(CallStep(c))
-----------------------------------------------------------------------------
\* A login has one live session however often it is refreshed, unless two
\* refreshes read one session before either deleted it
\* (auth.service.ts:121, :143).
OneSessionPerLogin ==
    \A d, e \in Devices :
        /\ d # e /\ session[d] # "none" /\ session[e] # "none"
        /\ made[d].root = made[e].root
        => made[d].root \in forked

\* Over HTTP, an access token whose logout returned is refused for as long as
\* its signature is valid, though one end counts whole seconds and the other
\* does not (auth.service.ts:156, jwt.strategy.ts:30). The sockets do not read
\* the blacklist: there the token is good until its signature is over.
LoggedOutIsRefusedByHttp == \A d \in loggedOut : ~HttpAccepts(d)

\* The refresh token of a device that logged out makes no new session,
\* unless its refresh was under way (auth.service.ts:154).
LogoutEndsDevice ==
    [][\A c \in Calls :
           StoreSession(c) /\ call[c].device \in loggedOut
               => made[call[c].new].root \in forked]_vars

\* An address that is locked out is let in again, unless a process died
\* between the count and its time to live (auth.service.ts:263).
LockoutEnds == (tries > MaxTries) ~> (tries = 0 \/ crashes > 0)

\* The part of it that needs no fairness: however the counts, the resets and
\* the ends of the window fall, a counter has a time to live, or a login that
\* is about to give it one, unless a process died (auth.service.ts:263).
CountIsTimed ==
    tries > 0 => fading \/ crashes > 0 \/ \E c \in Calls : At(c, "fade")
=============================================================================
