-------------------------------- MODULE Accounts --------------------------------
(***************************************************************************)
(* One account: the sign-in with its block after failures, the rows of     *)
(* refresh_tokens and their rotation, the sessions cached in Redis, and    *)
(* the requests that present an access token.                              *)
(*                                                                         *)
(* A token is signed over the account and the second it expires in, and    *)
(* nothing else: two tokens of a kind made in the same second are the same *)
(* string, so a token is the time it was made at.  refresh_tokens.token is *)
(* unique.                                                                 *)
(*                                                                         *)
(* The handlers of logout and of the activation of the second factor look  *)
(* for a user the routes of /auth never set, and always refuse: neither    *)
(* happens.  The key session:<id> is written and never read.               *)
(***************************************************************************)
EXTENDS Naturals

CONSTANTS
    AuthCalls,          \* requests under way at the same time
    MaxNow,             \* bound: the clock
    AccessLife,         \* 15 minutes
    RefreshLife,        \* 7 days
    FailureLimit,       \* 5 failures within a minute
    MaxAuthFaults       \* bound: failed calls of Redis and the database

ASSUME AccountAssumption ==
    /\ MaxNow \in Nat /\ MaxAuthFaults \in Nat
    /\ AccessLife \in Nat \ {0} /\ RefreshLife \in Nat \ {0} /\ FailureLimit \in Nat \ {0}

VARIABLES
    now,
    twoFAEnabled,   \* users.two_fa_enabled
    blocked,        \* whether users.blocked_until lies ahead
    failures,       \* rows of login_attempts that failed within the last minute
    refreshRow,     \* for each token that has a row: the sign-in it descends from
    cachedUntil,    \* when the key "access: <token>" expires; 0 without one
    authCall,       \* what each request is doing
    minted,         \* access tokens handed out that are good for something yet
    signedIn,       \* history: sign-ins of which no refresh token has expired
    authFaults

accountTables  == <<twoFAEnabled, blocked, failures, refreshRow, cachedUntil>>
accountHistory == <<minted, signedIn>>
accountVars    == <<now, accountTables, authCall, accountHistory, authFaults>>

Times     == 0..MaxNow
NoSignIn  == MaxNow + 1
NoRequest == [pc |-> "idle"]
AuthPC    == {"password", "count", "block", "issue", "cache", "rotate", "delete"}
Request(pc, token, root) == [pc |-> pc, token |-> token, root |-> root]

Doing(c, pc) == authCall[c].pc = pc
Do(c, call)  == authCall' = [authCall EXCEPT ![c] = call]
AuthFault    == authFaults < MaxAuthFaults /\ authFaults' = authFaults + 1

AccountInit ==
    /\ now = 0
    /\ twoFAEnabled \in BOOLEAN /\ blocked = FALSE /\ failures = 0
    /\ refreshRow = [t \in Times |-> NoSignIn]
    /\ cachedUntil = [t \in Times |-> 0]
    /\ authCall = [c \in AuthCalls |-> NoRequest]
    /\ minted = {} /\ signedIn = {}
    /\ authFaults = 0

-----------------------------------------------------------------------------
(* UserLogin *)

\* A failed query of the block counts as no block.
IsUserBlocked(c) ==
    /\ Doing(c, "idle")
    /\ IF blocked THEN AuthFault ELSE UNCHANGED authFaults
    /\ Do(c, Request("password", 0, NoSignIn))
    /\ UNCHANGED <<now, accountTables, accountHistory>>

Failed == IF failures < FailureLimit THEN failures + 1 ELSE failures

\* The error of LogLoginAttempt is dropped.
WrongPassword(c) ==
    /\ Doing(c, "password")
    /\ \/ failures' = Failed /\ UNCHANGED authFaults
       \/ AuthFault /\ UNCHANGED failures
    /\ Do(c, NoRequest)
    /\ UNCHANGED <<now, twoFAEnabled, blocked, refreshRow, cachedUntil, accountHistory>>

RightPassword(c) ==
    /\ Doing(c, "password")
    /\ Do(c, Request("count", 0, NoSignIn))
    /\ UNCHANGED <<now, accountTables, accountHistory, authFaults>>

\* The failures count only once the password is right.  With a second factor the
\* request ends here with a temporary token.
CountFailures(c) ==
    /\ Doing(c, "count")
    /\ Do(c, IF failures >= FailureLimit THEN Request("block", 0, NoSignIn)
             ELSE IF twoFAEnabled THEN NoRequest ELSE Request("issue", 0, NoSignIn))
    /\ UNCHANGED <<now, accountTables, accountHistory, authFaults>>

BlockUser(c) ==
    /\ Doing(c, "block")
    /\ \/ blocked' = TRUE /\ UNCHANGED authFaults
       \/ AuthFault /\ UNCHANGED blocked
    /\ failures' = Failed
    /\ Do(c, NoRequest)
    /\ UNCHANGED <<now, twoFAEnabled, refreshRow, cachedUntil, accountHistory>>

\* The end of VerifyCode: a right code, and tokens that nothing caches.
CodeAccepted(c) ==
    /\ Doing(c, "idle") /\ twoFAEnabled
    /\ Do(c, Request("issue", 0, NoSignIn))
    /\ UNCHANGED <<now, accountTables, accountHistory, authFaults>>

\* GenerateAccessToken and GenerateRefreshToken: a second row of the same second
\* violates the unique key, and the request fails.
IssueTokens(c) ==
    /\ Doing(c, "issue")
    /\ IF refreshRow[now] = NoSignIn
       THEN /\ refreshRow' = [refreshRow EXCEPT ![now] = now]
            /\ minted' = minted \cup {now} /\ signedIn' = signedIn \cup {now}
            /\ Do(c, IF twoFAEnabled THEN NoRequest ELSE Request("cache", now, now))
       ELSE /\ Do(c, NoRequest)
            /\ UNCHANGED <<refreshRow, minted, signedIn>>
    /\ UNCHANGED <<now, twoFAEnabled, blocked, failures, cachedUntil, authFaults>>

\* The time the session expires at is read here.
CacheSession(c) ==
    /\ Doing(c, "cache")
    /\ \/ /\ cachedUntil' = [cachedUntil EXCEPT ![authCall[c].token] = now + AccessLife]
          /\ UNCHANGED authFaults
       \/ AuthFault /\ UNCHANGED cachedUntil
    /\ Do(c, NoRequest)
    /\ UNCHANGED <<now, twoFAEnabled, blocked, failures, refreshRow, accountHistory>>

-----------------------------------------------------------------------------
(* UserRefresh *)

\* RefreshGet deletes a row that has expired.
RefreshGet(c, t) ==
    /\ Doing(c, "idle") /\ refreshRow[t] # NoSignIn
    /\ IF now > t + RefreshLife
       THEN /\ refreshRow' = [refreshRow EXCEPT ![t] = NoSignIn]
            /\ signedIn' = signedIn \ {refreshRow[t]}
            /\ UNCHANGED authCall
       ELSE /\ Do(c, Request("rotate", t, refreshRow[t]))
            /\ UNCHANGED <<refreshRow, signedIn>>
    /\ UNCHANGED <<now, twoFAEnabled, blocked, failures, cachedUntil, minted,
                   authFaults>>

\* Mutant: the old row goes first.
StoreAfterDelete(c) ==
    /\ Doing(c, "rotate")
    /\ LET without == [refreshRow EXCEPT ![authCall[c].token] = NoSignIn]
       IN  refreshRow' = IF refreshRow[now] = NoSignIn
                         THEN [without EXCEPT ![now] = authCall[c].root] ELSE without
    /\ minted' = minted \cup {now}
    /\ Do(c, NoRequest)
    /\ UNCHANGED <<now, twoFAEnabled, blocked, failures, cachedUntil, signedIn,
                   authFaults>>

\* The new row goes in before the old one goes.
StoreRotated(c) ==
    /\ Doing(c, "rotate")
    /\ IF refreshRow[now] = NoSignIn
       THEN /\ refreshRow' = [refreshRow EXCEPT ![now] = authCall[c].root]
            /\ minted' = minted \cup {now}
            /\ Do(c, Request("delete", authCall[c].token, authCall[c].root))
       ELSE Do(c, NoRequest) /\ UNCHANGED <<refreshRow, minted>>
    /\ UNCHANGED <<now, twoFAEnabled, blocked, failures, cachedUntil, signedIn,
                   authFaults>>

\* Its error is dropped: the old token stays good.
DeleteRotated(c) ==
    /\ Doing(c, "delete")
    /\ \/ refreshRow' = [refreshRow EXCEPT ![authCall[c].token] = NoSignIn] /\ UNCHANGED authFaults
       \/ AuthFault /\ UNCHANGED refreshRow
    /\ Do(c, NoRequest)
    /\ UNCHANGED <<now, twoFAEnabled, blocked, failures, cachedUntil, accountHistory>>

\* Any call before the last fails, or the process stops.
FailRequest(c) ==
    /\ ~Doing(c, "idle")
    /\ AuthFault
    /\ Do(c, NoRequest)
    /\ UNCHANGED <<now, accountTables, accountHistory>>

-----------------------------------------------------------------------------
(* AuthMiddleware and WSAuthService *)

Cached(t)  == now < cachedUntil[t]
Unspent(t) == now < t + AccessLife
Accepts(t) == t \in minted /\ (Cached(t) \/ Unspent(t))

\* Mutant: every request that is accepted caches the session anew.
AuthMiddlewareSliding(t) ==
    /\ Accepts(t)
    /\ cachedUntil' = [cachedUntil EXCEPT ![t] = now + AccessLife]
    /\ UNCHANGED <<now, twoFAEnabled, blocked, failures, refreshRow, authCall,
                   accountHistory, authFaults>>

\* A token that the cache does not have, or does not answer for, and whose signature
\* has not expired, is cached for a whole life from now on.
AuthMiddleware(t) ==
    /\ t \in minted /\ Unspent(t)
    /\ IF Cached(t) THEN AuthFault ELSE UNCHANGED authFaults
    /\ cachedUntil' = [cachedUntil EXCEPT ![t] = now + AccessLife]
    /\ UNCHANGED <<now, twoFAEnabled, blocked, failures, refreshRow, authCall,
                   accountHistory>>

\* What a token says, and what the claims of JWTService can hold: a string for
\* the user, and a session.
ClaimsOf(t)      == [user_id |-> "number", session_id |-> "absent", exp |-> t + AccessLife]
Validate(claims) == claims.user_id = "string" /\ now < claims.exp
ValidateSession(claims, t) == claims.session_id # "absent" /\ Cached(t)

\* WSAuthService, for a connection.
Authenticates(t) == Validate(ClaimsOf(t)) /\ ValidateSession(ClaimsOf(t), t)

-----------------------------------------------------------------------------
\* A request lasts less than an access token: the server gives it 15 seconds.
Tick ==
    /\ now < MaxNow
    /\ \A c \in AuthCalls : Doing(c, "cache") => now < authCall[c].token + AccessLife
    /\ now' = now + 1
    /\ cachedUntil' = [t \in Times |-> IF cachedUntil[t] > now' THEN cachedUntil[t] ELSE 0]
    /\ minted' = {t \in minted : now' < cachedUntil[t] \/ now' < t + AccessLife}
    /\ UNCHANGED <<twoFAEnabled, blocked, failures, refreshRow, authCall, signedIn,
                   authFaults>>

MinutePasses ==
    /\ blocked' = FALSE /\ failures' = 0
    /\ UNCHANGED <<now, twoFAEnabled, refreshRow, cachedUntil, authCall, accountHistory,
                   authFaults>>

AccountNext ==
    \/ \E c \in AuthCalls :
           \/ IsUserBlocked(c) \/ WrongPassword(c) \/ RightPassword(c) \/ CountFailures(c)
           \/ BlockUser(c) \/ CodeAccepted(c) \/ IssueTokens(c) \/ CacheSession(c)
           \/ StoreRotated(c) \/ DeleteRotated(c) \/ FailRequest(c)
           \/ \E t \in Times : RefreshGet(c, t)
    \/ \E t \in Times : AuthMiddleware(t)
    \/ Tick \/ MinutePasses

AccountSpec == AccountInit /\ [][AccountNext]_accountVars

-----------------------------------------------------------------------------
(* Properties *)

AccountTypeOK ==
    /\ now \in Times /\ failures \in 0..FailureLimit
    /\ twoFAEnabled \in BOOLEAN /\ blocked \in BOOLEAN
    /\ refreshRow \in [Times -> Times \cup {NoSignIn}]
    /\ cachedUntil \in [Times -> 0..MaxNow + AccessLife]
    /\ authCall \in [AuthCalls -> {NoRequest} \cup
          [pc : AuthPC, token : Times, root : Times \cup {NoSignIn}]]
    /\ minted \subseteq Times /\ signedIn \subseteq Times
    /\ authFaults \in 0..MaxAuthFaults

\* A user who signed in keeps a refresh token that works until one expires: no
\* rotation loses the session, with requests for one token side by side, a key
\* that collides within a second, and a failure at any step.
SessionSurvivesRotation ==
    \A s \in signedIn : \E t \in Times : refreshRow[t] = s

\* A request is accepted for less than two lives of its access token: the
\* middleware caches a token that is about to expire once more, and never twice.
NoRequestPastTwoLives == \A t \in Times : Accepts(t) => now < t + 2 * AccessLife

\* docs/API.md: an access token is what a connection is opened with.
AccessTokenConnects == \A t \in Times : Accepts(t) => Authenticates(t)
=============================================================================
