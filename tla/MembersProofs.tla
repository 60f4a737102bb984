----------------------------- MODULE MembersProofs -----------------------------
(***************************************************************************)
(* Proofs about accounts, the codes of their second factor and the members *)
(* of rooms, for any number of requests, any clock and any lifetimes, any  *)
(* users, rooms and channels; and about the runs that hold them side by    *)
(* side.                                                                   *)
(***************************************************************************)
EXTENDS MCMembers, TLAPS, FiniteSetTheorems, WellFoundedInduction

-----------------------------------------------------------------------------
(* Accounts *)

InRotation(c) == Doing(c, "rotate") \/ Doing(c, "delete")

\* The row of a token holds a sign-in that is no younger than the token, and a
\* token is made at the present second at the latest.
RowsAreOrdered ==
    /\ \A t \in Times : refreshRow[t] # NoSignIn => refreshRow[t] <= t /\ t <= now
    /\ signedIn \subseteq 0..now

\* The row a rotation has read is still there, or it is gone; a row of the present
\* second cannot be gone, since a rotation stores its new row before it deletes.
RotationsAreOpen ==
    \A c \in AuthCalls : InRotation(c) =>
        LET t == authCall[c].token
            r == authCall[c].root
        IN  /\ t <= now /\ r \in Times /\ r <= t
            /\ refreshRow[t] \in {r, NoSignIn}
            /\ t = now => refreshRow[t] = r

\* A rotation that is to delete its old row has a younger one of the same sign-in
\* to leave behind.
RotatedIsThere ==
    \A c \in AuthCalls : Doing(c, "delete") =>
        LET t == authCall[c].token
            r == authCall[c].root
        IN  t < now /\ (r \in signedIn => \E u \in Times : u > t /\ refreshRow[u] = r)

\* No token is cached beyond two of its lives, and a request that is about to cache
\* one is within the first, or at its end.
CachedWithinTwo ==
    /\ \A t \in Times : cachedUntil[t] <= t + 2 * AccessLife
    /\ \A c \in AuthCalls : Doing(c, "cache") => now <= authCall[c].token + AccessLife

AccountInv ==
    AccountTypeOK /\ RowsAreOrdered /\ RotationsAreOpen /\ RotatedIsThere
      /\ SessionSurvivesRotation /\ CachedWithinTwo

LEMMA AccountInitial == AccountInit => AccountInv
<1> SUFFICES ASSUME AccountInit
             PROVE  AccountInv
  OBVIOUS
<1> USE AccountAssumption DEF AccountInit
<1>1. 0 \in Times /\ now = 0
  BY DEF Times
<1>2. refreshRow \in [Times -> Times \cup {NoSignIn}]
      /\ cachedUntil \in [Times -> 0..MaxNow + AccessLife]
  <2>1. 0 \in 0..MaxNow + AccessLife
    OBVIOUS
  <2> QED
    BY <2>1
<1>3. AccountTypeOK
  <2>1. failures \in 0..FailureLimit /\ authFaults \in 0..MaxAuthFaults
    OBVIOUS
  <2> QED
    BY <1>1, <1>2, <2>1 DEF AccountTypeOK
<1>4. \A c \in AuthCalls : authCall[c].pc = "idle"
  BY DEF NoRequest
<1>5. RotationsAreOpen /\ RotatedIsThere
  BY <1>4 DEF RotationsAreOpen, RotatedIsThere, InRotation, Doing
<1>6. RowsAreOrdered /\ SessionSurvivesRotation
  BY DEF RowsAreOrdered, SessionSurvivesRotation
<1>7. CachedWithinTwo
  BY <1>4 DEF CachedWithinTwo, Doing, Times
<1> QED
  BY <1>3, <1>5, <1>6, <1>7 DEF AccountInv

Requests == [pc : AuthPC, token : Times, root : Times \cup {NoSignIn}]

LEMMA RequestFields ==
  ASSUME NEW pc \in AuthPC, NEW token \in Times, NEW root \in Times \cup {NoSignIn}
  PROVE  /\ Request(pc, token, root) \in Requests
         /\ Request(pc, token, root).pc = pc
         /\ Request(pc, token, root).token = token
         /\ Request(pc, token, root).root = root
  BY DEF Request, Requests

LEMMA RequestTyped ==
  ASSUME AccountInv, NEW c \in AuthCalls, ~Doing(c, "idle")
  PROVE  authCall[c] \in Requests
  BY DEF AccountInv, AccountTypeOK, Doing, NoRequest, Requests

LEMMA AuthFaultBound ==
  ASSUME authFaults \in 0..MaxAuthFaults, AuthFault \/ UNCHANGED authFaults
  PROVE  authFaults' \in 0..MaxAuthFaults
  BY AccountAssumption DEF AuthFault

\* A step of one request that leaves the tokens, their rows and the cache alone, and
\* does not bring it to a rotation or to the cache.
LEMMA QuietRequest ==
  ASSUME AccountInv, NEW c \in AuthCalls, NEW call \in Requests \cup {NoRequest},
         call.pc \notin {"rotate", "delete", "cache"}, Do(c, call),
         UNCHANGED <<now, twoFAEnabled, refreshRow, cachedUntil, accountHistory>>,
         blocked' \in BOOLEAN, failures' \in 0..FailureLimit,
         authFaults' \in 0..MaxAuthFaults
  PROVE  AccountInv'
<1>1. /\ authCall' = [authCall EXCEPT ![c] = call] /\ authCall'[c] = call
      /\ \A d \in AuthCalls \ {c} : authCall'[d] = authCall[d]
  BY DEF Do, AccountInv, AccountTypeOK
<1>2. AccountTypeOK'
  BY <1>1 DEF AccountInv, AccountTypeOK, accountHistory, Requests
<1>3. RowsAreOrdered' /\ SessionSurvivesRotation'
  BY DEF AccountInv, RowsAreOrdered, SessionSurvivesRotation, accountHistory
<1>4. RotationsAreOpen' /\ RotatedIsThere'
  BY <1>1
  DEF AccountInv, RotationsAreOpen, RotatedIsThere, InRotation, Doing, accountHistory
<1>5. CachedWithinTwo'
  BY <1>1 DEF AccountInv, CachedWithinTwo, Doing
<1> QED
  BY <1>2, <1>3, <1>4, <1>5 DEF AccountInv

\* The sign-in up to its tokens.
LEMMA LoginStep ==
  ASSUME AccountInv, NEW c \in AuthCalls,
         \/ IsUserBlocked(c) \/ WrongPassword(c) \/ RightPassword(c) \/ CountFailures(c)
         \/ BlockUser(c) \/ CodeAccepted(c) \/ FailRequest(c)
  PROVE  AccountInv'
<1> DEFINE early == {"password", "count", "block", "issue"}
           quiet == {NoRequest} \cup {Request(pc, 0, NoSignIn) : pc \in early}
<1>1. \A call \in quiet : call \in Requests \cup {NoRequest}
                          /\ call.pc \notin {"rotate", "delete", "cache"}
  <2>1. 0 \in Times
    BY AccountAssumption DEF Times
  <2>2. \A pc \in early : pc \in AuthPC /\ pc \notin {"rotate", "delete", "cache"}
    BY DEF AuthPC
  <2>3. \A pc \in early : /\ Request(pc, 0, NoSignIn) \in Requests
                          /\ Request(pc, 0, NoSignIn).pc = pc
    BY <2>1, <2>2, RequestFields
  <2> QED
    BY <2>2, <2>3 DEF NoRequest
<1>2. PICK call \in quiet : Do(c, call)
  <2>1. Do(c, NoRequest) \/ \E pc \in early : Do(c, Request(pc, 0, NoSignIn))
    BY DEF IsUserBlocked, WrongPassword, RightPassword, CountFailures, BlockUser,
           CodeAccepted, FailRequest
  <2> QED
    BY <2>1
<1>3. UNCHANGED <<now, twoFAEnabled, refreshRow, cachedUntil, accountHistory>>
  BY DEF IsUserBlocked, WrongPassword, RightPassword, CountFailures, BlockUser,
         CodeAccepted, FailRequest, accountTables
<1>4. failures' \in {failures, Failed} /\ blocked' \in {blocked, TRUE}
  BY DEF IsUserBlocked, WrongPassword, RightPassword, CountFailures, BlockUser,
         CodeAccepted, FailRequest, accountTables
<1>5. failures' \in 0..FailureLimit /\ blocked' \in BOOLEAN
  <2>1. failures \in 0..FailureLimit /\ blocked \in BOOLEAN
    BY DEF AccountInv, AccountTypeOK
  <2>2. Failed \in 0..FailureLimit
    BY <2>1, AccountAssumption DEF Failed
  <2> QED
    BY <1>4, <2>1, <2>2
<1>6. authFaults' \in 0..MaxAuthFaults
  <2>1. AuthFault \/ UNCHANGED authFaults
    BY DEF IsUserBlocked, WrongPassword, RightPassword, CountFailures, BlockUser,
           CodeAccepted, FailRequest
  <2> QED
    BY <2>1, AuthFaultBound DEF AccountInv, AccountTypeOK
<1> QED
  BY <1>1, <1>2, <1>3, <1>5, <1>6, QuietRequest

\* The first row of a sign-in: no rotation is open on a token of this second, since
\* the second has no row yet.
LEMMA IssueTokensStep ==
  ASSUME AccountInv, NEW c \in AuthCalls, IssueTokens(c)
  PROVE  AccountInv'
<1>1. CASE refreshRow[now] # NoSignIn
  <2>1. /\ Do(c, NoRequest)
        /\ UNCHANGED <<now, twoFAEnabled, refreshRow, cachedUntil, accountHistory>>
        /\ blocked' \in BOOLEAN /\ failures' \in 0..FailureLimit
        /\ authFaults' \in 0..MaxAuthFaults
    BY <1>1 DEF IssueTokens, accountHistory, AccountInv, AccountTypeOK
  <2>2. NoRequest.pc = "idle"
    BY DEF NoRequest
  <2> QED
    BY <2>1, <2>2, QuietRequest
<1>2. CASE refreshRow[now] = NoSignIn
  <2>1. PICK call \in Requests \cup {NoRequest} :
          /\ Do(c, call) /\ call.pc \in {"idle", "cache"}
          /\ call.pc = "cache" => call.token = now
    <3>1. now \in Times /\ "cache" \in AuthPC
      BY DEF AccountInv, AccountTypeOK, AuthPC
    <3>2. Do(c, NoRequest) \/ Do(c, Request("cache", now, now))
      BY <1>2 DEF IssueTokens
    <3>3. NoRequest.pc = "idle"
      BY DEF NoRequest
    <3> QED
      BY <3>1, <3>2, <3>3, RequestFields
  <2>2. /\ authCall' = [authCall EXCEPT ![c] = call] /\ authCall'[c] = call
        /\ \A d \in AuthCalls \ {c} : authCall'[d] = authCall[d]
    BY <2>1 DEF Do, AccountInv, AccountTypeOK
  <2>3. /\ refreshRow' = [refreshRow EXCEPT ![now] = now]
        /\ minted' = minted \cup {now} /\ signedIn' = signedIn \cup {now}
        /\ UNCHANGED <<now, twoFAEnabled, blocked, failures, cachedUntil, authFaults>>
    BY <1>2 DEF IssueTokens
  <2>4. now \in Times /\ now \in Nat /\ refreshRow'[now] = now
        /\ \A t \in Times \ {now} : refreshRow'[t] = refreshRow[t]
    BY <2>3 DEF AccountInv, AccountTypeOK, Times
  <2>5. AccountTypeOK'
    <3>1. authCall' \in [AuthCalls -> {NoRequest} \cup Requests]
      BY <2>1, <2>2 DEF AccountInv, AccountTypeOK, Requests
    <3>2. refreshRow' \in [Times -> Times \cup {NoSignIn}]
      BY <2>3, <2>4 DEF AccountInv, AccountTypeOK
    <3> QED
      BY <2>3, <2>4, <3>1, <3>2 DEF AccountInv, AccountTypeOK, Requests
  <2>6. RowsAreOrdered' /\ SessionSurvivesRotation'
    <3>1. RowsAreOrdered'
      BY <2>3, <2>4 DEF AccountInv, RowsAreOrdered
    <3>2. ASSUME NEW s \in signedIn
          PROVE  \E t \in Times : refreshRow'[t] = s
      <4>1. PICK t \in Times : refreshRow[t] = s
        BY DEF AccountInv, SessionSurvivesRotation
      <4>2. s \in Times /\ NoSignIn \notin Times
        BY AccountAssumption DEF NoSignIn, Times, AccountInv, AccountTypeOK
      <4> QED
        BY <1>2, <2>4, <4>1, <4>2
    <3> QED
      BY <2>3, <2>4, <3>1, <3>2 DEF SessionSurvivesRotation
  <2>7. ASSUME NEW d \in AuthCalls, InRotation(d)'
        PROVE  /\ authCall'[d] = authCall[d] /\ authCall[d] \in Requests
               /\ InRotation(d) /\ authCall[d].token # now
    <3>1. authCall'[d] = authCall[d]
      BY <2>1, <2>2, <2>7 DEF InRotation, Doing
    <3>2. InRotation(d) /\ ~Doing(d, "idle")
      BY <2>7, <3>1 DEF InRotation, Doing
    <3>3. authCall[d] \in Requests
      BY <3>2, RequestTyped
    <3>4. authCall[d].token # now
      <4>1. NoSignIn \notin Times
        BY AccountAssumption DEF NoSignIn, Times
      <4> QED
        BY <1>2, <3>2, <4>1 DEF AccountInv, RotationsAreOpen
    <3> QED
      BY <3>1, <3>2, <3>3, <3>4
  <2>8. RotationsAreOpen'
    BY <2>3, <2>4, <2>7 DEF AccountInv, RotationsAreOpen, Requests
  <2>9. RotatedIsThere'
    <3> SUFFICES ASSUME NEW d \in AuthCalls, Doing(d, "delete")'
                 PROVE  LET t == authCall'[d].token
                            r == authCall'[d].root
                        IN  t < now' /\ (r \in signedIn' =>
                                           \E u \in Times : u > t /\ refreshRow'[u] = r)
      BY DEF RotatedIsThere
    <3> DEFINE t == authCall[d].token
               r == authCall[d].root
    <3>1. authCall'[d] = authCall[d] /\ authCall[d] \in Requests /\ Doing(d, "delete")
      BY <2>7 DEF InRotation, Doing
    <3>2. t \in Times /\ r \in Times /\ r <= t /\ t < now
          /\ (r \in signedIn => \E u \in Times : u > t /\ refreshRow[u] = r)
      BY <3>1 DEF AccountInv, RotationsAreOpen, RotatedIsThere, InRotation, Requests
    <3>3. r # now
      BY <3>2, <2>4 DEF Times
    <3>4. \A u \in Times : refreshRow[u] = r => refreshRow'[u] = r
      <4>1. NoSignIn \notin Times
        BY AccountAssumption DEF NoSignIn, Times
      <4> QED
        BY <1>2, <2>4, <3>2, <4>1
    <3> QED
      BY <2>3, <3>1, <3>2, <3>3, <3>4
  <2>10. CachedWithinTwo'
    BY <2>1, <2>2, <2>3, <2>4, AccountAssumption DEF AccountInv, CachedWithinTwo, Doing
  <2> QED
    BY <2>5, <2>6, <2>8, <2>9, <2>10 DEF AccountInv
<1> QED
  BY <1>1, <1>2

LEMMA Clock == Times \subseteq Nat /\ NoSignIn \notin Times
  BY AccountAssumption DEF NoSignIn, Times

LEMMA RotationFacts ==
  ASSUME AccountInv, NEW c \in AuthCalls, InRotation(c)
  PROVE  /\ authCall[c] \in Requests
         /\ authCall[c].token \in Times /\ authCall[c].token <= now
         /\ authCall[c].root \in Times /\ authCall[c].root <= authCall[c].token
         /\ refreshRow[authCall[c].token] \in {authCall[c].root, NoSignIn}
         /\ authCall[c].token = now => refreshRow[authCall[c].token] = authCall[c].root
<1>1. authCall[c] \in Requests
  BY RequestTyped DEF InRotation, Doing
<1> QED
  BY <1>1 DEF AccountInv, RotationsAreOpen, Requests

LEMMA CacheSessionStep ==
  ASSUME AccountInv, NEW c \in AuthCalls, CacheSession(c)
  PROVE  AccountInv'
<1>1. /\ Doing(c, "cache") /\ Do(c, NoRequest)
      /\ AuthFault \/ UNCHANGED authFaults
      /\ UNCHANGED <<now, twoFAEnabled, blocked, failures, refreshRow, accountHistory>>
  BY DEF CacheSession
<1>2. authCall[c] \in Requests /\ authCall[c].token \in Times
  BY <1>1, RequestTyped DEF Doing, Requests
<1>3. PICK token \in Times : token = authCall[c].token
  BY <1>2
<1>4. now + AccessLife <= token + 2 * AccessLife /\ now \in Times /\ AccessLife \in Nat
  BY <1>1, <1>3, AccountAssumption, Clock
  DEF AccountInv, AccountTypeOK, CachedWithinTwo
<1>5. now + AccessLife \in 0..MaxNow + AccessLife
  BY <1>4, AccountAssumption DEF Times
<1>6. cachedUntil' \in {cachedUntil, [cachedUntil EXCEPT ![token] = now + AccessLife]}
  BY <1>3 DEF CacheSession
<1>7. /\ cachedUntil' \in [Times -> 0..MaxNow + AccessLife]
      /\ \A t \in Times : cachedUntil'[t] <= t + 2 * AccessLife
  BY <1>4, <1>5, <1>6 DEF AccountInv, AccountTypeOK, CachedWithinTwo
<1>8. authFaults' \in 0..MaxAuthFaults
  BY <1>1, AuthFaultBound DEF AccountInv, AccountTypeOK
<1>9. /\ authCall'[c].pc = "idle" /\ authCall' \in [AuthCalls -> {NoRequest} \cup Requests]
      /\ \A d \in AuthCalls \ {c} : authCall'[d] = authCall[d]
  BY <1>1 DEF Do, NoRequest, AccountInv, AccountTypeOK, Requests
<1>10. AccountTypeOK'
  BY <1>1, <1>7, <1>8, <1>9 DEF AccountInv, AccountTypeOK, accountHistory, Requests
<1>11. RowsAreOrdered' /\ SessionSurvivesRotation'
  BY <1>1 DEF AccountInv, RowsAreOrdered, SessionSurvivesRotation, accountHistory
<1>12. RotationsAreOpen' /\ RotatedIsThere'
  BY <1>1, <1>9
  DEF AccountInv, RotationsAreOpen, RotatedIsThere, InRotation, Doing, accountHistory
<1>13. CachedWithinTwo'
  BY <1>1, <1>7, <1>9 DEF AccountInv, CachedWithinTwo, Doing
<1> QED
  BY <1>10, <1>11, <1>12, <1>13 DEF AccountInv

\* A rotation begins with the row it read; a row that expired goes, and with it the
\* sign-in from those in force.
LEMMA RefreshGetStep ==
  ASSUME AccountInv, NEW c \in AuthCalls, NEW t \in Times, RefreshGet(c, t)
  PROVE  AccountInv'
<1> DEFINE s == refreshRow[t]
<1>1. /\ s \in Times /\ s <= t /\ t <= now /\ now \in Times
      /\ Doing(c, "idle")
      /\ UNCHANGED <<now, twoFAEnabled, blocked, failures, cachedUntil, minted, authFaults>>
  BY DEF RefreshGet, AccountInv, AccountTypeOK, RowsAreOrdered
<1>2. CASE now > t + RefreshLife
  <2>1. /\ refreshRow' = [refreshRow EXCEPT ![t] = NoSignIn]
        /\ signedIn' = signedIn \ {s} /\ UNCHANGED authCall
    BY <1>2 DEF RefreshGet
  <2>2. t < now
    BY <1>1, <1>2, AccountAssumption, Clock
  <2>3. /\ refreshRow' \in [Times -> Times \cup {NoSignIn}] /\ refreshRow'[t] = NoSignIn
        /\ \A u \in Times \ {t} : refreshRow'[u] = refreshRow[u]
    BY <2>1 DEF AccountInv, AccountTypeOK
  <2>4. AccountTypeOK'
    BY <1>1, <2>1, <2>3 DEF AccountInv, AccountTypeOK
  <2>5. RowsAreOrdered'
    BY <1>1, <2>1, <2>3 DEF AccountInv, RowsAreOrdered
  <2>6. SessionSurvivesRotation'
    BY <2>1, <2>3 DEF AccountInv, SessionSurvivesRotation
  <2>7. RotationsAreOpen'
    <3> SUFFICES ASSUME NEW d \in AuthCalls, InRotation(d)
                 PROVE  refreshRow'[authCall[d].token] \in {authCall[d].root, NoSignIn}
                        /\ (authCall[d].token = now =>
                              refreshRow'[authCall[d].token] = authCall[d].root)
      BY <1>1, <2>1, RotationFacts DEF RotationsAreOpen, InRotation, Doing
    <3>1. PICK u \in Times : u = authCall[d].token
      BY RotationFacts
    <3>2. refreshRow[u] \in {authCall[d].root, NoSignIn} /\ (u = t => u # now)
          /\ (u = now => refreshRow[u] = authCall[d].root)
      BY <1>1, <2>2, <3>1, RotationFacts, Clock
    <3> QED
      BY <2>3, <3>1, <3>2
  <2>8. RotatedIsThere'
    <3> SUFFICES ASSUME NEW d \in AuthCalls, Doing(d, "delete"),
                        authCall[d].root \in signedIn'
                 PROVE  \E u \in Times : u > authCall[d].token /\ refreshRow'[u] = authCall[d].root
      BY <1>1, <2>1 DEF AccountInv, RotatedIsThere, Doing
    <3>1. PICK u \in Times : u > authCall[d].token /\ refreshRow[u] = authCall[d].root
      BY <2>1 DEF AccountInv, RotatedIsThere
    <3> QED
      BY <2>1, <2>3, <3>1
  <2>9. CachedWithinTwo'
    BY <1>1, <2>1 DEF AccountInv, CachedWithinTwo, Doing
  <2> QED
    BY <2>4, <2>5, <2>6, <2>7, <2>8, <2>9 DEF AccountInv
<1>3. CASE ~(now > t + RefreshLife)
  <2>1. Do(c, Request("rotate", t, s)) /\ UNCHANGED <<refreshRow, signedIn>>
    BY <1>3 DEF RefreshGet
  <2>2. PICK call \in Requests : call = Request("rotate", t, s)
    BY <1>1, RequestFields DEF AuthPC
  <2>3. call.pc = "rotate" /\ call.token = t /\ call.root = s
    BY <2>2 DEF Request
  <2>4. /\ authCall'[c] = call /\ authCall' \in [AuthCalls -> {NoRequest} \cup Requests]
        /\ \A d \in AuthCalls \ {c} : authCall'[d] = authCall[d]
    BY <2>1, <2>2 DEF Do, AccountInv, AccountTypeOK, Requests
  <2>5. AccountTypeOK'
    BY <1>1, <2>1, <2>4 DEF AccountInv, AccountTypeOK, Requests
  <2>6. RowsAreOrdered' /\ SessionSurvivesRotation'
    BY <1>1, <2>1 DEF AccountInv, RowsAreOrdered, SessionSurvivesRotation
  <2>7. RotationsAreOpen' /\ RotatedIsThere'
    BY <1>1, <2>1, <2>3, <2>4
    DEF AccountInv, RotationsAreOpen, RotatedIsThere, InRotation, Doing
  <2>8. CachedWithinTwo'
    BY <1>1, <2>3, <2>4 DEF AccountInv, CachedWithinTwo, Doing
  <2> QED
    BY <2>5, <2>6, <2>7, <2>8 DEF AccountInv
<1> QED
  BY <1>2, <1>3

\* The new row is there before the old one goes.  A request that presents the token
\* of this second finds its key taken, so the row it deletes is an older one.
LEMMA StoreRotatedStep ==
  ASSUME AccountInv, NEW c \in AuthCalls, StoreRotated(c)
  PROVE  AccountInv'
<1>1. CASE refreshRow[now] # NoSignIn
  <2>1. /\ Do(c, NoRequest)
        /\ UNCHANGED <<now, twoFAEnabled, refreshRow, cachedUntil, accountHistory>>
        /\ blocked' \in BOOLEAN /\ failures' \in 0..FailureLimit
        /\ authFaults' \in 0..MaxAuthFaults
    BY <1>1 DEF StoreRotated, accountHistory, AccountInv, AccountTypeOK
  <2>2. NoRequest.pc = "idle"
    BY DEF NoRequest
  <2> QED
    BY <2>1, <2>2, QuietRequest
<1>2. CASE refreshRow[now] = NoSignIn
  <2>1. PICK t \in Times, s \in Times :
          /\ t = authCall[c].token /\ s = authCall[c].root
          /\ Doing(c, "rotate") /\ s <= t /\ t < now
    <3>1. Doing(c, "rotate") /\ InRotation(c)
      BY DEF StoreRotated, InRotation
    <3>2. authCall[c].token # now /\ now \in Times
      BY <1>2, <3>1, RotationFacts, Clock DEF AccountInv, AccountTypeOK
    <3> QED
      BY <3>1, <3>2, RotationFacts, Clock
  <2>2. /\ refreshRow' = [refreshRow EXCEPT ![now] = s]
        /\ minted' = minted \cup {now}
        /\ Do(c, Request("delete", t, s))
        /\ UNCHANGED <<now, twoFAEnabled, blocked, failures, cachedUntil, signedIn, authFaults>>
    BY <1>2, <2>1 DEF StoreRotated
  <2>3. PICK call \in Requests :
          call = Request("delete", t, s) /\ call.pc = "delete" /\ call.token = t /\ call.root = s
    BY RequestFields DEF AuthPC
  <2>4. /\ authCall'[c] = call /\ authCall' \in [AuthCalls -> {NoRequest} \cup Requests]
        /\ \A d \in AuthCalls \ {c} : authCall'[d] = authCall[d]
    BY <2>2, <2>3 DEF Do, AccountInv, AccountTypeOK, Requests
  <2>5. /\ now \in Times /\ refreshRow'[now] = s
        /\ refreshRow' \in [Times -> Times \cup {NoSignIn}]
        /\ \A u \in Times \ {now} : refreshRow'[u] = refreshRow[u]
    BY <2>2 DEF AccountInv, AccountTypeOK
  <2>6. \A u \in Times : refreshRow[u] \in Times => refreshRow'[u] = refreshRow[u]
    BY <1>2, <2>5, Clock
  <2>7. AccountTypeOK'
    BY <2>2, <2>4, <2>5 DEF AccountInv, AccountTypeOK, Requests
  <2>8. RowsAreOrdered'
    BY <2>1, <2>2, <2>5, Clock DEF AccountInv, RowsAreOrdered
  <2>9. SessionSurvivesRotation'
    BY <2>2, <2>6 DEF AccountInv, AccountTypeOK, SessionSurvivesRotation
  <2>10. RotationsAreOpen'
    <3>1. ASSUME NEW d \in AuthCalls \ {c}, InRotation(d)
          PROVE  authCall[d].token # now
      BY <1>2, <3>1, RotationFacts, Clock
    <3>2. \A d \in AuthCalls \ {c} : InRotation(d)' => InRotation(d) /\ authCall'[d] = authCall[d]
      BY <2>4 DEF InRotation, Doing
    <3>3. \A d \in AuthCalls \ {c} : InRotation(d) =>
            refreshRow'[authCall[d].token] = refreshRow[authCall[d].token]
      BY <2>5, <3>1, RotationFacts
    <3>4. refreshRow'[t] \in {s, NoSignIn}
      BY <2>1, <2>5, RotationFacts, Clock DEF InRotation
    <3> SUFFICES ASSUME NEW d \in AuthCalls, InRotation(d)'
                 PROVE  LET k == authCall'[d].token
                            q == authCall'[d].root
                        IN  /\ k <= now' /\ q \in Times /\ q <= k
                            /\ refreshRow'[k] \in {q, NoSignIn}
                            /\ k = now' => refreshRow'[k] = q
      BY DEF RotationsAreOpen
    <3>5. CASE d = c
      BY <2>1, <2>2, <2>3, <2>4, <3>4, <3>5, Clock DEF AccountInv, AccountTypeOK
    <3>6. CASE d # c
      BY <2>2, <3>1, <3>2, <3>3, <3>6, RotationFacts
    <3> QED
      BY <3>5, <3>6
  <2>11. RotatedIsThere'
    <3>1. \A d \in AuthCalls \ {c} : Doing(d, "delete")' =>
            /\ Doing(d, "delete") /\ authCall'[d] = authCall[d] /\ authCall[d].root \in Times
      BY <2>4, RotationFacts DEF Doing, InRotation
    <3>2. now > t /\ refreshRow'[now] = s
      BY <2>1, <2>5, Clock
    <3> QED
      BY <2>1, <2>2, <2>3, <2>4, <2>5, <2>6, <3>1, <3>2 DEF AccountInv, RotatedIsThere
  <2>12. CachedWithinTwo'
    BY <2>2, <2>3, <2>4 DEF AccountInv, CachedWithinTwo, Doing
  <2> QED
    BY <2>7, <2>8, <2>9, <2>10, <2>11, <2>12 DEF AccountInv
<1> QED
  BY <1>1, <1>2

\* The old row goes, but the youngest row of a sign-in is nobody's old one.
LEMMA DeleteRotatedStep ==
  ASSUME AccountInv, NEW c \in AuthCalls, DeleteRotated(c)
  PROVE  AccountInv'
<1>1. /\ Doing(c, "delete") /\ Do(c, NoRequest)
      /\ AuthFault \/ UNCHANGED authFaults
      /\ UNCHANGED <<now, twoFAEnabled, blocked, failures, cachedUntil, accountHistory>>
  BY DEF DeleteRotated
<1>2. PICK t \in Times, s \in Times :
        /\ t = authCall[c].token /\ s = authCall[c].root /\ t < now
        /\ refreshRow[t] \in {s, NoSignIn}
        /\ s \in signedIn => \E u \in Times : u > t /\ refreshRow[u] = s
  BY <1>1, RotationFacts DEF InRotation, AccountInv, RotatedIsThere
<1>3. /\ authCall'[c].pc = "idle" /\ authCall' \in [AuthCalls -> {NoRequest} \cup Requests]
      /\ \A d \in AuthCalls \ {c} : authCall'[d] = authCall[d]
  BY <1>1 DEF Do, NoRequest, AccountInv, AccountTypeOK, Requests
<1>4. refreshRow' \in {refreshRow, [refreshRow EXCEPT ![t] = NoSignIn]}
  BY <1>2 DEF DeleteRotated
<1>5. /\ refreshRow' \in [Times -> Times \cup {NoSignIn}]
      /\ refreshRow'[t] \in {refreshRow[t], NoSignIn}
      /\ \A u \in Times \ {t} : refreshRow'[u] = refreshRow[u]
  BY <1>4 DEF AccountInv, AccountTypeOK
<1>6. authFaults' \in 0..MaxAuthFaults
  BY <1>1, AuthFaultBound DEF AccountInv, AccountTypeOK
<1>7. AccountTypeOK'
  BY <1>1, <1>3, <1>5, <1>6 DEF AccountInv, AccountTypeOK, accountHistory, Requests
<1>8. RowsAreOrdered'
  BY <1>1, <1>5 DEF AccountInv, RowsAreOrdered, accountHistory
<1>9. \A r \in signedIn : (\E u \in Times : refreshRow[u] = r)
                            => \E u \in Times : refreshRow'[u] = r
  <2> SUFFICES ASSUME NEW r \in signedIn, NEW u \in Times, refreshRow[u] = r
               PROVE  \E v \in Times : refreshRow'[v] = r
    OBVIOUS
  <2>1. CASE u # t
    BY <1>5, <2>1
  <2>2. CASE u = t
    <3>1. r = s
      BY <1>2, <2>2, Clock DEF AccountInv, AccountTypeOK
    <3>2. PICK v \in Times : v > t /\ refreshRow[v] = s
      BY <1>2, <3>1
    <3>3. v # t
      BY <3>2, Clock
    <3> QED
      BY <1>5, <3>1, <3>2, <3>3
  <2> QED
    BY <2>1, <2>2
<1>10. SessionSurvivesRotation'
  BY <1>1, <1>9 DEF AccountInv, SessionSurvivesRotation, accountHistory
<1>11. \A d \in AuthCalls \ {c} : authCall'[d] = authCall[d]
  BY <1>3
<1>12. RotationsAreOpen'
  <2> SUFFICES ASSUME NEW d \in AuthCalls \ {c}, InRotation(d)
               PROVE  refreshRow'[authCall[d].token] \in {authCall[d].root, NoSignIn}
                      /\ (authCall[d].token = now =>
                            refreshRow'[authCall[d].token] = authCall[d].root)
    BY <1>1, <1>3, RotationFacts DEF RotationsAreOpen, InRotation, Doing
  <2>1. PICK u \in Times : u = authCall[d].token
    BY RotationFacts
  <2>2. refreshRow[u] \in {authCall[d].root, NoSignIn} /\ (u = t => u # now)
        /\ (u = now => refreshRow[u] = authCall[d].root)
    BY <1>2, <2>1, RotationFacts, Clock
  <2> QED
    BY <1>5, <2>1, <2>2
<1>13. RotatedIsThere'
  <2> SUFFICES ASSUME NEW d \in AuthCalls \ {c}, Doing(d, "delete"),
                      authCall[d].root \in signedIn
               PROVE  \E u \in Times : u > authCall[d].token /\ refreshRow'[u] = authCall[d].root
    BY <1>1, <1>3 DEF AccountInv, RotatedIsThere, Doing, accountHistory
  <2>1. PICK r \in Times, k \in Times : r = authCall[d].root /\ k = authCall[d].token
    BY RotationFacts DEF InRotation
  <2>2. PICK u \in Times : u > k /\ refreshRow[u] = r
    BY <2>1 DEF AccountInv, RotatedIsThere
  <2>3. CASE u # t
    BY <1>5, <2>1, <2>2, <2>3
  <2>4. CASE u = t
    <3>1. r = s
      BY <1>2, <2>2, <2>4, Clock
    <3>2. PICK v \in Times : v > t /\ refreshRow[v] = s
      BY <1>2, <2>1, <3>1
    <3>3. v # t /\ v > k
      BY <2>2, <2>4, <3>2, Clock
    <3> QED
      BY <1>5, <2>1, <3>1, <3>2, <3>3
  <2> QED
    BY <2>3, <2>4
<1>14. CachedWithinTwo'
  BY <1>1, <1>3 DEF AccountInv, CachedWithinTwo, Doing
<1> QED
  BY <1>7, <1>8, <1>10, <1>12, <1>13, <1>14 DEF AccountInv

LEMMA AuthMiddlewareStep ==
  ASSUME AccountInv, NEW t \in Times, AuthMiddleware(t)
  PROVE  AccountInv'
<1>1. /\ now < t + AccessLife
      /\ cachedUntil' = [cachedUntil EXCEPT ![t] = now + AccessLife]
      /\ UNCHANGED <<now, twoFAEnabled, blocked, failures, refreshRow, authCall,
                     accountHistory>>
      /\ authFaults' \in 0..MaxAuthFaults
  BY AuthFaultBound DEF AuthMiddleware, Unspent, AccountInv, AccountTypeOK
<1>2. /\ now \in 0..MaxNow /\ t \in 0..MaxNow /\ AccessLife \in Nat /\ MaxNow \in Nat
  BY AccountAssumption DEF AccountInv, AccountTypeOK, Times
<1>3. now + AccessLife \in 0..MaxNow + AccessLife /\ now + AccessLife <= t + 2 * AccessLife
  BY <1>1, <1>2
<1>4. /\ cachedUntil' \in [Times -> 0..MaxNow + AccessLife]
      /\ \A u \in Times : cachedUntil'[u] <= u + 2 * AccessLife
  BY <1>1, <1>3 DEF AccountInv, AccountTypeOK, CachedWithinTwo
<1>5. AccountTypeOK'
  BY <1>1, <1>4 DEF AccountInv, AccountTypeOK, accountHistory
<1>6. RowsAreOrdered' /\ SessionSurvivesRotation' /\ RotationsAreOpen' /\ RotatedIsThere'
  BY <1>1
  DEF AccountInv, RowsAreOrdered, SessionSurvivesRotation, RotationsAreOpen, RotatedIsThere,
      InRotation, Doing, accountHistory
<1>7. CachedWithinTwo'
  BY <1>1, <1>4 DEF AccountInv, CachedWithinTwo, Doing
<1> QED
  BY <1>5, <1>6, <1>7 DEF AccountInv

\* No second passes over a request that has still to cache its token.
LEMMA TickStep ==
  ASSUME AccountInv, Tick
  PROVE  AccountInv'
<1>1. /\ now < MaxNow /\ now' = now + 1
      /\ \A c \in AuthCalls : Doing(c, "cache") => now < authCall[c].token + AccessLife
      /\ cachedUntil' = [t \in Times |-> IF cachedUntil[t] > now' THEN cachedUntil[t] ELSE 0]
      /\ minted' \subseteq minted
      /\ UNCHANGED <<twoFAEnabled, blocked, failures, refreshRow, authCall, signedIn, authFaults>>
  BY DEF Tick
<1>2. now \in Nat /\ MaxNow \in Nat /\ AccessLife \in Nat /\ now' \in Times
  BY <1>1, AccountAssumption DEF AccountInv, AccountTypeOK, Times
<1>3. /\ cachedUntil' \in [Times -> 0..MaxNow + AccessLife]
      /\ \A u \in Times : cachedUntil'[u] <= u + 2 * AccessLife
  <2> SUFFICES ASSUME NEW u \in Times
               PROVE  /\ cachedUntil'[u] \in 0..MaxNow + AccessLife
                      /\ cachedUntil'[u] <= u + 2 * AccessLife
    BY <1>1
  <2>1. cachedUntil'[u] \in {cachedUntil[u], 0}
    BY <1>1
  <2>2. cachedUntil[u] \in 0..MaxNow + AccessLife /\ cachedUntil[u] <= u + 2 * AccessLife
    BY DEF AccountInv, AccountTypeOK, CachedWithinTwo
  <2> QED
    BY <1>2, <2>1, <2>2, Clock
<1>4. AccountTypeOK'
  BY <1>1, <1>2, <1>3 DEF AccountInv, AccountTypeOK
<1>5. RowsAreOrdered'
  BY <1>1, <1>2, Clock DEF AccountInv, RowsAreOrdered
<1>6. SessionSurvivesRotation'
  BY <1>1 DEF AccountInv, SessionSurvivesRotation
<1>7. RotationsAreOpen' /\ RotatedIsThere'
  <2>1. ASSUME NEW c \in AuthCalls, InRotation(c)
        PROVE  authCall[c].token \in Nat /\ authCall[c].token <= now /\ authCall[c].token # now'
    <3>1. authCall[c].token \in Nat /\ authCall[c].token <= now
      BY <2>1, RotationFacts, Clock
    <3> QED
      BY <1>1, <1>2, <3>1
  <2>2. RotationsAreOpen'
    BY <1>1, <1>2, <2>1, RotationFacts DEF RotationsAreOpen, InRotation, Doing
  <2>3. RotatedIsThere'
    BY <1>1, <1>2, <2>1 DEF AccountInv, RotatedIsThere, InRotation, Doing
  <2> QED
    BY <2>2, <2>3
<1>8. CachedWithinTwo'
  <2>1. ASSUME NEW c \in AuthCalls, Doing(c, "cache")
        PROVE  now' <= authCall[c].token + AccessLife
    <3>1. authCall[c].token \in Nat
      BY <2>1, RequestTyped, Clock DEF Doing, Requests
    <3> QED
      BY <1>1, <1>2, <2>1, <3>1
  <2> QED
    BY <1>1, <1>3, <2>1 DEF CachedWithinTwo, Doing
<1> QED
  BY <1>4, <1>5, <1>6, <1>7, <1>8 DEF AccountInv

LEMMA AccountStep == AccountInv /\ [AccountNext]_accountVars => AccountInv'
<1> SUFFICES ASSUME AccountInv, [AccountNext]_accountVars
             PROVE  AccountInv'
  OBVIOUS
<1>1. CASE MinutePasses \/ UNCHANGED accountVars
  <2>1. /\ UNCHANGED <<now, twoFAEnabled, refreshRow, cachedUntil, authCall, accountHistory,
                       authFaults>>
        /\ blocked' \in BOOLEAN /\ failures' \in 0..FailureLimit
    <3>1. CASE MinutePasses
      <4>1. 0 \in 0..FailureLimit
        BY AccountAssumption
      <4> QED
        BY <3>1, <4>1 DEF MinutePasses
    <3>2. CASE UNCHANGED accountVars
      BY <3>2 DEF accountVars, accountTables, AccountInv, AccountTypeOK
    <3> QED
      BY <1>1, <3>1, <3>2
  <2> QED
    BY <2>1
    DEF AccountInv, AccountTypeOK, RowsAreOrdered, SessionSurvivesRotation, RotationsAreOpen,
        RotatedIsThere, CachedWithinTwo, InRotation, Doing, accountHistory
<1>2. ASSUME NEW c \in AuthCalls,
             \/ IsUserBlocked(c) \/ WrongPassword(c) \/ RightPassword(c) \/ CountFailures(c)
             \/ BlockUser(c) \/ CodeAccepted(c) \/ IssueTokens(c) \/ CacheSession(c)
             \/ StoreRotated(c) \/ DeleteRotated(c) \/ FailRequest(c)
      PROVE  AccountInv'
  BY <1>2, LoginStep, IssueTokensStep, CacheSessionStep, StoreRotatedStep, DeleteRotatedStep
<1> QED
  BY <1>1, <1>2, RefreshGetStep, AuthMiddlewareStep, TickStep DEF AccountNext

\* The invariant of the account holds always.
THEOREM AccountInvariant == AccountSpec => []AccountInv
  BY AccountInitial, AccountStep, PTL DEF AccountSpec

\* No rotation loses a session: side by side, with keys that collide within a
\* second, and with a failure at any step (jwtService.go RefreshTokens).
THEOREM NoSessionLost == AccountSpec => []SessionSurvivesRotation
<1>1. AccountInv => SessionSurvivesRotation
  BY DEF AccountInv
<1> QED
  BY <1>1, AccountInvariant, PTL

\* The middleware accepts no access token for two of its lives or longer.
THEOREM AccessEnds == AccountSpec => []NoRequestPastTwoLives
<1>1. AccountInv => NoRequestPastTwoLives
  <2> SUFFICES ASSUME AccountInv, NEW t \in Times, Accepts(t)
               PROVE  now < t + 2 * AccessLife
    BY DEF NoRequestPastTwoLives
  <2>1. t \in Nat /\ now \in Nat /\ AccessLife \in Nat /\ cachedUntil[t] \in Nat
    BY AccountAssumption, Clock DEF AccountInv, AccountTypeOK
  <2>2. now < cachedUntil[t] \/ now < t + AccessLife
    BY DEF Accepts, Cached, Unspent
  <2>3. cachedUntil[t] <= t + 2 * AccessLife
    BY DEF AccountInv, CachedWithinTwo
  <2> QED
    BY <2>1, <2>2, <2>3
<1> QED
  BY <1>1, AccountInvariant, PTL

-----------------------------------------------------------------------------
(* The codes of the second factor *)

Inserting    == {c \in CodeCalls : codeCall[c].pc = "insert"}
Comparing(k) == {c \in CodeCalls : codeCall[c].pc = "compare" /\ codeCall[c].code = k}

\* A request that compares a used code selected it before it was used, so it was
\* under way with the one that used it; none selects the code from then on.
AcceptedOnce ==
    \A k \in DOMAIN codes :
        IF codes[k].used
        THEN accepted[k] + Cardinality(Comparing(k)) <= Cardinality(CodeCalls)
        ELSE accepted[k] = 0

\* A request that counted the codes inserts one more at most.
RequestsCounted ==
    Cardinality(Recent) + Cardinality(Inserting) < RequestLimit + Cardinality(CodeCalls)

CodeInv == CodeTypeOK /\ AcceptedOnce /\ RequestsCounted

LEMMA FewerCalls ==
  ASSUME NEW S \in SUBSET CodeCalls
  PROVE  /\ IsFiniteSet(S) /\ Cardinality(S) \in Nat /\ Cardinality(CodeCalls) \in Nat
         /\ Cardinality(S) <= Cardinality(CodeCalls)
  BY CodeAssumption, FS_Subset, FS_CardinalityType

\* Taking one request out of a set of them, and letting one in.
LEMMA OneCallLess ==
  ASSUME NEW S \in SUBSET CodeCalls, NEW c \in S
  PROVE  Cardinality(S \ {c}) = Cardinality(S) - 1
  BY FewerCalls, FS_RemoveElement

LEMMA CodeInitial == CodeInit => CodeInv
<1> SUFFICES ASSUME CodeInit
             PROVE  CodeInv
  OBVIOUS
<1>1. CodeTypeOK
  BY CodeAssumption DEF CodeInit, CodeTypeOK
<1>2. AcceptedOnce
  BY DEF CodeInit, AcceptedOnce
<1>3. Recent = {} /\ Cardinality(Recent) = 0
  BY FS_EmptySet DEF CodeInit, Recent
<1>4. RequestsCounted
  BY <1>3, FewerCalls, CodeAssumption DEF RequestsCounted, Inserting
<1> QED
  BY <1>1, <1>2, <1>4 DEF CodeInv

LEMMA RecentFinite ==
  ASSUME CodeTypeOK
  PROVE  IsFiniteSet(Recent) /\ Cardinality(Recent) \in Nat
<1>1. DOMAIN codes = 1..Len(codes) /\ Len(codes) \in Nat
  BY DEF CodeTypeOK
<1>2. IsFiniteSet(1..Len(codes))
  BY <1>1, FS_Interval
<1> QED
  BY <1>1, <1>2, FS_Subset, FS_CardinalityType DEF Recent

\* What a request holds: nothing, the right to insert, or a code it has read.
LEMMA CallKinds ==
  ASSUME CodeTypeOK, NEW c \in CodeCalls
  PROVE  /\ codeCall[c].pc \in {"idle", "insert", "select", "compare"}
         /\ codeCall[c].pc = "compare" =>
              codeCall[c].code \in DOMAIN codes /\ codeCall[c].attempts \in 0..TryLimit - 1
  BY DEF CodeTypeOK, NoRead, ToInsert, ToSelect

Reads ==
  {NoRead, ToInsert, ToSelect}
    \cup [pc : {"compare"}, code : DOMAIN codes, attempts : 0..TryLimit - 1]

\* A request that is done leaves the sets it was in.
LEMMA CallEnds ==
  ASSUME CodeInv, NEW c \in CodeCalls, codeCall' = [codeCall EXCEPT ![c] = NoRead]
  PROVE  /\ codeCall' \in [CodeCalls -> Reads]
         /\ Inserting' = Inserting \ {c}
         /\ codeCall'[c].pc = "idle" /\ \A d \in CodeCalls \ {c} : codeCall'[d] = codeCall[d]
<1>1. codeCall' \in [CodeCalls -> Reads] /\ codeCall'[c] = NoRead
      /\ \A d \in CodeCalls \ {c} : codeCall'[d] = codeCall[d]
  BY DEF CodeInv, CodeTypeOK, Reads
<1>2. NoRead.pc = "idle"
  BY DEF NoRead
<1> QED
  BY <1>1, <1>2 DEF Inserting

LEMMA FewerElements ==
  ASSUME NEW S \in SUBSET CodeCalls, NEW T \in SUBSET S
  PROVE  Cardinality(T) \in Nat /\ Cardinality(S) \in Nat /\ Cardinality(T) <= Cardinality(S)
  BY FewerCalls, FS_Subset, FS_CardinalityType

\* A step that leaves the codes and what was accepted alone, and where a request
\* selects no code that was used.
LEMMA RequestOnly ==
  ASSUME CodeInv, UNCHANGED <<codes, codeHistory>>,
         codeCall' \in [CodeCalls -> Reads],
         \A k \in DOMAIN codes : codes[k].used => Comparing(k)' \subseteq Comparing(k),
         Cardinality(Recent) < RequestLimit \/ Inserting' \subseteq Inserting
  PROVE  CodeInv'
<1>1. CodeTypeOK'
  BY DEF CodeInv, CodeTypeOK, Reads, codeHistory
<1>2. AcceptedOnce'
  <2> SUFFICES ASSUME NEW k \in DOMAIN codes
               PROVE  IF codes[k].used
                      THEN accepted[k] + Cardinality(Comparing(k)') <= Cardinality(CodeCalls)
                      ELSE accepted[k] = 0
    BY DEF AcceptedOnce, codeHistory
  <2>1. CASE ~codes[k].used
    BY <2>1 DEF CodeInv, AcceptedOnce
  <2>2. CASE codes[k].used
    <3>1. Comparing(k)' \subseteq Comparing(k) /\ Comparing(k) \subseteq CodeCalls
      BY <2>2 DEF Comparing
    <3>2. accepted[k] \in Nat /\ accepted[k] + Cardinality(Comparing(k)) <= Cardinality(CodeCalls)
      BY <2>2 DEF CodeInv, CodeTypeOK, AcceptedOnce
    <3> QED
      BY <2>2, <3>1, <3>2, FewerElements, FewerCalls
  <2> QED
    BY <2>1, <2>2
<1>3. RequestsCounted'
  <2>1. Recent' = Recent
    BY DEF Recent
  <2>2. Cardinality(Recent) \in Nat /\ RequestLimit \in Nat /\ Cardinality(CodeCalls) \in Nat
    BY RecentFinite, FewerCalls, CodeAssumption DEF CodeInv
  <2>3. Inserting' \subseteq CodeCalls /\ Inserting \subseteq CodeCalls
    BY DEF Inserting
  <2>4. CASE Cardinality(Recent) < RequestLimit
    BY <2>1, <2>2, <2>3, <2>4, FewerCalls DEF RequestsCounted
  <2>5. CASE Inserting' \subseteq Inserting
    BY <2>1, <2>2, <2>3, <2>5, FewerElements DEF CodeInv, RequestsCounted
  <2> QED
    BY <2>4, <2>5
<1> QED
  BY <1>1, <1>2, <1>3 DEF CodeInv

LEMMA CountRequestsStep ==
  ASSUME CodeInv, NEW c \in CodeCalls, CountRequests(c)
  PROVE  CodeInv'
<1>1. /\ codeCall[c] = NoRead /\ codeCall' = [codeCall EXCEPT ![c] = ToInsert]
      /\ Cardinality(Recent) < RequestLimit /\ UNCHANGED <<codes, codeHistory>>
  BY DEF CountRequests
<1>2. /\ codeCall' \in [CodeCalls -> Reads] /\ codeCall'[c] = ToInsert
      /\ \A d \in CodeCalls \ {c} : codeCall'[d] = codeCall[d]
  BY <1>1 DEF CodeInv, CodeTypeOK, Reads
<1>3. \A k : Comparing(k)' \subseteq Comparing(k)
  <2>1. ToInsert.pc # "compare"
    BY DEF ToInsert
  <2> QED
    BY <1>2, <2>1 DEF Comparing
<1> QED
  BY <1>1, <1>2, <1>3, RequestOnly

LEMMA CountAttemptsStep ==
  ASSUME CodeInv, NEW c \in CodeCalls, CountAttempts(c)
  PROVE  CodeInv'
<1>1. /\ codeCall' = [codeCall EXCEPT ![c] = ToSelect]
      /\ UNCHANGED <<codes, codeHistory>>
  BY DEF CountAttempts
<1>2. /\ codeCall' \in [CodeCalls -> Reads] /\ codeCall'[c] = ToSelect
      /\ \A d \in CodeCalls \ {c} : codeCall'[d] = codeCall[d]
  BY <1>1 DEF CodeInv, CodeTypeOK, Reads
<1>3. ToSelect.pc = "select"
  BY DEF ToSelect
<1>4. \A k : Comparing(k)' \subseteq Comparing(k)
  BY <1>2, <1>3 DEF Comparing
<1>5. Inserting' \subseteq Inserting
  BY <1>2, <1>3 DEF Inserting
<1> QED
  BY <1>1, <1>2, <1>4, <1>5, RequestOnly

\* Only a code that was not used is selected.
LEMMA SelectCodeStep ==
  ASSUME CodeInv, NEW c \in CodeCalls, SelectCode(c)
  PROVE  CodeInv'
<1>1. PICK k \in Open :
        /\ codes[k].attempts < TryLimit
        /\ codeCall' = [codeCall EXCEPT ![c] = ToCompare(k)]
        /\ UNCHANGED <<codes, codeHistory>>
  BY DEF SelectCode
<1>2. k \in DOMAIN codes /\ ~codes[k].used /\ codes[k] \in Code
  BY DEF Open, Fresh, CodeInv, CodeTypeOK
<1>3. PICK read \in Reads : read = ToCompare(k) /\ read.pc = "compare" /\ read.code = k
  <2>1. codes[k].attempts \in 0..TryLimit - 1
    BY <1>1, <1>2, CodeAssumption DEF Code
  <2>2. ToCompare(k) \in Reads
    BY <1>2, <2>1 DEF ToCompare, Reads
  <2>3. ToCompare(k).pc = "compare" /\ ToCompare(k).code = k
    BY DEF ToCompare
  <2> QED
    BY <2>2, <2>3
<1>4. /\ codeCall' \in [CodeCalls -> Reads] /\ codeCall'[c] = read
      /\ \A d \in CodeCalls \ {c} : codeCall'[d] = codeCall[d]
  BY <1>1, <1>3 DEF CodeInv, CodeTypeOK, Reads
<1>5. \A j \in DOMAIN codes : codes[j].used => Comparing(j)' \subseteq Comparing(j)
  BY <1>2, <1>3, <1>4 DEF Comparing
<1>6. Inserting' \subseteq Inserting
  BY <1>3, <1>4 DEF Inserting
<1> QED
  BY <1>1, <1>4, <1>5, <1>6, RequestOnly

LEMMA FailCodeStep ==
  ASSUME CodeInv, NEW c \in CodeCalls, FailCode(c)
  PROVE  CodeInv'
<1>1. codeCall' = [codeCall EXCEPT ![c] = NoRead] /\ UNCHANGED <<codes, codeHistory>>
  BY DEF FailCode
<1>2. /\ codeCall' \in [CodeCalls -> Reads] /\ Inserting' \subseteq Inserting
      /\ \A k \in DOMAIN codes : Comparing(k)' \subseteq Comparing(k)
  BY <1>1, CallEnds DEF Comparing
<1> QED
  BY <1>1, <1>2, RequestOnly

\* When a request is done, a used code is compared by no more of them, and there are
\* no more that are to insert one.
LEMMA StillCounted ==
  ASSUME CodeInv, NEW c \in CodeCalls, codeCall' = [codeCall EXCEPT ![c] = NoRead],
         NEW k \in DOMAIN codes, codes[k].used
  PROVE  accepted[k] + Cardinality(Comparing(k)') <= Cardinality(CodeCalls)
<1>1. Comparing(k)' \subseteq Comparing(k) /\ Comparing(k) \subseteq CodeCalls
  BY CallEnds DEF Comparing
<1>2. accepted[k] \in Nat
  BY DEF CodeInv, CodeTypeOK
<1>3. accepted[k] + Cardinality(Comparing(k)) <= Cardinality(CodeCalls)
  BY DEF CodeInv, AcceptedOnce
<1>4. /\ Cardinality(Comparing(k)') \in Nat /\ Cardinality(Comparing(k)) \in Nat
      /\ Cardinality(CodeCalls) \in Nat
      /\ Cardinality(Comparing(k)') <= Cardinality(Comparing(k))
  BY <1>1, FewerElements, FewerCalls
<1> QED
  BY <1>2, <1>3, <1>4

LEMMA NoMoreInserts ==
  ASSUME CodeInv, NEW c \in CodeCalls, codeCall' = [codeCall EXCEPT ![c] = NoRead],
         Recent' \subseteq Recent
  PROVE  RequestsCounted'
<1>1. Cardinality(Recent') <= Cardinality(Recent)
      /\ Cardinality(Recent') \in Nat /\ Cardinality(Recent) \in Nat
  BY RecentFinite, FS_Subset, FS_CardinalityType DEF CodeInv
<1>2. Inserting' \subseteq Inserting /\ Inserting \subseteq CodeCalls
  BY CallEnds DEF Inserting
<1>3. Cardinality(Inserting') <= Cardinality(Inserting)
      /\ Cardinality(Inserting') \in Nat /\ Cardinality(Inserting) \in Nat
  BY <1>2, FewerElements
<1> QED
  BY <1>1, <1>3, FewerCalls, CodeAssumption DEF CodeInv, RequestsCounted

\* The code that is inserted was counted as the request that was to insert it.
LEMMA InsertCodeStep ==
  ASSUME CodeInv, NEW c \in CodeCalls, InsertTwoFaCode(c)
  PROVE  CodeInv'
<1> DEFINE new == Len(codes) + 1
<1>1. /\ c \in Inserting /\ Len(codes) < MaxCodes
      /\ codes' = Append(codes, CodeRow(0, FALSE, "fresh"))
      /\ accepted' = Append(accepted, 0) /\ tries' = Append(tries, 0)
      /\ codeCall' = [codeCall EXCEPT ![c] = NoRead]
  BY DEF InsertTwoFaCode, Inserting
<1>2. /\ codes \in Seq(Code) /\ Len(codes) \in Nat /\ accepted \in Seq(Nat) /\ tries \in Seq(Nat)
      /\ Len(accepted) = Len(codes) /\ Len(tries) = Len(codes)
  BY DEF CodeInv, CodeTypeOK
<1>3. PICK row \in Code : row = CodeRow(0, FALSE, "fresh") /\ ~row.used /\ row.age = "fresh"
  <2>1. 0 \in 0..TryLimit
    BY CodeAssumption
  <2>2. CodeRow(0, FALSE, "fresh") \in Code
    BY <2>1 DEF CodeRow, Code, Ages
  <2>3. ~CodeRow(0, FALSE, "fresh").used /\ CodeRow(0, FALSE, "fresh").age = "fresh"
    BY DEF CodeRow
  <2> QED
    BY <2>2, <2>3
<1>4. /\ codes' \in Seq(Code) /\ Len(codes') = new /\ DOMAIN codes' = DOMAIN codes \cup {new}
      /\ new \notin DOMAIN codes
      /\ codes'[new] = row /\ \A k \in DOMAIN codes : codes'[k] = codes[k]
  <2>1. codes' = Append(codes, row)
    BY <1>1, <1>3
  <2>2. DOMAIN codes = 1..Len(codes)
    BY <1>2
  <2>3. codes' \in Seq(Code) /\ Len(codes') = new
    BY <1>2, <2>1
  <2>4. DOMAIN codes' = 1..new
    BY <2>3
  <2> QED
    BY <1>2, <2>1, <2>2, <2>3, <2>4
<1>5. /\ accepted' \in Seq(Nat) /\ Len(accepted') = new /\ tries' \in Seq(Nat) /\ Len(tries') = new
      /\ accepted'[new] = 0 /\ \A k \in DOMAIN codes : accepted'[k] = accepted[k]
  BY <1>1, <1>2
<1>6. CodeTypeOK'
  <2>1. Len(codes') <= MaxCodes
    BY <1>1, <1>2, <1>4, CodeAssumption
  <2>2. codeCall' \in [CodeCalls -> {NoRead, ToInsert, ToSelect} \cup
          [pc : {"compare"}, code : DOMAIN codes', attempts : 0..TryLimit - 1]]
    BY <1>1, <1>4, CallEnds DEF Reads
  <2> QED
    BY <1>4, <1>5, <2>1, <2>2 DEF CodeTypeOK
<1>7. AcceptedOnce'
  <2> SUFFICES ASSUME NEW k \in DOMAIN codes'
               PROVE  IF codes'[k].used
                      THEN accepted'[k] + Cardinality(Comparing(k)') <= Cardinality(CodeCalls)
                      ELSE accepted'[k] = 0
    BY DEF AcceptedOnce
  <2>1. CASE k = new
    BY <1>3, <1>4, <1>5, <2>1
  <2>2. CASE k \in DOMAIN codes /\ codes[k].used
    <3>1. accepted[k] + Cardinality(Comparing(k)') <= Cardinality(CodeCalls)
      BY <1>1, <2>2, StillCounted
    <3> QED
      BY <1>4, <1>5, <2>2, <3>1
  <2>3. CASE k \in DOMAIN codes /\ ~codes[k].used
    BY <1>4, <1>5, <2>3 DEF CodeInv, AcceptedOnce
  <2> QED
    BY <1>4, <2>1, <2>2, <2>3
<1>8. RequestsCounted'
  <2>1. Recent' = Recent \cup {new} /\ new \notin Recent
    BY <1>3, <1>4 DEF Recent
  <2>2. Cardinality(Recent') = Cardinality(Recent) + 1 /\ Cardinality(Recent) \in Nat
    BY <2>1, RecentFinite, FS_AddElement DEF CodeInv
  <2>3. Inserting' = Inserting \ {c} /\ Inserting \subseteq CodeCalls
    BY <1>1, CallEnds DEF Inserting
  <2>4. Cardinality(Inserting') = Cardinality(Inserting) - 1
    BY <1>1, <2>3, OneCallLess
  <2>5. Cardinality(Inserting) \in Nat /\ Cardinality(CodeCalls) \in Nat /\ RequestLimit \in Nat
    BY <2>3, FewerCalls, CodeAssumption
  <2> QED
    BY <2>2, <2>4, <2>5 DEF CodeInv, RequestsCounted
<1> QED
  BY <1>6, <1>7, <1>8 DEF CodeInv

LEMMA CodeFields ==
  ASSUME CodeInv, NEW k \in DOMAIN codes
  PROVE  /\ codes[k] \in Code /\ codes[k].attempts \in 0..TryLimit
         /\ codes[k].used \in BOOLEAN /\ codes[k].age \in Ages
<1>1. codes \in Seq(Code)
  BY DEF CodeInv, CodeTypeOK
<1>2. codes[k] \in Code
  BY <1>1
<1> QED
  BY <1>2 DEF Code

\* Writing a row back: it stays where it is, and so do the others.
LEMMA RowWritten ==
  ASSUME CodeTypeOK, NEW k \in DOMAIN codes, NEW row \in Code,
         codes' = [codes EXCEPT ![k] = row]
  PROVE  /\ codes' \in Seq(Code) /\ DOMAIN codes' = DOMAIN codes /\ Len(codes') = Len(codes)
         /\ codes'[k] = row /\ \A j \in DOMAIN codes \ {k} : codes'[j] = codes[j]
  BY DEF CodeTypeOK

\* A wrong try touches neither what was accepted nor how old a code is.
LEMMA WrongCodeStep ==
  ASSUME CodeInv, NEW c \in CodeCalls, WrongCode(c)
  PROVE  CodeInv'
<1>1. PICK k \in DOMAIN codes, n \in 0..TryLimit - 1 :
        /\ codes' = [codes EXCEPT ![k] = CodeRow(n + 1, codes[k].used, codes[k].age)]
        /\ tries' = [tries EXCEPT ![k] = @ + 1]
  BY CallKinds DEF WrongCode, CodeInv
<1>2. codeCall' = [codeCall EXCEPT ![c] = NoRead] /\ UNCHANGED accepted
  BY DEF WrongCode
<1>3. codes[k] \in Code /\ codes[k].used \in BOOLEAN /\ codes[k].age \in Ages
  BY CodeFields
<1>4. PICK row \in Code :
        row = CodeRow(n + 1, codes[k].used, codes[k].age)
        /\ row.used = codes[k].used /\ row.age = codes[k].age
  <2>1. n + 1 \in 0..TryLimit
    BY CodeAssumption
  <2>2. CodeRow(n + 1, codes[k].used, codes[k].age) \in Code
    BY <1>3, <2>1 DEF CodeRow, Code
  <2>3. /\ CodeRow(n + 1, codes[k].used, codes[k].age).used = codes[k].used
        /\ CodeRow(n + 1, codes[k].used, codes[k].age).age = codes[k].age
    BY DEF CodeRow
  <2> QED
    BY <2>2, <2>3
<1>5. /\ codes' \in Seq(Code) /\ DOMAIN codes' = DOMAIN codes /\ Len(codes') = Len(codes)
      /\ \A j \in DOMAIN codes : codes'[j].used = codes[j].used /\ codes'[j].age = codes[j].age
  BY <1>1, <1>4, RowWritten DEF CodeInv
<1>6. tries' \in Seq(Nat) /\ Len(tries') = Len(tries)
  BY <1>1 DEF CodeInv, CodeTypeOK
<1>7. CodeTypeOK'
  <2>1. codeCall' \in [CodeCalls -> {NoRead, ToInsert, ToSelect} \cup
          [pc : {"compare"}, code : DOMAIN codes', attempts : 0..TryLimit - 1]]
    BY <1>2, <1>5, CallEnds DEF Reads
  <2> QED
    BY <1>2, <1>5, <1>6, <2>1 DEF CodeInv, CodeTypeOK
<1>8. AcceptedOnce'
  <2> SUFFICES ASSUME NEW j \in DOMAIN codes
               PROVE  IF codes[j].used
                      THEN accepted[j] + Cardinality(Comparing(j)') <= Cardinality(CodeCalls)
                      ELSE accepted[j] = 0
    BY <1>2, <1>5 DEF AcceptedOnce
  <2>1. CASE ~codes[j].used
    BY <2>1 DEF CodeInv, AcceptedOnce
  <2>2. CASE codes[j].used
    BY <1>2, <2>2, StillCounted
  <2> QED
    BY <2>1, <2>2
<1>9. RequestsCounted'
  <2>1. Recent' = Recent
    BY <1>5 DEF Recent
  <2> QED
    BY <1>2, <2>1, NoMoreInserts
<1> QED
  BY <1>7, <1>8, <1>9 DEF CodeInv

\* The request that is accepted is one less that compares the code; if it is the
\* first, all others that compare it are under way with it.
LEMMA RightCodeStep ==
  ASSUME CodeInv, NEW c \in CodeCalls, RightCode(c)
  PROVE  CodeInv'
<1>1. PICK k \in DOMAIN codes :
        /\ c \in Comparing(k)
        /\ codes' = [codes EXCEPT ![k] = CodeRow(codes[k].attempts, TRUE, codes[k].age)]
        /\ accepted' = [accepted EXCEPT ![k] = @ + 1]
  BY CallKinds DEF RightCode, CodeInv, Comparing
<1>2. codeCall' = [codeCall EXCEPT ![c] = NoRead] /\ UNCHANGED tries
  BY DEF RightCode
<1>3. codes[k] \in Code /\ codes[k].attempts \in 0..TryLimit /\ codes[k].age \in Ages
  BY CodeFields
<1>4. PICK row \in Code :
        row = CodeRow(codes[k].attempts, TRUE, codes[k].age) /\ row.used /\ row.age = codes[k].age
  <2>1. CodeRow(codes[k].attempts, TRUE, codes[k].age) \in Code
    BY <1>3 DEF CodeRow, Code
  <2>2. /\ CodeRow(codes[k].attempts, TRUE, codes[k].age).used
        /\ CodeRow(codes[k].attempts, TRUE, codes[k].age).age = codes[k].age
    BY DEF CodeRow
  <2> QED
    BY <2>1, <2>2
<1>5. /\ codes' \in Seq(Code) /\ DOMAIN codes' = DOMAIN codes /\ Len(codes') = Len(codes)
      /\ codes'[k] = row /\ \A j \in DOMAIN codes \ {k} : codes'[j] = codes[j]
  BY <1>1, <1>4, RowWritten DEF CodeInv
<1>6. /\ accepted' \in Seq(Nat) /\ Len(accepted') = Len(accepted)
      /\ accepted[k] \in Nat /\ accepted'[k] = accepted[k] + 1
      /\ \A j \in DOMAIN codes \ {k} : accepted'[j] = accepted[j]
  BY <1>1 DEF CodeInv, CodeTypeOK
<1>7. CodeTypeOK'
  <2>1. codeCall' \in [CodeCalls -> {NoRead, ToInsert, ToSelect} \cup
          [pc : {"compare"}, code : DOMAIN codes', attempts : 0..TryLimit - 1]]
    BY <1>2, <1>5, CallEnds DEF Reads
  <2> QED
    BY <1>2, <1>5, <1>6, <2>1 DEF CodeInv, CodeTypeOK
<1>8. accepted'[k] + Cardinality(Comparing(k)') <= Cardinality(CodeCalls)
  <2>1. Comparing(k)' = Comparing(k) \ {c} /\ Comparing(k) \subseteq CodeCalls
    BY <1>2, CallEnds DEF Comparing
  <2>2. /\ Cardinality(Comparing(k)') = Cardinality(Comparing(k)) - 1
        /\ Cardinality(Comparing(k)) \in Nat /\ Cardinality(CodeCalls) \in Nat
        /\ Cardinality(Comparing(k)) <= Cardinality(CodeCalls)
    BY <1>1, <2>1, OneCallLess, FewerCalls
  <2>3. accepted[k] + Cardinality(Comparing(k)) <= Cardinality(CodeCalls)
    BY <2>2 DEF CodeInv, AcceptedOnce
  <2> QED
    BY <1>6, <2>2, <2>3
<1>9. AcceptedOnce'
  <2> SUFFICES ASSUME NEW j \in DOMAIN codes \ {k}
               PROVE  IF codes[j].used
                      THEN accepted[j] + Cardinality(Comparing(j)') <= Cardinality(CodeCalls)
                      ELSE accepted[j] = 0
    BY <1>4, <1>5, <1>6, <1>8 DEF AcceptedOnce
  <2>1. CASE ~codes[j].used
    BY <2>1 DEF CodeInv, AcceptedOnce
  <2>2. CASE codes[j].used
    BY <1>2, <2>2, StillCounted
  <2> QED
    BY <2>1, <2>2
<1>10. RequestsCounted'
  <2>1. Recent' = Recent
    BY <1>4, <1>5 DEF Recent
  <2> QED
    BY <1>2, <2>1, NoMoreInserts
<1> QED
  BY <1>7, <1>9, <1>10 DEF CodeInv

LEMMA AgeStep ==
  ASSUME CodeInv, NEW k \in DOMAIN codes, Age(k)
  PROVE  CodeInv'
<1>1. PICK age \in Ages :
        /\ codes[k].age # "old"
        /\ codes' = [codes EXCEPT ![k] = CodeRow(codes[k].attempts, codes[k].used, age)]
        /\ UNCHANGED <<codeCall, accepted, tries>>
  BY DEF Age, Ages, codeHistory
<1>2. codes[k] \in Code /\ codes[k].attempts \in 0..TryLimit /\ codes[k].used \in BOOLEAN
  BY CodeFields
<1>3. PICK row \in Code :
        row = CodeRow(codes[k].attempts, codes[k].used, age) /\ row.used = codes[k].used
  <2>1. CodeRow(codes[k].attempts, codes[k].used, age) \in Code
    BY <1>2 DEF CodeRow, Code
  <2>2. CodeRow(codes[k].attempts, codes[k].used, age).used = codes[k].used
    BY DEF CodeRow
  <2> QED
    BY <2>1, <2>2
<1>4. /\ codes' \in Seq(Code) /\ DOMAIN codes' = DOMAIN codes /\ Len(codes') = Len(codes)
      /\ \A j \in DOMAIN codes \ {k} : codes'[j] = codes[j]
      /\ \A j \in DOMAIN codes : codes'[j].used = codes[j].used
  BY <1>1, <1>3, RowWritten DEF CodeInv
<1>5. CodeTypeOK'
  BY <1>1, <1>4 DEF CodeInv, CodeTypeOK
<1>6. AcceptedOnce'
  BY <1>1, <1>4 DEF CodeInv, AcceptedOnce, Comparing
<1>7. RequestsCounted'
  <2>1. Recent' \subseteq Recent
    BY <1>1, <1>4 DEF Recent
  <2>2. Cardinality(Recent') <= Cardinality(Recent)
        /\ Cardinality(Recent') \in Nat /\ Cardinality(Recent) \in Nat
    BY <2>1, RecentFinite, FS_Subset, FS_CardinalityType DEF CodeInv
  <2>3. Inserting' = Inserting /\ Inserting \subseteq CodeCalls
    BY <1>1 DEF Inserting
  <2> QED
    BY <2>2, <2>3, FewerCalls, CodeAssumption DEF CodeInv, RequestsCounted
<1> QED
  BY <1>5, <1>6, <1>7 DEF CodeInv

LEMMA CodeStep == CodeInv /\ [CodeNext]_codeVars => CodeInv'
<1> SUFFICES ASSUME CodeInv, [CodeNext]_codeVars
             PROVE  CodeInv'
  OBVIOUS
<1>1. CASE UNCHANGED codeVars
  <2>1. Recent' = Recent /\ Inserting' = Inserting
    BY <1>1 DEF codeVars, Recent, Inserting
  <2> QED
    BY <1>1, <2>1
    DEF codeVars, codeHistory, CodeInv, CodeTypeOK, AcceptedOnce, RequestsCounted, Comparing
<1> QED
  BY <1>1, CountRequestsStep, InsertCodeStep, CountAttemptsStep, SelectCodeStep,
     WrongCodeStep, RightCodeStep, FailCodeStep, AgeStep
  DEF CodeNext

\* The invariant of the codes holds always.
THEOREM CodeInvariant == CodeSpec => []CodeInv
  BY CodeInitial, CodeStep, PTL DEF CodeSpec

\* However requests overlap, a code is accepted once by each that was under way with
\* the first that was (twoFAService.go VerifyCode reads, compares and marks).
THEOREM NoLateAcceptance == CodeSpec => []AcceptedTogether
<1>1. CodeInv => AcceptedTogether
  <2> SUFFICES ASSUME CodeInv, NEW k \in DOMAIN codes
               PROVE  accepted[k] + Cardinality({c \in CodeCalls :
                          codeCall[c].pc = "compare" /\ codeCall[c].code = k /\ codes[k].used})
                        <= Cardinality(CodeCalls)
    BY DEF AcceptedTogether
  <2>1. CASE codes[k].used
    <3>1. Comparing(k) = {c \in CodeCalls :
             codeCall[c].pc = "compare" /\ codeCall[c].code = k /\ codes[k].used}
      BY <2>1 DEF Comparing
    <3> QED
      BY <2>1, <3>1 DEF CodeInv, AcceptedOnce
  <2>2. CASE ~codes[k].used
    <3>1. {c \in CodeCalls :
             codeCall[c].pc = "compare" /\ codeCall[c].code = k /\ codes[k].used} = {}
      BY <2>2
    <3>2. accepted[k] = 0
      BY <2>2 DEF CodeInv, AcceptedOnce
    <3>3. Cardinality({}) = 0
      BY FS_EmptySet
    <3> QED
      BY <3>1, <3>2, <3>3, FewerCalls
  <2> QED
    BY <2>1, <2>2
<1> QED
  BY <1>1, CodeInvariant, PTL

\* However many requests count the codes before any inserts one, they exceed the
\* limit by fewer than there are requests under way (CountRequests, InsertTwoFaCode).
THEOREM CodesAreFew == CodeSpec => []FewCodesAtOnce
<1>1. CodeInv => FewCodesAtOnce
  <2> SUFFICES ASSUME CodeInv
               PROVE  FewCodesAtOnce
    OBVIOUS
  <2>1. Cardinality(Recent) \in Nat /\ Cardinality(Inserting) \in Nat
    BY RecentFinite, FewerCalls DEF CodeInv, Inserting
  <2> QED
    BY <2>1, FewerCalls, CodeAssumption DEF CodeInv, RequestsCounted, FewCodesAtOnce
<1> QED
  BY <1>1, CodeInvariant, PTL

-----------------------------------------------------------------------------
(* The tries a code takes: the numbers TriesOf defines *)

\* The least element of a set of numbers, by which induction over numbers is had
\* without a theorem that takes an operator.
LEMMA LeastNatural ==
  ASSUME NEW S \in SUBSET Nat, S # {}
  PROVE  \E n \in S : \A m \in S : n <= m
<1> DEFINE R == OpToRel(<, Nat)
<1>1. IsWellFoundedOn(R, Nat)
  BY NatLessThanWellFounded
<1>a. S \subseteq Nat
  OBVIOUS
<1> HIDE DEF R
<1>2. PICK n \in S : \A m \in S : ~ (<<m, n>> \in R)
  BY <1>1, <1>a, WFMin
<1>3. \A m \in S : ~(m < n)
  BY <1>2 DEF R, OpToRel
<1> QED
  BY <1>3

\* What a set of numbers contains with 0 and with every successor is all of Nat.
LEMMA Induction ==
  ASSUME NEW S \in SUBSET Nat, 0 \in S, \A n \in S : n + 1 \in S
  PROVE  S = Nat
<1> SUFFICES ASSUME Nat \ S # {}
             PROVE  FALSE
  OBVIOUS
<1>1. PICK n \in Nat \ S : \A m \in Nat \ S : n <= m
  BY LeastNatural
<1>2. n - 1 \in Nat /\ n - 1 \notin Nat \ S
  BY <1>1
<1> QED
  BY <1>2

\* The right-hand side of the equation of TriesOf, for a g that may solve it.
TriesFrom(g, n, l) ==
    IF n = 0 \/ l = 0 THEN 0 ELSE g[<<n - 1, l>>] + 1 + g[<<n, l - 1>>]

\* g obeys the equation up to the diagonal m.
Agrees(g, m) ==
  /\ g \in [Nat \X Nat -> Nat]
  /\ \A n, l \in Nat : n + l <= m => g[<<n, l>>] = TriesFrom(g, n, l)

LEMMA EquationTyped ==
  ASSUME NEW g \in [Nat \X Nat -> Nat], NEW n \in Nat, NEW l \in Nat
  PROVE  TriesFrom(g, n, l) \in Nat
<1>1. CASE n = 0 \/ l = 0
  BY <1>1 DEF TriesFrom
<1>2. CASE n # 0 /\ l # 0
  <2>1. <<n - 1, l>> \in Nat \X Nat /\ <<n, l - 1>> \in Nat \X Nat
    BY <1>2
  <2>2. g[<<n - 1, l>>] \in Nat /\ g[<<n, l - 1>>] \in Nat
    BY <2>1
  <2> QED
    BY <1>2, <2>2 DEF TriesFrom
<1> QED
  BY <1>1, <1>2

\* Some g obeys it up to any diagonal: the next one is the right-hand side of the last.
LEMMA SomeAgree == \A m \in Nat : \E g : Agrees(g, m)
<1> DEFINE S == {m \in Nat : \E g : Agrees(g, m)}
<1>1. 0 \in S
  <2> DEFINE g == [p \in Nat \X Nat |-> 0]
  <2>1. Agrees(g, 0)
    BY DEF Agrees, TriesFrom
  <2> QED
    BY <2>1
<1>2. ASSUME NEW m \in S
      PROVE  m + 1 \in S
  <2>1. PICK g : Agrees(g, m)
    OBVIOUS
  <2> DEFINE h == [p \in Nat \X Nat |-> TriesFrom(g, p[1], p[2])]
  <2>2. \A n, l \in Nat : TriesFrom(g, n, l) \in Nat
    BY <2>1, EquationTyped DEF Agrees
  <2>3. /\ h \in [Nat \X Nat -> Nat]
        /\ \A n, l \in Nat : h[<<n, l>>] = TriesFrom(g, n, l)
    BY <2>2
  <2> HIDE DEF h
  <2>4. \A n, l \in Nat : n + l <= m => h[<<n, l>>] = g[<<n, l>>]
    BY <2>1, <2>3 DEF Agrees
  <2>5. ASSUME NEW n \in Nat, NEW l \in Nat, n + l <= m + 1, n # 0, l # 0
        PROVE  h[<<n - 1, l>>] = g[<<n - 1, l>>] /\ h[<<n, l - 1>>] = g[<<n, l - 1>>]
    BY <2>4, <2>5
  <2>6. \A n, l \in Nat : n + l <= m + 1 => h[<<n, l>>] = TriesFrom(h, n, l)
    BY <2>3, <2>5 DEF TriesFrom
  <2>7. Agrees(h, m + 1)
    BY <2>3, <2>6 DEF Agrees
  <2> QED
    BY <2>7
<1> HIDE DEF S
<1>3. S = Nat
  BY <1>1, <1>2, Induction DEF S
<1> QED
  BY <1>3 DEF S

\* Two of them are equal as far as both go.
LEMMA AgreeingAreEqual ==
  ASSUME NEW k \in Nat, NEW m \in Nat, NEW g, NEW h, Agrees(g, k), Agrees(h, m), k <= m
  PROVE  \A n, l \in Nat : n + l <= k => g[<<n, l>>] = h[<<n, l>>]
<1> DEFINE S == {j \in Nat : \A n, l \in Nat :
                 n + l <= j /\ n + l <= k => g[<<n, l>>] = h[<<n, l>>]}
<1>1. 0 \in S
  <2> SUFFICES ASSUME NEW n \in Nat, NEW l \in Nat, n + l <= 0
               PROVE  g[<<n, l>>] = h[<<n, l>>]
    OBVIOUS
  <2>1. g[<<n, l>>] = TriesFrom(g, n, l) /\ h[<<n, l>>] = TriesFrom(h, n, l)
    BY DEF Agrees
  <2>2. n = 0
    OBVIOUS
  <2> QED
    BY <2>1, <2>2 DEF TriesFrom
<1>2. ASSUME NEW j \in S
      PROVE  j + 1 \in S
  <2> SUFFICES ASSUME NEW n \in Nat, NEW l \in Nat, n + l <= j + 1, n + l <= k
               PROVE  g[<<n, l>>] = h[<<n, l>>]
    OBVIOUS
  <2>1. g[<<n, l>>] = TriesFrom(g, n, l) /\ h[<<n, l>>] = TriesFrom(h, n, l)
    BY DEF Agrees
  <2>2. n # 0 /\ l # 0 => g[<<n - 1, l>>] = h[<<n - 1, l>>] /\ g[<<n, l - 1>>] = h[<<n, l - 1>>]
    OBVIOUS
  <2> QED
    BY <2>1, <2>2 DEF TriesFrom
<1> HIDE DEF S
<1>3. S = Nat
  BY <1>1, <1>2, Induction DEF S
<1> QED
  BY <1>3 DEF S

\* What TriesOf is the choice of.
Solves(g) == g = [p \in Nat \X Nat |->
    IF p[1] = 0 \/ p[2] = 0 THEN 0
    ELSE g[<<p[1] - 1, p[2]>>] + 1 + g[<<p[1], p[2] - 1>>]]

\* The diagonal of those that agree solves the equation, so TriesOf does.
LEMMA SomeSolve == \E f \in [Nat \X Nat -> Nat] : Solves(f)
<1> DEFINE g(m) == CHOOSE g : Agrees(g, m)
           f == [p \in Nat \X Nat |-> g(p[1] + p[2])[p]]
<1>1. \A m \in Nat : Agrees(g(m), m)
  BY SomeAgree
<1> HIDE DEF g
<1>2. f \in [Nat \X Nat -> Nat] /\ \A n, l \in Nat : f[<<n, l>>] = g(n + l)[<<n, l>>]
  <2>1. ASSUME NEW p \in Nat \X Nat
        PROVE  p[1] + p[2] \in Nat /\ g(p[1] + p[2])[p] \in Nat
    <3>1. p[1] + p[2] \in Nat
      OBVIOUS
    <3> QED
      BY <1>1, <3>1 DEF Agrees
  <2>2. f \in [Nat \X Nat -> Nat]
    BY <2>1
  <2>3. ASSUME NEW n \in Nat, NEW l \in Nat
        PROVE  f[<<n, l>>] = g(n + l)[<<n, l>>]
    OBVIOUS
  <2> QED
    BY <2>2, <2>3
<1>3. ASSUME NEW n \in Nat, NEW l \in Nat
      PROVE  f[<<n, l>>] = TriesFrom(f, n, l)
  <2>1. f[<<n, l>>] = TriesFrom(g(n + l), n, l)
    BY <1>1, <1>2 DEF Agrees
  <2>2. CASE n = 0 \/ l = 0
    BY <2>1, <2>2 DEF TriesFrom
  <2>3. CASE n # 0 /\ l # 0
    <3>1. PICK m \in Nat : m + 1 = n + l /\ (n - 1) + l = m /\ n + (l - 1) = m
      <4>1. n + l - 1 \in Nat
        BY <2>3
      <4> QED
        BY <4>1
    <3>2. \A i, j \in Nat : i + j <= m => g(m)[<<i, j>>] = g(m + 1)[<<i, j>>]
      BY <1>1, AgreeingAreEqual
    <3>3. /\ f[<<n - 1, l>>] = g(n + l)[<<n - 1, l>>]
          /\ f[<<n, l - 1>>] = g(n + l)[<<n, l - 1>>]
      BY <1>2, <2>3, <3>1, <3>2
    <3> QED
      BY <2>1, <2>3, <3>3 DEF TriesFrom
  <2> QED
    BY <2>2, <2>3
<1> HIDE DEF f
<1>4. Solves(f)
  <2> DEFINE rhs == [p \in Nat \X Nat |->
        IF p[1] = 0 \/ p[2] = 0 THEN 0
        ELSE f[<<p[1] - 1, p[2]>>] + 1 + f[<<p[1], p[2] - 1>>]]
  <2>1. \A p \in Nat \X Nat : f[p] = rhs[p]
    BY <1>3 DEF TriesFrom
  <2>2. f = rhs
    BY <1>2, <2>1
  <2> QED
    BY <2>2 DEF Solves
<1> QED
  BY <1>2, <1>4

LEMMA TriesSolve == Solves(TriesOf)
<1>1. \E f : Solves(f)
  BY SomeSolve
<1>2. Solves(CHOOSE f : Solves(f))
  BY <1>1
<1>3. TriesOf = CHOOSE f : Solves(f)
  BY DEF TriesOf, Solves
<1> QED
  BY <1>2, <1>3

\* What the equation says of the numbers it defines.
LEMMA TriesTyped == \A n, l \in Nat : TriesOf[<<n, l>>] \in Nat
<1> DEFINE S == {m \in Nat : \A n, l \in Nat : n + l <= m => TriesOf[<<n, l>>] \in Nat}
<1>1. \A n, l \in Nat : TriesOf[<<n, l>>] = TriesFrom(TriesOf, n, l)
  BY TriesSolve DEF Solves, TriesFrom
<1>2. 0 \in S
  <2> SUFFICES ASSUME NEW n \in Nat, NEW l \in Nat, n + l <= 0
               PROVE  TriesOf[<<n, l>>] \in Nat
    OBVIOUS
  <2>1. n = 0
    OBVIOUS
  <2> QED
    BY <1>1, <2>1 DEF TriesFrom
<1>3. ASSUME NEW m \in S
      PROVE  m + 1 \in S
  <2> SUFFICES ASSUME NEW n \in Nat, NEW l \in Nat, n + l <= m + 1
               PROVE  TriesOf[<<n, l>>] \in Nat
    OBVIOUS
  <2>1. CASE n = 0 \/ l = 0
    BY <1>1, <2>1 DEF TriesFrom
  <2>2. CASE n # 0 /\ l # 0
    <3>1. TriesOf[<<n - 1, l>>] \in Nat /\ TriesOf[<<n, l - 1>>] \in Nat
      BY <2>2
    <3> QED
      BY <1>1, <2>2, <3>1 DEF TriesFrom
  <2> QED
    BY <2>1, <2>2
<1> HIDE DEF S
<1>4. S = Nat
  BY <1>2, <1>3, Induction DEF S
<1>5. ASSUME NEW n \in Nat, NEW l \in Nat
      PROVE  TriesOf[<<n, l>>] \in Nat
  <2>1. n + l \in S
    BY <1>4
  <2> QED
    BY <2>1 DEF S
<1> QED
  BY <1>5

\* The tries of n requests of which l are left, and what one more that is left adds.
Tries(n, l) == TriesOf[<<n, l>>]
More(n, l)  == Tries(n, l + 1) - Tries(n, l)

LEMMA TriesAdd ==
  ASSUME NEW n \in Nat, NEW l \in Nat
  PROVE  /\ Tries(n, l) \in Nat /\ Tries(0, l) = 0 /\ Tries(n, 0) = 0
         /\ Tries(n + 1, l + 1) = Tries(n, l + 1) + 1 + Tries(n + 1, l)
<1>1. \A i, j \in Nat : TriesOf[<<i, j>>] = TriesFrom(TriesOf, i, j)
  BY TriesSolve DEF Solves, TriesFrom
<1>2. (n + 1) - 1 = n /\ (l + 1) - 1 = l /\ n + 1 # 0 /\ l + 1 # 0
  OBVIOUS
<1>3. TriesOf[<<n + 1, l + 1>>] = TriesOf[<<n, l + 1>>] + 1 + TriesOf[<<n + 1, l>>]
  BY <1>1, <1>2 DEF TriesFrom
<1>4. TriesOf[<<0, l>>] = 0 /\ TriesOf[<<n, 0>>] = 0
  BY <1>1 DEF TriesFrom
<1> QED
  BY <1>3, <1>4, TriesTyped DEF Tries

\* With more requests there are no fewer tries, and one more that is left adds no less.
LEMMA TriesGrow ==
  ASSUME NEW n \in Nat, NEW p \in Nat, n <= p, NEW l \in Nat
  PROVE  Tries(n, l) <= Tries(p, l)
<1> DEFINE S == {i \in Nat : Tries(n, l) <= Tries(n + i, l)}
<1>1. 0 \in S
  <2>1. Tries(n, l) \in Nat /\ n + 0 = n
    BY TriesAdd
  <2> QED
    BY <2>1
<1>2. ASSUME NEW i \in S
      PROVE  i + 1 \in S
  <2>1. /\ Tries(n, l) \in Nat /\ Tries(n + i, l) \in Nat /\ Tries(n + i + 1, l) \in Nat
        /\ n + (i + 1) = n + i + 1
    <3>1. n + i \in Nat /\ n + i + 1 \in Nat /\ n + (i + 1) = n + i + 1
      OBVIOUS
    <3> QED
      BY <3>1, TriesAdd
  <2>2. Tries(n + i, l) <= Tries(n + i + 1, l)
    <3>1. CASE l = 0
      <4>1. n + i \in Nat /\ n + i + 1 \in Nat
        OBVIOUS
      <4>2. Tries(n + i, 0) = 0 /\ Tries(n + i + 1, 0) = 0
        BY <4>1, TriesAdd
      <4> QED
        BY <3>1, <4>2
    <3>2. CASE l # 0
      <4>1. PICK j \in Nat : l = j + 1
        <5>1. l - 1 \in Nat
          BY <3>2
        <5> QED
          BY <5>1
      <4>2. Tries(n + i + 1, j + 1) = Tries(n + i, j + 1) + 1 + Tries(n + i + 1, j)
            /\ Tries(n + i + 1, j) \in Nat
        <5>1. n + i \in Nat /\ n + i + 1 \in Nat
          OBVIOUS
        <5> QED
          BY <5>1, TriesAdd
      <4> QED
        BY <2>1, <4>1, <4>2
    <3> QED
      BY <3>1, <3>2
  <2> QED
    BY <2>1, <2>2
<1> HIDE DEF S
<1>3. S = Nat
  BY <1>1, <1>2, Induction DEF S
<1>4. p - n \in S /\ n + (p - n) = p
  BY <1>3
<1> QED
  BY <1>4 DEF S

LEMMA MoreTyped ==
  ASSUME NEW n \in Nat, NEW l \in Nat
  PROVE  /\ More(n, l) \in Nat /\ More(0, l) = 0
         /\ More(n + 1, l) = 1 + Tries(n, l + 1)
         /\ Tries(n, l + 1) = Tries(n, l) + More(n, l)
<1>1. ASSUME NEW m \in Nat
      PROVE  /\ Tries(m, l) \in Nat /\ Tries(m, l + 1) \in Nat /\ Tries(m + 1, l) \in Nat
             /\ Tries(m + 1, l + 1) = Tries(m, l + 1) + 1 + Tries(m + 1, l)
  <2>1. m + 1 \in Nat /\ l + 1 \in Nat
    OBVIOUS
  <2> QED
    BY <2>1, TriesAdd
<1>2. More(n + 1, l) = 1 + Tries(n, l + 1)
  BY <1>1 DEF More
<1>3. More(0, l) = 0
  <2>1. l + 1 \in Nat
    OBVIOUS
  <2>2. Tries(0, l) = 0 /\ Tries(0, l + 1) = 0
    BY <2>1, TriesAdd
  <2> QED
    BY <2>2 DEF More
<1>4. More(n, l) \in Nat
  <2>1. CASE n = 0
    BY <1>3, <2>1
  <2>2. CASE n # 0
    <3>1. PICK m \in Nat : n = m + 1
      <4>1. n - 1 \in Nat
        BY <2>2
      <4> QED
        BY <4>1
    <3>2. More(m + 1, l) = 1 + Tries(m, l + 1)
      BY <1>1 DEF More
    <3> QED
      BY <1>1, <3>1, <3>2
  <2> QED
    BY <2>1, <2>2
<1>5. Tries(n, l + 1) = Tries(n, l) + More(n, l)
  BY <1>1 DEF More
<1> QED
  BY <1>2, <1>3, <1>4, <1>5

LEMMA MoreGrow ==
  ASSUME NEW n \in Nat, NEW p \in Nat, n <= p, NEW l \in Nat
  PROVE  More(n, l) <= More(p, l)
<1>1. CASE n = 0
  BY <1>1, MoreTyped
<1>2. CASE n # 0
  <2>1. PICK i \in Nat, j \in Nat : n = i + 1 /\ p = j + 1 /\ i <= j
    <3>1. n - 1 \in Nat /\ p - 1 \in Nat /\ n - 1 <= p - 1
      BY <1>2
    <3> QED
      BY <3>1
  <2>2. Tries(i, l + 1) <= Tries(j, l + 1)
        /\ Tries(i, l + 1) \in Nat /\ Tries(j, l + 1) \in Nat
    <3>1. l + 1 \in Nat
      OBVIOUS
    <3> QED
      BY <2>1, <3>1, TriesGrow, TriesAdd
  <2>3. More(i + 1, l) = 1 + Tries(i, l + 1) /\ More(j + 1, l) = 1 + Tries(j, l + 1)
    BY MoreTyped
  <2> QED
    BY <2>1, <2>2, <2>3
<1> QED
  BY <1>1, <1>2

-----------------------------------------------------------------------------
(* What the tries of a code add up to *)

Levels == 0..TryLimit - 1

\* s[x] bounds the tries the requests make of the last x: past[x] of them have used
\* up all but x of a code, and each x adds at most what so many make of one more.
Counts(s, past) ==
    /\ s \in [0..TryLimit -> Nat] /\ s[0] = 0
    /\ \A x \in Levels : s[x + 1] <= s[x] + More(past[x], x)

\* What p requests can make of the last l tries bounds it, if no more have used up the
\* rest.
LEMMA CountsBounded ==
  ASSUME NEW past \in [Levels -> Nat], NEW s, Counts(s, past),
         NEW p \in Nat, NEW l \in 0..TryLimit, \A x \in Levels : x < l => past[x] <= p
  PROVE  s[l] <= Tries(p, l)
<1> DEFINE S == {x \in Nat : x <= l => s[x] <= Tries(p, x)}
<1>1. 0 \in S
  <2>1. s[0] = 0 /\ Tries(p, 0) = 0
    BY TriesAdd DEF Counts
  <2> QED
    BY <2>1
<1>2. ASSUME NEW x \in S
      PROVE  x + 1 \in S
  <2> SUFFICES ASSUME x + 1 <= l
               PROVE  s[x + 1] <= Tries(p, x + 1)
    OBVIOUS
  <2>1. x \in Levels /\ x \in 0..TryLimit /\ x + 1 \in 0..TryLimit /\ x \in Nat
    BY CodeAssumption DEF Levels
  <2>2. past[x] <= p /\ past[x] \in Nat
    BY <2>1
  <2>3. /\ More(past[x], x) <= More(p, x) /\ More(past[x], x) \in Nat /\ More(p, x) \in Nat
        /\ Tries(p, x + 1) = Tries(p, x) + More(p, x) /\ Tries(p, x) \in Nat
    BY <2>1, <2>2, MoreGrow, MoreTyped, TriesAdd
  <2>4. /\ s[x + 1] <= s[x] + More(past[x], x) /\ s[x] \in Nat /\ s[x + 1] \in Nat
        /\ s[x] <= Tries(p, x)
    BY <2>1 DEF Counts
  <2> QED
    BY <2>3, <2>4
<1> HIDE DEF S
<1>3. S = Nat
  BY <1>1, <1>2, Induction DEF S
<1>4. l \in S
  BY <1>3
<1> QED
  BY <1>4 DEF S

\* The count stays when no fewer have used up any number of tries.
LEMMA CountsKept ==
  ASSUME NEW past \in [Levels -> Nat], NEW next \in [Levels -> Nat], NEW s, Counts(s, past),
         \A x \in Levels : past[x] <= next[x]
  PROVE  Counts(s, next)
<1>1. ASSUME NEW x \in Levels
      PROVE  s[x + 1] <= s[x] + More(next[x], x)
  <2>1. x \in Nat /\ x \in 0..TryLimit /\ x + 1 \in 0..TryLimit
    BY CodeAssumption DEF Levels
  <2>2. /\ More(past[x], x) <= More(next[x], x) /\ More(past[x], x) \in Nat
        /\ More(next[x], x) \in Nat
    BY <2>1, MoreGrow, MoreTyped
  <2>3. s[x + 1] <= s[x] + More(past[x], x) /\ s[x] \in Nat /\ s[x + 1] \in Nat
    BY <2>1 DEF Counts
  <2> QED
    BY <2>2, <2>3
<1> QED
  BY <1>1 DEF Counts

\* A try that leaves l - 1 of them: whatever was counted below is covered by the one
\* request that has now used up as many, and the count goes up by one from there.
LEMMA CountsRaised ==
  ASSUME NEW past \in [Levels -> Nat], NEW next \in [Levels -> Nat], NEW s, Counts(s, past),
         NEW l \in 1..TryLimit,
         \A x \in Levels : x < l => past[x] <= past[l - 1],
         past[l - 1] + 1 <= next[l - 1],
         \A x \in Levels : l <= x => past[x] <= next[x]
  PROVE  \E r : Counts(r, next) /\ r[TryLimit] = s[TryLimit] + 1
<1> DEFINE r == [x \in 0..TryLimit |-> IF x < l THEN 0 ELSE s[x] + 1]
<1>1. l - 1 \in Levels /\ l \in 0..TryLimit /\ TryLimit \in 0..TryLimit /\ l \in Nat
      /\ l - 1 \in Nat /\ (l - 1) + 1 = l
  BY CodeAssumption DEF Levels
<1>2. r \in [0..TryLimit -> Nat] /\ r[0] = 0 /\ r[TryLimit] = s[TryLimit] + 1
  BY <1>1, CodeAssumption DEF Counts
<1>3. ASSUME NEW x \in Levels
      PROVE  r[x + 1] <= r[x] + More(next[x], x)
  <2>1. x \in Nat /\ x \in 0..TryLimit /\ x + 1 \in 0..TryLimit
    BY CodeAssumption DEF Levels
  <2>2. More(next[x], x) \in Nat
    BY <2>1, MoreTyped
  <2>3. CASE x + 1 < l
    <3>1. r[x + 1] = 0 /\ r[x] = 0
      BY <2>1, <2>3
    <3> QED
      BY <2>2, <3>1
  <2>4. CASE x + 1 = l
    <3>1. s[l] <= Tries(past[l - 1], l) /\ past[l - 1] \in Nat
      BY <1>1, CountsBounded
    <3>2. More(past[l - 1] + 1, l - 1) = 1 + Tries(past[l - 1], l)
      BY <1>1, <3>1, MoreTyped
    <3>3. /\ More(past[l - 1] + 1, l - 1) <= More(next[l - 1], l - 1)
          /\ More(past[l - 1] + 1, l - 1) \in Nat
      BY <1>1, <3>1, MoreGrow, MoreTyped
    <3>4. Tries(past[l - 1], l) \in Nat /\ s[l] \in Nat
      BY <1>1, <3>1, TriesAdd DEF Counts
    <3>5. x = l - 1
      BY <2>1, <2>4
    <3>6. r[x + 1] = s[l] + 1 /\ r[x] = 0
      BY <1>1, <2>1, <2>4
    <3> HIDE DEF r
    <3> QED
      BY <2>2, <3>1, <3>2, <3>3, <3>4, <3>5, <3>6
  <2>5. CASE l <= x
    <3>1. r[x + 1] = s[x + 1] + 1 /\ r[x] = s[x] + 1
      BY <1>1, <2>1, <2>5
    <3>2. /\ More(past[x], x) <= More(next[x], x) /\ More(past[x], x) \in Nat
      BY <2>1, <2>5, MoreGrow, MoreTyped
    <3>3. s[x + 1] <= s[x] + More(past[x], x) /\ s[x] \in Nat /\ s[x + 1] \in Nat
      BY <2>1 DEF Counts
    <3> HIDE DEF r
    <3> QED
      BY <2>2, <3>1, <3>2, <3>3
  <2> QED
    BY <1>1, <2>1, <2>3, <2>4, <2>5
<1> HIDE DEF r
<1> QED
  BY <1>2, <1>3 DEF Counts

\* The requests that stand at t tries of a code or later: the row does, and so does
\* what the request has read if it compares the code.
PastTries(k, t) ==
    {c \in CodeCalls : codes[k].attempts >= t
                       /\ (c \in Comparing(k) => codeCall[c].attempts >= t)}
Past(k) == [x \in Levels |-> Cardinality(PastTries(k, TryLimit - x))]

\* The tries of a code are what the requests, from where they stand, have used up.
TriesCounted ==
    \A k \in DOMAIN codes : \E s : Counts(s, Past(k)) /\ tries[k] = s[TryLimit]

LEMMA PastTyped ==
  ASSUME NEW k
  PROVE  /\ Past(k) \in [Levels -> Nat]
         /\ \A x \in Levels : Past(k)[x] = Cardinality(PastTries(k, TryLimit - x))
         /\ \A x \in Levels : Past(k)[x] <= Cardinality(CodeCalls)
<1>1. ASSUME NEW t
      PROVE  Cardinality(PastTries(k, t)) \in Nat
             /\ Cardinality(PastTries(k, t)) <= Cardinality(CodeCalls)
  <2>1. PastTries(k, t) \in SUBSET CodeCalls
    BY DEF PastTries
  <2> QED
    BY <2>1, FewerCalls
<1> QED
  BY <1>1 DEF Past

LEMMA PastTypedNext ==
  ASSUME NEW k
  PROVE  /\ Past(k)' \in [Levels -> Nat]
         /\ \A x \in Levels : Past(k)'[x] = Cardinality(PastTries(k, TryLimit - x)')
<1>1. ASSUME NEW t
      PROVE  Cardinality(PastTries(k, t)') \in Nat
  <2>1. PastTries(k, t)' \in SUBSET CodeCalls
    BY DEF PastTries
  <2> QED
    BY <2>1, FewerCalls
<1> QED
  BY <1>1 DEF Past

\* A step after which every request that stood there still does.
LEMMA CodeStands ==
  ASSUME NEW k, k \in DOMAIN codes, TriesCounted,
         \A x \in Levels : PastTries(k, TryLimit - x) \subseteq PastTries(k, TryLimit - x)',
         tries'[k] = tries[k]
  PROVE  \E s : Counts(s, Past(k)') /\ tries'[k] = s[TryLimit]
<1>1. PICK s : Counts(s, Past(k)) /\ tries[k] = s[TryLimit]
  BY DEF TriesCounted
<1>2. ASSUME NEW x \in Levels
      PROVE  Past(k)[x] <= Past(k)'[x]
  <2>1. PICK P \in SUBSET CodeCalls, Q \in SUBSET CodeCalls :
          /\ P = PastTries(k, TryLimit - x) /\ Q = PastTries(k, TryLimit - x)'
          /\ P \subseteq Q
    BY DEF PastTries
  <2>2. Cardinality(P) <= Cardinality(Q)
    BY <2>1, FewerElements
  <2> QED
    BY <2>1, <2>2, PastTyped, PastTypedNext
<1>3. PICK past \in [Levels -> Nat], next \in [Levels -> Nat] :
        past = Past(k) /\ next = Past(k)' /\ \A x \in Levels : past[x] <= next[x]
  BY <1>2, PastTyped, PastTypedNext
<1>4. Counts(s, next)
  BY <1>1, <1>3, CountsKept
<1> QED
  BY <1>1, <1>3, <1>4

\* A step that leaves the number of a code alone, and has a request compare the code
\* only with the number of its row.
LEMMA NumberKept ==
  ASSUME TriesCounted, NEW k \in DOMAIN codes, tries'[k] = tries[k],
         codes'[k].attempts = codes[k].attempts,
         \A c \in Comparing(k)' :
             codeCall'[c] = codeCall[c] \/ codeCall'[c].attempts = codes[k].attempts
  PROVE  \E s : Counts(s, Past(k)') /\ tries'[k] = s[TryLimit]
<1>1. ASSUME NEW x \in Levels, NEW c \in PastTries(k, TryLimit - x)
      PROVE  c \in PastTries(k, TryLimit - x)'
  <2>1. c \in CodeCalls /\ codes[k].attempts >= TryLimit - x
        /\ (c \in Comparing(k) => codeCall[c].attempts >= TryLimit - x)
    BY DEF PastTries
  <2>2. CASE c \in Comparing(k)' /\ codeCall'[c] = codeCall[c]
    <3>1. c \in Comparing(k)
      BY <2>1, <2>2 DEF Comparing
    <3> QED
      BY <2>1, <2>2, <3>1 DEF PastTries
  <2>3. CASE c \in Comparing(k)' /\ codeCall'[c].attempts = codes[k].attempts
    BY <2>1, <2>3 DEF PastTries
  <2>4. CASE c \notin Comparing(k)'
    BY <2>1, <2>4 DEF PastTries
  <2> QED
    BY <2>2, <2>3, <2>4
<1> QED
  BY <1>1, CodeStands

LEMMA TriesInitial == CodeInit => TriesCounted
  BY DEF CodeInit, TriesCounted

\* A step that writes no number.
LEMMA TriesKept ==
  ASSUME TriesCounted, DOMAIN codes' = DOMAIN codes, UNCHANGED tries,
         \A k \in DOMAIN codes : codes'[k].attempts = codes[k].attempts,
         \A k \in DOMAIN codes : \A c \in Comparing(k)' :
             codeCall'[c] = codeCall[c] \/ codeCall'[c].attempts = codes[k].attempts
  PROVE  TriesCounted'
<1>1. \A k \in DOMAIN codes : \E s : Counts(s, Past(k)') /\ tries'[k] = s[TryLimit]
  BY NumberKept
<1> QED
  BY <1>1 DEF TriesCounted, Counts

LEMMA RequestTries ==
  ASSUME CodeInv, TriesCounted, NEW c \in CodeCalls,
         CountRequests(c) \/ CountAttempts(c) \/ SelectCode(c) \/ FailCode(c)
  PROVE  TriesCounted'
<1>1. UNCHANGED <<codes, tries>>
  BY DEF CountRequests, CountAttempts, SelectCode, FailCode, codeHistory
<1>2. PICK call : /\ codeCall' = [codeCall EXCEPT ![c] = call]
                  /\ call.pc = "compare" => call.attempts = codes[call.code].attempts
  <2>1. /\ NoRead.pc # "compare" /\ ToInsert.pc # "compare" /\ ToSelect.pc # "compare"
        /\ \A k : ToCompare(k).code = k /\ ToCompare(k).attempts = codes[k].attempts
    BY DEF NoRead, ToInsert, ToSelect, ToCompare
  <2> QED
    BY <2>1 DEF CountRequests, CountAttempts, SelectCode, FailCode
<1>3. codeCall'[c] = call /\ \A d \in CodeCalls \ {c} : codeCall'[d] = codeCall[d]
  BY <1>2 DEF CodeInv, CodeTypeOK
<1>4. ASSUME NEW k \in DOMAIN codes, NEW d \in Comparing(k)'
      PROVE  codeCall'[d] = codeCall[d] \/ codeCall'[d].attempts = codes[k].attempts
  BY <1>2, <1>3 DEF Comparing
<1> QED
  BY <1>1, <1>4, TriesKept

\* A new code has no tries, and every count may begin at none.
LEMMA InsertTries ==
  ASSUME CodeInv, TriesCounted, NEW c \in CodeCalls, InsertTwoFaCode(c)
  PROVE  TriesCounted'
<1>1. /\ codes' = Append(codes, CodeRow(0, FALSE, "fresh")) /\ tries' = Append(tries, 0)
      /\ codeCall' = [codeCall EXCEPT ![c] = NoRead]
  BY DEF InsertTwoFaCode
<1>2. codes \in Seq(Code) /\ tries \in Seq(Nat) /\ Len(tries) = Len(codes) /\ Len(codes) \in Nat
  BY DEF CodeInv, CodeTypeOK
<1>3. CodeRow(0, FALSE, "fresh") \in Code
  <2>1. 0 \in 0..TryLimit
    BY CodeAssumption
  <2> QED
    BY <2>1 DEF CodeRow, Code, Ages
<1>4. PICK new \in Nat : new = Len(codes) + 1
  BY <1>2
<1>5. /\ DOMAIN codes' = DOMAIN codes \cup {new}
      /\ \A k \in DOMAIN codes : codes'[k] = codes[k] /\ tries'[k] = tries[k]
      /\ tries'[new] = 0
  <2>1. PICK row \in Code : codes' = Append(codes, row)
    BY <1>1, <1>3
  <2>2. DOMAIN codes = 1..Len(codes) /\ DOMAIN tries = 1..Len(codes)
    BY <1>2
  <2>3. DOMAIN codes' = 1..Len(codes) + 1 /\ \A k \in 1..Len(codes) : codes'[k] = codes[k]
    BY <1>2, <2>1
  <2>4. /\ \A k \in 1..Len(codes) : tries'[k] = tries[k]
        /\ tries'[Len(codes) + 1] = 0
    BY <1>1, <1>2
  <2>5. 1..Len(codes) + 1 = 1..Len(codes) \cup {Len(codes) + 1}
    BY <1>2
  <2> QED
    BY <1>4, <2>2, <2>3, <2>4, <2>5
<1>6. ASSUME NEW k \in DOMAIN codes
      PROVE  \E s : Counts(s, Past(k)') /\ tries'[k] = s[TryLimit]
  <2>1. \A d \in Comparing(k)' : codeCall'[d] = codeCall[d]
    BY <1>1, CallEnds DEF Comparing
  <2> QED
    BY <1>5, <2>1, NumberKept
<1>7. \E s : Counts(s, Past(new)') /\ s[TryLimit] = 0
  <2> DEFINE s == [x \in 0..TryLimit |-> 0]
  <2>1. s \in [0..TryLimit -> Nat] /\ s[0] = 0 /\ s[TryLimit] = 0
    BY CodeAssumption
  <2>2. PICK next \in [Levels -> Nat] : next = Past(new)'
    BY PastTypedNext
  <2>3. ASSUME NEW x \in Levels
        PROVE  s[x + 1] <= s[x] + More(next[x], x)
    <3>1. x \in Nat /\ s[x + 1] = 0 /\ s[x] = 0
      BY CodeAssumption DEF Levels
    <3>2. More(next[x], x) \in Nat
      BY <3>1, MoreTyped
    <3> HIDE DEF s
    <3> QED
      BY <3>1, <3>2
  <2>4. Counts(s, next)
    BY <2>1, <2>3 DEF Counts
  <2> QED
    BY <2>1, <2>2, <2>4
<1>8. ASSUME NEW k \in DOMAIN codes'
      PROVE  \E s : Counts(s, Past(k)') /\ tries'[k] = s[TryLimit]
  BY <1>5, <1>6, <1>7
<1> QED
  BY <1>8 DEF TriesCounted, Counts

\* The number written is one more than the request had read: it stands at one try
\* further than before, while the tries beyond are those of a row set back.
LEMMA WrongTries ==
  ASSUME CodeInv, TriesCounted, NEW c \in CodeCalls, WrongCode(c)
  PROVE  TriesCounted'
<1>1. PICK k \in DOMAIN codes, n \in 0..TryLimit - 1 :
        /\ c \in Comparing(k) /\ codeCall[c].attempts = n
        /\ codes' = [codes EXCEPT ![k] = CodeRow(n + 1, codes[k].used, codes[k].age)]
        /\ tries' = [tries EXCEPT ![k] = @ + 1]
  BY CallKinds DEF WrongCode, CodeInv, Comparing
<1>2. codeCall' = [codeCall EXCEPT ![c] = NoRead]
  BY DEF WrongCode
<1>3. \A d \in CodeCalls : \A j : d \in Comparing(j)' =>
        d # c /\ d \in Comparing(j) /\ codeCall'[d] = codeCall[d]
  BY <1>2, CallEnds DEF Comparing
<1>4. DOMAIN codes' = DOMAIN codes /\ codes'[k].attempts = n + 1
      /\ \A j \in DOMAIN codes \ {k} : codes'[j] = codes[j]
  <2>1. CodeRow(n + 1, codes[k].used, codes[k].age).attempts = n + 1
    BY DEF CodeRow
  <2>2. codes \in Seq(Code)
    BY DEF CodeInv, CodeTypeOK
  <2> QED
    BY <1>1, <2>1, <2>2
<1>5. tries'[k] = tries[k] + 1 /\ \A j \in DOMAIN codes \ {k} : tries'[j] = tries[j]
  <2>1. tries \in Seq(Nat) /\ DOMAIN tries = DOMAIN codes
    BY DEF CodeInv, CodeTypeOK
  <2> QED
    BY <1>1, <2>1
<1>6. ASSUME NEW j \in DOMAIN codes \ {k}
      PROVE  \E s : Counts(s, Past(j)') /\ tries'[j] = s[TryLimit]
  <2>1. \A d \in Comparing(j)' : codeCall'[d] = codeCall[d]
    BY <1>3 DEF Comparing
  <2> QED
    BY <1>4, <1>5, <2>1, NumberKept
<1>7. \E s : Counts(s, Past(k)') /\ tries'[k] = s[TryLimit]
  <2>1. PICK s : Counts(s, Past(k)) /\ tries[k] = s[TryLimit]
    BY DEF TriesCounted
  <2>2. PICK past \in [Levels -> Nat], next \in [Levels -> Nat] :
          past = Past(k) /\ next = Past(k)'
    BY PastTyped, PastTypedNext
  <2>3. PICK l \in 1..TryLimit : /\ l = TryLimit - n /\ l - 1 \in Levels
                                 /\ TryLimit - (l - 1) = n + 1
    <3>1. TryLimit - n \in 1..TryLimit
      BY CodeAssumption
    <3> QED
      BY <3>1, CodeAssumption DEF Levels
  <2>4. codes[k].attempts \in Nat
    BY CodeFields
  <2>5. ASSUME NEW x \in Levels, x < l
        PROVE  past[x] <= past[l - 1]
    <3>1. TryLimit - x >= n + 1 /\ TryLimit - x \in Nat
      BY <2>3, <2>5, CodeAssumption DEF Levels
    <3>2. ASSUME NEW d \in PastTries(k, TryLimit - x)
          PROVE  d \in PastTries(k, n + 1)
      <4>1. d \in CodeCalls /\ codes[k].attempts >= TryLimit - x
            /\ (d \in Comparing(k) => codeCall[d].attempts >= TryLimit - x)
        BY DEF PastTries
      <4>2. d \in Comparing(k) => codeCall[d].attempts \in Nat
        BY CallKinds DEF Comparing, CodeInv
      <4> QED
        BY <2>4, <3>1, <4>1, <4>2 DEF PastTries
    <3>3. PastTries(k, n + 1) \in SUBSET CodeCalls
      BY DEF PastTries
    <3>4. Cardinality(PastTries(k, TryLimit - x)) <= Cardinality(PastTries(k, n + 1))
      BY <3>2, <3>3, FewerElements
    <3> QED
      BY <2>2, <2>3, <3>4, PastTyped
  <2>6. past[l - 1] + 1 <= next[l - 1]
    <3>1. PICK P \in SUBSET CodeCalls, Q \in SUBSET CodeCalls :
            P = PastTries(k, n + 1) /\ Q = PastTries(k, n + 1)'
      BY DEF PastTries
    <3>2. c \notin P
      BY <1>1, <3>1 DEF PastTries
    <3>3. c \in Q /\ P \subseteq Q
      BY <1>3, <1>4, <3>1 DEF PastTries
    <3>4. P \subseteq Q \ {c} /\ Cardinality(Q \ {c}) = Cardinality(Q) - 1
      BY <3>2, <3>3, OneCallLess
    <3>5. Q \ {c} \in SUBSET CodeCalls /\ Cardinality(Q) \in Nat
      BY FewerCalls
    <3>6. Cardinality(P) <= Cardinality(Q) - 1 /\ Cardinality(P) \in Nat
      BY <3>4, <3>5, FewerElements
    <3>7. past[l - 1] = Cardinality(P) /\ next[l - 1] = Cardinality(Q)
      BY <2>2, <2>3, <3>1, PastTyped, PastTypedNext
    <3> QED
      BY <3>5, <3>6, <3>7
  <2>7. ASSUME NEW x \in Levels, l <= x
        PROVE  past[x] <= next[x]
    <3>1. TryLimit - x <= n /\ TryLimit - x \in Nat
      BY <2>3, <2>7, CodeAssumption DEF Levels
    <3>2. PICK P \in SUBSET CodeCalls, Q \in SUBSET CodeCalls :
            P = PastTries(k, TryLimit - x) /\ Q = PastTries(k, TryLimit - x)'
      BY DEF PastTries
    <3>3. codes'[k].attempts >= TryLimit - x
      BY <1>4, <3>1
    <3>4. P \subseteq Q
      BY <1>3, <3>2, <3>3 DEF PastTries
    <3>5. Cardinality(P) <= Cardinality(Q)
      BY <3>4, FewerElements
    <3> QED
      BY <2>2, <3>2, <3>5, PastTyped, PastTypedNext
  <2>8. PICK r : Counts(r, next) /\ r[TryLimit] = s[TryLimit] + 1
    BY <2>1, <2>2, <2>5, <2>6, <2>7, CountsRaised
  <2> QED
    BY <1>5, <2>1, <2>2, <2>8
<1> QED
  BY <1>4, <1>6, <1>7 DEF TriesCounted, Counts

LEMMA RightTries ==
  ASSUME CodeInv, TriesCounted, NEW c \in CodeCalls, RightCode(c)
  PROVE  TriesCounted'
<1>1. PICK k \in DOMAIN codes :
        codes' = [codes EXCEPT ![k] = CodeRow(codes[k].attempts, TRUE, codes[k].age)]
  BY CallKinds DEF RightCode, CodeInv
<1>2. codeCall' = [codeCall EXCEPT ![c] = NoRead] /\ UNCHANGED tries
  BY DEF RightCode
<1>3. DOMAIN codes' = DOMAIN codes
      /\ \A j \in DOMAIN codes : codes'[j].attempts = codes[j].attempts
  <2>1. CodeRow(codes[k].attempts, TRUE, codes[k].age).attempts = codes[k].attempts
    BY DEF CodeRow
  <2>2. codes \in Seq(Code)
    BY DEF CodeInv, CodeTypeOK
  <2> QED
    BY <1>1, <2>1, <2>2
<1>4. \A j \in DOMAIN codes : \A d \in Comparing(j)' : codeCall'[d] = codeCall[d]
  BY <1>2, CallEnds DEF Comparing
<1> QED
  BY <1>2, <1>3, <1>4, TriesKept

LEMMA AgeTries ==
  ASSUME CodeInv, TriesCounted, NEW k \in DOMAIN codes, Age(k)
  PROVE  TriesCounted'
<1>1. PICK age : codes' = [codes EXCEPT ![k] = CodeRow(codes[k].attempts, codes[k].used, age)]
  BY DEF Age
<1>2. UNCHANGED <<codeCall, tries>>
  BY DEF Age, codeHistory
<1>3. DOMAIN codes' = DOMAIN codes
      /\ \A j \in DOMAIN codes : codes'[j].attempts = codes[j].attempts
  <2>1. CodeRow(codes[k].attempts, codes[k].used, age).attempts = codes[k].attempts
    BY DEF CodeRow
  <2>2. codes \in Seq(Code)
    BY DEF CodeInv, CodeTypeOK
  <2> QED
    BY <1>1, <2>1, <2>2
<1> QED
  BY <1>2, <1>3, TriesKept

LEMMA TriesStep == CodeInv /\ TriesCounted /\ [CodeNext]_codeVars => TriesCounted'
<1> SUFFICES ASSUME CodeInv, TriesCounted, [CodeNext]_codeVars
             PROVE  TriesCounted'
  OBVIOUS
<1>1. CASE UNCHANGED codeVars
  <2>1. UNCHANGED <<codes, codeCall, tries>>
    BY <1>1 DEF codeVars, codeHistory
  <2> QED
    BY <2>1, TriesKept
<1> QED
  BY <1>1, RequestTries, InsertTries, WrongTries, RightTries, AgeTries DEF CodeNext

\* The tries of every code are counted by what its requests have used up.
THEOREM TriesAreCounted == CodeSpec => []TriesCounted
  BY CodeInvariant, TriesInitial, TriesStep, PTL DEF CodeSpec

\* However wrong tries overlap and slow ones set the number of a code back, the tries
\* a code takes are bounded (twoFAService.go VerifyCode writes the number it read,
\* plus one).
THEOREM TriesEnd == CodeSpec => []TriesAreBounded
<1>1. TriesCounted => TriesAreBounded
  <2> SUFFICES ASSUME TriesCounted, NEW k \in DOMAIN codes
               PROVE  tries[k] <= TriesOf[<<Cardinality(CodeCalls), TryLimit>>]
    BY DEF TriesAreBounded
  <2>1. PICK s : Counts(s, Past(k)) /\ tries[k] = s[TryLimit]
    BY DEF TriesCounted
  <2>2. PICK past \in [Levels -> Nat], n \in Nat :
          /\ past = Past(k) /\ n = Cardinality(CodeCalls)
          /\ \A x \in Levels : past[x] <= n
    BY PastTyped, FewerCalls
  <2>3. TryLimit \in 0..TryLimit
    BY CodeAssumption
  <2>4. s[TryLimit] <= Tries(n, TryLimit)
    BY <2>1, <2>2, <2>3, CountsBounded
  <2> QED
    BY <2>1, <2>2, <2>4 DEF Tries
<1> QED
  BY <1>1, TriesAreCounted, PTL

-----------------------------------------------------------------------------
(* Rooms *)

\* Every copy of a row holds only who was in the row of that room once, or was named
\* by a goroutine ahead of the write: the table, the cache, the goroutines that fill
\* it, what a request has read.
CopiesAreOfMembers ==
    /\ \A r \in RoomIds : roomTable[r] \subseteq known[r]
    /\ \A f \in fills : f[2] \subseteq known[f[1]]
    /\ \A c \in RoomCalls : ~Is(c, "idle") =>
          /\ roomCall[c].row \subseteq known[roomCall[c].room]
          /\ \A t \in roomCall[c].todo : t[2] \subseteq known[t[1]]

\* Who was in the row of a room is there, or was lost to a write over a row it had
\* not read.
MembersKept ==
    \A r \in RoomIds : \A u \in everMember[r] : u \in roomTable[r] \/ <<r, u>> \in overwritten

\* Until it comes to the channels a request is about its own room; one that joins
\* has the user in that room once it is past the write.
JoinIsWritten ==
    \A c \in RoomCalls :
        /\ roomCall[c].pc \in {"check", "append", "write", "cache"} =>
              roomCall[c].room = roomCall[c].home
        /\ roomCall[c].pc \in {"cache", "list", "channels", "channelCache"} =>
              roomCall[c].avatar \/ roomCall[c].user \in known[roomCall[c].home]

\* A change of avatar ends with its own room.
AvatarEnds == \A c \in RoomCalls :
    roomCall[c].pc \in {"list", "channels", "channelCache"} => ~roomCall[c].avatar

JoinedWereMembers == \A j \in joined : j[2] \in known[j[1]]

RoomInv ==
    RoomTypeOK /\ AdmittedWasMember /\ CopiesAreOfMembers /\ MembersKept /\ JoinIsWritten
      /\ AvatarEnds /\ JoinedWereMembers

Calls == [pc : RoomPC, user : Users, avatar : BOOLEAN, home : RoomIds, room : RoomIds,
          row : Rows, todo : SUBSET (RoomIds \X Rows)]

\* What RoomInv says of one request.
CallInv(c) ==
    /\ ~Is(c, "idle") =>
          /\ roomCall[c].row \subseteq known[roomCall[c].room]
          /\ \A t \in roomCall[c].todo : t[2] \subseteq known[t[1]]
    /\ roomCall[c].pc \in {"check", "append", "write", "cache"} =>
          roomCall[c].room = roomCall[c].home
    /\ roomCall[c].pc \in {"cache", "list", "channels", "channelCache"} =>
          roomCall[c].avatar \/ roomCall[c].user \in known[roomCall[c].home]
    /\ roomCall[c].pc \in {"list", "channels", "channelCache"} => ~roomCall[c].avatar

\* Who is known of a room depends on the two histories alone, and stays known when
\* they grow.
LEMMA KnownSame ==
  ASSUME UNCHANGED <<everMember, unwritten>>
  PROVE  UNCHANGED known
  BY DEF known

LEMMA RoomInitial == RoomInit => RoomInv
<1> SUFFICES ASSUME RoomInit
             PROVE  RoomInv
  OBVIOUS
<1>1. \A c \in RoomCalls : roomCall[c].pc = "idle"
  BY DEF RoomInit, NoCall
<1>2. RoomTypeOK
  BY RoomAssumption DEF RoomInit, RoomTypeOK, NoRoom
<1>3. AdmittedWasMember /\ MembersKept /\ JoinedWereMembers
  BY DEF RoomInit, AdmittedWasMember, MembersKept, JoinedWereMembers, NoRoom, known
<1>4. CopiesAreOfMembers /\ JoinIsWritten /\ AvatarEnds
  BY <1>1 DEF RoomInit, CopiesAreOfMembers, JoinIsWritten, AvatarEnds, Is, NoRoom, known
<1> QED
  BY <1>2, <1>3, <1>4 DEF RoomInv

LEMMA CallTyped ==
  ASSUME RoomInv, NEW c \in RoomCalls, ~Is(c, "idle")
  PROVE  /\ roomCall[c] \in Calls
         /\ roomCall[c].user \in Users /\ roomCall[c].avatar \in BOOLEAN
         /\ roomCall[c].home \in RoomIds /\ roomCall[c].room \in RoomIds
         /\ roomCall[c].row \in Rows /\ roomCall[c].todo \in SUBSET (RoomIds \X Rows)
<1>1. roomCall[c] \in Calls
  BY DEF RoomInv, RoomTypeOK, Is, NoCall, Calls
<1> QED
  BY <1>1 DEF Calls

LEMMA CallFields ==
  ASSUME NEW pc \in RoomPC, NEW user \in Users, NEW avatar \in BOOLEAN, NEW home \in RoomIds,
         NEW room \in RoomIds, NEW row \in Rows, NEW todo \in SUBSET (RoomIds \X Rows)
  PROVE  LET call == Call(pc, user, avatar, home, room, row, todo)
         IN  /\ call \in Calls
             /\ call.pc = pc /\ call.user = user /\ call.avatar = avatar
             /\ call.home = home /\ call.room = room /\ call.row = row /\ call.todo = todo
<1> DEFINE call == Call(pc, user, avatar, home, room, row, todo)
<1>1. call \in Calls
  BY DEF Call, Calls
<1>2. /\ call.pc = pc /\ call.user = user /\ (call.avatar <=> avatar)
      /\ call.home = home /\ call.room = room /\ call.row = row /\ call.todo = todo
  BY DEF Call
<1>3. call.avatar = avatar
  BY DEF Call
<1> QED
  BY <1>1, <1>2, <1>3

\* A request moves on: who it is for and what it is about stay.
LEMMA Moved ==
  ASSUME RoomInv, NEW c \in RoomCalls, ~Is(c, "idle"), NEW pc \in RoomPC,
         NEW room \in RoomIds, NEW row \in Rows, NEW todo \in SUBSET (RoomIds \X Rows),
         Move(c, pc, room, row, todo)
  PROVE  /\ roomCall' \in [RoomCalls -> {NoCall} \cup Calls]
         /\ roomCall'[c].pc = pc /\ roomCall'[c].room = room /\ roomCall'[c].row = row
         /\ roomCall'[c].todo = todo
         /\ roomCall'[c].user = roomCall[c].user /\ roomCall'[c].avatar = roomCall[c].avatar
         /\ roomCall'[c].home = roomCall[c].home
         /\ \A d \in RoomCalls \ {c} : roomCall'[d] = roomCall[d]
<1>1. PICK call \in Calls :
        /\ call = Call(pc, roomCall[c].user, roomCall[c].avatar, roomCall[c].home, room, row, todo)
        /\ call.pc = pc /\ call.user = roomCall[c].user /\ call.avatar = roomCall[c].avatar
        /\ call.home = roomCall[c].home /\ call.room = room /\ call.row = row /\ call.todo = todo
  BY CallTyped, CallFields
<1>2. roomCall' = [roomCall EXCEPT ![c] = call]
  BY <1>1 DEF Move
<1>3. /\ roomCall' \in [RoomCalls -> {NoCall} \cup Calls] /\ roomCall'[c] = call
      /\ \A d \in RoomCalls \ {c} : roomCall'[d] = roomCall[d]
  BY <1>2 DEF RoomInv, RoomTypeOK, Calls
<1> QED
  BY <1>1, <1>3

LEMMA Ended ==
  ASSUME RoomInv, NEW c \in RoomCalls, End(c)
  PROVE  /\ roomCall' \in [RoomCalls -> {NoCall} \cup Calls] /\ roomCall'[c].pc = "idle"
         /\ \A d \in RoomCalls \ {c} : roomCall'[d] = roomCall[d]
  BY DEF End, NoCall, RoomInv, RoomTypeOK, Calls

LEMMA EachCall == RoomInv => \A c \in RoomCalls : CallInv(c)
  BY DEF RoomInv, CallInv, CopiesAreOfMembers, JoinIsWritten, AvatarEnds

\* The sets of members only grow, so what held of a request that did not move holds.
LEMMA StillCall ==
  ASSUME RoomInv, NEW d \in RoomCalls, roomCall'[d] = roomCall[d],
         \A r \in RoomIds : known[r] \subseteq known'[r]
  PROVE  CallInv(d)'
<1>1. CallInv(d)
  BY EachCall
<1>2. CASE Is(d, "idle")
  BY <1>2 DEF Is, CallInv
<1>3. CASE ~Is(d, "idle")
  <2>1. /\ roomCall[d].room \in RoomIds /\ roomCall[d].home \in RoomIds
        /\ \A t \in roomCall[d].todo : t[1] \in RoomIds
    BY <1>3, CallTyped
  <2> QED
    BY <1>1, <2>1 DEF CallInv, Is
<1> QED
  BY <1>2, <1>3

\* The types of the tables after a step, and what their rows are copies of.
TablesKept ==
    /\ roomTable \in [RoomIds -> SUBSET Users] /\ roomCache \in [RoomIds -> SUBSET Users]
    /\ fills \subseteq RoomIds \X Rows /\ late \subseteq RoomCalls
    /\ joined \subseteq RoomIds \X Users /\ overwritten \subseteq RoomIds \X Users
    /\ everMember \in [RoomIds -> SUBSET Users] /\ unwritten \subseteq RoomIds \X Users
    /\ requests \in 0..MaxRequests
    /\ \A r \in RoomIds : roomTable[r] \subseteq known[r]
    /\ \A f \in fills : f[2] \subseteq known[f[1]]
    /\ AdmittedWasMember /\ MembersKept /\ JoinedWereMembers

LEMMA Tables == RoomInv => TablesKept
  BY DEF RoomInv, RoomTypeOK, TablesKept, CopiesAreOfMembers

LEMMA Together ==
  ASSUME RoomInv, TablesKept', roomCall' \in [RoomCalls -> {NoCall} \cup Calls],
         \A c \in RoomCalls : CallInv(c)'
  PROVE  RoomInv'
<1>1. RoomTypeOK'
  BY DEF TablesKept, RoomTypeOK, Calls
<1>2. CopiesAreOfMembers' /\ JoinIsWritten' /\ AvatarEnds'
  BY DEF TablesKept, CallInv, CopiesAreOfMembers, JoinIsWritten, AvatarEnds
<1> QED
  BY <1>1, <1>2 DEF TablesKept, RoomInv

\* Whatever a read returns is a row of former members, and what it leaves to be
\* put in the cache is too.
LEMMA GetRoomReads ==
  ASSUME RoomInv, NEW r \in RoomIds, NEW row \in {roomCache[r], roomTable[r]},
         GetRoom(r, row)
  PROVE  /\ row \in Rows /\ row \subseteq known[r]
         /\ fills' \subseteq RoomIds \X Rows
         /\ \A f \in fills' : f[2] \subseteq known[f[1]]
<1>1. row \in Rows /\ row \subseteq known[r]
  <2>1. row # NoRoom
    BY DEF GetRoom
  <2>2. row \subseteq known[r] /\ row \in SUBSET Users
    BY Tables DEF TablesKept, AdmittedWasMember
  <2> QED
    BY <2>1, <2>2 DEF Rows
<1>2. fills' \subseteq fills \cup {<<r, row>>}
  BY DEF GetRoom
<1>3. /\ fills \subseteq RoomIds \X Rows /\ <<r, row>> \in RoomIds \X Rows
      /\ \A f \in fills : f[2] \subseteq known[f[1]]
  BY <1>1, Tables DEF TablesKept
<1> QED
  BY <1>1, <1>2, <1>3

\* A write over base that keeps the members of base loses nobody unseen.
LEMMA StoreKeeps ==
  ASSUME RoomInv, NEW r \in RoomIds, NEW row \in SUBSET Users, NEW base \in SUBSET row,
         StoreRow(r, row, base)
  PROVE  /\ roomTable' \in [RoomIds -> SUBSET Users] /\ overwritten' \subseteq RoomIds \X Users
         /\ everMember' \in [RoomIds -> SUBSET Users] /\ unwritten' \subseteq RoomIds \X Users
         /\ \A q \in RoomIds : roomTable'[q] \subseteq known'[q]
         /\ \A q \in RoomIds : known[q] \subseteq known'[q]
         /\ row \subseteq known'[r]
         /\ MembersKept'
<1> DEFINE lost == {<<r, u>> : u \in roomTable[r] \ row}
           in   == {<<r, u>> : u \in row}
<1>1. /\ roomTable' = [roomTable EXCEPT ![r] = row]
      /\ everMember' = [everMember EXCEPT ![r] = @ \cup row]
      /\ overwritten' = (IF roomTable[r] = base THEN overwritten ELSE overwritten \cup lost) \ in
      /\ unwritten' = unwritten \ in
  BY DEF StoreRow
<1>2. TablesKept
  BY Tables
<1>3. /\ roomTable' \in [RoomIds -> SUBSET Users] /\ everMember' \in [RoomIds -> SUBSET Users]
      /\ roomTable'[r] = row /\ everMember'[r] = everMember[r] \cup row
      /\ \A q \in RoomIds \ {r} : roomTable'[q] = roomTable[q] /\ everMember'[q] = everMember[q]
  BY <1>1, <1>2 DEF TablesKept
<1>4. overwritten' \subseteq RoomIds \X Users /\ unwritten' \subseteq RoomIds \X Users
  BY <1>1, <1>2 DEF TablesKept
<1>5. MembersKept'
  <2> SUFFICES ASSUME NEW q \in RoomIds, NEW u \in everMember'[q]
               PROVE  u \in roomTable'[q] \/ <<q, u>> \in overwritten'
    BY DEF MembersKept
  <2>1. CASE q # r
    <3>1. u \in roomTable[q] \/ <<q, u>> \in overwritten
      BY <1>2, <1>3, <2>1 DEF TablesKept, MembersKept
    <3>2. <<q, u>> \notin in
      BY <2>1
    <3> QED
      BY <1>1, <1>3, <2>1, <3>1, <3>2
  <2>2. CASE q = r /\ u \in row
    BY <1>3, <2>2
  <2>3. CASE q = r /\ u \notin row
    <3>1. u \in roomTable[r] \/ <<r, u>> \in overwritten
      BY <1>2, <1>3, <2>3 DEF TablesKept, MembersKept
    <3>2. <<r, u>> \notin in
      BY <2>3
    <3>3. u \in roomTable[r] => roomTable[r] # base /\ <<r, u>> \in lost
      BY <2>3
    <3> QED
      BY <1>1, <2>3, <3>1, <3>2, <3>3
  <2> QED
    BY <2>1, <2>2, <2>3
<1>6. ASSUME NEW q \in RoomIds
      PROVE  known[q] \subseteq known'[q]
  <2> SUFFICES ASSUME NEW u \in known[q]
               PROVE  u \in known'[q]
    OBVIOUS
  <2>1. u \in Users /\ (u \in everMember[q] \/ <<q, u>> \in unwritten)
    BY <1>2 DEF known, TablesKept
  <2>2. u \in everMember[q] => u \in everMember'[q]
    BY <1>3
  <2>3. <<q, u>> \in unwritten => <<q, u>> \in unwritten' \/ (q = r /\ u \in row)
    BY <1>1
  <2>4. u \in everMember'[q] \/ <<q, u>> \in unwritten'
    BY <1>3, <2>1, <2>2, <2>3
  <2> QED
    BY <2>1, <2>4 DEF known
<1>7. \A q \in RoomIds : everMember'[q] \subseteq known'[q]
  BY DEF known
<1>8. row \subseteq known'[r]
  BY <1>3, <1>7
<1>9. \A q \in RoomIds : roomTable'[q] \subseteq known'[q]
  BY <1>2, <1>3, <1>6, <1>8 DEF TablesKept
<1> QED
  BY <1>3, <1>4, <1>5, <1>6, <1>8, <1>9

\* A step that leaves the requests alone.
LEMMA TableStep ==
  ASSUME RoomInv, TablesKept', UNCHANGED roomCall,
         \A r \in RoomIds : known[r] \subseteq known'[r]
  PROVE  RoomInv'
<1>1. \A c \in RoomCalls : CallInv(c)'
  BY StillCall
<1>2. roomCall' \in [RoomCalls -> {NoCall} \cup Calls]
  BY DEF RoomInv, RoomTypeOK, Calls
<1> QED
  BY <1>1, <1>2, Together

\* A step that leaves all but one request alone.
LEMMA OneCallStep ==
  ASSUME RoomInv, TablesKept', NEW c \in RoomCalls,
         \A r \in RoomIds : known[r] \subseteq known'[r],
         roomCall' \in [RoomCalls -> {NoCall} \cup Calls],
         \A d \in RoomCalls \ {c} : roomCall'[d] = roomCall[d],
         CallInv(c)'
  PROVE  RoomInv'
<1>1. \A d \in RoomCalls : CallInv(d)'
  BY StillCall
<1> QED
  BY <1>1, Together

LEMMA CreateRoomStep ==
  ASSUME RoomInv, NEW r \in RoomIds, NEW members \in Rows, CreateRoom(r, members)
  PROVE  RoomInv'
<1>1. /\ NewRequest /\ StoreRow(r, members, NoRoom)
      /\ joined' = {j \in joined : j[1] # r}
      /\ fills' = fills \cup {<<r, members>>}
      /\ UNCHANGED <<roomCache, late, roomCall>>
  BY DEF CreateRoom
<1>2. TablesKept
  BY Tables
<1>3. /\ roomTable' \in [RoomIds -> SUBSET Users] /\ overwritten' \subseteq RoomIds \X Users
      /\ everMember' \in [RoomIds -> SUBSET Users] /\ unwritten' \subseteq RoomIds \X Users
      /\ \A q \in RoomIds : roomTable'[q] \subseteq known'[q]
      /\ \A q \in RoomIds : known[q] \subseteq known'[q]
      /\ members \subseteq known'[r]
      /\ MembersKept'
  BY <1>1, StoreKeeps DEF NoRoom, Rows
<1>4. requests' \in 0..MaxRequests
  BY <1>1, <1>2, RoomAssumption DEF NewRequest, TablesKept
<1>5. fills' \subseteq RoomIds \X Rows /\ \A f \in fills' : f[2] \subseteq known'[f[1]]
  BY <1>1, <1>2, <1>3 DEF TablesKept
<1>6. AdmittedWasMember'
  BY <1>1, <1>2, <1>3 DEF TablesKept, AdmittedWasMember
<1>7. joined' \subseteq RoomIds \X Users /\ JoinedWereMembers'
  BY <1>1, <1>2, <1>3 DEF TablesKept, JoinedWereMembers
<1>8. TablesKept'
  BY <1>1, <1>2, <1>3, <1>4, <1>5, <1>6, <1>7 DEF TablesKept
<1> QED
  BY <1>1, <1>3, <1>8, TableStep

\* What is put in the cache is what a read of the table left for it.
LEMMA CacheStep ==
  ASSUME RoomInv, FillCache \/ \E r \in RoomIds : ExpireRoom(r)
  PROVE  RoomInv'
<1>1. TablesKept
  BY Tables
<1>2. /\ UNCHANGED <<roomTable, late, roomCall, requests, roomHistory, known>>
      /\ fills' \subseteq fills
  BY KnownSame DEF FillCache, ExpireRoom, roomHistory
<1>3. PICK r \in RoomIds, row \in SUBSET Users :
        /\ row \subseteq known[r]
        /\ roomCache' \in {roomCache, [roomCache EXCEPT ![r] = row]}
  <2>1. ASSUME NEW r \in RoomIds, ExpireRoom(r)
        PROVE  roomCache' = [roomCache EXCEPT ![r] = {}]
    BY <2>1 DEF ExpireRoom, NoRoom
  <2>2. ASSUME NEW f \in fills, roomCache' \in {roomCache, [roomCache EXCEPT ![f[1]] = f[2]]}
        PROVE  /\ f[1] \in RoomIds /\ f[2] \in SUBSET Users /\ f[2] \subseteq known[f[1]]
               /\ roomCache' \in {roomCache, [roomCache EXCEPT ![f[1]] = f[2]]}
    BY <1>1, <2>2 DEF TablesKept, Rows
  <2>3. CASE FillCache
    BY <2>2, <2>3 DEF FillCache
  <2>4. CASE \E r \in RoomIds : ExpireRoom(r)
    BY <2>1, <2>4
  <2> QED
    BY <2>3, <2>4
<1>4. roomCache' \in [RoomIds -> SUBSET Users] /\ AdmittedWasMember'
  BY <1>1, <1>2, <1>3 DEF TablesKept, AdmittedWasMember, roomHistory
<1>5. TablesKept'
  BY <1>1, <1>2, <1>4 DEF TablesKept, roomHistory, MembersKept, JoinedWereMembers
<1> QED
  BY <1>1, <1>2, <1>5, TableStep DEF roomHistory

LEMMA BeginStep ==
  ASSUME RoomInv, NEW c \in RoomCalls, NEW u \in Users, NEW r \in RoomIds,
         NEW avatar \in BOOLEAN, Begin(c, u, r, avatar)
  PROVE  RoomInv'
<1>1. PICK row \in {roomCache[r], roomTable[r]} :
        /\ NewRequest
        /\ \/ GetRoom(r, row) /\ UNCHANGED late
           \/ /\ roomTable[r] # NoRoom /\ row = roomTable[r]
              /\ late' = late \cup {c} /\ UNCHANGED fills
        /\ roomCall' = [roomCall EXCEPT ![c] = Call("check", u, avatar, r, r, row, {})]
        /\ UNCHANGED <<roomTable, roomCache, roomHistory, known>>
  BY KnownSame DEF Begin, roomHistory
<1>2. TablesKept
  BY Tables
<1>3. /\ row \in Rows /\ row \subseteq known[r] /\ late' \subseteq RoomCalls
      /\ fills' \subseteq RoomIds \X Rows /\ \A f \in fills' : f[2] \subseteq known[f[1]]
  <2>1. CASE GetRoom(r, row) /\ UNCHANGED late
    BY <1>2, <2>1, GetRoomReads DEF TablesKept
  <2>2. CASE /\ roomTable[r] # NoRoom /\ row = roomTable[r]
             /\ late' = late \cup {c} /\ UNCHANGED fills
    BY <1>2, <2>2 DEF TablesKept, Rows
  <2> QED
    BY <1>1, <2>1, <2>2
<1>4. requests' \in 0..MaxRequests
  BY <1>1, <1>2, RoomAssumption DEF NewRequest, TablesKept
<1>5. TablesKept'
  BY <1>1, <1>2, <1>3, <1>4
  DEF TablesKept, roomHistory, AdmittedWasMember, MembersKept, JoinedWereMembers
<1>6. PICK call \in Calls :
        /\ call = Call("check", u, avatar, r, r, row, {}) /\ call.pc = "check"
        /\ call.home = r /\ call.room = r /\ call.row = row /\ call.todo = {}
  <2>1. "check" \in RoomPC /\ {} \in SUBSET (RoomIds \X Rows)
    BY DEF RoomPC
  <2> QED
    BY <1>3, <2>1, CallFields
<1>7. /\ roomCall' \in [RoomCalls -> {NoCall} \cup Calls] /\ roomCall'[c] = call
      /\ \A d \in RoomCalls \ {c} : roomCall'[d] = roomCall[d]
  BY <1>1, <1>6 DEF RoomInv, RoomTypeOK, Calls
<1>8. CallInv(c)'
  BY <1>1, <1>3, <1>6, <1>7 DEF CallInv, roomHistory
<1> QED
  BY <1>1, <1>5, <1>7, <1>8, OneCallStep DEF roomHistory

\* A step of a request that moves on, or ends, and touches nothing that is kept.
LEMMA QuietMove ==
  ASSUME RoomInv, NEW c \in RoomCalls, ~Is(c, "idle"),
         UNCHANGED <<roomTable, roomCache, requests, roomHistory>>,
         late' \subseteq late \cup {c}, fills' \subseteq RoomIds \X Rows,
         \A f \in fills' : f[2] \subseteq known[f[1]],
         roomCall' \in [RoomCalls -> {NoCall} \cup Calls],
         \A d \in RoomCalls \ {c} : roomCall'[d] = roomCall[d],
         CallInv(c)'
  PROVE  RoomInv'
<1>1. UNCHANGED known
  BY KnownSame DEF roomHistory
<1>2. TablesKept'
  BY <1>1, Tables DEF TablesKept, roomHistory, AdmittedWasMember, MembersKept, JoinedWereMembers
<1> QED
  BY <1>1, <1>2, OneCallStep

LEMMA IdleCall == \A c : roomCall'[c].pc = "idle" => CallInv(c)'
  BY DEF CallInv, Is

\* A user the read finds in the row was in it once, which is all a join that ends
\* early needs.
LEMMA IsRoomMemberStep ==
  ASSUME RoomInv, NEW c \in RoomCalls, IsRoomMember(c)
  PROVE  RoomInv'
<1> DEFINE room == roomCall[c].room
           user == roomCall[c].user
<1>1. /\ Is(c, "check") /\ ~Is(c, "idle") /\ late' \subseteq late \cup {c}
      /\ UNCHANGED <<roomTable, roomCache, requests, roomHistory, known>>
  BY KnownSame DEF IsRoomMember, Is, roomHistory
<1>2. TablesKept /\ CallInv(c)
  BY Tables, EachCall
<1>3. roomCall[c].home = room /\ room \in RoomIds
  BY <1>1, <1>2, CallTyped DEF CallInv, Is
<1>4. ASSUME NEW row \in {roomCache[room], roomTable[room]}, GetRoom(room, row)
      PROVE  /\ row \subseteq known[room]
             /\ fills' \subseteq RoomIds \X Rows
             /\ \A f \in fills' : f[2] \subseteq known[f[1]]
  BY <1>3, <1>4, GetRoomReads
<1>5. fills' \subseteq RoomIds \X Rows /\ \A f \in fills' : f[2] \subseteq known[f[1]]
  <2>1. CASE UNCHANGED fills
    BY <1>2, <2>1 DEF TablesKept
  <2>2. CASE \E row \in {roomCache[room], roomTable[room]} : GetRoom(room, row)
    BY <1>4, <2>2
  <2> QED
    BY <2>1, <2>2 DEF IsRoomMember
<1>6. \/ End(c) \/ Go(c, "write") \/ Go(c, "append")
      \/ Go(c, "list") /\ ~roomCall[c].avatar /\ user \in known[room]
  <2>1. ASSUME NEW row \in {roomCache[room], roomTable[room]}, GetRoom(room, row),
               CASE roomCall[c].avatar /\ user \notin row -> End(c)
                 [] roomCall[c].avatar /\ user \in row    -> Go(c, "write")
                 [] ~roomCall[c].avatar /\ user \in row   -> Go(c, "list")
                 [] OTHER                               -> Go(c, "append")
        PROVE  \/ End(c) \/ Go(c, "write") \/ Go(c, "append")
               \/ Go(c, "list") /\ ~roomCall[c].avatar /\ user \in known[room]
    <3>1. row \subseteq known[room]
      BY <1>4, <2>1
    <3>2. CASE roomCall[c].avatar /\ user \notin row
      BY <2>1, <3>2
    <3>3. CASE roomCall[c].avatar /\ user \in row
      BY <2>1, <3>3
    <3>4. CASE ~roomCall[c].avatar /\ user \in row
      BY <2>1, <3>1, <3>4
    <3>5. CASE ~roomCall[c].avatar /\ user \notin row
      BY <2>1, <3>5
    <3> QED
      BY <3>2, <3>3, <3>4, <3>5
  <2> QED
    BY <2>1 DEF IsRoomMember
<1>7. CASE End(c)
  BY <1>1, <1>5, <1>7, Ended, IdleCall, QuietMove
<1>8. ASSUME NEW pc \in {"write", "append"}, Go(c, pc)
      PROVE  RoomInv'
  <2>1. Move(c, pc, roomCall[c].room, roomCall[c].row, roomCall[c].todo) /\ pc \in RoomPC
    BY <1>8 DEF Go, RoomPC
  <2>2. CallInv(c)'
    BY <1>1, <1>2, <2>1, CallTyped, Moved DEF CallInv, Is
  <2> QED
    BY <1>1, <1>5, <2>1, <2>2, CallTyped, Moved, QuietMove
<1>9. CASE Go(c, "list") /\ ~roomCall[c].avatar /\ user \in known[room]
  <2>1. Move(c, "list", roomCall[c].room, roomCall[c].row, roomCall[c].todo)
        /\ "list" \in RoomPC
    BY <1>9 DEF Go, RoomPC
  <2>2. CallInv(c)'
    BY <1>1, <1>2, <1>3, <1>9, <2>1, CallTyped, Moved DEF CallInv, Is
  <2> QED
    BY <1>1, <1>5, <2>1, <2>2, CallTyped, Moved, QuietMove
<1> QED
  BY <1>6, <1>7, <1>8, <1>9

\* The goroutine that shares the object names the user, who is known from then on.
LEMMA AppendMemberStep ==
  ASSUME RoomInv, NEW c \in RoomCalls, AppendMember(c)
  PROVE  RoomInv'
<1>1. /\ Is(c, "append") /\ ~Is(c, "idle")
      /\ Move(c, "write", roomCall[c].room, roomCall[c].row, roomCall[c].todo)
      /\ late' = late \ {c}
      /\ UNCHANGED <<roomTable, roomCache, requests, joined, overwritten, everMember>>
  BY DEF AppendMember, Go, Is
<1>2. TablesKept /\ CallInv(c)
  BY Tables, EachCall
<1>3. PICK room \in RoomIds, user \in Users : room = roomCall[c].room /\ user = roomCall[c].user
  BY <1>1, CallTyped
<1>4. PICK row \in Rows : row = Changed(c) /\ row \subseteq roomCall[c].row \cup {user}
  BY <1>1, <1>3, CallTyped DEF Changed, Rows, NoRoom
<1>5. /\ unwritten \subseteq unwritten' /\ unwritten' \subseteq RoomIds \X Users
      /\ \/ UNCHANGED fills
         \/ fills' = fills \cup {<<room, row>>} /\ <<room, user>> \in unwritten'
  BY <1>2, <1>3, <1>4 DEF AppendMember, TablesKept
<1>6. \A q \in RoomIds : known[q] \subseteq known'[q]
  BY <1>1, <1>5 DEF known
<1>7. <<room, user>> \in unwritten' => user \in known'[room]
  BY DEF known
<1>8. roomCall[c].row \subseteq known[room]
  BY <1>1, <1>2, <1>3 DEF CallInv
<1>9. fills' \subseteq RoomIds \X Rows /\ \A f \in fills' : f[2] \subseteq known'[f[1]]
  <2>1. \A f \in fills : f \in RoomIds \X Rows /\ f[2] \subseteq known'[f[1]]
    BY <1>2, <1>6 DEF TablesKept
  <2>2. <<room, user>> \in unwritten' => row \subseteq known'[room]
    BY <1>4, <1>6, <1>7, <1>8
  <2> QED
    BY <1>5, <2>1, <2>2
<1>10. AdmittedWasMember' /\ JoinedWereMembers'
  BY <1>1, <1>2, <1>6 DEF TablesKept, AdmittedWasMember, JoinedWereMembers
<1>11. TablesKept'
  BY <1>1, <1>2, <1>5, <1>6, <1>9, <1>10 DEF TablesKept, MembersKept
<1>12. "write" \in RoomPC
  BY DEF RoomPC
<1>13. CallInv(c)'
  BY <1>1, <1>2, <1>6, <1>12, CallTyped, Moved DEF CallInv, Is
<1> QED
  BY <1>1, <1>6, <1>11, <1>12, <1>13, CallTyped, Moved, OneCallStep

\* The write keeps the members the request has read, so it loses nobody unseen, and
\* puts the one who joins in.
LEMMA UpdateRoomStep ==
  ASSUME RoomInv, NEW c \in RoomCalls, UpdateRoom(c)
  PROVE  RoomInv'
<1>1. /\ Is(c, "write") /\ ~Is(c, "idle")
      /\ StoreRow(roomCall[c].room, Changed(c), roomCall[c].row)
      /\ Move(c, "cache", roomCall[c].room, Changed(c), roomCall[c].todo)
      /\ UNCHANGED <<roomCache, fills, late, requests, joined>>
  BY DEF UpdateRoom, Is
<1>2. TablesKept /\ CallInv(c)
  BY Tables, EachCall
<1>3. PICK room \in RoomIds : room = roomCall[c].room
  BY <1>1, CallTyped
<1>4. PICK row \in Rows : row = Changed(c)
  BY <1>1, CallTyped DEF Changed, Rows, NoRoom
<1>5. PICK base \in SUBSET row : base = roomCall[c].row
  BY <1>4 DEF Changed
<1>6. roomCall[c].avatar \/ roomCall[c].user \in row
  BY <1>4 DEF Changed
<1>7. row \in SUBSET Users
  BY DEF Rows
<1>8. StoreRow(room, row, base)
  BY <1>1, <1>3, <1>4, <1>5
<1>9. /\ roomTable' \in [RoomIds -> SUBSET Users] /\ overwritten' \subseteq RoomIds \X Users
      /\ everMember' \in [RoomIds -> SUBSET Users] /\ unwritten' \subseteq RoomIds \X Users
      /\ \A q \in RoomIds : roomTable'[q] \subseteq known'[q]
      /\ \A q \in RoomIds : known[q] \subseteq known'[q]
      /\ row \subseteq known'[room]
      /\ MembersKept'
  BY <1>7, <1>8, StoreKeeps
<1>10. TablesKept'
  BY <1>1, <1>2, <1>9 DEF TablesKept, AdmittedWasMember, JoinedWereMembers
<1>11. Move(c, "cache", room, row, roomCall[c].todo) /\ "cache" \in RoomPC
  BY <1>1, <1>3, <1>4 DEF RoomPC
<1>12. /\ roomCall' \in [RoomCalls -> {NoCall} \cup Calls]
       /\ roomCall'[c].pc = "cache" /\ roomCall'[c].room = room /\ roomCall'[c].row = row
       /\ roomCall'[c].todo = roomCall[c].todo
       /\ roomCall'[c].user = roomCall[c].user /\ roomCall'[c].avatar = roomCall[c].avatar
       /\ roomCall'[c].home = roomCall[c].home
       /\ \A d \in RoomCalls \ {c} : roomCall'[d] = roomCall[d]
  BY <1>1, <1>11, CallTyped, Moved
<1>13. room = roomCall[c].home
  BY <1>1, <1>2, <1>3 DEF CallInv, Is
<1>14. \A t \in roomCall[c].todo : t[1] \in RoomIds /\ t[2] \subseteq known[t[1]]
  BY <1>1, <1>2, CallTyped DEF CallInv
<1>15. CallInv(c)'
  BY <1>6, <1>9, <1>12, <1>13, <1>14 DEF CallInv, Is
<1> QED
  BY <1>9, <1>10, <1>12, <1>15, OneCallStep

\* What a request puts in the cache was in the table once.
LEMMA CachedWasMember ==
  ASSUME RoomInv, NEW c \in RoomCalls, ~Is(c, "idle"),
         roomCache' \in {roomCache, [roomCache EXCEPT ![roomCall[c].room] = roomCall[c].row]},
         UNCHANGED <<roomTable, fills, late, requests, roomHistory>>
  PROVE  TablesKept' /\ UNCHANGED known
<1>1. TablesKept /\ CallInv(c) /\ UNCHANGED known
  BY Tables, EachCall, KnownSame DEF roomHistory
<1>2. PICK room \in RoomIds, row \in SUBSET Users :
        /\ row \subseteq known[room]
        /\ roomCache' \in {roomCache, [roomCache EXCEPT ![room] = row]}
  BY <1>1, CallTyped DEF CallInv, Rows
<1>3. roomCache' \in [RoomIds -> SUBSET Users] /\ AdmittedWasMember'
  BY <1>1, <1>2 DEF TablesKept, AdmittedWasMember, roomHistory
<1> QED
  BY <1>1, <1>3 DEF TablesKept, roomHistory, MembersKept, JoinedWereMembers

LEMMA SetRoomStep ==
  ASSUME RoomInv, NEW c \in RoomCalls, SetRoom(c)
  PROVE  RoomInv'
<1>1. /\ Is(c, "cache") /\ ~Is(c, "idle")
      /\ roomCache' = [roomCache EXCEPT ![roomCall[c].room] = roomCall[c].row]
      /\ UNCHANGED <<roomTable, fills, late, requests, roomHistory>>
  BY DEF SetRoom, Is
<1>2. CallInv(c) /\ TablesKept' /\ UNCHANGED known
  BY <1>1, EachCall, CachedWasMember
<1>3. \A r \in RoomIds : known[r] \subseteq known'[r]
  BY <1>2
<1>4. CASE roomCall[c].avatar
  <2>1. End(c)
    BY <1>4 DEF SetRoom
  <2> QED
    BY <1>2, <1>3, <2>1, Ended, IdleCall, OneCallStep
<1>5. CASE ~roomCall[c].avatar
  <2>1. Move(c, "list", roomCall[c].room, roomCall[c].row, roomCall[c].todo)
        /\ "list" \in RoomPC
    BY <1>5 DEF SetRoom, Go, RoomPC
  <2>2. CallInv(c)'
    BY <1>1, <1>2, <1>5, <2>1, CallTyped, Moved DEF CallInv, Is, roomHistory
  <2> QED
    BY <1>1, <1>2, <1>3, <2>1, <2>2, CallTyped, Moved, OneCallStep
<1> QED
  BY <1>4, <1>5

\* The channels are read from the table, so their rows are of former members too.
LEMMA ListRoomsByNamePrefixStep ==
  ASSUME RoomInv, NEW c \in RoomCalls, ListRoomsByNamePrefix(c)
  PROVE  RoomInv'
<1> DEFINE found == {<<ch, roomTable[ch]>> : ch \in
                        {r \in ChannelsOf[roomCall[c].home] :
                            roomTable[r] # NoRoom /\ roomCall[c].user \notin roomTable[r]}}
<1>1. /\ Is(c, "list") /\ ~Is(c, "idle")
      /\ Move(c, "channels", roomCall[c].room, roomCall[c].row, found)
      /\ UNCHANGED <<roomStore, requests, roomHistory, known>>
  BY KnownSame DEF ListRoomsByNamePrefix, Is, roomHistory
<1>2. TablesKept /\ CallInv(c)
  BY Tables, EachCall
<1>3. \A r \in ChannelsOf[roomCall[c].home] : r \in RoomIds
  BY <1>1, CallTyped, RoomAssumption
<1>4. ASSUME NEW r \in RoomIds, roomTable[r] # NoRoom
      PROVE  <<r, roomTable[r]>> \in RoomIds \X Rows /\ roomTable[r] \subseteq known[r]
  BY <1>2, <1>4 DEF TablesKept, Rows
<1>5. PICK todo \in SUBSET (RoomIds \X Rows) :
        todo = found /\ \A t \in todo : t[2] \subseteq known[t[1]]
  <2>1. ASSUME NEW t \in found
        PROVE  t \in RoomIds \X Rows /\ t[2] \subseteq known[t[1]]
    <3>1. PICK r \in RoomIds : t = <<r, roomTable[r]>> /\ roomTable[r] # NoRoom
      BY <1>3, <2>1
    <3> QED
      BY <1>4, <3>1
  <2>2. found \in SUBSET (RoomIds \X Rows)
    BY <2>1
  <2> QED
    BY <2>1, <2>2
<1>6. Move(c, "channels", roomCall[c].room, roomCall[c].row, todo) /\ "channels" \in RoomPC
  BY <1>1, <1>5 DEF RoomPC
<1>7. CallInv(c)'
  BY <1>1, <1>2, <1>5, <1>6, CallTyped, Moved DEF CallInv, Is, roomHistory
<1> QED
  BY <1>1, <1>2, <1>6, <1>7, CallTyped, Moved, QuietMove DEF TablesKept, roomStore

\* A channel is written over the row that was read of it, or left as it is.
LEMMA UpdateChannelStep ==
  ASSUME RoomInv, NEW c \in RoomCalls, UpdateChannel(c)
  PROVE  RoomInv'
<1>1. /\ Is(c, "channels") /\ ~Is(c, "idle")
      /\ UNCHANGED <<roomCache, fills, late, requests, joined>>
  BY DEF UpdateChannel, Is
<1>2. PICK t \in roomCall[c].todo :
        \/ /\ StoreRow(t[1], t[2] \cup {roomCall[c].user}, t[2])
           /\ Move(c, "channelCache", t[1], t[2] \cup {roomCall[c].user}, roomCall[c].todo \ {t})
        \/ /\ Move(c, "channels", roomCall[c].room, roomCall[c].row, roomCall[c].todo \ {t})
           /\ UNCHANGED <<roomTable, overwritten, everMember, unwritten>>
  BY DEF UpdateChannel
<1>3. TablesKept /\ CallInv(c)
  BY Tables, EachCall
<1>4. PICK rest \in SUBSET (RoomIds \X Rows) :
        /\ rest = roomCall[c].todo \ {t}
        /\ \A s \in rest : s[1] \in RoomIds /\ s[2] \subseteq known[s[1]]
  <2>1. /\ roomCall[c].todo \in SUBSET (RoomIds \X Rows)
        /\ \A s \in roomCall[c].todo : s[2] \subseteq known[s[1]]
    BY <1>1, <1>3, CallTyped DEF CallInv
  <2>2. roomCall[c].todo \ {t} \in SUBSET (RoomIds \X Rows)
    BY <2>1
  <2>3. \A s \in RoomIds \X Rows : s[1] \in RoomIds
    OBVIOUS
  <2> QED
    BY <2>1, <2>2, <2>3
<1>5. PICK room \in RoomIds, row \in Rows : room = t[1] /\ row = t[2] \cup {roomCall[c].user}
  BY <1>1, <1>2, CallTyped DEF Rows, NoRoom
<1>6. roomCall[c].avatar \/ roomCall[c].user \in known[roomCall[c].home]
  BY <1>1, <1>3 DEF CallInv, Is
<1>7. ~roomCall[c].avatar /\ roomCall[c].home \in RoomIds
  BY <1>1, <1>3, CallTyped DEF CallInv, Is
<1>8. CASE /\ StoreRow(t[1], t[2] \cup {roomCall[c].user}, t[2])
           /\ Move(c, "channelCache", t[1], t[2] \cup {roomCall[c].user}, roomCall[c].todo \ {t})
  <2>1. row \in SUBSET Users /\ t[2] \in SUBSET row
    BY <1>5 DEF Rows
  <2>2. StoreRow(room, row, t[2])
    BY <1>5, <1>8
  <2>3. /\ roomTable' \in [RoomIds -> SUBSET Users] /\ overwritten' \subseteq RoomIds \X Users
        /\ everMember' \in [RoomIds -> SUBSET Users] /\ unwritten' \subseteq RoomIds \X Users
        /\ \A q \in RoomIds : roomTable'[q] \subseteq known'[q]
        /\ \A q \in RoomIds : known[q] \subseteq known'[q]
        /\ row \subseteq known'[room]
        /\ MembersKept'
    BY <2>1, <2>2, StoreKeeps
  <2>4. TablesKept'
    BY <1>1, <1>3, <2>3 DEF TablesKept, AdmittedWasMember, JoinedWereMembers
  <2>5. Move(c, "channelCache", room, row, rest) /\ "channelCache" \in RoomPC
    BY <1>4, <1>5, <1>8 DEF RoomPC
  <2>6. /\ roomCall' \in [RoomCalls -> {NoCall} \cup Calls]
        /\ roomCall'[c].pc = "channelCache" /\ roomCall'[c].room = room /\ roomCall'[c].row = row
        /\ roomCall'[c].todo = rest
        /\ roomCall'[c].user = roomCall[c].user /\ roomCall'[c].avatar = roomCall[c].avatar
        /\ roomCall'[c].home = roomCall[c].home
        /\ \A d \in RoomCalls \ {c} : roomCall'[d] = roomCall[d]
    BY <1>1, <2>5, CallTyped, Moved
  <2>7. CallInv(c)'
    BY <1>4, <1>6, <1>7, <2>3, <2>6 DEF CallInv, Is
  <2> QED
    BY <2>3, <2>4, <2>6, <2>7, OneCallStep
<1>9. CASE /\ Move(c, "channels", roomCall[c].room, roomCall[c].row, roomCall[c].todo \ {t})
           /\ UNCHANGED <<roomTable, overwritten, everMember, unwritten>>
  <2>1. Move(c, "channels", roomCall[c].room, roomCall[c].row, rest) /\ "channels" \in RoomPC
    BY <1>4, <1>9 DEF RoomPC
  <2>2. CallInv(c)'
    BY <1>1, <1>3, <1>4, <1>6, <1>7, <1>9, <2>1, CallTyped, Moved, KnownSame DEF CallInv, Is
  <2> QED
    BY <1>1, <1>3, <1>9, <2>1, <2>2, CallTyped, Moved, QuietMove DEF TablesKept, roomHistory
<1> QED
  BY <1>2, <1>8, <1>9

LEMMA SetChannelStep ==
  ASSUME RoomInv, NEW c \in RoomCalls, SetChannel(c)
  PROVE  RoomInv'
<1>1. /\ Is(c, "channelCache") /\ ~Is(c, "idle")
      /\ roomCache' \in {roomCache, [roomCache EXCEPT ![roomCall[c].room] = roomCall[c].row]}
      /\ Move(c, "channels", roomCall[c].room, roomCall[c].row, roomCall[c].todo)
      /\ UNCHANGED <<roomTable, fills, late, requests, roomHistory>>
  BY DEF SetChannel, Go, Is
<1>2. CallInv(c) /\ TablesKept' /\ UNCHANGED known
  BY <1>1, EachCall, CachedWasMember
<1>3. \A r \in RoomIds : known[r] \subseteq known'[r]
  BY <1>2
<1>4. "channels" \in RoomPC
  BY DEF RoomPC
<1>5. CallInv(c)'
  BY <1>1, <1>2, <1>4, CallTyped, Moved DEF CallInv, Is, roomHistory
<1> QED
  BY <1>1, <1>2, <1>3, <1>4, <1>5, CallTyped, Moved, OneCallStep

\* Who is told of success has been in the row of the room by then.
LEMMA AnswerStep ==
  ASSUME RoomInv, NEW c \in RoomCalls, Answer(c)
  PROVE  RoomInv'
<1>1. /\ Is(c, "channels") /\ ~Is(c, "idle") /\ End(c)
      /\ joined' = joined \cup {<<roomCall[c].home, roomCall[c].user>>}
      /\ UNCHANGED <<roomStore, requests, overwritten, everMember, unwritten, known>>
  BY KnownSame DEF Answer, Is
<1>2. TablesKept /\ CallInv(c)
  BY Tables, EachCall
<1>3. /\ roomCall[c].home \in RoomIds /\ roomCall[c].user \in Users
      /\ roomCall[c].user \in known[roomCall[c].home]
  BY <1>1, <1>2, CallTyped DEF CallInv, Is
<1>4. joined' \subseteq RoomIds \X Users /\ JoinedWereMembers'
  BY <1>1, <1>2, <1>3 DEF TablesKept, JoinedWereMembers
<1>5. TablesKept'
  BY <1>1, <1>2, <1>4 DEF TablesKept, roomStore, AdmittedWasMember, MembersKept
<1> QED
  BY <1>1, <1>5, Ended, IdleCall, OneCallStep

LEMMA FailCallStep ==
  ASSUME RoomInv, NEW c \in RoomCalls, FailCall(c)
  PROVE  RoomInv'
<1>1. /\ ~Is(c, "idle") /\ End(c) /\ late' \subseteq late \cup {c}
      /\ UNCHANGED <<roomTable, roomCache, fills, requests, roomHistory>>
  BY DEF FailCall
<1> QED
  BY <1>1, Tables, Ended, IdleCall, QuietMove DEF TablesKept

LEMMA RoomStep == RoomInv /\ [RoomNext]_roomVars => RoomInv'
<1> SUFFICES ASSUME RoomInv, [RoomNext]_roomVars
             PROVE  RoomInv'
  OBVIOUS
<1>1. CASE UNCHANGED roomVars
  <2>1. TablesKept' /\ UNCHANGED <<roomCall, known>>
    BY <1>1, Tables, KnownSame
    DEF roomVars, roomStore, roomHistory, TablesKept, AdmittedWasMember, MembersKept,
        JoinedWereMembers
  <2> QED
    BY <2>1, TableStep
<1>2. CASE RoomNext
  BY <1>2, CreateRoomStep, CacheStep, BeginStep, IsRoomMemberStep, AppendMemberStep,
     UpdateRoomStep, SetRoomStep,
     ListRoomsByNamePrefixStep, UpdateChannelStep, SetChannelStep, AnswerStep, FailCallStep
  DEF RoomNext, CallStep
<1> QED
  BY <1>1, <1>2

\* The invariant of rooms, their cache and the requests on them holds always.
THEOREM RoomInvariant == RoomSpec => []RoomInv
<1> QED
  BY RoomInitial, RoomStep, PTL DEF RoomSpec

\* The cache IsRoomMember answers from admits nobody who was never a member: not
\* after a failed write, and not through a late goroutine, but for the user of a join
\* whose goroutine shared the object it changed.
THEOREM NobodyElseAdmitted == RoomSpec => []AdmittedWasMember
<1>1. RoomInv => AdmittedWasMember
  BY DEF RoomInv
<1> QED
  BY <1>1, RoomInvariant, PTL

\* Who joined with success is a member, was lost to a write over an unread row, or was
\* found in the cache before any row held the user.
THEOREM NoJoinVanishes == RoomSpec => []JoinsAddUp
<1>1. RoomInv => JoinsAddUp
  <2> SUFFICES ASSUME RoomInv, NEW j \in joined
               PROVE  j[2] \in roomTable[j[1]] \/ j \in overwritten \cup unwritten
    BY DEF JoinsAddUp
  <2>1. j = <<j[1], j[2]>> /\ j[1] \in RoomIds /\ j[2] \in known[j[1]]
    BY DEF RoomInv, RoomTypeOK, JoinedWereMembers
  <2>2. j[2] \in everMember[j[1]] \/ <<j[1], j[2]>> \in unwritten
    BY <2>1 DEF known
  <2> QED
    BY <2>1, <2>2 DEF RoomInv, MembersKept
<1> QED
  BY <1>1, RoomInvariant, PTL

-----------------------------------------------------------------------------
(* The parts side by side *)

LEMMA PartsInitial == MCInit => AccountInit /\ CodeInit /\ RoomInit
  BY DEF MCInit

LEMMA PartsStep ==
  [MCNext]_allVars => [AccountNext]_accountVars /\ [CodeNext]_codeVars /\ [RoomNext]_roomVars
  BY DEF MCNext, allVars, AccountPart, RotationPart

\* A behaviour of the runs is one of each component, so what is proved of the
\* components holds of the runs.
THEOREM MembersAreComponents == MCSpec => AccountSpec /\ CodeSpec /\ RoomSpec
  BY PartsInitial, PartsStep, PTL DEF MCSpec, AccountSpec, CodeSpec, RoomSpec

\* The types of the three parts, in the composition the runs check.
THEOREM MembersTypeCorrect == MCSpec => []MembersTypeOK
<1>1. AccountInv /\ CodeInv /\ RoomInv => MembersTypeOK
  BY DEF AccountInv, CodeInv, RoomInv, MembersTypeOK
<1> QED
  BY <1>1, MembersAreComponents, AccountInvariant, CodeInvariant, RoomInvariant, PTL

\* What the runs check of the three parts, for any number of requests, users, rooms
\* and channels: sign-ins survive rotation, tokens and codes end, the cache admits
\* former members only, and no join vanishes unseen.
THEOREM MembersAreSafe ==
  MCSpec => /\ [](SessionSurvivesRotation /\ NoRequestPastTwoLives)
            /\ [](AcceptedTogether /\ FewCodesAtOnce /\ TriesAreBounded)
            /\ [](AdmittedWasMember /\ JoinsAddUp)
  BY MembersAreComponents, NoSessionLost, AccessEnds, NoLateAcceptance, CodesAreFew,
     TriesEnd, NobodyElseAdmitted, NoJoinVanishes, PTL
=============================================================================
