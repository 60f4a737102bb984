-------------------------------- MODULE MCMembers --------------------------------
(***************************************************************************)
(* Accounts, the codes of their second factor, and the members of rooms:   *)
(* parts that share no row.  A behaviour runs one of them, so that the run *)
(* has the sum of their states and not the product.                        *)
(***************************************************************************)
EXTENDS Accounts, TwoFactor, Rooms, TLC

VARIABLE part
allVars == <<accountVars, codeVars, roomVars, part>>

MCInit ==
    /\ part \in {"account", "rotation", "codes", "rooms"}
    /\ AccountInit /\ CodeInit /\ RoomInit
    /\ twoFAEnabled => part \in {"account", "rotation"}

\* The account twice, for the same reason: with one sign-in in force and its cached
\* sessions, and with two of them while no access token is cached.
AccountPart  == AccountNext /\ Cardinality(signedIn') <= 1
RotationPart == AccountNext /\ Cardinality(signedIn') <= 2 /\ UNCHANGED cachedUntil

MCNext ==
    \/ part = "account" /\ AccountPart /\ UNCHANGED <<codeVars, roomVars, part>>
    \/ part = "rotation" /\ RotationPart /\ UNCHANGED <<codeVars, roomVars, part>>
    \/ part = "codes" /\ CodeNext /\ UNCHANGED <<accountVars, roomVars, part>>
    \/ part = "rooms" /\ RoomNext /\ UNCHANGED <<accountVars, codeVars, part>>

MCSpec == MCInit /\ [][MCNext]_allVars

\* Requests and users are interchangeable, and no property of the run is temporal.
Symmetry ==
    Permutations(AuthCalls) \cup Permutations(CodeCalls) \cup Permutations(RoomCalls)
        \cup Permutations(Users)

CONSTANTS r1, r2

\* r2 is a channel of r1.
MCRoomIds    == {r1, r2}
MCChannelsOf == (r1 :> {r2}) @@ (r2 :> {})

\* The type invariants of the three parts.
MembersTypeOK == AccountTypeOK /\ CodeTypeOK /\ RoomTypeOK
=============================================================================
