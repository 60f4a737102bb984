-------------------------------- MODULE TwoFactor --------------------------------
(***************************************************************************)
(* The codes of the second factor of one account: the request that sends   *)
(* one and the request that verifies one, each a read of the table and,    *)
(* later, a write.  No route calls the first of them.                      *)
(***************************************************************************)
EXTENDS Naturals, FiniteSets, Sequences

CONSTANTS
    CodeCalls,      \* requests under way at the same time
    MaxCodes,       \* bound: rows of two_fa_codes
    RequestLimit,   \* 3 codes within 15 minutes
    TryLimit,       \* 3 wrong tries of a code
    RecentLimit     \* 5 tried codes within 10 minutes

ASSUME CodeAssumption ==
    /\ IsFiniteSet(CodeCalls) /\ MaxCodes \in Nat
    /\ {RequestLimit, TryLimit, RecentLimit} \subseteq Nat \ {0}

VARIABLES
    codes,          \* two_fa_codes, in the order of created_at
    codeCall,       \* what each request has read
    accepted,       \* history: how often each code was accepted
    tries           \* history: how often a wrong code was tried against it

codeHistory == <<accepted, tries>>
codeVars    == <<codes, codeCall, codeHistory>>

Ages   == {"fresh", "expired", "old"}   \* old: out of every window
Code   == [attempts : 0..TryLimit, used : BOOLEAN, age : Ages]
CodeRow(attempts, used, age) == [attempts |-> attempts, used |-> used, age |-> age]
NoRead == [pc |-> "idle"]
ToInsert == [pc |-> "insert"]
ToSelect == [pc |-> "select"]
ToCompare(k) == [pc |-> "compare", code |-> k, attempts |-> codes[k].attempts]
Recent == {k \in DOMAIN codes : codes[k].age # "old"}
Fresh  == {k \in DOMAIN codes : codes[k].age = "fresh"}
Open   == {k \in Fresh : ~codes[k].used}

CodeInit ==
    /\ codes = <<>> /\ accepted = <<>> /\ tries = <<>>
    /\ codeCall = [c \in CodeCalls |-> NoRead]

\* Mutant: only the codes that can still be used count.
CountOpenCodes(c) ==
    /\ codeCall[c] = NoRead /\ Cardinality(Open) < RequestLimit
    /\ codeCall' = [codeCall EXCEPT ![c] = ToInsert]
    /\ UNCHANGED <<codes, codeHistory>>

CountRequests(c) ==
    /\ codeCall[c] = NoRead /\ Cardinality(Recent) < RequestLimit
    /\ codeCall' = [codeCall EXCEPT ![c] = ToInsert]
    /\ UNCHANGED <<codes, codeHistory>>

InsertTwoFaCode(c) ==
    /\ codeCall[c].pc = "insert" /\ Len(codes) < MaxCodes
    /\ codes' = Append(codes, CodeRow(0, FALSE, "fresh"))
    /\ accepted' = Append(accepted, 0) /\ tries' = Append(tries, 0)
    /\ codeCall' = [codeCall EXCEPT ![c] = NoRead]

\* The tries of 10 minutes, by code and not by try: a code that has expired may be
\* older than that.
CountAttempts(c) ==
    /\ codeCall[c] = NoRead
    /\ Cardinality({k \in Fresh : codes[k].attempts > 0}) < RecentLimit
    /\ codeCall' = [codeCall EXCEPT ![c] = ToSelect]
    /\ UNCHANGED <<codes, codeHistory>>

\* Mutant: the query does not ask whether the code was used.
SelectAnyCode(c) ==
    /\ codeCall[c] = ToSelect
    /\ \E k \in Fresh :
           /\ \A i \in Fresh : i <= k
           /\ codes[k].attempts < TryLimit
           /\ codeCall' = [codeCall EXCEPT ![c] = ToCompare(k)]
    /\ UNCHANGED <<codes, codeHistory>>

\* ORDER BY created_at DESC LIMIT 1
Newest(k) == k \in Open /\ \A i \in Open : i <= k

\* Mutant: the limit on the tries of a code is dropped.
SelectPastLimit(c) ==
    /\ codeCall[c] = ToSelect
    /\ \E k \in Open : Newest(k) /\ codeCall' = [codeCall EXCEPT ![c] = ToCompare(k)]
    /\ UNCHANGED <<codes, codeHistory>>

\* The newest open code.
SelectCode(c) ==
    /\ codeCall[c] = ToSelect
    /\ \E k \in Open :
           /\ Newest(k) /\ codes[k].attempts < TryLimit
           /\ codeCall' = [codeCall EXCEPT ![c] = ToCompare(k)]
    /\ UNCHANGED <<codes, codeHistory>>

\* Mutant: the number is written as it was read.
WrongCodeUncounted(c) ==
    /\ codeCall[c].pc = "compare"
    /\ codes' = [codes EXCEPT ![codeCall[c].code] = CodeRow(codeCall[c].attempts, @.used, @.age)]
    /\ tries' = [tries EXCEPT ![codeCall[c].code] = @ + 1]
    /\ codeCall' = [codeCall EXCEPT ![c] = NoRead]
    /\ UNCHANGED accepted

\* The number written is the one that was read, plus one: a slow request sets it
\* back.
WrongCode(c) ==
    /\ codeCall[c].pc = "compare"
    /\ codes' = [codes EXCEPT ![codeCall[c].code] =
                   CodeRow(codeCall[c].attempts + 1, @.used, @.age)]
    /\ tries' = [tries EXCEPT ![codeCall[c].code] = @ + 1]
    /\ codeCall' = [codeCall EXCEPT ![c] = NoRead]
    /\ UNCHANGED accepted

RightCode(c) ==
    /\ codeCall[c].pc = "compare"
    /\ codes' = [codes EXCEPT ![codeCall[c].code] = CodeRow(@.attempts, TRUE, @.age)]
    /\ accepted' = [accepted EXCEPT ![codeCall[c].code] = @ + 1]
    /\ codeCall' = [codeCall EXCEPT ![c] = NoRead]
    /\ UNCHANGED tries

\* A query fails or finds no code to compare, or the process stops.
FailCode(c) ==
    /\ codeCall[c] # NoRead
    /\ codeCall' = [codeCall EXCEPT ![c] = NoRead]
    /\ UNCHANGED <<codes, codeHistory>>

Age(k) ==
    /\ codes[k].age # "old"
    /\ codes' = [codes EXCEPT ![k] =
                   CodeRow(@.attempts, @.used, IF @.age = "fresh" THEN "expired" ELSE "old")]
    /\ UNCHANGED <<codeCall, codeHistory>>

CodeNext ==
    \/ \E c \in CodeCalls :
           CountRequests(c) \/ InsertTwoFaCode(c) \/ CountAttempts(c) \/ SelectCode(c)
           \/ WrongCode(c) \/ RightCode(c) \/ FailCode(c)
    \/ \E k \in DOMAIN codes : Age(k)

CodeSpec == CodeInit /\ [][CodeNext]_codeVars

-----------------------------------------------------------------------------
(* Properties *)

CodeTypeOK ==
    /\ codes \in Seq(Code) /\ Len(codes) <= MaxCodes
    /\ accepted \in Seq(Nat) /\ Len(accepted) = Len(codes)
    /\ tries \in Seq(Nat) /\ Len(tries) = Len(codes)
    /\ codeCall \in [CodeCalls -> {NoRead, ToInsert, ToSelect} \cup
          [pc : {"compare"}, code : DOMAIN codes, attempts : 0..TryLimit - 1]]

\* A code is accepted more than once only by requests that were under way
\* together, and each of them once.
AcceptedTogether ==
    \A k \in DOMAIN codes :
        accepted[k] + Cardinality({c \in CodeCalls :
                codeCall[c].pc = "compare" /\ codeCall[c].code = k /\ codes[k].used})
            <= Cardinality(CodeCalls)

\* The tries n requests can make of which l would be allowed one after the other:
\* one request holds the number it has read while the others use theirs up, then
\* writes it back plus one.  It is the binomial of n + l over l, less one.
TriesOf[p \in Nat \X Nat] ==
    IF p[1] = 0 \/ p[2] = 0 THEN 0
    ELSE TriesOf[<<p[1] - 1, p[2]>>] + 1 + TriesOf[<<p[1], p[2] - 1>>]

\* Wrong tries that overlap count as one and a slow one sets the number back, but
\* a code never takes more of them than that: they do not go on without end.
TriesAreBounded ==
    \A k \in DOMAIN codes : tries[k] <= TriesOf[<<Cardinality(CodeCalls), TryLimit>>]

\* However many requests count before any inserts, the codes of one window exceed
\* the limit by fewer than there are requests under way.
FewCodesAtOnce ==
    Cardinality(Recent) < RequestLimit + Cardinality(CodeCalls)
=============================================================================
