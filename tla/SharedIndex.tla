------------------------------ MODULE SharedIndex ------------------------------
(***************************************************************************)
(* The pattern ConnectionManager uses twice, for users and for rooms: a    *)
(* sync.Map from a key to a heap object that holds a mutex and a map of    *)
(* clients.  A client is added with LoadOrStore followed by an insert under *)
(* the object's lock, and removed with Load, a delete under the lock and,  *)
(* when the object was left empty, a Delete of the key OUTSIDE the lock.   *)
(* One operation of the sync.Map or one critical section is one step.      *)
(*                                                                         *)
(* A client is added at most once and removed at most once, so the object  *)
(* LoadOrStore may allocate for a client is named after the client.        *)
(***************************************************************************)
EXTENDS FiniteSets

CONSTANTS
    Clients,
    Keys,
    KeyOf,          \* the key of each client: its user, or its room
    Unstable        \* clients whose ConnID() differs on every call (SSE)

Nil == "nil"

ASSUME IndexAssumption ==
    /\ KeyOf \in [Clients -> Keys]
    /\ Unstable \subseteq Clients
    /\ Nil \notin Clients

VARIABLES
    entry,          \* the sync.Map: the object stored under each key, or Nil
    members,        \* the clients in each object
    add,            \* where each client is in its registration
    addRef,         \* the object the registration holds a pointer to
    rem,            \* where each client is in its removal
    remRef,         \* the object the removal holds a pointer to
    raced,          \* history: registrations that overlapped a removal
    early           \* history: removals that began before registration ended

indexVars == <<entry, members, add, addRef, rem, remRef, raced, early>>

AddPC == {"out", "loaded", "in"}
RemPC == {"no", "delete", "drop", "gone"}

Peers(c)     == {d \in Clients : KeyOf[d] = KeyOf[c]}
Reachable(k) == IF entry[k] = Nil THEN {} ELSE members[entry[k]]
Found(c)     == c \in Reachable(KeyOf[c])

Init ==
    /\ entry = [k \in Keys |-> Nil]
    /\ members = [c \in Clients |-> {}]
    /\ add = [c \in Clients |-> "out"]
    /\ addRef = [c \in Clients |-> Nil]
    /\ rem = [c \in Clients |-> "no"]
    /\ remRef = [c \in Clients |-> Nil]
    /\ raced = {} /\ early = {}

-----------------------------------------------------------------------------
(* Mutants *)

\* Mutant of LoadOrStore: Store, a fresh object every time.
StoreFresh(c) ==
    /\ add[c] = "out"
    /\ entry' = [entry EXCEPT ![KeyOf[c]] = c]
    /\ addRef' = [addRef EXCEPT ![c] = c]
    /\ add' = [add EXCEPT ![c] = "loaded"]
    /\ UNCHANGED <<members, rem, remRef, raced, early>>

\* Mutant of Load: the ok result is not looked at.
LoadUnchecked(c) ==
    /\ rem[c] = "no"
    /\ remRef' = [remRef EXCEPT ![c] = entry[KeyOf[c]]]
    /\ rem' = [rem EXCEPT ![c] = "delete"]
    /\ UNCHANGED <<entry, members, add, addRef, raced, early>>

\* Mutant of Delete: every ConnID() differs from the one inserted under.
DeleteUnstable(c) ==
    /\ rem[c] = "delete"
    /\ remRef' = [remRef EXCEPT ![c] = Nil]
    /\ rem' = [rem EXCEPT ![c] = IF members[remRef[c]] = {} THEN "drop" ELSE "gone"]
    /\ UNCHANGED <<entry, members, add, addRef, raced, early>>

\* Mutant of Delete: emptiness is computed before the client is deleted.
DeleteEmptyFirst(c) ==
    /\ rem[c] = "delete"
    /\ members' = [members EXCEPT ![remRef[c]] = @ \ ({c} \ Unstable)]
    /\ remRef' = [remRef EXCEPT ![c] = Nil]
    /\ rem' = [rem EXCEPT ![c] = IF members[remRef[c]] = {} THEN "drop" ELSE "gone"]
    /\ UNCHANGED <<entry, add, addRef, raced, early>>

-----------------------------------------------------------------------------
(* Actions *)

\* sync.Map.LoadOrStore: the stored object, or a new empty one.
LoadOrStore(c) ==
    LET k == KeyOf[c]
        o == IF entry[k] = Nil THEN c ELSE entry[k]
    IN  /\ add[c] = "out"
        /\ entry' = [entry EXCEPT ![k] = o]
        /\ addRef' = [addRef EXCEPT ![c] = o]
        /\ add' = [add EXCEPT ![c] = "loaded"]
        /\ raced' = IF \E d \in Peers(c) : rem[d] \in {"delete", "drop"}
                    THEN raced \cup {c} ELSE raced
        /\ UNCHANGED <<members, rem, remRef, early>>

\* The insert under the object's lock.
Insert(c) ==
    /\ add[c] = "loaded"
    /\ members' = [members EXCEPT ![addRef[c]] = @ \cup {c}]
    /\ addRef' = [addRef EXCEPT ![c] = Nil]
    /\ add' = [add EXCEPT ![c] = "in"]
    /\ UNCHANGED <<entry, rem, remRef, raced, early>>

\* sync.Map.Load: without an object there is nothing to remove.
Load(c) ==
    LET o == entry[KeyOf[c]]
    IN  /\ rem[c] = "no"
        /\ remRef' = [remRef EXCEPT ![c] = o]
        /\ rem' = [rem EXCEPT ![c] = IF o = Nil THEN "gone" ELSE "delete"]
        /\ raced' = IF o = Nil THEN raced
                    ELSE raced \cup {d \in Peers(c) : add[d] = "loaded"}
        /\ early' = IF add[c] = "in" THEN early ELSE early \cup {c}
        /\ UNCHANGED <<entry, members, add, addRef>>

\* The delete under the lock removes the client, if ConnID() still gives the
\* key it was inserted under, and notes whether the object is empty now.
Delete(c) ==
    LET left == members[remRef[c]] \ ({c} \ Unstable)
    IN  /\ rem[c] = "delete"
        /\ members' = [members EXCEPT ![remRef[c]] = left]
        /\ remRef' = [remRef EXCEPT ![c] = Nil]
        /\ rem' = [rem EXCEPT ![c] = IF left = {} THEN "drop" ELSE "gone"]
        /\ UNCHANGED <<entry, add, addRef, raced, early>>

\* sync.Map.Delete of the key, after the lock was released: it drops whatever
\* object is stored under the key by now.
Drop(c) ==
    /\ rem[c] = "drop"
    /\ entry' = [entry EXCEPT ![KeyOf[c]] = Nil]
    /\ rem' = [rem EXCEPT ![c] = "gone"]
    /\ UNCHANGED <<members, add, addRef, remRef, raced, early>>

Next == \E c \in Clients : \/ LoadOrStore(c) \/ Insert(c)
                           \/ Load(c) \/ Delete(c) \/ Drop(c)

Spec == Init /\ [][Next]_indexVars

-----------------------------------------------------------------------------
(* Properties *)

\* Type correctness: a registration that loaded an object, and a removal that
\* is about to use one, hold a pointer and not Nil.
TypeOK ==
    /\ entry \in [Keys -> Clients \cup {Nil}]
    /\ members \in [Clients -> SUBSET Clients]
    /\ add \in [Clients -> AddPC]
    /\ addRef \in [Clients -> Clients \cup {Nil}]
    /\ rem \in [Clients -> RemPC]
    /\ remRef \in [Clients -> Clients \cup {Nil}]
    /\ raced \subseteq Clients /\ early \subseteq Clients
    /\ \A c \in Clients : /\ add[c] = "loaded" => addRef[c] # Nil
                          /\ rem[c] = "delete" => remRef[c] # Nil

\* A client that finished its registration and is not being removed is found
\* under its key, unless a removal of another client with the same key was
\* under way between its LoadOrStore and its Insert: only that window can lose
\* a registration, no matter what other clients do before and after.
RegisteredIsFound ==
    \A c \in Clients \ raced : add[c] = "in" /\ rem[c] = "no" => Found(c)

\* A client with a stable ConnID whose removal began after its registration had
\* ended is no longer found once the removal is over, whatever objects were
\* dropped and allocated under its key in the meantime.
RemovedIsGone ==
    \A c \in Clients \ (early \cup Unstable) : rem[c] = "gone" => ~Found(c)

\* No key keeps an empty object for good: an empty object that is still stored
\* belongs to an operation that is not finished.
NoEmptyObject ==
    \A k \in Keys : entry[k] # Nil /\ Reachable(k) = {} =>
        \E c \in Clients : /\ KeyOf[c] = k
                           /\ add[c] = "loaded" \/ rem[c] = "drop"

-----------------------------------------------------------------------------
(* The inductive invariant behind them *)

\* An object is stored under the key of the client it was allocated for, and
\* every pointer to it is held by clients of that key.
Keyed ==
    /\ \A k \in Keys : entry[k] # Nil =>
            KeyOf[entry[k]] = k /\ add[entry[k]] # "out"
    /\ \A c \in Clients : add[c] = "loaded" =>
            KeyOf[addRef[c]] = KeyOf[c] /\ add[addRef[c]] # "out"
    /\ \A c \in Clients : rem[c] = "delete" => KeyOf[remRef[c]] = KeyOf[c]

\* Objects not allocated yet are empty; a client is in one object at most, and
\* only once it was inserted.
Placed ==
    /\ \A o \in Clients : add[o] = "out" => members[o] = {}
    /\ \A o \in Clients : \A c \in members[o] : add[c] = "in"
    /\ \A o, p \in Clients : members[o] \cap members[p] # {} => o = p

\* While a registration is open the entry stays what it loaded, and a client in
\* the index is in the object any pending removal will look at.
Protected ==
    \A c \in Clients \ raced :
        /\ add[c] = "loaded" =>
               /\ addRef[c] = entry[KeyOf[c]]
               /\ \A d \in Peers(c) : rem[d] \notin {"delete", "drop"}
        /\ add[c] = "in" /\ rem[c] = "no" =>
               /\ Found(c)
               /\ \A d \in Peers(c) :
                      /\ rem[d] # "drop"
                      /\ rem[d] = "delete" => remRef[d] = entry[KeyOf[c]]

\* A removal that began after the registration holds the object the client is
\* found in, as long as it is found at all.
Leaving ==
    \A c \in Clients \ early :
        /\ rem[c] # "no" => add[c] = "in"
        /\ rem[c] = "delete" /\ Found(c) => remRef[c] = entry[KeyOf[c]]
        /\ rem[c] \in {"drop", "gone"} /\ c \notin Unstable => ~Found(c)

\* An empty stored object is about to be filled or about to be dropped.
Pending ==
    \A k \in Keys : entry[k] # Nil /\ Reachable(k) = {} =>
        \E c \in Clients : /\ KeyOf[c] = k
                           /\ \/ add[c] = "loaded" /\ addRef[c] = entry[k]
                              \/ rem[c] = "drop"

IndexInv == TypeOK /\ Keyed /\ Placed /\ Protected /\ Leaving /\ Pending
=============================================================================
