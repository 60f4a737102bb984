--------------------------- MODULE SharedIndexProofs ---------------------------
(***************************************************************************)
(* SharedIndex for any number of clients and keys: IndexInv is inductive,  *)
(* and the four invariants of the module follow from it.                   *)
(***************************************************************************)
EXTENDS SharedIndex, TLAPS

\* No object is called Nil.
USE IndexAssumption DEF Nil

\* A registration that loads or allocates its object keeps IndexInv.
LEMMA RegisteringKeepsInv ==
    ASSUME IndexInv, NEW c \in Clients, LoadOrStore(c)
    PROVE  IndexInv'
<1>1. TypeOK'
    BY SMTT(30) DEF IndexInv, TypeOK, AddPC, RemPC, LoadOrStore, Peers
<1>2. Keyed'
    BY SMTT(30) DEF IndexInv, TypeOK, AddPC, RemPC, Keyed, LoadOrStore, Peers
<1>3. Placed'
    BY SMTT(30) DEF IndexInv, TypeOK, AddPC, RemPC, Keyed, Placed, LoadOrStore,
       Peers
<1>4. Protected'
    BY SMTT(30) DEF IndexInv, TypeOK, AddPC, RemPC, Keyed, Placed, Protected,
       Peers, Found, Reachable, LoadOrStore
<1>5. Leaving'
    BY SMTT(30) DEF IndexInv, TypeOK, AddPC, RemPC, Keyed, Placed, Leaving,
       Found, Reachable, LoadOrStore, Peers
<1>6. Pending'
    BY SMTT(30) DEF IndexInv, TypeOK, AddPC, RemPC, Keyed, Placed, Pending,
       Reachable, LoadOrStore, Peers
<1>7. QED  BY <1>1, <1>2, <1>3, <1>4, <1>5, <1>6 DEF IndexInv

\* A registration that inserts its client keeps IndexInv.
LEMMA InsertingKeepsInv ==
    ASSUME IndexInv, NEW c \in Clients, Insert(c)
    PROVE  IndexInv'
<1>1. TypeOK'
    BY SMTT(30) DEF IndexInv, TypeOK, AddPC, RemPC, Insert
<1>2. Keyed'
    BY SMTT(30) DEF IndexInv, TypeOK, AddPC, RemPC, Keyed, Insert
<1>3. Placed'
    BY SMTT(30) DEF IndexInv, TypeOK, AddPC, RemPC, Keyed, Placed, Insert
<1>4. Protected'
    BY SMTT(30) DEF IndexInv, TypeOK, AddPC, RemPC, Keyed, Placed, Protected,
       Peers, Found, Reachable, Insert
<1>5. Leaving'
    BY SMTT(30) DEF IndexInv, TypeOK, AddPC, RemPC, Keyed, Placed, Leaving,
       Found, Reachable, Insert
<1>6. Pending'
    BY SMTT(30) DEF IndexInv, TypeOK, AddPC, RemPC, Keyed, Placed, Pending,
       Reachable, Insert
<1>7. QED  BY <1>1, <1>2, <1>3, <1>4, <1>5, <1>6 DEF IndexInv

\* A removal that looks its object up keeps IndexInv.
LEMMA RemovingKeepsInv ==
    ASSUME IndexInv, NEW c \in Clients, Load(c)
    PROVE  IndexInv'
<1>1. TypeOK'
    BY SMTT(30) DEF IndexInv, TypeOK, AddPC, RemPC, Load, Peers
<1>2. Keyed'
    BY SMTT(30) DEF IndexInv, TypeOK, AddPC, RemPC, Keyed, Load, Peers
<1>3. Placed'
    BY SMTT(30) DEF IndexInv, TypeOK, AddPC, RemPC, Keyed, Placed, Load, Peers
<1>4. Protected'
    BY SMTT(30) DEF IndexInv, TypeOK, AddPC, RemPC, Keyed, Placed, Protected,
       Peers, Found, Reachable, Load
<1>5. Leaving'
    BY SMTT(30) DEF IndexInv, TypeOK, AddPC, RemPC, Keyed, Placed, Leaving,
       Found, Reachable, Load, Peers
<1>6. Pending'
    BY SMTT(30) DEF IndexInv, TypeOK, AddPC, RemPC, Keyed, Placed, Pending,
       Reachable, Load, Peers
<1>7. QED  BY <1>1, <1>2, <1>3, <1>4, <1>5, <1>6 DEF IndexInv

\* A removal that deletes its client keeps IndexInv.
LEMMA DeletingKeepsInv ==
    ASSUME IndexInv, NEW c \in Clients, Delete(c)
    PROVE  IndexInv'
<1>1. TypeOK'
    BY SMTT(30) DEF IndexInv, TypeOK, AddPC, RemPC, Delete
<1>2. Keyed'
    BY SMTT(30) DEF IndexInv, TypeOK, AddPC, RemPC, Keyed, Delete
<1>3. Placed'
    BY SMTT(30) DEF IndexInv, TypeOK, AddPC, RemPC, Keyed, Placed, Delete
<1>4. Protected'
    BY SMTT(30) DEF IndexInv, TypeOK, AddPC, RemPC, Keyed, Placed, Protected,
       Peers, Found, Reachable, Delete
<1>5. Leaving'
    BY SMTT(30) DEF IndexInv, TypeOK, AddPC, RemPC, Keyed, Placed, Leaving,
       Found, Reachable, Delete
<1>6. Pending'
    BY SMTT(30) DEF IndexInv, TypeOK, AddPC, RemPC, Keyed, Placed, Pending,
       Reachable, Delete
<1>7. QED  BY <1>1, <1>2, <1>3, <1>4, <1>5, <1>6 DEF IndexInv

\* A removal that drops the key keeps IndexInv.
LEMMA DroppingKeepsInv ==
    ASSUME IndexInv, NEW c \in Clients, Drop(c)
    PROVE  IndexInv'
<1>1. TypeOK'
    BY SMTT(30) DEF IndexInv, TypeOK, AddPC, RemPC, Drop
<1>2. Keyed'
    BY SMTT(30) DEF IndexInv, TypeOK, AddPC, RemPC, Keyed, Drop
<1>3. Placed'
    BY SMTT(30) DEF IndexInv, TypeOK, AddPC, RemPC, Keyed, Placed, Drop
<1>4. Protected'
    BY SMTT(30) DEF IndexInv, TypeOK, AddPC, RemPC, Keyed, Placed, Protected,
       Peers, Found, Reachable, Drop
<1>5. Leaving'
    BY SMTT(30) DEF IndexInv, TypeOK, AddPC, RemPC, Keyed, Placed, Leaving,
       Found, Reachable, Drop
<1>6. Pending'
    BY SMTT(30) DEF IndexInv, TypeOK, AddPC, RemPC, Keyed, Placed, Pending,
       Reachable, Drop
<1>7. QED  BY <1>1, <1>2, <1>3, <1>4, <1>5, <1>6 DEF IndexInv

\* IndexInv holds of every reachable state.
THEOREM IndexInvariant == Spec => []IndexInv
<1>1. Init => IndexInv
    BY DEF Init, IndexInv, TypeOK, AddPC, RemPC, Keyed, Placed, Protected,
           Leaving, Pending, Peers, Found, Reachable
<1>2. IndexInv /\ [Next]_indexVars => IndexInv'
    <2> SUFFICES ASSUME IndexInv, [Next]_indexVars  PROVE IndexInv'
        OBVIOUS
    <2>1. ASSUME NEW c \in Clients, LoadOrStore(c)  PROVE IndexInv'
        BY <2>1, RegisteringKeepsInv
    <2>2. ASSUME NEW c \in Clients, Insert(c)  PROVE IndexInv'
        BY <2>2, InsertingKeepsInv
    <2>3. ASSUME NEW c \in Clients, Load(c)  PROVE IndexInv'
        BY <2>3, RemovingKeepsInv
    <2>4. ASSUME NEW c \in Clients, Delete(c)  PROVE IndexInv'
        BY <2>4, DeletingKeepsInv
    <2>5. ASSUME NEW c \in Clients, Drop(c)  PROVE IndexInv'
        BY <2>5, DroppingKeepsInv
    <2>6. CASE UNCHANGED indexVars
        BY <2>6 DEF indexVars, IndexInv, TypeOK, Keyed, Placed, Protected,
                    Leaving, Pending, Peers, Found, Reachable
    <2>7. QED  BY <2>1, <2>2, <2>3, <2>4, <2>5, <2>6 DEF Next
<1>3. QED  BY <1>1, <1>2, PTL DEF Spec

\* The pointers registrations and removals work with are never Nil when they are
\* used.
THEOREM IndexTypeCorrect == Spec => []TypeOK
<1>1. IndexInv => TypeOK
    BY DEF IndexInv
<1>2. QED  BY <1>1, IndexInvariant, PTL

\* A registration no removal overlapped is never lost.
THEOREM RegistrationIsKept == Spec => []RegisteredIsFound
<1>1. IndexInv => RegisteredIsFound
    BY DEF IndexInv, Protected, RegisteredIsFound
<1>2. QED  BY <1>1, IndexInvariant, PTL

\* A removal that began after the registration leaves nothing behind.
THEOREM RemovalIsFinal == Spec => []RemovedIsGone
<1>1. IndexInv => RemovedIsGone
    BY DEF IndexInv, Leaving, RemovedIsGone
<1>2. QED  BY <1>1, IndexInvariant, PTL

\* Empty objects do not stay in the index.
THEOREM NoObjectLeaks == Spec => []NoEmptyObject
<1>1. IndexInv => NoEmptyObject
    BY DEF IndexInv, Pending, NoEmptyObject
<1>2. QED  BY <1>1, IndexInvariant, PTL
=============================================================================
