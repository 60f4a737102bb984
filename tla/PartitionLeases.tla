----------------------------- MODULE PartitionLeases -----------------------------
(***************************************************************************)
(* The leases over the partitions of the event log: one row a partition    *)
(* with its owner and the time of its last heartbeat.  The coordinator     *)
(* tries to acquire every partition, the heartbeat worker renews those its *)
(* node was given, the failover drops the rows that are too old.  The      *)
(* application runs only the coordinator; the model is of the three classes *)
(* used together, over the table they name.                                *)
(***************************************************************************)
EXTENDS Naturals

CONSTANTS
    LeaseNodes,
    Partitions,     \* 4
    NoNode,         \* model value: the partition has no row
    LeaseTicks      \* lease time in heartbeat periods: 30 s / 10 s

ASSUME LeaseAssumption == NoNode \notin LeaseNodes /\ LeaseTicks \in Nat \ {0}

VARIABLES
    owner,      \* node_id of each partition's row
    age,        \* periods since its heartbeat_at
    claims,     \* the partitions each node was told it acquired, and heartbeats
    silence     \* history: periods since the table took a heartbeat of the node

leaseVars == <<owner, age, claims, silence>>

Expired(p) == age[p] > LeaseTicks
Ages == 0..LeaseTicks + 1

LeaseInit ==
    /\ owner = [p \in Partitions |-> NoNode]
    /\ age = [p \in Partitions |-> 0]
    /\ claims = [n \in LeaseNodes |-> {}]
    /\ silence = [n \in LeaseNodes |-> [p \in Partitions |-> LeaseTicks + 1]]

Heard(n, p) ==
    /\ age' = [age EXCEPT ![p] = 0]
    /\ silence' = [silence EXCEPT ![n][p] = 0]

\* Mutant: ON CONFLICT DO UPDATE, as LeaseRepository.AcquireLease has it.
AcquireLease(n, p) ==
    /\ owner' = [owner EXCEPT ![p] = n]
    /\ claims' = [claims EXCEPT ![n] = @ \cup {p}]
    /\ Heard(n, p)

\* INSERT ... ON CONFLICT DO NOTHING: true only for the node whose row went in.
\* A failed statement changes nothing either.
AcquirePartition(n, p) ==
    /\ owner[p] = NoNode
    /\ owner' = [owner EXCEPT ![p] = n]
    /\ claims' = [claims EXCEPT ![n] = @ \cup {p}]
    /\ Heard(n, p)

\* No row is no error: a node that lost the partition goes on renewing it.
RenewLease(n, p) ==
    /\ p \in claims[n]
    /\ IF owner[p] = n THEN Heard(n, p) ELSE UNCHANGED <<age, silence>>
    /\ UNCHANGED <<owner, claims>>

ReleasePartition(n, p) ==
    /\ p \in claims[n]
    /\ owner' = [owner EXCEPT ![p] = IF @ = n THEN NoNode ELSE @]
    /\ claims' = [claims EXCEPT ![n] = @ \ {p}]
    /\ UNCHANGED <<age, silence>>

ReleaseExpiredLeases ==
    /\ owner' = [p \in Partitions |-> IF Expired(p) THEN NoNode ELSE owner[p]]
    /\ UNCHANGED <<age, claims, silence>>

\* The node comes back under its name: its rows stay, it no longer knows them.
NodeRestarts(n) ==
    /\ claims' = [claims EXCEPT ![n] = {}]
    /\ UNCHANGED <<owner, age, silence>>

Tick ==
    /\ age' = [p \in Partitions |-> IF Expired(p) THEN age[p] ELSE age[p] + 1]
    /\ silence' = [n \in LeaseNodes |-> [p \in Partitions |->
                     IF silence[n][p] > LeaseTicks THEN silence[n][p] ELSE silence[n][p] + 1]]
    /\ UNCHANGED <<owner, claims>>

LeaseNext ==
    \/ \E n \in LeaseNodes, p \in Partitions :
           AcquirePartition(n, p) \/ RenewLease(n, p) \/ ReleasePartition(n, p)
    \/ \E n \in LeaseNodes : NodeRestarts(n)
    \/ ReleaseExpiredLeases \/ Tick

LeaseSpec == LeaseInit /\ [][LeaseNext]_leaseVars

LeaseTypeOK ==
    /\ owner \in [Partitions -> LeaseNodes \cup {NoNode}]
    /\ age \in [Partitions -> Ages]
    /\ claims \in [LeaseNodes -> SUBSET Partitions]
    /\ silence \in [LeaseNodes -> [Partitions -> Ages]]

\* Two nodes may both hold a partition they were told they acquired, but not two
\* whose heartbeats the table took within the lease time.
OneFreshOwner ==
    \A n1, n2 \in LeaseNodes : \A p \in claims[n1] \cap claims[n2] :
        n1 # n2 => silence[n1][p] > LeaseTicks \/ silence[n2][p] > LeaseTicks
=============================================================================
