------------------------------ MODULE LocksProofs ------------------------------
(***************************************************************************)
(* Proofs about what one process at a time is to hold: the partitions of   *)
(* the event log, for every number of nodes and every lease time, and the  *)
(* resumable uploads, for every number of requests, of chunks and of parts *)
(* of the file, and any number of failures; and about the runs that hold   *)
(* them side by side.                                                      *)
(***************************************************************************)
EXTENDS MCLocks, TLAPS

-----------------------------------------------------------------------------
(* Partition leases *)

\* The table is at least as fresh about a partition as its owner's heartbeats.
OwnerIsHeard ==
    \A n \in LeaseNodes, p \in Partitions : owner[p] = n => age[p] <= silence[n][p]

\* A node that claims a partition and was heard within the lease time owns it.
FreshIsOwner ==
    \A n \in LeaseNodes, p \in Partitions :
        p \in claims[n] /\ silence[n][p] <= LeaseTicks => owner[p] = n

LeaseInv == LeaseTypeOK /\ OwnerIsHeard /\ FreshIsOwner

LEMMA LeaseInitial == LeaseInit => LeaseInv
  BY LeaseAssumption DEF LeaseInit, LeaseInv, LeaseTypeOK, OwnerIsHeard, FreshIsOwner, Ages

\* Every step preserves the invariant.
LEMMA LeaseStep == LeaseInv /\ [LeaseNext]_leaseVars => LeaseInv'
<1> SUFFICES ASSUME LeaseInv, [LeaseNext]_leaseVars
             PROVE  LeaseInv'
  OBVIOUS
<1> USE LeaseAssumption DEF LeaseInv, LeaseTypeOK, OwnerIsHeard, FreshIsOwner, Ages
<1>1. ASSUME NEW n \in LeaseNodes, NEW p \in Partitions, AcquirePartition(n, p)
      PROVE  LeaseInv'
  BY <1>1 DEF AcquirePartition, Heard
<1>2. ASSUME NEW n \in LeaseNodes, NEW p \in Partitions, RenewLease(n, p)
      PROVE  LeaseInv'
  <2>1. CASE owner[p] = n
    <3>1. /\ age' = [age EXCEPT ![p] = 0]
          /\ silence' = [silence EXCEPT ![n][p] = 0]
          /\ UNCHANGED <<owner, claims>>
      BY <1>2, <2>1 DEF RenewLease, Heard
    <3>2. LeaseTypeOK'
      BY <3>1
    <3>3. OwnerIsHeard'
      BY <3>1
    <3>4. FreshIsOwner'
      BY <3>1, <2>1
    <3> QED
      BY <3>2, <3>3, <3>4
  <2>2. CASE owner[p] # n
    BY <1>2, <2>2 DEF RenewLease
  <2> QED
    BY <2>1, <2>2
<1>3. ASSUME NEW n \in LeaseNodes, NEW p \in Partitions, ReleasePartition(n, p)
      PROVE  LeaseInv'
  BY <1>3 DEF ReleasePartition
<1>4. ASSUME NEW n \in LeaseNodes, NodeRestarts(n)
      PROVE  LeaseInv'
  BY <1>4 DEF NodeRestarts
<1>5. CASE ReleaseExpiredLeases
  BY <1>5 DEF ReleaseExpiredLeases, Expired
<1>6. CASE Tick
  BY <1>6 DEF Tick, Expired
<1>7. CASE UNCHANGED leaseVars
  BY <1>7 DEF leaseVars
<1> QED
  BY <1>1, <1>2, <1>3, <1>4, <1>5, <1>6, <1>7 DEF LeaseNext

\* The invariant of the lease table and the claims holds always.
THEOREM LeaseInvariant == LeaseSpec => []LeaseInv
<1> QED
  BY LeaseInitial, LeaseStep, PTL DEF LeaseSpec

\* Type correctness of the leases.
THEOREM LeaseTypeCorrect == LeaseSpec => []LeaseTypeOK
<1>1. LeaseInv => LeaseTypeOK
  BY DEF LeaseInv
<1> QED
  BY <1>1, LeaseInvariant, PTL

\* Of two nodes that both claim a partition the heartbeats of one have been
\* missing for longer than the lease time: acquisition, renewal and failover of
\* Ownership never make two fresh owners.
THEOREM NoTwoFreshOwners == LeaseSpec => []OneFreshOwner
<1>1. LeaseInv => OneFreshOwner
  <2> SUFFICES ASSUME LeaseInv,
                      NEW n1 \in LeaseNodes, NEW n2 \in LeaseNodes,
                      NEW p \in claims[n1] \cap claims[n2], n1 # n2,
                      silence[n1][p] \in Nat, silence[n2][p] \in Nat,
                      silence[n1][p] <= LeaseTicks, silence[n2][p] <= LeaseTicks
               PROVE  FALSE
    BY LeaseAssumption DEF LeaseInv, LeaseTypeOK, OneFreshOwner, Ages
  <2>1. owner[p] = n1 /\ owner[p] = n2
    BY DEF LeaseInv, LeaseTypeOK, FreshIsOwner
  <2> QED
    BY <2>1
<1> QED
  BY <1>1, LeaseInvariant, PTL

-----------------------------------------------------------------------------
(* Uploads *)

\* What a finalizer has found out holds as long as it goes on, though nobody keeps
\* uploads from the chunks meanwhile: no row is overwritten, no object removed.
FoundIsTrue ==
    \A f \in Finalizers :
        /\ final[f] \in {"counted", "present", "hashed"} =>
               got[f] \subseteq rows /\ Cardinality(got[f]) = Total
        /\ final[f] \in {"present", "hashed"} => got[f] \subseteq objects
        /\ final[f] = "hashed" => IsFile(got[f])

UploadInv == UploadTypeOK /\ FoundIsTrue /\ CompletedIsWhole

LEMMA UploadInitial == UploadInit => UploadInv
  BY UploadAssumption
  DEF UploadInit, UploadInv, UploadTypeOK, FoundIsTrue, CompletedIsWhole, FinalPC, Data,
      NoChunk

-----------------------------------------------------------------------------
(* The chunk rows and the objects only grow *)

Grows ==
    /\ rows \subseteq rows'
    /\ \A i \in rows : data'[i] = data[i]
    /\ objects \subseteq objects'

\* What rows hold does not change when others come.
LEMMA FilesStay ==
  ASSUME Grows, NEW read \in SUBSET rows, IsFile(read)
  PROVE  IsFile(read)'
<1>1. \A i \in read : data'[i] = data[i]
  BY DEF Grows
<1>2. UNION {data'[i] : i \in read} = UNION {data[i] : i \in read}
  BY <1>1
<1>3. \A i, j \in read : i < j => \A x \in data'[i], y \in data'[j] : x < y
  BY <1>1 DEF IsFile
<1> QED
  BY <1>2, <1>3 DEF IsFile, Parts

\* A completed upload stays whole.
LEMMA WholeStays ==
  ASSUME Grows, CompletedIsWhole, session' = "completed" => session = "completed"
  PROVE  CompletedIsWhole'
<1> SUFFICES ASSUME session = "completed"
             PROVE  CompletedIsWhole'
  BY DEF CompletedIsWhole
<1>1. PICK read \in SUBSET rows :
          Cardinality(read) = Total /\ IsFile(read) /\ read \subseteq objects
  BY DEF CompletedIsWhole
<1>2. IsFile(read)' /\ read \in SUBSET rows' /\ read \subseteq objects'
  BY <1>1, FilesStay DEF Grows
<1> QED
  BY <1>1, <1>2 DEF CompletedIsWhole

\* A step that leaves the finalizers alone, and lets rows and objects grow.
LEMMA GrowingKeeps ==
  ASSUME UploadInv, UploadTypeOK', Grows, UNCHANGED finalVars,
         session' \in {session, "gone"}
  PROVE  UploadInv'
<1>1. ASSUME NEW f \in Finalizers, final'[f] = "hashed"
      PROVE  IsFile(got[f])'
  <2>1. got' = got /\ final' = final
    BY DEF finalVars
  <2>2. got[f] \in SUBSET rows /\ IsFile(got[f])
    BY <1>1, <2>1 DEF UploadInv, FoundIsTrue
  <2>3. PICK g : g = got[f]
    OBVIOUS
  <2>4. IsFile(g)'
    BY <2>2, <2>3, FilesStay
  <2> QED
    BY <2>1, <2>3, <2>4
<1>2. FoundIsTrue'
  BY <1>1 DEF UploadInv, FoundIsTrue, Grows, finalVars
<1>3. CompletedIsWhole'
  BY WholeStays DEF UploadInv
<1> QED
  BY <1>2, <1>3 DEF UploadInv

\* A step that leaves the rows and the objects alone leaves what they add up to.
LEMMA SameRows ==
  ASSUME rows' = rows, data' = data, objects' = objects
  PROVE  /\ Grows
         /\ \A read : IsFile(read) => IsFile(read)'
<1>1. Grows
  BY DEF Grows
<1>2. ASSUME NEW read, IsFile(read)
      PROVE  IsFile(read)'
  BY <1>2 DEF IsFile, Parts
<1> QED
  BY <1>1, <1>2

\* A step of one finalizer that leaves the tables alone.
LEMMA FinalizerGoes ==
  ASSUME UploadInv, NEW f \in Finalizers, NEW pc \in FinalPC, NEW g \in SUBSET Indices,
         rowLock' \in Finalizers \cup {NoOne},
         final' = [final EXCEPT ![f] = pc], got' = [got EXCEPT ![f] = g],
         UNCHANGED <<uploadTables, upload>>, uploadFaults' \in 0..MaxUploadFaults,
         pc \in {"counted", "present", "hashed"} =>
             g \subseteq rows /\ Cardinality(g) = Total,
         pc \in {"present", "hashed"} => g \subseteq objects,
         pc = "hashed" => IsFile(g)
  PROVE  UploadInv'
<1>1. UploadTypeOK'
  BY DEF UploadInv, UploadTypeOK, uploadTables
<1>2. Grows /\ \A read : IsFile(read) => IsFile(read)'
  BY SameRows DEF uploadTables
<1>3. FoundIsTrue'
  <2> SUFFICES ASSUME NEW h \in Finalizers
               PROVE  /\ final'[h] \in {"counted", "present", "hashed"} =>
                             got'[h] \subseteq rows' /\ Cardinality(got'[h]) = Total
                      /\ final'[h] \in {"present", "hashed"} => got'[h] \subseteq objects'
                      /\ final'[h] = "hashed" => IsFile(got[h])'
    BY DEF FoundIsTrue
  <2>1. rows' = rows /\ objects' = objects
    BY DEF uploadTables
  <2>2. CASE h = f
    <3>1. final'[h] = pc /\ got'[h] = g
      BY <2>2 DEF UploadInv, UploadTypeOK
    <3>2. pc = "hashed" => IsFile(g)'
      BY <1>2
    <3> QED
      BY <2>1, <3>1, <3>2
  <2>3. CASE h # f
    <3>1. final'[h] = final[h] /\ got'[h] = got[h]
      BY <2>3 DEF UploadInv, UploadTypeOK
    <3>2. PICK k : k = got[h]
      OBVIOUS
    <3>3. final[h] = "hashed" => IsFile(k)'
      BY <1>2, <3>2 DEF UploadInv, FoundIsTrue
    <3> QED
      BY <2>1, <3>1, <3>2, <3>3 DEF UploadInv, FoundIsTrue
  <2> QED
    BY <2>2, <2>3
<1>4. CompletedIsWhole'
  BY <1>2, WholeStays DEF UploadInv, uploadTables
<1> QED
  BY <1>1, <1>3, <1>4 DEF UploadInv

-----------------------------------------------------------------------------
(* One lemma per action, or per kind of action *)

LEMMA UploadTypeFacts == UploadInv =>
    /\ rowLock \in Finalizers \cup {NoOne}
    /\ uploadFaults \in 0..MaxUploadFaults
    /\ rows \in SUBSET Indices
    /\ \A f \in Finalizers : got[f] \in SUBSET Indices
    /\ got = [f \in Finalizers |-> got[f]]
  BY DEF UploadInv, UploadTypeOK

LEMMA ChunkSteps ==
  ASSUME UploadInv, NEW u \in Uploaders,
         \/ \E i \in Indices, d \in Data : ChunkExists(u, i, d)
         \/ AddChunk(u) \/ AddChunkFails(u)
  PROVE  UploadInv'
<1>1. ASSUME NEW i \in Indices, NEW d \in Data, ChunkExists(u, i, d)
      PROVE  UploadInv'
  <2>1. UploadTypeOK' /\ Grows /\ UNCHANGED finalVars /\ session' = session
    BY <1>1 DEF ChunkExists, UploadInv, UploadTypeOK, uploadTables, finalVars, Grows
  <2> QED
    BY <2>1, GrowingKeeps
<1>2. CASE AddChunk(u)
  <2>1. PICK i \in Indices, d \in Data : upload[u] = <<i, d>>
    BY <1>2 DEF AddChunk, UploadInv, UploadTypeOK
  <2>2. upload' \in [Uploaders -> {NoChunk} \cup (Indices \X Data)]
    BY <1>2 DEF AddChunk, UploadInv, UploadTypeOK
  <2>3. rows' \subseteq Indices /\ data' \in [Indices -> Data] /\ Grows
    BY <1>2, <2>1 DEF AddChunk, Insert, UploadInv, UploadTypeOK, Grows
  <2>4. UploadTypeOK' /\ UNCHANGED finalVars /\ session' = session
    BY <1>2, <2>2, <2>3 DEF AddChunk, UploadInv, UploadTypeOK, finalVars
  <2> QED
    BY <2>3, <2>4, GrowingKeeps
<1>3. CASE AddChunkFails(u)
  <2>1. UploadTypeOK' /\ Grows /\ UNCHANGED finalVars /\ session' = session
    BY <1>3, UploadAssumption
    DEF AddChunkFails, UploadFault, UploadInv, UploadTypeOK, uploadTables, finalVars, Grows
  <2> QED
    BY <2>1, GrowingKeeps
<1> QED
  BY <1>1, <1>2, <1>3

LEMMA StoreSteps ==
  ASSUME UploadInv,
         \/ \E i \in Indices : AddBareChunk(i) \/ PutObject(i)
         \/ CleanupExpired
  PROVE  UploadInv'
<1>1. /\ UploadTypeOK' /\ Grows /\ UNCHANGED finalVars
      /\ session' \in {session, "gone"}
  <2>1. ASSUME NEW i \in Indices, AddBareChunk(i)
        PROVE  /\ UploadTypeOK' /\ Grows /\ UNCHANGED finalVars
               /\ session' \in {session, "gone"}
    BY <2>1 DEF AddBareChunk, Insert, UploadInv, UploadTypeOK, finalVars, Grows, Data
  <2>2. ASSUME NEW i \in Indices, PutObject(i)
        PROVE  /\ UploadTypeOK' /\ Grows /\ UNCHANGED finalVars
               /\ session' \in {session, "gone"}
    BY <2>2 DEF PutObject, UploadInv, UploadTypeOK, finalVars, Grows
  <2>3. ASSUME CleanupExpired
        PROVE  /\ UploadTypeOK' /\ Grows /\ UNCHANGED finalVars
               /\ session' \in {session, "gone"}
    BY <2>3 DEF CleanupExpired, UploadInv, UploadTypeOK, finalVars, Grows
  <2> QED
    BY <2>1, <2>2, <2>3
<1> QED
  BY <1>1, GrowingKeeps

\* Giving up establishes nothing.
LEMMA QuitStep ==
  ASSUME UploadInv, NEW f \in Finalizers, Quit(f), UNCHANGED <<uploadTables, upload>>,
         uploadFaults' \in 0..MaxUploadFaults
  PROVE  UploadInv'
<1>1. rowLock' \in Finalizers \cup {NoOne}
  BY UploadTypeFacts DEF Quit, Release
<1>2. final' = [final EXCEPT ![f] = "failed"] /\ got' = [got EXCEPT ![f] = {}]
  BY DEF Quit, Go, Forget
<1>3. "failed" \in FinalPC /\ {} \in SUBSET Indices
  BY DEF FinalPC
<1> QED
  BY <1>1, <1>2, <1>3, FinalizerGoes

\* Locking, failing and trying again establish nothing.
LEMMA EarlySteps ==
  ASSUME UploadInv, NEW f \in Finalizers,
         LockSession(f) \/ FinalizeFails(f) \/ Retry(f)
  PROVE  UploadInv'
<1> USE UploadTypeFacts
<1>1. got = [got EXCEPT ![f] = got[f]]
  BY DEF UploadInv, UploadTypeOK
<1>2. CASE LockSession(f)
  <2>1. rowLock' \in Finalizers \cup {NoOne}
    BY <1>2 DEF LockSession
  <2> QED
    BY <1>1, <1>2, <2>1, FinalizerGoes, "locked" \in FinalPC
    DEF LockSession, Go, FinalPC
<1>3. CASE FinalizeFails(f)
  BY <1>3, UploadAssumption, QuitStep DEF FinalizeFails, UploadFault
<1>4. CASE Retry(f)
  BY <1>1, <1>4, FinalizerGoes, "idle" \in FinalPC DEF Retry, Go, FinalPC
<1> QED
  BY <1>2, <1>3, <1>4

LEMMA ReadStep ==
  ASSUME UploadInv, NEW f \in Finalizers, GetChunks(f)
  PROVE  UploadInv'
<1>1. PICK read \in SUBSET rows :
          /\ UNCHANGED uploadFaults \/ UploadFault
          /\ IF Cardinality(read) = Total
             THEN Go(f, "counted") /\ got' = [got EXCEPT ![f] = read] /\ UNCHANGED rowLock
             ELSE Quit(f)
  BY DEF GetChunks
<1>2. UNCHANGED <<uploadTables, upload>>
  BY DEF GetChunks
<1>3. uploadFaults' \in 0..MaxUploadFaults
  BY <1>1, UploadTypeFacts, UploadAssumption DEF UploadFault
<1>4. read \in SUBSET Indices
  BY UploadTypeFacts
<1>5. CASE Cardinality(read) = Total
  BY <1>1, <1>2, <1>3, <1>4, <1>5, FinalizerGoes, UploadTypeFacts, "counted" \in FinalPC
  DEF Go, FinalPC
<1>6. CASE Cardinality(read) # Total
  BY <1>1, <1>2, <1>3, <1>6, QuitStep
<1> QED
  BY <1>5, <1>6

LEMMA PresentStep ==
  ASSUME UploadInv, NEW f \in Finalizers, VerifyChunkExists(f)
  PROVE  UploadInv'
<1>1. /\ UNCHANGED <<uploadTables, upload>> /\ uploadFaults' \in 0..MaxUploadFaults
      /\ got[f] \subseteq rows /\ Cardinality(got[f]) = Total
      /\ got = [got EXCEPT ![f] = got[f]] /\ got[f] \in SUBSET Indices
  BY UploadTypeFacts DEF VerifyChunkExists, UploadInv, UploadTypeOK, FoundIsTrue
<1>2. CASE got[f] \subseteq objects
  BY <1>1, <1>2, FinalizerGoes, UploadTypeFacts, "present" \in FinalPC
  DEF VerifyChunkExists, Go, FinalPC
<1>3. CASE ~(got[f] \subseteq objects)
  BY <1>1, <1>3, QuitStep DEF VerifyChunkExists
<1> QED
  BY <1>2, <1>3

LEMMA HashStep ==
  ASSUME UploadInv, NEW f \in Finalizers, VerifyUploadHash(f)
  PROVE  UploadInv'
<1>1. /\ UNCHANGED <<uploadTables, upload>> /\ uploadFaults' \in 0..MaxUploadFaults
      /\ got[f] \subseteq rows /\ Cardinality(got[f]) = Total /\ got[f] \subseteq objects
      /\ got = [got EXCEPT ![f] = got[f]] /\ got[f] \in SUBSET Indices
  BY UploadTypeFacts DEF VerifyUploadHash, UploadInv, UploadTypeOK, FoundIsTrue
<1>2. CASE IsFile(got[f])
  BY <1>1, <1>2, FinalizerGoes, UploadTypeFacts, "hashed" \in FinalPC
  DEF VerifyUploadHash, Go, FinalPC
<1>3. CASE ~IsFile(got[f])
  BY <1>1, <1>3, QuitStep DEF VerifyUploadHash
<1> QED
  BY <1>2, <1>3

LEMMA CompleteStep ==
  ASSUME UploadInv, NEW f \in Finalizers, CompleteSession(f)
  PROVE  UploadInv'
<1>1. UploadTypeOK'
  BY DEF CompleteSession, Release, Go, Forget, UploadInv, UploadTypeOK, FinalPC
<1>2. \A read : IsFile(read) => IsFile(read)'
  BY SameRows DEF CompleteSession
<1>3. FoundIsTrue'
  <2> SUFFICES ASSUME NEW h \in Finalizers \ {f}
               PROVE  /\ final'[h] \in {"counted", "present", "hashed"} =>
                             got'[h] \subseteq rows' /\ Cardinality(got'[h]) = Total
                      /\ final'[h] \in {"present", "hashed"} => got'[h] \subseteq objects'
                      /\ final'[h] = "hashed" => IsFile(got[h])'
    BY DEF FoundIsTrue, CompleteSession, Go, UploadInv, UploadTypeOK
  <2>1. /\ final'[h] = final[h] /\ got'[h] = got[h]
        /\ rows' = rows /\ objects' = objects
    BY DEF CompleteSession, Go, Forget, UploadInv, UploadTypeOK
  <2>2. PICK k : k = got[h]
    OBVIOUS
  <2>3. final[h] = "hashed" => IsFile(k)'
    BY <1>2, <2>2 DEF UploadInv, FoundIsTrue
  <2> QED
    BY <2>1, <2>2, <2>3 DEF UploadInv, FoundIsTrue
<1>4. PICK g : g = got[f]
  OBVIOUS
<1>5. g \in SUBSET rows /\ g \subseteq objects /\ Cardinality(g) = Total /\ IsFile(g)'
  BY <1>2, <1>4 DEF CompleteSession, UploadInv, FoundIsTrue
<1>6. CompletedIsWhole'
  BY <1>5 DEF CompletedIsWhole, CompleteSession
<1> QED
  BY <1>1, <1>3, <1>6 DEF UploadInv

LEMMA UploadStep == UploadInv /\ [UploadNext]_uploadVars => UploadInv'
<1> SUFFICES ASSUME UploadInv, [UploadNext]_uploadVars
             PROVE  UploadInv'
  OBVIOUS
<1>1. (SUBSET Parts) \cup {{Foreign}} \subseteq Data
  BY DEF Data
<1>2. ASSUME UNCHANGED uploadVars
      PROVE  UploadInv'
  <2>1. UploadTypeOK' /\ Grows /\ UNCHANGED finalVars /\ session' = session
    BY <1>2 DEF uploadVars, uploadTables, finalVars, UploadInv, UploadTypeOK, Grows
  <2> QED
    BY <2>1, GrowingKeeps
<1> QED
  BY <1>1, <1>2, ChunkSteps, StoreSteps, EarlySteps, ReadStep, PresentStep, HashStep,
     CompleteStep
  DEF UploadNext, FinalStep

-----------------------------------------------------------------------------
(* Theorems *)

\* The invariant of uploads, finalizers and the cleanup holds always.
THEOREM UploadInvariant == UploadSpec => []UploadInv
<1> QED
  BY UploadInitial, UploadStep, PTL DEF UploadSpec

\* Type correctness of the uploads.
THEOREM UploadTypeCorrect == UploadSpec => []UploadTypeOK
<1>1. UploadInv => UploadTypeOK
  BY DEF UploadInv
<1> QED
  BY <1>1, UploadInvariant, PTL

\* A completed session is the whole file, in rows and objects, although Finalize
\* locks the session only, neither uploads nor object writes ask for that lock, and
\* nobody compares the index or the size of a chunk with the session.
THEOREM CompletionIsSound == UploadSpec => []CompletedIsWhole
<1>1. UploadInv => CompletedIsWhole
  BY DEF UploadInv
<1> QED
  BY <1>1, UploadInvariant, PTL

\* No chunk row is overwritten or removed, whichever requests race.
THEOREM RowsAreStable == UploadSpec => ChunksAreStable
<1>1. UploadInv /\ [UploadNext]_uploadVars
        => [\A i \in rows : i \in rows' /\ data'[i] = data[i]]_uploadVars
  <2> SUFFICES ASSUME UploadInv, UploadNext, NEW i \in rows
               PROVE  i \in rows' /\ data'[i] = data[i]
    OBVIOUS
  <2> USE DEF UploadInv, UploadTypeOK, uploadTables
  <2>1. ASSUME NEW u \in Uploaders, AddChunk(u)
        PROVE  i \in rows' /\ data'[i] = data[i]
    BY <2>1 DEF AddChunk, Insert
  <2>2. ASSUME NEW u \in Uploaders, NEW j, NEW d, ChunkExists(u, j, d) \/ AddChunkFails(u)
        PROVE  i \in rows' /\ data'[i] = data[i]
    BY <2>2 DEF ChunkExists, AddChunkFails
  <2>3. ASSUME NEW j, AddBareChunk(j) \/ PutObject(j)
        PROVE  i \in rows' /\ data'[i] = data[i]
    BY <2>3 DEF AddBareChunk, PutObject, Insert
  <2>4. ASSUME NEW f \in Finalizers, FinalStep(f) \/ FinalizeFails(f) \/ Retry(f)
        PROVE  i \in rows' /\ data'[i] = data[i]
    BY <2>4 DEF FinalStep, LockSession, GetChunks, VerifyChunkExists, VerifyUploadHash,
                CompleteSession, FinalizeFails, Retry
  <2>5. CASE CleanupExpired
    BY <2>5 DEF CleanupExpired
  <2> QED
    BY <2>1, <2>2, <2>3, <2>4, <2>5 DEF UploadNext
<1> QED
  BY <1>1, UploadInvariant, PTL DEF UploadSpec, ChunksAreStable

-----------------------------------------------------------------------------
(* The two side by side *)

LEMMA PartsInitial == MCInit => UploadInit /\ LeaseInit
  BY DEF MCInit

LEMMA PartsStep == [MCNext]_allVars => [UploadNext]_uploadVars /\ [LeaseNext]_leaseVars
  BY DEF MCNext, allVars, UploadPart, OneSenderStep, RacingStep, LeasePart

\* A behaviour of the runs is one of each component, so what is proved of the
\* components holds of the runs.
THEOREM LocksAreComponents == MCSpec => UploadSpec /\ LeaseSpec
  BY PartsInitial, PartsStep, PTL DEF MCSpec, UploadSpec, LeaseSpec

\* The types of the two parts, in the composition the runs check.
THEOREM LocksTypeCorrect == MCSpec => []LocksTypeOK
<1>1. UploadTypeOK /\ LeaseTypeOK => LocksTypeOK
  BY DEF LocksTypeOK
<1> QED
  BY <1>1, LocksAreComponents, UploadTypeCorrect, LeaseTypeCorrect, PTL

\* What the runs check of uploads and leases, for any number of requests, chunks, nodes
\* and partitions: a completed upload is whole, its rows are stable, and of two nodes
\* that claim a partition one has been silent for longer than the lease time.
THEOREM LocksAreSafe ==
  MCSpec => [](CompletedIsWhole /\ OneFreshOwner) /\ ChunksAreStable
  BY LocksAreComponents, CompletionIsSound, RowsAreStable, NoTwoFreshOwners, PTL
=============================================================================
