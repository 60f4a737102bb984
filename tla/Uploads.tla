--------------------------------- MODULE Uploads ---------------------------------
(***************************************************************************)
(* One resumable upload: its session row, its chunk rows, the objects of   *)
(* the chunks in the object store, the clients that send chunks, the       *)
(* finalizers that complete the session and the cleanup that deletes it.   *)
(*                                                                         *)
(* The file is the sequence of its parts 0, 1, ..., FileParts - 1; the     *)
(* data of a chunk is some of them in their order, or foreign.  Nobody     *)
(* compares the index or the size of a chunk with the session: a chunk may *)
(* be empty, hold the whole file, or have an index beyond total_chunks.    *)
(***************************************************************************)
EXTENDS Naturals, FiniteSets

CONSTANTS
    Uploaders,          \* requests that send a chunk
    Finalizers,         \* requests that finalize the session
    Total,              \* the session's total_chunks
    FileParts,          \* the length of the file
    NoOne,              \* model value
    MaxUploadFaults     \* bound: failed calls to PostgreSQL or S3

ASSUME UploadAssumption ==
    /\ NoOne \notin Finalizers /\ Total \in Nat \ {0}
    /\ FileParts \in Nat \ {0} /\ MaxUploadFaults \in Nat

Parts   == 0..FileParts - 1
Foreign == FileParts
Indices == 0..Total
Data    == SUBSET (Parts \cup {Foreign})

VARIABLES
    session,    \* its row: active, completed or gone
    rowLock,    \* the finalizer whose transaction holds the row
    rows,       \* the indices that have a row in upload_chunks
    data,       \* what each row holds; nothing where there is no row
    objects,    \* the indices whose object is in the store
    upload,     \* of each uploader, the chunk it found missing
    final,      \* where each finalizer is
    got,        \* the rows it read
    uploadFaults

uploadTables == <<session, rows, data, objects>>
finalVars    == <<rowLock, final, got>>
uploadVars   == <<uploadTables, finalVars, upload, uploadFaults>>

NoChunk == <<>>
FinalPC == {"idle", "locked", "counted", "present", "hashed", "ok", "failed"}

UploadFault == uploadFaults < MaxUploadFaults /\ uploadFaults' = uploadFaults + 1

UploadInit ==
    /\ session = "active" /\ rowLock = NoOne
    /\ rows = {} /\ data = [i \in Indices |-> {}] /\ objects = {}
    /\ upload = [u \in Uploaders |-> NoChunk]
    /\ final = [f \in Finalizers |-> "idle"]
    /\ got = [f \in Finalizers |-> {}]
    /\ uploadFaults = 0

-----------------------------------------------------------------------------
(* Chunks *)

\* UploadChunk: the data matches its checksum and the index has no row yet.  The
\* session is not looked at: it may be completed, or gone.
ChunkExists(u, i, d) ==
    /\ upload[u] = NoChunk /\ i \notin rows
    /\ upload' = [upload EXCEPT ![u] = <<i, d>>]
    /\ UNCHANGED <<uploadTables, finalVars, uploadFaults>>

Insert(i, d) == rows' = rows \cup {i} /\ data' = [data EXCEPT ![i] = d]

\* Mutant: the insert overwrites the row it conflicts with.
UpsertChunk(u) ==
    /\ upload[u] # NoChunk
    /\ Insert(upload[u][1], upload[u][2])
    /\ upload' = [upload EXCEPT ![u] = NoChunk]
    /\ UNCHANGED <<session, objects, finalVars, uploadFaults>>

\* The primary key decides between two uploads that both found it missing.
AddChunk(u) ==
    /\ upload[u] # NoChunk
    /\ IF upload[u][1] \in rows THEN UNCHANGED <<rows, data>>
       ELSE Insert(upload[u][1], upload[u][2])
    /\ upload' = [upload EXCEPT ![u] = NoChunk]
    /\ UNCHANGED <<session, objects, finalVars, uploadFaults>>

AddChunkFails(u) ==
    /\ upload[u] # NoChunk
    /\ UploadFault
    /\ upload' = [upload EXCEPT ![u] = NoChunk]
    /\ UNCHANGED <<uploadTables, finalVars>>

\* ChunkRepository.AddChunk: a row without data.
AddBareChunk(i) ==
    /\ i \notin rows
    /\ Insert(i, {})
    /\ UNCHANGED <<session, objects, finalVars, upload, uploadFaults>>

PutObject(i) ==
    /\ objects' = objects \cup {i}
    /\ UNCHANGED <<session, rows, data, finalVars, upload, uploadFaults>>

-----------------------------------------------------------------------------
(* Finalize *)

\* The end of a transaction: the lock goes with it.
Release(f) == rowLock' = IF rowLock = f THEN NoOne ELSE rowLock
Go(f, pc)  == final' = [final EXCEPT ![f] = pc]
Forget(f)  == got' = [got EXCEPT ![f] = {}]
Quit(f)    == Release(f) /\ Go(f, "failed") /\ Forget(f)

\* SELECT ... FOR UPDATE through Exec: a row that is gone is locked by nobody and
\* is no error.
LockSession(f) ==
    /\ final[f] = "idle"
    /\ \/ session = "gone" /\ UNCHANGED rowLock
       \/ session # "gone" /\ rowLock = NoOne /\ rowLock' = f
    /\ Go(f, "locked")
    /\ UNCHANGED <<uploadTables, got, upload, uploadFaults>>

\* The rows are read over another connection, and counted.  Nobody asks rows.Err():
\* an iteration that breaks off has read the first of them.
GetChunks(f) ==
    /\ final[f] = "locked"
    /\ \E read \in SUBSET rows :
           /\ \/ read = rows /\ UNCHANGED uploadFaults
              \/ (\A i \in read, j \in rows \ read : i < j) /\ UploadFault
           /\ IF Cardinality(read) = Total
              THEN Go(f, "counted") /\ got' = [got EXCEPT ![f] = read] /\ UNCHANGED rowLock
              ELSE Quit(f)
    /\ UNCHANGED <<uploadTables, upload>>

\* Mutant: one object in the store is enough.
VerifySomeExist(f) ==
    /\ final[f] = "counted"
    /\ IF got[f] \cap objects # {} THEN Go(f, "present") /\ UNCHANGED <<rowLock, got>>
       ELSE Quit(f)
    /\ UNCHANGED <<uploadTables, upload, uploadFaults>>

VerifyChunkExists(f) ==
    /\ final[f] = "counted"
    /\ IF got[f] \subseteq objects THEN Go(f, "present") /\ UNCHANGED <<rowLock, got>>
       ELSE Quit(f)
    /\ UNCHANGED <<uploadTables, upload, uploadFaults>>

\* The data of the rows, one after the other in the order of their indices, is the
\* file: all of it, and nothing twice or out of place.
IsFile(read) ==
    /\ UNION {data[i] : i \in read} = Parts
    /\ \A i, j \in read : i < j => \A x \in data[i], y \in data[j] : x < y

\* The hash of what was read; what a row holds never changes.
VerifyUploadHash(f) ==
    /\ final[f] = "present"
    /\ IF IsFile(got[f]) THEN Go(f, "hashed") /\ UNCHANGED <<rowLock, got>> ELSE Quit(f)
    /\ UNCHANGED <<uploadTables, upload, uploadFaults>>

\* Mutant: the transaction is left open, its lock with it.
CompleteAndHold(f) ==
    /\ final[f] = "hashed"
    /\ session' = IF session = "gone" THEN session ELSE "completed"
    /\ Go(f, "ok") /\ Forget(f)
    /\ UNCHANGED <<rows, data, objects, rowLock, upload, uploadFaults>>

\* The UPDATE of a row that is gone changes nothing and succeeds.
CompleteSession(f) ==
    /\ final[f] = "hashed"
    /\ session' = IF session = "gone" THEN session ELSE "completed"
    /\ Release(f) /\ Go(f, "ok") /\ Forget(f)
    /\ UNCHANGED <<rows, data, objects, upload, uploadFaults>>

\* Mutant: a finalization that failed marks the session.
FinalizeFailsAndMarks(f) ==
    /\ final[f] \notin {"idle", "ok", "failed"}
    /\ UploadFault
    /\ session' = "failed"
    /\ Quit(f)
    /\ UNCHANGED <<rows, data, objects, upload>>

FinalizeFails(f) ==
    /\ final[f] \notin {"idle", "ok", "failed"}
    /\ UploadFault
    /\ Quit(f)
    /\ UNCHANGED <<uploadTables, upload>>

\* The caller tries again.
Retry(f) ==
    /\ final[f] \in {"ok", "failed"}
    /\ Go(f, "idle")
    /\ UNCHANGED <<uploadTables, rowLock, got, upload, uploadFaults>>

-----------------------------------------------------------------------------
(* Workers *)

\* An expired session goes, completed or not, and waits for the row's lock; its
\* chunk rows stay.
CleanupExpired ==
    /\ session # "gone" /\ rowLock = NoOne
    /\ session' = "gone"
    /\ UNCHANGED <<rows, data, objects, finalVars, upload, uploadFaults>>

-----------------------------------------------------------------------------
FinalStep(f) ==
    \/ LockSession(f) \/ GetChunks(f) \/ VerifyChunkExists(f)
    \/ VerifyUploadHash(f) \/ CompleteSession(f)

UploadNext ==
    \/ \E u \in Uploaders :
           \/ \E i \in Indices, d \in (SUBSET Parts) \cup {{Foreign}} : ChunkExists(u, i, d)
           \/ AddChunk(u) \/ AddChunkFails(u)
    \/ \E i \in Indices : AddBareChunk(i) \/ PutObject(i)
    \/ \E f \in Finalizers : FinalStep(f) \/ FinalizeFails(f) \/ Retry(f)
    \/ CleanupExpired

UploadSpec == UploadInit /\ [][UploadNext]_uploadVars

-----------------------------------------------------------------------------
(* Properties *)

UploadTypeOK ==
    /\ session \in {"active", "completed", "gone"}
    /\ rowLock \in Finalizers \cup {NoOne}
    /\ rows \subseteq Indices /\ data \in [Indices -> Data]
    /\ objects \subseteq Indices
    /\ upload \in [Uploaders -> {NoChunk} \cup (Indices \X Data)]
    /\ final \in [Finalizers -> FinalPC]
    /\ got \in [Finalizers -> SUBSET Indices]
    /\ uploadFaults \in 0..MaxUploadFaults

\* A completed upload is the whole file: as many chunk rows as it has chunks hold
\* together, in the order of their indices, what was to be uploaded, and the object
\* store has an object for each; whoever sends chunks while it is finalized or
\* afterwards, and whatever indices and sizes they have.
CompletedIsWhole ==
    session = "completed" =>
        \E read \in SUBSET rows :
            Cardinality(read) = Total /\ IsFile(read) /\ read \subseteq objects

\* Of two requests that race to send a chunk the first decides: no row is ever
\* overwritten or removed, whichever way the chunk came.
ChunksAreStable ==
    [][\A i \in rows : i \in rows' /\ data'[i] = data[i]]_uploadVars

\* A finalizer that has the session comes to an answer, and so lets the others
\* and the cleanup have the row.
LockIsReleased == []<>(rowLock = NoOne)
=============================================================================
