-------------------------------- MODULE MCLocks --------------------------------
(***************************************************************************)
(* Two things of which one process at a time is to have the hold: the row  *)
(* of a resumable upload, by the lock of a transaction, and a partition of *)
(* the event log, by a lease.  A behaviour runs one of them, so that the   *)
(* run has the sum of their states and not the product.                    *)
(***************************************************************************)
EXTENDS Uploads, PartitionLeases

VARIABLE part
allVars == <<uploadVars, leaseVars, part>>

MCInit == part \in {"upload", "racing", "leases"} /\ UploadInit /\ LeaseInit

\* The upload twice, for the same reason: with one request at a time that sends chunks,
\* and with several of them, the objects of one chunk, the cleanup and nobody finalizing.
Sender == CHOOSE u \in Uploaders : TRUE
OneSenderStep ==
    part = "upload" /\ UploadNext /\ \A u \in Uploaders \ {Sender} : upload'[u] = NoChunk
RacingStep ==
    part = "racing" /\ UploadNext /\ UNCHANGED finalVars /\ objects' \subseteq {0}

UploadPart == part \in {"upload", "racing"} /\ UNCHANGED <<leaseVars, part>>
LeasePart  == part = "leases" /\ UNCHANGED <<uploadVars, part>>

MCNext ==
    \/ UploadPart /\ (OneSenderStep \/ RacingStep)
    \/ LeasePart /\ LeaseNext

\* A finalizer that began goes on to its answer: its steps wait for nothing but
\* the lock of the row.  Nobody has to begin one.
MCFairness == \A f \in Finalizers :
    WF_allVars(UploadPart /\ final[f] # "idle" /\ FinalStep(f))

MCSpec == MCInit /\ [][MCNext]_allVars /\ MCFairness

\* The type invariants of the two parts.
LocksTypeOK == UploadTypeOK /\ LeaseTypeOK
=============================================================================
