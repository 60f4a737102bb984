-------------------------------- MODULE MediaJobs --------------------------------
(***************************************************************************)
(* The processing of one uploaded media file: its row, the jobs queued for *)
(* it, the workers that claim and run them, the request that makes it an   *)
(* avatar, and the retention that deletes it.                              *)
(*                                                                         *)
(* An object in the store is raw (what was uploaded), sealed (converted    *)
(* from the raw data and encrypted) or spoilt (converted from something    *)
(* else).  All runs on a host, which the workers of the model share, write *)
(* what they downloaded to one temporary file named after the media file,  *)
(* and decode or encode what they find in it; the output file of the video *)
(* encoder is another such file, and is never removed.                     *)
(***************************************************************************)
EXTENDS Naturals, FiniteSets

CONSTANTS
    MediaJobIds,        \* rows of media_jobs, all for this media file
    MediaWorkers,
    AvatarCalls,        \* calls of UploadAvatar
    JobLimit,           \* LockPendingJobs: 10
    NoJobId,            \* model value: the work of a call, which has no job
    MaxMediaFaults      \* bound: failed calls, and workers that die

ASSUME MediaAssumption ==
    /\ NoJobId \notin MediaJobIds /\ MediaWorkers \cap AvatarCalls = {}
    /\ JobLimit \in Nat \ {0} /\ MaxMediaFaults \in Nat

VARIABLES
    mediaType,      \* image or video
    media,          \* the row of media_files: its storage_key and status
    mediaObjects,   \* what the store holds under each key
    tempFile,       \* what a reader of the temporary file may find pieces of
    encoded,        \* whether the encoder's output file exists
    jobStatus,      \* media_jobs.status; gone when the row is
    claimed,        \* the jobs each worker holds and has not settled
    run,            \* each run of ProcessMedia: where it is, its job, its data, and
                    \* what was in the temporary file while it read it
    avatarSet,      \* avatar_media_id names this file
    abandoned,      \* history: jobs whose status nobody will change any more
    misread,        \* history: a conversion read the file while another run wrote it
    mediaFaults

mediaTables == <<media, mediaObjects, jobStatus, avatarSet>>
mediaFiles  == <<tempFile, encoded, misread>>
mediaVars   == <<mediaType, mediaTables, mediaFiles, claimed, run, abandoned, mediaFaults>>

Runners == MediaWorkers \cup AvatarCalls
NoMedia == [key |-> "none", state |-> "none"]
Run(pc, job, data) == [pc |-> pc, job |-> job, data |-> data, saw |-> {}]
Reading(job, data, saw) == [pc |-> "read", job |-> job, data |-> data, saw |-> saw]
NoRun   == Run("idle", NoJobId, "none")
Pieces  == {"cut", "raw", "other"}
MediaKeys == {"original", "final", "thumb"}
RunPC == {"idle", "get", "download", "truncate", "fill", "open", "read", "upload",
          "thumb", "update", "publish", "succeeded", "broke", "ended"}

MediaFault == mediaFaults < MaxMediaFaults /\ mediaFaults' = mediaFaults + 1

MediaInit ==
    /\ mediaType \in {"image", "video"}
    /\ media = [key |-> "original", state |-> "uploaded"]
    /\ mediaObjects = [k \in MediaKeys |-> IF k = "original" THEN "raw" ELSE "none"]
    /\ tempFile = {} /\ encoded = FALSE /\ misread = FALSE
    /\ jobStatus = [j \in MediaJobIds |-> "gone"]
    /\ claimed = [w \in MediaWorkers |-> {}]
    /\ run = [r \in Runners |-> NoRun]
    /\ avatarSet = FALSE
    /\ abandoned = {}
    /\ mediaFaults = 0

At(r, pc) == run[r].pc = pc
Enter(r, pc) == run' = [run EXCEPT ![r] = Run(pc, @.job, @.data)]

-----------------------------------------------------------------------------
(* Jobs *)

\* The row refers to the file's: without the file there is no job.
CreateJob(j) ==
    /\ jobStatus[j] = "gone" /\ media # NoMedia
    /\ \A w \in MediaWorkers : j \notin claimed[w]
    /\ j \notin abandoned
    /\ jobStatus' = [jobStatus EXCEPT ![j] = "pending"]
    /\ UNCHANGED <<mediaType, media, mediaObjects, avatarSet, mediaFiles, claimed, run,
                   abandoned, mediaFaults>>

\* One statement claims the oldest pending jobs, and skips what another worker
\* is claiming.
LockPendingJobs(w) ==
    /\ At(w, "idle") /\ claimed[w] = {}
    /\ \E batch \in SUBSET {j \in MediaJobIds : jobStatus[j] = "pending"} :
           /\ batch # {} /\ Cardinality(batch) <= JobLimit
           /\ jobStatus' = [j \in MediaJobIds |->
                              IF j \in batch THEN "processing" ELSE jobStatus[j]]
           /\ claimed' = [claimed EXCEPT ![w] = batch]
    /\ UNCHANGED <<mediaType, media, mediaObjects, avatarSet, mediaFiles, run, abandoned,
                   mediaFaults>>

StartJob(w) ==
    /\ At(w, "idle")
    /\ \E j \in claimed[w] : run' = [run EXCEPT ![w] = Run("get", j, "none")]
    /\ UNCHANGED <<mediaType, mediaTables, mediaFiles, claimed, abandoned, mediaFaults>>

\* Mutant: the worker settles the job as completed whatever the run returned.
SettleBlindly(w) ==
    /\ run[w].pc \in {"succeeded", "broke"} /\ w \in MediaWorkers
    /\ jobStatus' = [jobStatus EXCEPT ![run[w].job] = IF @ = "gone" THEN @ ELSE "completed"]
    /\ claimed' = [claimed EXCEPT ![w] = @ \ {run[w].job}]
    /\ run' = [run EXCEPT ![w] = NoRun]
    /\ UNCHANGED <<mediaType, media, mediaObjects, avatarSet, mediaFiles, abandoned, mediaFaults>>

\* Mutant: a run that failed leaves its job as it is.
SettleSuccess(w) ==
    /\ run[w].pc \in {"succeeded", "broke"} /\ w \in MediaWorkers
    /\ jobStatus' = [jobStatus EXCEPT ![run[w].job] =
          IF @ # "gone" /\ At(w, "succeeded") THEN "completed" ELSE @]
    /\ claimed' = [claimed EXCEPT ![w] = @ \ {run[w].job}]
    /\ run' = [run EXCEPT ![w] = NoRun]
    /\ UNCHANGED <<mediaType, media, mediaObjects, avatarSet, mediaFiles, abandoned, mediaFaults>>

\* CompleteJob after a run that returned nil, FailJob after one that did not; a
\* job that has no row any more is not brought back.
SettleJob(w) ==
    /\ run[w].pc \in {"succeeded", "broke"} /\ w \in MediaWorkers
    /\ LET j == run[w].job
       IN  /\ jobStatus' = [jobStatus EXCEPT ![j] =
                 IF @ = "gone" THEN @ ELSE IF At(w, "succeeded") THEN "completed" ELSE "failed"]
           /\ claimed' = [claimed EXCEPT ![w] = @ \ {j}]
    /\ run' = [run EXCEPT ![w] = NoRun]
    /\ UNCHANGED <<mediaType, media, mediaObjects, avatarSet, mediaFiles, abandoned, mediaFaults>>

\* The error of CompleteJob and FailJob is dropped: the job stays in processing.
SettleFails(w) ==
    /\ run[w].pc \in {"succeeded", "broke"} /\ w \in MediaWorkers
    /\ MediaFault
    /\ abandoned' = abandoned \cup {run[w].job}
    /\ claimed' = [claimed EXCEPT ![w] = @ \ {run[w].job}]
    /\ run' = [run EXCEPT ![w] = NoRun]
    /\ UNCHANGED <<mediaType, mediaTables, mediaFiles>>

\* Nothing takes a job out of processing again.
WorkerDies(w) ==
    /\ claimed[w] # {}
    /\ MediaFault
    /\ abandoned' = abandoned \cup claimed[w]
    /\ claimed' = [claimed EXCEPT ![w] = {}]
    /\ run' = [run EXCEPT ![w] = NoRun]
    /\ UNCHANGED <<mediaType, mediaTables, mediaFiles>>

-----------------------------------------------------------------------------
(* ProcessMedia *)

GetMediaByID(r) ==
    /\ At(r, "get")
    /\ IF media = NoMedia THEN Enter(r, "broke")
       ELSE run' = [run EXCEPT ![r] = Run("download", @.job, media.key)]
    /\ UNCHANGED <<mediaType, mediaTables, mediaFiles, claimed, abandoned, mediaFaults>>

\* The key is the one the row had.
Download(r) ==
    /\ At(r, "download")
    /\ run' = [run EXCEPT ![r] = Run("truncate", @.job, mediaObjects[@.data])]
    /\ UNCHANGED <<mediaType, mediaTables, mediaFiles, claimed, abandoned, mediaFaults>>

\* os.WriteFile, first half: the file is emptied, whoever reads it or writes it too.
Piece(data) == IF data = "raw" THEN "raw" ELSE "other"
Filling     == {q \in Runners : At(q, "fill")}

\* The runs after a change of the file by r: the readers meet what it holds now.
FileChanges(r, pieces, pc) ==
    /\ tempFile' = pieces
    /\ run' = [q \in Runners |->
          IF q = r THEN Run(pc, run[r].job, run[r].data)
          ELSE IF At(q, "read") THEN Reading(run[q].job, run[q].data, run[q].saw \cup pieces)
          ELSE run[q]]
    /\ UNCHANGED <<mediaType, mediaTables, encoded, misread, claimed, abandoned, mediaFaults>>

TruncateFile(r) ==
    /\ At(r, "truncate")
    /\ FileChanges(r, {"cut"} \cup {Piece(run[q].data) : q \in Filling \cup {r}}, "fill")

\* Second half: the data is written; what another run is writing stays in pieces.
FillFile(r) ==
    /\ At(r, "fill")
    /\ FileChanges(r, IF Filling = {r} THEN tempFile \ {"cut"} ELSE tempFile, "open")

\* The decoder, or the encoder, opens the file.  The encoder does not overwrite the
\* output file of an earlier run, and makes none for an input it cannot read.
OpenFile(r) ==
    /\ At(r, "open")
    /\ LET opened == run' = [run EXCEPT ![r] = Reading(@.job, @.data, tempFile)]
       IN  IF mediaType = "image" THEN opened /\ UNCHANGED encoded
           ELSE \/ "raw" \in tempFile /\ ~encoded /\ opened /\ encoded' = TRUE
                \/ (tempFile # {"raw"} \/ encoded) /\ Enter(r, "broke") /\ UNCHANGED encoded
    /\ UNCHANGED <<mediaType, mediaTables, tempFile, misread, claimed, abandoned, mediaFaults>>

\* Pieces of a file that make a wrong picture or film: a decoder of images rejects
\* a file that is cut short, the encoder makes a shorter film of it.
Mixed(saw) == "raw" \in saw /\ saw # {"raw"} /\ (mediaType = "image" => "other" \in saw)

\* Neither decoder accepts encrypted data.
Convert(r) ==
    /\ At(r, "read")
    /\ LET saw == run[r].saw
       IN  /\ \/ "raw" \in saw /\ run' = [run EXCEPT ![r] = Run("upload", @.job, "raw")]
              \/ Mixed(saw) /\ run' = [run EXCEPT ![r] = Run("upload", @.job, "other")]
              \/ saw # {"raw"} /\ Enter(r, "broke")
           /\ misread' = (misread \/ Mixed(saw))
    /\ UNCHANGED <<mediaType, mediaTables, tempFile, encoded, claimed, abandoned, mediaFaults>>

Sealed(r) == IF run[r].data = "raw" THEN "sealed" ELSE "spoilt"

UploadFinal(r) ==
    /\ At(r, "upload")
    /\ mediaObjects' = [mediaObjects EXCEPT !["final"] = Sealed(r)]
    /\ Enter(r, IF mediaType = "image" THEN "thumb" ELSE "update")
    /\ UNCHANGED <<mediaType, media, jobStatus, avatarSet, mediaFiles, claimed, abandoned,
                   mediaFaults>>

UploadThumb(r) ==
    /\ At(r, "thumb")
    /\ mediaObjects' = [mediaObjects EXCEPT !["thumb"] = Sealed(r)]
    /\ Enter(r, "update")
    /\ UNCHANGED <<mediaType, media, jobStatus, avatarSet, mediaFiles, claimed, abandoned,
                   mediaFaults>>

\* An UPDATE of a row that is gone is no error.
UpdateProcessedMedia(r) ==
    /\ At(r, "update")
    /\ media' = IF media = NoMedia THEN media ELSE [key |-> "final", state |-> "processed"]
    /\ Enter(r, "publish")
    /\ UNCHANGED <<mediaType, mediaObjects, jobStatus, avatarSet, mediaFiles, claimed,
                   abandoned, mediaFaults>>

Publish(r) ==
    /\ At(r, "publish")
    /\ Enter(r, "succeeded")
    /\ UNCHANGED <<mediaType, mediaTables, mediaFiles, claimed, abandoned, mediaFaults>>

\* Any call fails; what the run did before stays done.  A failed Publish fails
\* the job of a file that is processed.
RunFails(r) ==
    /\ run[r].pc \notin {"idle", "succeeded", "broke", "ended"}
    /\ MediaFault
    /\ Enter(r, "broke")
    /\ UNCHANGED <<mediaType, mediaTables, mediaFiles, claimed, abandoned>>

ProcessMedia(r) ==
    \/ GetMediaByID(r) \/ Download(r) \/ TruncateFile(r) \/ FillFile(r) \/ OpenFile(r)
    \/ Convert(r) \/ UploadFinal(r) \/ UploadThumb(r) \/ UpdateProcessedMedia(r)
    \/ Publish(r)

-----------------------------------------------------------------------------
(* Avatar and retention *)

UploadAvatar(a) ==
    /\ At(a, "idle")
    /\ Enter(a, "get")
    /\ UNCHANGED <<mediaType, mediaTables, mediaFiles, claimed, abandoned, mediaFaults>>

SetAvatar(a) ==
    /\ a \in AvatarCalls /\ run[a].pc \in {"succeeded", "broke"}
    /\ avatarSet' = (avatarSet \/ At(a, "succeeded"))
    /\ run' = [run EXCEPT ![a] = Run("ended", NoJobId, "none")]
    /\ UNCHANGED <<mediaType, media, mediaObjects, jobStatus, mediaFiles, claimed, abandoned,
                   mediaFaults>>

\* Execute deletes by type and age whatever the file's state; its jobs go with
\* the row, its objects and the references to it stay.
ExecuteRetention ==
    /\ media # NoMedia
    /\ media' = NoMedia
    /\ jobStatus' = [j \in MediaJobIds |-> "gone"]
    /\ UNCHANGED <<mediaType, mediaObjects, avatarSet, mediaFiles, claimed, run, abandoned,
                   mediaFaults>>

-----------------------------------------------------------------------------
WorkerStep(w) == StartJob(w) \/ ProcessMedia(w) \/ SettleJob(w)

MediaNext ==
    \/ \E j \in MediaJobIds : CreateJob(j)
    \/ \E w \in MediaWorkers :
           LockPendingJobs(w) \/ WorkerStep(w) \/ SettleFails(w) \/ WorkerDies(w)
    \/ \E a \in AvatarCalls : UploadAvatar(a) \/ ProcessMedia(a) \/ SetAvatar(a)
    \/ \E r \in Runners : RunFails(r)
    \/ ExecuteRetention

MediaSpec == MediaInit /\ [][MediaNext]_mediaVars

-----------------------------------------------------------------------------
(* Properties *)

MediaTypeOK ==
    /\ mediaType \in {"image", "video"}
    /\ media \in [key : {"original", "final"}, state : {"uploaded", "processed"}] \cup {NoMedia}
    /\ mediaObjects \in [MediaKeys -> {"none", "raw", "sealed", "spoilt"}]
    /\ tempFile \subseteq Pieces /\ encoded \in BOOLEAN /\ misread \in BOOLEAN
    /\ avatarSet \in BOOLEAN
    /\ jobStatus \in [MediaJobIds -> {"gone", "pending", "processing", "completed", "failed"}]
    /\ claimed \in [MediaWorkers -> SUBSET MediaJobIds]
    /\ run \in [Runners -> [pc : RunPC, job : MediaJobIds \cup {NoJobId},
                            data : MediaKeys \cup {"none", "raw", "sealed", "spoilt", "other"},
                            saw : SUBSET Pieces]]
    /\ abandoned \subseteq MediaJobIds
    /\ mediaFaults \in 0..MaxMediaFaults

\* An object holds the result, or a conversion read what another run was writing.
StoredFor(k) == mediaObjects[k] = "sealed" \/ (misread /\ mediaObjects[k] = "spoilt")

\* A job that completed, or an avatar whose file still exists, means a file that
\* was processed from what was uploaded, with its objects in the store: through a
\* second run over the processed file, runs that share the temporary file, and a
\* retention in the middle of one; but for a conversion whose input another run
\* rewrote while it read.
CompletedIsProcessed ==
    (\E j \in MediaJobIds : jobStatus[j] = "completed") \/ (avatarSet /\ media # NoMedia) =>
        /\ media = [key |-> "final", state |-> "processed"]
        /\ StoredFor("final")
        /\ mediaType = "image" => StoredFor("thumb")

\* Jobs that were claimed are settled: again and again none is left in processing
\* but those whose worker died or whose row the table refused to change.
ClaimedJobSettles ==
    []<>({j \in MediaJobIds : jobStatus[j] = "processing"} \subseteq abandoned)
=============================================================================
