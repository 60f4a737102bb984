-------------------------------- MODULE MCQueues --------------------------------
(***************************************************************************)
(* Four tables that workers drain: the event log, the queue of the search  *)
(* index, the media jobs, the scheduled messages.  Each has processes of   *)
(* its own; a behaviour runs one of them, so that the run has the sum of   *)
(* their states and not the product.                                       *)
(***************************************************************************)
EXTENDS EventLog, SearchQueue, MediaJobs, Scheduler

VARIABLE part
allVars == <<logVars, searchVars, mediaVars, scheduleVars, part>>

MCInit ==
    /\ part \in {"rebuild", "consumers", "search", "media", "schedule"}
    /\ LogInit /\ SearchInit /\ MediaInit /\ ScheduleInit
    /\ part # "search" => indexed = {}
    /\ part # "media" => mediaType = "image"

\* The log twice, for the same reason: with the rebuild and one event less, and with
\* all events, one fault and the consumers alone.
RebuildStep   == part = "rebuild" /\ LogNext /\ events' \subseteq 1..MaxSequence - 1
ConsumersOnly == part = "consumers" /\ ConsumersNext /\ logFaults' <= 1

LogPart      == part \in {"rebuild", "consumers"}
                  /\ UNCHANGED <<searchVars, mediaVars, scheduleVars, part>>
SearchPart   == part = "search" /\ UNCHANGED <<logVars, mediaVars, scheduleVars, part>>
MediaPart    == part = "media" /\ UNCHANGED <<logVars, searchVars, scheduleVars, part>>
SchedulePart == part = "schedule" /\ UNCHANGED <<logVars, searchVars, mediaVars, part>>

MCNext ==
    \/ LogPart /\ (RebuildStep \/ ConsumersOnly)
    \/ SearchPart /\ SearchNext
    \/ MediaPart /\ MediaNext
    \/ SchedulePart /\ ScheduleNext

\* Every second the supervised consumer runs process to its end; a worker of the
\* index or of the media jobs that runs polls its table.  Their steps wait for
\* nothing.  Nothing makes a rebuild run, a writer commit, a scheduler come back.
MCFairness ==
    /\ \A n \in Consumers : WF_allVars(LogPart /\ ConsumerStep(n))
    /\ \A w \in IndexWorkers : WF_allVars(SearchPart /\ IndexStep(w))
    /\ \A w \in MediaWorkers : WF_allVars(MediaPart /\ WorkerStep(w))

MCSpec == MCInit /\ [][MCNext]_allVars /\ MCFairness

\* The type invariants of the four parts.
QueuesTypeOK == LogTypeOK /\ SearchTypeOK /\ MediaTypeOK /\ ScheduleTypeOK
=============================================================================
