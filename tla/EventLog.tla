-------------------------------- MODULE EventLog --------------------------------
(***************************************************************************)
(* The events table and one projection of it: the consumer every node runs *)
(* (checkpoint, batch, dispatch, dead letters), and the rebuild of the     *)
(* projection by replaying the whole log.                                  *)
(*                                                                         *)
(* An event is its sequence number.  The number is drawn (BIGSERIAL) before *)
(* the writer's transaction commits, so events become visible in any order, *)
(* and a number whose transaction is rolled back never does.               *)
(* The two consumers of the application, "audit" and "search", run this    *)
(* code on checkpoints and tables of their own; the model is of one of them. *)
(***************************************************************************)
EXTENDS Naturals, FiniteSets

CONSTANTS
    Consumers,      \* the nodes: each runs the consumer
    MaxSequence,    \* bound: sequence numbers drawn
    BatchSize,      \* 100
    ReplayBatch,    \* 1000
    MaxLogFaults    \* bound: failures of the database, and restarts, in a behaviour

ASSUME LogAssumption ==
    /\ MaxSequence \in Nat /\ MaxLogFaults \in Nat
    /\ BatchSize \in Nat \ {0} /\ ReplayBatch \in Nat \ {0}

VARIABLES
    events,         \* the committed rows of events
    malformed,      \* those whose payload the projection cannot read, at no time
    checkpoint,     \* last_sequence in projection_checkpoints; 0 without a row
    consumer,       \* what each node's consumer is doing
    eventDlq,       \* event_dlq
    projection,     \* the rows of the projection
    rebuild,        \* what the rebuild is doing
    seen,           \* history: the numbers the batches of the consumers held
    late,           \* history: events committed below a number already seen
    handled,        \* history: events a consumer has dispatched
    unlettered,     \* history: events whose dead letter was not stored either
    logFaults

logTables   == <<events, malformed, checkpoint, eventDlq, projection>>
logHistory  == <<seen, late, handled, unlettered>>
logVars     == <<logTables, consumer, rebuild, logHistory, logFaults>>

Numbers == 1..MaxSequence
ConsumerPC == {"idle", "read", "batch"}
RebuildPC  == {"none", "read", "batch", "done", "cut", "failed"}

\* A batch: the rows still to be dispatched, the cursor they were selected from,
\* and the last number dispatched with success (0 for none).
Job(pc, from, rows, processed) ==
    [pc |-> pc, from |-> from, rows |-> rows, processed |-> processed]
IdleJob == Job("idle", 0, {}, 0)
Jobs(pcs) == [pc : pcs, from : 0..MaxSequence, rows : SUBSET Numbers,
              processed : 0..MaxSequence]

\* WHERE sequence > from ORDER BY sequence LIMIT limit
After(from, limit) ==
    {e \in events : e > from /\ Cardinality({x \in events : from < x /\ x < e}) < limit}

\* The loop over a batch takes its rows in their order.
IsNext(e, rows) == e \in rows /\ \A x \in rows : e <= x

LogFault == logFaults < MaxLogFaults /\ logFaults' = logFaults + 1

LogInit ==
    /\ events = {} /\ malformed = {}
    /\ checkpoint = 0 /\ eventDlq = {} /\ projection = {}
    /\ consumer = [n \in Consumers |-> IdleJob]
    /\ rebuild = Job("none", 0, {}, 0)
    /\ seen = {} /\ late = {} /\ handled = {} /\ unlettered = {}
    /\ logFaults = 0

-----------------------------------------------------------------------------
(* A writer's transaction commits *)

CommitEvent(e) ==
    /\ e \notin events
    /\ events' = events \cup {e}
    /\ malformed' \in {malformed, malformed \cup {e}}
    /\ late' = IF \E s \in seen : e < s THEN late \cup {e} ELSE late
    /\ UNCHANGED <<checkpoint, eventDlq, projection, consumer, rebuild,
                   seen, handled, unlettered, logFaults>>

-----------------------------------------------------------------------------
(* Consumer.process; a node that stops anywhere in it leaves its transaction *)
(* to be rolled back                                                        *)

GetCheckpoint(n) ==
    /\ consumer[n].pc = "idle"
    /\ consumer' = [consumer EXCEPT ![n] = Job("read", checkpoint, {}, 0)]
    /\ UNCHANGED <<logTables, rebuild, logHistory, logFaults>>

\* Mutant: the checkpoint moves to the end of the batch as soon as it is read.
SelectBatchAndAdvance(n) ==
    /\ consumer[n].pc = "read"
    /\ LET rows == After(consumer[n].from, BatchSize)
       IN  /\ consumer' = [consumer EXCEPT ![n] = Job("batch", 0, rows, 0)]
           /\ seen' = seen \cup rows
           /\ \/ rows = {} /\ UNCHANGED checkpoint
              \/ checkpoint' \in rows /\ \A x \in rows : x <= checkpoint'
    /\ UNCHANGED <<events, malformed, eventDlq, projection, rebuild, late, handled,
                   unlettered, logFaults>>

SelectBatch(n) ==
    /\ consumer[n].pc = "read"
    /\ LET rows == After(consumer[n].from, BatchSize)
       IN  /\ consumer' = [consumer EXCEPT ![n] = Job("batch", 0, rows, 0)]
           /\ seen' = seen \cup rows
    /\ UNCHANGED <<logTables, rebuild, late, handled, unlettered, logFaults>>

\* The projection is written over another connection: it keeps what the
\* transaction of the batch may still lose.
Dispatch(n) ==
    /\ consumer[n].pc = "batch"
    /\ \E e \in consumer[n].rows :
           /\ IsNext(e, consumer[n].rows) /\ e \notin malformed
           /\ projection' = projection \cup {e}
           /\ handled' = handled \cup {e}
           /\ consumer' = [consumer EXCEPT ![n] = Job("batch", 0, @.rows \ {e}, e)]
    /\ UNCHANGED <<events, malformed, checkpoint, eventDlq, rebuild, seen, late,
                   unlettered, logFaults>>

\* A failed dispatch, of a malformed event every time, goes to the dead letters,
\* whose own error is dropped, and the batch goes on.
DispatchFails(n) ==
    /\ consumer[n].pc = "batch"
    /\ \E e \in consumer[n].rows :
           /\ IsNext(e, consumer[n].rows)
           /\ (e \in malformed /\ UNCHANGED logFaults) \/ (e \notin malformed /\ LogFault)
           /\ \/ eventDlq' = eventDlq \cup {e} /\ UNCHANGED unlettered
              \/ unlettered' = unlettered \cup {e} /\ UNCHANGED eventDlq
           /\ consumer' = [consumer EXCEPT ![n] = Job("batch", 0, @.rows \ {e}, @.processed)]
    /\ UNCHANGED <<events, malformed, checkpoint, projection, rebuild, seen, late,
                   handled>>

\* Mutant: the checkpoint is the number after the last one dispatched.
CommitPastBatch(n) ==
    /\ consumer[n].pc = "batch" /\ consumer[n].rows = {}
    /\ checkpoint' = IF consumer[n].processed > 0 THEN consumer[n].processed + 1 ELSE checkpoint
    /\ consumer' = [consumer EXCEPT ![n] = IdleJob]
    /\ UNCHANGED <<events, malformed, eventDlq, projection, rebuild, logHistory, logFaults>>

\* Mutant: a batch that advanced nothing leaves the consumer waiting.
CommitProgress(n) ==
    /\ consumer[n].pc = "batch" /\ consumer[n].rows = {} /\ consumer[n].processed > 0
    /\ checkpoint' = consumer[n].processed
    /\ consumer' = [consumer EXCEPT ![n] = IdleJob]
    /\ UNCHANGED <<events, malformed, eventDlq, projection, rebuild, logHistory, logFaults>>

\* The upsert overwrites: a slow node moves the checkpoint back.
CommitBatch(n) ==
    /\ consumer[n].pc = "batch" /\ consumer[n].rows = {}
    /\ checkpoint' = IF consumer[n].processed > 0 THEN consumer[n].processed ELSE checkpoint
    /\ consumer' = [consumer EXCEPT ![n] = IdleJob]
    /\ UNCHANGED <<events, malformed, eventDlq, projection, rebuild, logHistory, logFaults>>

\* A statement of process fails, the commit fails, or the node restarts.
AbandonBatch(n) ==
    /\ consumer[n].pc # "idle"
    /\ LogFault
    /\ consumer' = [consumer EXCEPT ![n] = IdleJob]
    /\ UNCHANGED <<logTables, rebuild, logHistory>>

-----------------------------------------------------------------------------
(* RebuildSearchProjection and Replay *)

Truncate ==
    /\ rebuild.pc \notin {"read", "batch"}
    /\ projection' = {}
    /\ rebuild' = Job("read", 0, {}, 0)
    /\ UNCHANGED <<events, malformed, checkpoint, eventDlq, consumer, logHistory, logFaults>>

\* Mutant: Replay ends with the second batch.
ReadOneBatch ==
    /\ rebuild.pc = "read"
    /\ LET rows == After(rebuild.from, ReplayBatch)
       IN  rebuild' = Job(IF rebuild.from > 0 \/ rows = {} THEN "done" ELSE "batch",
                          rebuild.from, rows, 0)
    /\ UNCHANGED <<logTables, consumer, logHistory, logFaults>>

\* Replay ends with the first batch that is empty.
ReadBatch ==
    /\ rebuild.pc = "read"
    /\ rebuild' = Job(IF \E e \in events : e > rebuild.from THEN "batch" ELSE "done",
                      rebuild.from, After(rebuild.from, ReplayBatch), 0)
    /\ UNCHANGED <<logTables, consumer, logHistory, logFaults>>

ReplayNext ==
    /\ rebuild.pc = "batch"
    /\ \/ /\ rebuild.rows = {}
          /\ rebuild' = Job("read", rebuild.from, {}, 0) /\ UNCHANGED projection
       \/ \E e \in rebuild.rows :
             /\ IsNext(e, rebuild.rows) /\ e \notin malformed
             /\ projection' = projection \cup {e}
             /\ rebuild' = Job("batch", e, rebuild.rows \ {e}, e)
    /\ UNCHANGED <<events, malformed, checkpoint, eventDlq, consumer, logHistory, logFaults>>

\* The first dispatch that fails ends the replay; the projection stays as it is.
ReplayFails ==
    /\ \/ rebuild.pc \in {"read", "batch"} /\ LogFault
       \/ /\ rebuild.pc = "batch" /\ UNCHANGED logFaults
          /\ \E e \in rebuild.rows \cap malformed : IsNext(e, rebuild.rows)
    /\ rebuild' = Job("failed", 0, {}, 0)
    /\ UNCHANGED <<logTables, consumer, logHistory>>

\* The iteration over the rows breaks off (the context is cancelled) and nobody asks
\* rows.Err(): in front of the first row the batch counts as empty, and Replay
\* reports success.
ReplayCut ==
    /\ rebuild.pc = "batch"
    /\ LogFault
    /\ rebuild' = Job(IF rebuild.processed = 0 THEN "cut" ELSE "read", rebuild.from, {}, 0)
    /\ UNCHANGED <<logTables, consumer, logHistory>>

-----------------------------------------------------------------------------
ConsumerStep(n) ==
    \/ GetCheckpoint(n) \/ SelectBatch(n)
    \/ Dispatch(n) \/ DispatchFails(n) \/ CommitBatch(n)

ConsumersNext ==
    \/ \E e \in Numbers : CommitEvent(e)
    \/ \E n \in Consumers : ConsumerStep(n) \/ AbandonBatch(n)

LogNext ==
    \/ ConsumersNext
    \/ Truncate \/ ReadBatch \/ ReplayNext \/ ReplayFails \/ ReplayCut

LogSpec == LogInit /\ [][LogNext]_logVars

-----------------------------------------------------------------------------
(* Properties *)

LogTypeOK ==
    /\ events \subseteq Numbers /\ malformed \subseteq events
    /\ checkpoint \in 0..MaxSequence
    /\ consumer \in [Consumers -> Jobs(ConsumerPC)]
    /\ rebuild \in Jobs(RebuildPC)
    /\ projection \subseteq events /\ eventDlq \subseteq events
    /\ handled \subseteq events /\ unlettered \subseteq events /\ late \subseteq events
    /\ seen \subseteq events
    /\ logFaults \in 0..MaxLogFaults

\* The checkpoint passes no event that was neither dispatched nor found failing,
\* unless the event was committed below a number a batch had already held; several
\* nodes, rolled back batches and a checkpoint that moves back change nothing.
EventsAccounted ==
    \A e \in events :
        e <= checkpoint => e \in handled \cup eventDlq \cup unlettered \cup late

\* After a rebuild that read the log to its end the projection holds every event a
\* consumer ever dispatched into it, those dispatched while it ran included.
RebuildRestores == rebuild.pc = "done" => handled \subseteq projection

\* The next batch: when it is full and malformed throughout, the checkpoint never
\* passes it, and nobody reads what lies behind it.
NextBatch == After(checkpoint, BatchSize)
Blocked   == Cardinality(NextBatch) = BatchSize /\ NextBatch \subseteq malformed
Readable  == IF Blocked THEN {e \in events : \E x \in NextBatch : e <= x} ELSE events

\* The consumer keeps up: again and again every event that was not committed late
\* and lies behind no blocked batch has been dispatched or found failing.
ReadableReached ==
    []<>(Readable \ late \subseteq handled \cup eventDlq \cup unlettered)
=============================================================================
