---------------------------- MODULE MessagePipeline ----------------------------
(***************************************************************************)
(* The durable send path: MessageService.Process writes a message, its     *)
(* idempotency key and its outbox event with three separate statements;    *)
(* OutboxWorker.process reads unpublished events, hands their messages to  *)
(* the Kafka producer and marks the events; the producer delivers          *)
(* asynchronously.  The server process may crash between any two steps.    *)
(*                                                                         *)
(* A call is one execution of Process.  Calls that carry the same id are   *)
(* the retries and concurrent duplicates of one REST send; a WebSocket     *)
(* frame always gets a fresh id.  The outbox event written by a call is    *)
(* identified with the call, because its id is a fresh UUID of that call.  *)
(***************************************************************************)
EXTENDS Naturals, FiniteSets

CONSTANTS
    Messages,       \* message ids
    Calls,          \* executions of Process, each runs at most once
    BatchLimit,     \* LIMIT of the worker's query (100 in the code)
    MaxCrashes      \* bound on the number of crashes of the process

ASSUME PipelineAssumption ==
    /\ IsFiniteSet(Calls)
    /\ BatchLimit \in Nat \ {0}
    /\ MaxCrashes \in Nat

NoMessage == "none"
ASSUME NoMessageAssumption == NoMessage \notin Messages

VARIABLES
    pc,             \* where each call is
    msg,            \* the id each call carries
    messages,       \* table messages: ids with a row
    keys,           \* table message_deduplication
    createdAt,      \* table outbox_events: created_at of a call's row, 0 if none
    published,      \* rows with published_at set
    retried,        \* rows with retry_count > 0
    archiving,      \* ids whose file-store goroutine has been started
    wpc,            \* where the outbox worker is inside process()
    batch,          \* rows the worker fetched and has not finished
    buffer,         \* ids in the producer's local queue
    topic,          \* ids that reached the Kafka topic
    lost,           \* history: ids the producer dropped at least once
    crashes         \* number of crashes so far

callVars   == <<pc, msg>>
tableVars  == <<messages, keys, createdAt, published, retried>>
workerVars == <<wpc, batch>>
kafkaVars  == <<buffer, topic, lost>>
vars == <<pc, msg, messages, keys, createdAt, published, retried, archiving,
          wpc, batch, buffer, topic, lost, crashes>>

CallPC   == {"idle", "check", "save", "key", "event", "acked", "failed"}
WorkerPC == {"idle", "load", "publish", "mark"}
Running  == {"check", "save", "key", "event"}

(***************************************************************************)
(* A statement sent to PostgreSQL is applied and reported, or fails, or is *)
(* applied while the caller sees an error (the request context is          *)
(* cancelled, the connection drops after the commit).                      *)
(***************************************************************************)
DBResult == {"applied", "failed", "unknown"}

Rows           == {c \in Calls : createdAt[c] # 0}
EventsOf(m)    == {c \in Rows : msg[c] = m}
Unpublished    == Rows \ published
Older(c, d)    == createdAt[c] < createdAt[d]

Init ==
    /\ pc = [c \in Calls |-> "idle"]
    /\ msg = [c \in Calls |-> NoMessage]
    /\ messages = {} /\ keys = {}
    /\ createdAt = [c \in Calls |-> 0]
    /\ published = {} /\ retried = {} /\ archiving = {}
    /\ wpc = "idle" /\ batch = {}
    /\ buffer = {} /\ topic = {} /\ lost = {}
    /\ crashes = 0

-----------------------------------------------------------------------------
(* MessageService.Process *)

\* A request with id m enters Process.
Begin(c, m) ==
    /\ pc[c] = "idle"
    /\ pc' = [pc EXCEPT ![c] = "check"]
    /\ msg' = [msg EXCEPT ![c] = m]
    /\ UNCHANGED <<tableVars, archiving, workerVars, kafkaVars, crashes>>

\* Validation, rate limit, user, room, permission or the key lookup fails.
Reject(c) ==
    /\ pc[c] = "check"
    /\ pc' = [pc EXCEPT ![c] = "failed"]
    /\ UNCHANGED <<msg, tableVars, archiving, workerVars, kafkaVars, crashes>>

\* Mutant: the lookup claims the key at once (insert, then look at the row count).
IsDuplicateClaimsKey(c) ==
    /\ pc[c] = "check"
    /\ pc' = [pc EXCEPT ![c] = IF msg[c] \in keys THEN "acked" ELSE "save"]
    /\ keys' = keys \cup {msg[c]}
    /\ UNCHANGED <<msg, messages, createdAt, published, retried, archiving,
                   workerVars, kafkaVars, crashes>>

\* A known key ends the call with success, an unknown one lets it go on.
IsDuplicate(c) ==
    /\ pc[c] = "check"
    /\ pc' = [pc EXCEPT ![c] = IF msg[c] \in keys THEN "acked" ELSE "save"]
    /\ UNCHANGED <<msg, tableVars, archiving, workerVars, kafkaVars, crashes>>

\* Mutant: the insert ignores a conflict on the id.
SaveMessageOnConflictDoNothing(c) ==
    /\ pc[c] = "save"
    /\ \E r \in DBResult :
         /\ messages' = IF r = "failed" THEN messages
                                        ELSE messages \cup {msg[c]}
         /\ archiving' = IF r = "applied" THEN archiving \cup {msg[c]}
                                          ELSE archiving
         /\ pc' = [pc EXCEPT ![c] = IF r = "applied" THEN "key" ELSE "failed"]
    /\ UNCHANGED <<msg, keys, createdAt, published, retried, workerVars,
                   kafkaVars, crashes>>

\* INSERT INTO messages: the primary key refuses an id that has a row.  The
\* file-store goroutine starts only when the insert was reported.
SaveMessage(c) ==
    /\ pc[c] = "save"
    /\ \E r \in DBResult :
         /\ msg[c] \in messages => r = "failed"
         /\ messages' = IF r = "failed" THEN messages
                                        ELSE messages \cup {msg[c]}
         /\ archiving' = IF r = "applied" THEN archiving \cup {msg[c]}
                                          ELSE archiving
         /\ pc' = [pc EXCEPT ![c] = IF r = "applied" THEN "key" ELSE "failed"]
    /\ UNCHANGED <<msg, keys, createdAt, published, retried, workerVars,
                   kafkaVars, crashes>>

\* Mutant: a failure to write the key is logged and the call goes on.
SaveKeyLogsFailure(c) ==
    /\ pc[c] = "key"
    /\ keys' \in {keys, keys \cup {msg[c]}}
    /\ pc' = [pc EXCEPT ![c] = "event"]
    /\ UNCHANGED <<msg, messages, createdAt, published, retried, archiving,
                   workerVars, kafkaVars, crashes>>

\* INSERT INTO message_deduplication ... ON CONFLICT DO NOTHING.
SaveKey(c) ==
    /\ pc[c] = "key"
    /\ \E r \in DBResult :
         /\ keys' = IF r = "failed" THEN keys ELSE keys \cup {msg[c]}
         /\ pc' = [pc EXCEPT ![c] = IF r = "applied" THEN "event" ELSE "failed"]
    /\ UNCHANGED <<msg, messages, createdAt, published, retried, archiving,
                   workerVars, kafkaVars, crashes>>

\* INSERT INTO outbox_events, then the call returns nil.
SaveEvent(c) ==
    /\ pc[c] = "event"
    /\ \E r \in DBResult :
         /\ createdAt' = IF r = "failed" THEN createdAt
                         ELSE [createdAt EXCEPT ![c] = Cardinality(Rows) + 1]
         /\ pc' = [pc EXCEPT ![c] = IF r = "applied" THEN "acked" ELSE "failed"]
    /\ UNCHANGED <<msg, messages, keys, published, retried, archiving,
                   workerVars, kafkaVars, crashes>>

-----------------------------------------------------------------------------
(* OutboxWorker.process *)

\* Mutant: the query also asks for retry_count = 0.
UnpublishedUntried ==
    {c \in Unpublished \ retried :
        Cardinality({d \in Unpublished : Older(d, c)}) < BatchLimit}

\* WHERE published_at IS NULL ORDER BY created_at LIMIT BatchLimit.
UnpublishedEvents ==
    {c \in Unpublished :
        Cardinality({d \in Unpublished : Older(d, c)}) < BatchLimit}

\* The rows of the batch in the order of the loop.
Current(c) == c \in batch /\ \A d \in batch \ {c} : Older(c, d)

\* A tick of the 2 s ticker finds work.
GetUnpublishedEvents ==
    /\ wpc = "idle"
    /\ UnpublishedEvents # {}
    /\ batch' = UnpublishedEvents
    /\ wpc' = "load"
    /\ UNCHANGED <<callVars, tableVars, archiving, kafkaVars, crashes>>

\* Mutant: the end of the batch is not noticed.
FinishRowKeepsLoading(c) ==
    /\ batch' = batch \ {c}
    /\ wpc' = "load"

\* The loop goes on with the next row, or process() returns.
FinishRow(c) ==
    /\ batch' = batch \ {c}
    /\ wpc' = IF batch = {c} THEN "idle" ELSE "load"

\* Mutant: the row is marked before its message is handed to the producer.
LoadMessageMarksFirst(c) ==
    /\ wpc = "load" /\ Current(c)
    /\ msg[c] \in messages
    /\ published' = published \cup {c}
    /\ wpc' = "publish"
    /\ UNCHANGED <<callVars, messages, keys, createdAt, retried, archiving,
                   batch, kafkaVars, crashes>>

\* GetMessage finds the message of the row.
LoadMessage(c) ==
    /\ wpc = "load" /\ Current(c)
    /\ msg[c] \in messages
    /\ wpc' = "publish"
    /\ UNCHANGED <<callVars, tableVars, archiving, batch, kafkaVars, crashes>>

\* GetMessage fails: the row is counted (if that write succeeds) and skipped.
LoadFails(c) ==
    /\ wpc = "load" /\ Current(c)
    /\ retried' \in {retried, retried \cup {c}}
    /\ FinishRow(c)
    /\ UNCHANGED <<callVars, messages, keys, createdAt, published, archiving,
                   kafkaVars, crashes>>

\* MessageDistributor.Broadcast: the error of Produce is dropped and nil is
\* returned, so the row goes on to be marked either way.
Publish(c) ==
    /\ wpc = "publish" /\ Current(c)
    /\ \/ buffer' = buffer \cup {msg[c]} /\ UNCHANGED lost
       \/ lost' = lost \cup {msg[c]} /\ UNCHANGED buffer
    /\ wpc' = "mark"
    /\ UNCHANGED <<callVars, tableVars, archiving, batch, topic, crashes>>

\* UPDATE outbox_events SET published_at: a failure leaves the row for the
\* next tick, which publishes it again.
MarkPublished(c) ==
    /\ wpc = "mark" /\ Current(c)
    /\ published' = published \cup {c}
    /\ FinishRow(c)
    /\ UNCHANGED <<callVars, messages, keys, createdAt, retried, archiving,
                   kafkaVars, crashes>>

MarkFails(c) ==
    /\ wpc = "mark" /\ Current(c)
    /\ FinishRow(c)
    /\ UNCHANGED <<callVars, tableVars, archiving, kafkaVars, crashes>>

-----------------------------------------------------------------------------
(* The Kafka producer, and the process that holds everything but the tables *)

\* A delivery report without an error: the id is in the topic.
Delivered(m) ==
    /\ m \in buffer
    /\ buffer' = buffer \ {m}
    /\ topic' = topic \cup {m}
    /\ UNCHANGED <<callVars, tableVars, archiving, workerVars, lost, crashes>>

\* A delivery report with an error is logged and forgotten.
DeliveryFailed(m) ==
    /\ m \in buffer
    /\ buffer' = buffer \ {m}
    /\ lost' = lost \cup {m}
    /\ UNCHANGED <<callVars, tableVars, archiving, workerVars, topic, crashes>>

\* The process dies: running calls end without an answer, the worker's loop
\* and the producer's local queue are gone, the tables and the topic stay.
Crash ==
    /\ crashes < MaxCrashes
    /\ crashes' = crashes + 1
    /\ pc' = [c \in Calls |-> IF pc[c] \in Running THEN "failed" ELSE pc[c]]
    /\ wpc' = "idle" /\ batch' = {}
    /\ buffer' = {}
    /\ lost' = lost \cup buffer
    /\ UNCHANGED <<msg, tableVars, archiving, topic>>

-----------------------------------------------------------------------------
CallNext(c) ==
    \/ \E m \in Messages : Begin(c, m)
    \/ Reject(c) \/ IsDuplicate(c)
    \/ SaveMessage(c) \/ SaveKey(c) \/ SaveEvent(c)

WorkerNext ==
    \/ GetUnpublishedEvents
    \/ \E c \in Calls : \/ LoadMessage(c) \/ LoadFails(c) \/ Publish(c)
                        \/ MarkPublished(c) \/ MarkFails(c)

Next ==
    \/ \E c \in Calls : CallNext(c)
    \/ WorkerNext
    \/ \E m \in Messages : Delivered(m) \/ DeliveryFailed(m)
    \/ Crash

Spec == Init /\ [][Next]_vars

(***************************************************************************)
(* The ticker keeps calling process() and the loop keeps going; a database *)
(* that fails does not fail every time, so the statement of a row that is  *)
(* tried again and again succeeds at last.  Nothing is assumed of the      *)
(* callers, of Kafka or of crashes.                                        *)
(***************************************************************************)
Fairness ==
    /\ WF_vars(GetUnpublishedEvents)
    /\ \A c \in Calls : /\ SF_vars(LoadMessage(c))
                        /\ WF_vars(Publish(c))
                        /\ SF_vars(MarkPublished(c))

FairSpec == Spec /\ Fairness

-----------------------------------------------------------------------------
(* Properties *)

\* Type correctness.  The worker is inside its loop exactly when it holds rows
\* of the batch, and it only holds rows that exist.
TypeOK ==
    /\ pc \in [Calls -> CallPC]
    /\ msg \in [Calls -> Messages \cup {NoMessage}]
    /\ messages \subseteq Messages /\ keys \subseteq Messages
    /\ createdAt \in [Calls -> Nat]
    /\ published \subseteq Calls /\ retried \subseteq Calls
    /\ archiving \subseteq Messages
    /\ wpc \in WorkerPC /\ batch \subseteq Calls
    /\ wpc = "idle" <=> batch = {}
    /\ buffer \subseteq Messages /\ topic \subseteq Messages
    /\ lost \subseteq Messages
    /\ crashes \in 0..MaxCrashes

\* Although Process looks up the idempotency key and writes it in two separate
\* statements, no interleaving of concurrent, repeated and crashed calls gives
\* a message two outbox events: the primary key of messages serialises them.
OneEventPerMessage ==
    \A c, d \in Rows : msg[c] = msg[d] => c = d

\* A call that returned nil, also one that returned early because the key was
\* known, carries a message that is in the messages table.
AckedIsStored ==
    \A c \in Calls : pc[c] = "acked" => msg[c] \in messages

\* The message of a row marked published is in the topic or on its way there,
\* unless the producer itself dropped it: a crash of the worker between Publish
\* and MarkPublished never loses a message.
MarkedReachedProducer ==
    \A c \in published : msg[c] \in topic \cup buffer \cup lost

\* The outbox worker publishes every event that was ever saved, in spite of
\* failing statements, crashes and the LIMIT of its query.
QueuedIsPublished ==
    \A c \in Calls : (c \in Rows) ~> (c \in published)

\* The stage of each id, and the abstract specification the pipeline implements.
StageOf(m) ==
    IF EventsOf(m) # {}
    THEN IF EventsOf(m) \subseteq published THEN "published" ELSE "queued"
    ELSE IF m \in keys THEN "keyed"
    ELSE IF m \in messages THEN "stored" ELSE "absent"

Lifecycle == INSTANCE MessageLifecycle
                 WITH stage <- [m \in Messages |-> StageOf(m)]

\* Per id, the tables only move forward through stored, key, event, published,
\* one stage at a time (the abstract specification MessageLifecycle).
ImplementsLifecycle == Lifecycle!LifecycleSpec

-----------------------------------------------------------------------------
(* The strengthening that makes the invariants above inductive *)

\* A call that has begun carries an id.
Carried == \A c \in Calls : pc[c] # "idle" => msg[c] \in Messages

\* The three writes of Process happen in order, and a row outlives its call.
WriteOrder ==
    /\ keys \subseteq messages
    /\ \A c \in Calls : pc[c] \in {"key", "event"} => msg[c] \in messages
    /\ \A c \in Calls : pc[c] = "event" => msg[c] \in keys
    /\ \A c \in Rows : msg[c] \in keys /\ pc[c] \in {"acked", "failed"}

\* A call past the insert of its message, or whose event exists, is the only
\* such call for that message: the primary key lets no second one through.
Writers == {c \in Calls : pc[c] \in {"key", "event"}} \cup Rows
SoleWriter == \A c, d \in Writers : msg[c] = msg[d] => c = d

\* The worker and the published column only speak of rows that exist.
KnownRows == published \subseteq Rows /\ batch \subseteq Rows

\* Between Publish and MarkPublished the message is with the producer.
HandedOver ==
    wpc = "mark" => \A c \in batch : Current(c) =>
                        msg[c] \in topic \cup buffer \cup lost

\* The inductive invariant of the pipeline: no step of Process, of the outbox
\* worker, of the producer or a crash leaves it.
PipelineInv ==
    /\ TypeOK /\ Carried /\ WriteOrder /\ SoleWriter /\ KnownRows
    /\ AckedIsStored /\ HandedOver /\ MarkedReachedProducer

-----------------------------------------------------------------------------
(* What the documentation says of this path, and the code does not do *)

\* "Write outbox entry (message_outbox) in same transaction": a message whose
\* sender was told "sent" has its outbox event.
AckedHasEvent ==
    \A c \in Calls : pc[c] = "acked" => EventsOf(msg[c]) # {}
=============================================================================
