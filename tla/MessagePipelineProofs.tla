------------------------- MODULE MessagePipelineProofs -------------------------
(***************************************************************************)
(* Proofs about the durable send path, for every number of messages, calls *)
(* and crashes and every LIMIT of the worker's query.                      *)
(***************************************************************************)
EXTENDS MessagePipeline, FiniteSetTheorems, TLAPS

\* The created_at given to a new outbox row is a number, and not the 0 that
\* stands for "no row".
LEMMA NextCreatedAt == Cardinality(Rows) + 1 \in Nat \ {0}
<1>1. IsFiniteSet(Rows)
  BY PipelineAssumption, FS_Subset DEF Rows
<1>2. Cardinality(Rows) \in Nat
  BY <1>1, FS_CardinalityType
<1> QED
  BY <1>2

\* The row the worker's loop is at is unique.
LEMMA CurrentUnique ==
    ASSUME TypeOK, NEW c \in Calls, NEW d \in Calls, Current(c), Current(d)
    PROVE  c = d
BY DEF TypeOK, Current, Older

\* A step of Process keeps the inductive invariant.
LEMMA CallKeepsInv ==
    ASSUME PipelineInv, NEW c \in Calls, CallNext(c)
    PROVE  PipelineInv'
<1> USE DEF PipelineInv, TypeOK, Carried, WriteOrder, SoleWriter, Writers,
            KnownRows, AckedIsStored, HandedOver, MarkedReachedProducer, Rows,
            Current, Older, CallPC, WorkerPC, callVars, tableVars, workerVars,
            kafkaVars
<1>1. ASSUME NEW m \in Messages, Begin(c, m) PROVE PipelineInv'
  BY <1>1, NoMessageAssumption DEF Begin
<1>2. CASE Reject(c)
  BY <1>2 DEF Reject
<1>3. CASE IsDuplicate(c)
  BY <1>3 DEF IsDuplicate
<1>4. CASE SaveMessage(c)
  BY <1>4 DEF SaveMessage, DBResult
<1>5. CASE SaveKey(c)
  BY <1>5 DEF SaveKey, DBResult
<1>6. CASE SaveEvent(c)
  BY <1>6, NextCreatedAt DEF SaveEvent, DBResult
<1> QED
  BY <1>1, <1>2, <1>3, <1>4, <1>5, <1>6 DEF CallNext

\* A step of the outbox worker keeps the inductive invariant.
LEMMA WorkerKeepsInv ==
    ASSUME PipelineInv, WorkerNext
    PROVE  PipelineInv'
<1> USE DEF PipelineInv, TypeOK, Carried, WriteOrder, SoleWriter, Writers,
            KnownRows, AckedIsStored, HandedOver, MarkedReachedProducer, Rows,
            CallPC, WorkerPC, callVars, tableVars, workerVars, kafkaVars
<1>1. CASE GetUnpublishedEvents
  BY <1>1 DEF GetUnpublishedEvents, UnpublishedEvents, Unpublished
<1>2. ASSUME NEW c \in Calls, LoadMessage(c) PROVE PipelineInv'
  BY <1>2 DEF LoadMessage
<1>3. ASSUME NEW c \in Calls, LoadFails(c) PROVE PipelineInv'
  BY <1>3 DEF LoadFails, FinishRow, Current
<1>4. ASSUME NEW c \in Calls, Publish(c) PROVE PipelineInv'
  <2>1. \A d \in batch : Current(d) => d = c
    BY <1>4, CurrentUnique DEF Publish
  <2>2. batch' = batch /\ createdAt' = createdAt /\ msg' = msg
    BY <1>4 DEF Publish
  <2>3. \A d \in batch : Current(d)' => d = c
    BY <2>1, <2>2 DEF Current, Older
  <2> QED
    BY <1>4, <2>2, <2>3 DEF Publish, Current
<1>5. ASSUME NEW c \in Calls, MarkPublished(c) PROVE PipelineInv'
  BY <1>5 DEF MarkPublished, FinishRow, Current
<1>6. ASSUME NEW c \in Calls, MarkFails(c) PROVE PipelineInv'
  BY <1>6 DEF MarkFails, FinishRow, Current
<1> QED
  BY <1>1, <1>2, <1>3, <1>4, <1>5, <1>6 DEF WorkerNext

\* A report of the producer or a crash keeps the inductive invariant: what the
\* producer loses is recorded, and a crash empties the worker's batch.
LEMMA EnvironmentKeepsInv ==
    ASSUME PipelineInv,
           Crash \/ (\E m \in Messages : Delivered(m) \/ DeliveryFailed(m))
    PROVE  PipelineInv'
<1> USE DEF PipelineInv, TypeOK, Carried, WriteOrder, SoleWriter, Writers,
            KnownRows, AckedIsStored, HandedOver, MarkedReachedProducer, Rows,
            Current, Older, CallPC, WorkerPC, callVars, tableVars, workerVars,
            kafkaVars
<1>1. CASE Crash
  BY <1>1, PipelineAssumption DEF Crash, Running
<1>2. ASSUME NEW m \in Messages, Delivered(m) PROVE PipelineInv'
  BY <1>2 DEF Delivered
<1>3. ASSUME NEW m \in Messages, DeliveryFailed(m) PROVE PipelineInv'
  BY <1>3 DEF DeliveryFailed
<1> QED
  BY <1>1, <1>2, <1>3

\* The inductive invariant holds in every reachable state of the send path.
THEOREM PipelineInvariant == Spec => []PipelineInv
<1>1. Init => PipelineInv
  BY PipelineAssumption, NoMessageAssumption
     DEF Init, PipelineInv, TypeOK, Carried, WriteOrder, SoleWriter, Writers,
         KnownRows, AckedIsStored, HandedOver, MarkedReachedProducer, Rows,
         Current, CallPC, WorkerPC
<1>2. PipelineInv /\ [Next]_vars => PipelineInv'
  <2> SUFFICES ASSUME PipelineInv, [Next]_vars PROVE PipelineInv'
    OBVIOUS
  <2>1. CASE UNCHANGED vars
    BY <2>1 DEF vars, PipelineInv, TypeOK, Carried, WriteOrder, SoleWriter,
                Writers, KnownRows, AckedIsStored, HandedOver,
                MarkedReachedProducer, Rows, Current, Older
  <2> QED
    BY <2>1, CallKeepsInv, WorkerKeepsInv, EnvironmentKeepsInv DEF Next
<1> QED
  BY <1>1, <1>2, PTL DEF Spec

\* Type correctness of the send path.
THEOREM TypeCorrect == Spec => []TypeOK
<1>1. PipelineInv => TypeOK
  BY DEF PipelineInv
<1> QED
  BY <1>1, PipelineInvariant, PTL

\* No message ever has two outbox events, for any number of concurrent,
\* repeated and crashed calls of Process.
THEOREM NoSecondEvent == Spec => []OneEventPerMessage
<1>1. PipelineInv => OneEventPerMessage
  BY DEF PipelineInv, SoleWriter, Writers, OneEventPerMessage
<1> QED
  BY <1>1, PipelineInvariant, PTL

\* A call of Process that reports success carries a stored message.
THEOREM NoFalseAck == Spec => []AckedIsStored
<1>1. PipelineInv => AckedIsStored
  BY DEF PipelineInv
<1> QED
  BY <1>1, PipelineInvariant, PTL

\* An event marked published was handed to the Kafka producer before.
THEOREM MarkAfterPublish == Spec => []MarkedReachedProducer
<1>1. PipelineInv => MarkedReachedProducer
  BY DEF PipelineInv
<1> QED
  BY <1>1, PipelineInvariant, PTL

-----------------------------------------------------------------------------
(* The pipeline implements MessageLifecycle *)

\* The abstract state: the stage of every id.
Bar == [m \in Messages |-> StageOf(m)]

\* A step that leaves the tables and the ids of the rows alone moves no id.
LEMMA StagesStay ==
    ASSUME messages' = messages, keys' = keys, published' = published,
           Rows' = Rows, \A c \in Rows : msg'[c] = msg[c]
    PROVE  Bar' = Bar
<1>1. ASSUME NEW m \in Messages PROVE EventsOf(m)' = EventsOf(m)
  BY DEF EventsOf
<1> QED
  BY <1>1 DEF Bar, StageOf

\* A step that moves one id to the next stage and no other id is a step of the
\* abstract specification.
LEMMA OneMoves ==
    ASSUME NEW m0 \in Messages, Lifecycle!Follows(StageOf(m0), StageOf(m0)'),
           \A m \in Messages \ {m0} : StageOf(m)' = StageOf(m)
    PROVE  Lifecycle!LifecycleNext
<1>1. StageOf(m0)' \in Lifecycle!Stages
  BY DEF StageOf, Lifecycle!Stages
<1>2. Bar' = [Bar EXCEPT ![m0] = StageOf(m0)']
  BY DEF Bar
<1>3. Bar[m0] = StageOf(m0)
  BY DEF Bar
<1>4. Lifecycle!Advance(m0)
  BY <1>1, <1>2, <1>3 DEF Lifecycle!Advance, Bar
<1> QED
  BY <1>4 DEF Lifecycle!LifecycleNext

\* A write of Process moves the id of the call by one stage, or none.
LEMMA CallMovesOne ==
    ASSUME PipelineInv, NEW c \in Calls, CallNext(c)
    PROVE  Lifecycle!LifecycleNext \/ Bar' = Bar
<1> USE DEF PipelineInv, TypeOK, Carried, WriteOrder, SoleWriter, Writers,
            KnownRows, callVars, tableVars, workerVars, kafkaVars, Rows
<1>1. ASSUME NEW m \in Messages, Begin(c, m) PROVE Bar' = Bar
  BY <1>1, StagesStay DEF Begin
<1>2. CASE Reject(c) \/ IsDuplicate(c)
  BY <1>2, StagesStay DEF Reject, IsDuplicate
<1>3. CASE SaveMessage(c)
  <2>1. CASE messages' = messages
    BY <1>3, <2>1, StagesStay DEF SaveMessage
  <2>2. CASE messages' # messages
    <3>1. msg[c] \in Messages \ messages /\ messages' = messages \cup {msg[c]}
      BY <1>3, <2>2 DEF SaveMessage, CallPC
    <3>2. /\ keys' = keys /\ published' = published /\ msg' = msg
          /\ createdAt' = createdAt
      BY <1>3 DEF SaveMessage
    <3>3. \A m \in Messages : EventsOf(m)' = EventsOf(m)
      BY <3>2 DEF EventsOf
    <3>4. EventsOf(msg[c]) = {} /\ msg[c] \notin keys
      BY <3>1 DEF EventsOf
    <3>5. StageOf(msg[c]) = "absent" /\ StageOf(msg[c])' = "stored"
      BY <3>1, <3>2, <3>3, <3>4 DEF StageOf
    <3>6. \A m \in Messages \ {msg[c]} : StageOf(m)' = StageOf(m)
      BY <3>1, <3>2, <3>3 DEF StageOf
    <3> QED
      BY <3>1, <3>2, <3>5, <3>6, OneMoves DEF Lifecycle!Follows
  <2> QED
    BY <2>1, <2>2
<1>4. CASE SaveKey(c)
  <2>1. CASE keys' = keys
    BY <1>4, <2>1, StagesStay DEF SaveKey
  <2>2. CASE keys' # keys
    <3>1. /\ msg[c] \in Messages /\ msg[c] \in messages /\ msg[c] \notin keys
          /\ keys' = keys \cup {msg[c]}
      BY <1>4, <2>2 DEF SaveKey
    <3>2. /\ messages' = messages /\ published' = published /\ msg' = msg
          /\ createdAt' = createdAt
      BY <1>4 DEF SaveKey
    <3>3. \A m \in Messages : EventsOf(m)' = EventsOf(m)
      BY <3>2 DEF EventsOf
    <3>4. EventsOf(msg[c]) = {}
      BY <3>1 DEF EventsOf
    <3>5. StageOf(msg[c]) = "stored" /\ StageOf(msg[c])' = "keyed"
      BY <3>1, <3>2, <3>3, <3>4 DEF StageOf
    <3>6. \A m \in Messages \ {msg[c]} : StageOf(m)' = StageOf(m)
      BY <3>1, <3>2, <3>3 DEF StageOf
    <3> QED
      BY <3>1, <3>2, <3>5, <3>6, OneMoves DEF Lifecycle!Follows
  <2> QED
    BY <2>1, <2>2
<1>5. CASE SaveEvent(c)
  <2>1. CASE createdAt' = createdAt
    BY <1>5, <2>1, StagesStay DEF SaveEvent
  <2>2. CASE createdAt' # createdAt
    <3>1. /\ pc[c] = "event" /\ msg[c] \in Messages /\ msg[c] \in keys
          /\ c \notin Rows
      BY <1>5 DEF SaveEvent
    <3>2. /\ messages' = messages /\ published' = published /\ msg' = msg
          /\ keys' = keys
      BY <1>5 DEF SaveEvent
    <3>3. Rows' = Rows \cup {c}
      BY <1>5, <2>2, NextCreatedAt DEF SaveEvent
    <3>4. EventsOf(msg[c]) = {} /\ EventsOf(msg[c])' = {c}
      BY <3>1, <3>2, <3>3 DEF EventsOf
    <3>5. \A m \in Messages \ {msg[c]} : EventsOf(m)' = EventsOf(m)
      BY <3>2, <3>3 DEF EventsOf
    <3>6. StageOf(msg[c]) = "keyed" /\ StageOf(msg[c])' = "queued"
      BY <3>1, <3>2, <3>4 DEF StageOf
    <3>7. \A m \in Messages \ {msg[c]} : StageOf(m)' = StageOf(m)
      BY <3>2, <3>5 DEF StageOf
    <3> QED
      BY <3>1, <3>2, <3>6, <3>7, OneMoves DEF Lifecycle!Follows
  <2> QED
    BY <2>1, <2>2
<1> QED
  BY <1>1, <1>2, <1>3, <1>4, <1>5 DEF CallNext

\* The worker moves an id only when it marks the id's one event.
LEMMA MarkMovesOne ==
    ASSUME PipelineInv, NEW c \in Calls, MarkPublished(c)
    PROVE  Lifecycle!LifecycleNext \/ Bar' = Bar
<1> USE DEF PipelineInv, TypeOK, Carried, WriteOrder, SoleWriter, Writers,
            KnownRows, callVars, kafkaVars, Rows
<1>1. CASE c \in published
  BY <1>1, StagesStay DEF MarkPublished
<1>2. CASE c \notin published
  <2>1. /\ c \in Rows /\ msg[c] \in Messages
        /\ published' = published \cup {c}
    BY DEF MarkPublished, Current
  <2>2. /\ messages' = messages /\ keys' = keys /\ msg' = msg
        /\ createdAt' = createdAt
    BY DEF MarkPublished
  <2>3. \A m \in Messages : EventsOf(m)' = EventsOf(m)
    BY <2>2 DEF EventsOf
  <2>4. EventsOf(msg[c]) = {c}
    BY <2>1 DEF EventsOf
  <2>5. \A m \in Messages \ {msg[c]} : c \notin EventsOf(m)
    BY DEF EventsOf
  <2>6. StageOf(msg[c]) = "queued" /\ StageOf(msg[c])' = "published"
    BY <1>2, <2>1, <2>2, <2>3, <2>4 DEF StageOf
  <2>7. \A m \in Messages \ {msg[c]} : StageOf(m)' = StageOf(m)
    BY <2>1, <2>2, <2>3, <2>5 DEF StageOf
  <2> QED
    BY <2>1, <2>2, <2>6, <2>7, OneMoves DEF Lifecycle!Follows
<1> QED
  BY <1>1, <1>2

\* The send path implements MessageLifecycle: every id goes through stored, key,
\* event and published in this order, never back, for any number of calls.
THEOREM PipelineImplementsLifecycle == Spec => ImplementsLifecycle
<1>1. Init => Lifecycle!LifecycleInit
  BY DEF Init, Lifecycle!LifecycleInit, StageOf, EventsOf, Rows
<1>2. PipelineInv /\ [Next]_vars => [Lifecycle!LifecycleNext]_Bar
  <2> SUFFICES ASSUME PipelineInv, [Next]_vars
               PROVE  Lifecycle!LifecycleNext \/ Bar' = Bar
    OBVIOUS
  <2>1. CASE UNCHANGED vars
    BY <2>1, StagesStay DEF vars, Rows
  <2>2. CASE WorkerNext
    <3>1. CASE GetUnpublishedEvents
      BY <3>1, StagesStay DEF GetUnpublishedEvents, callVars, tableVars, Rows
    <3>2. ASSUME NEW c \in Calls,
                 LoadMessage(c) \/ LoadFails(c) \/ Publish(c) \/ MarkFails(c)
          PROVE  Bar' = Bar
      BY <3>2, StagesStay DEF LoadMessage, LoadFails, Publish, MarkFails,
                              callVars, tableVars, Rows
    <3> QED
      BY <2>2, <3>1, <3>2, MarkMovesOne DEF WorkerNext
  <2>3. CASE Crash \/ \E m \in Messages : Delivered(m) \/ DeliveryFailed(m)
    BY <2>3, StagesStay DEF Crash, Delivered, DeliveryFailed, callVars,
                            tableVars, Rows
  <2> QED
    BY <2>1, <2>2, <2>3, CallMovesOne DEF Next
<1> QED
  BY <1>1, <1>2, PipelineInvariant, PTL
     DEF Spec, ImplementsLifecycle, Lifecycle!LifecycleSpec, Bar
=============================================================================
