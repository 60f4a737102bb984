---------------------------- MODULE EventLogProofs ----------------------------
(***************************************************************************)
(* Proofs about EventLog, for any number of nodes and events, any sizes of *)
(* the batches and any number of failures.                                 *)
(***************************************************************************)
EXTENDS EventLog, FiniteSetTheorems, TLAPS

\* What the consumers are done with, or have given up.
Settled == handled \cup eventDlq \cup unlettered \cup late

AccountedTo(c) == \A e \in events : e <= c => e \in Settled
Reached(c)     == c = 0 \/ c \in seen

\* A cursor: the number of a row some batch held, below which all is settled.
Cursor(c) == AccountedTo(c) /\ Reached(c)

\* A node in the middle of a batch: up to any of its rows everything is settled or
\* still to be dispatched by it.
BatchAccounted(rows, last) ==
    /\ rows \subseteq seen
    /\ Cursor(last)
    /\ \A r \in rows : /\ last < r
                      /\ \A e \in events : e <= r => e \in Settled \cup rows

NodeAccounted(n) ==
    /\ consumer[n].pc = "read" => Cursor(consumer[n].from)
    /\ consumer[n].pc = "batch" => BatchAccounted(consumer[n].rows, consumer[n].processed)

AllAccounted == Cursor(checkpoint) /\ \A n \in Consumers : NodeAccounted(n)

\* What the rebuild has not brought back yet lies ahead of it.
Missing == handled \ projection
RebuildAhead ==
    /\ rebuild.rows \subseteq events
    /\ rebuild.pc \in {"read", "batch"} => \A e \in Missing : e > rebuild.from
    /\ rebuild.pc = "batch" =>
         \A e \in Missing : e \in rebuild.rows \/ \A r \in rebuild.rows : e > r
    /\ rebuild.pc = "done" => Missing = {}

LogInv == LogTypeOK /\ AllAccounted /\ RebuildAhead

-----------------------------------------------------------------------------
(* Batches *)

\* The query leaves out no event in front of one that it returns.
LEMMA AfterIsPrefix ==
  ASSUME events \subseteq Numbers, NEW from \in Nat, NEW limit \in Nat,
         NEW e \in After(from, limit), NEW x \in events, from < x, x <= e
  PROVE  x \in After(from, limit)
<1> DEFINE Before(y) == {z \in events : from < z /\ z < y}
<1>1. events \subseteq Nat /\ IsFiniteSet(events)
  <2>1. IsFiniteSet(1..MaxSequence) /\ 1..MaxSequence \subseteq Nat
    BY FS_Interval, LogAssumption
  <2> QED
    BY <2>1, FS_Subset DEF Numbers
<1>2. IsFiniteSet(Before(e))
  BY <1>1, FS_Subset
<1>3. Before(x) \subseteq Before(e)
  <2>1. e \in Nat /\ x \in Nat
    BY <1>1 DEF After
  <2>2. ASSUME NEW z \in Nat, z < x
        PROVE  z < e
    BY <2>1, <2>2
  <2> QED
    BY <1>1, <2>2
<1>4. /\ Cardinality(Before(x)) <= Cardinality(Before(e))
      /\ Cardinality(Before(x)) \in Nat /\ Cardinality(Before(e)) \in Nat
  BY <1>2, <1>3, FS_Subset, FS_CardinalityType
<1>5. Cardinality(Before(e)) < limit
  BY DEF After
<1> QED
  BY <1>4, <1>5 DEF After

LEMMA AfterIsEvents ==
  \A from, limit : /\ After(from, limit) \subseteq events
                   /\ \A e \in After(from, limit) : e > from
  BY DEF After

LEMMA LogInitial == LogInit => LogInv
  BY LogAssumption
  DEF LogInit, LogInv, LogTypeOK, Numbers, Jobs, ConsumerPC, RebuildPC, Job, IdleJob,
      AllAccounted, NodeAccounted, Cursor, RebuildAhead, AccountedTo, Reached, Missing

-----------------------------------------------------------------------------
(* What holds of a cursor or a batch goes on to hold *)

\* Nothing settled is lost, and an event that comes in below a number of a batch
\* is settled at once.
Keeps ==
    /\ Settled \subseteq Settled' /\ seen \subseteq seen'
    /\ \A e \in events' \ events : \A s \in seen : e <= s => e \in Settled'

LEMMA CursorKept ==
  ASSUME LogTypeOK, LogTypeOK', Keeps, NEW c, Cursor(c)
  PROVE  Cursor(c)'
<1>1. \A e \in events' : e \in Nat /\ e > 0
  BY LogAssumption DEF LogTypeOK, Numbers
<1> QED
  BY <1>1 DEF Cursor, AccountedTo, Reached, Keeps

LEMMA BatchKept ==
  ASSUME LogTypeOK, LogTypeOK', Keeps, NEW rows, NEW last, BatchAccounted(rows, last)
  PROVE  BatchAccounted(rows, last)'
<1>1. Cursor(last)'
  BY CursorKept DEF BatchAccounted
<1> QED
  BY <1>1 DEF BatchAccounted, Keeps

LEMMA NodeKept ==
  ASSUME LogTypeOK, LogTypeOK', Keeps, NEW n \in Consumers, NodeAccounted(n),
         consumer'[n] = consumer[n]
  PROVE  NodeAccounted(n)'
<1>1. consumer[n].pc = "read" => Cursor(consumer[n].from)'
  BY CursorKept DEF NodeAccounted
<1>2. consumer[n].pc = "batch" => BatchAccounted(consumer[n].rows, consumer[n].processed)'
  BY BatchKept DEF NodeAccounted
<1> QED
  BY <1>1, <1>2 DEF NodeAccounted

\* A step of one node: what is to be shown is only of its new place.
LEMMA NodeStep ==
  ASSUME LogTypeOK, AllAccounted, LogTypeOK', Keeps, NEW n \in Consumers, NEW job,
         consumer' = [consumer EXCEPT ![n] = job], Cursor(checkpoint)',
         NodeAccounted(n)'
  PROVE  AllAccounted'
<1>1. ASSUME NEW m \in Consumers, m # n
      PROVE  NodeAccounted(m)'
  <2>1. consumer'[m] = consumer[m]
    BY <1>1 DEF LogTypeOK
  <2> QED
    BY <2>1, NodeKept DEF AllAccounted
<1> QED
  BY <1>1 DEF AllAccounted

-----------------------------------------------------------------------------
(* The steps of a consumer *)

LEMMA GetCheckpointStep ==
  ASSUME LogInv, NEW n \in Consumers, GetCheckpoint(n)
  PROVE  LogInv'
<1>1. LogTypeOK'
  BY LogAssumption
  DEF GetCheckpoint, LogInv, LogTypeOK, logTables, logHistory, Job, Jobs, ConsumerPC
<1>2. Keeps
  BY DEF GetCheckpoint, Keeps, Settled, logTables, logHistory
<1>3. Cursor(checkpoint)'
  BY DEF GetCheckpoint, LogInv, AllAccounted, Cursor, AccountedTo, Reached, Settled,
         logTables, logHistory
<1>4. NodeAccounted(n)'
  BY <1>3 DEF GetCheckpoint, LogInv, LogTypeOK, NodeAccounted, Job, logTables
<1>5. AllAccounted'
  BY <1>1, <1>2, <1>3, <1>4, NodeStep DEF GetCheckpoint, LogInv
<1>6. RebuildAhead'
  BY DEF GetCheckpoint, LogInv, RebuildAhead, Missing, logTables, logHistory
<1> QED
  BY <1>1, <1>5, <1>6 DEF LogInv

LEMMA SelectBatchStep ==
  ASSUME LogInv, NEW n \in Consumers, SelectBatch(n)
  PROVE  LogInv'
<1> DEFINE from == consumer[n].from
<1>0. PICK rows : rows = After(from, BatchSize)
  OBVIOUS
<1>1. /\ consumer' = [consumer EXCEPT ![n] = Job("batch", 0, rows, 0)]
      /\ seen' = seen \cup rows
      /\ UNCHANGED <<logTables, rebuild, late, handled, unlettered, logFaults>>
  BY <1>0 DEF SelectBatch
<1>2. from \in Nat /\ events \subseteq Numbers /\ Cursor(from)
  BY LogAssumption DEF SelectBatch, LogInv, LogTypeOK, Jobs, AllAccounted, NodeAccounted
<1>3. rows \subseteq events /\ \A r \in rows : r > from
  BY <1>0, AfterIsEvents
<1>4. LogTypeOK'
  BY <1>1, <1>2, <1>3, LogAssumption
  DEF LogInv, LogTypeOK, logTables, Job, Jobs, ConsumerPC, Numbers
<1>5. Keeps
  BY <1>1 DEF Keeps, Settled, logTables
<1>6. Cursor(checkpoint)'
  BY <1>1, <1>4, <1>5, CursorKept DEF LogInv, AllAccounted, logTables
<1>7. BatchAccounted(rows, 0)'
  <2>1. events \subseteq Nat \ {0}
    BY <1>2, LogAssumption DEF Numbers
  <2>2. Cursor(0)'
    BY <1>1, <2>1 DEF Cursor, AccountedTo, Reached, logTables
  <2>3. ASSUME NEW r \in rows, NEW e \in events, e <= r, e \notin Settled
        PROVE  e \in rows
    <3>1. from < e
      BY <1>2, <2>1, <2>3 DEF Cursor, AccountedTo
    <3> QED
      BY <1>0, <1>2, <2>3, <3>1, AfterIsPrefix, LogAssumption
  <2> QED
    BY <1>1, <1>3, <2>1, <2>2, <2>3 DEF BatchAccounted, Settled, logTables
<1>8. NodeAccounted(n)'
  BY <1>1, <1>7 DEF LogInv, LogTypeOK, NodeAccounted, Job
<1>9. AllAccounted'
  BY <1>1, <1>4, <1>5, <1>6, <1>8, NodeStep DEF LogInv
<1>10. RebuildAhead'
  BY <1>1 DEF LogInv, RebuildAhead, Missing, logTables
<1> QED
  BY <1>4, <1>9, <1>10 DEF LogInv

\* The next row of a batch is settled: what is left of the batch is accounted for,
\* and the row is a cursor.
LEMMA RowSettled ==
  ASSUME LogTypeOK, LogTypeOK', Keeps, NEW rows \in SUBSET Numbers, NEW last \in Nat,
         BatchAccounted(rows, last), NEW e \in rows, IsNext(e, rows),
         events' = events, e \in Settled'
  PROVE  BatchAccounted(rows \ {e}, last)' /\ BatchAccounted(rows \ {e}, e)'
<1>1. BatchAccounted(rows, last)'
  BY BatchKept
<1>2. rows \subseteq Nat /\ events \subseteq Nat
  BY LogAssumption DEF LogTypeOK, Numbers
<1>3. Cursor(e)'
  BY <1>1, <1>2 DEF BatchAccounted, IsNext, Cursor, AccountedTo, Reached
<1>4. \A r \in rows \ {e} : e < r
  BY <1>2 DEF IsNext
<1> QED
  BY <1>1, <1>3, <1>4 DEF BatchAccounted

LEMMA DispatchStep ==
  ASSUME LogInv, NEW n \in Consumers, Dispatch(n)
  PROVE  LogInv'
<1>0. PICK rows : rows = consumer[n].rows
  OBVIOUS
<1>1. PICK e \in rows :
        /\ IsNext(e, rows)
        /\ projection' = projection \cup {e}
        /\ handled' = handled \cup {e}
        /\ consumer' = [consumer EXCEPT ![n] = Job("batch", 0, rows \ {e}, e)]
  BY <1>0 DEF Dispatch, LogInv, LogTypeOK
<1>2. /\ consumer[n].pc = "batch"
      /\ UNCHANGED <<events, malformed, checkpoint, eventDlq, rebuild, seen, late, unlettered,
                     logFaults>>
  BY DEF Dispatch
<1>3. /\ rows \in SUBSET Numbers /\ consumer[n].processed \in Nat
      /\ BatchAccounted(rows, consumer[n].processed)
      /\ e \in events /\ e \in Numbers
  BY <1>0, <1>2, LogAssumption
  DEF LogInv, LogTypeOK, Jobs, AllAccounted, NodeAccounted, BatchAccounted
<1>4. LogTypeOK'
  BY <1>1, <1>2, <1>3, LogAssumption
  DEF LogInv, LogTypeOK, Jobs, Job, ConsumerPC, Numbers
<1>5. Keeps
  BY <1>1, <1>2 DEF Keeps, Settled
<1>6. Cursor(checkpoint)'
  BY <1>2, <1>4, <1>5, CursorKept DEF LogInv, AllAccounted
<1>7. BatchAccounted(rows \ {e}, e)'
  <2>1. e \in Settled'
    BY <1>1 DEF Settled
  <2> QED
    BY <1>1, <1>2, <1>3, <1>4, <1>5, <2>1, RowSettled DEF LogInv
<1>8. NodeAccounted(n)'
  BY <1>1, <1>7 DEF LogInv, LogTypeOK, NodeAccounted, Job
<1>9. AllAccounted'
  BY <1>1, <1>4, <1>5, <1>6, <1>8, NodeStep DEF LogInv
<1>10. RebuildAhead'
  BY <1>1, <1>2 DEF LogInv, RebuildAhead, Missing
<1> QED
  BY <1>4, <1>9, <1>10 DEF LogInv

LEMMA DispatchFailsStep ==
  ASSUME LogInv, NEW n \in Consumers, DispatchFails(n)
  PROVE  LogInv'
<1>0. PICK rows, last : rows = consumer[n].rows /\ last = consumer[n].processed
  OBVIOUS
<1>1. PICK e \in rows :
        /\ IsNext(e, rows)
        /\ \/ eventDlq' = eventDlq \cup {e} /\ UNCHANGED unlettered
           \/ unlettered' = unlettered \cup {e} /\ UNCHANGED eventDlq
        /\ consumer' = [consumer EXCEPT ![n] = Job("batch", 0, rows \ {e}, last)]
  BY <1>0 DEF DispatchFails, LogInv, LogTypeOK
<1>2. /\ consumer[n].pc = "batch"
      /\ \/ logFaults' = logFaults
         \/ logFaults < MaxLogFaults /\ logFaults' = logFaults + 1
      /\ UNCHANGED <<events, malformed, checkpoint, projection, rebuild, seen, late, handled>>
  BY DEF DispatchFails, LogFault
<1>3. /\ rows \in SUBSET Numbers /\ last \in 0..MaxSequence /\ last \in Nat
      /\ BatchAccounted(rows, last)
      /\ e \in events /\ e \in Numbers
  BY <1>0, <1>2, LogAssumption
  DEF LogInv, LogTypeOK, Jobs, AllAccounted, NodeAccounted, BatchAccounted
<1>4. LogTypeOK'
  <2>1. logFaults' \in 0..MaxLogFaults
    BY <1>2, LogAssumption DEF LogInv, LogTypeOK
  <2>2. consumer' \in [Consumers -> Jobs(ConsumerPC)]
    BY <1>1, <1>3, LogAssumption DEF LogInv, LogTypeOK, Jobs, Job, ConsumerPC
  <2>3. eventDlq' \subseteq events' /\ unlettered' \subseteq events'
    BY <1>1, <1>2, <1>3 DEF LogInv, LogTypeOK
  <2> QED
    BY <1>2, <2>1, <2>2, <2>3 DEF LogInv, LogTypeOK
<1>5. Keeps
  BY <1>1, <1>2 DEF Keeps, Settled
<1>6. Cursor(checkpoint)'
  BY <1>2, <1>4, <1>5, CursorKept DEF LogInv, AllAccounted
<1>7. BatchAccounted(rows \ {e}, last)'
  <2>1. e \in Settled'
    BY <1>1 DEF Settled
  <2> QED
    BY <1>1, <1>2, <1>3, <1>4, <1>5, <2>1, RowSettled DEF LogInv
<1>8. NodeAccounted(n)'
  BY <1>1, <1>7 DEF LogInv, LogTypeOK, NodeAccounted, Job
<1>9. AllAccounted'
  BY <1>1, <1>4, <1>5, <1>6, <1>8, NodeStep DEF LogInv
<1>10. RebuildAhead'
  BY <1>2 DEF LogInv, RebuildAhead, Missing
<1> QED
  BY <1>4, <1>9, <1>10 DEF LogInv

LEMMA CommitBatchStep ==
  ASSUME LogInv, NEW n \in Consumers, CommitBatch(n)
  PROVE  LogInv'
<1>1. PICK last : last = consumer[n].processed
  OBVIOUS
<1>2. /\ consumer[n].pc = "batch"
      /\ checkpoint' = IF last > 0 THEN last ELSE checkpoint
      /\ consumer' = [consumer EXCEPT ![n] = IdleJob]
      /\ UNCHANGED <<events, malformed, eventDlq, projection, rebuild, logHistory, logFaults>>
  BY <1>1 DEF CommitBatch
<1>3. last \in 0..MaxSequence /\ Cursor(last)
  BY <1>1, <1>2 DEF LogInv, LogTypeOK, Jobs, AllAccounted, NodeAccounted, BatchAccounted
<1>4. LogTypeOK'
  BY <1>2, <1>3, LogAssumption
  DEF LogInv, LogTypeOK, Jobs, Job, IdleJob, ConsumerPC, logHistory
<1>5. Keeps
  BY <1>2 DEF Keeps, Settled, logHistory
<1>6. Cursor(checkpoint)'
  <2>1. Cursor(last)'
    BY <1>3, <1>4, <1>5, CursorKept DEF LogInv
  <2>2. \A c : c = checkpoint => Cursor(c)'
    BY <1>4, <1>5, CursorKept DEF LogInv, AllAccounted
  <2>3. checkpoint' = last \/ checkpoint' = checkpoint
    BY <1>2
  <2> QED
    BY <2>1, <2>2, <2>3 DEF Cursor, AccountedTo, Reached
<1>7. NodeAccounted(n)'
  BY <1>2 DEF LogInv, LogTypeOK, NodeAccounted, Job, IdleJob
<1>8. AllAccounted'
  BY <1>2, <1>4, <1>5, <1>6, <1>7, NodeStep DEF LogInv
<1>9. RebuildAhead'
  BY <1>2 DEF LogInv, RebuildAhead, Missing, logHistory
<1> QED
  BY <1>4, <1>8, <1>9 DEF LogInv

LEMMA AbandonBatchStep ==
  ASSUME LogInv, NEW n \in Consumers, AbandonBatch(n)
  PROVE  LogInv'
<1>1. /\ consumer' = [consumer EXCEPT ![n] = IdleJob]
      /\ logFaults < MaxLogFaults /\ logFaults' = logFaults + 1
      /\ UNCHANGED <<events, malformed, checkpoint, eventDlq, projection, rebuild,
                     seen, late, handled, unlettered>>
  BY DEF AbandonBatch, LogFault, logTables, logHistory
<1>2. LogTypeOK'
  BY <1>1, LogAssumption
  DEF LogInv, LogTypeOK, Jobs, Job, IdleJob, ConsumerPC
<1>3. Keeps
  BY <1>1 DEF Keeps, Settled
<1>4. Cursor(checkpoint)'
  BY <1>1, <1>2, <1>3, CursorKept DEF LogInv, AllAccounted
<1>5. NodeAccounted(n)'
  BY <1>1 DEF LogInv, LogTypeOK, NodeAccounted, Job, IdleJob
<1>6. AllAccounted'
  BY <1>1, <1>2, <1>3, <1>4, <1>5, NodeStep DEF LogInv
<1>7. RebuildAhead'
  BY <1>1 DEF LogInv, RebuildAhead, Missing
<1> QED
  BY <1>2, <1>6, <1>7 DEF LogInv

-----------------------------------------------------------------------------
(* The writers and the rebuild *)

\* A step in which no node and no checkpoint moves.
LEMMA ConsumersStand ==
  ASSUME LogTypeOK, LogTypeOK', Keeps, AllAccounted, consumer' = consumer,
         checkpoint' = checkpoint
  PROVE  AllAccounted'
<1>1. Cursor(checkpoint)'
  BY CursorKept DEF AllAccounted
<1>2. \A n \in Consumers : NodeAccounted(n)'
  BY NodeKept DEF AllAccounted
<1> QED
  BY <1>1, <1>2 DEF AllAccounted

LEMMA CommitEventStep ==
  ASSUME LogInv, NEW e \in Numbers, CommitEvent(e)
  PROVE  LogInv'
<1>1. /\ events' = events \cup {e}
      /\ malformed' \in {malformed, malformed \cup {e}}
      /\ late' = IF \E s \in seen : e < s THEN late \cup {e} ELSE late
      /\ e \notin events
      /\ UNCHANGED <<checkpoint, eventDlq, projection, consumer, rebuild,
                     seen, handled, unlettered, logFaults>>
  BY DEF CommitEvent
<1>2. LogTypeOK'
  BY <1>1 DEF LogInv, LogTypeOK
<1>3. Keeps
  <2>1. \A s \in seen : e <= s => e < s
    <3>1. \A s \in seen : s # e /\ s \in Nat
      BY <1>1, LogAssumption DEF LogInv, LogTypeOK, Numbers
    <3>2. e \in Nat
      BY LogAssumption DEF Numbers
    <3> QED
      BY <3>1, <3>2
  <2> QED
    BY <1>1, <2>1 DEF Keeps, Settled
<1>4. AllAccounted'
  BY <1>1, <1>2, <1>3, ConsumersStand DEF LogInv
<1>5. RebuildAhead'
  BY <1>1 DEF LogInv, RebuildAhead, Missing
<1> QED
  BY <1>2, <1>4, <1>5 DEF LogInv

LEMMA TruncateStep ==
  ASSUME LogInv, Truncate
  PROVE  LogInv'
<1>1. /\ projection' = {} /\ rebuild' = Job("read", 0, {}, 0)
      /\ UNCHANGED <<events, malformed, checkpoint, eventDlq, consumer, logHistory, logFaults>>
  BY DEF Truncate
<1>2. LogTypeOK'
  BY <1>1, LogAssumption DEF LogInv, LogTypeOK, Job, Jobs, RebuildPC, logHistory
<1>3. Keeps
  BY <1>1 DEF Keeps, Settled, logHistory
<1>4. AllAccounted'
  BY <1>1, <1>2, <1>3, ConsumersStand DEF LogInv
<1>5. RebuildAhead'
  <2>1. \A e \in handled : e > 0
    BY LogAssumption DEF LogInv, LogTypeOK, Numbers
  <2> QED
    BY <1>1, <2>1 DEF RebuildAhead, Missing, Job, logHistory
<1> QED
  BY <1>2, <1>4, <1>5 DEF LogInv

LEMMA ReadBatchStep ==
  ASSUME LogInv, ReadBatch
  PROVE  LogInv'
<1>0. PICK from, rows : from = rebuild.from /\ rows = After(from, ReplayBatch)
  OBVIOUS
<1>1. /\ rebuild.pc = "read"
      /\ rebuild' = Job(IF \E e \in events : e > from THEN "batch" ELSE "done", from, rows, 0)
      /\ UNCHANGED <<events, malformed, checkpoint, eventDlq, projection, consumer,
                     seen, late, handled, unlettered, logFaults>>
  BY <1>0 DEF ReadBatch, logTables, logHistory
<1>2. /\ from \in 0..MaxSequence /\ from \in Nat
      /\ rows \subseteq events /\ events \subseteq Numbers
      /\ handled \subseteq events
      /\ \A e \in Missing : e > from
  BY <1>0, <1>1, AfterIsEvents, LogAssumption DEF LogInv, LogTypeOK, Jobs, RebuildAhead
<1>3. LogTypeOK'
  BY <1>1, <1>2, LogAssumption DEF LogInv, LogTypeOK, Job, Jobs, RebuildPC
<1>4. Keeps
  BY <1>1 DEF Keeps, Settled
<1>5. AllAccounted'
  BY <1>1, <1>3, <1>4, ConsumersStand DEF LogInv
<1>6. RebuildAhead'
  <2>1. \A e \in Missing : e \in rows \/ \A r \in rows : e > r
    <3>1. Missing \subseteq events /\ events \subseteq Nat
      <4>1. Missing \subseteq handled
        BY DEF Missing
      <4>2. Numbers \subseteq Nat
        BY LogAssumption DEF Numbers
      <4> QED
        BY <1>2, <4>1, <4>2
    <3>2. ASSUME NEW e \in Missing, NEW r \in rows, e <= r
          PROVE  e \in rows
      <4>1. e \in events /\ from < e
        BY <1>2, <3>1
      <4> QED
        BY <1>0, <1>2, <3>2, <4>1, AfterIsPrefix, LogAssumption
    <3>3. \A e \in Missing, r \in rows : e <= r \/ e > r
      BY <1>2, <3>1
    <3> QED
      BY <3>2, <3>3
  <2>2. (~ \E e \in events : e > from) => Missing = {}
    BY <1>2 DEF Missing
  <2> QED
    BY <1>1, <1>2, <2>1, <2>2 DEF RebuildAhead, Missing, Job
<1> QED
  BY <1>3, <1>5, <1>6 DEF LogInv

LEMMA ReplayNextStep ==
  ASSUME LogInv, ReplayNext
  PROVE  LogInv'
<1>0. PICK from, rows : from = rebuild.from /\ rows = rebuild.rows
  OBVIOUS
<1>1. /\ from \in 0..MaxSequence /\ rows \subseteq Numbers /\ Numbers \subseteq Nat
      /\ rows \subseteq events
      /\ \A e \in Missing : e \in Nat /\ e > from
      /\ \A e \in Missing : e \in rows \/ \A r \in rows : e > r
  BY <1>0, LogAssumption
  DEF ReplayNext, LogInv, LogTypeOK, Jobs, RebuildAhead, Missing, Numbers
<1>2. UNCHANGED <<events, malformed, checkpoint, eventDlq, consumer, seen, late, handled,
                  unlettered, logFaults>>
  BY DEF ReplayNext, logHistory
<1>3. Keeps
  BY <1>2 DEF Keeps, Settled
<1>4. LogTypeOK' => AllAccounted'
  BY <1>2, <1>3, ConsumersStand DEF LogInv
<1>5. CASE rows = {} /\ rebuild' = Job("read", from, {}, 0) /\ UNCHANGED projection
  <2>1. LogTypeOK'
    BY <1>1, <1>2, <1>5, LogAssumption DEF LogInv, LogTypeOK, Job, Jobs, RebuildPC
  <2>2. RebuildAhead'
    BY <1>1, <1>2, <1>5 DEF RebuildAhead, Missing, Job
  <2> QED
    BY <1>4, <2>1, <2>2 DEF LogInv
<1>6. ASSUME NEW e \in rows, IsNext(e, rows), projection' = projection \cup {e},
             rebuild' = Job("batch", e, rows \ {e}, e)
      PROVE  LogInv'
  <2>1. e \in events
    BY <1>1
  <2>2. LogTypeOK'
    BY <1>1, <1>2, <1>6, <2>1, LogAssumption
    DEF LogInv, LogTypeOK, Job, Jobs, RebuildPC, Numbers
  <2>3. RebuildAhead'
    BY <1>1, <1>2, <1>6 DEF RebuildAhead, Missing, Job, IsNext
  <2> QED
    BY <1>4, <2>2, <2>3 DEF LogInv
<1> QED
  BY <1>0, <1>5, <1>6 DEF ReplayNext

LEMMA ReplayFailsStep ==
  ASSUME LogInv, ReplayFails
  PROVE  LogInv'
<1>1. /\ rebuild' = Job("failed", 0, {}, 0)
      /\ \/ logFaults' = logFaults
         \/ logFaults < MaxLogFaults /\ logFaults' = logFaults + 1
      /\ UNCHANGED <<events, malformed, checkpoint, eventDlq, projection, consumer,
                     seen, late, handled, unlettered>>
  BY DEF ReplayFails, LogFault, logTables, logHistory
<1>2. LogTypeOK'
  BY <1>1, LogAssumption DEF LogInv, LogTypeOK, Job, Jobs, RebuildPC
<1>3. Keeps
  BY <1>1 DEF Keeps, Settled
<1>4. AllAccounted'
  BY <1>1, <1>2, <1>3, ConsumersStand DEF LogInv
<1>5. RebuildAhead'
  BY <1>1 DEF RebuildAhead, Job
<1> QED
  BY <1>2, <1>4, <1>5 DEF LogInv

LEMMA ReplayCutStep ==
  ASSUME LogInv, ReplayCut
  PROVE  LogInv'
<1>0. PICK from, pc : /\ from = rebuild.from
                      /\ pc = IF rebuild.processed = 0 THEN "cut" ELSE "read"
  OBVIOUS
<1>1. /\ rebuild.pc = "batch" /\ rebuild' = Job(pc, from, {}, 0)
      /\ logFaults < MaxLogFaults /\ logFaults' = logFaults + 1
      /\ UNCHANGED <<events, malformed, checkpoint, eventDlq, projection, consumer,
                     seen, late, handled, unlettered>>
  BY <1>0 DEF ReplayCut, LogFault, logTables, logHistory
<1>2. pc \in {"cut", "read"} /\ from \in 0..MaxSequence
  BY <1>0 DEF LogInv, LogTypeOK, Jobs
<1>3. LogTypeOK'
  BY <1>1, <1>2, LogAssumption DEF LogInv, LogTypeOK, Job, Jobs, RebuildPC
<1>4. Keeps
  BY <1>1 DEF Keeps, Settled
<1>5. AllAccounted'
  BY <1>1, <1>3, <1>4, ConsumersStand DEF LogInv
<1>6. RebuildAhead'
  BY <1>0, <1>1, <1>2 DEF LogInv, RebuildAhead, Missing, Job
<1> QED
  BY <1>3, <1>5, <1>6 DEF LogInv

-----------------------------------------------------------------------------
(* The theorems *)

LEMMA LogStep == LogInv /\ [LogNext]_logVars => LogInv'
<1> SUFFICES ASSUME LogInv, [LogNext]_logVars
             PROVE  LogInv'
  OBVIOUS
<1>1. CASE \E e \in Numbers : CommitEvent(e)
  BY <1>1, CommitEventStep
<1>2. ASSUME NEW n \in Consumers, ConsumerStep(n) \/ AbandonBatch(n)
      PROVE  LogInv'
  BY <1>2, GetCheckpointStep, SelectBatchStep, DispatchStep, CommitBatchStep,
     DispatchFailsStep, AbandonBatchStep DEF ConsumerStep
<1>3. CASE Truncate \/ ReadBatch \/ ReplayNext \/ ReplayFails \/ ReplayCut
  BY <1>3, TruncateStep, ReadBatchStep, ReplayNextStep, ReplayFailsStep, ReplayCutStep
<1>4. CASE UNCHANGED logVars
  BY <1>4
  DEF LogInv, LogTypeOK, AllAccounted, NodeAccounted, BatchAccounted, Cursor, AccountedTo,
      Reached, Settled, RebuildAhead, Missing, logVars, logTables, logHistory
<1> QED
  BY <1>1, <1>2, <1>3, <1>4 DEF LogNext, ConsumersNext

\* LogInv is an invariant of the log, its consumers and the rebuild.
THEOREM LogInvariant == LogSpec => []LogInv
  BY LogInitial, LogStep, PTL DEF LogSpec

\* Type correctness: what consumers and projections hold are committed events
\* (Consumer.process).
THEOREM LogTypeCorrect == LogSpec => []LogTypeOK
<1>1. LogInv => LogTypeOK
  BY DEF LogInv
<1> QED
  BY <1>1, LogInvariant, PTL

\* The checkpoint passes no event that was neither dispatched nor found failing,
\* however many nodes run the consumer (consumer.go:82, the loop over a batch).
THEOREM NothingIsSkipped == LogSpec => []EventsAccounted
<1>1. LogInv => EventsAccounted
  BY DEF LogInv, AllAccounted, Cursor, AccountedTo, Settled, EventsAccounted
<1> QED
  BY <1>1, LogInvariant, PTL

\* A rebuild that reads the log to its end brought back every event dispatched before
\* or meanwhile (replay.go Replay).
THEOREM RebuildIsComplete == LogSpec => []RebuildRestores
<1>1. LogInv => RebuildRestores
  BY DEF LogInv, RebuildAhead, Missing, RebuildRestores
<1> QED
  BY <1>1, LogInvariant, PTL
=============================================================================
