----------------------------- MODULE QueuesProofs -----------------------------
(***************************************************************************)
(* Proofs about the tables workers drain: the scheduled messages, the      *)
(* queue of the search index, the media jobs, for any number of workers,   *)
(* rows and failures; and about the runs that hold them side by side.      *)
(***************************************************************************)
EXTENDS MCQueues, EventLogProofs

-----------------------------------------------------------------------------
(* Scheduler *)

Holds(s, m) == m \in toPublish[s]
Held(m)     == \E s \in Schedulers : Holds(s, m)

\* A message has one holder, and is in one of four places: not claimed yet, held,
\* sent, dropped.
InOnePlace ==
    \A m \in ScheduledMessages :
        /\ \A s, t \in Schedulers : Holds(s, m) /\ Holds(t, m) => s = t
        /\ sent[m] \in {0, 1}
        /\ Held(m) => scheduled[m] = "published" /\ sent[m] = 0 /\ m \notin dropped
        /\ sent[m] = 1 => scheduled[m] = "published" /\ m \notin dropped
        /\ m \in dropped => scheduled[m] = "published"
        /\ scheduled[m] = "published" => Held(m) \/ sent[m] = 1 \/ m \in dropped

ScheduleInv == ScheduleTypeOK /\ InOnePlace

LEMMA ScheduleInitial == ScheduleInit => ScheduleInv
  BY DEF ScheduleInit, ScheduleInv, ScheduleTypeOK, InOnePlace, Held, Holds

LEMMA ScheduleStep == ScheduleInv /\ [ScheduleNext]_scheduleVars => ScheduleInv'
<1> SUFFICES ASSUME ScheduleInv, [ScheduleNext]_scheduleVars
             PROVE  ScheduleInv'
  OBVIOUS
<1> USE DEF ScheduleInv, ScheduleTypeOK, InOnePlace, Held, Holds
<1>1. ASSUME NEW m \in ScheduledMessages, BecomeDue(m)
      PROVE  ScheduleInv'
  BY <1>1 DEF BecomeDue
<1>2. ASSUME NEW s \in Schedulers, LockPendingMessages(s)
      PROVE  ScheduleInv'
  BY <1>2 DEF LockPendingMessages
<1>3. ASSUME NEW s \in Schedulers, PublishMessage(s)
      PROVE  ScheduleInv'
  BY <1>3 DEF PublishMessage
<1>4. ASSUME NEW s \in Schedulers, SchedulerDies(s)
      PROVE  ScheduleInv'
  BY <1>4 DEF SchedulerDies
<1>5. CASE UNCHANGED scheduleVars
  BY <1>5 DEF scheduleVars
<1> QED
  BY <1>1, <1>2, <1>3, <1>4, <1>5 DEF ScheduleNext

\* The invariant of the scheduled messages holds always.
THEOREM ScheduleInvariant == ScheduleSpec => []ScheduleInv
  BY ScheduleInitial, ScheduleStep, PTL DEF ScheduleSpec

\* A set of at most one element has the cardinality zero or one.
LEMMA AtMostOne ==
  ASSUME NEW S, \A x, y \in S : x = y
  PROVE  Cardinality(S) = IF S = {} THEN 0 ELSE 1
<1>1. CASE S = {}
  BY <1>1, FS_EmptySet
<1>2. CASE S # {}
  <2>1. PICK x : S = {x}
    BY <1>2
  <2> QED
    BY <2>1, <1>2, FS_Singleton
<1> QED
  BY <1>1, <1>2

\* Several schedulers, dying at any step, publish no message twice, and account for
\* every row they marked (repository.go LockPendingMessages).
THEOREM NoSecondPublication == ScheduleSpec => []ScheduledOnce
<1>1. ScheduleInv => ScheduledOnce
  <2> SUFFICES ASSUME ScheduleInv, NEW m \in ScheduledMessages
               PROVE  LET holders == Cardinality({s \in Schedulers : m \in toPublish[s]})
                      IN  holders + sent[m] + (IF m \in dropped THEN 1 ELSE 0)
                            = IF scheduled[m] = "published" THEN 1 ELSE 0
    BY DEF ScheduledOnce
  <2> DEFINE holders == {s \in Schedulers : m \in toPublish[s]}
  <2>1. Cardinality(holders) = IF holders = {} THEN 0 ELSE 1
    <3>1. \A s, t \in holders : s = t
      BY DEF ScheduleInv, InOnePlace, Holds
    <3> QED
      BY <3>1, AtMostOne
  <2>2. holders = {} <=> ~Held(m)
    BY DEF Held, Holds
  <2> QED
    BY <2>1, <2>2 DEF ScheduleInv, ScheduleTypeOK, InOnePlace
<1> QED
  BY <1>1, ScheduleInvariant, PTL

-----------------------------------------------------------------------------
(* The search index *)

\* What a row that was handled with success means, as long as no later event or
\* writer undid it.
WasApplied(i) ==
    IF items[i].op = "delete" THEN i \in overtaken \/ items[i].msg \notin indexed
    ELSE items[i].msg \notin stored

\* A claimed row is not processed, and no other worker has it.
ClaimsAreApart ==
    \A v, w \in IndexWorkers : \A i \in indexer[v].claimed :
        ~items[i].processed /\ (i \in indexer[w].claimed => v = w)

DoneWasApplied ==
    \A w \in IndexWorkers : \A i \in indexer[w].done : WasApplied(i)

SearchInv == SearchTypeOK /\ ClaimsAreApart /\ DoneWasApplied /\ ProcessedWasApplied

LEMMA SearchInitial == SearchInit => SearchInv
  BY SearchAssumption
  DEF SearchInit, SearchInv, SearchTypeOK, ClaimsAreApart, DoneWasApplied,
      ProcessedWasApplied, NotWorking, WasApplied

\* A new row is added behind the others, which stay as they are.
LEMMA EnqueueStep ==
  ASSUME SearchInv, NEW m \in SearchMessages, NEW operation \in Operations,
         Enqueue(m, operation)
  PROVE  SearchInv'
<1>1. /\ Len(items) < MaxItems
      /\ items' = Append(items, Item(m, operation, FALSE))
      /\ UNCHANGED <<stored, indexed, searchDlq, indexer, overtaken, searchFaults>>
  BY DEF Enqueue
<1>2. items \in Seq(Items)
  BY DEF SearchInv, SearchTypeOK
<1>3. /\ items' \in Seq(Items) /\ Len(items') = Len(items) + 1
      /\ DOMAIN items \subseteq DOMAIN items' /\ Len(items) \in Nat
      /\ \A i \in DOMAIN items : items'[i] = items[i]
      /\ \A i \in DOMAIN items' : i \in DOMAIN items \/ ~items'[i].processed
  BY <1>1, <1>2 DEF Item, Items
<1>4. SearchTypeOK'
  <2>2. items' \in Seq(Items) /\ Len(items') <= MaxItems
    <3>1. MaxItems \in Nat /\ Len(items) < MaxItems /\ Len(items) \in Nat
          /\ Len(items') = Len(items) + 1
      BY <1>1, <1>3, SearchAssumption
    <3> QED
      BY <1>3, <3>1
  <2> USE DEF SearchInv, SearchTypeOK
  <2>1. /\ stored' \subseteq SearchMessages /\ indexed' \subseteq SearchMessages
        /\ searchDlq' \subseteq DOMAIN items' /\ overtaken' \subseteq DOMAIN items'
        /\ searchFaults' \in 0..MaxSearchFaults
    BY <1>1, <1>3
  <2>3. /\ DOMAIN indexer' = IndexWorkers /\ indexer' = [w \in IndexWorkers |-> indexer'[w]]
        /\ \A w \in IndexWorkers :
              indexer'[w] \in [claimed : SUBSET DOMAIN items, rows : SUBSET DOMAIN items,
                              done : SUBSET DOMAIN items]
    BY <1>1
  <2>4. indexer' \in [IndexWorkers -> [claimed : SUBSET DOMAIN items', rows : SUBSET DOMAIN items',
                                      done : SUBSET DOMAIN items']]
    BY <1>3, <2>3
  <2> QED
    BY <1>1, <2>1, <2>2, <2>4
<1>5. ClaimsAreApart' /\ DoneWasApplied' /\ ProcessedWasApplied'
  BY <1>1, <1>3
  DEF SearchInv, SearchTypeOK, ClaimsAreApart, DoneWasApplied, ProcessedWasApplied,
      WasApplied
<1> QED
  BY <1>4, <1>5 DEF SearchInv

\* An event puts a message back only over rows that were handled or claimed.
LEMMA ProjectEventStep ==
  ASSUME SearchInv, NEW m \in SearchMessages, ProjectEvent(m)
  PROVE  SearchInv'
<1> USE DEF SearchInv, SearchTypeOK
<1>1. /\ indexed' \in {indexed \cup {m}, indexed \ {m}}
      /\ overtaken' = overtaken \cup {i \in DOMAIN items \ Free :
                                        items[i].op = "delete" /\ items[i].msg = m}
      /\ UNCHANGED <<stored, items, searchDlq, indexer, searchFaults>>
  BY DEF ProjectEvent
<1>2. SearchTypeOK'
  BY <1>1
<1>3. \A i \in DOMAIN items \ Free : WasApplied(i) => WasApplied(i)'
  BY <1>1 DEF WasApplied
<1>4. DoneWasApplied'
  BY <1>1, <1>3 DEF DoneWasApplied, Free
<1>5. ProcessedWasApplied'
  BY <1>1, <1>3 DEF ProcessedWasApplied, WasApplied, Free
<1> QED
  BY <1>1, <1>2, <1>4, <1>5 DEF ClaimsAreApart

LEMMA CleanupStep ==
  ASSUME SearchInv, Cleanup
  PROVE  SearchInv'
  BY DEF SearchInv, SearchTypeOK, ClaimsAreApart, DoneWasApplied, ProcessedWasApplied,
         WasApplied, Cleanup

\* What a worker selects is free: unprocessed and in nobody's hands.
LEMMA SelectItemsStep ==
  ASSUME SearchInv, NEW w \in IndexWorkers, SelectItems(w)
  PROVE  SearchInv'
<1>1. PICK rows \in SUBSET Free :
        /\ indexer' = [indexer EXCEPT ![w] = [claimed |-> rows, rows |-> rows, done |-> {}]]
        /\ UNCHANGED <<searchTables, overtaken, searchFaults>>
  BY DEF SelectItems
<1>2. rows \subseteq DOMAIN items
  BY DEF Free
<1>3. SearchTypeOK'
  BY <1>1, <1>2 DEF SearchInv, SearchTypeOK, searchTables
<1>4. ClaimsAreApart'
  BY <1>1 DEF SearchInv, SearchTypeOK, ClaimsAreApart, searchTables, Free
<1>5. DoneWasApplied' /\ ProcessedWasApplied'
  BY <1>1
  DEF SearchInv, SearchTypeOK, DoneWasApplied, ProcessedWasApplied, WasApplied, searchTables
<1> QED
  BY <1>3, <1>4, <1>5 DEF SearchInv

\* A row that was handled is applied; no row handled or processed before is undone.
LEMMA HandleItemStep ==
  ASSUME SearchInv, NEW w \in IndexWorkers, HandleItem(w)
  PROVE  SearchInv'
<1> USE DEF SearchInv, SearchTypeOK
<1>1. PICK i \in indexer[w].rows :
        /\ ~Poison(i)
        /\ indexed' = Applied(i)
        /\ overtaken' = overtaken \ {i}
        /\ indexer' = [indexer EXCEPT ![w] =
              [claimed |-> indexer[w].claimed, rows |-> indexer[w].rows \ {i},
               done |-> indexer[w].done \cup {i}]]
  BY DEF HandleItem, Handled
<1>2. UNCHANGED <<stored, items, searchDlq, searchFaults>>
  BY DEF HandleItem
<1>3. /\ i \in DOMAIN items /\ i \in indexer[w].claimed /\ items[i].op \in Operations
      /\ indexed' \subseteq indexed
  <2>1. i \in DOMAIN items /\ i \in indexer[w].claimed
    BY <1>1
  <2>2. items[i] \in Items
    BY <2>1
  <2> QED
    BY <1>1, <2>1, <2>2 DEF Applied, Items
<1>4. SearchTypeOK'
  BY <1>1, <1>2, <1>3
<1>5. ClaimsAreApart'
  BY <1>1, <1>2 DEF ClaimsAreApart
<1>6. WasApplied(i)'
  BY <1>1, <1>2, <1>3 DEF WasApplied, Applied, Poison, Operations
<1>7. \A j \in DOMAIN items : j # i /\ WasApplied(j) => WasApplied(j)'
  BY <1>1, <1>2, <1>3 DEF WasApplied
<1>8. DoneWasApplied'
  BY <1>1, <1>6, <1>7 DEF DoneWasApplied
<1>9. ProcessedWasApplied'
  BY <1>2, <1>6, <1>7 DEF ProcessedWasApplied, WasApplied
<1> QED
  BY <1>4, <1>5, <1>8, <1>9

LEMMA HandleFailsStep ==
  ASSUME SearchInv, NEW w \in IndexWorkers, HandleFails(w)
  PROVE  SearchInv'
<1> USE DEF SearchInv, SearchTypeOK
<1>1. PICK i \in indexer[w].rows :
        /\ searchDlq' = searchDlq \cup {i}
        /\ indexer' = [indexer EXCEPT ![w] =
              [claimed |-> indexer[w].claimed, rows |-> indexer[w].rows \ {i},
               done |-> indexer[w].done \cup {}]]
  BY DEF HandleFails, Handled
<1>2. /\ searchFaults' \in 0..MaxSearchFaults
      /\ UNCHANGED <<stored, indexed, items, overtaken>>
  BY SearchAssumption DEF HandleFails, SearchFault
<1>3. SearchTypeOK'
  BY <1>1, <1>2
<1>4. ClaimsAreApart' /\ DoneWasApplied' /\ ProcessedWasApplied'
  BY <1>1, <1>2 DEF ClaimsAreApart, DoneWasApplied, ProcessedWasApplied, WasApplied
<1> QED
  BY <1>3, <1>4

\* The rows a commit marks are those the worker applied, and only it held them.
LEMMA CommitItemsStep ==
  ASSUME SearchInv, NEW w \in IndexWorkers, CommitItems(w)
  PROVE  SearchInv'
<1>1. PICK done \in SUBSET indexer[w].claimed :
        /\ done = indexer[w].done
        /\ items' = [i \in DOMAIN items |->
                       Item(items[i].msg, items[i].op, items[i].processed \/ i \in done)]
        /\ indexer' = [indexer EXCEPT ![w] = NotWorking]
        /\ UNCHANGED <<stored, indexed, searchDlq, overtaken, searchFaults>>
  BY DEF CommitItems, SearchInv, SearchTypeOK
<1>2. items \in Seq(Items)
  BY DEF SearchInv, SearchTypeOK
<1>3. \A i \in DOMAIN items :
        /\ items[i] \in Items /\ items'[i] \in Items
        /\ items'[i].msg = items[i].msg /\ items'[i].op = items[i].op
        /\ items'[i].processed <=> (items[i].processed \/ i \in done)
  <2> SUFFICES ASSUME NEW i \in DOMAIN items
               PROVE  /\ items[i] \in Items /\ items'[i] \in Items
                      /\ items'[i].msg = items[i].msg /\ items'[i].op = items[i].op
                      /\ items'[i].processed <=> (items[i].processed \/ i \in done)
    OBVIOUS
  <2>1. items[i] \in Items
    BY <1>2
  <2>2. items'[i] = Item(items[i].msg, items[i].op, items[i].processed \/ i \in done)
    BY <1>1
  <2>3. (items[i].processed \/ i \in done) \in BOOLEAN
    OBVIOUS
  <2> HIDE DEF SearchInv
  <2>4. items'[i] \in Items
    BY <2>1, <2>2, <2>3 DEF Item, Items
  <2>5. /\ items'[i].msg = items[i].msg /\ items'[i].op = items[i].op
        /\ items'[i].processed = (items[i].processed \/ i \in done)
    BY <2>2 DEF Item
  <2> QED
    BY <2>1, <2>4, <2>5
<1>4. DOMAIN items' = DOMAIN items /\ items' \in Seq(Items) /\ Len(items') = Len(items)
  BY <1>1, <1>2, <1>3
<1>5. SearchTypeOK'
  BY <1>1, <1>4 DEF SearchInv, SearchTypeOK, NotWorking
<1>6. ClaimsAreApart'
  BY <1>1, <1>3, <1>4 DEF SearchInv, SearchTypeOK, ClaimsAreApart, NotWorking
<1>7. DoneWasApplied' /\ ProcessedWasApplied'
  BY <1>1, <1>3, <1>4
  DEF SearchInv, SearchTypeOK, DoneWasApplied, ProcessedWasApplied, WasApplied, NotWorking
<1> QED
  BY <1>5, <1>6, <1>7 DEF SearchInv

LEMMA RollbackItemsStep ==
  ASSUME SearchInv, NEW w \in IndexWorkers, RollbackItems(w)
  PROVE  SearchInv'
<1>1. /\ indexer' = [indexer EXCEPT ![w] = NotWorking]
      /\ searchFaults' \in 0..MaxSearchFaults
      /\ UNCHANGED <<stored, indexed, items, searchDlq, overtaken>>
  BY SearchAssumption
  DEF RollbackItems, SearchFault, searchTables, SearchInv, SearchTypeOK
<1> QED
  BY <1>1
  DEF SearchInv, SearchTypeOK, ClaimsAreApart, DoneWasApplied, ProcessedWasApplied,
      WasApplied, NotWorking

LEMMA SearchStep == SearchInv /\ [SearchNext]_searchVars => SearchInv'
<1> SUFFICES ASSUME SearchInv, [SearchNext]_searchVars
             PROVE  SearchInv'
  OBVIOUS
<1>1. ASSUME NEW m \in SearchMessages, NEW operation \in Operations,
             ProjectEvent(m) \/ Enqueue(m, operation)
      PROVE  SearchInv'
  BY <1>1, ProjectEventStep, EnqueueStep
<1>2. ASSUME NEW w \in IndexWorkers,
             SelectItems(w) \/ HandleItem(w) \/ HandleFails(w) \/ CommitItems(w)
               \/ RollbackItems(w)
      PROVE  SearchInv'
  BY <1>2, SelectItemsStep, HandleItemStep, HandleFailsStep, CommitItemsStep,
     RollbackItemsStep
<1>3. CASE UNCHANGED searchVars
  BY <1>3
  DEF searchVars, searchTables, SearchInv, SearchTypeOK, ClaimsAreApart, DoneWasApplied,
      ProcessedWasApplied, WasApplied
<1> QED
  BY <1>1, <1>2, <1>3, CleanupStep DEF SearchNext, Operations

\* The invariant of the search index holds always.
THEOREM SearchInvariant == SearchSpec => []SearchInv
  BY SearchInitial, SearchStep, PTL DEF SearchSpec

\* A row is marked as processed only when it was applied, through dead letters,
\* rolled back batches and workers side by side (indexWorker.go process).
THEOREM MarkedWasApplied == SearchSpec => []ProcessedWasApplied
<1>1. SearchInv => ProcessedWasApplied
  BY DEF SearchInv
<1> QED
  BY <1>1, SearchInvariant, PTL

-----------------------------------------------------------------------------
(* The media jobs *)

Processed == [key |-> "final", state |-> "processed"]
FinalSealed == StoredFor("final")
ThumbSealed == mediaType = "image" => StoredFor("thumb")

\* A run uploads only what it converted from the raw data, or misread.
Converted(r) == run[r].data = "raw" \/ (misread /\ run[r].data = "other")

\* What each run has behind it: its result is stored, and the row is processed, or
\* gone, once the run updated it.
RunBehind(r) ==
    LET pc == run[r].pc
    IN  /\ pc = "download" => run[r].data \in MediaKeys
        /\ pc \in {"upload", "thumb"} => Converted(r)
        /\ pc \in {"thumb", "update", "publish", "succeeded"} => FinalSealed
        /\ pc \in {"update", "publish", "succeeded"} => ThumbSealed
        /\ pc \in {"publish", "succeeded"} => media \in {NoMedia, Processed}

RunsBehind == \A r \in Runners : RunBehind(r)

\* A processed row has its objects in the store.
RowBacked == media.state = "processed" => media = Processed /\ FinalSealed /\ ThumbSealed

\* The jobs of a file go with its row.
JobsHaveFile == \A j \in MediaJobIds : jobStatus[j] # "gone" => media # NoMedia

CompletionsProcessed ==
    /\ \A j \in MediaJobIds : jobStatus[j] = "completed" => media = Processed
    /\ avatarSet => media \in {NoMedia, Processed}

MediaInv ==
    MediaTypeOK /\ RunsBehind /\ RowBacked /\ JobsHaveFile
      /\ CompletionsProcessed

\* A worker that runs, runs one of the jobs.
WorkersHaveJob ==
    \A w \in MediaWorkers : run[w].pc # "idle" => run[w].job \in MediaJobIds

LEMMA MediaInitial == MediaInit => MediaInv
<1> SUFFICES ASSUME MediaInit
             PROVE  MediaInv
  OBVIOUS
<1> USE DEF MediaInit
<1>1. \A r \in Runners : run[r] = NoRun
  OBVIOUS
<1>2. NoRun \in [pc : RunPC, job : MediaJobIds \cup {NoJobId},
                data : MediaKeys \cup {"none", "raw", "sealed", "spoilt", "other"},
                saw : SUBSET Pieces]
  BY DEF NoRun, Run, RunPC
<1>3. MediaTypeOK
  <2>1. mediaObjects \in [MediaKeys -> {"none", "raw", "sealed", "spoilt"}]
    BY DEF MediaKeys
  <2>2. mediaFaults \in 0..MaxMediaFaults
    BY MediaAssumption
  <2> QED
    BY <1>2, <2>1, <2>2 DEF MediaTypeOK
<1>4. RunsBehind
  BY <1>1 DEF RunsBehind, RunBehind, NoRun, Run
<1>5. RowBacked /\ JobsHaveFile /\ CompletionsProcessed
  BY DEF RowBacked, JobsHaveFile, CompletionsProcessed, MediaKeys
<1> QED
  BY <1>3, <1>4, <1>5 DEF MediaInv

LEMMA MediaFaultBound ==
  ASSUME mediaFaults \in 0..MaxMediaFaults, MediaFault
  PROVE  mediaFaults' \in 0..MaxMediaFaults
  BY MediaAssumption DEF MediaFault

\* The steps on the jobs that leave the runs alone.
LEMMA JobTableStep ==
  ASSUME MediaInv,
         \/ \E j \in MediaJobIds : CreateJob(j)
         \/ \E w \in MediaWorkers : LockPendingJobs(w)
         \/ ExecuteRetention
  PROVE  MediaInv'
<1> USE DEF MediaInv, RunsBehind, RunBehind, RowBacked, JobsHaveFile,
            CompletionsProcessed, FinalSealed, ThumbSealed, StoredFor, Converted, mediaFiles
<1>1. ASSUME NEW j \in MediaJobIds, CreateJob(j)
      PROVE  MediaInv'
  <2>1. MediaTypeOK'
    BY <1>1 DEF CreateJob, MediaTypeOK
  <2> QED
    BY <1>1, <2>1 DEF CreateJob, MediaTypeOK
<1>2. ASSUME NEW w \in MediaWorkers, LockPendingJobs(w)
      PROVE  MediaInv'
  <2>1. MediaTypeOK'
    BY <1>2 DEF LockPendingJobs, MediaTypeOK
  <2> QED
    BY <1>2, <2>1 DEF LockPendingJobs, MediaTypeOK
<1>3. CASE ExecuteRetention
  <2>1. MediaTypeOK'
    BY <1>3 DEF ExecuteRetention, MediaTypeOK
  <2> QED
    BY <1>3, <2>1 DEF ExecuteRetention, NoMedia
<1> QED
  BY <1>1, <1>2, <1>3

RunData    == MediaKeys \cup {"none", "raw", "sealed", "spoilt", "other"}
RunJobs    == MediaJobIds \cup {NoJobId}
RunRecords == [pc : RunPC, job : RunJobs, data : RunData, saw : SUBSET Pieces]

LEMMA RunFields ==
  ASSUME NEW pc \in RunPC, NEW job \in RunJobs, NEW data \in RunData
  PROVE  /\ Run(pc, job, data) \in RunRecords
         /\ Run(pc, job, data).pc = pc /\ Run(pc, job, data).data = data
  BY DEF Run, RunRecords

LEMMA ReadingFields ==
  ASSUME NEW job \in RunJobs, NEW data \in RunData, NEW saw \in SUBSET Pieces
  PROVE  /\ Reading(job, data, saw) \in RunRecords
         /\ Reading(job, data, saw).pc = "read"
  BY DEF Reading, RunRecords, RunPC

LEMMA RunTyped ==
  ASSUME MediaInv, NEW r \in Runners
  PROVE  /\ run[r] \in RunRecords /\ run[r].job \in RunJobs /\ run[r].data \in RunData
         /\ run[r].saw \in SUBSET Pieces
  BY DEF MediaInv, MediaTypeOK, RunRecords, RunJobs, RunData

LEMMA Entered ==
  ASSUME MediaInv, NEW r \in Runners, NEW pc \in RunPC, Enter(r, pc)
  PROVE  /\ run' = [run EXCEPT ![r] = Run(pc, run[r].job, run[r].data)]
         /\ Run(pc, run[r].job, run[r].data) \in RunRecords
         /\ run'[r] = Run(pc, run[r].job, run[r].data)
         /\ run'[r].pc = pc /\ run'[r].data = run[r].data
<1>1. run' = [run EXCEPT ![r] = Run(pc, run[r].job, run[r].data)]
  BY DEF Enter
<1>2. run'[r] = Run(pc, run[r].job, run[r].data)
  BY <1>1 DEF MediaInv, MediaTypeOK
<1> QED
  BY <1>1, <1>2, RunTyped, RunFields

\* The files on the host stay of their types, and a misreading is not forgotten.
FilesKept ==
    tempFile' \subseteq Pieces /\ encoded' \in BOOLEAN /\ misread' \in BOOLEAN
      /\ (misread => misread')

LEMMA FilesStay ==
  ASSUME MediaInv, UNCHANGED mediaFiles
  PROVE  FilesKept
  BY DEF MediaInv, MediaTypeOK, mediaFiles, FilesKept

\* A step that only moves one run keeps the invariant if the run has behind it
\* what its new place requires.
LEMMA RunMoves ==
  ASSUME MediaInv, NEW r \in Runners, NEW new \in RunRecords,
         run' = [run EXCEPT ![r] = new], FilesKept,
         UNCHANGED <<mediaType, mediaTables>>,
         claimed' \in [MediaWorkers -> SUBSET MediaJobIds],
         abandoned' \subseteq MediaJobIds, mediaFaults' \in 0..MaxMediaFaults,
         RunBehind(r)'
  PROVE  MediaInv'
<1>1. MediaTypeOK'
  BY DEF MediaInv, MediaTypeOK, mediaTables, RunRecords, RunJobs, RunData, FilesKept
<1>2. \A q \in Runners \ {r} : run'[q] = run[q]
  BY DEF MediaInv, MediaTypeOK
<1>3. /\ FinalSealed => FinalSealed'
      /\ ThumbSealed => ThumbSealed'
  BY DEF FinalSealed, ThumbSealed, StoredFor, FilesKept, mediaTables
<1>4. RunsBehind'
  BY <1>2, <1>3 DEF MediaInv, RunsBehind, RunBehind, Converted, mediaTables, FilesKept
<1> QED
  BY <1>1, <1>3, <1>4
  DEF MediaInv, RowBacked, JobsHaveFile, CompletionsProcessed, mediaTables

\* Reading the row, downloading and converting write no table.
LEMMA GetMediaStep ==
  ASSUME MediaInv, NEW r \in Runners, GetMediaByID(r)
  PROVE  MediaInv'
<1>1. /\ UNCHANGED <<mediaType, mediaTables>>
      /\ FilesKept /\ claimed' \in [MediaWorkers -> SUBSET MediaJobIds]
      /\ abandoned' \subseteq MediaJobIds /\ mediaFaults' \in 0..MaxMediaFaults
  BY FilesStay DEF GetMediaByID, MediaInv, MediaTypeOK
<1>2. CASE media = NoMedia
  <2>1. Enter(r, "broke") /\ "broke" \in RunPC
    BY <1>2 DEF GetMediaByID, RunPC
  <2>2. RunBehind(r)'
    BY <2>1, Entered DEF RunBehind
  <2> QED
    BY <1>1, <2>1, <2>2, Entered, RunMoves
<1>3. CASE media # NoMedia
  <2> DEFINE new == Run("download", run[r].job, media.key)
  <2>1. media.key \in MediaKeys
    BY <1>3 DEF MediaInv, MediaTypeOK, MediaKeys
  <2>2. run' = [run EXCEPT ![r] = new]
    BY <1>3 DEF GetMediaByID
  <2>3. new \in RunRecords /\ new.pc = "download" /\ new.data = media.key
    BY <2>1, RunTyped, RunFields DEF RunPC, RunData
  <2>4. run'[r] = new
    BY <2>2 DEF MediaInv, MediaTypeOK
  <2>5. RunBehind(r)'
    BY <2>1, <2>3, <2>4 DEF RunBehind
  <2> QED
    BY <1>1, <2>2, <2>3, <2>5, RunMoves
<1> QED
  BY <1>2, <1>3

LEMMA DownloadStep ==
  ASSUME MediaInv, NEW r \in Runners, Download(r)
  PROVE  MediaInv'
<1>1. /\ UNCHANGED <<mediaType, mediaTables>>
      /\ FilesKept /\ claimed' \in [MediaWorkers -> SUBSET MediaJobIds]
      /\ abandoned' \subseteq MediaJobIds /\ mediaFaults' \in 0..MaxMediaFaults
  BY FilesStay DEF Download, MediaInv, MediaTypeOK
<1> DEFINE new == Run("truncate", run[r].job, mediaObjects[run[r].data])
<1>2. mediaObjects[run[r].data] \in RunData
  BY DEF Download, At, MediaInv, MediaTypeOK, RunsBehind, RunBehind, RunData
<1>3. run' = [run EXCEPT ![r] = new]
  BY DEF Download
<1>4. new \in RunRecords /\ new.pc = "truncate"
  BY <1>2, RunTyped, RunFields DEF RunPC
<1>5. run'[r] = new
  BY <1>3 DEF MediaInv, MediaTypeOK
<1>6. RunBehind(r)'
  BY <1>4, <1>5 DEF RunBehind
<1> QED
  BY <1>1, <1>3, <1>4, <1>6, RunMoves

\* Emptying and filling the temporary file change what the runs that read it meet;
\* nobody's place but that of the run that writes.
LEMMA FileChangesStep ==
  ASSUME MediaInv, NEW r \in Runners, NEW pieces \in SUBSET Pieces,
         NEW pc \in {"fill", "open"}, FileChanges(r, pieces, pc)
  PROVE  /\ MediaInv'
         /\ \A q \in Runners : run'[q].job = run[q].job
         /\ \A q \in Runners \ {r} : run'[q].pc = run[q].pc
<1> DEFINE new(q) == IF q = r THEN Run(pc, run[r].job, run[r].data)
                     ELSE IF At(q, "read")
                          THEN Reading(run[q].job, run[q].data, run[q].saw \cup pieces)
                          ELSE run[q]
<1>1. run' = [q \in Runners |-> new(q)]
  BY DEF FileChanges
<1>2. /\ tempFile' = pieces
      /\ UNCHANGED <<mediaType, mediaTables, encoded, misread, claimed, abandoned, mediaFaults>>
  BY DEF FileChanges
<1>3. ASSUME NEW q \in Runners
      PROVE  /\ new(q) \in RunRecords /\ new(q).job = run[q].job
             /\ q = r => new(q).pc = pc
             /\ q # r => new(q).pc = run[q].pc
             /\ new(q).pc # "read" => q = r \/ new(q) = run[q]
  <2>1. CASE q = r
    <3>1. new(q) = Run(pc, run[r].job, run[r].data) /\ pc \in RunPC /\ pc # "read"
      BY <2>1 DEF RunPC
    <3> QED
      BY <2>1, <3>1, RunTyped, RunFields DEF Run
  <2>2. CASE q # r /\ At(q, "read")
    <3>1. new(q) = Reading(run[q].job, run[q].data, run[q].saw \cup pieces)
      BY <2>2
    <3>2. run[q].saw \cup pieces \in SUBSET Pieces /\ run[q].pc = "read"
      BY <2>2, RunTyped DEF At
    <3> QED
      BY <2>2, <3>1, <3>2, RunTyped, ReadingFields DEF Reading
  <2>3. CASE q # r /\ ~At(q, "read")
    BY <2>3, RunTyped
  <2> QED
    BY <2>1, <2>2, <2>3
<1> HIDE DEF new
<1>4. \A q \in Runners : run'[q] = new(q)
  BY <1>1
<1>5. MediaTypeOK'
  <2>1. run' \in [Runners -> RunRecords]
    BY <1>1, <1>3
  <2> QED
    BY <1>2, <2>1
    DEF MediaInv, MediaTypeOK, mediaTables, RunRecords, RunJobs, RunData
<1>6. RunsBehind'
  <2>1. ASSUME NEW q \in Runners
        PROVE  RunBehind(q)'
    <3>1. CASE q = r \/ new(q).pc = "read"
      BY <1>3, <1>4, <3>1 DEF RunBehind
    <3>2. CASE q # r /\ new(q).pc # "read"
      <4>1. run'[q] = run[q]
        BY <1>3, <1>4, <3>2
      <4> QED
        BY <1>2, <4>1
        DEF MediaInv, RunsBehind, RunBehind, Converted, mediaTables, FinalSealed,
            ThumbSealed, StoredFor
    <3> QED
      BY <3>1, <3>2
  <2> QED
    BY <2>1 DEF RunsBehind
<1>7. MediaInv'
  BY <1>2, <1>5, <1>6
  DEF MediaInv, RowBacked, JobsHaveFile, CompletionsProcessed, mediaTables, FinalSealed,
      ThumbSealed, StoredFor
<1> QED
  BY <1>3, <1>4, <1>7

LEMMA WriteFileStep ==
  ASSUME MediaInv, NEW r \in Runners, TruncateFile(r) \/ FillFile(r)
  PROVE  \E pc \in {"fill", "open"}, pieces \in SUBSET Pieces : FileChanges(r, pieces, pc)
<1>1. CASE TruncateFile(r)
  <2>1. PICK pieces : /\ pieces = {"cut"} \cup {Piece(run[q].data) : q \in Filling \cup {r}}
                      /\ FileChanges(r, pieces, "fill")
    BY <1>1 DEF TruncateFile
  <2>2. pieces \in SUBSET Pieces
    BY <2>1 DEF Piece, Pieces
  <2> QED
    BY <2>1, <2>2
<1>2. CASE FillFile(r)
  <2>1. PICK pieces : /\ pieces = IF Filling = {r} THEN tempFile \ {"cut"} ELSE tempFile
                      /\ FileChanges(r, pieces, "open")
    BY <1>2 DEF FillFile
  <2>2. pieces \in SUBSET Pieces
    BY <2>1 DEF MediaInv, MediaTypeOK
  <2> QED
    BY <2>1, <2>2
<1> QED
  BY <1>1, <1>2

LEMMA OpenFileStep ==
  ASSUME MediaInv, NEW r \in Runners, OpenFile(r)
  PROVE  MediaInv'
<1>1. /\ UNCHANGED <<mediaType, mediaTables, tempFile, misread, claimed, abandoned, mediaFaults>>
      /\ encoded' \in {encoded, TRUE}
  BY DEF OpenFile
<1>2. /\ FilesKept /\ claimed' \in [MediaWorkers -> SUBSET MediaJobIds]
      /\ abandoned' \subseteq MediaJobIds /\ mediaFaults' \in 0..MaxMediaFaults
  BY <1>1 DEF MediaInv, MediaTypeOK, FilesKept
<1>3. CASE Enter(r, "broke")
  <2>1. "broke" \in RunPC
    BY DEF RunPC
  <2>2. RunBehind(r)'
    BY <1>3, <2>1, Entered DEF RunBehind
  <2> QED
    BY <1>1, <1>2, <1>3, <2>1, <2>2, Entered, RunMoves
<1>4. CASE run' = [run EXCEPT ![r] = Reading(run[r].job, run[r].data, tempFile)]
  <2> DEFINE new == Reading(run[r].job, run[r].data, tempFile)
  <2>1. new \in RunRecords /\ new.pc = "read"
    BY RunTyped, ReadingFields DEF MediaInv, MediaTypeOK
  <2>2. run' = [run EXCEPT ![r] = new] /\ run'[r] = new
    BY <1>4 DEF MediaInv, MediaTypeOK
  <2>3. RunBehind(r)'
    BY <2>1, <2>2 DEF RunBehind
  <2> HIDE DEF new
  <2> QED
    BY <1>1, <1>2, <2>1, <2>2, <2>3, RunMoves
<1> QED
  BY <1>3, <1>4 DEF OpenFile

LEMMA ConvertStep ==
  ASSUME MediaInv, NEW r \in Runners, Convert(r)
  PROVE  MediaInv'
<1>1. /\ UNCHANGED <<mediaType, mediaTables, tempFile, encoded, claimed, abandoned, mediaFaults>>
      /\ misread' = (misread \/ Mixed(run[r].saw))
  BY DEF Convert
<1>2. /\ FilesKept /\ claimed' \in [MediaWorkers -> SUBSET MediaJobIds]
      /\ abandoned' \subseteq MediaJobIds /\ mediaFaults' \in 0..MaxMediaFaults
  <2>1. misread' \in BOOLEAN /\ (misread => misread')
    BY <1>1 DEF MediaInv, MediaTypeOK
  <2> QED
    BY <1>1, <2>1 DEF MediaInv, MediaTypeOK, FilesKept
<1>3. CASE Enter(r, "broke")
  <2>1. "broke" \in RunPC
    BY DEF RunPC
  <2>2. RunBehind(r)'
    BY <1>3, <2>1, Entered DEF RunBehind
  <2> QED
    BY <1>1, <1>2, <1>3, <2>1, <2>2, Entered, RunMoves
<1>4. ASSUME NEW data \in {"raw", "other"}, data = "other" => Mixed(run[r].saw),
             run' = [run EXCEPT ![r] = Run("upload", run[r].job, data)]
      PROVE  MediaInv'
  <2> DEFINE new == Run("upload", run[r].job, data)
  <2>1. new \in RunRecords /\ new.pc = "upload" /\ new.data = data
    BY RunTyped, RunFields DEF RunData, RunPC
  <2>2. run' = [run EXCEPT ![r] = new] /\ run'[r] = new
    BY <1>4 DEF MediaInv, MediaTypeOK
  <2>3. data = "other" => misread'
    BY <1>1, <1>4
  <2>4. RunBehind(r)'
    BY <2>1, <2>2, <2>3 DEF RunBehind, Converted
  <2> HIDE DEF new
  <2> QED
    BY <1>1, <1>2, <2>1, <2>2, <2>4, RunMoves
<1> QED
  BY <1>3, <1>4 DEF Convert

\* What a run uploads it converted from the raw data, or misread.
LEMMA SealedIsStored ==
  ASSUME NEW r \in Runners, Converted(r)
  PROVE  Sealed(r) = "sealed" \/ (misread /\ Sealed(r) = "spoilt")
  BY DEF Converted, Sealed

\* An object that is stored anew is stored for good, and leaves the others alone.
LEMMA ObjectStored ==
  ASSUME MediaInv, NEW k \in MediaKeys, NEW value, UNCHANGED mediaFiles,
         value = "sealed" \/ (misread /\ value = "spoilt"),
         mediaObjects' = [mediaObjects EXCEPT ![k] = value]
  PROVE  /\ mediaObjects' \in [MediaKeys -> {"none", "raw", "sealed", "spoilt"}]
         /\ StoredFor(k)'
         /\ \A x \in MediaKeys : StoredFor(x) => StoredFor(x)'
<1>1. value \in {"none", "raw", "sealed", "spoilt"} /\ misread' = misread
  BY DEF mediaFiles
<1>2. mediaObjects \in [MediaKeys -> {"none", "raw", "sealed", "spoilt"}]
  BY DEF MediaInv, MediaTypeOK
<1>3. /\ mediaObjects'[k] = value
      /\ \A x \in MediaKeys \ {k} : mediaObjects'[x] = mediaObjects[x]
  BY <1>2
<1>4. StoredFor(k)'
  BY <1>1, <1>3 DEF StoredFor
<1>5. \A x \in MediaKeys \ {k} : StoredFor(x) => StoredFor(x)'
  BY <1>1, <1>3 DEF StoredFor
<1> QED
  BY <1>1, <1>2, <1>4, <1>5

\* The uploads: the run converted the raw data, so what it stores is the result.
LEMMA UploadFinalStep ==
  ASSUME MediaInv, NEW r \in Runners, UploadFinal(r)
  PROVE  MediaInv'
<1>1. /\ At(r, "upload")
      /\ mediaObjects' = [mediaObjects EXCEPT !["final"] = Sealed(r)]
      /\ UNCHANGED <<mediaType, media, jobStatus, avatarSet, mediaFiles, claimed, abandoned,
                     mediaFaults>>
  BY DEF UploadFinal
<1>2. Converted(r)
  BY <1>1 DEF At, MediaInv, RunsBehind, RunBehind
<1>3. "final" \in MediaKeys /\ "thumb" \in MediaKeys
  BY DEF MediaKeys
<1>4. /\ mediaObjects' \in [MediaKeys -> {"none", "raw", "sealed", "spoilt"}]
      /\ FinalSealed' /\ (ThumbSealed => ThumbSealed')
  BY <1>1, <1>2, <1>3, SealedIsStored, ObjectStored DEF FinalSealed, ThumbSealed
<1>5. PICK pc \in {"thumb", "update"} :
        Enter(r, pc) /\ (pc = "update" => mediaType # "image")
  BY DEF UploadFinal
<1>6. pc \in RunPC
  BY DEF RunPC
<1>7. MediaTypeOK'
  BY <1>1, <1>4, <1>5, <1>6, Entered
  DEF MediaInv, MediaTypeOK, RunRecords, RunJobs, RunData, mediaFiles
<1>8. RunBehind(r)'
  BY <1>1, <1>2, <1>4, <1>5, <1>6, Entered DEF RunBehind, Converted, ThumbSealed, mediaFiles
<1>9. \A q \in Runners \ {r} : run'[q] = run[q]
  BY <1>5, <1>6, Entered DEF MediaInv, MediaTypeOK
<1>10. RunsBehind'
  BY <1>1, <1>4, <1>8, <1>9 DEF MediaInv, RunsBehind, RunBehind, Converted, mediaFiles
<1> QED
  BY <1>1, <1>4, <1>7, <1>10 DEF MediaInv, RowBacked, JobsHaveFile, CompletionsProcessed

LEMMA UploadThumbStep ==
  ASSUME MediaInv, NEW r \in Runners, UploadThumb(r)
  PROVE  MediaInv'
<1>1. /\ At(r, "thumb") /\ Enter(r, "update")
      /\ mediaObjects' = [mediaObjects EXCEPT !["thumb"] = Sealed(r)]
      /\ UNCHANGED <<mediaType, media, jobStatus, avatarSet, mediaFiles, claimed, abandoned,
                     mediaFaults>>
  BY DEF UploadThumb
<1>2. Converted(r) /\ FinalSealed
  BY <1>1 DEF At, MediaInv, RunsBehind, RunBehind
<1>3. "final" \in MediaKeys /\ "thumb" \in MediaKeys
  BY DEF MediaKeys
<1>4. /\ mediaObjects' \in [MediaKeys -> {"none", "raw", "sealed", "spoilt"}]
      /\ ThumbSealed' /\ (FinalSealed => FinalSealed')
  BY <1>1, <1>2, <1>3, SealedIsStored, ObjectStored DEF FinalSealed, ThumbSealed
<1>5. "update" \in RunPC
  BY DEF RunPC
<1>6. MediaTypeOK'
  BY <1>1, <1>4, <1>5, Entered
  DEF MediaInv, MediaTypeOK, RunRecords, RunJobs, RunData, mediaFiles
<1>7. RunBehind(r)'
  BY <1>1, <1>2, <1>4, <1>5, Entered DEF RunBehind
<1>8. \A q \in Runners \ {r} : run'[q] = run[q]
  BY <1>1, <1>5, Entered DEF MediaInv, MediaTypeOK
<1>9. RunsBehind'
  BY <1>1, <1>4, <1>7, <1>8 DEF MediaInv, RunsBehind, RunBehind, Converted, mediaFiles
<1> QED
  BY <1>1, <1>4, <1>6, <1>9 DEF MediaInv, RowBacked, JobsHaveFile, CompletionsProcessed

\* The run has both objects behind it when it marks the row.
LEMMA UpdateProcessedStep ==
  ASSUME MediaInv, NEW r \in Runners, UpdateProcessedMedia(r)
  PROVE  MediaInv'
<1>1. /\ At(r, "update") /\ Enter(r, "publish")
      /\ media' = IF media = NoMedia THEN media ELSE Processed
      /\ UNCHANGED <<mediaType, mediaObjects, jobStatus, avatarSet, mediaFiles, claimed,
                     abandoned, mediaFaults>>
  BY DEF UpdateProcessedMedia, Processed
<1>2. FinalSealed /\ ThumbSealed
  BY <1>1 DEF At, MediaInv, RunsBehind, RunBehind
<1>3. media' \in {NoMedia, Processed} /\ (media = NoMedia <=> media' = NoMedia)
  BY <1>1 DEF NoMedia, Processed
<1>4. "publish" \in RunPC
  BY DEF RunPC
<1>5. MediaTypeOK'
  BY <1>1, <1>3, <1>4, Entered
  DEF MediaInv, MediaTypeOK, RunRecords, RunJobs, RunData, Processed, mediaFiles
<1>6. RunBehind(r)'
  BY <1>1, <1>2, <1>3, <1>4, Entered DEF RunBehind, FinalSealed, ThumbSealed, StoredFor,
      Converted, mediaFiles
<1>7. \A q \in Runners \ {r} : run'[q] = run[q]
  BY <1>1, <1>4, Entered DEF MediaInv, MediaTypeOK
<1>8. RunsBehind'
  BY <1>1, <1>3, <1>6, <1>7 DEF MediaInv, RunsBehind, RunBehind, FinalSealed, ThumbSealed,
      StoredFor, Converted, mediaFiles
<1>9. RowBacked' /\ JobsHaveFile'
  BY <1>1, <1>2, <1>3
  DEF MediaInv, RowBacked, JobsHaveFile, FinalSealed, ThumbSealed, StoredFor, mediaFiles, NoMedia
<1>10. CompletionsProcessed'
  BY <1>1, <1>3 DEF MediaInv, JobsHaveFile, CompletionsProcessed
<1> QED
  BY <1>5, <1>8, <1>9, <1>10 DEF MediaInv

LEMMA PublishStep ==
  ASSUME MediaInv, NEW r \in Runners, Publish(r)
  PROVE  MediaInv'
<1>1. /\ At(r, "publish") /\ Enter(r, "succeeded") /\ "succeeded" \in RunPC
      /\ UNCHANGED <<mediaType, mediaTables, mediaFiles, claimed, abandoned, mediaFaults>>
  BY DEF Publish, RunPC
<1>2. RunBehind(r)'
  BY <1>1, Entered
  DEF At, MediaInv, RunsBehind, RunBehind, mediaTables, FinalSealed, ThumbSealed, StoredFor,
      Converted, mediaFiles
<1>3. /\ FilesKept /\ claimed' \in [MediaWorkers -> SUBSET MediaJobIds]
      /\ abandoned' \subseteq MediaJobIds /\ mediaFaults' \in 0..MaxMediaFaults
  BY <1>1, FilesStay DEF MediaInv, MediaTypeOK
<1> QED
  BY <1>1, <1>2, <1>3, Entered, RunMoves

LEMMA RunFailsStep ==
  ASSUME MediaInv, NEW r \in Runners, RunFails(r)
  PROVE  MediaInv'
<1>1. /\ Enter(r, "broke") /\ "broke" \in RunPC
      /\ UNCHANGED <<mediaType, mediaTables, mediaFiles, claimed, abandoned>>
  BY DEF RunFails, RunPC
<1>2. RunBehind(r)'
  BY <1>1, Entered DEF RunBehind
<1>3. /\ claimed' \in [MediaWorkers -> SUBSET MediaJobIds]
      /\ abandoned' \subseteq MediaJobIds /\ mediaFaults' \in 0..MaxMediaFaults
  BY <1>1, MediaFaultBound DEF RunFails, MediaInv, MediaTypeOK
<1>4. FilesKept
  BY FilesStay DEF RunFails
<1> QED
  BY <1>1, <1>2, <1>3, <1>4, Entered, RunMoves

LEMMA StartStep ==
  ASSUME MediaInv, NEW r \in Runners,
         UploadAvatar(r) \/ (r \in MediaWorkers /\ StartJob(r))
  PROVE  MediaInv'
<1>1. /\ UNCHANGED <<mediaType, mediaTables>>
      /\ FilesKept /\ claimed' \in [MediaWorkers -> SUBSET MediaJobIds]
      /\ abandoned' \subseteq MediaJobIds /\ mediaFaults' \in 0..MaxMediaFaults
  BY FilesStay DEF UploadAvatar, StartJob, MediaInv, MediaTypeOK
<1>2. PICK job \in RunJobs, data \in RunData :
        run' = [run EXCEPT ![r] = Run("get", job, data)]
  <2>1. CASE UploadAvatar(r)
    BY <2>1, RunTyped DEF UploadAvatar, Enter
  <2>2. CASE r \in MediaWorkers /\ StartJob(r)
    BY <2>2 DEF StartJob, RunJobs, RunData, MediaInv, MediaTypeOK
  <2> QED
    BY <2>1, <2>2
<1> DEFINE new == Run("get", job, data)
<1>3. new \in RunRecords /\ new.pc = "get"
  BY RunFields DEF RunPC
<1>4. run'[r] = new
  BY <1>2 DEF MediaInv, MediaTypeOK
<1>5. RunBehind(r)'
  BY <1>3, <1>4 DEF RunBehind
<1> QED
  BY <1>1, <1>2, <1>3, <1>5, RunMoves

\* A run that is over: the next job may begin, or the call has returned.
EndedRun == Run("ended", NoJobId, "none")

LEMMA NoRunMoves ==
  ASSUME MediaInv, NEW r \in Runners, NEW over \in {NoRun, EndedRun},
         run' = [run EXCEPT ![r] = over]
  PROVE  /\ over \in RunRecords /\ run' \in [Runners -> RunRecords]
         /\ run'[r] = over
         /\ RunBehind(r)' /\ \A q \in Runners \ {r} : run'[q] = run[q]
<1>1. over \in RunRecords /\ over.pc \in {"idle", "ended"}
  BY RunFields DEF NoRun, EndedRun, RunPC, RunJobs, RunData
<1>2. run' \in [Runners -> RunRecords] /\ run'[r] = over
  BY <1>1 DEF MediaInv, MediaTypeOK, RunRecords, RunJobs, RunData
<1>3. RunBehind(r)'
  BY <1>1, <1>2 DEF RunBehind
<1> QED
  BY <1>1, <1>2, <1>3 DEF MediaInv, MediaTypeOK

\* A worker that dies, or whose verdict on a job is lost, leaves the tables alone.
LEMMA WorkerLostStep ==
  ASSUME MediaInv, WorkersHaveJob, NEW w \in MediaWorkers, SettleFails(w) \/ WorkerDies(w)
  PROVE  MediaInv'
<1>1. /\ run' = [run EXCEPT ![w] = NoRun] /\ w \in Runners
      /\ UNCHANGED <<mediaType, mediaTables, mediaFiles>> /\ MediaFault
      /\ claimed' \in [MediaWorkers -> SUBSET MediaJobIds]
  BY DEF SettleFails, WorkerDies, Runners, MediaInv, MediaTypeOK
<1>2. abandoned' \subseteq MediaJobIds
  BY DEF SettleFails, WorkerDies, WorkersHaveJob, MediaInv, MediaTypeOK
<1>3. mediaFaults' \in 0..MaxMediaFaults /\ FilesKept
  BY <1>1, MediaFaultBound, FilesStay DEF MediaInv, MediaTypeOK
<1> QED
  BY <1>1, <1>2, <1>3, NoRunMoves, RunMoves

\* A job is completed only by a run that succeeded, and only while the row it
\* belongs to is there.
LEMMA SettleJobStep ==
  ASSUME MediaInv, NEW w \in MediaWorkers, SettleJob(w)
  PROVE  MediaInv'
<1>1. /\ run' = [run EXCEPT ![w] = NoRun] /\ w \in Runners
      /\ UNCHANGED <<mediaType, media, mediaObjects, avatarSet, mediaFiles, abandoned, mediaFaults>>
  BY DEF SettleJob, Runners
<1>2. PICK j : j = run[w].job
  OBVIOUS
<1>3. /\ claimed' = [claimed EXCEPT ![w] = @ \ {j}]
      /\ \E status \in {"gone", "completed", "failed"} :
            /\ jobStatus' = [jobStatus EXCEPT ![j] = status]
            /\ status # "gone" => jobStatus[j] # "gone"
            /\ status = "completed" => At(w, "succeeded")
  BY <1>2 DEF SettleJob
<1>4. /\ jobStatus' \in [MediaJobIds -> {"gone", "pending", "processing", "completed", "failed"}]
      /\ claimed' \in [MediaWorkers -> SUBSET MediaJobIds]
      /\ \A k \in MediaJobIds :
            /\ jobStatus'[k] # "gone" => jobStatus[k] # "gone"
            /\ jobStatus'[k] = "completed" => jobStatus[k] = "completed" \/ At(w, "succeeded")
  BY <1>3 DEF MediaInv, MediaTypeOK
<1>5. MediaTypeOK'
  BY <1>1, <1>4, NoRunMoves
  DEF MediaInv, MediaTypeOK, RunRecords, RunJobs, RunData, mediaFiles
<1>6. RunsBehind'
  BY <1>1, NoRunMoves DEF MediaInv, RunsBehind, RunBehind, FinalSealed, ThumbSealed,
      StoredFor, Converted, mediaFiles
<1>7. JobsHaveFile'
  BY <1>1, <1>4 DEF MediaInv, JobsHaveFile
<1>8. CompletionsProcessed'
  <2>1. At(w, "succeeded") => media \in {NoMedia, Processed}
    BY <1>1 DEF At, MediaInv, RunsBehind, RunBehind
  <2> QED
    BY <1>1, <1>4, <2>1 DEF MediaInv, JobsHaveFile, CompletionsProcessed
<1> QED
  BY <1>1, <1>5, <1>6, <1>7, <1>8
  DEF MediaInv, RowBacked, FinalSealed, ThumbSealed, StoredFor,
      Converted, mediaFiles

LEMMA SetAvatarStep ==
  ASSUME MediaInv, NEW a \in AvatarCalls, SetAvatar(a)
  PROVE  MediaInv'
<1>1. /\ run' = [run EXCEPT ![a] = EndedRun] /\ a \in Runners
      /\ UNCHANGED <<mediaType, media, mediaObjects, jobStatus, mediaFiles, claimed, abandoned,
                     mediaFaults>>
      /\ avatarSet' = (avatarSet \/ At(a, "succeeded"))
  BY DEF SetAvatar, Runners, EndedRun
<1>2. avatarSet' \in BOOLEAN
  BY <1>1 DEF MediaInv, MediaTypeOK
<1>3. MediaTypeOK'
  BY <1>1, <1>2, NoRunMoves
  DEF MediaInv, MediaTypeOK, RunRecords, RunJobs, RunData, mediaFiles
<1>4. RunsBehind'
  BY <1>1, NoRunMoves DEF MediaInv, RunsBehind, RunBehind, FinalSealed, ThumbSealed,
      StoredFor, Converted, mediaFiles
<1>5. CompletionsProcessed'
  BY <1>1 DEF At, MediaInv, RunsBehind, RunBehind, CompletionsProcessed
<1> QED
  BY <1>1, <1>3, <1>4, <1>5
  DEF MediaInv, RowBacked, JobsHaveFile, FinalSealed, ThumbSealed, StoredFor,
      Converted, mediaFiles

\* A run moves on with its job, comes to its end, or starts with a job of the worker.
LEMMA WorkersHaveJobStep ==
  ASSUME MediaInv, WorkersHaveJob, [MediaNext]_mediaVars
  PROVE  WorkersHaveJob'
<1> USE DEF WorkersHaveJob
<1>1. ASSUME NEW r \in Runners, NEW pc, NEW data,
             r \in AvatarCalls \/ run[r].pc # "idle",
             run' = [run EXCEPT ![r] = Run(pc, run[r].job, data)]
      PROVE  WorkersHaveJob'
  <2>1. run'[r].job = run[r].job
    BY <1>1 DEF Run, MediaInv, MediaTypeOK
  <2>2. \A q \in Runners \ {r} : run'[q] = run[q]
    BY <1>1 DEF MediaInv, MediaTypeOK
  <2> QED
    BY <1>1, <2>1, <2>2, MediaAssumption DEF Runners
<1>2. ASSUME NEW r \in Runners, NEW over \in {NoRun, EndedRun},
             over = NoRun \/ r \in AvatarCalls, run' = [run EXCEPT ![r] = over]
      PROVE  WorkersHaveJob'
  <2>1. run'[r] = over /\ NoRun.pc = "idle"
    BY <1>2, NoRunMoves DEF NoRun, Run
  <2> QED
    BY <1>2, <2>1, NoRunMoves, MediaAssumption DEF Runners
<1>3. ASSUME NEW w \in MediaWorkers, StartJob(w)
      PROVE  WorkersHaveJob'
  <2>1. PICK j \in MediaJobIds : run' = [run EXCEPT ![w] = Run("get", j, "none")]
    BY <1>3 DEF StartJob, MediaInv, MediaTypeOK
  <2>2. run'[w].job = j
    BY <2>1 DEF Run, Runners, MediaInv, MediaTypeOK
  <2> QED
    BY <2>1, <2>2 DEF Runners, MediaInv, MediaTypeOK
<1>4. ASSUME NEW r \in Runners, ProcessMedia(r) \/ RunFails(r)
      PROVE  WorkersHaveJob'
  <2>1. CASE GetMediaByID(r)
    BY <1>1, <2>1 DEF GetMediaByID, Enter, At
  <2>2. CASE Download(r)
    BY <1>1, <2>2 DEF Download, At
  <2>3. CASE TruncateFile(r) \/ FillFile(r)
    <3>1. PICK pc \in {"fill", "open"}, pieces \in SUBSET Pieces : FileChanges(r, pieces, pc)
      BY <2>3, WriteFileStep
    <3>2. /\ \A q \in Runners : run'[q].job = run[q].job
          /\ \A q \in Runners \ {r} : run'[q].pc = run[q].pc
      BY <3>1, FileChangesStep
    <3>3. run[r].pc # "idle"
      BY <2>3 DEF TruncateFile, FillFile, At
    <3>4. ASSUME NEW w \in MediaWorkers, run'[w].pc # "idle"
          PROVE  run'[w].job \in MediaJobIds
      <4>1. w \in Runners
        BY DEF Runners
      <4>2. run[w].pc # "idle"
        BY <3>2, <3>3, <3>4, <4>1
      <4> QED
        BY <3>2, <4>1, <4>2
    <3> QED
      BY <3>4
  <2>6. CASE OpenFile(r)
    <3>1. run[r].pc # "idle"
      BY <2>6 DEF OpenFile, At
    <3>2. CASE Enter(r, "broke")
      BY <1>1, <3>1, <3>2 DEF Enter
    <3>3. CASE run' = [run EXCEPT ![r] = Reading(run[r].job, run[r].data, tempFile)]
      <4>1. run'[r].job = run[r].job /\ \A q \in Runners \ {r} : run'[q] = run[q]
        BY <3>3 DEF Reading, MediaInv, MediaTypeOK
      <4> QED
        BY <3>1, <4>1 DEF Runners
    <3> QED
      BY <2>6, <3>2, <3>3 DEF OpenFile
  <2>7. CASE Convert(r)
    BY <1>1, <2>7 DEF Convert, Enter, At
  <2>4. CASE UploadFinal(r)
    BY <1>1, <2>4 DEF UploadFinal, Enter, At
  <2>5. CASE UploadThumb(r) \/ UpdateProcessedMedia(r) \/ Publish(r) \/ RunFails(r)
    BY <1>1, <2>5 DEF UploadThumb, UpdateProcessedMedia, Publish, RunFails, Enter, At
  <2> QED
    BY <1>4, <2>1, <2>2, <2>3, <2>4, <2>5, <2>6, <2>7 DEF ProcessMedia
<1>5. ASSUME NEW a \in AvatarCalls, UploadAvatar(a)
      PROVE  WorkersHaveJob'
  BY <1>1, <1>5 DEF UploadAvatar, Enter, Runners
<1>6. ASSUME NEW w \in MediaWorkers, SettleJob(w) \/ SettleFails(w) \/ WorkerDies(w)
      PROVE  WorkersHaveJob'
  BY <1>2, <1>6 DEF SettleJob, SettleFails, WorkerDies, Runners
<1>7. ASSUME NEW a \in AvatarCalls, SetAvatar(a)
      PROVE  WorkersHaveJob'
  BY <1>2, <1>7 DEF SetAvatar, Runners, EndedRun
<1>8. CASE run' = run
  BY <1>8
<1>9. CASE \/ \E j \in MediaJobIds : CreateJob(j)
           \/ \E w \in MediaWorkers : LockPendingJobs(w)
           \/ ExecuteRetention
           \/ UNCHANGED mediaVars
  BY <1>8, <1>9 DEF CreateJob, LockPendingJobs, ExecuteRetention, mediaVars
<1> QED
  BY <1>3, <1>4, <1>5, <1>6, <1>7, <1>9 DEF MediaNext, WorkerStep, Runners

LEMMA MediaStep == MediaInv /\ WorkersHaveJob /\ [MediaNext]_mediaVars => MediaInv'
<1> SUFFICES ASSUME MediaInv, WorkersHaveJob, [MediaNext]_mediaVars
             PROVE  MediaInv'
  OBVIOUS
<1>1. ASSUME NEW r \in Runners, ProcessMedia(r) \/ RunFails(r)
      PROVE  MediaInv'
  BY <1>1, GetMediaStep, DownloadStep, WriteFileStep, FileChangesStep, OpenFileStep,
     ConvertStep, UploadFinalStep, UploadThumbStep, UpdateProcessedStep, PublishStep,
     RunFailsStep
  DEF ProcessMedia
<1>2. ASSUME NEW w \in MediaWorkers,
             StartJob(w) \/ SettleJob(w) \/ SettleFails(w) \/ WorkerDies(w)
      PROVE  MediaInv'
  BY <1>2, StartStep, SettleJobStep, WorkerLostStep DEF Runners
<1>3. ASSUME NEW a \in AvatarCalls, UploadAvatar(a) \/ SetAvatar(a)
      PROVE  MediaInv'
  BY <1>3, StartStep, SetAvatarStep DEF Runners
<1>4. CASE UNCHANGED mediaVars
  BY <1>4
  DEF mediaVars, mediaTables, MediaInv, MediaTypeOK, RunsBehind, RunBehind,
      RowBacked, JobsHaveFile, CompletionsProcessed, FinalSealed, ThumbSealed, StoredFor,
      Converted, mediaFiles
<1> QED
  BY <1>1, <1>2, <1>3, <1>4, JobTableStep DEF MediaNext, WorkerStep, Runners

\* The invariant of the media jobs holds always.
THEOREM MediaInvariant == MediaSpec => [](MediaInv /\ WorkersHaveJob)
<1>1. MediaInit => WorkersHaveJob
  BY DEF MediaInit, WorkersHaveJob, Runners, NoRun, Run
<1>2. MediaInit => MediaInv
  BY MediaInitial
<1>3. MediaInv /\ WorkersHaveJob /\ [MediaNext]_mediaVars => (MediaInv /\ WorkersHaveJob)'
  BY MediaStep, WorkersHaveJobStep
<1> QED
  BY <1>1, <1>2, <1>3, PTL DEF MediaSpec

\* A completed job, or an avatar whose file is still there, means a processed row
\* with its converted and encrypted objects in the store, whatever runs the workers
\* repeat, lose or share, and whenever the retention deletes the row (service.go
\* ProcessMedia, mediaWorker.go).
THEOREM CompletionMeansProcessed == MediaSpec => []CompletedIsProcessed
<1>1. MediaInv => CompletedIsProcessed
  BY DEF MediaInv, JobsHaveFile, CompletionsProcessed, RowBacked, CompletedIsProcessed,
         Processed, FinalSealed, ThumbSealed, NoMedia
<1> QED
  BY <1>1, MediaInvariant, PTL

-----------------------------------------------------------------------------
(* The tables side by side *)

LEMMA PartsInitial == MCInit => LogInit /\ SearchInit /\ MediaInit /\ ScheduleInit
  BY DEF MCInit

LEMMA PartsStep ==
  [MCNext]_allVars =>
    [LogNext]_logVars /\ [SearchNext]_searchVars /\ [MediaNext]_mediaVars
      /\ [ScheduleNext]_scheduleVars
  BY DEF MCNext, allVars, LogPart, RebuildStep, ConsumersOnly, LogNext, SearchPart,
         MediaPart, SchedulePart

\* A behaviour of the runs is one of each component, so what is proved of the
\* components holds of the runs.
THEOREM QueuesAreComponents ==
  MCSpec => LogSpec /\ SearchSpec /\ MediaSpec /\ ScheduleSpec
  BY PartsInitial, PartsStep, PTL
  DEF MCSpec, LogSpec, SearchSpec, MediaSpec, ScheduleSpec

\* The types of the four parts, in the composition the runs check.
THEOREM QueuesTypeCorrect == MCSpec => []QueuesTypeOK
<1>1. LogTypeOK /\ SearchInv /\ MediaInv /\ ScheduleInv => QueuesTypeOK
  BY DEF SearchInv, MediaInv, ScheduleInv, QueuesTypeOK
<1> QED
  BY <1>1, QueuesAreComponents, LogTypeCorrect, SearchInvariant, MediaInvariant,
     ScheduleInvariant, PTL

\* What the runs check of the four queues, for any number of workers and rows: no event
\* is skipped unnoticed, a rebuild restores, what is marked as done was done, and a
\* scheduled message goes out once.
THEOREM QueuesAreSafe ==
  MCSpec => /\ [](EventsAccounted /\ RebuildRestores)
            /\ [](ProcessedWasApplied /\ CompletedIsProcessed /\ ScheduledOnce)
  BY QueuesAreComponents, NothingIsSkipped, RebuildIsComplete, MarkedWasApplied,
     CompletionMeansProcessed, NoSecondPublication, PTL
=============================================================================
