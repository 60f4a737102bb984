------------------------------ MODULE SearchQueue ------------------------------
(***************************************************************************)
(* The queue of the search index and the workers that drain it.  A worker  *)
(* claims a batch of rows inside a transaction, applies them to the        *)
(* projection over another connection, and marks in its transaction the    *)
(* rows that were applied.  A row that fails is copied to the dead letters *)
(* and stays in the queue.                                                 *)
(*                                                                         *)
(* The projection is written by the event consumer too.  Re-indexing a     *)
(* message that exists always fails: the statement leaves out columns the  *)
(* table requires.  For a message that is gone it writes no row, and is no *)
(* error.  The application starts neither the worker nor a writer of the   *)
(* queue; the model is of the two used together.                           *)
(***************************************************************************)
EXTENDS Naturals, FiniteSets, Sequences

CONSTANTS
    SearchMessages,
    IndexWorkers,
    MaxItems,           \* bound: rows ever put in the queue
    IndexLimit,         \* LIMIT 100
    MaxSearchFaults     \* bound: failed statements, and workers that die

ASSUME SearchAssumption ==
    MaxItems \in Nat /\ IndexLimit \in Nat \ {0} /\ MaxSearchFaults \in Nat

VARIABLES
    stored,         \* messages that have a row
    indexed,        \* messages that have a row in message_search_projection
    items,          \* search_index_queue: message, operation, processed
    searchDlq,      \* search_index_dlq, as rows of the queue
    indexer,        \* each worker: rows it claimed and those still to handle
    overtaken,      \* history: deletions an event came in after
    searchFaults

searchTables == <<stored, indexed, items, searchDlq>>
searchVars   == <<searchTables, indexer, overtaken, searchFaults>>

Operations == {"index", "delete"}
Item(m, operation, processed) == [msg |-> m, op |-> operation, processed |-> processed]
Items == [msg : SearchMessages, op : Operations, processed : BOOLEAN]
NotWorking == [claimed |-> {}, rows |-> {}, done |-> {}]
Working(w) == indexer[w].claimed # {}

\* FOR UPDATE SKIP LOCKED: the rows another transaction holds are passed over.
Free == {i \in DOMAIN items :
           ~items[i].processed /\ \A w \in IndexWorkers : i \notin indexer[w].claimed}

SearchFault == searchFaults < MaxSearchFaults /\ searchFaults' = searchFaults + 1

SearchInit ==
    /\ stored = SearchMessages /\ indexed \in SUBSET SearchMessages
    /\ items = <<>> /\ searchDlq = {}
    /\ indexer = [w \in IndexWorkers |-> NotWorking]
    /\ overtaken = {}
    /\ searchFaults = 0

-----------------------------------------------------------------------------
(* The writers of the tables *)

Enqueue(m, operation) ==
    /\ Len(items) < MaxItems
    /\ items' = Append(items, Item(m, operation, FALSE))
    /\ UNCHANGED <<stored, indexed, searchDlq, indexer, overtaken, searchFaults>>

\* IndexMessage or DeleteMessage for an event, however late the event is.
ProjectEvent(m) ==
    /\ indexed' \in {indexed \cup {m}, indexed \ {m}}
    /\ overtaken' = overtaken \cup {i \in DOMAIN items \ Free :
                                      items[i].op = "delete" /\ items[i].msg = m}
    /\ UNCHANGED <<stored, items, searchDlq, indexer, searchFaults>>

\* cleanup deletes messages whose deletion is old, and nothing that refers to them.
Cleanup ==
    /\ \E old \in SUBSET stored : old # {} /\ stored' = stored \ old
    /\ UNCHANGED <<indexed, items, searchDlq, indexer, overtaken, searchFaults>>

-----------------------------------------------------------------------------
(* IndexWorker.process *)

SelectItems(w) ==
    /\ ~Working(w) /\ Free # {}
    /\ LET rows == {i \in Free : Cardinality({j \in Free : j < i}) < IndexLimit}
       IN  indexer' = [indexer EXCEPT ![w] = [claimed |-> rows, rows |-> rows, done |-> {}]]
    /\ UNCHANGED <<searchTables, overtaken, searchFaults>>

Poison(i)  == items[i].op = "index" /\ items[i].msg \in stored
Applied(i) == IF items[i].op = "delete" THEN indexed \ {items[i].msg} ELSE indexed

\* The rows are handled in their order.
IsCurrent(i, w) == i \in indexer[w].rows /\ \A j \in indexer[w].rows : i <= j
Handled(i, w, done) ==
    indexer' = [indexer EXCEPT ![w] =
                  [claimed |-> @.claimed, rows |-> @.rows \ {i}, done |-> @.done \cup done]]

HandleItem(w) ==
    /\ \E i \in indexer[w].rows :
           /\ IsCurrent(i, w) /\ ~Poison(i)
           /\ indexed' = Applied(i)
           /\ overtaken' = overtaken \ {i}
           /\ Handled(i, w, {i})
    /\ UNCHANGED <<stored, items, searchDlq, searchFaults>>

\* Mutant: a row that was copied to the dead letters is marked as well.
HandleFailsAndMark(w) ==
    /\ \E i \in indexer[w].rows :
           /\ IsCurrent(i, w)
           /\ IF Poison(i) THEN UNCHANGED searchFaults ELSE SearchFault
           /\ searchDlq' = searchDlq \cup {i}
           /\ Handled(i, w, {i})
    /\ UNCHANGED <<stored, indexed, items, overtaken>>

\* The error of moveToDLQ is dropped, the batch goes on.
HandleFails(w) ==
    /\ \E i \in indexer[w].rows :
           /\ IsCurrent(i, w)
           /\ IF Poison(i) THEN UNCHANGED searchFaults ELSE SearchFault
           /\ searchDlq' = searchDlq \cup {i}
           /\ Handled(i, w, {})
    /\ UNCHANGED <<stored, indexed, items, overtaken>>

\* Mutant: one row that failed takes the whole batch back.
CommitWholeBatch(w) ==
    /\ Working(w) /\ indexer[w].rows = {}
    /\ items' = IF indexer[w].done # indexer[w].claimed THEN items
                ELSE [i \in DOMAIN items |->
                        Item(items[i].msg, items[i].op,
                             items[i].processed \/ i \in indexer[w].done)]
    /\ indexer' = [indexer EXCEPT ![w] = NotWorking]
    /\ UNCHANGED <<stored, indexed, searchDlq, overtaken, searchFaults>>

CommitItems(w) ==
    /\ Working(w) /\ indexer[w].rows = {}
    /\ items' = [i \in DOMAIN items |->
                   Item(items[i].msg, items[i].op,
                        items[i].processed \/ i \in indexer[w].done)]
    /\ indexer' = [indexer EXCEPT ![w] = NotWorking]
    /\ UNCHANGED <<stored, indexed, searchDlq, overtaken, searchFaults>>

\* A statement of the transaction fails, or the worker dies: what was applied to
\* the projection stays, and no row is marked.
RollbackItems(w) ==
    /\ Working(w)
    /\ SearchFault
    /\ indexer' = [indexer EXCEPT ![w] = NotWorking]
    /\ UNCHANGED <<searchTables, overtaken>>

IndexStep(w) ==
    \/ SelectItems(w) \/ HandleItem(w) \/ CommitItems(w)
    \/ HandleFails(w) /\ UNCHANGED searchFaults

SearchNext ==
    \/ \E m \in SearchMessages :
           ProjectEvent(m) \/ \E operation \in Operations : Enqueue(m, operation)
    \/ Cleanup
    \/ \E w \in IndexWorkers :
           SelectItems(w) \/ HandleItem(w) \/ HandleFails(w) \/ CommitItems(w)
           \/ RollbackItems(w)

SearchSpec == SearchInit /\ [][SearchNext]_searchVars

-----------------------------------------------------------------------------
(* Properties *)

SearchTypeOK ==
    /\ stored \subseteq SearchMessages /\ indexed \subseteq SearchMessages
    /\ items \in Seq(Items)
    /\ Len(items) <= MaxItems
    /\ searchDlq \subseteq DOMAIN items /\ overtaken \subseteq DOMAIN items
    /\ LET Rows == SUBSET DOMAIN items
       IN  indexer \in [IndexWorkers -> [claimed : Rows, rows : Rows, done : Rows]]
    /\ \A w \in IndexWorkers :
           /\ indexer[w].rows \cup indexer[w].done \subseteq indexer[w].claimed
           /\ indexer[w].rows \cap indexer[w].done = {}
    /\ searchFaults \in 0..MaxSearchFaults

\* A row marked as processed was applied: its message is out of the projection
\* unless a later event put it back, or the re-indexing found no message.  Holds
\* through dead letters, rolled back batches and workers side by side.
ProcessedWasApplied ==
    \A i \in DOMAIN items :
        items[i].processed =>
            IF items[i].op = "delete" THEN i \in overtaken \/ items[i].msg \notin indexed
            ELSE items[i].msg \notin stored

\* The rows before i that fail on every pass and take a place in every batch.
PoisonBefore(i) == {j \in DOMAIN items : j < i /\ ~items[j].processed /\ Poison(j)}

\* A deletion reaches the index as long as fewer failing rows than a batch holds
\* lie before it; from there on nothing behind them is ever selected.
DeletionIsReached ==
    []<>(\A i \in DOMAIN items :
            items[i].op = "delete" =>
                items[i].processed \/ Cardinality(PoisonBefore(i)) >= IndexLimit)
=============================================================================
