-------------------------------- MODULE Delivery --------------------------------
(***************************************************************************)
(* From RouteMessage to the client, to the retry table or to the dead      *)
(* letters: the delivery queue and its workers, the clients' send channels, *)
(* the delivery status table, and the retry worker.  The registration of   *)
(* clients is ConnectionManager's subject; here a client is simply linked. *)
(*                                                                         *)
(* A job is the pair of a message and the client it was queued for.  The   *)
(* retry table keeps the message and the user only; its rows are named     *)
(* after their job so that the model can tell them apart, but no action    *)
(* reads the client of a row.                                              *)
(***************************************************************************)
EXTENDS Naturals, Sequences, FiniteSets

CONSTANTS
    Messages,
    WebSockets, SSEs,       \* the clients, by transport
    Users, UserOf,
    Workers,
    QueueCap,               \* deliveryQueue: 8192
    ChannelCap,             \* Client.Send, SSEClient.EventSend: 256
    MaxFaults,              \* bound: database errors in a behaviour
    MaxCrashes              \* bound: restarts of the process

Clients == WebSockets \cup SSEs

ASSUME DeliveryAssumption ==
    /\ WebSockets \cap SSEs = {}
    /\ UserOf \in [Clients -> Users]
    /\ QueueCap \in Nat \ {0} /\ ChannelCap \in Nat \ {0}
    /\ MaxFaults \in Nat /\ MaxCrashes \in Nat

Jobs  == Messages \X Clients
Pairs == Messages \X Users
Msg(j)  == j[1]
Cli(j)  == j[2]
Pair(j) == <<j[1], UserOf[j[2]]>>

VARIABLES
    link,       \* life of each client: open, closing (context cancelled) or gone
    channel,    \* the events in each client's send channel
    routed,     \* the messages RouteMessage was called for
    pending,    \* of each of them, the clients it has still to queue a job for
    queue,      \* deliveryQueue
    hand,       \* what each worker is doing: [pc, job]
    status,     \* message_delivery_status
    rows,       \* message_retry_queue
    batch,      \* the jobs the retry worker fetched and has not finished
    current,    \* the job it has stored as a dead letter and not deleted yet
    dlq,        \* message_dlq
    accepted,   \* history: jobs this process put on the queue
    sent,       \* history: jobs whose event went into the channel
    unqueued,   \* history: jobs the retry table did not take
    unstored,   \* history: pairs the dead letters did not take
    faults, crashes

clientVars == <<link, channel>>
workVars   == <<routed, pending, queue, hand>>
retryVars  == <<batch, current>>
tables     == <<status, rows, dlq>>
history    == <<accepted, sent, unqueued, unstored>>
bounds     == <<faults, crashes>>
vars == <<clientVars, workVars, retryVars, tables, history, bounds>>

NoJob == <<>>
Events == [type : {"message", "ack_sent"}, msg : Messages]
Hands  == [pc : {"idle", "dead"}, job : {NoJob}]
            \cup [pc : {"find", "send", "ack", "store", "failed"}, job : Jobs]
Idle == [pc |-> "idle", job |-> NoJob]

\* Clients that are not connected by now are not connected when the messages
\* arrive either: to a message, a client that comes later is one that never came.
Init ==
    /\ link \in [Clients -> {"open", "gone"}]
    /\ channel = [c \in Clients |-> <<>>]
    /\ routed = {} /\ pending = [m \in Messages |-> {}]
    /\ queue = <<>>
    /\ hand = [w \in Workers |-> Idle]
    /\ status = [p \in Pairs |-> "none"]
    /\ rows = {} /\ dlq = {}
    /\ batch = {} /\ current = NoJob
    /\ accepted = {} /\ sent = {} /\ unqueued = {} /\ unstored = {}
    /\ faults = 0 /\ crashes = 0

Linked(c) == link[c] \in {"open", "closing"}

\* SafeSend is one select: it succeeds only with room in the channel, and fails
\* when the channel is full or the context is done; with both a room and a done
\* context Go picks either case.
MaySend(c) == Len(channel[c]) < ChannelCap
MayFail(c) == ~MaySend(c) \/ link[c] # "open"

\* A call to the database fails.
Fault == faults < MaxFaults /\ faults' = faults + 1

-----------------------------------------------------------------------------
(* Clients *)

\* Close cancels the context before it unregisters the client.
Close(c) ==
    /\ link[c] = "open"
    /\ link' = [link EXCEPT ![c] = "closing"]
    /\ UNCHANGED <<channel, workVars, retryVars, tables, history, bounds>>

\* The end of Unregister.  An SSE client stays: the ConnID() Unregister deletes
\* is not the one the client was inserted under.
Unregistered(c) ==
    /\ link[c] = "closing" /\ c \in WebSockets
    /\ link' = [link EXCEPT ![c] = "gone"]
    /\ UNCHANGED <<channel, workVars, retryVars, tables, history, bounds>>

\* writePump takes the oldest event off the channel and writes it; whether it
\* reaches the peer nobody here learns.  A pump that finds its context done may
\* still take an event.
Write(c) ==
    /\ channel[c] # <<>>
    /\ channel' = [channel EXCEPT ![c] = Tail(@)]
    /\ UNCHANGED <<link, workVars, retryVars, tables, history, bounds>>

\* readPump passes every acknowledgement on: of any message id, whether the user
\* was ever sent it or not, in any order and as often as the client likes.
\* HandleAck overwrites the status of the message and that user; an error is
\* logged.  It comes over a WebSocket connection of the user, one of these or a
\* later one.
HandleAck(p, stage) ==
    /\ \E c \in WebSockets : UserOf[c] = p[2]
    /\ \/ status' = [status EXCEPT ![p] = stage] /\ UNCHANGED faults
       \/ Fault /\ UNCHANGED status
    /\ UNCHANGED <<clientVars, workVars, retryVars, rows, dlq, history, crashes>>

-----------------------------------------------------------------------------
(* RouteMessage, in a goroutine of its own for each message *)

\* The suppressor says no: the sender is shadow-banned, or the lookup failed.
Suppress(m) ==
    /\ m \notin routed
    /\ routed' = routed \cup {m}
    /\ UNCHANGED <<clientVars, pending, queue, hand, retryVars, tables, history, bounds>>

\* A realtime-only message skips the SSE clients.
BroadcastRealtime(m) ==
    /\ m \notin routed
    /\ routed' = routed \cup {m}
    /\ pending' = [pending EXCEPT ![m] = {c \in WebSockets : Linked(c)}]
    /\ UNCHANGED <<clientVars, queue, hand, retryVars, tables, history, bounds>>

\* Under the room's read lock: a durable event goes straight to the SSE clients,
\* and is dropped for those whose SafeSendEvent fails; the WebSocket clients are
\* noted.
BroadcastDurable(m) ==
    /\ m \notin routed
    /\ routed' = routed \cup {m}
    /\ pending' = [pending EXCEPT ![m] = {c \in WebSockets : Linked(c)}]
    /\ \E got \in SUBSET {c \in SSEs : Linked(c) /\ MaySend(c)} :
           /\ {c \in SSEs : Linked(c) /\ ~MayFail(c)} \subseteq got
           /\ channel' = [c \in Clients |->
                 IF c \in got THEN Append(channel[c], [type |-> "message", msg |-> m])
                 ELSE channel[c]]
           /\ sent' = sent \cup {<<m, c>> : c \in got}
    /\ UNCHANGED <<link, queue, hand, retryVars, tables, accepted, unqueued,
                   unstored, bounds>>

\* Mutant: the job is queued without looking at the capacity.
EnqueueUnbounded(m, c) ==
    /\ c \in pending[m]
    /\ pending' = [pending EXCEPT ![m] = @ \ {c}]
    /\ queue' = Append(queue, <<m, c>>)
    /\ accepted' = accepted \cup {<<m, c>>}
    /\ UNCHANGED <<clientVars, routed, hand, retryVars, tables, sent, unqueued,
                   unstored, bounds>>

\* A job is queued without waiting; with a full queue it is dropped.
Enqueue(m, c) ==
    /\ c \in pending[m]
    /\ pending' = [pending EXCEPT ![m] = @ \ {c}]
    /\ \/ /\ Len(queue) < QueueCap
          /\ queue' = Append(queue, <<m, c>>)
          /\ accepted' = accepted \cup {<<m, c>>}
       \/ /\ Len(queue) = QueueCap
          /\ UNCHANGED <<queue, accepted>>
    /\ UNCHANGED <<clientVars, routed, hand, retryVars, tables, sent, unqueued,
                   unstored, bounds>>

-----------------------------------------------------------------------------
(* deliveryWorker and ProcessDelivery *)

Goto(w, pc) == hand' = [hand EXCEPT ![w].pc = pc]

Take(w) ==
    /\ hand[w].pc = "idle" /\ queue # <<>>
    /\ hand' = [hand EXCEPT ![w] = [pc |-> "find", job |-> Head(queue)]]
    /\ queue' = Tail(queue)
    /\ UNCHANGED <<clientVars, routed, pending, retryVars, tables, history, bounds>>

\* Mutant: with the client gone the job is simply finished.
FindClientOrForget(w) ==
    /\ hand[w].pc = "find"
    /\ IF Linked(Cli(hand[w].job)) THEN Goto(w, "send")
       ELSE hand' = [hand EXCEPT ![w] = Idle]
    /\ UNCHANGED <<clientVars, routed, pending, queue, retryVars, tables, history, bounds>>

\* Mutant: the worker holds the job until the client is connected again.
FindClientWaits(w) ==
    /\ hand[w].pc = "find"
    /\ Linked(Cli(hand[w].job)) /\ Goto(w, "send")
    /\ UNCHANGED <<clientVars, routed, pending, queue, retryVars, tables, history, bounds>>

\* findClient looks the job's client up; without it the delivery has failed.
FindClient(w) ==
    /\ hand[w].pc = "find"
    /\ Goto(w, IF Linked(Cli(hand[w].job)) THEN "send" ELSE "failed")
    /\ UNCHANGED <<clientVars, routed, pending, queue, retryVars, tables, history, bounds>>

\* Mutant: the error of SafeSend is ignored.
SendUnchecked(w) ==
    LET j == hand[w].job
        c == Cli(j)
    IN  /\ hand[w].pc = "send" /\ Goto(w, "ack")
        /\ \/ /\ MaySend(c)
              /\ channel' = [channel EXCEPT ![c] =
                                Append(@, [type |-> "message", msg |-> Msg(j)])]
              /\ sent' = sent \cup {j}
           \/ MayFail(c) /\ UNCHANGED <<channel, sent>>
        /\ UNCHANGED <<link, routed, pending, queue, retryVars, tables,
                       accepted, unqueued, unstored, bounds>>

SendEvent(w) ==
    LET j == hand[w].job
        c == Cli(j)
    IN  /\ hand[w].pc = "send"
        /\ \/ /\ MaySend(c)
              /\ channel' = [channel EXCEPT ![c] =
                                Append(@, [type |-> "message", msg |-> Msg(j)])]
              /\ sent' = sent \cup {j}
              /\ Goto(w, "ack")
           \/ MayFail(c) /\ Goto(w, "failed") /\ UNCHANGED <<channel, sent>>
        /\ UNCHANGED <<link, routed, pending, queue, retryVars, tables,
                       accepted, unqueued, unstored, bounds>>

\* sendSentAck takes a place in the same channel; its error is ignored.
SendSentAck(w) ==
    LET c == Cli(hand[w].job)
    IN  /\ hand[w].pc = "ack" /\ Goto(w, "store")
        /\ \/ /\ MaySend(c)
              /\ channel' = [channel EXCEPT ![c] =
                                Append(@, [type |-> "ack_sent", msg |-> Msg(hand[w].job)])]
           \/ MayFail(c) /\ UNCHANGED channel
        /\ UNCHANGED <<link, routed, pending, queue, retryVars, tables, history, bounds>>

\* Mutant: the error of UpdateStatus is returned and the job counts as failed.
UpdateStatusReturnsError(w) ==
    /\ hand[w].pc = "store"
    /\ \/ /\ status' = [status EXCEPT ![Pair(hand[w].job)] = "sent"]
          /\ hand' = [hand EXCEPT ![w] = Idle] /\ UNCHANGED faults
       \/ Fault /\ Goto(w, "failed") /\ UNCHANGED status
    /\ UNCHANGED <<clientVars, routed, pending, queue, retryVars, rows, dlq, history, crashes>>

\* UpdateStatus(sent) overwrites whatever the row says; an error is logged.
UpdateStatus(w) ==
    /\ hand[w].pc = "store"
    /\ hand' = [hand EXCEPT ![w] = Idle]
    /\ \/ status' = [status EXCEPT ![Pair(hand[w].job)] = "sent"] /\ UNCHANGED faults
       \/ Fault /\ UNCHANGED status
    /\ UNCHANGED <<clientVars, routed, pending, queue, retryVars, rows, dlq, history, crashes>>

\* After an error the job becomes a row of the retry table.  Its Attempt is 1,
\* for only broadcasts fill the queue, so the worker's own branch for exhausted
\* attempts is never taken.  When the insert fails the worker returns.
RetryLater(w) ==
    LET j == hand[w].job
    IN  /\ hand[w].pc = "failed"
        /\ \/ /\ rows' = rows \cup {j}
              /\ hand' = [hand EXCEPT ![w] = Idle] /\ UNCHANGED <<unqueued, faults>>
           \/ /\ Fault
              /\ unqueued' = unqueued \cup {j}
              /\ hand' = [hand EXCEPT ![w] = [Idle EXCEPT !.pc = "dead"]]
              /\ UNCHANGED rows
        /\ UNCHANGED <<clientVars, routed, pending, queue, retryVars, status, dlq,
                       accepted, sent, unstored, crashes>>

-----------------------------------------------------------------------------
(* RetryWorker.processBatch *)

\* GetReadyJobs: any of the rows may be due.
GetReadyJobs ==
    /\ batch = {} /\ current = NoJob
    /\ \E due \in SUBSET rows : due # {} /\ batch' = due
    /\ UNCHANGED <<clientVars, workVars, current, tables, history, bounds>>

\* A fetched job has no ClientID, so ProcessDelivery ends at findClient with an
\* error IsRetryable rejects: the job is stored as a dead letter at once.
DeadLetter(j) ==
    /\ current = NoJob /\ j \in batch
    /\ batch' = batch \ {j}
    /\ current' = j
    /\ \/ dlq' = dlq \cup {Pair(j)} /\ UNCHANGED <<unstored, faults>>
       \/ Fault /\ unstored' = unstored \cup {Pair(j)} /\ UNCHANGED dlq
    /\ UNCHANGED <<clientVars, workVars, status, rows, accepted, sent, unqueued, crashes>>

\* Delete removes every row of the message and the user, those another client of
\* the user put there since the fetch included; its error is ignored.
DeleteJob ==
    /\ current # NoJob /\ current' = NoJob
    /\ \/ rows' = {r \in rows : Pair(r) # Pair(current)} /\ UNCHANGED faults
       \/ Fault /\ UNCHANGED rows
    /\ UNCHANGED <<clientVars, workVars, batch, status, dlq, history, crashes>>

-----------------------------------------------------------------------------
\* The process dies and starts again: connections, queue and workers are gone,
\* the tables stay.
Crash ==
    /\ crashes < MaxCrashes /\ crashes' = crashes + 1
    /\ link' = [c \in Clients |-> "gone"]
    /\ pending' = [m \in Messages |-> {}]
    /\ accepted' = {j \in accepted :
                       /\ \A i \in 1 .. Len(queue) : queue[i] # j
                       /\ \A w \in Workers : hand[w].job # j \/ hand[w].pc \in {"ack", "store"}}
    /\ queue' = <<>>
    /\ hand' = [w \in Workers |-> Idle]
    /\ channel' = [c \in Clients |-> <<>>]
    /\ batch' = {} /\ current' = NoJob
    /\ UNCHANGED <<routed, tables, sent, unqueued, unstored, faults>>

-----------------------------------------------------------------------------
ClientNext ==
    \/ \E c \in Clients : Close(c) \/ Unregistered(c) \/ Write(c)
    \/ \E p \in Pairs, stage \in {"delivered", "read"} : HandleAck(p, stage)

RouteNext ==
    \/ \E m \in Messages : Suppress(m) \/ BroadcastRealtime(m) \/ BroadcastDurable(m)
    \/ \E m \in Messages, c \in Clients : Enqueue(m, c)

WorkerNext(w) ==
    \/ Take(w) \/ FindClient(w) \/ SendEvent(w) \/ SendSentAck(w)
    \/ UpdateStatus(w) \/ RetryLater(w)

RetryNext == GetReadyJobs \/ DeleteJob \/ \E j \in Jobs : DeadLetter(j)

Next ==
    \/ ClientNext \/ RouteNext \/ RetryNext \/ Crash
    \/ \E w \in Workers : WorkerNext(w)

Spec == Init /\ [][Next]_vars

\* Goroutines that can run are run and the scheduler of the retry worker ticks.
\* Peers need not read or answer, clients need not come or go, and of the two
\* outcomes of a database call neither is promised.
Fairness ==
    /\ \A w \in Workers : WF_vars(WorkerNext(w))
    /\ WF_vars(RetryNext)

FairSpec == Spec /\ Fairness

-----------------------------------------------------------------------------
(* Properties *)

Queued  == {queue[i] : i \in 1 .. Len(queue)}
Holding(j) == \E w \in Workers :
                  hand[w].job = j /\ hand[w].pc \in {"find", "send", "failed"}

\* Type correctness; the queue and the channels keep their capacities.
ClientTypes ==
    /\ link \in [Clients -> {"open", "closing", "gone"}]
    /\ channel \in [Clients -> Seq(Events)]
    /\ \A c \in Clients : Len(channel[c]) <= ChannelCap
WorkTypes ==
    /\ routed \subseteq Messages
    /\ pending \in [Messages -> SUBSET WebSockets]
    /\ queue \in Seq(Jobs) /\ Len(queue) <= QueueCap
    /\ hand \in [Workers -> Hands]
TableTypes ==
    /\ status \in [Pairs -> {"none", "sent", "delivered", "read"}]
    /\ rows \subseteq Jobs /\ batch \subseteq Jobs
    /\ current \in Jobs \cup {NoJob}
    /\ dlq \subseteq Pairs
HistoryTypes ==
    /\ accepted \subseteq Jobs /\ sent \subseteq Jobs
    /\ unqueued \subseteq Jobs /\ unstored \subseteq Pairs
    /\ faults \in 0 .. MaxFaults /\ crashes \in 0 .. MaxCrashes
TypeOK == ClientTypes /\ WorkTypes /\ TableTypes /\ HistoryTypes

\* No job gets lost between the queue and the dead letters: a job this process
\* queued is in the queue, with a worker, in its client's channel, in the retry
\* table or (by message and user) among the dead letters, unless the database
\* refused one of the two inserts that keep it.  A crash loses only what was in
\* memory, and the retry worker's Delete by message and user loses nothing.
Accounted ==
    \A j \in accepted :
        \/ j \in Queued \/ Holding(j) \/ j \in sent \/ j \in rows
        \/ Pair(j) \in dlq
        \/ j \in unqueued \/ Pair(j) \in unstored

\* A job whose event went into the channel is done: it is not queued, tried
\* again or retried, so one call of RouteMessage gives no client its message
\* twice, whatever workers, clients, database errors and restarts do.
SentIsFinal ==
    \A j \in sent : j \notin rows \cup Queued \cup unqueued /\ ~Holding(j)

\* The status of a message and a user says sent only if the message went into the
\* channel of one of the user's clients, however often it was acknowledged, retried
\* or refused.  (Delivered and read are what a client said, and it may say anything.)
SentIsEarned ==
    \A p \in Pairs : status[p] = "sent" => \E j \in sent : Pair(j) = p

\* As long as a worker is left (each dead one is an insert that failed), a job
\* in the queue, with a worker or in the retry table does not stay there.
InFlight(j) == j \in Queued \/ Holding(j) \/ j \in rows
JobsSettle ==
    MaxFaults < Cardinality(Workers) =>
        \A j \in Messages \X WebSockets : InFlight(j) ~> ~InFlight(j)

-----------------------------------------------------------------------------
(* The inductive invariant behind them *)

Started(j) ==
    \/ j \in Queued \/ j \in rows \/ j \in sent \/ j \in unqueued
    \/ \E w \in Workers : hand[w].job = j

\* A job that is still to be queued has left no trace.
Fresh ==
    /\ \A m \in Messages \ routed : pending[m] = {}
    /\ \A j \in Jobs : Msg(j) \notin routed \/ Cli(j) \in pending[Msg(j)] => ~Started(j)

\* A job is at one place of the queue or with one worker.
OnePlace ==
    /\ \A i, k \in 1 .. Len(queue) : queue[i] = queue[k] => i = k
    /\ \A v, w \in Workers : hand[v].job = hand[w].job /\ hand[w].job # NoJob => v = w
    /\ \A w \in Workers : hand[w].job \notin Queued

\* What a worker does with its job tells whether the event was sent.
Progress ==
    /\ \A j \in sent \cup Queued : j \notin rows \cup unqueued
    /\ sent \cap Queued = {}
    /\ \A w \in Workers :
          /\ hand[w].pc \in {"find", "send", "failed"} =>
                hand[w].job \notin sent \cup rows \cup unqueued
          /\ hand[w].pc \in {"ack", "store"} => hand[w].job \in sent

\* What is in a channel was sent.
Received ==
    \A c \in Clients : \A i \in 1 .. Len(channel[c]) :
        channel[c][i].type = "message" => <<channel[c][i].msg, c>> \in sent

\* The retry worker deletes only what it tried to store.
Stored == current # NoJob => Pair(current) \in dlq \cup unstored

DeliveryInv ==
    /\ TypeOK /\ Fresh /\ OnePlace /\ Progress /\ Received /\ Stored
    /\ Accounted /\ SentIsEarned

-----------------------------------------------------------------------------
(* Refinement *)

\* Where a job is: at one place, or in the end nowhere.
Held(j) == j \in Queued \/ Holding(j)
PlaceOf(j) ==
    CASE j \in sent /\ ~Held(j) /\ j \notin rows    -> "sent"
      [] Held(j) /\ j \notin sent \cup rows          -> "held"
      [] j \in rows /\ ~Held(j) /\ j \notin sent     -> "waiting"
      [] ~Held(j) /\ j \notin sent \cup rows ->
            IF Msg(j) \notin routed \/ Cli(j) \in pending[Msg(j)] THEN "new" ELSE "over"
      [] OTHER -> "two places"

Bar == [j \in Jobs |-> PlaceOf(j)]
Lifecycle == INSTANCE JobLifecycle WITH place <- Bar

\* Every job is at one place at a time and goes through them in the order of
\* JobLifecycle: workers, faults, the retry worker and restarts make none sent
\* twice, bring none back and lose none that waits or was sent.
ImplementsLifecycle == Lifecycle!LifecycleSpec

-----------------------------------------------------------------------------
(* What the documentation says, and the code does not do *)

\* A client that plays by the rules acknowledges a message only after it was
\* written to the user, as delivered before read, and each once.
Rank == [none |-> 0, sent |-> 1, delivered |-> 2, read |-> 3]
Written(j) ==
    j \in sent /\ \A i \in 1 .. Len(channel[Cli(j)]) :
                       channel[Cli(j)][i] # [type |-> "message", msg |-> Msg(j)]
HonestAcks ==
    \A p \in Pairs : status'[p] \in {"delivered", "read"} /\ status'[p] # status[p] =>
        Rank[status[p]] < Rank[status'[p]] /\ \E j \in Jobs : Pair(j) = p /\ Written(j)
HonestSpec == Init /\ [][Next /\ HonestAcks]_vars /\ Fairness

\* "pending -> sent -> delivered -> read": with such clients the status only moves
\* forward.
StatesAdvance ==
    [][\A p \in Pairs : Rank[status[p]] <= Rank[status'[p]]]_status
=============================================================================
