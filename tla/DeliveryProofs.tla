----------------------------- MODULE DeliveryProofs -----------------------------
EXTENDS Delivery, FiniteSetTheorems, TLAPS

USE DEF DeliveryInv, TypeOK,
        clientVars, workVars, retryVars, tables, history, bounds

\* The parts of a job.
LEMMA JobParts ==
    /\ \A j \in Jobs : /\ Msg(j) \in Messages /\ Cli(j) \in Clients
                       /\ Pair(j) \in Pairs
                       /\ j = <<Msg(j), Cli(j)>>
    /\ \A m \in Messages, c \in Clients :
          <<m, c>> \in Jobs /\ Msg(<<m, c>>) = m /\ Cli(<<m, c>>) = c
    /\ NoJob \notin Jobs
    /\ WebSockets \subseteq Clients /\ SSEs \subseteq Clients
    BY DeliveryAssumption DEF Jobs, Pairs, Msg, Cli, Pair, NoJob, Clients

\* What Append and Tail do to a sequence.
LEMMA AppendFacts ==
    ASSUME NEW S, NEW s \in Seq(S), NEW e \in S
    PROVE  /\ Append(s, e) \in Seq(S)
           /\ Len(s) \in Nat /\ Len(Append(s, e)) = Len(s) + 1
           /\ \A i \in 1 .. Len(s) : Append(s, e)[i] = s[i]
           /\ Append(s, e)[Len(s) + 1] = e
    OBVIOUS

LEMMA TailFacts ==
    ASSUME NEW S, NEW s \in Seq(S), s # <<>>
    PROVE  /\ Tail(s) \in Seq(S) /\ Head(s) = s[1] /\ Head(s) \in S
           /\ Len(s) \in Nat \ {0} /\ Len(Tail(s)) = Len(s) - 1
           /\ \A i \in 1 .. Len(s) - 1 : Tail(s)[i] = s[i + 1]
    OBVIOUS

\* The jobs no two places of the queue share.
Distinct == \A i, k \in 1 .. Len(queue) : queue[i] = queue[k] => i = k

\* A new job at the end of the queue.
LEMMA QueueAppend ==
    ASSUME queue \in Seq(Jobs), NEW j \in Jobs, queue' = Append(queue, j)
    PROVE  /\ queue' \in Seq(Jobs) /\ Len(queue') = Len(queue) + 1
           /\ Queued' = Queued \cup {j}
           /\ Distinct /\ j \notin Queued => Distinct'
<1>1. /\ queue' \in Seq(Jobs) /\ Len(queue) \in Nat /\ Len(queue') = Len(queue) + 1
      /\ \A i \in 1 .. Len(queue) : queue'[i] = queue[i]
      /\ queue'[Len(queue) + 1] = j
    BY AppendFacts
<1>2. Queued' = Queued \cup {j}
    BY <1>1 DEF Queued
<1>3. Distinct /\ j \notin Queued => Distinct'
    BY <1>1 DEF Queued, Distinct
<1>4. QED  BY <1>1, <1>2, <1>3

\* The job at the head leaves the queue.
LEMMA QueueTail ==
    ASSUME queue \in Seq(Jobs), queue # <<>>, queue' = Tail(queue)
    PROVE  /\ queue' \in Seq(Jobs) /\ Len(queue') <= Len(queue)
           /\ Head(queue) \in Queued
           /\ Queued = Queued' \cup {Head(queue)}
           /\ Distinct => Distinct' /\ Head(queue) \notin Queued'
<1>1. /\ queue' \in Seq(Jobs) /\ Head(queue) = queue[1]
      /\ Len(queue) \in Nat \ {0} /\ Len(queue') = Len(queue) - 1
      /\ \A i \in 1 .. Len(queue) - 1 : queue'[i] = queue[i + 1]
    BY TailFacts
<1>2. Head(queue) \in Queued
    BY <1>1 DEF Queued
<1>3. Queued = Queued' \cup {Head(queue)}
    <2>1. ASSUME NEW i \in 1 .. Len(queue)
          PROVE  queue[i] = Head(queue) \/ queue[i] \in Queued'
        <3>1. CASE i = 1  BY <3>1, <1>1
        <3>2. CASE i # 1
            <4>1. i - 1 \in 1 .. Len(queue') /\ queue'[i - 1] = queue[i]
                BY <3>2, <1>1
            <4>2. QED  BY <4>1 DEF Queued
        <3>3. QED  BY <3>1, <3>2
    <2>2. Queued' \subseteq Queued
        BY <1>1 DEF Queued
    <2>3. QED  BY <1>2, <2>1, <2>2 DEF Queued
<1>4. Distinct => Distinct' /\ Head(queue) \notin Queued'
    BY <1>1 DEF Queued, Distinct
<1>5. QED  BY <1>1, <1>2, <1>3, <1>4

\* An event at the end of a channel with room.
LEMMA ChannelAppend ==
    ASSUME ClientTypes, NEW c \in Clients, NEW e \in Events,
           Len(channel[c]) < ChannelCap
    PROVE  /\ Append(channel[c], e) \in Seq(Events)
           /\ Len(Append(channel[c], e)) <= ChannelCap
           /\ \A i \in 1 .. Len(Append(channel[c], e)) :
                 Append(channel[c], e)[i] = e
                   \/ (i \in 1 .. Len(channel[c])
                        /\ Append(channel[c], e)[i] = channel[c][i])
<1>1. channel[c] \in Seq(Events)
    BY DEF ClientTypes
<1>2. /\ Append(channel[c], e) \in Seq(Events)
      /\ Len(channel[c]) \in Nat /\ Len(Append(channel[c], e)) = Len(channel[c]) + 1
      /\ \A i \in 1 .. Len(channel[c]) : Append(channel[c], e)[i] = channel[c][i]
      /\ Append(channel[c], e)[Len(channel[c]) + 1] = e
    BY <1>1, AppendFacts
<1> DEFINE s == Append(channel[c], e)
<1> HIDE DEF s
<1>3. /\ s \in Seq(Events) /\ Len(channel[c]) \in Nat /\ Len(s) = Len(channel[c]) + 1
      /\ \A i \in 1 .. Len(channel[c]) : s[i] = channel[c][i]
      /\ s[Len(channel[c]) + 1] = e
    BY <1>2 DEF s
<1>4. Len(s) <= ChannelCap
    BY <1>3, DeliveryAssumption
<1>5. ASSUME NEW i \in 1 .. Len(s)
      PROVE  s[i] = e \/ (i \in 1 .. Len(channel[c]) /\ s[i] = channel[c][i])
    <2>1. CASE i = Len(channel[c]) + 1  BY <2>1, <1>3
    <2>2. CASE i # Len(channel[c]) + 1
        <3>1. i \in 1 .. Len(channel[c])  BY <2>2, <1>3
        <3>2. QED  BY <3>1, <1>3
    <2>3. QED  BY <2>1, <2>2
<1>6. QED  BY <1>3, <1>4, <1>5 DEF s

\* It is recorded as sent if it is a message.
LEMMA ReceivedAppend ==
    ASSUME ClientTypes, Received, NEW c \in Clients, NEW e \in Events, MaySend(c),
           channel' = [channel EXCEPT ![c] = Append(channel[c], e)],
           sent \subseteq sent',
           e.type = "message" => <<e.msg, c>> \in sent'
    PROVE  Received'
<1>1. \A i \in 1 .. Len(channel'[c]) :
         channel'[c][i] = e
           \/ (i \in 1 .. Len(channel[c]) /\ channel'[c][i] = channel[c][i])
    BY ChannelAppend DEF ClientTypes, MaySend
<1>2. \A d \in Clients : d # c => channel'[d] = channel[d]
    BY DEF ClientTypes
<1>3. QED  BY <1>1, <1>2 DEF Received

\* A worker that keeps its job or lets it go disturbs nobody's place.
LEMMA OnePlaceKept ==
    ASSUME OnePlace, queue \in Seq(Jobs), UNCHANGED queue,
           \A v \in Workers : hand'[v].job \in {hand[v].job, NoJob}
    PROVE  OnePlace'
<1>1. Queued' = Queued /\ NoJob \notin Queued
    BY JobParts DEF Queued
<1>2. QED  BY <1>1 DEF OnePlace

LEMMA ClientTypesFrame ==
    ASSUME ClientTypes, UNCHANGED <<link, channel>>
    PROVE  ClientTypes'
    BY DEF ClientTypes

LEMMA WorkTypesFrame ==
    ASSUME WorkTypes, UNCHANGED <<routed, pending, queue, hand>>
    PROVE  WorkTypes'
    BY DEF WorkTypes

LEMMA TableTypesFrame ==
    ASSUME TableTypes, UNCHANGED <<status, rows, batch, current, dlq>>
    PROVE  TableTypes'
    BY DEF TableTypes

LEMMA HistoryTypesFrame ==
    ASSUME HistoryTypes, UNCHANGED <<accepted, sent, unqueued, unstored,
       faults, crashes>>
    PROVE  HistoryTypes'
    BY DEF HistoryTypes

LEMMA FreshFrame ==
    ASSUME Fresh, UNCHANGED <<routed, pending, queue, rows, sent, unqueued,
       hand>>
    PROVE  Fresh'
    BY DEF Fresh, Started, Queued

LEMMA OnePlaceFrame ==
    ASSUME OnePlace, UNCHANGED <<queue, hand>>
    PROVE  OnePlace'
    BY DEF OnePlace, Queued

LEMMA ProgressFrame ==
    ASSUME Progress, UNCHANGED <<sent, queue, rows, unqueued, hand>>
    PROVE  Progress'
    BY DEF Progress, Queued

LEMMA ReceivedFrame ==
    ASSUME Received, UNCHANGED <<channel, sent>>
    PROVE  Received'
    BY DEF Received

LEMMA StoredFrame ==
    ASSUME Stored, UNCHANGED <<current, dlq, unstored>>
    PROVE  Stored'
    BY DEF Stored

LEMMA AccountedFrame ==
    ASSUME Accounted, UNCHANGED <<accepted, queue, hand, sent, rows, dlq,
       unqueued, unstored>>
    PROVE  Accounted'
    BY DEF Accounted, Queued, Holding

LEMMA SentIsEarnedFrame ==
    ASSUME SentIsEarned, UNCHANGED <<status, sent>>
    PROVE  SentIsEarned'
    BY DEF SentIsEarned

\* A cancelled context touches only the link.
LEMMA CloseStep ==
    ASSUME DeliveryInv, NEW c \in Clients, Close(c)
    PROVE  DeliveryInv'
<1>1. (WorkTypes /\ TableTypes /\ HistoryTypes /\ Fresh /\ OnePlace
        /\ Progress /\ Received /\ Stored /\ Accounted /\ SentIsEarned)'
    BY WorkTypesFrame, TableTypesFrame, HistoryTypesFrame, FreshFrame,
       OnePlaceFrame, ProgressFrame, ReceivedFrame, StoredFrame,
       AccountedFrame, SentIsEarnedFrame DEF Close
<1>2. ClientTypes'
    BY JobParts DEF ClientTypes, Linked, Close
<1>3. QED BY <1>1, <1>2

\* The end of Unregister touches only the link.
LEMMA UnregisteredStep ==
    ASSUME DeliveryInv, NEW c \in Clients, Unregistered(c)
    PROVE  DeliveryInv'
<1>1. (WorkTypes /\ TableTypes /\ HistoryTypes /\ Fresh /\ OnePlace
        /\ Progress /\ Received /\ Stored /\ Accounted /\ SentIsEarned)'
    BY WorkTypesFrame, TableTypesFrame, HistoryTypesFrame, FreshFrame,
       OnePlaceFrame, ProgressFrame, ReceivedFrame, StoredFrame,
       AccountedFrame, SentIsEarnedFrame DEF Unregistered
<1>2. ClientTypes'
    BY JobParts DEF ClientTypes, Linked, Unregistered
<1>3. QED BY <1>1, <1>2

\* What leaves the channel was sent.
LEMMA WriteStep ==
    ASSUME DeliveryInv, NEW c \in Clients, Write(c)
    PROVE  DeliveryInv'
<1>1. (WorkTypes /\ TableTypes /\ HistoryTypes /\ Fresh /\ OnePlace
        /\ Progress /\ Stored /\ Accounted /\ SentIsEarned)'
    BY WorkTypesFrame, TableTypesFrame, HistoryTypesFrame, FreshFrame,
       OnePlaceFrame, ProgressFrame, StoredFrame, AccountedFrame,
       SentIsEarnedFrame DEF Write
<1>2. ClientTypes'
    <2>1. /\ Tail(channel[c]) \in Seq(Events) /\ Head(channel[c]) \in Events
          /\ Len(Tail(channel[c])) <= ChannelCap
        <3>1. /\ channel[c] \in Seq(Events) /\ channel[c] # <<>>
              /\ Len(channel[c]) <= ChannelCap
            BY DEF ClientTypes, Write
        <3>2. QED  BY <3>1, TailFacts, DeliveryAssumption
    <2>2. QED  BY <2>1, JobParts DEF ClientTypes, Events, Write
<1>3. Received'
    BY JobParts DEF Received, Progress, ClientTypes, Events, WorkTypes, Hands,
       Write
<1>4. QED BY <1>1, <1>2, <1>3

\* An acknowledgement touches only the status, and never makes it sent.
LEMMA HandleAckStep ==
    ASSUME DeliveryInv, NEW p \in Pairs, NEW stage \in {"delivered", "read"},
           HandleAck(p, stage)
    PROVE  DeliveryInv'
<1>1. (ClientTypes /\ WorkTypes /\ Fresh /\ OnePlace /\ Progress /\ Received
        /\ Stored /\ Accounted)'
    BY ClientTypesFrame, WorkTypesFrame, FreshFrame, OnePlaceFrame, ProgressFrame,
       ReceivedFrame, StoredFrame, AccountedFrame DEF HandleAck
<1>2. TableTypes'
    BY DEF TableTypes, HandleAck, Fault
<1>3. HistoryTypes'
    BY DeliveryAssumption DEF HistoryTypes, HandleAck, Fault
<1>4. SentIsEarned'
    BY DEF SentIsEarned, TableTypes, HandleAck
<1>5. QED BY <1>1, <1>2, <1>3, <1>4

\* A suppressed message leaves no job.
LEMMA SuppressStep ==
    ASSUME DeliveryInv, NEW m \in Messages, Suppress(m)
    PROVE  DeliveryInv'
<1>1. (ClientTypes /\ TableTypes /\ HistoryTypes /\ OnePlace /\ Progress
        /\ Received /\ Stored /\ Accounted /\ SentIsEarned)'
    BY ClientTypesFrame, TableTypesFrame, HistoryTypesFrame, OnePlaceFrame,
       ProgressFrame, ReceivedFrame, StoredFrame, AccountedFrame,
       SentIsEarnedFrame DEF Suppress
<1>2. WorkTypes'
    BY JobParts, DeliveryAssumption DEF WorkTypes, Hands, Idle, Suppress
<1>3. Fresh'
    BY JobParts, DeliveryAssumption DEF Fresh, Started, Queued, WorkTypes,
       TableTypes, Hands, Idle, Suppress
<1>4. QED BY <1>1, <1>2, <1>3

\* The clients noted have no job of this message yet.
LEMMA BroadcastRealtimeStep ==
    ASSUME DeliveryInv, NEW m \in Messages, BroadcastRealtime(m)
    PROVE  DeliveryInv'
<1>1. (ClientTypes /\ TableTypes /\ HistoryTypes /\ OnePlace /\ Progress
        /\ Received /\ Stored /\ Accounted /\ SentIsEarned)'
    BY ClientTypesFrame, TableTypesFrame, HistoryTypesFrame, OnePlaceFrame,
       ProgressFrame, ReceivedFrame, StoredFrame, AccountedFrame,
       SentIsEarnedFrame DEF BroadcastRealtime
<1>2. WorkTypes'
    BY JobParts, DeliveryAssumption DEF WorkTypes, Hands, Idle,
       BroadcastRealtime
<1>3. Fresh'
    BY JobParts, DeliveryAssumption DEF Fresh, Started, Queued, WorkTypes,
       TableTypes, Hands, Idle, BroadcastRealtime
<1>4. QED BY <1>1, <1>2, <1>3

\* The SSE clients served are never queued.
LEMMA BroadcastDurableStep ==
    ASSUME DeliveryInv, NEW m \in Messages, BroadcastDurable(m)
    PROVE  DeliveryInv'
<1>1. (TableTypes /\ OnePlace /\ Stored)'
    BY TableTypesFrame, OnePlaceFrame, StoredFrame DEF BroadcastDurable
<1>2. ClientTypes'
    <2>1. \A c \in Clients : MaySend(c) =>
             LET s == Append(channel[c], [type |-> "message", msg |-> m])
             IN  s \in Seq(Events) /\ Len(s) <= ChannelCap
        BY ChannelAppend DEF MaySend, Events
    <2>2. QED  BY <2>1 DEF ClientTypes, BroadcastDurable
<1>3. WorkTypes'
    BY JobParts, DeliveryAssumption DEF WorkTypes, Hands, Idle,
       BroadcastDurable, MaySend, MayFail
<1>4. HistoryTypes'
    BY JobParts, DeliveryAssumption DEF HistoryTypes, WorkTypes, TableTypes,
       Hands, Fault, BroadcastDurable, MaySend, MayFail
<1>5. Fresh'
    BY JobParts, DeliveryAssumption DEF Fresh, Started, Queued, WorkTypes,
       TableTypes, Hands, Idle, BroadcastDurable, MaySend, MayFail
<1>6. Progress'
    BY JobParts DEF Progress, OnePlace, Fresh, Started, Queued, WorkTypes,
       Hands, Idle, BroadcastDurable, MaySend, MayFail
<1>7. Received'
    <2> DEFINE e == [type |-> "message", msg |-> m]
    <2>1. \A c \in Clients : MaySend(c) =>
             \A i \in 1 .. Len(Append(channel[c], e)) :
                Append(channel[c], e)[i] = e
                  \/ (i \in 1 .. Len(channel[c])
                       /\ Append(channel[c], e)[i] = channel[c][i])
        BY ChannelAppend DEF MaySend, Events
    <2>2. QED  BY <2>1 DEF Received, BroadcastDurable
<1>8. Accounted'
    BY JobParts DEF Accounted, Queued, Holding, Progress, Stored, WorkTypes,
       HistoryTypes, Hands, Idle, BroadcastDurable, MaySend, MayFail
<1>9. SentIsEarned'
    BY JobParts DEF SentIsEarned, Progress, Received, TableTypes, WorkTypes,
       Hands, BroadcastDurable, MaySend, MayFail
<1>10. QED BY <1>1, <1>2, <1>3, <1>4, <1>5, <1>6, <1>7, <1>8, <1>9

\* A new job enters one place, and only once.
LEMMA EnqueueStep ==
    ASSUME DeliveryInv, NEW m \in Messages, NEW c \in Clients,
           Enqueue(m, c)
    PROVE  DeliveryInv'
<1>1. (ClientTypes /\ TableTypes /\ Received /\ Stored /\ SentIsEarned)'
    BY ClientTypesFrame, TableTypesFrame, ReceivedFrame, StoredFrame,
       SentIsEarnedFrame DEF Enqueue
<1>2. /\ <<m, c>> \in Jobs /\ ~Started(<<m, c>>) /\ <<m, c>> \notin Queued
      /\ queue \in Seq(Jobs) /\ Distinct
    BY JobParts DEF Fresh, Enqueue, Started, WorkTypes, OnePlace, Distinct
<1>3. CASE UNCHANGED <<queue, accepted>>
    <2>1. /\ pending' \in [Messages -> SUBSET WebSockets]
          /\ \A k \in Messages : pending'[k] \subseteq pending[k]
        BY DEF WorkTypes, Enqueue
    <2>2. Fresh'
        BY <1>3, <2>1, JobParts DEF Fresh, Started, Queued, Enqueue
    <2>3. (OnePlace /\ Progress /\ Accounted /\ HistoryTypes)'
        BY <1>3, OnePlaceFrame, ProgressFrame, AccountedFrame, HistoryTypesFrame
           DEF Enqueue
    <2>4. WorkTypes'
        BY <1>3, <2>1 DEF WorkTypes, Enqueue
    <2>5. QED  BY <1>1, <2>2, <2>3, <2>4
<1>4. CASE /\ Len(queue) < QueueCap /\ queue' = Append(queue, <<m, c>>)
           /\ accepted' = accepted \cup {<<m, c>>}
    <2>1. /\ queue' \in Seq(Jobs) /\ Len(queue') = Len(queue) + 1
          /\ Queued' = Queued \cup {<<m, c>>} /\ Distinct'
        BY <1>2, <1>4, QueueAppend
    <2>2. /\ pending' \in [Messages -> SUBSET WebSockets]
          /\ \A k \in Messages : pending'[k] \subseteq pending[k]
          /\ c \notin pending'[m] /\ m \in routed
        BY DEF WorkTypes, Fresh, Enqueue
    <2>3. Len(queue') <= QueueCap
        BY <1>2, <1>4, <2>1, DeliveryAssumption
    <2>4. WorkTypes' /\ HistoryTypes'
        BY <1>2, <1>4, <2>1, <2>2, <2>3 DEF WorkTypes, HistoryTypes, Enqueue
    <2>5. Fresh'
        BY <1>2, <2>1, <2>2, JobParts DEF Fresh, Started, Enqueue
    <2>6. OnePlace'
        BY <1>2, <2>1 DEF OnePlace, Started, Distinct, Enqueue
    <2>7. Progress'
        BY <1>2, <2>1 DEF Progress, Started, Enqueue
    <2>8. Accounted'
        BY <1>4, <2>1 DEF Accounted, Holding, Enqueue
    <2>9. QED  BY <1>1, <2>4, <2>5, <2>6, <2>7, <2>8
<1>5. QED  BY <1>3, <1>4 DEF Enqueue

\* The job moves from the head of the queue to the worker.
LEMMA TakeStep ==
    ASSUME DeliveryInv, NEW w \in Workers, Take(w)
    PROVE  DeliveryInv'
<1>1. (ClientTypes /\ TableTypes /\ HistoryTypes /\ Received /\ Stored
        /\ SentIsEarned)'
    BY ClientTypesFrame, TableTypesFrame, HistoryTypesFrame, ReceivedFrame,
       StoredFrame, SentIsEarnedFrame DEF Take
<1>2. WorkTypes'
    BY JobParts, DeliveryAssumption DEF WorkTypes, Hands, Idle, Take
<1>3. Fresh'
    BY JobParts, DeliveryAssumption DEF Fresh, Started, Queued, WorkTypes,
       TableTypes, Hands, Idle, Take
<1>4. OnePlace'
    BY JobParts DEF OnePlace, Queued, WorkTypes, Hands, Idle, Take
<1>5. Progress'
    BY JobParts DEF Progress, OnePlace, Fresh, Started, Queued, WorkTypes,
       Hands, Idle, Take
<1>6. Accounted'
    <2>1. Queued = Queued' \cup {hand'[w].job} /\ hand'[w].pc = "find"
        BY QueueTail DEF WorkTypes, Take
    <2>2. \A v \in Workers : v # w => hand'[v] = hand[v]
        BY DEF WorkTypes, Take
    <2>3. hand[w].pc = "idle"
        BY DEF Take
    <2>4. \A j \in Jobs : j \in Queued \/ Holding(j) => (j \in Queued \/ Holding(j))'
        BY <2>1, <2>2, <2>3 DEF Holding
    <2>5. QED  BY <2>4 DEF Accounted, HistoryTypes, Take
<1>7. QED BY <1>1, <1>2, <1>3, <1>4, <1>5, <1>6

\* The lookup decides only where the worker goes on.
LEMMA FindClientStep ==
    ASSUME DeliveryInv, NEW w \in Workers, FindClient(w)
    PROVE  DeliveryInv'
<1>1. (ClientTypes /\ TableTypes /\ HistoryTypes /\ Received /\ Stored
        /\ SentIsEarned)'
    BY ClientTypesFrame, TableTypesFrame, HistoryTypesFrame, ReceivedFrame,
       StoredFrame, SentIsEarnedFrame DEF FindClient
<1>2. WorkTypes'
    BY JobParts, DeliveryAssumption DEF WorkTypes, Hands, Idle, FindClient,
       Goto
<1>3. Fresh'
    BY JobParts, DeliveryAssumption DEF Fresh, Started, Queued, WorkTypes,
       TableTypes, Hands, Idle, FindClient, Goto
<1>4. OnePlace'
    <2>1. \A v \in Workers : hand'[v].job \in {hand[v].job, NoJob}
        BY DEF WorkTypes, Hands, Idle, FindClient, Goto
    <2>2. QED  BY <2>1, OnePlaceKept DEF WorkTypes, FindClient
<1>5. Progress'
    BY JobParts DEF Progress, OnePlace, Fresh, Started, Queued, WorkTypes,
       Hands, Idle, FindClient, Goto
<1>6. Accounted'
    BY JobParts DEF Accounted, Queued, Holding, Progress, Stored, WorkTypes,
       HistoryTypes, Hands, Idle, FindClient, Goto
<1>7. QED BY <1>1, <1>2, <1>3, <1>4, <1>5, <1>6

\* The event goes into the channel or the job fails.
LEMMA SendEventStep ==
    ASSUME DeliveryInv, NEW w \in Workers, SendEvent(w)
    PROVE  DeliveryInv'
<1>1. (TableTypes /\ Stored)'
    BY TableTypesFrame, StoredFrame DEF SendEvent
<1>2. ClientTypes'
    <2>1. hand[w].job \in Jobs
        BY DEF WorkTypes, Hands, SendEvent
    <2>2. DEFINE c == Cli(hand[w].job)
                 e == [type |-> "message", msg |-> Msg(hand[w].job)]
    <2>3. MaySend(c) => /\ Append(channel[c], e) \in Seq(Events)
                        /\ Len(Append(channel[c], e)) <= ChannelCap
        BY <2>1, JobParts, ChannelAppend DEF MaySend, Events
    <2>4. QED  BY <2>1, <2>3, JobParts DEF ClientTypes, SendEvent
<1>3. WorkTypes'
    BY JobParts, DeliveryAssumption DEF WorkTypes, Hands, Idle, SendEvent,
       Goto, MaySend, MayFail
<1>4. HistoryTypes'
    BY JobParts, DeliveryAssumption DEF HistoryTypes, WorkTypes, TableTypes,
       Hands, Fault, SendEvent, Goto, MaySend, MayFail
<1>5. Fresh'
    BY JobParts, DeliveryAssumption DEF Fresh, Started, Queued, WorkTypes,
       TableTypes, Hands, Idle, SendEvent, Goto, MaySend, MayFail
<1>6. OnePlace'
    <2>1. \A v \in Workers : hand'[v].job \in {hand[v].job, NoJob}
        BY DEF WorkTypes, Hands, Idle, SendEvent, Goto
    <2>2. QED  BY <2>1, OnePlaceKept DEF WorkTypes, SendEvent
<1>7. Progress'
    <2>1. PICK j \in Jobs : hand[w] = [pc |-> "send", job |-> j]
        BY DEF WorkTypes, Hands, SendEvent
    <2>2. /\ Queued' = Queued /\ rows' = rows /\ unqueued' = unqueued
          /\ j \notin Queued \cup rows \cup unqueued
        BY <2>1 DEF SendEvent, Queued, OnePlace, Progress
    <2>3. \A v \in Workers : v # w => hand'[v] = hand[v] /\ hand[v].job # j
        BY <2>1, JobParts DEF WorkTypes, OnePlace, SendEvent, Goto
    <2>4. \/ hand'[w] = [pc |-> "ack", job |-> j] /\ sent' = sent \cup {j}
          \/ hand'[w] = [pc |-> "failed", job |-> j] /\ sent' = sent
        BY <2>1 DEF WorkTypes, SendEvent, Goto
    <2>5. j \notin sent
        BY <2>1 DEF Progress
    <2>6. (\A i \in sent \cup Queued : i \notin rows \cup unqueued)' /\ (sent \cap Queued = {})'
        BY <2>2, <2>4 DEF Progress
    <2>7. ASSUME NEW v \in Workers
          PROVE  /\ hand'[v].pc \in {"find", "send", "failed"} =>
                        hand'[v].job \notin sent' \cup rows' \cup unqueued'
                 /\ hand'[v].pc \in {"ack", "store"} => hand'[v].job \in sent'
        <3>1. CASE v = w  BY <3>1, <2>2, <2>4, <2>5
        <3>2. CASE v # w  BY <3>2, <2>2, <2>3, <2>4 DEF Progress
        <3>3. QED  BY <3>1, <3>2
    <2>8. QED  BY <2>6, <2>7 DEF Progress
<1>8. Received'
    <2> DEFINE j == hand[w].job
               c == Cli(j)
               e == [type |-> "message", msg |-> Msg(j)]
    <2>1. j \in Jobs /\ sent \subseteq sent'
        BY DEF WorkTypes, Hands, SendEvent
    <2>2. /\ c \in Clients /\ j = <<Msg(j), c>>
          /\ e \in Events /\ e.type = "message" /\ e.msg = Msg(j)
        BY <2>1, JobParts DEF Events
    <2>3. CASE UNCHANGED channel
        BY <2>1, <2>3 DEF Received
    <2>4. CASE /\ MaySend(c)
               /\ j \in sent'
               /\ channel' = [channel EXCEPT ![c] = Append(channel[c], e)]
        <3>1. e.type = "message" => <<e.msg, c>> \in sent'
            BY <2>2, <2>4
        <3> HIDE DEF c, e
        <3>2. QED  BY <2>1, <2>2, <2>4, <3>1, ReceivedAppend
    <2>5. QED  BY <2>3, <2>4 DEF SendEvent
<1>9. Accounted'
    BY JobParts DEF Accounted, Queued, Holding, Progress, Stored, WorkTypes,
       HistoryTypes, Hands, Idle, SendEvent, Goto, MaySend, MayFail
<1>10. SentIsEarned'
    BY JobParts DEF SentIsEarned, Progress, Received, TableTypes, WorkTypes,
       Hands, SendEvent, Goto, MaySend, MayFail
<1>11. QED BY <1>1, <1>2, <1>3, <1>4, <1>5, <1>6, <1>7, <1>8, <1>9, <1>10

\* The acknowledgement is no message.
LEMMA SendSentAckStep ==
    ASSUME DeliveryInv, NEW w \in Workers, SendSentAck(w)
    PROVE  DeliveryInv'
<1>1. (TableTypes /\ HistoryTypes /\ Stored /\ SentIsEarned)'
    BY TableTypesFrame, HistoryTypesFrame, StoredFrame, SentIsEarnedFrame
       DEF SendSentAck
<1>2. ClientTypes'
    <2>1. hand[w].job \in Jobs
        BY DEF WorkTypes, Hands, SendSentAck
    <2>2. DEFINE c == Cli(hand[w].job)
                 e == [type |-> "ack_sent", msg |-> Msg(hand[w].job)]
    <2>3. MaySend(c) => /\ Append(channel[c], e) \in Seq(Events)
                        /\ Len(Append(channel[c], e)) <= ChannelCap
        BY <2>1, JobParts, ChannelAppend DEF MaySend, Events
    <2>4. QED  BY <2>1, <2>3, JobParts DEF ClientTypes, SendSentAck
<1>3. WorkTypes'
    BY JobParts, DeliveryAssumption DEF WorkTypes, Hands, Idle, SendSentAck,
       Goto, MaySend, MayFail
<1>4. Fresh'
    BY JobParts, DeliveryAssumption DEF Fresh, Started, Queued, WorkTypes,
       TableTypes, Hands, Idle, SendSentAck, Goto, MaySend, MayFail
<1>5. OnePlace'
    <2>1. \A v \in Workers : hand'[v].job \in {hand[v].job, NoJob}
        BY DEF WorkTypes, Hands, Idle, SendSentAck, Goto
    <2>2. QED  BY <2>1, OnePlaceKept DEF WorkTypes, SendSentAck
<1>6. Progress'
    BY JobParts DEF Progress, OnePlace, Fresh, Started, Queued, WorkTypes,
       Hands, Idle, SendSentAck, Goto, MaySend, MayFail
<1>7. Received'
    <2> DEFINE j == hand[w].job
               c == Cli(j)
               e == [type |-> "ack_sent", msg |-> Msg(j)]
    <2>1. j \in Jobs /\ sent \subseteq sent'
        BY DEF WorkTypes, Hands, SendSentAck
    <2>2. /\ c \in Clients /\ j = <<Msg(j), c>>
          /\ e \in Events /\ e.type = "ack_sent" /\ e.msg = Msg(j)
        BY <2>1, JobParts DEF Events
    <2>3. CASE UNCHANGED channel
        BY <2>1, <2>3 DEF Received
    <2>4. CASE /\ MaySend(c)
               /\ channel' = [channel EXCEPT ![c] = Append(channel[c], e)]
        <3>1. e.type = "message" => <<e.msg, c>> \in sent'
            BY <2>2, <2>4
        <3> HIDE DEF c, e
        <3>2. QED  BY <2>1, <2>2, <2>4, <3>1, ReceivedAppend
    <2>5. QED  BY <2>3, <2>4 DEF SendSentAck
<1>8. Accounted'
    BY JobParts DEF Accounted, Queued, Holding, Progress, Stored, WorkTypes,
       HistoryTypes, Hands, Idle, SendSentAck, Goto, MaySend, MayFail
<1>9. QED BY <1>1, <1>2, <1>3, <1>4, <1>5, <1>6, <1>7, <1>8

\* The worker that stores the status has sent the event.
LEMMA UpdateStatusStep ==
    ASSUME DeliveryInv, NEW w \in Workers, UpdateStatus(w)
    PROVE  DeliveryInv'
<1>1. (ClientTypes /\ Received /\ Stored)'
    BY ClientTypesFrame, ReceivedFrame, StoredFrame DEF UpdateStatus
<1>2. WorkTypes'
    BY JobParts, DeliveryAssumption DEF WorkTypes, Hands, Idle, UpdateStatus,
       Fault
<1>3. TableTypes'
    BY JobParts DEF TableTypes, WorkTypes, Hands, HistoryTypes, UpdateStatus,
       Fault
<1>4. HistoryTypes'
    BY JobParts, DeliveryAssumption DEF HistoryTypes, WorkTypes, TableTypes,
       Hands, Fault, UpdateStatus
<1>5. Fresh'
    BY JobParts, DeliveryAssumption DEF Fresh, Started, Queued, WorkTypes,
       TableTypes, Hands, Idle, UpdateStatus, Fault
<1>6. OnePlace'
    <2>1. \A v \in Workers : hand'[v].job \in {hand[v].job, NoJob}
        BY DEF WorkTypes, Hands, Idle, UpdateStatus
    <2>2. QED  BY <2>1, OnePlaceKept DEF WorkTypes, UpdateStatus
<1>7. Progress'
    BY JobParts DEF Progress, OnePlace, Fresh, Started, Queued, WorkTypes,
       Hands, Idle, UpdateStatus, Fault
<1>8. Accounted'
    BY JobParts DEF Accounted, Queued, Holding, Progress, Stored, WorkTypes,
       HistoryTypes, Hands, Idle, UpdateStatus, Fault
<1>9. SentIsEarned'
    BY JobParts DEF SentIsEarned, Progress, Received, TableTypes, WorkTypes,
       Hands, UpdateStatus, Fault
<1>10. QED BY <1>1, <1>2, <1>3, <1>4, <1>5, <1>6, <1>7, <1>8, <1>9

\* A failed job goes to the retry table or is noted as refused.
LEMMA RetryLaterStep ==
    ASSUME DeliveryInv, NEW w \in Workers, RetryLater(w)
    PROVE  DeliveryInv'
<1>1. (ClientTypes /\ Received /\ Stored /\ SentIsEarned)'
    BY ClientTypesFrame, ReceivedFrame, StoredFrame, SentIsEarnedFrame DEF
       RetryLater
<1>2. WorkTypes'
    BY JobParts, DeliveryAssumption DEF WorkTypes, Hands, Idle, RetryLater,
       Fault
<1>3. TableTypes'
    BY JobParts DEF TableTypes, WorkTypes, Hands, HistoryTypes, RetryLater,
       Fault
<1>4. HistoryTypes'
    BY JobParts, DeliveryAssumption DEF HistoryTypes, WorkTypes, TableTypes,
       Hands, Fault, RetryLater
<1>5. Fresh'
    <2>1. /\ hand[w].job \in Jobs /\ Started(hand[w].job)
          /\ Queued' = Queued /\ sent' = sent /\ routed' = routed /\ pending' = pending
        BY DEF WorkTypes, Hands, Started, Queued, RetryLater
    <2>2. \A j \in Jobs : j \in rows' \cup unqueued' =>
             j \in rows \cup unqueued \/ j = hand[w].job
        BY DEF RetryLater
    <2>3. \A v \in Workers : hand'[v].job \in {hand[v].job, NoJob}
        BY DEF WorkTypes, Hands, Idle, RetryLater
    <2>4. \A j \in Jobs : Started(j)' => Started(j)
        BY <2>1, <2>2, <2>3, JobParts DEF Started
    <2>5. QED  BY <2>1, <2>4 DEF Fresh
<1>6. OnePlace'
    <2>1. \A v \in Workers : hand'[v].job \in {hand[v].job, NoJob}
        BY DEF WorkTypes, Hands, Idle, RetryLater
    <2>2. QED  BY <2>1, OnePlaceKept DEF WorkTypes, RetryLater
<1>7. Progress'
    <2>1. /\ hand[w].job \in Jobs /\ hand'[w].pc \in {"idle", "dead"}
          /\ \A v \in Workers : v # w => hand'[v] = hand[v]
        BY DEF WorkTypes, Hands, Idle, RetryLater
    <2>2. /\ hand[w].job \notin Queued \cup sent
          /\ \A v \in Workers : v # w => hand[v].job # hand[w].job
        BY <2>1, JobParts DEF OnePlace, Progress, RetryLater
    <2>3. rows' \cup unqueued' = rows \cup unqueued \cup {hand[w].job}
        BY DEF RetryLater
    <2>4. QED  BY <2>1, <2>2, <2>3 DEF Progress, Queued, RetryLater
<1>8. Accounted'
    BY JobParts DEF Accounted, Queued, Holding, Progress, Stored, WorkTypes,
       HistoryTypes, Hands, Idle, RetryLater, Fault
<1>9. QED BY <1>1, <1>2, <1>3, <1>4, <1>5, <1>6, <1>7, <1>8

\* Fetching reads the table only.
LEMMA GetReadyJobsStep ==
    ASSUME DeliveryInv, GetReadyJobs
    PROVE  DeliveryInv'
<1>1. (ClientTypes /\ WorkTypes /\ HistoryTypes /\ Fresh /\ OnePlace
        /\ Progress /\ Received /\ Stored /\ Accounted /\ SentIsEarned)'
    BY ClientTypesFrame, WorkTypesFrame, HistoryTypesFrame, FreshFrame,
       OnePlaceFrame, ProgressFrame, ReceivedFrame, StoredFrame,
       AccountedFrame, SentIsEarnedFrame DEF GetReadyJobs
<1>2. TableTypes'
    BY JobParts DEF TableTypes, WorkTypes, Hands, HistoryTypes, GetReadyJobs
<1>3. QED BY <1>1, <1>2

\* The pair is among the dead letters or noted as refused.
LEMMA DeadLetterStep ==
    ASSUME DeliveryInv, NEW j \in Jobs, DeadLetter(j)
    PROVE  DeliveryInv'
<1>1. (ClientTypes /\ WorkTypes /\ Fresh /\ OnePlace /\ Progress
        /\ Received /\ SentIsEarned)'
    BY ClientTypesFrame, WorkTypesFrame, FreshFrame, OnePlaceFrame,
       ProgressFrame, ReceivedFrame, SentIsEarnedFrame DEF DeadLetter
<1>2. TableTypes'
    BY JobParts DEF TableTypes, WorkTypes, Hands, HistoryTypes, DeadLetter,
       Fault
<1>3. HistoryTypes'
    BY JobParts, DeliveryAssumption DEF HistoryTypes, WorkTypes, TableTypes,
       Hands, Fault, DeadLetter
<1>4. Stored'
    BY DEF Stored, DeadLetter, Fault
<1>5. Accounted'
    BY DEF Accounted, Queued, Holding, DeadLetter, Fault
<1>6. QED BY <1>1, <1>2, <1>3, <1>4, <1>5

\* Every deleted row has the pair that was stored before.
LEMMA DeleteJobStep ==
    ASSUME DeliveryInv, DeleteJob
    PROVE  DeliveryInv'
<1>1. (ClientTypes /\ WorkTypes /\ OnePlace /\ Received /\ SentIsEarned)'
    BY ClientTypesFrame, WorkTypesFrame, OnePlaceFrame, ReceivedFrame,
       SentIsEarnedFrame DEF DeleteJob
<1>2. TableTypes'
    BY JobParts DEF TableTypes, WorkTypes, Hands, HistoryTypes, DeleteJob,
       Fault
<1>3. HistoryTypes'
    BY JobParts, DeliveryAssumption DEF HistoryTypes, WorkTypes, TableTypes,
       Hands, Fault, DeleteJob
<1>4. Fresh'
    BY JobParts, DeliveryAssumption DEF Fresh, Started, Queued, WorkTypes,
       TableTypes, Hands, Idle, DeleteJob, Fault
<1>5. Progress'
    BY JobParts DEF Progress, OnePlace, Fresh, Started, Queued, WorkTypes,
       Hands, Idle, DeleteJob, Fault
<1>6. Stored'
    BY DEF Stored, DeleteJob, Fault
<1>7. Accounted'
    BY JobParts DEF Accounted, Queued, Holding, Progress, Stored, WorkTypes,
       HistoryTypes, Hands, Idle, DeleteJob, Fault
<1>8. QED BY <1>1, <1>2, <1>3, <1>4, <1>5, <1>6, <1>7

\* A crash forgets the jobs in memory.
LEMMA CrashStep ==
    ASSUME DeliveryInv, Crash
    PROVE  DeliveryInv'
<1>1. (SentIsEarned)'
    BY SentIsEarnedFrame DEF Crash
<1>2. ClientTypes'
    BY DeliveryAssumption DEF ClientTypes, Crash
<1>3. WorkTypes'
    BY JobParts, DeliveryAssumption DEF WorkTypes, Hands, Idle, Crash
<1>4. TableTypes'
    BY JobParts DEF TableTypes, WorkTypes, Hands, HistoryTypes, Crash
<1>5. HistoryTypes'
    BY JobParts, DeliveryAssumption DEF HistoryTypes, WorkTypes, TableTypes,
       Hands, Fault, Crash
<1>6. Fresh'
    BY JobParts, DeliveryAssumption DEF Fresh, Started, Queued, WorkTypes,
       TableTypes, Hands, Idle, Crash
<1>7. OnePlace'
    BY JobParts DEF OnePlace, Queued, WorkTypes, Hands, Idle, Crash
<1>8. Progress'
    BY JobParts DEF Progress, OnePlace, Fresh, Started, Queued, WorkTypes,
       Hands, Idle, Crash
<1>9. Received'
    BY JobParts DEF Received, Progress, ClientTypes, Events, WorkTypes, Hands,
       Crash
<1>10. Stored'
    BY DEF Stored, Crash
<1>11. Accounted'
    BY JobParts DEF Accounted, Queued, Holding, Progress, Stored, WorkTypes,
       HistoryTypes, Hands, Idle, Crash
<1>12. QED BY <1>1, <1>2, <1>3, <1>4, <1>5, <1>6, <1>7, <1>8, <1>9, <1>10,
       <1>11

-----------------------------------------------------------------------------
\* Nothing has happened yet.
LEMMA DeliveryInit == Init => DeliveryInv
<1> SUFFICES ASSUME Init PROVE DeliveryInv
    OBVIOUS
<1>1. Queued = {} /\ \A w \in Workers : hand[w] = Idle
    BY DEF Init, Queued
<1>2. ClientTypes
    BY JobParts, DeliveryAssumption DEF Init, ClientTypes
<1>3. WorkTypes
    BY DeliveryAssumption DEF Init, WorkTypes, Hands, Idle
<1>4. TableTypes /\ HistoryTypes
    BY DeliveryAssumption DEF Init, TableTypes, HistoryTypes
<1>5. Fresh /\ OnePlace /\ Progress
    BY <1>1, JobParts DEF Init, Fresh, Started, OnePlace, Progress, Idle
<1>6. Received /\ Stored /\ Accounted /\ SentIsEarned
    BY DEF Init, Received, Stored, Accounted, SentIsEarned
<1>7. QED  BY <1>2, <1>3, <1>4, <1>5, <1>6

\* Whatever the process, its clients and its database do, DeliveryInv holds: the
\* invariant for any number of messages, clients, workers, faults and restarts
\* and any capacity of the queue and the channels.
THEOREM DeliveryInvariant == Spec => []DeliveryInv
<1>1. DeliveryInv /\ [Next]_vars => DeliveryInv'
    <2> SUFFICES ASSUME DeliveryInv, [Next]_vars PROVE DeliveryInv'
        OBVIOUS
    <2>1. CASE ClientNext
        BY <2>1, CloseStep, UnregisteredStep, WriteStep, HandleAckStep DEF ClientNext
    <2>2. CASE RouteNext
        BY <2>2, SuppressStep, BroadcastRealtimeStep, BroadcastDurableStep, EnqueueStep
           DEF RouteNext
    <2>3. CASE \E w \in Workers : WorkerNext(w)
        BY <2>3, TakeStep, FindClientStep, SendEventStep, SendSentAckStep,
           UpdateStatusStep, RetryLaterStep DEF WorkerNext
    <2>4. CASE RetryNext
        BY <2>4, GetReadyJobsStep, DeadLetterStep, DeleteJobStep DEF RetryNext
    <2>5. CASE Crash
        BY <2>5, CrashStep
    <2>6. CASE UNCHANGED vars
        BY <2>6, ClientTypesFrame, WorkTypesFrame, TableTypesFrame, HistoryTypesFrame,
           FreshFrame, OnePlaceFrame, ProgressFrame, ReceivedFrame, StoredFrame,
           AccountedFrame, SentIsEarnedFrame DEF vars
    <2>7. QED  BY <2>1, <2>2, <2>3, <2>4, <2>5, <2>6 DEF Next
<1>2. QED  BY <1>1, DeliveryInit, PTL DEF Spec

\* The queue and the send channels never exceed their capacities, and every
\* table and variable has its type.
THEOREM DeliveryTypeCorrect == Spec => []TypeOK
    BY DeliveryInvariant, PTL

\* Every job the broadcasts queued is somewhere, unless an insert failed: no
\* interleaving of workers, clients, retry worker and restarts loses one.
THEOREM NothingIsLost == Spec => []Accounted
    BY DeliveryInvariant, PTL

\* A job whose event is in the client's channel is never tried again.
THEOREM NothingIsSentTwice == Spec => []SentIsFinal
<1>1. DeliveryInv => SentIsFinal
    BY DEF SentIsFinal, Progress, Holding
<1>2. QED  BY <1>1, DeliveryInvariant, PTL

\* The status sent is recorded only for a message that went into the channel of one
\* of the user's clients, whatever the clients acknowledge.
THEOREM SentIsSent == Spec => []SentIsEarned
    BY DeliveryInvariant, PTL
-----------------------------------------------------------------------------
(* Delivery implements JobLifecycle *)

Coming(j) == Msg(j) \notin routed \/ Cli(j) \in pending[Msg(j)]

\* A job that the process, the channel or the retry table has is at that place only,
\* and it is not still to come.
LEMMA OneOfThePlaces ==
    ASSUME DeliveryInv, NEW j \in Jobs
    PROVE  /\ j \in sent => PlaceOf(j) = "sent" /\ ~Held(j) /\ j \notin rows /\ ~Coming(j)
           /\ Held(j) => PlaceOf(j) = "held" /\ j \notin sent \cup rows /\ ~Coming(j)
           /\ j \in rows => PlaceOf(j) = "waiting" /\ j \notin sent /\ ~Held(j) /\ ~Coming(j)
           /\ ~Held(j) /\ j \notin sent \cup rows =>
                PlaceOf(j) = IF Coming(j) THEN "new" ELSE "over"
<1>1. /\ j \in sent => j \notin rows /\ ~Held(j)
      /\ Held(j) => j \notin rows
    BY DEF Progress, Held, Holding
<1>2. j \in sent \cup rows \/ Held(j) => Started(j)
    BY DEF Started, Held, Holding
<1>3. Started(j) => ~Coming(j)
    BY DEF Fresh, Coming
<1>4. QED  BY <1>1, <1>2, <1>3 DEF PlaceOf, Coming

LEMMA OneOfThePlacesNext ==
    ASSUME DeliveryInv', NEW j \in Jobs
    PROVE  /\ j \in sent' => PlaceOf(j)' = "sent"
           /\ Held(j)' => PlaceOf(j)' = "held"
           /\ j \in rows' => PlaceOf(j)' = "waiting"
           /\ ~Held(j)' /\ j \notin sent' \cup rows' =>
                PlaceOf(j)' = IF Coming(j)' THEN "new" ELSE "over"
<1>1. /\ j \in sent' => j \notin rows' /\ ~Held(j)'
      /\ Held(j)' => j \notin rows'
    BY DEF Progress, Held, Holding
<1>2. QED  BY <1>1 DEF PlaceOf, Coming

Stays(j) == PlaceOf(j)' = PlaceOf(j)

\* What decides on the place of a job.
LEMMA SamePlace ==
    ASSUME DeliveryInv, DeliveryInv', NEW j \in Jobs,
           j \in sent' <=> j \in sent, j \in rows' <=> j \in rows,
           Held(j)' <=> Held(j), Coming(j)' <=> Coming(j)
    PROVE  Stays(j)
    BY OneOfThePlaces, OneOfThePlacesNext DEF Stays

LEMMA PlacesTyped ==
    /\ DeliveryInv => \A j \in Jobs : PlaceOf(j) \in Lifecycle!Places
    /\ DeliveryInv' => \A j \in Jobs : PlaceOf(j)' \in Lifecycle!Places
<1>1. ASSUME DeliveryInv, NEW j \in Jobs
      PROVE  PlaceOf(j) \in Lifecycle!Places
    BY <1>1, OneOfThePlaces DEF Lifecycle!Places
<1>2. ASSUME DeliveryInv', NEW j \in Jobs
      PROVE  PlaceOf(j)' \in Lifecycle!Places
    BY <1>2, OneOfThePlacesNext DEF Lifecycle!Places
<1>3. QED  BY <1>1, <1>2

LEMMA BarFacts ==
    /\ Bar = [j \in Jobs |-> PlaceOf(j)] /\ Bar' = [j \in Jobs |-> PlaceOf(j)']
    /\ Lifecycle!Jobs = Jobs
    BY DEF Bar, Lifecycle!Jobs, Jobs

\* How the steps of the jobs are steps of the abstract specification.
LEMMA NoneMoves ==
    ASSUME \A j \in Jobs : Stays(j)
    PROVE  Bar' = Bar
    BY BarFacts DEF Stays

LEMMA OneMoves ==
    ASSUME DeliveryInv', NEW j \in Jobs, \A i \in Jobs \ {j} : Stays(i),
           Lifecycle!Leads(PlaceOf(j), PlaceOf(j)')
    PROVE  Lifecycle!LifecycleNext
<1>1. PICK t \in Lifecycle!Places : t = PlaceOf(j)'
    BY PlacesTyped
<1>2. Bar' = [Bar EXCEPT ![j] = t]
    BY <1>1, BarFacts DEF Stays
<1>3. Bar[j] = PlaceOf(j)
    BY BarFacts
<1>4. Lifecycle!Advance(j)
    BY <1>1, <1>2, <1>3 DEF Lifecycle!Advance
<1>5. QED  BY <1>4, BarFacts DEF Lifecycle!LifecycleNext

LEMMA MessageAnnounced ==
    ASSUME DeliveryInv', NEW m \in Messages,
           \A j \in Jobs : Stays(j) \/ /\ Msg(j) = m /\ PlaceOf(j) = "new"
                                       /\ PlaceOf(j)' \in {"sent", "over"}
    PROVE  Lifecycle!LifecycleNext
<1>1. Bar' \in [Jobs -> Lifecycle!Places]
    BY PlacesTyped, BarFacts
<1>2. \A j \in Jobs : \/ Bar'[j] = Bar[j]
                      \/ j[1] = m /\ Bar[j] = "new" /\ Bar'[j] \in {"sent", "over"}
    BY BarFacts DEF Stays, Msg
<1>3. Lifecycle!Announce(m)
    BY <1>1, <1>2, BarFacts DEF Lifecycle!Announce
<1>4. QED  BY <1>3 DEF Lifecycle!LifecycleNext

LEMMA MessageDiscarded ==
    ASSUME NEW m \in Messages,
           \A j \in Jobs : Stays(j) \/ /\ Msg(j) = m /\ PlaceOf(j) = "waiting"
                                       /\ PlaceOf(j)' = "over"
    PROVE  Lifecycle!LifecycleNext
<1>1. PICK ended \in SUBSET {j \in Jobs : j[1] = m /\ Bar[j] = "waiting"} :
          ended = {j \in Jobs : ~Stays(j)}
    BY BarFacts DEF Msg
<1>2. Bar' = [j \in Jobs |-> IF j \in ended THEN "over" ELSE Bar[j]]
    BY <1>1, BarFacts DEF Stays
<1>3. Lifecycle!Discard(m)
    BY <1>1, <1>2, BarFacts DEF Lifecycle!Discard
<1>4. QED  BY <1>3 DEF Lifecycle!LifecycleNext

LEMMA ProcessRestarted ==
    ASSUME \A j \in Jobs : Stays(j) \/ /\ PlaceOf(j) \in {"new", "held"}
                                       /\ PlaceOf(j)' = "over"
    PROVE  Lifecycle!LifecycleNext
<1>1. PICK ended \in SUBSET {j \in Jobs : Bar[j] \in {"new", "held"}} :
          ended = {j \in Jobs : ~Stays(j)}
    BY BarFacts
<1>2. Bar' = [j \in Jobs |-> IF j \in ended THEN "over" ELSE Bar[j]]
    BY <1>1, BarFacts DEF Stays
<1>3. Lifecycle!Restart
    BY <1>1, <1>2, BarFacts DEF Lifecycle!Restart
<1>4. QED  BY <1>3 DEF Lifecycle!LifecycleNext

\* The steps that move no job: those of the clients, the lookup of a client, what
\* follows a sent event, and the retry worker up to its delete.
LEMMA QuietPlaces ==
    ASSUME DeliveryInv, DeliveryInv', UNCHANGED <<routed, pending, rows, sent>>,
           \A j \in Jobs : Held(j)' <=> Held(j)
    PROVE  Bar' = Bar
<1>1. \A j \in Jobs : Stays(j)
    BY SamePlace DEF Coming
<1>2. QED  BY <1>1, NoneMoves

LEMMA UnhandledPlaces ==
    ASSUME DeliveryInv, DeliveryInv', UNCHANGED <<routed, pending, rows, sent, queue, hand>>
    PROVE  Bar' = Bar
<1>1. \A j \in Jobs : Held(j)' <=> Held(j)
    BY DEF Held, Queued, Holding
<1>2. QED  BY <1>1, QuietPlaces

\* A worker that keeps its job, or lets go of one it does not hold any more.
LEMMA WorkerPlaces ==
    ASSUME DeliveryInv, DeliveryInv', NEW w \in Workers,
           FindClient(w) \/ SendSentAck(w) \/ UpdateStatus(w)
    PROVE  Bar' = Bar
<1>1. UNCHANGED <<routed, pending, rows, sent, queue>>
    BY DEF FindClient, SendSentAck, UpdateStatus
<1>2. /\ \A v \in Workers : v # w => hand'[v] = hand[v]
      /\ \/ /\ hand'[w].job = hand[w].job
            /\ hand[w].pc = "find" /\ hand'[w].pc \in {"send", "failed"}
         \/ hand[w].pc \in {"ack", "store"} /\ hand'[w].pc \in {"store", "idle"}
    BY DEF FindClient, SendSentAck, UpdateStatus, Goto, Idle, WorkTypes, Hands
<1>3. \A j \in Jobs : Holding(j)' <=> Holding(j)
    BY <1>2 DEF Holding
<1>4. Queued' = Queued
    BY <1>1 DEF Queued
<1>5. QED  BY <1>1, <1>3, <1>4, QuietPlaces DEF Held

LEMMA TakePlaces ==
    ASSUME DeliveryInv, DeliveryInv', NEW w \in Workers, Take(w)
    PROVE  Bar' = Bar
<1>1. /\ UNCHANGED <<routed, pending, rows, sent>> /\ hand[w].pc = "idle"
      /\ queue # <<>> /\ queue' = Tail(queue)
    BY DEF Take
<1>2. hand'[w].pc = "find" /\ hand'[w].job = Head(queue)
      /\ \A v \in Workers : v # w => hand'[v] = hand[v]
    BY DEF Take, WorkTypes
<1>3. Queued = Queued' \cup {Head(queue)}
    BY <1>1, QueueTail DEF WorkTypes
<1>4. \A j \in Jobs : Held(j)' <=> Held(j)
    BY <1>1, <1>2, <1>3 DEF Held, Holding
<1>5. QED  BY <1>1, <1>4, QuietPlaces

\* A message arrives: what it does not queue for a client is settled at once.
LEMMA RoutePlaces ==
    ASSUME DeliveryInv, DeliveryInv', NEW m \in Messages,
           Suppress(m) \/ BroadcastRealtime(m) \/ BroadcastDurable(m)
    PROVE  Lifecycle!LifecycleNext
<1>1. /\ m \notin routed /\ routed' = routed \cup {m} /\ UNCHANGED <<queue, hand, rows>>
      /\ \A k \in Messages \ {m} : pending'[k] = pending[k]
      /\ sent \subseteq sent' /\ \A j \in sent' \ sent : Msg(j) = m
    BY DEF Suppress, BroadcastRealtime, BroadcastDurable, WorkTypes, Msg
<1>2. \A j \in Jobs : Held(j)' <=> Held(j)
    BY <1>1 DEF Held, Queued, Holding
<1>3. ASSUME NEW j \in Jobs, Msg(j) # m
      PROVE  Stays(j)
    <2>1. Coming(j)' <=> Coming(j)
        BY <1>1, <1>3, JobParts DEF Coming
    <2>2. QED  BY <1>1, <1>2, <1>3, <2>1, SamePlace
<1>4. ASSUME NEW j \in Jobs, Msg(j) = m
      PROVE  PlaceOf(j) = "new" /\ (Stays(j) \/ PlaceOf(j)' \in {"sent", "over"})
    <2>1. Coming(j)
        BY <1>1, <1>4 DEF Coming
    <2>2. ~Held(j) /\ j \notin sent \cup rows /\ PlaceOf(j) = "new"
        BY <2>1, OneOfThePlaces
    <2>3. ~Held(j)' /\ j \notin rows'
        BY <1>1, <1>2, <2>2
    <2>4. PlaceOf(j)' \in {"new", "sent", "over"}
        BY <2>3, OneOfThePlacesNext
    <2>5. QED  BY <2>2, <2>4 DEF Stays
<1>5. QED  BY <1>3, <1>4, MessageAnnounced

\* A job that is still to come is queued or dropped.
LEMMA EnqueuePlaces ==
    ASSUME DeliveryInv, DeliveryInv', NEW m \in Messages, NEW c \in Clients, Enqueue(m, c)
    PROVE  Lifecycle!LifecycleNext
<1>1. PICK j \in Jobs : j = <<m, c>> /\ Msg(j) = m /\ Cli(j) = c
    BY JobParts
<1>2. /\ c \in pending[m] /\ UNCHANGED <<routed, hand, rows, sent>>
      /\ Queued' \in {Queued, Queued \cup {j}}
    BY <1>1, QueueAppend DEF Enqueue, WorkTypes, Queued
<1>3. pending'[m] = pending[m] \ {c} /\ \A k \in Messages \ {m} : pending'[k] = pending[k]
    BY DEF Enqueue, WorkTypes
<1>4. ASSUME NEW i \in Jobs \ {j}
      PROVE  Stays(i)
    <2>1. Held(i)' <=> Held(i)
        BY <1>2 DEF Held, Holding
    <2>2. Msg(i) \in Messages /\ (Msg(i) # m \/ Cli(i) # c)
        BY <1>1, JobParts
    <2>3. Coming(i)' <=> Coming(i)
        BY <1>2, <1>3, <2>2 DEF Coming
    <2>4. QED  BY <1>2, <2>1, <2>3, SamePlace
<1>5. PlaceOf(j) = "new" /\ PlaceOf(j)' \in {"held", "over"}
    <2>1. Coming(j) /\ m \in routed
        BY <1>1, <1>2 DEF Coming, Fresh
    <2>2. ~Held(j) /\ j \notin sent \cup rows /\ PlaceOf(j) = "new"
        BY <2>1, OneOfThePlaces
    <2>3. ~Coming(j)' /\ j \notin sent' \cup rows'
        BY <1>1, <1>2, <1>3, <2>1, <2>2 DEF Coming
    <2>4. QED  BY <2>2, <2>3, OneOfThePlacesNext
<1>6. Lifecycle!Leads(PlaceOf(j), PlaceOf(j)')
    BY <1>5 DEF Lifecycle!Leads
<1>7. QED  BY <1>4, <1>6, OneMoves

\* A worker is the only one to hold its job, so the job is nowhere else when the
\* worker has sent it, put it off or failed to.
LEMMA LetGo ==
    ASSUME DeliveryInv, DeliveryInv', NEW w \in Workers,
           hand[w].pc \in {"send", "failed"}, hand'[w].pc \in {"ack", "idle", "dead"},
           \A v \in Workers : v # w => hand'[v] = hand[v],
           UNCHANGED <<queue, routed, pending>>,
           \A i \in Jobs : i # hand[w].job => (i \in sent' <=> i \in sent)
                                              /\ (i \in rows' <=> i \in rows)
    PROVE  Lifecycle!LifecycleNext
<1>1. PICK j \in Jobs : j = hand[w].job
    BY DEF WorkTypes, Hands
<1>2. Queued' = Queued
    BY DEF Queued
<1>3. ASSUME NEW i \in Jobs \ {j}
      PROVE  Stays(i)
    <2>1. Held(i)' <=> Held(i)
        BY <1>1, <1>2 DEF Held, Holding
    <2>2. Coming(i)' <=> Coming(i)
        BY DEF Coming
    <2>3. QED  BY <1>1, <2>1, <2>2, SamePlace
<1>4. Held(j) /\ PlaceOf(j) = "held" /\ ~Coming(j)
    <2>1. Held(j)
        BY <1>1 DEF Held, Holding
    <2>2. QED  BY <2>1, OneOfThePlaces
<1>5. ~Held(j)'
    <2>1. j \notin Queued /\ \A v \in Workers : v # w => hand[v].job # j
        BY <1>1, JobParts DEF OnePlace
    <2>2. QED  BY <1>2, <2>1 DEF Held, Holding
<1>6. PlaceOf(j)' \in {"sent", "waiting", "over"}
    <2>1. ~Coming(j)'
        BY <1>4 DEF Coming
    <2>2. QED  BY <1>5, <2>1, OneOfThePlacesNext
<1>7. Lifecycle!Leads(PlaceOf(j), PlaceOf(j)')
    BY <1>4, <1>6 DEF Lifecycle!Leads
<1>8. QED  BY <1>3, <1>7, OneMoves

LEMMA SendPlaces ==
    ASSUME DeliveryInv, DeliveryInv', NEW w \in Workers, SendEvent(w)
    PROVE  Lifecycle!LifecycleNext \/ Bar' = Bar
<1>1. UNCHANGED <<routed, pending, rows, queue>> /\ hand[w].pc = "send"
      /\ \A v \in Workers : v # w => hand'[v] = hand[v]
    BY DEF SendEvent, Goto, WorkTypes
<1>2. CASE sent' = sent \cup {hand[w].job} /\ Goto(w, "ack")
    <2>1. hand'[w].pc = "ack"
        BY <1>2 DEF Goto, WorkTypes
    <2>2. QED  BY <1>1, <1>2, <2>1, LetGo
<1>3. CASE UNCHANGED sent /\ Goto(w, "failed")
    <2>1. hand'[w].pc = "failed" /\ hand'[w].job = hand[w].job
        BY <1>3 DEF Goto, WorkTypes, Hands
    <2>2. Queued' = Queued
        BY <1>1 DEF Queued
    <2>3. \A j \in Jobs : Held(j)' <=> Held(j)
        BY <1>1, <2>1, <2>2 DEF Held, Holding
    <2>4. QED  BY <1>1, <1>3, <2>3, QuietPlaces
<1>4. QED  BY <1>2, <1>3 DEF SendEvent

LEMMA RetryLaterPlaces ==
    ASSUME DeliveryInv, DeliveryInv', NEW w \in Workers, RetryLater(w)
    PROVE  Lifecycle!LifecycleNext
<1>1. /\ UNCHANGED <<routed, pending, sent, queue>> /\ hand[w].pc = "failed"
      /\ rows' \in {rows, rows \cup {hand[w].job}}
      /\ \A v \in Workers : v # w => hand'[v] = hand[v]
      /\ hand'[w].pc \in {"idle", "dead"}
    BY DEF RetryLater, WorkTypes, Idle
<1>2. QED  BY <1>1, LetGo

\* The rows that go with a dead letter are all of its message.
LEMMA DeletePlaces ==
    ASSUME DeliveryInv, DeliveryInv', DeleteJob
    PROVE  Lifecycle!LifecycleNext
<1>1. PICK m \in Messages : current \in Jobs /\ m = Msg(current)
    BY JobParts DEF DeleteJob, TableTypes
<1>2. /\ UNCHANGED <<routed, pending, sent, queue, hand>> /\ rows' \subseteq rows
      /\ \A j \in rows \ rows' : Msg(j) = m
    BY <1>1 DEF DeleteJob, Pair, Msg
<1>3. ASSUME NEW j \in Jobs
      PROVE  /\ Held(j)' <=> Held(j)
             /\ Coming(j)' <=> Coming(j)
    BY <1>2 DEF Held, Queued, Holding, Coming
<1>4. ASSUME NEW j \in Jobs, j \in rows \ rows'
      PROVE  Msg(j) = m /\ PlaceOf(j) = "waiting" /\ PlaceOf(j)' = "over"
    BY <1>2, <1>3, <1>4, OneOfThePlaces, OneOfThePlacesNext
<1>5. ASSUME NEW j \in Jobs, j \notin rows \ rows'
      PROVE  Stays(j)
    BY <1>2, <1>3, <1>5, SamePlace
<1>6. QED  BY <1>4, <1>5, MessageDiscarded

\* A crash ends what is queued, with a worker or still to be queued; the tables stay.
LEMMA CrashPlaces ==
    ASSUME DeliveryInv, DeliveryInv', Crash
    PROVE  Lifecycle!LifecycleNext
<1>1. /\ UNCHANGED <<routed, rows, sent>> /\ \A m \in Messages : pending'[m] = {}
      /\ queue' = <<>> /\ \A w \in Workers : hand'[w].pc = "idle"
    BY DEF Crash, Idle
<1>2. \A j \in Jobs : ~Held(j)'
    BY <1>1 DEF Held, Queued, Holding
<1>3. ASSUME NEW j \in Jobs
      PROVE  Stays(j) \/ (PlaceOf(j) \in {"new", "held"} /\ PlaceOf(j)' = "over")
    <2>1. Coming(j)' => Coming(j)
        BY <1>1, JobParts DEF Coming
    <2>2. CASE j \in sent \cup rows
        <3>1. ~Held(j) /\ ~Coming(j)
            BY <2>2, OneOfThePlaces
        <3>2. QED  BY <1>1, <1>2, <2>1, <3>1, SamePlace
    <2>3. CASE j \notin sent \cup rows
        <3>1. PlaceOf(j)' = IF Coming(j)' THEN "new" ELSE "over"
            BY <1>1, <1>2, <2>3, OneOfThePlacesNext
        <3>2. PlaceOf(j) = IF Held(j) THEN "held" ELSE IF Coming(j) THEN "new" ELSE "over"
            BY <2>3, OneOfThePlaces
        <3>3. Held(j) => ~Coming(j)
            BY OneOfThePlaces
        <3>4. QED  BY <2>1, <3>1, <3>2, <3>3 DEF Stays
    <2>4. QED  BY <2>2, <2>3
<1>4. QED  BY <1>3, ProcessRestarted

\* Every job goes through the places of JobLifecycle: none is sent twice or held again
\* once it was put off, and only a restart ends what it has in memory.
THEOREM DeliveryImplementsLifecycle == Spec => ImplementsLifecycle
<1>1. Init => Lifecycle!LifecycleInit
    <2> SUFFICES ASSUME Init, NEW j \in Jobs
                 PROVE  PlaceOf(j) = "new"
        BY BarFacts DEF Lifecycle!LifecycleInit
    <2>1. /\ j \notin sent \cup rows /\ Coming(j) /\ queue = <<>>
          /\ \A w \in Workers : hand[w].pc = "idle"
        BY DEF Init, Coming, Idle
    <2>2. ~Held(j)
        BY <2>1 DEF Held, Queued, Holding
    <2>3. QED  BY <2>1, <2>2 DEF PlaceOf, Coming
<1>2. DeliveryInv /\ DeliveryInv' /\ [Next]_vars => [Lifecycle!LifecycleNext]_Bar
    <2> SUFFICES ASSUME DeliveryInv, DeliveryInv', [Next]_vars
                 PROVE  Lifecycle!LifecycleNext \/ Bar' = Bar
        OBVIOUS
    <2>1. CASE ClientNext
        <3>1. UNCHANGED <<routed, pending, rows, sent, queue, hand>>
            BY <2>1 DEF ClientNext, Close, Unregistered, Write, HandleAck
        <3>2. QED  BY <3>1, UnhandledPlaces
    <2>2. CASE RouteNext
        BY <2>2, RoutePlaces, EnqueuePlaces DEF RouteNext
    <2>3. CASE \E w \in Workers : WorkerNext(w)
        BY <2>3, TakePlaces, WorkerPlaces, SendPlaces, RetryLaterPlaces DEF WorkerNext
    <2>4. CASE GetReadyJobs \/ \E j \in Jobs : DeadLetter(j)
        <3>1. UNCHANGED <<routed, pending, rows, sent, queue, hand>>
            BY <2>4 DEF GetReadyJobs, DeadLetter
        <3>2. QED  BY <3>1, UnhandledPlaces
    <2>5. CASE DeleteJob
        BY <2>5, DeletePlaces
    <2>6. CASE Crash
        BY <2>6, CrashPlaces
    <2>7. CASE UNCHANGED vars
        BY <2>7, UnhandledPlaces DEF vars
    <2>8. QED  BY <2>1, <2>2, <2>3, <2>4, <2>5, <2>6, <2>7 DEF Next, RetryNext
<1>3. QED
    BY <1>1, <1>2, DeliveryInvariant, PTL
       DEF Spec, ImplementsLifecycle, Lifecycle!LifecycleSpec

-----------------------------------------------------------------------------
(* Workers that return for good *)

\* A worker is dead because an insert into the retry table failed.
Dead == {w \in Workers : hand[w].pc = "dead"}
DeadAreFaults == IsFiniteSet(Dead) /\ Cardinality(Dead) <= faults

LEMMA FaultsCounted ==
    ASSUME DeliveryInv, Next
    PROVE  faults' \in Nat /\ faults <= faults'
<1>1. faults \in Nat
    BY DeliveryAssumption DEF HistoryTypes
<1>2. ClientNext => faults' \in {faults, faults + 1}
    BY DEF ClientNext, Close, Unregistered, Write, HandleAck, Fault
<1>3. RouteNext => faults' = faults
    BY DEF RouteNext, Suppress, BroadcastRealtime, BroadcastDurable, Enqueue
<1>4. RetryNext => faults' \in {faults, faults + 1}
    BY DEF RetryNext, GetReadyJobs, DeadLetter, DeleteJob, Fault
<1>5. ASSUME NEW w \in Workers
      PROVE  /\ Take(w) \/ FindClient(w) \/ SendEvent(w) \/ SendSentAck(w) => faults' = faults
             /\ UpdateStatus(w) \/ RetryLater(w) => faults' \in {faults, faults + 1}
    BY DEF Take, FindClient, SendEvent, SendSentAck, UpdateStatus, RetryLater, Fault
<1>6. Crash => faults' = faults
    BY DEF Crash
<1>7. faults' \in {faults, faults + 1}
    BY <1>2, <1>3, <1>4, <1>5, <1>6 DEF Next, WorkerNext
<1>8. QED  BY <1>1, <1>7

\* A worker dies in RetryLater only, at the cost of a fault.
LEMMA DeadOnlyByFault ==
    ASSUME DeliveryInv, Next
    PROVE  \/ Dead' \subseteq Dead
           \/ \E w \in Workers : Dead' = Dead \cup {w} /\ faults' = faults + 1
<1>1. CASE UNCHANGED hand
    BY <1>1 DEF Dead
<1>2. ASSUME NEW w \in Workers, Take(w) \/ FindClient(w) \/ SendEvent(w) \/ SendSentAck(w)
                                  \/ UpdateStatus(w)
      PROVE  Dead' \subseteq Dead
    <2>1. \/ Goto(w, "send") \/ Goto(w, "failed") \/ Goto(w, "ack") \/ Goto(w, "store")
          \/ hand' = [hand EXCEPT ![w] = Idle]
          \/ hand' = [hand EXCEPT ![w] = [pc |-> "find", job |-> Head(queue)]]
        BY <1>2 DEF Take, FindClient, SendEvent, SendSentAck, UpdateStatus
    <2>2. hand'[w].pc # "dead" /\ \A v \in Workers : v # w => hand'[v] = hand[v]
        BY <2>1 DEF Goto, Idle, WorkTypes, Hands
    <2>3. QED  BY <2>2 DEF Dead
<1>3. ASSUME NEW w \in Workers, RetryLater(w)
      PROVE  \/ Dead' \subseteq Dead
             \/ Dead' = Dead \cup {w} /\ faults' = faults + 1
    <2>1. /\ \A v \in Workers : v # w => hand'[v] = hand[v]
          /\ \/ hand'[w].pc = "idle"
             \/ hand'[w].pc = "dead" /\ faults' = faults + 1
        BY <1>3 DEF RetryLater, Fault, Idle, WorkTypes
    <2>2. QED  BY <2>1 DEF Dead
<1>4. CASE Crash
    BY <1>4 DEF Crash, Dead, Idle
<1>5. ClientNext \/ RouteNext \/ RetryNext => UNCHANGED hand
    BY DEF ClientNext, RouteNext, RetryNext, Close, Unregistered, Write, HandleAck, Suppress,
           BroadcastRealtime, BroadcastDurable, Enqueue, GetReadyJobs, DeadLetter, DeleteJob
<1>6. QED  BY <1>1, <1>2, <1>3, <1>4, <1>5 DEF Next, WorkerNext

LEMMA DeadStep ==
    ASSUME DeliveryInv, DeadAreFaults, Next
    PROVE  DeadAreFaults'
<1>1. IsFiniteSet(Dead) /\ Cardinality(Dead) \in Nat /\ Cardinality(Dead) <= faults
      /\ faults \in Nat /\ faults' \in Nat /\ faults <= faults'
    BY FaultsCounted, FS_CardinalityType, DeliveryAssumption DEF DeadAreFaults, HistoryTypes
<1>2. CASE Dead' \subseteq Dead
    <2>1. IsFiniteSet(Dead') /\ Cardinality(Dead') <= Cardinality(Dead)
        BY <1>1, <1>2, FS_Subset
    <2>2. Cardinality(Dead') \in Nat
        BY <2>1, FS_CardinalityType
    <2>3. QED  BY <1>1, <2>1, <2>2 DEF DeadAreFaults
<1>3. ASSUME NEW w \in Workers, Dead' = Dead \cup {w}, faults' = faults + 1
      PROVE  DeadAreFaults'
    <2>1. /\ IsFiniteSet(Dead \cup {w})
          /\ Cardinality(Dead \cup {w}) \in {Cardinality(Dead), Cardinality(Dead) + 1}
        BY <1>1, FS_AddElement
    <2>2. Cardinality(Dead \cup {w}) <= faults'
        BY <1>1, <1>3, <2>1
    <2>3. QED  BY <1>3, <2>1, <2>2 DEF DeadAreFaults
<1>4. QED  BY <1>2, <1>3, DeadOnlyByFault

\* With fewer failed inserts than there are workers, one of them is always left to read
\* the queue: the premise under which JobsSettle can hold (deliveryWorker returns when
\* the insert into the retry table fails, and nobody starts it again).
THEOREM WorkersAreLeft ==
    Spec => [](MaxFaults < Cardinality(Workers) => \E w \in Workers : hand[w].pc # "dead")
<1>1. Init => DeadAreFaults
    <2> SUFFICES ASSUME Init
                 PROVE  DeadAreFaults
        OBVIOUS
    <2>1. Dead = {}
        BY DEF Init, Idle, Dead
    <2>2. QED  BY <2>1, FS_EmptySet DEF DeadAreFaults, Init
<1>2. DeliveryInv /\ DeadAreFaults /\ [Next]_vars => DeadAreFaults'
    <2>1. ASSUME DeadAreFaults, UNCHANGED vars
          PROVE  DeadAreFaults'
        <3>1. Dead' = Dead /\ faults' = faults
            BY <2>1 DEF vars, Dead
        <3>2. QED  BY <2>1, <3>1 DEF DeadAreFaults
    <2>2. QED  BY <2>1, DeadStep
<1>3. DeliveryInv /\ DeadAreFaults
        => (MaxFaults < Cardinality(Workers) => \E w \in Workers : hand[w].pc # "dead")
    <2> SUFFICES ASSUME DeliveryInv, DeadAreFaults, \A w \in Workers : hand[w].pc = "dead"
                 PROVE  ~(MaxFaults < Cardinality(Workers))
        OBVIOUS
    <2>1. Dead = Workers
        BY DEF Dead
    <2>2. Cardinality(Workers) \in Nat /\ Cardinality(Workers) <= faults
        BY <2>1, FS_CardinalityType DEF DeadAreFaults
    <2>3. QED  BY <2>2, DeliveryAssumption DEF HistoryTypes
<1>4. QED
    BY <1>1, <1>2, <1>3, DeliveryInvariant, PTL DEF Spec
=============================================================================
