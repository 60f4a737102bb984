# Krampus in TLA+

Krampus is a messenger: a Go server (REST, WebSocket, SSE, PostgreSQL, Redis,
Kafka, S3), a small call-signalling server and a web client. This directory
holds TLA+ models of the parts of the server whose correctness depends on
interleaving, failure and restart, the TLC runs that check them, and TLAPS proofs
about them. Paths below are relative to the repository.

- [Inventory](#inventory): the system's components
- [Modules](#modules): what is modelled, and how it corresponds to the code
- [Runs](#runs): what TLC checks, at which bounds, under which fairness
- [Theorems](#theorems): what TLAPS proves, and how
- [Divergences](#divergences): where code and documentation disagree
- [Limits](#limits): what the models leave out
- [Plan](#plan): what comes next

To check a run, `tlc -config <cfg> <module>`; to check the proofs,
`tlapm <Module>Proofs.tla`. `PROJECT.json` lists runs, mutants (plausible bugs
that a property must catch), the mapping of definitions to source lines, findings
and hazards.

## Inventory

| Component | State | Operations | Talks to | What is hard | Must hold |
|---|---|---|---|---|---|
| **Message send path** `internal/message/service/messageService.go`, `outboxWorker.go`, `storage/` | tables `messages`, `message_deduplication`, `outbox_events`; producer queue | `Process`, the worker's `process`, delivery reports | called by REST and WebSocket readers; Kafka | three writes without a transaction, concurrent and repeated sends, crash between publish and mark | one event per message, no acknowledgement without a message, saved events are published |
| **Connection registry** `adapters/WebSocketManager.go` | two `sync.Map`s (users, rooms) of locked client maps | `Register`, `Unregister` | connection handlers write it, broadcasts and workers read it | keys are deleted outside the object's lock; pumps start before registration; SSE ids differ on each call | a registered client is found, a removed one is not, no object leaks |
| **Delivery** `WebSocketManager.go`, `WebSocketClient.go`, `SSEClient.go` | delivery queue (8192), 32 workers, send channels (256), `message_delivery_status` | `RouteMessage`, broadcasts, `ProcessDelivery`, `HandleAck`, pumps | registry, retry table, Kafka consumer | drop on overflow, clients that leave between lookup and send, status written after the send, clients that acknowledge anything | no job lost or sent twice, `sent` is stored for what was sent only |
| **Retry and dead letters** `service/retryWorker.go`, `storage/retryStorage.go`, `DLQStorage.go` | `message_retry_queue`, `message_dlq` | `processBatch` | delivery | deletes by message and user, not by row; failing inserts | a failed job ends among the dead letters |
| **SSE replay** `SSEServer.go`, `sequencer.go`, `replayRepository.go` | event counter, `messages.timestamp` | connect with `Last-Event-ID` | registry, delivery | ids of two kinds; replay and live events interleave | no gap, no reordering |
| **Kafka transport** `pkg/messaging/kafka/` | offsets, handlers | `Consume`, `AddHandler`, `Produce` | send path, delivery | one goroutine per message and handler, automatic commits | nothing lost in a crash, order per room |
| **Event log consumers** `internal/events/service/consumer.go`, `checkpoints.go`, `projector.go`, `replay.go`, `rebuild.go`; audit and search consumers | `events`, `projection_checkpoints`, `event_dlq` | `process`, `Replay`, `Rebuild` | projections | dispatch outside the checkpoint's transaction, sequence gaps, full batches that fail every time, iterations that break off unnoticed | every event that lies behind no such batch reaches every projection |
| **Partition leases** `coordinator.go`, `ownership.go`, `leases.go`, `failover.go`, `heartbeat.go` | `event_partition_leases` | acquire, renew, release, expire | event consumers | no renewal is wired, one acquire steals | one owner at a time, dead owners are replaced |
| **Rooms and caches** `internal/chat/` | `rooms`, Redis copies | get, create, update, delete, join | send path (membership) | caches filled by goroutines that share the object a request changes, members written back whole | the cache admits no stranger, no join is lost |
| **Uploads** `internal/files/` | sessions, chunks, quota, object store | upload a chunk, finalize, cleanup, repair | S3 | checks and inserts in separate statements, indices and sizes nobody checks, workers beside finalize | a complete session has the file in the rows it counted |
| **Job queues** `internal/media/`, `internal/message/scheduler/`, `internal/search/workers/` | job tables | lock, process, complete, fail | processors | locked jobs are not unlocked after a crash; marked before done; failing rows at the head of a queue; one temporary file for all runs on a media file | a completed job was processed, a claimed one is settled, no message is sent twice |
| **Accounts and sessions** `internal/user/`, `internal/auth/`, `internal/identity/` | users, refresh tokens, codes, login attempts, Redis sessions | register, log in, refresh, verify a code | all handlers | rotation and counters in separate statements | one successor per refresh token, bounded attempts |
| **Call signalling** `front/server/api/main.go` | rooms map, send channels | join, relay, leave | browsers | unsynchronised map, send on a closed channel, count before join | two callers at most |
| **File message store, rate limiter, moderation** | files, counters, ban tables | checks and appends | send path, delivery | best effort | (verdicts are free choices in the models) |
| **Polls, reactions, stickers, invites, profile, retention, notifications, sync, permissions** | a table each | mostly single statements | REST | avatars and retention meet the media jobs; else little | (only the avatar and the retention of media) |
| **Supervision, wiring, configuration** `internal/platform/supervisor`, `cmd/app/main.go` | - | starts and restarts workers | all | which workers are started at all | (read, not modelled) |
| **Web client** `front/app` | - | - | REST, WebSocket | - | (external peer) |

`cmd/app/main.go` starts the connection manager (with its delivery and retry
workers and the Kafka consumer), the poll, retention and upload workers, and, only
with `EVENTS_ENABLED=true` (`cmd/app/main.go:205`), the event coordinator with the
audit and search consumers. It does not start the outbox
worker, the message scheduler, the media workers, the search index worker, the
heartbeat and failover of partition leases, the rebuild of a projection, or a
caller of `Finalize`; no code inserts into `events`, `search_index_queue` or
`scheduled_messages`, and the tables `event_partition_leases` and
`search_index_queue` are not in `init.sql`. A model of one of these speaks of the
classes as written, used together over the tables they name, not of a deployment.

## Modules

| Module | Models | Used by |
|---|---|---|
| `MessageLifecycle` | abstract: the stages of one message id | refined by `MessagePipeline` |
| `MessagePipeline` | `Process`, `OutboxWorker.process`, `MessageDistributor` | `MessagePipelineProofs` |
| `SharedIndex` | the `sync.Map` of locked client maps, abstract in its keys | `MCSharedIndex`, `ConnectionManager` (twice), `SharedIndexProofs` |
| `ConnectionManager` | `Register`, `Unregister`, `Close` on both indexes | `MCConnectionManager`, `ConnectionManagerProofs` |
| `JobLifecycle` | abstract: the places of one delivery job | refined by `Delivery` |
| `Delivery` | `RouteMessage` to client, retry table or dead letters | `MCDelivery`, `DeliveryProofs` |
| `EventLog` | the consumer of the event log, its checkpoint, replay and rebuild | `MCQueues`, `EventLogProofs` |
| `SearchQueue` | the queue of the search index and its workers | `MCQueues`, `QueuesProofs` |
| `MediaJobs` | media jobs, `ProcessMedia`, the avatar, the retention of media | `MCQueues`, `QueuesProofs` |
| `Scheduler` | scheduled messages | `MCQueues`, `QueuesProofs` |
| `Uploads` | one resumable upload: chunks, finalize, cleanup | `MCLocks`, `LocksProofs` |
| `PartitionLeases` | leases over the partitions of the event log | `MCLocks`, `LocksProofs` |
| `Accounts` | sign-in, tokens and their rotation, the cached session | `MCMembers`, `MembersProofs` |
| `TwoFactor` | the codes of the second factor | `MCMembers`, `MembersProofs` |
| `Rooms` | members of rooms and channels, and the cached rows | `MCMembers`, `MembersProofs` |

**MessagePipeline.** A *call* is one execution of `Process`; calls with the same
id are the retries and duplicates of one REST send. Each SQL statement is a step
and can succeed, fail, or succeed while the caller sees an error. `Begin` and
`Reject` stand for entering `Process` and for all its early errors; `IsDuplicate`,
`SaveMessage`, `SaveKey` and `SaveEvent` follow in the code's order. The worker is
`GetUnpublishedEvents` (the query, with `ORDER BY` and `LIMIT`), then per row
`LoadMessage`/`LoadFails`, `Publish`, `MarkPublished`/`MarkFails`. `Broadcast`
drops the error of `Produce`, so `Publish` may lose the message and go on;
`Delivered` and `DeliveryFailed` are the producer's reports. `Crash` ends the
running calls and empties the worker and the producer. `MessageLifecycle` says
what this amounts to for one id: absent, stored, keyed, queued, published, one
stage at a time and never back.

**SharedIndex.** `users` and `rooms` are the same structure: a `sync.Map` to heap
objects with a lock and a map. `LoadOrStore` and `Insert` register; `Load`,
`Delete` (under the lock, which also notes whether the object is empty) and `Drop`
(the key, after the lock) remove. An object is named after the client whose
registration allocated it, which is unique because a client registers once. A
client whose `ConnID()` changes with every call (SSE) is *unstable*: `Delete`
removes nothing. Two history variables say which promises the code can keep:
`raced` (a removal of another client of the key was under way between
`LoadOrStore` and `Insert`) and `early` (the removal began before the registration
had ended).

**ConnectionManager** instantiates SharedIndex for users and for rooms and puts
their steps in the order of `Register` (users, then rooms) and `Unregister` (users,
then rooms). `HandleWebSocket` starts the pumps before `Register`, so `Close`, and
with it `Unregister`, may happen at any time; an SSE handler registers first.

**Delivery.** A *job* is a message and the client it was queued for.
`BroadcastDurable` is one step because it sends to the SSE clients under the
room's read lock; the enqueueing for WebSocket clients that follows is a step per
client, outside the lock, and drops the job when the queue is full. A worker takes a
job, looks the client up, sends, acknowledges to the client, stores the status;
each is a step, and clients may leave between them. `SafeSend` is a Go `select`:
with room and a cancelled context both outcomes are possible. A failed job goes to
the retry table, and when that insert fails the worker's goroutine returns, as in
the code. A job read back from the retry table has no `ClientID`, so its delivery
fails with an error `IsRetryable` rejects: `DeadLetter`, then `DeleteJob`, which
deletes *all* rows of that message and user. The rows are named after their job
only so that the model can tell them apart. Whether a client is linked is a
variable of its own here; which linked clients the registry can really find is
ConnectionManager's question. `HandleAck` has no guard, as in the code: whoever has a
WebSocket connection stores `delivered` or `read` for any message and their own user,
sent or not, in any order, so only `sent` can be worth anything (`SentIsEarned`).
`HonestAcks` restricts it, for one violated run, to clients that acknowledge what
they were sent, in order: not even then do the states only advance.

`JobLifecycle` says what this amounts to for one job: new, held by the process (queued or
with a worker), then sent, or waiting in the retry table, or over. `PlaceOf` reads the
place off the queue, the workers, the table and the events sent; a job at two places,
or one that comes back to an earlier place, would not be a step of `JobLifecycle`. Only a
restart ends several jobs of the process at once, and only the retry worker's delete
several rows, all of one message.

**EventLog.** An event is its number, a batch the set of its rows, which are taken
smallest first. `CommitEvent` makes a number visible in any
order, for it was drawn before its transaction committed. `GetCheckpoint`,
`SelectBatch`, one `Dispatch` or `DispatchFails` per row and `CommitBatch` are
`Consumer.process`; two nodes run it under one consumer name. Dispatching writes
the projection outside the transaction, so `AbandonBatch` (a failed statement, a
restart) undoes the checkpoint and not the projection. An event is `malformed` when
its payload does not decode: its dispatch fails every time, at no cost in faults, and a
full batch of such events leaves the checkpoint where it is, for ever (`Blocked`).
`Truncate`, `ReadBatch`, `ReplayNext`, `ReplayFails` and `ReplayCut` are the rebuild,
beside the consumers; `ReplayCut` is an iteration that breaks off, for which nobody asks
`rows.Err()`: in front of the first row it ends the replay with success (`cut`). The
history variables `late` and `unlettered` name what the code gives up: events committed
below a number a batch already held, and failing events whose dead letter failed too.

**SearchQueue.** A batch is the set of its rows. `SelectItems` claims rows (`FOR UPDATE
SKIP LOCKED`), `HandleItem` and `HandleFails` go through them, smallest number first,
`CommitItems` marks those that were applied.
Indexing a message that exists always fails: the statement of `handleItem` leaves
out columns the table requires; such a row (`Poison`) is dead-lettered and stays.
`ProjectEvent` is the event consumer writing the same projection.

**MediaJobs.** One media file with its jobs. `LockPendingJobs` claims, `StartJob` to
`Publish` are the steps of `ProcessMedia`, in its order, and `SettleJob` is
`CompleteJob` or `FailJob`. The input of a conversion goes through one temporary file
that all runs share, for its name is that of the media file: `TruncateFile` and
`FillFile` are the two halves of `os.WriteFile`, `OpenFile` begins to read, and
`Convert` ends it; whoever reads meets pieces of what the others write meanwhile
(`saw`). `misread` is history: a conversion that could come out wrong that way. What
lies under a key of the store is raw, sealed (converted and encrypted) or spoilt; the
second run over a processed file gets sealed data and fails to decode it, and the
encoder refuses to overwrite the output file of an earlier run. `UploadAvatar` runs the
same steps without a job, and `ExecuteRetention` deletes the row, with the jobs that
refer to it, at any time.

**Scheduler.** `LockPendingMessages` marks a batch published and commits (or
commits and loses the answer), `PublishMessage` sends one, its error dropped.

**Uploads.** The file is a sequence of parts, and the data of a chunk some of them, in
their order, or foreign. Nobody compares the index or size of a chunk with the session: a
chunk may be empty, hold the whole file, or have an index beyond the last one.
`ChunkExists` and `AddChunk` are the two statements of an upload, on any state of the
session; `AddBareChunk` is the repository's method of that name, which inserts a row
without data. `LockSession` to `CompleteSession` are `Finalize`, whose lock lasts until
its transaction ends; reads go over other connections, and one that breaks off has read
the first rows. It counts what it read, looks for the objects and compares the hash of
the whole (`IsFile`): rows 0 and 2 complete an upload of two chunks when they hold
the file together. Locking or completing a row the cleanup has deleted is no error.

**PartitionLeases.** The row of a partition has an owner and an age; `claims` is what
a node was told. Renewing a lease one has lost is no error in the code, hence the
difference between `owner` and `claims`. `silence` is history: how long the table
has heard nothing of a node about a partition.

**Accounts.** A token is the second it was made in, for nothing else distinguishes
two tokens of one kind and user; `refresh_tokens.token` is unique, so the second
one of a second fails. `IsUserBlocked` to `CacheSession` are `UserLogin`,
`RefreshGet`, `StoreRotated` and `DeleteRotated` are `UserRefresh`, `AuthMiddleware`
is the branch that caches (also reached when the look-up of a cached token fails), and
`Authenticate` compares what a connection demands
of a token (`Validate`, `ValidateSession`) with what the routes accept. A request
lasts less than an access token, which the server's time limit of 15 s ensures.

**TwoFactor.** `CountRequests` and `InsertTwoFaCode`, `CountAttempts`, `SelectCode` and
`WrongCode` or `RightCode`: reads, and later a write. `CountAttempts` counts the tries of
ten minutes by the age of their codes; an expired code may be older than that, so only
those of fresh codes are sure to count. `TriesAreBounded` gives the number of
wrong tries a code can take when requests overlap, and the bound is reached: with the
code's limit of three, two requests at a time make nine tries instead of three.

**Rooms.** A row is the set of its members. `Begin` reads it, cache first, else from the
table; then a goroutine has still to put it in the cache, and holds the very object
the request goes on to change: it has marshalled the row as it was (`fills`), or still
shares it (`late`). `IsRoomMember` reads again, `AppendMember` adds the user to the
object, which is what a late goroutine will cache, `UpdateRoom` writes the object back
whole, or fails, `SetRoom` caches it, `ListRoomsByNamePrefix` and `UpdateChannel` do the
same for the channels, `Answer` says "joined". `CreateRoom` is an upsert. `overwritten`
is history: members lost to a write over a row its request had not read; `unwritten`
too: users a late goroutine names whom no write has put in the row since.

## Runs

| Run | Module, configuration | Checks | States |
|---|---|---|---|
| `pipeline` | `MessagePipeline` | `TypeOK`, `OneEventPerMessage`, `AckedIsStored`, `MarkedReachedProducer`, refinement `ImplementsLifecycle`, liveness `QueuedIsPublished` | 52,322 |
| `pipeline_acked` | `MessagePipeline`, `PipelineAcked.cfg` | `AckedHasEvent` (violated) | - |
| `shared_index` | `MCSharedIndex`, `SharedIndex.cfg` | `TypeOK`, `RegisteredIsFound`, `RemovedIsGone`, `NoEmptyObject` | 703,508 |
| `connections` | `MCConnectionManager`, `ConnectionManager.cfg` | `TypeOK`, `SubscriberIsDeliverable`, `RemovedIsGone` | 64,744 |
| `connected_is_reached` | `MCConnectionManager`, `ConnectedIsReached.cfg` | `ConnectedIsReached` (violated) | - |
| `delivery` | `MCDelivery`, `Delivery.cfg` | `TypeOK`, `Accounted`, `SentIsEarned`, refinement `ImplementsLifecycle`, liveness `JobsSettle` | 213,364 |
| `states_advance` | `MCDelivery`, `StatesAdvance.cfg` | `StatesAdvance` (violated) | - |
| `worker_queues` | `MCQueues`, `Queues.cfg` | `QueuesTypeOK`, `EventsAccounted`, `RebuildRestores`, `ProcessedWasApplied`, `CompletedIsProcessed`, `ScheduledOnce`, liveness `ReadableReached`, `DeletionIsReached`, `ClaimedJobSettles` | 849,139 |
| `locks` | `MCLocks`, `Locks.cfg` | `LocksTypeOK`, `CompletedIsWhole`, `OneFreshOwner`, action property `ChunksAreStable`, liveness `LockIsReleased` | 1,519,500 |
| `members` | `MCMembers`, `Members.cfg` | `MembersTypeOK`, `SessionSurvivesRotation`, `NoRequestPastTwoLives`, `AcceptedTogether`, `FewCodesAtOnce`, `TriesAreBounded`, `AdmittedWasMember`, `JoinsAddUp` | 2,112,833 |
| `joined_is_member` | `MCMembers`, `JoinedIsMember.cfg` | `JoinedIsMember` (violated) | - |
| `access_token_connects` | `MCMembers`, `AccessTokenConnects.cfg` | `AccessTokenConnects` (violated) | - |

`MCQueues`, `MCLocks` and `MCMembers` each hold components that share no state. The
variable `part`, chosen in the initial state, says which of them a behaviour runs,
so a run explores the sum of their state spaces instead of the product; nothing is
lost, since no step of one depends on another.

Bounds, and why they suffice:

- `pipeline`: two calls, two messages, one crash. Two calls are a duplicate, a
  retry, or two different sends; `BatchLimit = 1` makes the `LIMIT` bite with two
  events. Every call happens once; each retry of a send is a further call.
- `shared_index`: four clients of one key. Losing a registration takes one
  registration and one removal, dropping a *newer* object takes two removals and
  two registrations; keys do not interact. The three WebSocket clients are
  symmetric.
- `connections`: two connections of one user in one room, the case in which both
  indexes are emptied and refilled. SSE clients are in `shared_index`, and the
  refinement theorems below carry over any number of connections.
- `delivery`: one message, two clients of one user (whose rows share message and
  user) and an SSE client of another, two workers, queue and channels of one
  place (so that both overflow), one database error, one restart. Messages meet
  only in the queue, the channels and the workers; two jobs suffice for each of
  these.
- `worker_queues`: two workers of every kind, for what one claims the other must
  pass over. Three events and batches of two, so that a full batch of malformed events
  can have one behind it; a batch that is malformed in part, one that is not full, and
  events committed late occur beside it. The log is explored twice: the consumers alone
  with three events and one fault, and the rebuild beside them with two events and two
  faults, which suffice for an event committed late and for a checkpoint that moves
  back; `ReplayBatch = 1` makes a replay page through them. Three rows
  and `IndexLimit = 2` let the failing rows fill a batch with a deletion behind
  them. Two jobs of one file run side by side, or one after the other, and with an avatar:
  up to three runs share the temporary file. Two log faults are a failing dispatch and a
  restart.
- `locks`: two chunks of a file of two parts, and an index beyond them: one chunk may
  hold both parts or none, and rows 0 and 2 complete an upload. The upload is explored
  twice: one request at a time that sends chunks, two that finalize, one fault, and the
  cleanup at any step; and two requests that send chunks, while nobody finalizes, for
  finalizing writes no chunk and reads only rows that are there. Three nodes on two
  partitions: an owner, the one that lost the partition and the one that takes it next;
  a lease of three ticks.
- `members`: two requests at a time, the least that can race. A clock of four with
  lives of two and three: a rotation, an expiry of each kind and a token cached twice
  fit. The account is explored twice, with one sign-in in force and cached sessions,
  and with two sign-ins and none cached: rotations of two sessions meet in the same
  second, and what is cached does not depend on another sign-in.
  `RequestLimit = 1` and three codes: the limit, one more by a race, and a
  further one once codes are old. Three users, a room with a channel, four requests
  one goroutine at a time that has a row to put in the cache, and any number that
  still share one: three joins that add up after a
  creation, and a second creation between two joins. Requests and users are symmetric.

All configurations but `Locks.cfg` switch deadlock checking off: calls, connections,
messages, codes and jobs are finite in number, and when all are done the system is at
rest. In `locks` the clock and new attempts to finalize never end.

Fairness. `MessagePipeline`: the ticker keeps calling `process` and the loop keeps
going (weak), and a row's `LoadMessage` and `MarkPublished` succeed at last if they
are tried again and again (strong): the database does not fail for ever. Callers,
Kafka and crashes are not fair. `Delivery`: each worker's goroutine and the retry
worker run when they can (weak fairness of the goroutine, not of an outcome);
clients need not read, answer or leave, and faults are bounded by `MaxFaults`.
`MCQueues`: every second a supervised consumer runs `process` to its end, and a
running index or media worker polls its table and goes through what it claimed
(weak fairness of each worker's steps); nothing makes an event be written, a rebuild
run, a scheduler come back, a fault happen or not. `MCLocks`: a finalizer that began
goes on (weak); nobody has to begin. The properties read "again and again" (`[]<>`),
because new events, jobs and attempts keep coming: at no time is the backlog there
for good. `JobsSettle` has the premise that fewer inserts fail than there are workers:
when as many fail, the code has lost all its workers and the claim is false.
`ClaimedJobSettles` leaves out the jobs whose worker died or whose row the table refused
to change: those stay in processing, for nothing in the code takes them up again.
`ReadableReached` leaves out what lies behind a full batch of malformed events (`Blocked`),
which the consumer never gets past: there the claim without the exception is
false.

## Theorems

| Module | Theorems |
|---|---|
| `MessagePipelineProofs` | `PipelineInvariant`, `TypeCorrect`, `NoSecondEvent`, `NoFalseAck`, `MarkAfterPublish`, `PipelineImplementsLifecycle` |
| `SharedIndexProofs` | `IndexInvariant`, `IndexTypeCorrect`, `RegistrationIsKept`, `RemovalIsFinal`, `NoObjectLeaks` |
| `ConnectionManagerProofs` | `ImplementsUserIndex`, `ImplementsRoomIndex`, `UnregisterIsFinal`, `ManagerInvariant`, `ManagerTypeCorrect`, `BroadcastFindsDeliverable` |
| `DeliveryProofs` | `DeliveryInvariant`, `DeliveryTypeCorrect`, `NothingIsLost`, `NothingIsSentTwice`, `SentIsSent`, `DeliveryImplementsLifecycle`, `WorkersAreLeft` |
| `EventLogProofs` | `LogInvariant`, `LogTypeCorrect`, `NothingIsSkipped`, `RebuildIsComplete` |
| `QueuesProofs` | scheduler: `ScheduleInvariant`, `NoSecondPublication`; search: `SearchInvariant`, `MarkedWasApplied`; media: `MediaInvariant`, `CompletionMeansProcessed`; all: `QueuesAreComponents`, `QueuesTypeCorrect`, `QueuesAreSafe` |
| `LocksProofs` | leases: `LeaseInvariant`, `LeaseTypeCorrect`, `NoTwoFreshOwners`; uploads: `UploadInvariant`, `UploadTypeCorrect`, `CompletionIsSound`, `RowsAreStable`; both: `LocksAreComponents`, `LocksTypeCorrect`, `LocksAreSafe` |
| `MembersProofs` | accounts: `AccountInvariant`, `NoSessionLost`, `AccessEnds`; codes: `CodeInvariant`, `NoLateAcceptance`, `CodesAreFew`, `TriesAreCounted`, `TriesEnd`; rooms: `RoomInvariant`, `NobodyElseAdmitted`, `NoJoinVanishes`; all: `MembersAreComponents`, `MembersTypeCorrect`, `MembersAreSafe` |

Every safety invariant, action property and refinement the runs check is stated by one
of them.

They hold for every value of the constants that satisfies the named assumptions
(`PipelineAssumption`, `NoMessageAssumption`, `IndexAssumption`,
`ManagerAssumption`, `DeliveryAssumption`, `LogAssumption`, `LeaseAssumption`,
`UploadAssumption`, `SearchAssumption`, `MediaAssumption`, `ScheduleAssumption`,
`AccountAssumption`, `CodeAssumption`, `RoomAssumption`: capacities, limits, lifetimes and
batch sizes are positive, the clients of the two transports are different, names are
not reserved words, the requests of the second factor under way at one time are
finitely many, for its properties count them).

- **Send path.** `PipelineInv` adds to the properties that the three writes
  happen in order (`WriteOrder`), that a call past the insert of its message is the
  only such call for it (`SoleWriter`: the primary key of `messages` is what
  serialises two duplicates, not the idempotency table), that the worker speaks of
  existing rows (`KnownRows`) and what is true between publish and mark
  (`HandedOver`). `OneEventPerMessage` follows from `SoleWriter`. For the
  refinement, every step is shown to advance the stage of one id or to stutter.
- **Registry.** `IndexInv`: pointers belong to the right key (`Keyed`), a client is
  in one object (`Placed`), an unraced registration's pointer is the stored object
  and no removal of the key is beyond its look-up (`Protected`), a removal holds the
  object its client is in (`Leaving`), an empty stored object has an operation
  under way (`Pending`). ConnectionManager is then shown to implement SharedIndex
  twice, and the index theorems are used for it. What relates the two indexes needs the
  order in which they are filled and emptied (`RegisteredInOrder`): who is in the room
  index has finished with the user index, and nobody is removed before the connection
  closed; with that, an unraced registration of the user index is still found there.
- **Delivery.** `DeliveryInv`: a job still to be queued has left no trace
  (`Fresh`), a job is in one place (`OnePlace`), what a worker does with its job
  tells whether the event went out (`Progress`), what is in channels and at peers was
  sent (`Received`), and the retry worker deletes what it tried to store (`Stored`). Nothing is
  said of `delivered` and `read`, which are what a client claims.
  One lemma per action (`...Step`); a frame lemma per conjunct says on which variables
  it depends, so an action is examined only for the conjuncts it can disturb. For the
  refinement, `OneOfThePlaces` derives from the invariant that no job is at two places;
  then every action moves one job, the jobs of one message, or (a restart) those the
  process holds, or it stutters. `WorkersAreLeft` is the safe half of `JobsSettle`:
  a worker that returned for good was the cost of one fault (`DeadAreFaults`), so one is
  left as long as fewer faults happen than there are workers.
- **Event log.** `LogInv`: the checkpoint, the cursor of a node that has read it and the
  last number a node has dispatched are *cursors* (everything below is settled, and
  the number was in some batch: an event that comes in below it is `late` at once); up to
  any row of a batch everything is settled or still in the batch (`BatchAccounted`, from
  `AfterIsPrefix`: the query leaves nothing out in front of a row it returns); and what
  a rebuild has not brought back lies ahead of it (`RebuildAhead`): `RebuildIsComplete` is
  about a rebuild that read the log to its end, not about one that was cut off. Overwriting the
  checkpoint by another cursor, even a smaller one, is harmless.
- **Scheduler.** `ScheduleInv`: the number `ScheduledOnce` counts is one because a
  message has one holder, and is in one of four places: not claimed, held, sent or
  dropped (`InOnePlace`).
- **Search queue.** `SearchInv`: a claimed row is not processed, and no other worker
  has it (`ClaimsAreApart`); what a worker has handled with success is true of the
  projection until an event undoes it (`DoneWasApplied`), so it is when `CommitItems`
  marks the row. `CommitItems` marks no row it did not handle, whatever the batch.
- **Media.** `MediaInv`: each run has its uploads behind it, and what it has in hand is
  the raw data or the outcome of a misreading (`RunsBehind`), so what is stored is sealed,
  or spoilt by one; a processed row has its objects (`RowBacked`), and the jobs of a file
  go with its row (`JobsHaveFile`), so that no completed job is left to speak of a file
  the retention deleted.
- **Leases.** `LeaseInv`: the table is at least as fresh as the heartbeats of the owner
  (`OwnerIsHeard`), so the failover takes a partition only from a node that has been
  silent for longer than the lease time, and a claimant heard within it is the
  owner in the table (`FreshIsOwner`).
- **Uploads.** `UploadInv`: what a finalizer has found out (objects, rows, hash) stays true
  (`FoundIsTrue`), although uploads go on beside it, for rows and objects only grow
  (`Grows`); hence in a completed session as many rows as it has chunks hold the file
  together and have their objects (`CompletedIsWhole`). Which indices these are, nobody
  asks.
- **Accounts.** `AccountInv`: the row a rotation has read is there or gone, and one of
  the present second cannot be gone, for the key of its successor would collide
  (`RotationsAreOpen`); a rotation that is to delete its row leaves a younger one of the
  same sign-in behind (`RotatedIsThere`). Two rotations of one session therefore never
  delete each other's rows. `CachedWithinTwo` bounds what the middleware has cached and
  what a request may still cache.
- **Codes.** `CodeInv`: a request that compares a used code selected it before it was used
  (`AcceptedOnce`), and each request that counted inserts one code at most
  (`RequestsCounted`). Both are about the size of a set of requests, by the library's
  theorems on finite sets. `TriesCounted` counts the tries level by
  level: for each number of tries the row can show, how many requests stand there or
  later (`PastTries`: in the row, and in what a request that compares has read), and the
  tries made of a code are at most what so many requests can make at each level. A wrong
  answer brings its request to the number it writes. The levels up to that number keep
  their requests; those beyond it, which a row set back empties, are paid for by that
  one request. That the levels add up to `TriesOf`, and that `TriesOf` is a natural number
  growing with both arguments, is proved by induction over the naturals, in the form "a set
  of naturals that is not empty has a least member" (`WFMin` of the library), which
  needs no operator parameter.
- **Rooms.** `RoomInv`: every copy of a row, in the table, the cache, a goroutine or a
  request, holds former members only, and users an unwritten copy named
  (`CopiesAreOfMembers`); a former member is in the row or was lost to a write over an
  unread row (`MembersKept`); a join past its write has its user among them or among the
  unwritten (`JoinIsWritten`), and a change of avatar never comes to the answer of a
  join (`AvatarEnds`). `JoinsAddUp` is `MembersKept` of who joined.
- **Compositions.** A behaviour of `MCQueues`, `MCLocks` or `MCMembers` is one of every
  component (`...AreComponents`), so each theorem about a component holds of the runs
  as TLC checks them: the type invariants of the runs (`...TypeCorrect`) and their
  safety properties (`...AreSafe`), for all values of the constants.

The components' invariants were checked by TLC as invariants of the runs before they were
proved.

Only model-checked: the liveness properties (`QueuedIsPublished`, `JobsSettle`,
`ReadableReached`, `DeletionIsReached`, `ClaimedJobSettles`, `LockIsReleased`), for liveness
under fairness is out of the prover's reach; and the violated claims, of which TLC finds a
counterexample.

## Divergences

Statements of the documentation that the code does not keep, each with a
counterexample run:

1. *"Write outbox entry (message_outbox) in same transaction"*
   (`docs/MessageFlow.md:26`): `AckedHasEvent`. A repeated send is acknowledged
   while the event of the first is not saved, possibly for ever.
2. *"Delivers to every room member connected via WS or SSE"*
   (`docs/MessageFlow.md:40`): `ConnectedIsReached`. A reload can leave the new
   connection registered, in one of the indexes, in an object that is no longer there.
3. *"`pending` -> `sent` -> `delivered` -> `read`"* (`docs/API.md:578`):
   `StatesAdvance`. `sent` can overwrite `delivered` and `read`.
4. *"Join a room and gain membership"* (`docs/API.md:208`): `JoinedIsMember`. A join
   is answered with success while the row of the room does not hold the user: after
   a second creation of the room behind the cache, or a concurrent join.
5. *"`token` | JWT access token"* (`docs/API.md:411`, `:453`): `AccessTokenConnects`.
   `/ws` and `/sse` refuse every token the server issues.

Others are visible in the models without a run of their own: a fetched retry job
is dead-lettered at its first retry (`docs/API.md:580` promises five attempts and an
`ack_failed` to the sender); a WebSocket connection closed before `Register` stays
registered; an SSE client is never removed; realtime messages update
`message_delivery_status` (`docs/MessageFlow.md:64` says they never hit Postgres)
and pass the suppressor only when they come through Kafka; an event committed below
a number already dispatched is skipped (`late` in `EventLog`); a cached session
extends an access token beyond the 15 minutes of `docs/API.md:525`, to less than
two lives (`NoRequestPastTwoLives`); rows of the search queue that fail stay in
front of those behind them (`PoisonBefore`); a job whose worker died stays in
processing (`abandoned` in `MediaJobs`); a full batch of events whose payload cannot be
read is dispatched and dead-lettered at every tick, and what lies behind it is never
processed (`Blocked` in `EventLog`; `docs/EventSourcing.md:87` promises at-least-once
processing); a rebuild whose iteration breaks off in front of a batch reports success
over the projection it emptied (`cut` in `EventLog`; `docs/EventSourcing.md:105`: "without
losing history"); a join whose write failed may be in the cache all the same, and its
repetition is answered "joined" though no row ever held the user (`unwritten` in
`Rooms`); two runs over one media file can store a picture or film mixed from what both
wrote to the temporary file they share (`misread` in `MediaJobs`).

## Limits

- Data is abstract: payloads, formats, trace metadata and logging are left out;
  ids are model values. `MessagePipeline` numbers events by insertion instead of
  by clock.
- `Delivery` lets each message be routed once. A redelivery by Kafka is another call of
  `RouteMessage`, and the code does not recognise it; `ImplementsLifecycle` and
  `SentIsFinal` speak of one call.
- `Delivery` starts with each client connected or absent, for a client that connects
  later differs from an absent one only for later messages. After a restart nobody is
  connected.
- A fault is a statement that fails; the case "applied but reported as failed" is
  in `MessagePipeline` only. Faults, calls, messages, clients and restarts are bounded
  in the runs (`MaxFaults`, `MaxCrashes`), and unbounded in the proofs.
- The delays of retry (`next_retry_at`) are a free choice of the rows that are due;
  the `LIMIT 100` of the retry query is not modelled, for any subset may be fetched.
- `EventLog` models one projection and one consumer name. Partitions, snapshots and
  the idempotency table are not part of the consumer that runs.
- `PartitionLeases` measures all ages with the clock of the database, as the SQL does,
  in whole heartbeat periods. `LeaseRepository.AcquireLease`, which takes a lease
  from a live owner, appears as a mutant only.
- `MediaJobs` follows the processor with a publisher and a key; `main.go` passes nil
  for both. The nonce of the encryption is discarded, so a sealed object could not
  be opened again: nothing in the model opens one.
- `Uploads` takes the data of a chunk for a set of parts of the file in their order, so a
  chunk that holds a part twice or out of order is *foreign*, and the hash of the whole
  for `IsFile`. One index beyond the last stands for all of them. `QuotaService` has no
  caller.
- `MediaJobs` reads and writes the temporary file in pieces without saying which: a
  decoder of images takes what is cut short for an error, the video encoder makes a
  shorter film of it. The temporary file is that of one host; the workers of the model
  share it. A file of one length that another run overwrites with the same bytes is unchanged,
  so two runs over the raw data do harm only while one has emptied it.
- `Uploads` leaves out the repair and the integrity worker: both only log.
- `Accounts` takes the look-up and the caching of `AuthMiddleware` as one step.
  Logout and the activation of the second factor always refuse, and the key
  `session:<id>` is written and never read; the email of a code has no caller, so
  `CountRequests` speaks of the method as written. `AuthMiddleware` would also accept a
  token that is none of these and signed with the same secret (`pkg/apperror/middleware.go:82`); the
  model has only the tokens the server issues. `RecentLimit` is reached
  only by more codes than the request limit admits.
- `Rooms` leaves out the deletion of rooms, which no route calls, the check of invites
  and the other fields of a row. The cache of user profiles is not modelled; a key it
  lacks makes `UpdateLastActivity` panic (a hazard of the list).
- Data races. The `*Room` that `GetRoom` hands to the goroutine of its cache is one: the
  request appends to its members while the goroutine marshals them. `Rooms` lets the
  goroutine see the members before or after the append; a torn slice header is left out.
  The state of the other modelled parts is behind locks, channels or `sync.Map`, or in
  files and tables.

## Plan

1. `SseReplay` and the Kafka consumer, composed with `Delivery`: order, redelivery,
   sequence numbers and `Last-Event-ID`.
2. Proofs about more of the composition: that `Delivery` may take a linked client for
   one that `ConnectionManager` finds, and an abstract specification of a queue of claimed
   rows that `Scheduler`, `SearchQueue` and `MediaJobs` implement, in the manner of
   `JobLifecycle`.
3. The cache of user profiles, polls and notifications, the call server.
