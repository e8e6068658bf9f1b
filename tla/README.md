# Fable: a TLA+ model of the chat backend

Fable is a chat server that was split into three processes around Redis, MySQL
and Kafka. This directory models the parts of it whose correctness depends on
the order of things: leases, sockets, transactions, offsets, retries. Each module
is written from the Go code (and the Lua scripts inside it), one action per
operation. TLC checks the modules on small instances, and TLAPS proves their main
invariants for every value of the constants.

`PROJECT.json` gives, for every definition, the lines it models, and lists the
runs, the mutants (a plausible slip in one definition that a property must
catch), the hazards and the theorems.

## 1. The system

```
 browser ──ws──> Comet ──gRPC──> Logic ──> MySQL (messages, members)
                  ^  ^             │  └──> Redis (instance and route leases)
                  │  └── Kick ─────┤
                  │                └──> Kafka push topic
                  └── Deliver ── Job <───────┘ └──> Kafka dead letters
```

A **Comet** process holds the sockets. It registers under an `instance_id` with a
lease in Redis (through **Logic**), and for each socket it asks Logic to `Connect`:
the user's route in Redis then names that connection. Logic stores a submitted
message in MySQL and publishes push tasks to Kafka. **Job** reads the tasks, asks
Logic which Comet has each recipient, and calls `Deliver` there. A client that
missed something pages with `Sync` from its cursor.

### Inventory

| component | state | operations | interacts with | what makes it correct |
|---|---|---|---|---|
| routing store (`internal/logic/routing`) | instance and route keys with PX expiry | eight Lua scripts: register, renew, unregister, connect, heartbeat, disconnect, lookup, resolve | Logic's RPCs | conditional on instance, boot and connection ids; a late call touches nobody else's key |
| instance lease (`internal/comet/instance.go`) | boot id, safe deadline | register with retries, renew loop, stop, unregister | Logic, Hub | never serves without its lease; one process per `instance_id` |
| connection control (`internal/logic/service.go`, `transport.go`) | bounded kick queue | Connect, Heartbeat, Disconnect, kick worker | Redis, Comets | a served connection is reachable; a superseded one ends |
| Hub (`internal/comet/hub.go`) | client table, outbound queues, drain deadline and timer | register, activate, unregister, Kick, Deliver, Drain, Close, all run by one owner loop | handlers, gRPC | no double close, no orphan entries, a drain empties the table |
| socket handlers (`internal/comet/handler.go`) | phase, done channel, cancel, goroutines | handshake, writer, heartbeat, watcher, cleanup | Hub, Logic | every handler ends once its connection is closed |
| message store (`internal/logic/messagestore`) | message table, row locks | Save, SaveAI, Sync | membership and AI access transactions | one message per key, no gap behind a cursor, rights at commit |
| dispatch (`internal/logic/dispatch.go`, `kafkapush`) | chunk index | publish each chunk | Kafka | what the caller is told about the push is true |
| Job consumer (`internal/job/consumer.go`, `app/kafka.go`) | offset, identity ring, phase | fetch, process, dead letter, commit, rebalance | Kafka group | an offset is committed only past handled records |
| Job processor (`internal/job/processor.go`, `routing.go`) | outcome, route, repair per recipient | rounds of Lookup, Resolve, Deliver | Logic, Comets | results are true, copies bounded, the call returns |
| Job replay (`internal/job/replay.go`, `app/replay.go`, `task.go`) | plan of letters, index | plan, check, publish | Kafka | a replay reaches only recipients a letter left over, once per replay task |
| processes (`internal/*/app`, `cmd`) | what is open, generation, workers, readiness, clients | start, fail, rebalance, drain, close | signals, probes, Kafka group | nothing is used after it is closed; every start comes to an end |
| web chat client (`web/chat-server/src`) | cursors, live buffer, pending sends, sync runs | connect, sync, receive, send, retry | Comet, Logic | no gap behind a cursor, what was sent is shown |
| legacy chat server (`internal/service/chatservice`, `kafkaservice`, `cmd/my_chat_server`) | table of clients, queues, Kafka offset | register, unregister, route, close | sockets, services | the table is right while the loop runs, and the loop ends |
| group, session and user services, Redis cache, controllers (`internal/service/gormservice`, `redisservice`, `internal/api/v1`) | rows, cache entries | join, leave, approve, open, send, read, log in | MySQL, Redis | rows agree, stale entries have a cause, declared statuses |
| assistant (`internal/service/aiservice`, `internal/mcpserver`) | allowed sessions | change the setting, list, read, search, send | MySQL, the chat server | reads and writes only what its user allowed |
| configuration, tools, tables, generated code | none of their own | parsing, wiring | – | not modelled |

What is hard: a request is applied after its caller gave up; a reply is lost
after the effect; a process restarts under the same name; a lease ends while the
Comet's clock differs from Redis's; several goroutines close one connection; ids
are drawn in one order and committed in another; a worker of an old generation
goes on; a call dies between commit and publish. The `hazards` of
`PROJECT.json` name the line where each one bites and the properties about it.

## 2. Modules

### Routing and Presence: who receives a user's messages

`Routing` is the Redis side. `instances` and `routes` are the two key spaces, each
Lua script is one step (Redis runs a script atomically), `Advance` moves Redis's
clock and `ExpireInstance`/`ExpireRoute` delete a key whose time has come.
`Lookup` and `Resolve` are the read scripts.

`Presence` extends it with the Comet processes and their sockets. `proc` is the
life of a process (`StartInstance`, `RegisterComet`, `RegisterUncertain`,
`RenewComet`, `StopInstance`, `UnregisterComet`, `Crash`, `Drain`, `DrainTimer`),
`sock` the life of a connection as far as Logic and Redis matter (`Open`,
`LogicConnect`, `Activate`, `CloseSocket`, `SendHeartbeat`, `LogicHeartbeat`,
`LogicDisconnect`, `KickWorker`). `registers`, `connects` and `beats` are
requests under way: they may be applied at any later time, or never, and the
caller may or may not hear of it (`heard`, `lost`). `Readings` is what a Comet's
`time.Now()` may say.

`SocketLife` is the abstract specification: a connection enters the Hub, is
activated at most once, departs and never returns; a draining Hub lets nobody
enter and activates nobody. Presence and CometHub both implement it.

Assumptions and simplifications:
- `Skew <= Slack < Margin`. The code subtracts a margin from every lease; it is
  sound only if the clocks and the reaction time of a Comet stay within it.
- A boot id is one process start. A renewal and its answer are one step. The
  `ready` flag is not a variable: `Ready` says what `Instance.Ready` answers.
- Connection ids are never reused (they are random in the code).

### CometHub: the owner loop and the goroutines of a socket

The Hub's commands (`Insert`, `Unregister`, `Kick`, `Deliver`, `Drain`,
`DrainTimer`, `Close`, `Stop`) run one at a time in the owner loop, as in the code. The
handler of a connection is a sequence of phases (`Handshake`, `Register`, `Granted`,
`Activate`, `Upgrade`, `Join`, `Cleanup`, `Disconnect`) with a writer, a heartbeat
and a watcher goroutine beside it. `closes` counts the closes of a `done` channel: two
would panic. A caller of `register` or `activate` may give up after the loop has run
its command (`heard = FALSE`). The `Unregister` of the cleanup is assumed to be
answered within its one second, which the loop can do because it never blocks; a slower
loop would leave the entry in the table.

### MessageStore and Submit

`MessageStore` takes `Save`, `SaveAI` and `Sync` statement by statement. A row lock
(`FOR UPDATE`) is held to the end of the transaction, so `pc` and `phase` say who
holds what (`UserFree`, `ConversationFree`, `AccessFree`). An id is drawn at
`Insert`, the row is visible after `Commit`; `Abort` is any failure before it, and
`Commit(c, FALSE)` a commit its caller does not hear of. A call is one execution: a
client's retry is another call with the same request. `JoinGroup` (also the effect
of an approved application), `LeaveGroup` and `ChangeAISetting` each take one lock
and are one step. Groups and users are never deleted by the code of Logic, and the
legacy senders cannot write this table (`client_message_id` is NOT NULL).

The locking read of a key that is not in the table (`LookUp`) leaves a gap lock of
InnoDB. Such locks do not exclude each other, but `Insert` waits for those of the other
calls (`GapHolders`), so two senders whose keys fall into one gap can wait for each
other. The server finds that circle and rolls one of them back (`Victim`), which the
caller sees as a database error and may retry. `GapOf` says which keys share a gap and is
arbitrary: with a gap for every key it also stands for READ COMMITTED, which has no such
locks. That a committed row splits its gap is left out; a call then waits where it need
not, and ends all the same.

`Submit` extends it with the dispatch after the commit: `Publish`,
`PublishRefused` (certainly not sent), `PublishUncertain` (the task is in
`flying`, from where it `Lands` or `Vanishes`), `Published`. User ids are numbers
there because the chunks cut a sorted list.

### JobConsumer, JobProcessor, DeliveryCycle

`JobConsumer` has the Kafka group (`generation`, `committed`), the Job processes that
join it, and one worker per assigned partition: `Fetch` (with the conflict check
against the identity ring), `Resolve` (a recipient gets a terminal result),
`Processed`, `Interrupted`, `WriteDLQ`, `Commit`, their refused and unheard forms,
`NewGeneration`, `GenerationEnds`, `LeaveGeneration`, `Crash`, `Restart`. Commits are
fenced by generation, as the broker does.

`JobProcessor` is one `Process` call: rounds of lookup, resolve and deliver,
with the single route repair, the hints of a task, and a context that may end at any
step. `DeliveryCycle` is what it promises: a recipient is settled once, only before
the call returns, and never unsettled; `ImplementsCycle` is the refinement.

### ChatClient: the browser

The client is one record (`Client`) and each of its methods an operator from record to
record, so a handler is the composition of the calls it makes (`OnMessage`, `Timer`,
`PageArrives`, `Reconnect`). Around it: a socket that breaks, the reader of a Comet
that stores and replies, live pushes in any order, repeated or not at all, and pages
of `messages/sync` that may answer a run the client has already given up (`SyncRun`,
`Current`). `MaxTroubles` bounds the failures, `MaxClicks` what the user does.
`Run` bounds the calls of `sync()` under way: a handler that would start one more waits
for an abandoned call to end.

### ChatServices, Assistant, ChatServer: the single-process server

`ChatServices` has the rows of MySQL, the entries of Redis and the requests of the HTTP
API, each a sequence of statements, transactions and cache commands that interleave
with those of the others. A transaction that takes the lock of the group's row is one
step after its snapshot (`JoinSnapshot`, `JoinGroup`). `View` is the query behind
a cache key; `Hit`, `Miss`, `Query`, `Fill`, `Delete`, `AppendGet`, `AppendSet` and their
failures are the cache. `late` remembers entries that were wrong when they were written.
`StatusOf` is what the controllers answer.
A cached list of messages is the set of its ids and whether they are in order (`Listed`,
`Appended`), which is what a reader can tell apart.

`Assistant` adds the settings (`CountSessions` fixes the snapshot, `ReplaceAccess` is the
rest of the transaction) and the MCP tools, which check (`CheckAccess`) and then read
or send in other statements. `entitled` remembers which sessions were allowed at some
moment of a call. A session with a group can be allowed too, as in the code.

`ChatServer` is the process: the owner loop with its channels, sockets with `closeOnce`,
`HandleMessage` directly or through Kafka, and the shutdown.
`Init` is any database that earlier requests may have left, with any requests to come
(`RowsOK`, `AccessOK`, `RequestsOK`); the theorems are about all of them, the run starts
from some. `SessionsKept` says what is left out: nobody enters the group while an assistant
works.

### JobRuntime, Servers, Replay, Processes

`JobRuntime` is `Run` of the Job with `runConsumer`, the generations as kafka-go offers
them, the workers, the progress that readiness looks at and the RPC clients of the pool.
`Servers` is `Run` of Comet and of Logic: what is opened in which order, the failure at
each step, the drain of two servers within a grace period, and the deferred closes.
`Replay` is `replay-dlq`: a plan of letters, the checks of `ReplayTask` and the codec,
and publishes that may be uncertain, while the consumer goes on (`selected` is the set of
letters still to be published, taken by offset). `Processes` puts one of
them at a time under one specification, so that they share the statement about stopping.

## 3. Runs

All are exhaustive over the stated constants; none uses symmetry.

| run | instance | shows |
|---|---|---|
| `presence_restart` | one user, two connections, two boots of one instance, Margin 2, Skew = Slack = 1, time 4 | `ActiveIsReachable`, `OneBootPerInstance`, `ImplementsLife` |
| `presence_eviction` | two Comets, fairness, time 3 | a user who moves: no Kick and no late cleanup hurts the new owner (`KicksSpareTheOwner`), and the old connection ends without any help (`SupersededCloses`) |
| `hub` | two handshakes of one user, queue of 1, time 2, fairness | `ClosedOnce`, `NoOrphans`, `NothingBeforeGrant`, `ImplementsLife`, `ClosedFinishes`, `DrainCompletes` |
| `store` | two or three of five calls of two users at a time (a repetition, the assistant's with a used key, keys in one gap and in two), a device of one of them in the group, pages of one, fairness of the database | `CursorComplete`, `Idempotent`, `RightsAtTheMoment`, `CallsEnd` |
| `submit` | a message sent twice to a changing group of three, chunks of two, a device of another member, fairness of the database | `TasksMatchStore`, `DispatchIsTrue`, `ReadersCatchUp` (also when nothing was ever published) |
| `consumer_rebalance` | two processes, one partition with a task, a conflicting copy, a replay and garbage; three faults | `CommittedIsHandled`, `CommitsAdvance` |
| `consumer_progress` | one process, two partitions, fairness, two faults | `EveryRecordCommitted` |
| `consumer_cancel` | as the first, one fault | a violation, see below |
| `processor` | two recipients, two instances, three rounds | `ResultsAreTrue`, `AtMostTwoCopies`, `ImplementsCycle`, `CallReturns` |
| `client` | two conversations, one request id, pages of one, buffer of two, two messages | `CursorGapFree`, `SentIsShown`, `CursorForward`, `MessagesAppear` |
| `legacy` | mixes of two to four requests of an owner, a member and an applicant; tools against settings; three sockets of two users; two events through Kafka | `RowsAgree`, `StaleOnlyIfOvertaken`, `StatusDeclared`, `AssistantWithinRights`, `TableIsLive`, `ServerStops` |
| `processes` | Job with one partition and two generations; Comet and Logic with two HTTP requests and one RPC; a replay of two letters for two users | `ReplaySafe`, `OwnershipFenced`, `ClosedAfterUse`, `NoReplacement`, `ProcessStops` |

Bounds. Two connections are enough for one to replace, kick or outlive the other,
and two boots for a restart; lease times of 2 or 3 units with a margin of 1 or 2
let every deadline pass before, at and after the margin. `MaxTime` stops the clock.
`Limit = 1` and chunks of 2 of 3 make the last, short page and chunk happen.
`Attempts`, `MaxRounds`, `IdentityCapacity` and `QueueSize` are at the smallest value at
which their limit is reached and passed. `MaxFaults` bounds crashes, rebalances and
lost acknowledgements, `MaxAborts` the interrupted Syncs of a device; without them a
progress property would only say that a system that always fails does nothing.
`presence_eviction` has the action constraint `Quiet`: no process crashes, drains or is
stopped unless its own deadline has passed. Such a step closes the connection at once,
which is what the property asks for, so the run loses only easy cases; the invariants of
that run are proved without the constraint.
`legacy` starts from the mixes `MCChatServer` lists (what users, members and requests there
are), because the product of all requests is out of reach: every operation meets the
ones that touch the same rows or keys. Its constraint `Steady` keeps the process serving in
the mixes without a second socket; the shutdown is looked at in the others. In
`processes` the parts that are not looked at are at rest.
`store` starts from three mixes of its calls, the others already rolled back: all of them
at once are out of reach of the liveness check. In it the transactions cross: a Save and a
Sync of one user in one group, two users who write to different conversations both are
in, and two keys in one gap. If Sync took the conversation before the user, if
`requireUsers` locked the rows it counts, or if the circle of two inserts were not broken,
`CallsEnd` would fail; the second is its mutant. The mix of two keys in gaps of their own
is there for `CursorComplete`: in one gap the gap lock alone would order the inserts, and a
missing lock of the conversation would go unseen. It is also the mix in which
a Sync is cut off.
Deadlock is not checked: every instance has finitely many calls, connections or
records and stops when they are used up. That nothing waits for ever is the business
of `CallsEnd`, `ClosedFinishes`, `DrainCompletes`, `EveryRecordCommitted` and
`CallReturns`, `ServerStops` and `ProcessStops`.

Fairness, and why the code has it:
- Presence: time goes on, and a Comet whose deadline passed acts on it (timers). No
  request need be applied and no reply heard.
- CometHub: runnable goroutines run, timers fire, and each call of a handler returns,
  because each has a context with a timeout. No peer goes away, no Connect is answered.
- MessageStore: statements return, devices go on asking; row locks are granted in turn
  by InnoDB, so a statement that could have its lock again and again gets it (strong
  fairness, for the lock statements only). A circle of inserts is found and one of them
  rolled back, as `innodb_deadlock_detect` does (or `innodb_lock_wait_timeout`, later).
- JobConsumer: goroutines run, a process that is down is started again, the coordinator
  forms a generation when nobody works, and the broker answers (faults are bounded).
- JobProcessor: the goroutine runs.
- ChatClient: the handlers of the browser run, timers fire, and troubles are bounded. A
  live message need never arrive: `MessagesAppear` rests on the periodic sync.
- ChatServer: the loop and the goroutines run, and a select takes each ready case in the
  end. No peer reads or fails, no signal need arrive, no statement need return.
- Processes: goroutines run, calls with a deadline return, and what a process waits for
  without one is only what its own goroutines do. The read deadline of a JoinGroup is not
  relied on: `Run` closes the sockets of the group itself.

### A disagreement between a document and the code

`docs/contracts/job.md:68` says a worker that is cancelled completes its current task
before the deadline and tries to commit it. `RunPartition` returns as soon as the
context is done, even when every recipient of the task is resolved
(`internal/job/consumer.go:174`). The run `consumer_cancel` shows it with
`FinishesCurrentTask`. Nothing is lost: the next owner of the partition processes the
task again (`CommittedIsHandled`, `EveryRecordCommitted`), at the price of
duplicates.

## 4. Proofs

Every safety property the runs check is also a theorem, for all values of the constants
that satisfy the named assumptions: any number of users, connections, processes, calls,
readers, partitions, records and conversations, any lease times, page and queue sizes.

| module | inductive invariant | why it is needed | consequences |
|---|---|---|---|
| `PresenceProofs` | `PresenceInv` | a process serves only while `bootSafe + Margin` is within its lease, and a granted connection only while `safe + Margin` is within its route; requests in flight belong to callers that have had no reply | `ActiveIsReachable`, `OneBootPerInstance`, `KicksSpareTheOwner`, `ImplementsLife`; a drained Hub stays empty (`DrainedHubStaysEmpty`) |
| `CometHubProofs` | `HubInv` | a listed connection is open, and whoever closes one unlists it in the same step; an open connection of a living handler is listed | `ClosedOnce`, `NoOrphans`, `NothingBeforeGrant`, `ImplementsLife`; a drain deadline only falls (`DrainDeadlineFalls`) |
| `MessageStoreProofs` | `StoreInv` | the locks exclude, so a draft is newer than all that is committed in its conversation, what was read under a lock is still so, and a cursor points at a message; `PageIsGapless`: the first `Limit` rows leave no row out | `CursorComplete`, `Idempotent`, `RightsAtTheMoment`; the unique index never refuses (`IndexNeverRefuses`); of the open transactions one can always go on, two inserts into one gap aside (`RowLocksAreOrdered`) |
| | `SubmitInv` | a stored row never changes, so every task of a message is cut from the same recipients; a chunk that was acknowledged is in the topic, and a call answers only at its end | `TasksMatchStore`, `DispatchIsTrue`; a request is still stored once (`SubmitIsIdempotent`) |
| `JobConsumerProofs` | `ConsumerInv` | what a worker has read at each phase, that nothing unhandled lies behind it, and that one generation has one worker per partition | `CommittedIsHandled`, `CommitsAdvance`; the identity window is consistent (`WindowIsConsistent`) |
| `JobProcessorProofs` | `ProcessorInv` | a recipient that may have been enqueued is tried again only through the repair (`CopiesPaidFor`) | `ResultsAreTrue`, `AtMostTwoCopies`, `ImplementsCycle` |
| `ProcessesProofs` | `ProcessInv` | generations end in order, so what a late watcher writes is fenced by its number; what a process has open is a prefix of what it opens; topics only grow, and a letter leads back to the record it is about | `OwnershipFenced`, `NoReplacement`, `ClosedAfterUse`, `ReplaySafe` |
| `ChatServerProofs` | `ServerInv`, `HubInv` | where each call is and what it has seen to on the way (`OnCourse`, `ToolOnCourse`); an entry that is wrong was written late or has a call that will delete it (`Excused`); the table holds what the owner loop was told | `RowsAgree`, `StaleOnlyIfOvertaken`, `StatusDeclared`, `AssistantWithinRights`, `TableIsLive` |
| `ChatClientProofs` | `ClientInv` | the call of `sync()` that is the task pages from where the cursor still is (`TaskSound`); a receipt that says stored is true; conversations never opened have their cursor at 0 (`NoGap`); with `PendingIsTimed`, a bubble that waits has its timer | `CursorGapFree`, `SentIsShown`, `CursorForward` |

How the arguments go. Each step lemma treats one action, or one shape of action that
several share (`EndKeeps`, `AdvanceKeeps`: a transaction that ends, a statement that goes
on), and under it one conjunct at a time. `ChatServerProofs` looks at a step twice: as what
it does to requests, rows, cache and calls (`ServiceMove`) and as what it does to the table
of connections (`HubMove`); the `...Moves` lemmas say where an action takes its call, and
each part of the invariant is concluded from those, not from the actions. `ChatClientProofs`
follows the composition of the handlers: `Keeps` is what every method does to the client
(cursors stay, saved messages stay, no bubble is resolved), it is transitive, and only a
receipt (`Settles`) and a page (`PageMerged`) do more. That a pending bubble has its timer
is followed through the same compositions (`KeepsTimed`): most methods touch neither
(`Quiet`), and whoever stops a timer settles its bubble in the same handler. The page itself is gap-free because
the messages before a position are no fewer than those before an earlier one
(`PageHasNoGap`). The refinements are proved as usual: initial states map to initial states,
and a step to a step or a stutter, under the inductive invariant. `Presence` and `CometHub`
implement the same `SocketLife`, which is why the Hub of `Presence` may be as coarse as it is.

Assumptions, besides the types of the constants. Presence: `Skew <= Slack < Margin`, the
clocks and timers the margin of the code is there for. Capacities, limits and page sizes
are at least 1, as the code's constants are (`PoolLimit`, `ChunkSize`, `QueueSize`,
`PageSize`). There are users and run ids (`ReplayConstants`), `User` is finite where
recipients are counted or cut into chunks, and `Nil` and `Absent` are none of the values
they stand beside.

Only model-checked: all liveness (`SupersededCloses`, `ClosedFinishes`,
`DrainCompletes`, `CallsEnd`, `ReadersCatchUp`, `EveryRecordCommitted`,
`CallReturns`, `MessagesAppear`, `ServerStops`, `ProcessStops`), because the prover does
not reason about fairness and `ENABLED`. `FinishesCurrentTask` does not hold (section 3).

## 5. Not modelled

- Frames, JSON and protobuf, validation, configuration, logging, metrics: data and
  formatting. A record that does not decode is `Garbage`, a refused request an answer.
- JWT signing: Presence sees the expiry (`AuthOf`), ChatServices who holds a token.
- The React view, the list of contacts, verification codes, configuration, metrics, the
  local development tools, tables and generated gRPC code: no behaviour of their own, or
  one statement.
- In the legacy run a user who leaves a group and joins again is not mixed with the
  assistant: the session would be a new one.
- The Kafka events of the legacy server: after a failed fetch, handler or commit the
  consumer stops (`ConsumeGoesOn`); the restart of the process, and the second insertion of
  the event that was not committed, are possible and forbidden by nothing.
- Locks on more than the row a statement asks for: `lockDirect` finds the session of a pair
  by an OR of two keys, and the rows or gaps InnoDB locks on the way depend on its plan.
- A message the assistant sends to a group through the legacy tool is stored for the group
  but is neither in the group's cached list until it expires nor pushed to its members;
  `StaleOnlyIfOvertaken` leaves those messages aside.
- Two settings of the assistant at once may lose a grant (`ReplaceAccess`); the answer shows
  the setting as it is, and nothing in the code promises more.
- No outbox exists: a process that dies between the commit and the publish never pushes.
  The message is still found by `Sync`. The hazard list notes it.
- The identity window of the Job is bounded and belongs to one process: after an eviction
  or a restart a conflicting task is taken for new. The code sets no other standard.
- A Connect that is applied after its handler has gone names a dead connection in the
  route until the route expires or the user connects again; messages wait for `Sync`.

## 6. Plan

Done: all modules above, and a proof of every safety property of the runs. What remains
worth doing, in order:

1. Abstract specifications: route ownership (one connection of a user at a time is the one
   a lookup answers) and an at-least-once log; refinements from Presence and JobConsumer,
   proved like those of `SocketLife` and `DeliveryCycle`.
2. The safety half of the end-to-end statement: a message that was stored is in a task for
   every recipient, or its dispatch does not say so, and in the page of every reader that
   has not passed it.
3. What the liveness runs rest on, as theorems: for each of them the bound or the order
   that makes it terminate.
