# TLA+ models of rusty-dendrite

This directory holds TLA+ models of rusty-dendrite and the TLC configurations
that check them. The models cover:

* the command side (`src/src/axon_utils/command_worker.rs`);
* the example greeter API (`src/src/example_api/mod.rs`);
* the example query model (`src/src/example_event/mod.rs`).

`PROJECT.json` lists the components, the runs and the mutants. It also lists
the source lines each definition models, the findings and the hazards.

## 1. Inventory

### Components and their state

| Component | Code | State | Operations |
|---|---|---|---|
| Aggregate registry | `TheAggregateRegistry`, l. 78-113 | `handlers: HashMap<name, AggregateHandle>` | `insert` (silent overwrite), `get`, `register` (fills the command list and the command→aggregate map) |
| Aggregate definition | `AggregateDefinition<P>`, l. 115-157 | name, empty projection, id extractor, command and sourcing handler registries; immutable | `name`, `command_names`, `handle` |
| Handler registry | `handler_registry.rs` (not among the sources; spec §4.1) | `HashMap<type name, handler>` | `insert` (overwrites), `get`, `handle` (decode, then apply) |
| Command handling pipeline | `handle_command`, l. 159-214 | per invocation: payload, aggregate id, projection, outcome | id extraction, replay, dispatch, post-dispatch id extraction, persistence |
| Event-sourcing replayer | l. 174-188 | the running projection | fold of the history through the sourcing handlers |
| Event persistence | `store_events`, l. 385-419 | none locally; the remote event store | read the highest sequence number, build the events, append |
| Ingestion loop (task A) | `command_worker`, l. 233-292 | routing table, channel sender | read an inbound instruction, handle the command, send the result into the channel |
| Stream driver (task B) | `create_output_stream`, l. 294-383 | `permits` (i64), channel receiver | subscribe to every command, initial FlowControl(6), per result: CommandResponse, decrement, top-up FlowControl(3) when the balance is ≤ 3 |
| Example greeter API | `example_api/mod.rs` | none locally; a spawned task and a channel of 4 per `greetings` or `search` call | `greet`, `record`, `stop` (send a command for aggregate "xxx"), `greetings` (stream the stored greetings), `search` |
| Example query model | `example_event/mod.rs` | Elasticsearch index "greetings", tracking-token document | `apply_to` (index a greeting under its hash), `store_token`, `retrieve_token` |

### How they interact

At startup the registry builds the command list and the routing table
(`register`). Then `command_worker` opens one bidirectional gRPC stream with
the command service. Two tasks share a channel of capacity 10:

* Task A reads inbound instructions one at a time. For each Command it looks
  up the aggregate and runs `handle_command` to completion. That makes up to
  three calls to the event store: read the history, read the highest sequence
  number, and append. Task A then sends the result into the channel.
* Task B is the outbound generator. It sends a Subscribe per command name,
  then FlowControl(6). After that it turns each result into a
  CommandResponse and keeps a local permit balance.

The command service sends a command only for a subscribed name, and only
while it holds a permit. The event store is shared by every worker process.

The greeter API sends commands for aggregate "xxx" through the command
service, so they reach a command worker. Its `greetings` call reads the
events of "xxx" from the event store.

The query model reads the event stream through the event processor of
`axon_utils` (not among the sources). It indexes each greeting and then
stores the event's position as its tracking token. The greeter's `search`
sends a SearchQuery whose handler (not among the sources either) answers
from that index, so searches run while the index is being filled.

### What is hard

* **Interleaving.** Task A, task B and the service run concurrently. Several
  worker processes may handle commands of the same aggregate, and their
  event-store calls interleave.
* **Flow control.** The permit balance is updated when a response is
  emitted, not when a command arrives. Both starving the service and
  overrunning the window are possible failures.
* **Persistence.** The sequence number is read separately from the replay.
  Every event of a batch gets the same number. An append can commit and
  still report a failure.
* **Stream termination.** The stream can end normally (`Ok(None)`) or fail
  (`Err`). The output stream can end while task A still sends, and then
  `tx.send(..).unwrap()` panics.
* **Unspecified HashMap order.** `register` and `command_names` walk
  HashMaps. When a command name occurs in two aggregates, the one that wins
  depends on the iteration order.
* **Restarts.** The query model resumes from a token it stored separately
  from the index. Both writes only log failures.
* **Streams to clients.** The greetings task sends into a bounded channel
  that the client may stop reading.

## 2. Modules

| Module | Models | State ↔ code |
|---|---|---|
| `CommandWorker` | tasks A and B, the channel, the wire in both directions, and the command service as environment | `aPc/current` ↔ the loop of `command_worker`; `queue` ↔ the mpsc channel; `bPc/subIdx/permits` ↔ the generator; `outbox/inbox` ↔ the gRPC stream; `subscribed/granted/nSent/answered/stream` ↔ the service |
| `CommandService` | the abstract promise to the service: a window of unanswered commands, each answered once | `sent/answered/stream` |
| `CommandHandling` | `handle_command` + `store_events` by several workers against one event store | `pc[w]` ↔ the await points; `aggId/basis/nEvents/highest` ↔ locals; `log` ↔ the store's events of the aggregate |
| `HandlerRegistry` | `TheHandlerRegistry` as operators over a function from names to handlers (from spec §4.1) | `Insert`, `Get`, `Handle` |
| `Outcomes` | `emit_applicable_events_and_response` and `emit_applicable` as operators on records; `HandlerOutcomes` is every outcome a handler can build with them | used by `CommandHandling`'s `Decide` |
| `Replay` | the fold loop (l. 174-188) as a RECURSIVE operator, over a sourcing registry built with `HandlerRegistry` | `history` is the input being grown |
| `AggregateRegistry` | `insert`, `register`, `command_names`, the worker's two lookups | `handlers` ↔ the HashMap; `commands/mapping` ↔ the outputs of `register` |
| `QueryModel` | `apply_to`, `store_token`, `retrieve_token`; the event processor and crashes as environment | `index` ↔ the "greetings" index, as documents `[id, value]` with the message's hash as id (`IndexDoc` creates or replaces by id); `tokenDoc` ↔ the tracking-token document; `pc/pos` ↔ the processor |
| `GreeterApi` | `greet`, `record`, `stop`, `greetings` and its spawned task; the client as environment | `history` ↔ the events of "xxx"; `snapshot/tIdx` ↔ the task's loop; `chan` ↔ the channel of 4; `received/dropped` ↔ the client |
| `GreeterSearch` | `search`: `send_query`, the spawned task's two loops (objects, then greetings), the channel; the client as environment | `results` ↔ `query_response`; `rIdx/gIdx` ↔ the two loops; `sChan` ↔ the channel; `sReceived/sDropped` ↔ the client; `index` is read only |
| `ReadSide` | `QueryModel` and `GreeterSearch` composed: they share the index (the search reads the greetings of its documents, `Indexed`); each step is the processor's or the search's, leaving the other's variables unchanged | the union of both |

### Actions of `CommandWorker`

Task B:

* `Subscribe` and `InitialFlowControl`.
* `EmitResponse` is one whole loop iteration of the generator: the
  response, the decrement and the top-up.

Task A:

* `ReadCommand` reads the command and looks it up.
* `Handle` is `handle_command` running to completion. It carries no
  fairness, because an event-store call has no timeout (l. 267).
* `Push` is `tx.send().await`. It suspends while the channel is full. Once
  task B has stopped, the task panics (`unwrap`, l. 280).
* `ReadNone` is the `Ok(None)` branch, which changes nothing.
* `ReadError`.

The environment actions are `ServerSend`, `ServerReceive`, `ServerClose` and
`ServerFail`.

### Actions of `CommandHandling`

* `Receive` covers payload and id extraction up to the first await.
* `Replay` is the history read followed by the fold.
* `Decide` covers the handler, the post-dispatch extraction and the
  missing-id check. `FromResponse` is the condition of the post-dispatch
  extraction. The handler's outcome is
  `Ok(None)` or a member of `Outcomes!HandlerOutcomes`. The fields of
  `EmitApplicableEventsAndResponse` are private, so every outcome carries
  a response.
* `ReadHighest` and `AppendEvent` are the two awaits of `store_events`.

Every await can fail. With `AckMayBeLost`, an append can also commit while
its call reports an error.

### Refinement

`CommandWorker` is shown to implement `CommandService` through this
instance:

```
Service == INSTANCE CommandService WITH Ids <- 1..N, Window <- 2 * BatchSize, sent <- 1..nSent
```

The property `ImplementsCommandService` states it. Its safety part is
unconditional. Its liveness part (every sent command is answered unless the
transport fails) is conditioned on `HandlingCompletes`, the state predicate
`[]<>(aPc # "handle")`. TLC does not allow fairness formulas inside an
implication, so the condition is written as a state predicate.

## 3. Runs

| Run | Expect | Shows |
|---|---|---|
| `worker_flow_control` | pass | The worker answers each command at most once (`ResponseCorrelation`). The service is never starved of permits (`NoCreditStarvation`). The worker refines `CommandService` with a window of 6. Results already in the channel are answered even while an event-store call stalls (`ResultsDrainWhileHandlingStalls`). A transport error stops task A (`WorkerStopsOnTransportError`). |
| `worker_credit_vs_server` | violation | The local balance ≠ the permits the service holds once a command is in flight (spec §4.3 says they are equal). |
| `worker_stream_end` | violation | After the service ends the stream, the worker spins on `Ok(None)` forever (spec §5 says it exits). |
| `handling_outcomes` | pass | Two workers, a sequence-checking store whose append may commit while the call fails, outcomes of 0-2 events, and a failure possible at every await. A success reply always means exactly the command's events are stored (`SuccessMeansStored`). |
| `handling_seq_dup` | violation | One two-event outcome stores two events with the same sequence number (store without checks). |
| `handling_stale` | violation | Worker 1 replays, worker 2 appends, and worker 1's outcome is still accepted by a checking store. |
| `registry_routing` | pass | In every HashMap order, subscribed commands are routable. |
| `registry_last_wins` | violation | A command in two aggregates routes by HashMap order, not by the last registration (spec §3). |
| `replay_fold` | pass | The recursive fold equals a non-recursive reference on all 1885 histories of up to 3 events. The reference is `FoldLeft` over the payload events, with the first failing event deciding the error. The registry is built by inserts, and one type is registered twice. |
| `read_side` | pass | The query processor and a search run together. With up to 2 crashes and lost token writes, every greeting before the processor's position is indexed (`ProcessedGreetingsIndexed`). Re-applying greetings after a restart, or a message greeted twice, never leaves two documents for one message (`OneDocumentPerGreeting`); the mutant that lets Elasticsearch generate the id breaks it. Every greeting is eventually indexed (`EventuallyIndexed`). The search stream carries a prefix of the decodable objects' greetings in order (`SearchStreamIsPrefix`). A client that keeps reading gets all of them, because an object that does not decode is skipped, not fatal (`SearchDeliversAll`). |
| `query_index_loss` | violation | A failed index request is only logged, and the token moves past the event, so the greeting is never indexed. |
| `greeter_streams` | pass | The client reads a prefix of the snapshot's greetings followed by the end marker (`StreamIsPrefix`). A client that reads to the end has seen every greeting the command handler acknowledged before the call (`AcknowledgedGreetingsListed`); a greet answered with the default "Hello m!" reply comes from `Ok(None)`, stores nothing, and is excluded. The task ends even when the client drops the stream (`TaskTerminates`). |

Every property of a passing run has a mutant in `PROJECT.json`. A mutant is
a plausible fault in a mapped definition, defined in the module as a "Fault
variant". TLC finds the property violated when the mutant replaces the
definition.

### Bounds

* **`MCCommandWorker`:** N = 12 commands of 2 names, `BatchSize = 3` and
  `QueueCap = 10` as in the code. With 12 commands, the service can spend
  its 6 initial permits before any response, several top-ups occur, and a
  grant bug that lets the window grow past 6 becomes visible.
* **`MCCommandHandling`:** 2 workers, 2 commands each, up to 2 events per
  outcome. This is the smallest bound where a multi-event outcome and two
  interleaved commands of one aggregate both occur.
* **`MCAggregateRegistry`:** 4 definitions, 2 of them under the same name,
  and 3 commands shared between aggregates.
* **`MCReplay`:** 3 event types and histories of up to 3 events. One type
  has no sourcing handler. One is registered twice, and its second handler
  answers `None`.
* **`MCQueryModel`** (the index-loss run): 2 messages (plus a greeting
  without a message), 3 events and 2 crashes.
* **`MCReadSide`:** 2 messages, 2 events and 2 crashes for the processor.
  That is enough for a crash between the index write and the token write,
  and a second crash after a lost token write. There is one search,
  answered with up to 2 objects, so an undecodable object can come before
  a decodable one. The channel has capacity 1: with 2 messages, the code's
  4 never fills, and a full channel is the case to check. The product of
  the two processes is why the processor's history is 2 here, not 3: with
  3 events the run takes over 13 minutes.
* **`MCGreeterApi`:** 2 messages, 4 events and the channel capacity of 4
  from the code. With these bounds, a snapshot can hold more greetings than
  the channel holds, so the task blocks on a full channel.

### Fairness

Both tokio tasks run whenever they are ready, and the transport delivers
what was written. So the worker's actions and `ServerReceive` are weakly
fair.

Exceptions:

* `Handle` carries no fairness, because an event-store call can stall
  forever.
* The service's choices to send, close or fail are its own and carry no
  fairness.
* In `QueryModel`, the processor's three steps are weakly fair and crashes
  are not.
* In `GreeterApi` and `GreeterSearch`, the spawned task and the client's
  reading are weakly fair. Dropping the stream is the client's choice. In
  `ReadSide`, each fairness condition is on the composed step (the
  component's action with the other component's variables unchanged).

`CHECK_DEADLOCK FALSE` is set where the system really stops:

* the worker blocks on the inbound stream when nothing more comes, and
  returns after a transport error;
* the query processor waits for events beyond the bound;
* registration and the bounded pipeline, replay and greeter harnesses end.

### Assumptions about external services

* The command service delivers instructions in order, honours permits, and
  sends only subscribed names.
* The event store appends a batch atomically. In some configurations it
  rejects a batch whose numbers do not continue its highest.
* `ReadHighestSequenceNr` of an empty aggregate returns -1, so the first
  event is numbered 0.
* The event processor retrieves the token once at start, then for each
  later event applies the handler and stores that event's position.

## 4. Not modelled, and why

* **Stream re-establishment.** The caller of `command_worker` is not among
  the sources. Every call builds a fresh channel and a fresh permit count,
  so nothing carries over from one stream to the next.
* **The SearchQuery handler.** It is not among the sources. `GreeterSearch`
  assumes it answers with objects that list greetings of the index, in any
  order, or that do not decode.
* **`init`, `to_status` and `decode_error_to_status` of the greeter API.**
  They only build values.
* **`emit_events`, `emit_events_and_response` and `emit`.** They build
  `EmitEventsAndResponse` values. Under `src/`, such a value is only the
  stripped result of `handle_command` (l. 203-208), whose events are
  always empty. The builders a handler uses are modelled in `Outcomes`.
* **The worker composed with the pipeline.** `CommandWorker` abstracts
  `handle_command` to `Handle`: any result, or a stall.
  `CommandHandling` checks what that result means for the event store.
  Joining them would multiply the worker's 50,320 states by the pipeline's
  states. It would have to replace a run, since the project is at its 12
  runs. The only link between the two is the result's ok/error, which
  `SuccessMeansStored` already pins down on the pipeline side.
* **The event processor and the handler registry's code.** They are not
  among the sources. They appear as the environment of `QueryModel`, and as
  the spec-modelled `HandlerRegistry`.
* **Serialization, UUIDs, hashing, logging and timestamps.** They carry no
  control. A message's SHA-256 document id is the message itself.

## 5. Observations not checked by a run

* The spec's GreetCommand scenario (§ "Scenario") has no id extractor and
  still expects the event to be persisted under "xxx". In `handle_command`
  an identifier only ever comes from an extractor (l. 167-170, 189-195), so
  without one the command fails with "Missing aggregate identifier". The
  models take the example's extractor for GreetCommand to exist
  (`PreExtractable`).
* `greet` answers a command response without payload with the default
  "Hello m!" acknowledgement (`example_api/mod.rs` l. 39-43). Such a
  response comes only from a handler result `Ok(None)` (`command_worker.rs`
  l. 199-211, 344), which stores no event. The client is then greeted for a
  greeting that `greetings` never lists. `GreeterApi` allows this answer;
  `AcknowledgedGreetingsListed` is stated for handler replies only, since
  the spec asks nothing of the default reply.
* A command without a pre-dispatch identifier is decided on the empty
  projection and its events may land on an aggregate that already has
  history (l. 190-195). Spec §4.4 step 7 permits this, so no property
  calls it wrong.

## 6. Limits of the bounds

Three commands per worker in `CommandHandling` did not finish within 10
minutes. Three events for the query processor next to a search took 13
minutes. The bounds in section 3 are the largest that finish within 5
minutes while every case named there still occurs.
