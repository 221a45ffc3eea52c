# A TLA+ model of optorch

optorch runs conversations with language models as turns through nodes. Its
process is one asyncio event loop (and a few watcher threads) in which turns,
background loops and callbacks share instances: node objects, one storage
manager with one circuit breaker, the signing keys, session dictionaries, a pool
of clients, one adapter per tool server, one configuration. What
is hard in this code is what happens between two awaits of different tasks, and
that is what the modules here describe. In all of them a step is what runs from
one await (or yield) to the next.

Paths below are relative to `src/`; `README.md` with a line number is the
repository's own.

## 1. Inventory

| Part | State it keeps | Operations | What is hard | What makes it correct | Module |
|---|---|---|---|---|---|
| Node dispatch: `controller/node_controller.py`, `nodes/base_node.py`, `retry/`, `routing/`, `lifecycle/` | one instance per node with `_state` and `_node_context`; the turn's state; names in the NodeContext | `dispatch`, `call`, `goto`, retries, failure handlers, routing | turns overlap in a shared instance; nested calls; retries after errors of others; recursion | a turn finds its own state and context; names are saved and restored; retries are earned; turns end | `NodeDispatch` |
| LLM lifecycle: `llm/lifecycle/`, `llm/processors/`, `llm/manager.py`, `history/processors/` | LLMContext, which nodes hand on; pending tasks; the history | hooks and processors in order, tool loop, suggestions | a failed invocation leaves its messages and reply on the context; a cached reply ends an invocation early; tasks cut off after 10 s | a reply returned is the invocation's own and is stored once, or is a cached one; no task outlives it | `LLMExchange` |
| Streamed LLM response: `llm/responses/streaming_response.py`, `llm/processors/streaming_tool_executor.py` | buffers of text, tool calls, usage; accumulators; where the generators are suspended | pull, tool rounds, flush, deferred FINALIZE, aclose, collection | the caller may stop, be cancelled or be collected at any yield; FINALIZE runs in a `finally` | no text lost or doubled; tools once; FINALIZE once; the end means it was saved, if FINALIZE did not fail | `StreamingResponse` |
| Sessions, history, stored conversations: `session/`, `history/`, `state/helpers/persistence.py`, `storage/listeners/`, `storage/queries/save_*` | one dictionary per session; a cached history; three tables | get, change and set by history and state bag; fill and invalidate the cache; file a turn; restore | read-modify-write across awaits by several actors; a stale fill; a filing task cut by the end of the process; an event left out | what one turn saved another does not undo; turns see finished turns; none is left out of the tables but where the code says so | `SessionHistory` |
| LLM pool: `llm/llm_pool.py`, `llm/pool/`, `llm/base_client.py` | a semaphore and `active_requests` per client | select, invoke, stream, batch in three modes | cancelled while waiting for a slot or just handed one; `gather` raises and leaves the others running | limits hold; slots come back; batches whole | `LLMPool` |
| MCP connection: `mcp/adapters/sse_adapter.py` | session, task, connected flag of one server | connect, call, list, close, clean up | all callers share the fields; a cleanup awaits and then clears what is by then another's; callers cancelled while they connect; late answers | no call on a dead session; no connection left behind; a call runs once; calls end | `MCPConnection` |
| Configuration: `config/manager.py`, `config/reload/`, `config/notifiers/`, `transport/providers/` | cache, typed models, timestamps, overrides; the YAML file; queues | get, set, save events, reload, watch | reload on a watcher thread while others read; a write between a read and its time stamp | a stale server will notice; models follow the cache | `ConfigSync` |
| Events and licensing: `events/`, `identity/licensing/` | listeners, a health breaker per backend; usage counters | emit, deliver, check a quota, count, reset | counted by tasks nobody awaits, after the fact; a breaker used by two threads | a quota is overrun only by what was not counted; the backend is closed only when it is ill | `UsageMetering` |
| Storage resilience: `storage/resilience/strategies/`, `storage/manager.py` | breaker state and counters, per-operation retry loop | admit, reject, count outcome, sleep, cancel | calls admitted in one state complete in another; retries on refusals | opens and closes exactly when promised; callers are told what happened; recovery | `BreakerContract`, `CircuitBreaker`, `StoragePipeline` |
| Storage startup: `storage/manager.py`, `storage/migrations.py`, `storage/initializer.py` | `_initialized`, `_init_lock`, `_migrations_disabled`, `config.migrations_*`, `schema_migrations` | lazy initialization, core/namespace/manual migrations, disabling them | flags and config saved and restored around awaits; errors and crashes between executing and recording | scripts in order, recorded if executed, not repeated; nobody hangs | `StorageStartup` |
| JWT key rotation: `identity/authentication/key_rotation.py` | `_keys_cache`, the row of `jwt_keys`, the loop | sign, verify, load, rotate, save, loop, stop | check-await-overwrite of the cache; failing loads and saves; DELETE and INSERT | a token verifies for the grace period; cache and row agree; due keys rotate | `KeyRotation` |
| Everything else | | | | | section 6 |

How they interact: `Orchestrator.run` (`estrator.py`) hydrates the state from
the session and dispatches the entry node (`NodeDispatch`). `dispatch` runs the node's
lifecycle, whose PRE_DISPATCH makes an LLMContext that holds the NodeContext. The
node calls the LLM manager, which runs the hooks (`LLMExchange`); for a stream these stop
at POST_INVOKE and the response object resumes them when it is read
(`StreamingResponse`), possibly
after `dispatch` has returned. The client that is invoked may be a pool's (`LLMPool`), the
tools an MCP server's (`MCPConnection`). The history is read from and written
to the session, and an event makes the conversation listener file the turn
(`SessionHistory`); the same event path counts usage (`UsageMetering`). Every storage
query goes through `_ensure_initialized` (`StorageStartup`) and then through the
resilience pipeline (`StoragePipeline`); the signing keys are read and written by such
queries. The configuration's watcher thread (`ConfigSync`) emits through the
breaker of `UsageMetering`.

`PROJECT.json` lists every part with its status, and the hazards by line.

## 2. Modules

### Storage resilience: `BreakerContract`, `CircuitBreaker`, `StoragePipeline`

`CircuitBreaker` is `circuit_breaker.py`: `Admit`/`Reject` are `execute` up to
its await, `Succeed`/`Fail` what it does when the call is over, under whatever
state the breaker has by then; `Cancel` is a caller's task cancelled in the
await, which neither counter sees. `store` is the database, which may break and
heal at any time. `BreakerContract` says the same without counters: a closed
breaker opens exactly when `failure_threshold` completions in a row were
failures, only a quiet time of `recovery_timeout` admits a probe, and at least
`success_threshold` successes in a row close it. `ContractSpec` instantiates it
with the runs of outcomes that `CircuitBreaker` keeps as history.

`StoragePipeline` composes the breaker with `RetryStrategy.execute`, one loop
per caller, in the default order (retry outside). A step is a step of the
breaker together with what the loop does with its outcome, because there is no
await between them. Jitter and the strategy registry are left out; so is any
other order of strategies. An open breaker's refusal is retried like any error,
although README.md:1420 has it fail "immediately".

### Startup: `StorageStartup`

`Queries`, `Startups` and `Manuals` are tasks in a query, in
`initialize_async`, and in `run_namespace_migrations`. `pc` is the await a task is in,
`phase` whose call of `run_migrations`, `plan`/`todo` the runner's path and
pending files, `saved` the values a task will put back. A database error ends
the call where the code lets it; a crash clears all that is not the database.
A startup that meets a query already migrating returns and disables the
namespaces (README.md:1437 has migrations run "automatically on startup"); two
overlapping runs execute a script twice (`storage/manager.py:79`: "store tracks dedup"),
which `ExecutionsBounded` allows for. `todo` and `left` are sets of places in the
directory's listing and in the registrations, since the runner goes through both in order.
The table keeps file names without their directory, so two namespaces with a script of the same
name share one entry: the second is taken for done.

### Signing keys: `KeyRotation`

The cache, the table, and tasks that await one of the queries. `WithKeys`,
`Rotate` and `Finds` are the methods; SQLite's save is a DELETE and an INSERT
in two steps. Time is in days; a key dictionary is its current key and the set of
archived ones. `blame` is a history variable: which of the three things that lose
keys have happened. One of them needs no failure: two first uses at once, after
which the first key is in neither place. The model is of one process; with several
on one database each would keep to the keys in its own cache.

### Dispatch: `NodeDispatch`

`stack[t]` holds the open `dispatch` calls of a turn, innermost first.
`Dispatch` is everything up to the first await of `execute`, `Complete` what
follows it: clearing or keeping the error, restoring the name, resolving the
next node and dispatching it in the same step. `Call` is `self.call` and
`self.goto`; it uses the context the *instance* holds, as the code does.
`BackOff`/`Retry` are the loop of `RetryHandler`; a retry makes its LLMContext
from the instance again. `Raise` is an exception or a cancellation anywhere.
`RouteResolver` is a set of possible answers per node, since what it looks at is
the user's state. `shared` and `lent` are history: turns that another turn
joined in a node, and turns whose context another turn was handed. After a node
that fails with "fail" the next node still runs, with the error in its state
(README.md:1853: the branch ends). Left out:
phases, states that streaming nodes make, the state's `current_node` (which is not
put back after a call), unregistered nodes.

### LLM lifecycle: `LLMExchange`

One invocation after another on contexts that a node may hand on. `Pipeline` is
the order of the processors, `at` where the invocation is in it, and each
processor's action is its `process` up to its await or its end: `Stage` is the step the
executor takes next. `messages`, `response` and `substate` are the fields of the
LLMContext that outlive an exception; `stored` is the history with, for each
exchange, whose question and whose reply it has. `task` is the suggestions'
background task, which the executor waits for and cancels. Opt-in processors
are registered or not, tools are passed in the ways a caller can. `ProviderFallback`
is registered but never finds the error it looks for, because an
invocation that fails raises past it (README.md:475). Prompt
registration, cost and usage are steps without effect on the others.

`cached` is what `ResponseCachePersistence` has put under `key`, and what invocations of other
sessions may have put there (`Another`). A hit of `ResponseCache` sets `skip` (`skip_remaining`),
with which the executor leaves after that hook: the reply is returned and nothing of the invocation
is stored. `populate` does not reset the field, so on a context that is handed on no hook of the next
invocation runs, and it returns the cached reply again. A reply may have no text, as one that only asks
for tools has none: `HistoryPersistence` then stores the question alone, and `text` says so in `stored`.
The suggestions are made only from a history of two messages or more.
`EvaluationCapture` is left out: it records what it sees and changes nothing the others read.

### Streamed response: `StreamingResponse`

A nest of generators: `_transform_stream` around `deferred_stream` around the
tool loop around the provider's stream. `at` is where `deferred_stream` is
suspended, `cur`/`idx`/`handled`/`acc` are the locals of the wrapper, `caller` is
who drives it: it pulls, leaves, is cancelled, calls aclose, or drops the object so
that the garbage collector closes it. A chunk is named by its provider stream
and number. `saved` records what FINALIZE found when it ran, which is before the
accumulators are flushed to the caller (README.md:502 has it "after the caller has
finished iterating"). A processor that raises in FINALIZE is logged and the end is seen all the same
(`fin` is then "failed"): such an end promises nothing. A provider reports usage once in a stream or
never, and `reported` is what it did report; a stream that ends without is not billed. More than one transformer is left out: the wrapper gives each piece
to one of them, not to each in sequence as README.md:790 has it, and a chunk held by one may
also go out through another. Also left out: the
budget, the capability queue (not reachable from the lifecycle), and
what is in the text.

### Sessions: `SessionHistory`

One session with the three copies made of it. `session` is the backend's
dictionary as a set of items: the message pair of a turn, the key a turn
persists. `Turn` is a turn from `Hydrate` to the end of its history
save, with the reads (`copying`, what it holds between `get_data` and `set_data`) and writes as separate
steps; `cache` is the history cache with `Fill`, `Invalidate` and expiry; `filing` is
the listener's task (`Files` to `InsertContext`), which reads the state bag, upserts the row, reads its count back and
inserts, question and reply in a statement each, so that a task cut in between leaves the first. A turn in `Silent` has a reply
without text, which is neither saved nor filed. `skipping` is the health breaker of the events' backend, opened by other events
of the process: while it is open `notify` leaves an event out with a warning, the listener's task is not
started (`filing` is "skipped"), and nothing files the turn later. The restore looks whether the session is empty, reads
the tables, and writes. A copy read before the session expired may bring old messages back
when it is written (`Revived`). The histories `exposed`, `raced`, `rushed` name the
overlaps under which the code loses or misplaces something; the properties say that there
are no others.

### LLM pool: `LLMPool`

`line[k]` is who has the slot of client k and who waits for it, `ahead[r]` those in the
line before r, so that the slot is its `First`'s; `active` is
`active_requests`, which the pool and the client both count (so a pooled request counts
twice). `doing` is a caller with its operation (one request, a batch in one of the three
modes, a raw call, the client by its own name), `req` its requests. A task cancelled
while waiting, or after it was handed the slot, unwinds as asyncio.Semaphore does.
`gather` has `return_exceptions=False`: it is over with the first message that fails or ends cancelled
(`Broken`). A cancelled caller may therefore be gone while other messages of its wave, cancelled too, still hold a
slot and count as load until their own CancelledError has gone through (`LeftRunning`).
The model shows what is not bounded: the slot is given back when a stream *object* is
returned, and raw calls take one client to build and another to send.
`fallback: true` of the configuration has no code.

### MCP: `MCPConnection`

`session` and `task` are the adapter's fields (`_connected` goes with `_session`),
`conn` the connection tasks, `at` the callers' place in `connect`, `call`, `list` or
`close`. `Begin`, `Cleaned`, `Poll`, `PollTimeout`, `NextAttempt`, `Answer`, `Breaks`
are the code from one await to the next; `Proceed` is what `_cleanup_connection` does after its
await, to fields that may be another caller's by then. The server
refuses, drops the stream, runs a request and is late with the answer. A request ends by a closed session, a
timeout, an HTTP timeout or any other exception (`how` in `Breaks`); the last has neither cleanup nor reconnect: a call
raises it, a list is empty. On a link that is already lost a closed session or a timeout is what follows, anything else is a
fault of its own. `ConnectAgain` is `connect` over a session that is there, which takes the name `_connection_task` from the
connection that holds it. `Cancel` is a caller's task cancelled: in `calling` and `backoff` it is gone, in `polling` (inside
`connect`) it leaves the connection it made to itself. `astray` is the history of what may orphan a connection: two callers
connecting at a time, `ConnectAgain`, a caller cancelled while polling. `solo`, `runs` and `late` follow a call that nobody
disturbs.
What one can read off it: such callers orphan
connections that nobody closes; the `finally` of any connection clears everybody's session; the
connection made at startup is dropped as idle at its first use; a tool runs twice
when its answer is late; `list` gives up with an empty list after a timeout; a cleanup
swallows the cancellation of its own caller; `close` does not keep a caller in flight
from connecting again. The keepalive, reconnect and authentication settings are read by no code.

### Configuration: `ConfigSync`

Servers that share the YAML file of one namespace. `configs[s]` is a server's cache, `overrides`
and `merged` what is built on it, `noted` whether its time is older than the
file's; `queue`/`batch` the transport; `loop` the handling of a save event
and `watcher` the thread that clears and discovers. `GetTyped` merges and validates a model into `built`, `StoreTyped` keeps
it; the watcher may clear, and fill again, in between. Values are change numbers, times
are reduced to whether the file was written since. `crossed` and `mixed` are
history: a write fell between a server's read and its stamp; the watcher was reloading, or began to, while
a model was merged and validated. Facts the model contains that surprise: an event reaches one server, the
others learn of it from the file (`config/manager.py:429` has every server
handle it); a save rewrites the whole namespace from the server's cache; the
Redis and Kafka listeners die with the first callback that raises; the TTL
strategy notes its check only after a reload.

### Events and usage: `UsageMetering`

A node execution is validated (`Validate`, `ReadsUsage`, `Decide`), runs, and emits
node.complete, which passes the backend (`Emits`, with its breaker in `health`) and two tasks,
`OnEvent` and `Track`, before the tracker adds to the counter. In memory, check
and count have no await in them; in the table they are queries that may fail. `Forgotten` is what an
administrator's reset or a restart takes out of the counter. The watcher thread emits without
a loop, so there a listener that raises is an error for the breaker; `+=` is split into its read and
its write. `Trips` is the second thread resetting the breaker between the two reads of
`_open_until` in `is_healthy`, which raises out of `emit`. The code lets one more in
than the limit by itself (`<=` on a count that leaves the request out). Not in the
model, but worth knowing: listeners count by the window "monthly", while the comment in
`licensing/models.py` writes units as "tokens/month", which no counter is kept under; a
turn counts once per node it passes; `llm.complete` is emitted by two processors for each call; the Redis
tracker is constructed with an argument it does not take.

## 3. Runs

| Run | Shows | Bounds |
|---|---|---|
| `storage_pipeline` | the pipeline implements the breaker's contract; attempts are accounted for; operations end, and succeed again after the database heals | 2 callers, thresholds 2, 3 attempts |
| `stream` | no chunk lost, doubled or reordered within a stream; tool calls once; FINALIZE at most once and never for an unread stream; at the end text and reported usage are saved unless a hook of FINALIZE failed; every pull returns | up to 3 provider streams of 2 chunks, no transformer or one of each kind |
| `startup` | scripts executed in order and recorded only when executed; repeated only as often as an error or crash lost the knowledge; core tables there; nobody left waiting | a query, a startup, a manual run, 2 faults |
| `key_rotation` | keys that tokens depend on are lost only for one of three named reasons; without them cache and row agree; due keys rotate without a signer | a signer, a verifier, the loop, 3 keys, 4 days, 1 fault |
| `node_dispatch` | turns are isolated unless joined in a node; names are the innermost node's; retries are earned; turns end | 2 turns, 3 nodes, up to 3 attempts |
| `session_history` | what a turn saved is undone only by somebody who held a copy meanwhile; a turn sees the finished ones; stored turns keep their order; every turn is filed unless its task failed or its event met an open breaker | 3 turns, 2 tasks at a time, 1 key, 1 reply without text, a restore, 1 fault |
| `llm_exchange` | a returned reply is the invocation's own and stored once, or a cached one and nothing is stored, after failures on the same context too; no task outlives it; suggestions follow what they are about; invocations end | 2 invocations, every set of the opt-ins modelled, tools passed in 3 ways |
| `llm_tools` | *violation*: see below | the same |
| `llm_pool` | one request per client, load counted right; batches whole; only the other messages of a failed or cancelled wave outlive their caller, the latter on their way out; everything ends | 2 clients, 3 strategies, 2 callers, batches of 3, 2 faults |
| `mcp_connection` | sessions are live; connections are left behind only by callers that connect at a time, over a session, or are cancelled in it; an undisturbed call is answered and run once, or twice if its first answer was late; operations end | 2 callers, 2 operations and 2 later ones alone, 2 attempts, 6 connections, 1 fault |
| `config_sync` | a server that is behind will look again; models are those of the cache: each but for a named overlap | 2 servers, 1 key, 3 transports, an event, an edit, a fault |
| `usage_metering` | a quota is overrun by more than one only when somebody's work was not in the counter; the backend is closed only after its threshold of errors | 3 requests, limit 1, threshold 2, 3 watcher events, 2 months, 1 fault |

`llm_tools` ends in a violation of what README.md:512 says of `ToolExecutor`, that it
"executes tool calls and re-invokes LLM until no more tools": the executor looks for tools in `context.config["tools"]`, the
nodes pass them to `invoke`, which keeps them elsewhere, and a reply whose tool calls nobody answered
is returned.

Properties of the form "only when", with a history variable that names the overlap, say two things:
with the overlap the code does lose something (drop the exception and TLC
shows how), and nothing else does.

### Bounds, and why they are enough

* *Pipeline*: two callers are enough for one to complete under a state another
  made; thresholds of 2 are the least for which counting matters;
  `MaxCount` 3 lets counters pass the threshold before they stop;
  three attempts, sleeps capped at 3 ticks against a recovery time of 2, so that
  a sleep may be shorter, equal or longer.
* *Stream*: three provider streams have a first (kept back), a middle and a last;
  two chunks give order.
* *Startup*: each kind of task once is enough for each pair to overlap; two core scripts and
  one namespace show order and the path parameter; two faults give an error
  during the recovery from another.
* *Keys*: rotation after 2 days and a grace period of 1 in a span of 3 lets a key
  be made, rotated and forgotten; three keys; one fault, as each alone loses keys.
* *Dispatch*: two turns that meet in `help` and in `work`, one caller with a callee
  that is also a next node and a fallback; attempts 2 and 3; one call per
  execution. The configuration has no cycle, which `TurnsEnd` needs: with one, the code
  recurses until RecursionError.
* *Sessions*: three turns, of which two overlap and a third comes before, after or between them; one
  of them persists a key, so that both kinds of writer meet, and has a reply without text; a fault during any of it.
* *Exchange*: the second invocation is the one that finds what the first left, in the context and in the cache; entries of
  other sessions may be there from the start.
* *Pool*: a batch of three has a wave with a rest; two callers are enough for one to
  hold and one to wait, the second batch message makes the line longer; weights 1 and 2 repeat a client.
* *MCP*: two operations of two callers, each with a retry, reach each pair of places; the two that follow, each begun when
  nobody is there, meet what those left: an orphan, a lost link, an idle session, fields that disagree. Six names
  are enough for the connections alive at a time. Four operations at any time would add pairs of the same places.
* *Configuration*: two servers, since an event reaches one and the other has to notice the file.
* *Usage*: three requests are one more than limit 1 and its own excess of one; two ticks a month
  for a window that ends between check and count; three events for an error, a decay and an error.

`CHECK_DEADLOCK FALSE` stands where the modelled tasks are finite and finish:
a stream that is closed, a startup that is over, turns, invocations, operations and requests that are done, and a
bounded calendar. The pipeline's callers start again for ever, so there
deadlock is checked. Symmetry is used only in `config_sync` and
`usage_metering`, which check no liveness, with which it is not sound.

### Fairness

* *Pipeline*: the clock runs; a sleeper wakes; the database answers or raises;
  strong fairness says a caller is not cancelled each time its call would have
  succeeded. The event loop is fair to ready tasks; the last is an assumption on
  callers, needed only for recovery.
* *Stream*: the provider and the generators go on while somebody pulls. Nobody is
  obliged to pull; so no property says that FINALIZE runs in the end, and it does not
  for a stream nobody closes.
* *Startup, keys, dispatch*: a query or an `execute` in progress ends, well or
  not (drivers and clients have timeouts), and the rotation loop's timer fires. No fairness is
  assumed of anything a user starts.
* *Exchange*: the stage an invocation is in ends: the provider answers or fails, and the wait
  for pending tasks has a timeout. The background task gets no fairness.
* *Pool, MCP*: one weak fairness on the loop as a whole: something that is ready runs. That is enough because each
  operation has finitely many steps, and weaker than fairness to each task.

## 4. Proofs

TLC checks the instances above; the theorems hold for every value of the
constants that meets the ASSUME of the module.

* `StorageProofs`, the breaker: `IInv` is the type invariant, `CountersAgree` (CLOSED
  if and only if fewer failures than the threshold are counted; half-open
  means the successes counted are fewer than needed; not closed means there is a
  time to recover from) and `RunsCounted`, which relates the
  counters to the runs of outcomes: needed because the contract counts completions in
  a row, and the code what was counted in each state. From it: `TypeCorrect`,
  `CountersAlwaysAgree`, and `Refinement`, that
  each step is a step of the contract or a stutter. The pipeline: each of its steps is a step of
  the breaker (`PipelineIsBreaker`), so all this holds inside it; `PipelineTypes` and
  `PipelineOutcomes`. `RetriesAreBounded` bounds the steps an operation has left (two for each attempt) and the
  length of a sleep, which is the longer of `MaxDelay` and `InitialDelay`, because the code does not cap the first;
  `OperationsGoForward` says that every step uses one of them up, shortens every sleep, or is no operation's.
* `StorageProofs`, the startup: `StartupTypes`, `RecordIsTrue`, `OnceEach` and `CoreInPlace`, for any tasks,
  namespaces, directories and faults. `LockHeld` says who is in the critical section and what it finds there;
  `RunsSound` that a runner's files are those its directory has and the table lacks. `OnceEach` needs more than
  a bound on what was executed, since a task that has not begun may still execute: `Budget` adds to the
  executions of a script one if somebody under the lock may still execute it (this life's or
  the next one's) and one if a manual run may, and this sum stays within the bound. A script leaves one chance when it is
  executed, and gets it back only when an error or a crash loses that it was.
  `CoreFirst` is for `CoreInPlace`: without a fault or a manual run, whoever connects finds the migrations enabled.
  `LockComesFree`: the holder of `_init_lock` is at an await of its own, never at the lock, and where it executes or records
  it has a first file to go on with (`HasFiles`; every non-empty set of files has a least one, by well-foundedness).
* `StreamingResponseProofs`: `TypeCorrect`, `ToolsOnce`, `EndSaved`, `FinalizesOnce`. The
  invariant says by the place `at` where the generator is suspended how FINALIZE stands
  (`Stage`), that the tools executed are those of the rounds before (`Executed`), that the usage kept is what
  the providers reported (`Billed`), and that all that was passed on before FINALIZE
  is in the text it will save. `TextAccounted` is `ChunksAccounted`
  when a pipeline has at most one transformer, as many as the models in the runs have: `Whole` is what the caller has,
  then what the accumulator holds, the chunk on its way, and what is kept back. Every step of the wrapper leaves `Whole` as it
  is, and a chunk from the provider is put in the place where the order of its stream wants it; so
  `Kept`: it is in order, and has the chunks of `content`, each once. With two transformers this is false, since a chunk may
  overtake one that another transformer holds; that case is not modelled (above), and the hypothesis says so.
  With any list of transformers: `NoChunkLeftOver` (`Reached`: a chunk past the first accumulator was handled, or the
  last one it passed is not empty; so the last branch of `_transform_stream` is never taken), `PullsNotStuck`, that whoever pulls waits for a party that can move,
  and `StreamGoesForward`, a rank over rounds, text, transformers and places that every step but the caller's own moves on.
* `KeyRotationProofs`: `TypeCorrect`, `KeysSurvive` (`LossExplained`) and
  `KeysStored` (`UsedIsStored`). The invariant has two parts. `Sound` holds
  always: keys in the cache, in the table, read or about to be saved have been made,
  a save is of a key made today, and a key is handed out only before it is due. `Clean`
  holds while `blame` is empty: one save at a time, of what is cached, over older
  rows; at most one row; a load that will fill an empty cache has read what is stored;
  and every live key is in what a call would find. Day arithmetic enters
  in one lemma: a live key is not expired, since it was signed with for less than
  `RotationDays` and dropped after `RotationDays + GraceDays`.
* `NodeProofs`, the dispatch: `TypeCorrect`, `TurnsAreIsolated`, `NamesFollow`,
  `RetriesAreEarned`. `Isolated` is not inductive: a return to a caller uses the
  frames below, so `StackOK` says of *every* frame what `Isolated` says of its
  instance, that the `prev` of a frame is the node of the frame below or the
  entry, and that while the state holds an error the frame has failed or is on a first
  attempt that found it; `Fresh` says what turns that
  have not started are. The stack may be of any depth. `TurnsGoDown` assumes a `Rank` of nodes that whatever a node leads to
  lowers (`NoCycle`; the configuration of the run has one, 2, 1, 0): `Within` bounds the depth by the
  entry's rank, and `Lowered` compares stacks from the outermost dispatch, each by rank, attempt and `Moment`. A return is
  then a descent too, since the caller goes from its call to what is after it. Without a rank
  there is still `TurnsNotStuck`.
* `NodeProofs`, what the nodes are charged: `OverrunExplained` and `OutageEarned`, for any number of requests, months, limit,
  threshold and faults. That at most `Limit + 1` requests used a month unless one was let in while another was not
  counted is not inductive, because a request that uses the month may fail and make room; `LateHeld` says
  it of every set of requests that used the month, and `CountsHeld` that the counter is at least the
  number counted in it, as is the number a request has read. For the breaker, `ErrorsHeld`: each writer
  has read no more failures than were counted.
* `SessionHistoryProofs`: `TypeCorrect`, `LossesExplained`, `HistoryGiven`, `NumbersApart` and `DoneFiled`, for any number
  of turns, tasks and faults. `CopiesCurrent`: what a writer holds is the session, less what is `exposed`
  since it was read. `CacheCurrent`: a cached history has the finished messages, one about to be cached has all that were
  saved, but for what was exposed or raced. To prove this it had to be said that a turn may write back messages of a session that has
  expired in between (`Revived`): these are then in the session and not in the cache. `FilingFollows` ties the filing task to its turn, and says which of question and reply is in the
  table at each of its statements (so a finished task has filed all there is, and one that was left out or failed is the only other end); `CountsGrow` and
  `DueApart` compare the numbers turns have or are about to read.
* `LLMProofs`, the lifecycle: `TypeCorrect`, `RepliesAreStored`, `TasksAreOver`,
  `SuggestionsInOrder`, for any number of invocations. The invariant says what is on the context and in the history at
  each place of `Pipeline`: whose the response is, which exchanges of this invocation are
  stored, and that no later one is. `Skipped` is about the cache: until its hook is over neither the response nor any entry is this
  invocation's, so that what a hit returns is never mistaken for a reply that should have been stored. The pipeline's indices are unfolded, so the
  order of the processors is what the proof rests on.
* `LLMProofs`, the pool: `LoadIsCounted`, `BatchesAccounted` and `RunningExplained`, for any number of clients, tasks,
  messages and faults, and any wheel. `Pooled` is about clients: `LinesHold` says that a line has the requests that wait or
  call through the pool, any two of them ordered, and that one in its call has nobody before it, from which there is at most one;
  `LoadHolds` that the load of a client is the weight of the calls it is in, set by set, so that
  a request that begins or ends moves one element and as much load. `Batch` is about
  callers: which messages are not begun, which are answered (those of earlier waves), and when one may still run: after a failure, or
  on its way out when the caller was cancelled (`dying`). They
  meet in one place: a request may enter a line only if it is in none, which is so because its message
  has not begun. `LeastBusyExists` shows that `least_busy` has a client to choose, and needs loads that are not negative.
  `PoolNobodyStuck`: of the requests in a line, one that nobody is before can move, and since `ahead` orders a line
  and a line is finite there is one (`Ordered`, `Queues`); a caller waits only for such a request or for its own gather (`Going`).
  `PoolGoesForward`: every step takes a request or a caller to a place of higher rank, and nothing back.
* `ConfigSyncProofs`: `TypeCorrect`, `StaleNoticed`, `ModelsCurrent`, for any number of servers, keys, events and
  faults. Between a read and its stamp `StaleIsNoticed` does not hold; the invariant says instead what the server has in hand:
  the file's content, or a crossing to remember.
* `MCPConnectionProofs`: `TypeCorrect`, `SessionsLive`, `OrphansExplained`, for any number of
  callers, connections and retries. `Waits` says that a caller who waits for a
  cancelled connection waits for one that is ending; `Alone` that while nobody went `astray` at most one caller is
  connecting; `Linked`, of the same states, that every live connection is the one the field names
  and every dying one has its caller waiting. `UndisturbedAnswered` (`SoloSucceeds`) follows one call through cleanup, connection and
  retry: `SoloGoes` says what has happened at each place if nobody disturbed it, and how often the server may have run it by then
  (`Before`: once more if the first answer was late); `DyingWaited`, whether or not anybody went astray, that
  whoever cancelled a connection waits for its end. `CallersNotStuck` holds while a name is free for a new connection
  (the instance has finitely many; the code makes as many as it likes); `CallersGoForward` ranks a caller by its second
  try, the attempts left and its place, and a connection by its life.

Every invariant that a run checks is a theorem, and so are the refinement of the breaker's contract and `FinalizedOnce`. Only
model-checked: the liveness properties (`OperationsEnd`, `HealedOperationsSucceed`, `EveryPullReturns`, `CallsEnd`,
`DueIsRotated`, `TurnsEnd`, `InvocationEnds`, `EverythingEnds`), which rest on fairness and ENABLED, out
of the prover's reach; and
`ChunksAccounted` for pipelines of two transformers, where the model has none. Of six of them a safety half is proved
for every value of the constants: that nobody waits for something that cannot happen (`LockComesFree` for `CallsEnd` of the
startup, `CallersNotStuck` for that of MCP, `PullsNotStuck` for `EveryPullReturns`,
`TurnsNotStuck` for `TurnsEnd`, `PoolNobodyStuck` for `EverythingEnds`), and that
steps go one way, by a bounded or well-founded rank (`CallersGoForward`, `StreamGoesForward`, `TurnsGoDown`,
`PoolGoesForward`, and `OperationsGoForward` for `OperationsEnd`). These state the guards of the steps
in place of ENABLED. What is left to the runs is that the steps are taken. No module uses a RECURSIVE
operator. Each result is about the model, whose steps the mapping in
`PROJECT.json` ties to lines of code.

## 5. What is left

In the order in which it would pay:

1. More refinements: an abstract conversation that `SessionHistory` implements, and an abstract key ring that
   `KeyRotation` implements, as long as none of the named overlaps occurs; the invariants they need are proved.
2. A streamed turn: `NodeDispatch` with a response that is read after `dispatch` has put the names
   back, for the node name FINALIZE saves under (it is the entry node's).
3. Several processes on one database, for the signing keys and for `schema_migrations`.
4. Deletion of a conversation while a turn of it is being filed.

## 6. Not modelled

* *Login protection and token revocation* (rate limiter, lockout rows,
  fallback, blacklist): left out of scope.
* *Other actors of modelled parts*: the cost total in the session, memory and search over histories, filters;
  event filters, tags, priorities and the other backends; the Redis usage tracker and the
  other metrics; the HTTP adapter, the registry and the health probes of MCP; the database
  provider of the configuration, secrets and `merge_overrides`; SQL dialects other than SQLite's; what
  an LLM client does between request and answer.
* *Pure computation*: what text, SQL, templates, prices, token budgets, projections and policies compute. These are
  single calls that share no state; a model of them would repeat the code.
* *One query or one request per operation*: identity queries and their migrations, organizations,
  provisioning, webhooks, embeddings. The hundreds of files that hold one SQL statement each, in four
  dialects, make up most of the source tree's lines, and have no order of steps to get wrong.
* *Construction at startup*: container, initializers, registries, loader, convenience functions: sequential.
* *Observation*: logging, metrics, error classes, test helpers: nothing depends on them.

`PROJECT.json` gives the reason for each part.

## 7. Running it

`tlc -config MCStoragePipeline.cfg MCStoragePipeline.tla`, and so on for each
configuration (`MCLLMExchangeTools.cfg` goes with `MCLLMExchange.tla`); `tlapm
StorageProofs.tla`, and so on for each `*Proofs`
module. Operators whose comment begins with "Mutant" are variants of the definition
that follows them, as a plausible slip would have it, kept to show that each
property would notice; no specification uses them.
