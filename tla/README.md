# A TLA+ model of the BTL-3 server

This directory holds TLA+ modules about the program in this repository, the TLC
configurations that check them on small instances, and proofs for TLAPS.
`PROJECT.json` lists the runs, the theorems, the hazards and, for every
definition that models code, the lines it stands for. In this file paths are
relative to the repository; `server/` stands for
`native/llama.cpp/tools/server/` and `llama/` for `native/llama.cpp/`; all of
them are under `src/`.

## 1. The system

BTL-3 is a language model in a compact format together with everything needed to
run it: a fork of llama.cpp with the codec and kernels, an HTTP server, bridges
and installers. The server is where most of the concurrency is, and what this
project is mostly about; below it are the KV cache and the thread pool that it
runs on, beside it the log, and around it the installer.

| Component | State | Operations | Interacts with | What makes it correct |
|---|---|---|---|---|
| Task queue (`server/server-queue.*`, `server_queue`) | `queue_tasks`, `queue_tasks_deferred`, `running`, `sleeping`, `req_stop_sleeping`, `time_last_task` | `post`, `defer`, `pop_deferred_task`, `cleanup_pending_task`, `start_loop`, `terminate`, `wait_until_no_sleep` | HTTP threads post, the main thread pops; both wait on `condition_tasks` | no task in two places, none lost, the loop runs while there is work, a sleeping server wakes, a stopped one ends |
| Result queue (`server_response`) | `waiting_task_ids`, `queue_results` | `send`, `recv_with_timeout`, `add_waiting_task_ids`, `remove_waiting_task_id(s)` | the main thread sends, HTTP threads receive | an answer reaches its reader once; nothing is kept for a reader that is gone |
| Reader (`server_response_reader`) | `id_tasks`, `received_count`, `cancelled` | `post_tasks`, `next`, `wait_for_all`, `stop` | owned by one HTTP thread | every request ends; leaving cancels what is left |
| Slot scheduler (`server/server-context.cpp`) | the slots: `state`, `task`, `n_decoded`, `i_batch`; the batch; `n_empty_consecutive` | `process_single_task`, `update_slots`, `release` | callbacks of `start_loop`; `release` calls back into the queue | one task per slot, children wait only for a parent that comes, every task is answered once |
| HTTP routes (`server-context.cpp`, `server-http.cpp`) | one reader per request | tokenize, post, stream | readers; the sleep | the model is loaded when a route uses it |
| Model router (`server-models.*`) | `mapping` of instances, `stopping_models`, `is_reloading`; for each child a process and three threads | `load`, `unload`, `unload_lru`, `unload_all`, reload, `ensure_model_ready`, `proxy_request` | child server processes, through pipes and signals; HTTP threads | at most `models_max` processes, every stop, reload and shutdown ends, threads report to their own entry |
| KV cache (`llama/src/llama-kv-cells.h`, `llama-kv-cache.cpp`) | cells with position, sequences and pending shift; `used`, `seq_pos`, `head`; pending copies | `seq_rm`, `seq_cp`, `seq_add`, `update`, `find_slot`, `apply_ubatch` | called by `update_slots` through `llama_decode` and the sequence functions | what is cached about the cells agrees with them; a slot's sequence holds its prompt |
| CPU thread pool (`llama/ggml/src/ggml-cpu/ggml-cpu.c`) | `n_graph`, `n_barrier`, `n_barrier_passed`, `current_chunk`, `stop`, `pause`, `abort` | `ggml_graph_compute`, `ggml_barrier`, pause, resume, free | called by `llama_decode`; worker threads | each part of each node is computed once, in order; no thread is left behind |
| Log (`llama/common/log.cpp`) | ring buffer with `head` and `tail`, `running` | `add`, `pause`, `resume` | every thread logs; a worker thread prints | messages come out in order, all of them, once |
| Rest of the llama library (`llama/src`) | recurrent state, batches, graphs | `llama_decode` | called by `update_slots` | upstream |
| Speculative decoding (`common/speculative.cpp`) | draft context | draft, process | `update_slots` | numeric |
| BTL-3 codec and kernels (`src/btl3-*.cpp`, ggml CUDA and Metal) | none | decode weights, overlay the vocabulary | the library | equal to the reference codec |
| GGUF exporter (`tools/export_btl3_compact_gguf.py`, `tools/btl3_gguf`) | files | convert | – | bytes |
| Ollama bridge (`tools/ollama_bridge.py`) | one upstream stream per request | translate requests, chunks and tool calls | the server over HTTP | the stream ends once, with its reason |
| Consumer installer (`tools/install_consumer_bundle.py`) | prefix, backup, staging directory | verify, stage, rename | the file system | there is always one whole installation |
| LM Studio plugin (`integrations/lmstudio`) | one child process | start on demand, wait, stream, stop | the server | one runner, which is stopped |
| Launch scripts, release builders | none | – | – | – |
| Web UI, vendored and upstream tools | – | – | – | third-party |

**What is hard.** HTTP threads post and cancel while the main thread is between
popping a task and giving it a slot. A cancel is a task of its own, which goes to
the front of the queue while `release` also pushes deferred tasks to the front.
A task may end on many paths (last token, rejected at launch, rejected prompt,
full context, failed decode, cancelled), and each has to answer once, free the
slot once and let a deferred task in. Children depend on the progress of their
parent and, later, share cells of the cache with it. The sleep and the task queue share a condition variable, and a signal can
come at any time. The router talks to its threads by the name of a model while
models are unloaded, reloaded and loaded again, and learns of the end of a child
on four paths. The thread pool has no lock around its barrier. The installer may
be killed between two renames. `PROJECT.json` lists these hazards at their lines with the
properties that cover them.

## 2. Modules and how they correspond to the code

| Module | Models |
|---|---|
| `SeqOps` | the operations on `std::deque`: the elements of a queue, erase, erase-if, push-front, first match |
| `ServerQueue` | task queue, result queue, readers and slot scheduler together |
| `TaskService` | the abstract specification: what clients are promised |
| `ServerSleep` | the idle sleep and the end of the loop |
| `ModelRouter` | the router, its threads and its child processes |
| `KVCache` | cells of the attention cache and the operations on them, as operators on a record |
| `SlotCache` | the slots and their cache: `update_slots()` token by token; extends `KVCache` |
| `GraphExecution` | the abstract specification of `ggml_graph_compute()` |
| `ThreadPool` | the CPU thread pool |
| `LogStream` | the abstract specification of the log |
| `LogQueue` | the ring buffer of the log and its worker |
| `Installer` | the runs of the consumer installer |
| `MC...` | the instances for TLC |
| `SeqOpsProofs`, `ServerQueueProofs`, `ServerSleepProofs`, `ModelRouterProofs`, `ThreadPoolProofs`, `LogQueueProofs`, `InstallerProofs`, `KVCacheProofs` | lemmas and theorems |

### ServerQueue

*Granularity.* One action is one section under `mutex_tasks` or `mutex_results`,
or one step of the main thread between two such sections. Between them every
interleaving with the HTTP threads is possible. Work of the main thread that no
other thread sees and that always follows is part of the same action (launching
all children and the parent, for example).

*State.* `queue`, `deferred`, `waiting`, `results` are the containers of the
code; entries of `queue` are `Run(t)` (any task with an id of its own),
`Cancel(t)` (`SERVER_TASK_TYPE_CANCEL` with `id_target = t`) and `NextResponse`.
`slotTask`, `slotState` (`SLOT_STATE_*`) and `nDecoded` are the fields of the
slots. `reader`, `received` and `got` describe each `server_response_reader`.
`pc`, `current`, `todo`, `ending` and `batch` say how far the main thread is;
`nEmpty` is `n_empty_consecutive`. `answered` is a history variable.

*Readers.* `AddWaiting` and `PostTasks` are the two halves of `post_tasks()`;
`Recv` is `next()`, where an error result ends the reader (`wait_for_all()` and
the streaming handlers both return on it). `Finish` and `Disconnect` are the ways to
`stop()`, whose three sections are `Stop`, `PurgeResults` and `PostCancels`. The
last posts the cancel tasks in any order, because `id_tasks` is an
`unordered_set`, and includes `cleanup_pending_task()`.

*Main thread.* `PopTask` is the inner loop of `start_loop()`; `DeferTask`,
`LaunchTask`, `LaunchFails`, `AnswerAtOnce`, `CancelTask` and `SkipNext`
are the cases of `process_single_task()`. The loops of `update_slots()` over the
slots are the labels `shift` (full contexts, generating slots), `prompts`,
`decode`, `sample` and `failing`; `todo` holds the slots a loop has not visited,
in any order, which includes the order of the code. `AnswerSlot` and
`ReleaseAnswered` are two steps, because `send_final_response()` or
`send_error()` is visible to the readers before `release()` is.

*Kinds of tasks.* A completion generates tokens; an embedding (also a rerank)
is answered once its prompt is decoded; a direct task is answered by
`process_single_task()` itself, and may ask for a slot to be idle (save, restore,
erase a slot; metrics and LoRA ask for none).

*Abstractions.* The number of tokens of a prompt, the contents of the cache and
sampling are left out: a prompt takes one or more passes, a generation at most
`NPredict` tokens or fewer. `Faulty` names the tasks for which a length or
parameter check of the code may fail; which one, and where, is a choice. A slot that
`update_slots()` passes over for `can_batch_with` or a full batch is `PassOver`,
possible only when another slot is already in the batch. Halving a batch after
`llama_decode()` returned 1 is seen as decoding it in views: the failure of a
later view comes after some slots were sampled. The choice of a slot by prompt
similarity or last use is a choice of any free slot.

### TaskService

A task is `none`, `waiting`, `running`, `answered` or `dropped`. A client submits
all its tasks at once; tasks that wait start together when there is room; an
answer ends one task; one error may stand for all the waiting tasks of a request; a task is
dropped without any answer only when its client is gone. `ServerQueue` maps its
state to this one (`StatusOf`, `ClientOf`), and the property `ServesTasks` says
that every step of the queues, readers and slots is a step of the service or
invisible to it.

### ServerSleep

A handler arrives, passes `wait_until_no_sleep()` or blocks in it, uses the
model, and posts its task. The main thread processes tasks, waits, sleeps, wakes
up. `blocked` is the set of threads inside `condition_tasks.wait()`, so that
`notify_one()` is a choice of one of them. Without that set the question which
thread a notification reaches could not be asked. `Terminate` is the signal handler of
`server.cpp`; `boot` is the time before `start_loop()` has set `running`, when
the HTTP threads and the signal handler are already there. Time is not counted:
the idle time may pass whenever the main thread is idle, wherever the handlers are: only tasks refresh
`time_last_task`, so that a handler, however fast, may pass `wait_until_no_sleep()` just before the idle time is over.
The end of a sleep refreshes it too, and notifies every blocked thread. A thread that has not even tested its
predicate again when the next sleep begins was not scheduled for `sleep_idle_seconds`; the history variable
`stalled` records that this happened (`Lagging`), and nothing else. `RequestWakesMain`, `TaskIsProcessed` and
`WaitEnds` are about the time until then; `PassesLoaded`, `RunsLoaded` and `StoppedLoopEnds` hold at any speed.

### ModelRouter

*Granularity.* One action is one critical section of `server_models::mutex`, or one step of a thread
between two of them; in `load()` everything after the wait for a reload is one section, which is why a
limit that is checked there holds.

*State.* `known` and `mapping` are the map and its entries; an entry that `mapping[name]` makes by
accident is `Phantom`. `stopping` is `stopping_models`. `inst[g]` is the g-th child: its process
(`starting`, `ready`, `sleeping`, `closed` when its output has ended but it cannot be waited for yet, `dead`, `reaped`), the messages it
has written, whether it was told to exit, its managing thread (`mgr`), its `stopping_thread` and
whether `cv_stop` was notified since that thread looked. `req[r]` is one HTTP thread with the locals that
it keeps between sections (`lru_model_name`, the models a reload waits for, the threads it joins).

*Actions.* `Look`, `HasModel`, `PickLru`, `Evict`, `Evicted`, `AlreadyLoaded`, `LoadThrows` and `Spawn`
are the route, `has_model()`, `unload_lru()` and `load()`; `AwaitLoaded`, `Check`, `Proxy`, `Touch` end a
proxied request; `Reload` to `Autoload` are `load_models()`. `LogRead`, `MgrEof`, `MgrJoins`, `MgrUnloaded`
are the managing thread with its `log_thread`, `StopperLooks` to `StopperKills` the `stopping_thread`.
The states `killed` (the router signalled its own process group), `asserted`, `deadlocked` (a join under
the lock of a thread that needs it) and `null` (`subprocess_alive()` of a null pointer) are ways in which
the code would end or hang; the model stops there.

*Abstractions.* Time: any running model may be the least recently used, and the stop timeout may pass at any
moment. Presets are in the sources or not, changed or not; `Sources` and `Changed` say so for each reload.

### KVCache and SlotCache

`KVCache` states the operations of `llama_kv_cells` and `llama_kv_cache` as functions of a record of cells.
The loops of the code over all cells become one function over the indices, and `count` is
`seq_pos` (how often a position occurs for a sequence). `k` is what a cell's row was computed from and rotated to.

`SlotCache` is the single thread of `update_slots()`. A pass is `StartPass` (context shifts, sampled tokens,
prompts up to `n_batch`) followed by one `Decode` per view of the batch: update the cache, find cells, decode, activate children,
sample and release, or handle the failure. The loops over the slots are recursive functions over a record of
everything that they change (`InSlotOrder`). `mode` chooses between one stream for all slots and a stream each, with or
without context shift, which prompts may have children, and the `n_keep` (with the BOS token) and `n_discard` of the tasks. The batch has room for
max(`n_batch`, `n_parallel`) tokens (`BatchSize`): every slot adds its sampled token, and prompts fill it up to `n_batch`. A view whose positions
do not follow those in the cache is refused by `llama_decode()`, and every task ends (`InvalidBatch`). Sampling gives any token of `Sampleable`; an answer may end
at any token. `i_batch` of a released slot is reset here and stays in the code, where nobody looks at it before it is set again.
Prompt cache in RAM, `cache_reuse`, saved slots, checkpoints, multimodal prompts, embeddings and speculative decoding are off; `cache_prompt`
and `cont_batching` are on, as they are by default.

### ThreadPool and GraphExecution

One action is one access to a shared atomic, or one section under the mutex of the pool. A node is empty, split by thread number, or
a matrix multiplication: fill the work buffer, barrier, chunks from a shared counter. `wdata` remembers for
which node a thread's part of the buffer was filled, `computed` how often each part was computed. Atomics are
sequentially consistent here; the relaxed loads and stores of the code are not weakened further.
`GraphExecution` says what a caller relies on; the refinement mapping keeps `graph`, `computed` and `ec`.

### LogQueue and LogStream

A message is its number. `Add` includes the growth of a full ring, `Pause` and `Joined` are the two halves of
`pause()`. `set_file()` and the setters of colours and prefixes are a pause, an assignment and a resume. Discarded
messages (while paused) change nothing. One thread pauses and resumes, as in the program.

### Installer

Every call to the file system is a step that may fail, at most `mode.faults` of them in a run, `rmtree` removes one entry at a time,
and a run may be killed between any two steps. `mode.overlap` lets runs interleave, which fail and are killed as well. `Current` is what a user
has: the tree at the prefix or, if a run was killed between its two renames, the whole tree in the backup.

## 3. What is checked

All runs use `CHECK_DEADLOCK FALSE`, because the program may really stop: a
server without requests has nothing to do, the readers here make one request each,
`GGML_ABORT` ends the process, `start_loop()` returns after a signal, and the
pool, the router, the installer and the bounded log come to an end.

| Run | Instance | Shows |
|---|---|---|
| `pair` | one slot; r1 posts a completion and an embedding, r2 an action on that slot; everybody may leave, everything may fail, drafts included | `ServesTasks` |
| `service` | two slots; a parent with a child and a single task; r1 may leave, the parent may be rejected, decoding may fail | `OnePlace`, `AnsweredOnce`, `NoOrphanResults`, `NoLostTask`, `ServesTasks` |
| `live` | the same tasks, nothing fails, r2 may leave, under fairness | `BusyLoopWakes`, `ChildNotAlone`, `EveryRequestEnds` |
| `sleep` | three HTTP threads of any speed, a signal at any time, under fairness | `PassesLoaded`, `RequestWakesMain`, `RunsLoaded`, `TaskIsProcessed`, `WaitEnds`, `StoppedLoopEnds` |
| `router` | two models with room for one; a request, a load, an unload and a reload that drops one model and changes the other; one model crashes | `WithinLimit`, `ReportsToOwn`, `JoinsAreSafe`, `NoOrphans` |
| `router_live` | two requests and the reload, under fairness; the model that is kept may crash, so that all three properties need their exception | `StopCompletes`, `ReloadEnds`, `ShutdownEnds` |
| `pool` | three threads, four graphs, aborts, pauses and freeing at any time, under fairness | `TypeOK`, `WorkersAreOut`, `BufferIsWhole`, `ExecutesGraphs`, `GraphEnds`, `FreeEnds` |
| `log` | nine messages, a ring of two entries that grows twice, under fairness | `OldestFirst`, `PrintsInOrder`, `MessagesPrinted`, `PauseReturns` |
| `slots` | two slots on five cells in four configurations: a kept token, `n_discard` half, two or more than there is, a shared prompt, a stream for each slot; decodes may fail | `TypeOK`, `CellsAlwaysAgree`, `SlotsHoldPrompts`, `RowsRotated`, `RoundsLead` |
| `installer` | three runs, one after the other or overlapping, with failures and kills | `PrefixWhole`, `InstallsAtomically`, `EndsAsSaid` |
| `router_killed`, `slots_shared` | the settings of two findings | section 5 |

The type invariants of `ServerQueue`, `ServerSleep`, `ModelRouter`, `LogQueue` and `Installer` are proved
(section 4) and not part of a run; those of `ThreadPool` and `SlotCache` are checked.

*What the properties say.* `OnePlace`: a task is in at most one of queue, deferred
queue, the hands of the main thread and a slot, and never twice in one of them.
`NoLostTask`: while a reader reads, each of its tasks is on its way or its answer is, or
an error is about to end the request. `AnsweredOnce`: what was
answered is not answered again (`wait_for_all()` asserts that no index comes twice). `NoOrphanResults`: `queue_results` keeps nothing for a reader that has
stopped. `BusyLoopWakes`: the loop does not wait with work on a slot.
`ChildNotAlone`: a child in `SLOT_STATE_WAIT_OTHER` has a parent that will reach the end of its
prompt, or is about to be ended itself. `EveryRequestEnds`: what was registered is closed in the end.

`WithinLimit`: never more processes than `models_max`, although the code counts entries. `ReportsToOwn`: while
the threads of a child report by name, that name is the entry of this child. `JoinsAreSafe`: no
self-made deadlock when threads are joined and, if overlapping reloads find the same sources, no failed assertion. `StopCompletes`: what was asked to stop is
unloaded, even if it never answers; `ReloadEnds` and `ShutdownEnds`: so do the waits for it. All three except the one
case in which the code does hang: a `stopping_thread` that sleeps through the end of its child (`SleepsThrough`, section 5). The run reaches that
case, because a process closes its output before it can be waited for, and requires the rest.

`PassesLoaded`: nobody gets past `wait_until_no_sleep()` while the model is destroyed. `TaskIsProcessed`: a
posted task is processed unless it comes into a sleep that nobody asks to end, whatever the main thread does at that moment.

`SlotsHoldPrompts`: the cells of a slot's sequence hold exactly the tokens of `slot.prompt` that were decoded,
each at its position, unless `n_discard` is more than the tokens after `n_keep` (section 5). `RowsRotated`: every row that is read is rotated to the position of its cell.
`CellsAlwaysAgree`: `used`, `seq_pos` and the empty cells agree with the cells. `RoundsLead`: a round of the
batch loop that goes on has made progress.

`WorkersAreOut`: between graphs no worker touches what the main thread changes. `BufferIsWhole`: a chunk reads a
work buffer that every thread has filled for this node. `ExecutesGraphs` and `PrintsInOrder` are the refinements. `PauseReturns`:
`pause()` comes back when the ring shows the worker something. `PrefixWhole`: nobody finds half an installation at
the prefix before a run that overlaps another has ended without success. `InstallsAtomically`: with one run at a time an installation is never lost.

*Bounds.* Two readers are what the hazards need: one that leaves or fails, one
that competes with it. Three tasks on one or two slots make every queue reach
length two, force deferral, and let a release and a cancel meet. `NPredict = 2`
gives a generation that goes through all of shift, sample and last token;
`MaxEmpty = 3` is the constant of the code. Two (or three) HTTP threads in
`ServerSleep` are enough for a notification to reach the wrong one; they serve any number
of requests. Two models with room for one make every load evict, wait and compete; three
spawned processes let a model be loaded again while the threads of its old child still run, and a
pipe of two messages lets a child report readiness late. Two slots on five cells are full after
one prompt and a few tokens, so that views are halved, slots purged and tasks ended, and `n_batch = 3` splits prompts. The
graphs of `pool` use all, two and one of the threads, fewer chunks than threads and more. The ring of `log` wraps
around at each size. Two faults in an installer run reach every error path, the failing clean-up of a failed run included; when runs overlap one fault in each
is enough to put half a tree at the prefix. The runs of `installer` and the slots of `service` are symmetry sets: no constant tells the runs apart, the tasks are not pinned, and no other
constant names a slot. The invariants that are proved below hold for every number of readers,
tasks, slots, tokens and threads, so the bounds matter only for the rest.

*Fairness.* The main thread and the HTTP threads keep running, as threads of an
operating system do: weak fairness of `MainStep` and of every step of a reader
after the first. A client is never obliged to send its request (`AddWaiting`, `Arrive`) or to
close its connection (`Disconnect`), and signals need not come. Weak fairness of
the whole `MainStep` is enough because the loops of `update_slots()` visit every
slot before they end: `todo` shrinks with each step. A generation ends because
`n_predict` does not let it go on. `live` therefore assumes requests with a limit (`NPredict`),
or with a context that ends, not an unlimited generation.
In the router the threads run, a process that was killed or has exited disappears, and the stop
timeout passes; nothing is assumed of a child that was told to exit, nor of one that loads. In the pool every thread
runs, and the main thread finishes a graph that it has started, but need not start, resume or free anything. In the log
the worker runs and `join()` returns. `SlotCache` and `Installer` have no liveness; `RoundsLead` is the measure
on which the end of a batch rests.

*Mutants.* Every property of a passing run comes with a plausible slip in the code, such as a
missing `erase`, a child id that is not registered, a slot that is not released or a
`notify` that is left out, under which the run finds it violated. The mutated actions stand beside the
originals in the modules and are used by nothing else.

## 4. What is proved

The theorems hold for every value of the constants that satisfies the named
assumptions: `ConstantsAssumption` (the types of the constants), `DistinctIds`
(`get_new_id()` never gives an id twice), `TasksOfReaders` (every task belongs to a reader, and only
`handle_completions_impl()` gives a task children, `server-context.cpp:3929`), `ThreadsAssumption`, `RouterAssumption`, `LogAssumption`,
`InstallerAssumption`, `CacheAssumption` and `SlotAssumption`.

`SeqOpsProofs` has the lemmas about queues: what `Drop`, `DropAt`, `Cons`, `Append`, `Tail` and
concatenation do to the elements of a queue, to their uniqueness and to a relation between the
elements of any two positions (`Chained`), and that `FirstIn` finds the first of what is there. `Drop` needs an induction; since the library's induction theorems take an
operator, `SegmentInduction` states it for a set of naturals, proved from a least element.

`ServerQueueProofs`:
- `TypeCorrect` (`TypeOK`), where the bound on `nDecoded` is the content. `TypeOK` is
  not inductive: that a visited slot has a task to answer needs `PassOK` (a slot is idle exactly when it
  has no task, the slots to visit are busy, nothing is left to visit between two loops), so the
  invariant is `TypeInv`, both together.
- `BusyLoopNeverWaits` (`BusyLoopWakes`). `WakeInv` adds that the `NEXT_RESPONSE` task of a
  pass stays queued from the start of the pass to its end: readers append, or drop `Run` entries
  only, and the main thread pops nothing before it is back at the inner loop.

- `TasksHaveOnePlace` (`OnePlace`) and `TasksAreAnsweredOnce` (`AnsweredOnce`), both from
  `PlaceInv`: `UniquePlaces` (no task twice in a queue or on two slots), `OnePending` (not in two
  of queue, deferred queue and hands), `NotStarted` (none of the family of a pending task is on a
  slot), `PendingTops` (children travel inside their parent), `NotYetPosted` (the tasks of a
  reader that has not posted are nowhere and unanswered) and `AnsweredOnce`. `OnePlace` alone is
  not inductive: that a launched child is on no slot yet follows from its parent having been
  pending, and that a posted task is new from its reader not having posted.
- `NothingIsLeftBehind` (`NoOrphanResults`), from `AnswersInv`: a reader is registered for its ids exactly until it
  stops (`Listening`), each task has at most one final result or error in `queue_results`, behind its partial ones
  (`EndsAreAnswers`), and `received` counts the tasks whose final result was read, of which no result is left (`CountedOnce`).
  A reader that has counted all its tasks closes without the sections that purge; `CountedOnce`
  says that there is nothing to purge then.
- `NoTaskIsLost` (`NoLostTask`), from `WorkInv`. The statement itself is not inductive: that a popped task finds no cancel
  task of a reader that still reads (`CancelsAreLast`), that a slot in its release was answered
  (`EndingIsAnswered`) and that the main thread's hands are empty outside its cases (`HandsFree`) is needed. The lemma
  `MainStepMoves` says what a step of the main thread can do with tasks: leave them where they are, answer one
  on its slot, free a slot, start a family, or end a pending one with an answer or an error; the proof, and the next
  one, are by these cases.
- `ImplementsService` (`ServesTasks`): the initial state maps to that of `TaskService`, and every step to `Submit`, `Leave`,
  `Start`, `Answer`, `Refuse`, `Drop` or a stutter. That a start fits into `Capacity` follows because each running task has a slot
  of its own (`OneSlotEach`); that an error refuses only tasks that still wait, from `PlaceInv`.
- `ChildrenHaveParents` (`ChildNotAlone`), under `FamiliesStay`: the clients of requests with children do not leave, their
  tasks pass the checks, and if a decode may fail such a request posts one task with its children and no other. Other requests may leave,
  be rejected and be mixed in as they like. The invariant `FamilyInv` says that a wait has a parent with a prompt to process or to be decoded
  (`ParentsAhead`), that nobody waits for a slot that is sampled or released (`ParentsLast`, established when `DecodeBatch`
  activates the children), that a failed decode still visits every busy slot (`FailingAll`), and that a request which
  an error or a cancel task is about to end has nothing pending and nothing on a slot (`DoomedEnd`), so that a cancel task finds no
  parent to release. No condition of `FamiliesStay` can be dropped, TLC finds a violation for each: `live` with
  `Impatient = {r1, r2}` or with `Faulty = {parent}` (section 5), and, with failing decodes, a request of a single task and a family:
  the error of the single task ends it while the family waits, the popped parent escapes the
  clean-up, is launched by the cancellation of another request and released before its child. `ConstantsAssumption` and
  `FamiliesStay` hold together in `live`, and also with `DecodeMayFail` and a faulty single task.

`ServerSleepProofs`:
- `TypeCorrect` (`TypeOK`) with `QueueInv`: a handler has posted exactly when its task is queued,
  once. Without uniqueness, processing the head could leave a second entry of the same handler.
- `MainRunsLoaded` (`RunsLoaded`) for threads of any speed and with signals.
- `NoHandlerPassesAsleep` (`PassesLoaded`), for threads of any speed: the model is destroyed only while `sleeping` is set, which is
  what a thread tests, at first and after every notification.
- `RequestReachesMain` (`RequestWakesMain`), from `SleepInv`, with threads anywhere when the idle time passes: until the first request of a sleep the main
  thread is the only one blocked, so the one notification reaches it. It needs `~stalled`: a thread still blocked from the last sleep would take it.

`ModelRouterProofs`: the invariant `RouterParts` is the conjunction of the types (with: a thread that reports has
a child, an eviction has a model), `NotSpawned` (processes not created yet are untouched), `PipesReport` (a child never reports
UNLOADED), `Owned` (a child whose managing thread runs is the one of its entry, which counts as running) and
`ManagedToTheEnd` (a process that exists has its managing thread). It gives
- `ChildrenOwnTheirEntry` (`ReportsToOwn`) and `ModelsHaveOneProcess` (`OneProcess`), and
- `LimitIsKept` (`WithinLimit`): processes map one to one to running entries, and `load()` adds an entry only below the
  limit. The check alone is not inductive: it counts entries, so `Owned` has to say that none is UNLOADED too early.

A second invariant, `JoinParts`, is about the threads that are joined. A joinable thread is the one of a child of that
model (`ThreadsOfModel`), so by `Owned` it has ended when its entry is UNLOADED: joining it under the lock is safe. A reload
knows every model that runs and is in no source (`ReloadsSeeAll`), because nothing starts while `is_reloading` is set; when
another reload has ended first, the entries were already erased and have no subprocess. A managing thread reports its end after it has
waited for its process (`WaitedFor`). It gives
- `ThreadsAreJoined` (`JoinsAreSafe`), for any number of reloads: no join under the lock waits for ever, whatever sources each reload finds; and the
  assertion of a reload does not fail if all find the same ones (`SameSources`; section 5 has the case when they do not), and
- `NoChildIsLeft` (`NoOrphans`): `unload_all()` joins the threads of all entries, and by `Owned` no other thread runs.

`ThreadPoolProofs`: the invariant `PoolInv` gives `TypeCorrect` (`TypeOK`), `WorkersStayOut` (`WorkersAreOut`), `BufferStaysWhole`
(`BufferIsWhole`) and `ImplementsExecution` (`ExecutesGraphs`) for any number of threads, nodes and chunks. The active threads are in one segment of the
graph together, the part between two barriers (`During`), or the graph is over (`Between`); a thread is inside the segment,
or behind it because it has not seen the last barrier open yet or has not joined. `BarrierOK` says that `n_barrier` counts the threads that wait, that the
last one is alone when it resets the counters, and `ChunkParts` that the shared counter hands out each chunk
once. Since a late thread touches neither `n_barrier` nor `current_chunk` before it has seen the barrier open, nobody resets what
another still uses. The four properties are not inductive one by one: that a worker is out of the graph
rests on the last barrier having counted it, and that on the segments.

`LogQueueProofs`: `LogInv` adds to the types that the ring holds the messages from the oldest on (`RingHolds`), where the
end entry is (`RingEnds`), that all is printed once the worker has ended (`AllPrinted`) and what the worker has in
hand (`HandIsNext`). It gives `RingIsOrdered` (`OldestFirst`), for every capacity and any number of growths, and
`LogImplementsStream` (`PrintsInOrder`): every step of the log maps to a step of `LogStream` or a stutter.

`InstallerProofs`: `PrefixIsWhole` (`PrefixWhole`), and with one run at a
time `InstallationIsKept` (`InstallsAtomically`) and `ReportsAreTrue` (`EndsAsSaid`), for any number of runs, faults and kills. The invariant says for each label what is at the prefix and in the
backup; the case that needs it is a run that starts after another was killed between its renames.
`InstallerTypes` also holds when runs overlap, and so does `PrefixIsWhole`: until a run has failed or was killed only whole trees are renamed to
the prefix, because a run owns its staging directory and only a failed run renames the backup (`OverlapStep`).

`KVCacheProofs`: for each operation on cells, that it keeps `CellsAgree` for every size, every range and any sharing of cells
(`SeqRmAgrees`, `SeqCpAgrees`, `SeqCpToAgrees`, `SeqAddAgrees`, `ApplyShiftAgrees`, `PlaceAgrees`), and that `seq_rm()` leaves other sequences their
cells (`SeqRmKeepsOthers`). The rest is about `SlotCache`, from `SlotInv`: the types, and `Sound(Now)`, which says of the
record `update_slots()` works on that
- the cells have their types and agree (`GoodCells`), prompts fit into the context (`PromptsFit`), a slot with a task, a parent or
  a token to sample from has its input (`InputsKnown`), and a prompt that is not all in the batch is shorter than its input
  (`PromptsGrow`);
- the rows, once the pending copies are made, are rotated to where the cells were before their pending shifts (`RowsBased`). This
  is what `RowsRotated` lacks to be inductive: between two updates a copy moves cells at once and rows later, in the order of
  `sc_info`, while both streams may have shifts pending. `CopiedAppend` is the lemma about that order.

`Sound` is kept by every helper (`ClearSound`, `ReleaseSound`, `ShiftSound`, `AddPromptSound`, `CopyStateSound`, ...), and so by the loops
over the slots. Such a loop takes an operator, which the prover cannot quantify over; `LoopSolved` and `LoopStays` state
the induction for sets and functions, and each loop instantiates them in a lemma of its own. Shifting needs more than `Sound`: after it every
generating slot has room for the sampled token (`HasRoom`), and that token fits the batch, with any number of slots, because the batch
is allocated for the larger of `n_batch` and their number (`BatchSize`). `FoundIsEmpty` proves what `PlaceAgrees` assumes of `find_slot()`. The theorems are
- `SlotsTyped` (`TypeOK`), `CellsAgreeAlways` (`CellsAlwaysAgree`) and `RowsAreRotated` (`RowsRotated`), in every mode,
  those included in which `SlotsHoldPrompts` fails, and
- `EveryRoundLeads` (`RoundsLead`), with `LeftToDecode`: a pass goes on only while some of the batch is left, and
- `PromptsAreHeld`: `SlotsHoldPrompts` in every mode without families of prompts (`n_cmpl` = 1 throughout), for any prompts, any `n_keep`,
  any `n_discard` up to the tokens after it (`DiscardsLess`, the premise of the property), any
  number of context shifts and any decode that does not fit or fails. With families, or a larger `n_discard`, it is false (section 5).

`PromptsAreHeld` needs an invariant about the middle of a pass, `HoldInv`. Without families nothing is shared (`Private`: no copy is pending,
nobody waits for a parent, and no cell has two sequences), so what is done to one slot leaves the others what they have (`OthersSame`).
Each slot then has its prompt in two parts (`SlotHolds`): for some `n` its cells hold the first `n` tokens, each position once
(`CellsHold`), and the batch has the others, in order (`BatchHolds`). It also says what the parts of `update_slots()` rely on without checking:
- an idle slot has nothing in the batch, so that a purge or a new task may cut its cells;
- nothing of a slot follows the token it is sampled from (`NothingAfter`), so that a sampled slot has nothing in the rest of the batch
  and may end there or go on generating;
- a prompt that is not all in the batch is the first part of its input, so that it is continued where it was left.

The steps are: `RmCuts` and `ShiftHolds` (what truncation and a shift do to the cells of a prompt; `CutIsJoined` is the prompt without its middle part), `NPastCommon` (what is kept is a
common prefix), `MoreHolds` (tokens appended to the batch), `FoundOnce` and `PlaceHolds` (`find_slot()` gives different cells, and the ubatch goes into
them), `PartHolds` (the tokens of one stream), `BatchSplits` (a view and the rest split every prompt at one place) and `HoldsAttended`, which counts
the cells. After an error only idle slots have kept something (`IdleHold`), and at the end of it all are idle.

They rest on `SlotAssumption`: a server has a slot and a batch, prompts that fit the context with a token to spare (the
server rejects others), and at least the four positions of context that a shift keeps free (`n_ctx` is padded to a multiple of 256,
`llama-context.cpp:223`). One part of it is a bound and not the code's: `n_discard <= NCtx - 1`, since `server-task.cpp:272` only makes it
not negative, and with more than the tokens there are the new size of `slot.prompt` is negative (section 5).

*Only model-checked:* the liveness properties (liveness under fairness is beyond the prover);
`SlotsHoldPrompts` in modes with families of prompts, where it holds for some of them only (section 5).

## 5. Where the code and its words disagree

Two findings have a run of their own, the ones with the widest effect.

1. `router_killed` (`KillsOnlyChildren`). "special case: if model is in loading state, unloading means
   force-killing it" (`server-models.cpp:920`). A child that fails while it loads is waited for by its managing
   thread, which sets the status UNLOADED in a later section. In between the model is still LOADING and its
   `subprocess_s` has `child = 0`; an unload, or an eviction, then calls `kill(0, SIGKILL)`, which is the
   process group of the router.
2. `slots_shared` (`SlotsHoldPrompts`). "context shift cannot be used for shared prompt"
   (`server-context.cpp:2573`) is decided by the task that is on the slot. When a parent's task has ended and a single
   task continues its prompt on the same slot, the cells are still shared with the child, and the shift moves
   them for both: the child goes on with positions that its `slot.prompt` does not know of.

The following ones were found with the same modules, and each comes back when an instance is changed as
described. They have no run because the number of runs is kept small.

| Words | What the code does | To see it |
|---|---|---|
| "Add a new task, but defer until one slot is available" (`server-queue.h:40`) | a release pops one deferred task; if that one is rejected at launch nothing is released, and the next stays with the slot free | `pair` with `Impatient = {}`, `Faulty = {single}`, no failing decode or draft, `FairSpec`: `DeferredIsServed` |
| "if this is cancel task make sure to clean up pending tasks" (`server-queue.cpp:47`) | a popped task is in neither queue: it is deferred after its cancellation and runs for nobody | `pair` with `Impatient = {r1}`, nothing faulty: `CancelCatchesAll` |
| "waiting for parent slot to process prompt" (`server-context.cpp:125`), the fourth empty batch is a "fatal error" (`:3337`) | a child is launched after its own cancel task was handled, its parent is cancelled next, and the server aborts | `live` with `Impatient = {r1, r2}`: `NeverAborts` |
| the same | a parent whose prompt is rejected inside `update_slots()` (`:2818`, `:2858`) leaves its children waiting | `live` with `Impatient = {}`, `Faulty = {parent}`: `NeverAborts` |
| "Any new incoming task will automatically trigger the model to reload." (`server/README.md:1839`) | the task of a handler, fast or slow, that passed `wait_until_no_sleep()` before the idle time was over and posts when the main thread is asleep (`server-queue.cpp:36`) wakes nobody: it waits until another request ends the sleep | `sleep`, with `TaskIsProcessed` stated without its condition on the sleep |
| "only use these pointers outside of this class: when not in sleeping state" (`server-context.cpp:716`) | the same handler tokenizes with the vocabulary while or after the model is destroyed | `sleep`: the invariant `handler[r] = "using" => loaded` |
| "if sleeping, request exiting sleep state and wait until it is done" (`server-queue.h:50`) | `terminate()` in the sleep leaves `sleeping` true: the waiting HTTP thread never returns and is joined for ever | `sleep`, with `WaitEnds` stated without its case of a termination |
| "this will unblock start_loop()" (`server.cpp:318`) | `start_loop()` sets `running` after the signal handler is installed (`server.cpp:329`, `:359`) and overwrites an earlier `terminate()` | `sleep`: `SignalEndsLoop` |
| "thread to monitor stopping signal OR child crash" (`server-models.cpp:832`) | the output of a child ends, its managing thread removes the mark in `stopping_models` and notifies (`:878`) while the process cannot be waited for yet; its `stopping_thread` finds neither and waits (`:841`) for a notification that may never come, the join at `:882` does not end, and the model never becomes UNLOADED | `router_live`, its properties stated without `SleepsThrough` |
| "must have been joined above" (`server-models.cpp:470`) | of two reloads at once that find different sources, one erases a model that the other has added and that was loaded since | `router`, with two reloads of different `Sources`: `JoinsAreSafe` stated without `SameSources` |
| "number of tokens after n_keep that may be discarded when shifting context" (`server-task.h:58`) | nothing limits it to the tokens there are: more than those after `n_keep` cut `slot.prompt` below what the cache keeps, and the next `llama_decode()` refuses the batch and ends the tasks of all slots; more than there are tokens at all give `resize()` a negative size (not modelled) | `slots`, with `SlotsHoldPrompts` stated without `DiscardsLess` |
| "The installer discovers the matching supported runtime ... and installs atomically" (`README.md:213`), "before atomically installing" (`docs/launch-btl3-cuda.md:134`) | a run that is killed between its renames (`install_consumer_bundle.py:114`, `:116`) leaves nothing at the prefix, and no later run renames the backup back | `installer`: `prefix # None` once something was installed |
| the same | with runs that overlap half a tree may be installed: one looks (`:111`), another moves the prefix aside (`:114`), the first begins to remove that backup (`:113`), the rename of the other fails (`:116`) and it restores what is left (`:118`); with four runs no call has to fail by itself | `installer`, with `PrefixWhole` stated without its second case |
| "push an entry to signal the worker thread to stop" (`llama/common/log.cpp:295`) | with one place left the entry makes the ring look empty: the worker does not see it, and `pause()` never returns | `log` with `Capacity = 3`, `MaxMessages = 6`: `(state = "joining") ~> (state = "paused")` |
| "when the main prompt is processed, activate all child tasks too" (`server-context.cpp:3470`) | the state DONE_PROMPT is set when the batch is built: if the end of the prompt is in a later view, the children copy a part of it | `slots` with `Modes <- SplitModes`: `SlotsHoldPrompts` |

Further violations: without its premise `~stalled`, `RequestWakesMain` (the one notification reaches a thread that
blocks again); with `DraftMayFail`, `NeverAborts` (the code has a TODO there).

## 6. What is not modelled

Parsing, formatting and the HTTP library; the codec, the kernels and the exporter, which are numeric or
sequential and compared with reference data by tests; scripts that only choose arguments. They are most of the
lines of this repository: the share of the code that a state machine can say something about is small.

In the slot scheduler: checkpoints, saved slots and the prompt cache in RAM, `cache_reuse`, prompt similarity, speculative
acceptance, multimodal chunks. `server_response::recv()` without a timeout and the variants for one task are the modelled
ones on one id. `server_response::terminate()` is left out. In the cache: sliding windows, `seq_div`, state files, recurrent
memory, batches of several ubatches. In the slots: `cache_prompt` and `cont_batching` switched off, embeddings, tasks that differ in `n_keep` or
`n_discard`; `n_keep = -1` is the length of a prompt. In the pool: OpenMP, weak memory orders, the wrap-around of the graph count. In the router: downloads,
presets beyond present and changed, and the traffic itself.

The LM Studio plugin and the Ollama bridge keep little state; their hazards are listed in `PROJECT.json`.

## 7. Plan

Done: `SeqOps`, `ServerQueue`, `TaskService`, `ServerSleep`, `ModelRouter`, `ThreadPool` with `GraphExecution`, `LogQueue` with
`LogStream`, `KVCache`, `SlotCache`, `Installer`, and the proofs of section 4. Next:

1. `SlotCache` as a refinement of the slot part of `ServerQueue` (a view with the states of its slots), and `PromptsAreHeld` for families
   whose prompts fit one view, when contexts are not shifted.
2. `NativeRunner` (LM Studio): concurrent generations, start, time-out, exit of the child; one live runner, each
   started process is stopped.
3. `OllamaBridge`: the translation of a stream against a reference definition over bounded sequences of chunks.
4. Sliding windows and the checkpoints of the slots in `KVCache` and `SlotCache`.

Runs and properties are kept few: a new one is to replace a weaker one.
