---------------------------- MODULE ServerQueue ----------------------------
(***************************************************************************)
(* The task queue, the result queue, the HTTP threads that use both and    *)
(* the main thread that serves them (tools/server/server-queue.cpp and the *)
(* slot scheduler of tools/server/server-context.cpp).                     *)
(*                                                                         *)
(* A reader is one server_response_reader, owned by one HTTP thread: it    *)
(* registers the ids of its tasks as waiting, posts the tasks, reads the   *)
(* results and, when it stops before the last one, cancels its tasks.  The *)
(* main thread pops a task, gives it a slot, defers it or answers it, and  *)
(* once the queue is drained makes one pass of update_slots().  Every      *)
(* section under mutex_tasks or mutex_results is one step, so the threads  *)
(* interleave between the sections of one handler.                         *)
(***************************************************************************)
EXTENDS SeqOps, FiniteSets

CONSTANTS
  Readers,        \* the requests, one server_response_reader each
  Tasks,          \* task ids
  Slots,          \* server_context_impl::slots
  NoTask, NoSlot, \* the id -1 of a task, of a slot
  Batch,          \* Batch[r]: the tasks that reader r posts, in order
  Children,       \* Children[t]: the tasks in child_tasks of t
  Kind,           \* Kind[t]: what the main thread does with t
  Pin,            \* Pin[t]: id_slot of t, or slot_action.id_slot
  Impatient,      \* readers whose client may disconnect
  Faulty,         \* tasks that the launch or the prompt checks may reject
  DecodeMayFail,  \* whether llama_decode() may return an error
  DraftMayFail,   \* whether common_speculative_process() may return false
  NPredict,       \* tokens after which process_token() ends a generation
  MaxEmpty        \* empty batches in a row that update_slots() tolerates

(* A direct task (slot action, metrics, LoRA) needs no slot of its own, at *)
(* most the slot Pin[t] to be idle.                                        *)
Kinds == {"completion", "embedding", "direct"}

Ids(r) == Elems(Batch[r]) \cup UNION {Children[t] : t \in Elems(Batch[r])}

Tops == UNION {Elems(Batch[r]) : r \in Readers}

ASSUME ConstantsAssumption ==
  /\ IsFiniteSet(Tasks) /\ IsFiniteSet(Slots)
  /\ NoTask \notin Tasks /\ NoSlot \notin Slots
  /\ Batch \in [Readers -> Seq(Tasks)]
  /\ Children \in [Tasks -> SUBSET Tasks]
  /\ Kind \in [Tasks -> Kinds]
  /\ Pin \in [Tasks -> Slots \cup {NoSlot}]
  /\ Impatient \subseteq Readers /\ Faulty \subseteq Tasks
  /\ DecodeMayFail \in BOOLEAN /\ DraftMayFail \in BOOLEAN
  /\ NPredict \in Nat \ {0} /\ MaxEmpty \in Nat

(* get_new_id() gives every task an id of its own.                         *)
ASSUME DistinctIds ==
  /\ \A r1, r2 \in Readers : r1 # r2 => Ids(r1) \cap Ids(r2) = {}
  /\ \A r \in Readers : \A i, j \in DOMAIN Batch[r] :
        Batch[r][i] = Batch[r][j] => i = j
  /\ \A t \in Tops : Children[t] \cap Tops = {}
  /\ \A t, u \in Tops : t # u => Children[t] \cap Children[u] = {}

(* Every task is posted by a reader; only handle_completions_impl() calls  *)
(* add_child().                                                            *)
ASSUME TasksOfReaders ==
  /\ Tasks \subseteq UNION {Ids(r) : r \in Readers}
  /\ \A t \in Tasks : Children[t] # {} => Kind[t] = "completion"

VARIABLES
  queue,      \* queue_tasks
  deferred,   \* queue_tasks_deferred
  waiting,    \* waiting_task_ids
  results,    \* queue_results
  pc,         \* where the main thread is
  current,    \* the task popped by start_loop() and not dispatched yet
  todo,       \* slots that the current loop of update_slots() has to visit
  ending,     \* the slot whose answer is sent and whose release() is next
  batch,      \* slots with tokens in the batch
  nEmpty,     \* n_empty_consecutive
  slotTask,   \* slot.task
  slotState,  \* slot.state
  nDecoded,   \* slot.n_decoded
  reader,     \* where the thread of a reader is
  received,   \* received_count
  got,        \* the ids with a final result in batch_res.results
  answered    \* history: the tasks for which an answer was sent

queueVars  == <<queue, deferred>>
resultVars == <<waiting, results, answered>>
slotVars   == <<slotTask, slotState, nDecoded>>
passVars   == <<pc, current, todo, ending, batch, nEmpty>>
readerVars == <<reader, received, got>>
vars == <<queueVars, resultVars, slotVars, passVars, readerVars>>
-----------------------------------------------------------------------------
Run(t)    == [type |-> "run", id |-> t]
Cancel(t) == [type |-> "cancel", id |-> t]
NextResponse     == [type |-> "next", id |-> NoTask]
NoItem    == [type |-> "none", id |-> NoTask]
Items     == {Run(t) : t \in Tasks} \cup {Cancel(t) : t \in Tasks} \cup {NextResponse}

Result(t, type) == [id |-> t, type |-> type]
ResultsOf(T)    == [id : T, type : {"partial", "final", "error"}]

ReaderStates == {"new", "registered", "reading", "failed", "leaving",
                 "purged", "closed"}
SlotStates   == {"idle", "wait_other", "started", "prompt", "done", "generating"}
PcValues     == {"drain", "dispatch", "update", "shift", "prompts", "decode",
                 "failing", "sample", "wait", "aborted"}

Idle(s) == slotState[s] = "idle"
Busy    == {s \in Slots : ~Idle(s)}
Free    == {s \in Slots : Idle(s)}

(* The parent task that carries t in its child_tasks, if any.              *)
ParentOf(t) == {p \in Tops : t \in Children[p]}

HasNext(r) == received[r] < Cardinality(Ids(r))

Init ==
  /\ queue = <<>> /\ deferred = <<>>
  /\ waiting = {} /\ results = <<>> /\ answered = {}
  /\ pc = "drain" /\ current = NoItem
  /\ todo = {} /\ ending = NoSlot /\ batch = {} /\ nEmpty = 0
  /\ slotTask = [s \in Slots |-> NoTask]
  /\ slotState = [s \in Slots |-> "idle"]
  /\ nDecoded = [s \in Slots |-> 0]
  /\ reader = [r \in Readers |-> "new"]
  /\ received = [r \in Readers |-> 0]
  /\ got = [r \in Readers |-> {}]
-----------------------------------------------------------------------------
(* server_response::send(): a result nobody waits for is discarded.        *)
Send(t, type) ==
  /\ results' = IF t \in waiting THEN Append(results, Result(t, type)) ELSE results
  /\ answered' = IF type = "partial" THEN answered ELSE answered \cup {t}
  /\ UNCHANGED waiting

(* task.id_slot; a slot action keeps its slot in slot_action instead.      *)
IdSlot(t) == IF Kind[t] = "direct" THEN NoSlot ELSE Pin[t]

(* Mutant of PopDeferred: only a task that asks for this slot is popped.   *)
PopDeferredPinned(s) ==
  LET wanting == {t \in Elems(deferred) : IdSlot(t) = s}
      i == FirstIn(deferred, wanting)
  IN  \/ /\ wanting = {}
         /\ UNCHANGED queueVars
      \/ /\ wanting # {}
         /\ queue' = Cons(Run(deferred[i]), queue)
         /\ deferred' = DropAt(deferred, i)

(* server_queue::pop_deferred_task(): the first deferred task that asks    *)
(* for this slot, else the first one, goes to the front of the queue.      *)
PopDeferred(s) ==
  LET wanting == {t \in Elems(deferred) : IdSlot(t) = s}
      i == IF wanting = {} THEN 1 ELSE FirstIn(deferred, wanting)
  IN  \/ /\ deferred = <<>>
         /\ UNCHANGED queueVars
      \/ /\ deferred # <<>>
         /\ queue' = Cons(Run(deferred[i]), queue)
         /\ deferred' = DropAt(deferred, i)

(* server_slot::release() of a processing slot.                            *)
Release(s) ==
  /\ slotTask' = [slotTask EXCEPT ![s] = NoTask]
  /\ slotState' = [slotState EXCEPT ![s] = "idle"]
  /\ PopDeferred(s)
  /\ UNCHANGED nDecoded
-----------------------------------------------------------------------------
(* The HTTP threads: server_response_reader.                               *)

(* Mutant of AddWaiting: the ids of child tasks are forgotten.             *)
AddWaitingTops(r) ==
  /\ reader[r] = "new"
  /\ waiting' = waiting \cup Elems(Batch[r])
  /\ reader' = [reader EXCEPT ![r] = "registered"]
  /\ UNCHANGED <<queueVars, results, answered, slotVars, passVars, received, got>>

(* post_tasks(), first half: the ids are waiting before the tasks exist.   *)
AddWaiting(r) ==
  /\ reader[r] = "new"
  /\ waiting' = waiting \cup Ids(r)
  /\ reader' = [reader EXCEPT ![r] = "registered"]
  /\ UNCHANGED <<queueVars, results, answered, slotVars, passVars, received, got>>

(* Mutant of PostTasks: a child is also posted on its own.                 *)
PostTasksFlat(r) ==
  /\ reader[r] = "registered"
  /\ \E order \in [1 .. Cardinality(Ids(r)) -> Ids(r)] :
        /\ Elems(order) = Ids(r)
        /\ queue' = queue \o [i \in DOMAIN order |-> Run(order[i])]
  /\ reader' = [reader EXCEPT ![r] = "reading"]
  /\ UNCHANGED <<deferred, resultVars, slotVars, passVars, received, got>>

(* post_tasks(), second half: server_queue::post(vector) at the back.      *)
PostTasks(r) ==
  /\ reader[r] = "registered"
  /\ queue' = queue \o [i \in 1 .. Len(Batch[r]) |-> Run(Batch[r][i])]
  /\ reader' = [reader EXCEPT ![r] = "reading"]
  /\ UNCHANGED <<deferred, resultVars, slotVars, passVars, received, got>>

(* next(): the oldest result for one of the ids leaves the result queue.   *)
Recv(r) ==
  LET mine == ResultsOf(Ids(r))
      i == FirstIn(results, mine)
      res == results[i]
  IN  /\ reader[r] = "reading" /\ HasNext(r)
      /\ Elems(results) \cap mine # {}
      /\ results' = DropAt(results, i)
      /\ \/ /\ res.type = "partial"
            /\ UNCHANGED readerVars
         \/ /\ res.type = "final"
            /\ received' = [received EXCEPT ![r] = @ + 1]
            /\ got' = [got EXCEPT ![r] = @ \cup {res.id}]
            /\ UNCHANGED reader
         \/ /\ res.type = "error"
            /\ reader' = [reader EXCEPT ![r] = "failed"]
            /\ UNCHANGED <<received, got>>
      /\ UNCHANGED <<queueVars, waiting, answered, slotVars, passVars>>

(* Mutant of Stop: the ids stay in waiting_task_ids.                       *)
StopStillWaiting(r) ==
  /\ reader' = [reader EXCEPT ![r] = IF HasNext(r) THEN "leaving" ELSE "closed"]
  /\ UNCHANGED <<queueVars, resultVars, slotVars, passVars, received, got>>

(* stop(), first section: nobody waits for these ids any more.  A reader   *)
(* that received every result is done, any other goes on to cancel.        *)
Stop(r) ==
  /\ waiting' = waiting \ Ids(r)
  /\ reader' = [reader EXCEPT ![r] = IF HasNext(r) THEN "leaving" ELSE "closed"]
  /\ UNCHANGED <<queueVars, results, answered, slotVars, passVars, received, got>>

(* The destructor once all results are in, or stop() after an error.       *)
Finish(r) ==
  /\ reader[r] = "failed" \/ (reader[r] = "reading" /\ ~HasNext(r))
  /\ Stop(r)

(* The client is gone: should_stop() is true, or the sink refuses a chunk. *)
Disconnect(r) ==
  /\ r \in Impatient /\ reader[r] = "reading" /\ HasNext(r)
  /\ Stop(r)

(* stop(): remove_waiting_task_id() of each id erases its unread results.  *)
PurgeResults(r) ==
  /\ reader[r] = "leaving"
  /\ results' = Drop(results, ResultsOf(Ids(r)))
  /\ reader' = [reader EXCEPT ![r] = "purged"]
  /\ UNCHANGED <<queueVars, waiting, answered, slotVars, passVars, received, got>>

(* stop(), last section: one cancel task per id, in the arbitrary order of *)
(* an unordered_set, at the front of the queue; cleanup_pending_task()     *)
(* erases the targets that are still queued or deferred.                   *)
PostCancels(r) ==
  /\ reader[r] = "purged"
  /\ \E order \in [1 .. Cardinality(Ids(r)) -> Ids(r)] :
        /\ Elems(order) = Ids(r)
        /\ queue' = [i \in 1 .. Cardinality(Ids(r)) |-> Cancel(order[i])]
                      \o Drop(queue, {Run(t) : t \in Ids(r)})
  /\ deferred' = Drop(deferred, Ids(r))
  /\ reader' = [reader EXCEPT ![r] = "closed"]
  /\ UNCHANGED <<resultVars, slotVars, passVars, received, got>>

ReaderStep(r) ==
  \/ AddWaiting(r) \/ PostTasks(r) \/ Recv(r) \/ Finish(r) \/ Disconnect(r)
  \/ PurgeResults(r) \/ PostCancels(r)
-----------------------------------------------------------------------------
(* The main thread: start_loop() and process_single_task().                *)

(* start_loop(): pop the next task, or go to update_slots().               *)
PopTask ==
  /\ pc = "drain"
  /\ \/ /\ queue = <<>>
        /\ pc' = "update"
        /\ UNCHANGED <<queue, current>>
     \/ /\ queue # <<>>
        /\ current' = Head(queue)
        /\ queue' = Tail(queue)
        /\ pc' = "dispatch"
  /\ UNCHANGED <<deferred, resultVars, slotVars, todo, ending, batch, nEmpty, readerVars>>

Dispatching(type) == pc = "dispatch" /\ current.type = type

Dispatched == /\ pc' = "drain" /\ current' = NoItem
              /\ UNCHANGED <<todo, ending, batch, readerVars>>

OnSlot(t)  == Kind[t] \in {"completion", "embedding"}

(* The slots that a completion may start on: its own, or any free one.     *)
Candidates(t) == IF Pin[t] = NoSlot THEN Free ELSE {Pin[t]} \cap Free

CanLaunch(t) == /\ Candidates(t) # {}
                /\ Cardinality(Children[t]) < Cardinality(Free)

(* process_single_task() cannot serve the task yet: server_queue::defer(). *)
DeferTask ==
  /\ Dispatching("run")
  /\ LET t == current.id
     IN  /\ \/ OnSlot(t) /\ ~CanLaunch(t)
            \/ Kind[t] = "direct" /\ Pin[t] \in Busy
         /\ deferred' = Append(deferred, t)
  /\ Dispatched
  /\ UNCHANGED <<queue, resultVars, slotVars, nEmpty>>

(* launch_slots_with_parent_task(): each child gets a free slot of its own *)
(* and waits for its parent, then the parent starts.                       *)
LaunchTask ==
  /\ Dispatching("run")
  /\ LET t == current.id
     IN  /\ OnSlot(t) /\ CanLaunch(t)
         /\ \E s \in Candidates(t) :
            \E place \in [Children[t] -> Free \ {s}] :
               /\ \A c, d \in Children[t] : place[c] = place[d] => c = d
               /\ slotTask' = [x \in Slots |->
                     IF x = s THEN t
                     ELSE IF \E c \in Children[t] : place[c] = x
                          THEN CHOOSE c \in Children[t] : place[c] = x
                          ELSE slotTask[x]]
               /\ slotState' = [x \in Slots |->
                     IF x = s THEN "started"
                     ELSE IF \E c \in Children[t] : place[c] = x
                          THEN "wait_other" ELSE slotState[x]]
  /\ nEmpty' = 0
  /\ Dispatched
  /\ UNCHANGED <<queueVars, resultVars, nDecoded>>

(* launch_slot_with_task() rejects the task.  The first launched is a      *)
(* child when there is one: it is a copy of its parent, so it is rejected  *)
(* too, and nothing has to be released.                                    *)
LaunchFails ==
  /\ Dispatching("run")
  /\ LET t == current.id
     IN  /\ OnSlot(t) /\ CanLaunch(t) /\ t \in Faulty
         /\ \E x \in IF Children[t] = {} THEN {t} ELSE Children[t] :
               Send(x, "error")
  /\ Dispatched
  /\ UNCHANGED <<queueVars, slotVars, nEmpty>>

(* Slot save, restore and erase on an idle slot, and the tasks that only   *)
(* report or set something (metrics, LoRA), are answered at once; so is an *)
(* action that fails or that the model does not support.                   *)
AnswerAtOnce ==
  /\ Dispatching("run")
  /\ LET t == current.id
     IN  /\ Kind[t] = "direct"
         /\ \/ Pin[t] \notin Busy /\ Send(t, "final")
            \/ t \in Faulty /\ Send(t, "error")
  /\ Dispatched
  /\ UNCHANGED <<queueVars, slotVars, nEmpty>>

(* Mutant of CancelTask: the first slot with a task is released.           *)
CancelAnyTask ==
  /\ Dispatching("cancel")
  /\ \/ \E s \in Busy : Release(s)
     \/ Busy = {} /\ UNCHANGED <<queueVars, slotVars>>
  /\ Dispatched
  /\ UNCHANGED <<resultVars, nEmpty>>

(* SERVER_TASK_TYPE_CANCEL releases the slot of the target, if there is.   *)
CancelTask ==
  /\ Dispatching("cancel")
  /\ \/ \E s \in Busy : slotTask[s] = current.id /\ Release(s)
     \/ /\ \A s \in Busy : slotTask[s] # current.id
        /\ UNCHANGED <<queueVars, slotVars>>
  /\ Dispatched
  /\ UNCHANGED <<resultVars, nEmpty>>

(* SERVER_TASK_TYPE_NEXT_RESPONSE only wakes the loop up.                  *)
SkipNext ==
  /\ Dispatching("next")
  /\ Dispatched
  /\ UNCHANGED <<queueVars, resultVars, slotVars, nEmpty>>

Dispatch == \/ DeferTask \/ LaunchTask \/ LaunchFails \/ AnswerAtOnce
            \/ CancelTask \/ SkipNext
-----------------------------------------------------------------------------
(* The main thread: one pass of update_slots().                            *)

InState(states) == {s \in Slots : slotState[s] \in states}

GoTo(label) ==
  /\ pc' = label
  /\ UNCHANGED <<current, ending>>

(* Mutant of StartPass: no NEXT_RESPONSE task.                             *)
StartPassSilently ==
  /\ pc = "update"
  /\ batch' = {} /\ todo' = InState({"generating"})
  /\ GoTo(IF Busy = {} THEN "wait" ELSE "shift")
  /\ UNCHANGED <<queue, deferred, nEmpty, resultVars, slotVars, readerVars>>

(* All slots idle: nothing to do.  Otherwise a NEXT_RESPONSE task goes to  *)
(* the back of the queue, so that the loop comes here again.               *)
StartPass ==
  /\ pc = "update"
  /\ \/ /\ Busy = {}
        /\ GoTo("wait")
        /\ UNCHANGED <<queue, todo, batch>>
     \/ /\ Busy # {}
        /\ queue' = Append(queue, NextResponse)
        /\ batch' = {}
        /\ todo' = InState({"generating"})
        /\ GoTo("shift")
  /\ UNCHANGED <<deferred, nEmpty, resultVars, slotVars, readerVars>>

Visit(s, label) == /\ pc = label /\ ending = NoSlot /\ s \in todo
                   /\ todo' = todo \ {s}
                   /\ UNCHANGED <<pc, current, nEmpty, readerVars>>

(* Mutant of AnswerSlot: the slot is not released.                         *)
AnswerSlotOnly(s, type) ==
  /\ Send(slotTask[s], type)
  /\ UNCHANGED <<queueVars, slotVars, batch, ending>>

(* The last token or an error: the answer is sent, then the slot released. *)
AnswerSlot(s, type) ==
  /\ Send(slotTask[s], type)
  /\ ending' = s
  /\ UNCHANGED <<queueVars, slotVars, batch>>

(* Mutant of ReleaseAnswered: the children of the task are released too.   *)
ReleaseFamily ==
  /\ ending # NoSlot
  /\ LET gone == {ending} \cup {s \in Slots : slotTask[s] \in Children[slotTask[ending]]}
     IN  /\ slotTask' = [s \in Slots |-> IF s \in gone THEN NoTask ELSE slotTask[s]]
         /\ slotState' = [s \in Slots |-> IF s \in gone THEN "idle" ELSE slotState[s]]
         /\ todo' = todo \ gone
  /\ PopDeferred(ending)
  /\ ending' = NoSlot
  /\ UNCHANGED <<resultVars, nDecoded, pc, current, batch, nEmpty, readerVars>>

(* The slot whose answer was sent is released.                             *)
ReleaseAnswered ==
  /\ ending # NoSlot
  /\ Release(ending)
  /\ ending' = NoSlot
  /\ UNCHANGED <<resultVars, pc, current, todo, batch, nEmpty, readerVars>>

(* A generating slot adds its last token to the batch.                     *)
JoinBatch(s) ==
  /\ Visit(s, "shift")
  /\ batch' = batch \cup {s}
  /\ UNCHANGED <<queueVars, resultVars, slotVars, ending>>

(* The context of the slot is full, and that of a shared prompt cannot be  *)
(* shifted.                                                                *)
ShiftFails(s) ==
  /\ Visit(s, "shift")
  /\ slotTask[s] \in Faulty
  /\ Children[slotTask[s]] # {} \/ ParentOf(slotTask[s]) # {}
  /\ AnswerSlot(s, "error")

(* The prompt is empty (final answer) or too large (error).                *)
RejectPrompt(s) ==
  /\ Visit(s, "prompts")
  /\ slotState[s] = "started" /\ slotTask[s] \in Faulty
  /\ \E type \in {"final", "error"} : AnswerSlot(s, type)

(* A prompt adds its tokens to the batch, all that are left or, when the   *)
(* batch is full, some of them.                                            *)
BatchPrompt(s) ==
  /\ Visit(s, "prompts")
  /\ batch' = batch \cup {s}
  /\ \/ /\ slotState' = [slotState EXCEPT ![s] = "done"]
        /\ nDecoded' = [nDecoded EXCEPT ![s] = 0]
     \/ /\ slotState[s] = "started" /\ Kind[slotTask[s]] = "completion"
        /\ slotState' = [slotState EXCEPT ![s] = "prompt"]
        /\ UNCHANGED nDecoded
  /\ UNCHANGED <<queueVars, resultVars, slotTask, ending>>

(* The slot cannot be batched with slot_batched (can_batch_with), which a  *)
(* slot left over by a failed draft becomes too, or the batch is full.     *)
PassOver(s) ==
  /\ pc \in {"shift", "prompts"} /\ Visit(s, pc)
  /\ batch # {} \/ (pc = "prompts" /\ InState({"done"}) # {})
  /\ UNCHANGED <<queueVars, resultVars, slotVars, ending, batch>>

Visited(label) == pc = label /\ todo = {} /\ ending = NoSlot

(* Next, the slots with a prompt to process.                               *)
ToPrompts ==
  /\ Visited("shift")
  /\ todo' = InState({"started", "prompt"})
  /\ GoTo("prompts")
  /\ UNCHANGED <<queueVars, resultVars, slotVars, batch, nEmpty, readerVars>>

ToDecode ==
  /\ Visited("prompts")
  /\ GoTo("decode")
  /\ UNCHANGED <<queueVars, resultVars, slotVars, todo, batch, nEmpty, readerVars>>

(* No tokens to decode: after MaxEmpty such passes in a row, GGML_ABORT.   *)
DecodeNothing ==
  /\ pc = "decode" /\ batch = {}
  /\ nEmpty' = nEmpty + 1
  /\ GoTo(IF nEmpty' > MaxEmpty THEN "aborted" ELSE "wait")
  /\ UNCHANGED <<queueVars, resultVars, slotVars, todo, batch, readerVars>>

(* Mutant of Activated: the children are forgotten.                        *)
NoneActivated == {}

(* The children of the parents whose prompt is done.                       *)
Activated ==
  {s \in InState({"wait_other"}) :
     \E p \in InState({"done"}) : slotTask[s] \in Children[slotTask[p]]}

(* llama_decode() succeeds: children take over the prompt of their parent, *)
(* and the slots whose last token is in the batch are sampled.  The index  *)
(* i_batch that a failed draft left in a slot may point into this batch.   *)
DecodeBatch ==
  /\ pc = "decode" /\ batch # {}
  /\ slotState' = [s \in Slots |-> IF s \in Activated THEN "done" ELSE slotState[s]]
  /\ nDecoded' = [s \in Slots |-> IF s \in Activated THEN 0 ELSE nDecoded[s]]
  /\ \E stale \in SUBSET (InState({"done"}) \ batch) :
        todo' = Activated \cup stale \cup (batch \cap InState({"done", "generating"}))
  /\ nEmpty' = 0
  /\ GoTo("sample")
  /\ UNCHANGED <<queueVars, resultVars, slotTask, batch, readerVars>>

(* A view of the batch is decoded: the whole batch or, when it was halved, *)
(* what the sampled slots left of it.                                      *)
Decoding == /\ ending = NoSlot
            /\ (pc = "decode" /\ batch # {}) \/ (pc = "sample" /\ todo # {})

(* llama_decode() fails: every slot that is processing gets the error.     *)
DecodeFails ==
  /\ DecodeMayFail /\ Decoding
  /\ todo' = Busy
  /\ nEmpty' = 0
  /\ GoTo("failing")
  /\ UNCHANGED <<queueVars, resultVars, slotVars, batch, readerVars>>

(* The draft context fails on a batch that the target context decoded: the *)
(* pass is given up, and the slots stay as they are.                       *)
DraftFails ==
  /\ DraftMayFail /\ Decoding
  /\ todo' = {} /\ nEmpty' = 0
  /\ GoTo("wait")
  /\ UNCHANGED <<queueVars, resultVars, slotVars, batch, readerVars>>

FailSlot(s) == Visit(s, "failing") /\ AnswerSlot(s, "error")

(* A token is sampled and process_token() wants more.                      *)
SampleToken(s) ==
  /\ Visit(s, "sample")
  /\ Kind[slotTask[s]] = "completion" /\ nDecoded[s] + 1 < NPredict
  /\ Send(slotTask[s], "partial")
  /\ slotState' = [slotState EXCEPT ![s] = "generating"]
  /\ nDecoded' = [nDecoded EXCEPT ![s] = @ + 1]
  /\ UNCHANGED <<queueVars, slotTask, ending, batch>>

(* An embedding is ready, or process_token() says stop.                    *)
SampleLast(s) == Visit(s, "sample") /\ AnswerSlot(s, "final")

EndPass ==
  /\ Visited("sample") \/ Visited("failing")
  /\ GoTo("wait")
  /\ UNCHANGED <<queueVars, resultVars, slotVars, todo, batch, nEmpty, readerVars>>

SlotStep(s) ==
  \/ JoinBatch(s) \/ ShiftFails(s) \/ RejectPrompt(s) \/ BatchPrompt(s)
  \/ PassOver(s) \/ FailSlot(s) \/ SampleToken(s) \/ SampleLast(s)

UpdateSlots ==
  \/ StartPass \/ ReleaseAnswered \/ ToPrompts \/ ToDecode \/ DecodeNothing
  \/ DecodeBatch \/ DecodeFails \/ DraftFails \/ EndPass
  \/ \E s \in Slots : SlotStep(s)

(* start_loop() waits until there is a task.                               *)
WakeUp ==
  /\ pc = "wait" /\ queue # <<>>
  /\ GoTo("drain")
  /\ UNCHANGED <<queueVars, resultVars, slotVars, todo, batch, nEmpty, readerVars>>

MainStep == PopTask \/ Dispatch \/ UpdateSlots \/ WakeUp

(* GGML_ABORT ends the whole process.                                      *)
Alive == pc # "aborted"

Next == MainStep \/ \E r \in Readers : Alive /\ ReaderStep(r)

Spec == Init /\ [][Next]_vars

(* The main thread and the HTTP threads keep running.  A client need not   *)
(* send its request, and need not disconnect.                              *)
Fairness ==
  /\ WF_vars(MainStep)
  /\ \A r \in Readers :
        /\ WF_vars(Alive /\ PostTasks(r)) /\ WF_vars(Alive /\ Recv(r))
        /\ WF_vars(Alive /\ Finish(r)) /\ WF_vars(Alive /\ PurgeResults(r))
        /\ WF_vars(Alive /\ PostCancels(r))

FairSpec == Spec /\ Fairness
-----------------------------------------------------------------------------
TypeOK ==
  /\ queue \in Seq(Items) /\ deferred \in Seq(Tasks)
  /\ waiting \subseteq Tasks /\ results \in Seq(ResultsOf(Tasks))
  /\ answered \subseteq Tasks
  /\ pc \in PcValues /\ current \in Items \cup {NoItem}
  /\ todo \subseteq Slots /\ ending \in Slots \cup {NoSlot} /\ batch \subseteq Slots
  /\ nEmpty \in Nat
  /\ slotTask \in [Slots -> Tasks \cup {NoTask}]
  /\ slotState \in [Slots -> SlotStates] /\ nDecoded \in [Slots -> 0 .. NPredict - 1]
  /\ reader \in [Readers -> ReaderStates]
  /\ received \in [Readers -> Nat] /\ got \in [Readers -> SUBSET Tasks]

Queued(t)   == Run(t) \in Elems(queue)
Deferred(t) == t \in Elems(deferred)
InFlight(t) == current = Run(t)
OnASlot(t)  == \E s \in Slots : slotTask[s] = t
Pending(t)  == Queued(t) \/ Deferred(t) \/ InFlight(t)
Family(t)   == {t} \cup Children[t]

(* No task is ever in two places: the threads move it between the queue,   *)
(* the deferred queue, the hands of the main thread and a slot, and a      *)
(* parent that still waits has none of its children on a slot.             *)
OnePlace ==
  /\ \A i, j \in DOMAIN queue :
        queue[i].type = "run" /\ queue[i] = queue[j] => i = j
  /\ \A i, j \in DOMAIN deferred : deferred[i] = deferred[j] => i = j
  /\ \A s1, s2 \in Slots :
        slotTask[s1] = slotTask[s2] /\ slotTask[s1] # NoTask => s1 = s2
  /\ \A t \in Tasks :
        /\ ~(Queued(t) /\ Deferred(t)) /\ ~(Queued(t) /\ InFlight(t))
        /\ ~(Deferred(t) /\ InFlight(t))
        /\ Pending(t) => \A u \in Family(t) : ~OnASlot(u)

(* A task that was answered is neither queued nor on a slot, except for    *)
(* the one being released, so it cannot be answered a second time.         *)
AnsweredOnce ==
  \A t \in answered :
     /\ ~Pending(t) /\ \A p \in ParentOf(t) : ~Pending(p)
     /\ \A s \in Slots : slotTask[s] = t => s = ending

(* What a stopped reader leaves behind: no result for its ids stays in     *)
(* queue_results, which nobody would ever remove.                          *)
NoOrphanResults ==
  \A r \in Readers : reader[r] \in {"purged", "closed"} =>
     Elems(results) \cap ResultsOf(Ids(r)) = {}

(* A reader that still reads has not lost a task: each one is on its way,  *)
(* or its answer is read or waiting to be, or an error will end them all.  *)
NoLostTask ==
  \A r \in Readers : reader[r] = "reading" =>
     \/ \E m \in Elems(results) : m.id \in Ids(r) /\ m.type = "error"
     \/ \A t \in Ids(r) :
          \/ Pending(t) \/ OnASlot(t) \/ t \in got[r]
          \/ \E p \in ParentOf(t) : Pending(p)
          \/ Result(t, "final") \in Elems(results)

(* A stopped reader cleaned up after itself: a task of its own that is     *)
(* still pending or on a slot has a cancel task that will find it there    *)
(* (server-queue.cpp: "if this is cancel task make sure to clean up        *)
(* pending tasks").  It fails when a client may leave (README, section 5). *)
CancelCatchesAll ==
  \A r \in Readers : reader[r] = "closed" =>
     \A t \in Ids(r) :
        Queued(t) \/ Deferred(t) \/ OnASlot(t) =>
           \/ Cancel(t) \in Elems(queue) \cup {current}
           \/ t \in answered

(* The loop does not go to wait with work on a slot: the NEXT_RESPONSE     *)
(* task of the pass is still queued.                                       *)
BusyLoopWakes ==
  pc = "wait" /\ Busy # {} => NextResponse \in Elems(queue)

(* A child that waits for its parent has a parent that will get there, or  *)
(* its cancel task is on its way, or a failed decode is about to end it.   *)
ChildNotAlone ==
  \A s \in InState({"wait_other"}) :
     \/ \E p \in InState({"started", "prompt", "done"}) :
           slotTask[s] \in Children[slotTask[p]]
     \/ Cancel(slotTask[s]) \in Elems(queue) \cup {current}
     \/ pc = "failing" /\ (s \in todo \/ s = ending)

(* The kill switch of update_slots() is never used: GGML_ABORT after more  *)
(* than MaxEmpty batches without a token.  It is (README, section 5).      *)
NeverAborts == Alive

(* What becomes of each task, as TaskService sees it.                      *)
StatusOf(t) ==
  IF t \in answered THEN "answered"
  ELSE IF OnASlot(t) THEN "running"
  ELSE IF Pending(t) \/ \E p \in ParentOf(t) : Pending(p) THEN "waiting"
  ELSE IF \E r \in Readers : t \in Ids(r) /\ reader[r] \in {"new", "registered"}
  THEN "none" ELSE "dropped"

ClientOf(r) == CASE reader[r] \in {"new", "registered"} -> "new"
                 [] reader[r] = "reading" -> "open"
                 [] OTHER -> "gone"

Service == INSTANCE TaskService
  WITH Clients <- Readers, Jobs <- Tasks, Owned <- [r \in Readers |-> Ids(r)],
       Capacity <- Cardinality(Slots),
       client <- [r \in Readers |-> ClientOf(r)],
       status <- [t \in Tasks |-> StatusOf(t)]

(* The queues, the slots and the threads together keep the promises of     *)
(* TaskService: no task is answered twice or lost, and none is dropped     *)
(* while its client still waits for it without an error.                   *)
ServesTasks == Service!ServiceSpec

(* A posted request comes to an end: answered, failed or cancelled.        *)
EveryRequestEnds ==
  \A r \in Readers : reader[r] = "registered" ~> reader[r] = "closed"

(* server-queue.h: a deferred task waits "until one slot is available".    *)
(* It fails when a task may be rejected at launch (README, section 5).     *)
DeferredIsServed ==
  \A t \in Tasks : Deferred(t) ~> ~Deferred(t)
=============================================================================
