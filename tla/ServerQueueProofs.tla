-------------------------- MODULE ServerQueueProofs --------------------------
(***************************************************************************)
(* Theorems about ServerQueue, for any readers, tasks, slots and kinds.    *)
(***************************************************************************)
EXTENDS ServerQueue, SeqOpsProofs

(* What the main thread knows about the slots, besides their types: a slot *)
(* is idle when it has no task, the slots still to be visited are busy,    *)
(* and between two loops of update_slots() none is left to be visited.     *)
PassOK ==
  /\ \A s \in Slots : Idle(s) <=> slotTask[s] = NoTask
  /\ todo \subseteq Busy
  /\ ending # NoSlot => ending \in Busy /\ ending \notin todo
  /\ pc \notin {"shift", "prompts", "failing", "sample"} => todo = {} /\ ending = NoSlot

TypeInv == TypeOK /\ PassOK
-----------------------------------------------------------------------------
(* The ids of a reader are tasks, finitely many.                           *)
LEMMA IdsType ==
  /\ \A r \in Readers : /\ Batch[r] \in Seq(Tasks) /\ Elems(Batch[r]) \subseteq Tasks
                        /\ Ids(r) \subseteq Tasks /\ IsFiniteSet(Ids(r))
                        /\ Cardinality(Ids(r)) \in Nat
                        /\ Elems(Batch[r]) \subseteq Tops
  /\ Tops \subseteq Tasks
  /\ \A t \in Tasks : Children[t] \subseteq Tasks
<1>1. \A t \in Tasks : Children[t] \subseteq Tasks
  BY ConstantsAssumption
<1>2. ASSUME NEW r \in Readers
      PROVE  /\ Batch[r] \in Seq(Tasks) /\ Elems(Batch[r]) \subseteq Tasks
             /\ Ids(r) \subseteq Tasks /\ IsFiniteSet(Ids(r))
             /\ Cardinality(Ids(r)) \in Nat
             /\ Elems(Batch[r]) \subseteq Tops
  <2>1. Batch[r] \in Seq(Tasks)
    BY ConstantsAssumption
  <2>2. Elems(Batch[r]) \subseteq Tasks
    BY <2>1 DEF Elems
  <2>3. Ids(r) \subseteq Tasks
    BY <1>1, <2>2 DEF Ids
  <2>4. IsFiniteSet(Ids(r))
    BY <2>3, ConstantsAssumption, FS_Subset
  <2>5. QED
    BY <2>1, <2>2, <2>3, <2>4, FS_CardinalityType DEF Tops
<1>3. Tops \subseteq Tasks
  BY <1>2 DEF Tops
<1>4. QED
  BY <1>1, <1>2, <1>3

(* pop_deferred_task() moves at most one task to the front of the queue.   *)
LEMMA PopDeferredStep ==
  ASSUME TypeOK, NEW s, PopDeferred(s)
  PROVE  \/ queue' = queue /\ deferred' = deferred
         \/ \E i \in DOMAIN deferred :
               /\ deferred[i] \in Tasks
               /\ queue' = Cons(Run(deferred[i]), queue)
               /\ deferred' = DropAt(deferred, i)
<1> DEFINE wanting == {t \in Elems(deferred) : IdSlot(t) = s}
           k == IF wanting = {} THEN 1 ELSE FirstIn(deferred, wanting)
<1>1. deferred \in Seq(Tasks)
  BY DEF TypeOK
<1>2. CASE deferred = <<>>
  BY <1>2 DEF PopDeferred, queueVars
<1>3. CASE deferred # <<>>
  <2>1. queue' = Cons(Run(deferred[k]), queue) /\ deferred' = DropAt(deferred, k)
    BY <1>3 DEF PopDeferred
  <2>2. k \in DOMAIN deferred
    <3>1. CASE wanting = {}
      BY <1>1, <1>3, <3>1
    <3>2. CASE wanting # {}
      <4>1. Elems(deferred) \cap wanting # {}
        BY <3>2
      <4> HIDE DEF wanting
      <4>2. QED
        BY <1>1, <3>2, <4>1, FirstInFound
    <3>3. QED
      BY <3>1, <3>2
  <2> HIDE DEF k
  <2>3. deferred[k] \in Tasks
    BY <1>1, <2>2, DropAtElems
  <2>4. QED
    BY <2>1, <2>2, <2>3
<1>4. QED
  BY <1>2, <1>3

(* Its effect on the types, and on the other elements of the queue.        *)
LEMMA PopDeferredType ==
  ASSUME TypeOK, NEW s, PopDeferred(s)
  PROVE  /\ queue' \in Seq(Items) /\ deferred' \in Seq(Tasks)
         /\ Elems(queue) \subseteq Elems(queue')
<1>1. queue \in Seq(Items) /\ deferred \in Seq(Tasks)
  BY DEF TypeOK
<1>2. CASE queue' = queue /\ deferred' = deferred
  BY <1>1, <1>2
<1>3. ASSUME NEW i \in DOMAIN deferred, deferred[i] \in Tasks,
             queue' = Cons(Run(deferred[i]), queue), deferred' = DropAt(deferred, i)
      PROVE  /\ queue' \in Seq(Items) /\ deferred' \in Seq(Tasks)
             /\ Elems(queue) \subseteq Elems(queue')
  <2>1. Run(deferred[i]) \in Items
    BY <1>3 DEF Items
  <2>2. QED
    BY <1>1, <1>3, <2>1, ConsElems, DropAtElems
<1>4. QED
  BY <1>2, <1>3, PopDeferredStep

(* send() puts one result into the result queue or discards it.            *)
LEMMA SendType ==
  ASSUME TypeOK, NEW t \in Tasks, NEW type \in {"partial", "final", "error"}, Send(t, type)
  PROVE  /\ results' \in Seq(ResultsOf(Tasks)) /\ answered' \subseteq Tasks
         /\ waiting' = waiting
<1>1. Result(t, type) \in ResultsOf(Tasks)
  BY DEF Result, ResultsOf
<1>2. results \in Seq(ResultsOf(Tasks))
  BY DEF TypeOK
<1>3. Append(results, Result(t, type)) \in Seq(ResultsOf(Tasks))
  BY <1>1, <1>2
<1>4. QED
  BY <1>2, <1>3 DEF Send, TypeOK
-----------------------------------------------------------------------------
(* Type correctness, one lemma per group of actions, the initial state     *)
(* first.                                                                  *)
LEMMA InitType == Init => TypeInv
<1> SUFFICES ASSUME Init PROVE TypeInv
  OBVIOUS
<1>1. TypeOK
  BY ConstantsAssumption
  DEF Init, TypeOK, PcValues, SlotStates, ReaderStates, ResultsOf, Items, NoItem
<1>2. PassOK
  BY DEF Init, PassOK, Idle, Busy
<1>3. QED
  BY <1>1, <1>2 DEF TypeInv

(* Of the passes, the slots and the main thread an HTTP thread changes     *)
(* nothing.                                                                *)
LEMMA ReaderType ==
  ASSUME TypeInv, NEW r \in Readers, ReaderStep(r)
  PROVE  TypeInv'
<1> USE DEF TypeInv
<1>1. /\ queue \in Seq(Items) /\ deferred \in Seq(Tasks)
      /\ results \in Seq(ResultsOf(Tasks))
      /\ waiting \subseteq Tasks
      /\ reader \in [Readers -> ReaderStates]
      /\ received \in [Readers -> Nat] /\ got \in [Readers -> SUBSET Tasks]
  BY DEF TypeOK
<1>2. UNCHANGED <<slotVars, passVars, answered>>
  BY DEF ReaderStep, AddWaiting, PostTasks, Recv, Finish, Disconnect, Stop,
         PurgeResults, PostCancels, slotVars, passVars, resultVars
<1>3. PassOK'
  BY <1>2 DEF PassOK, Idle, Busy, slotVars, passVars
<1>4. /\ queue' \in Seq(Items) /\ deferred' \in Seq(Tasks)
      /\ results' \in Seq(ResultsOf(Tasks))
      /\ waiting' \subseteq Tasks
      /\ reader' \in [Readers -> ReaderStates]
      /\ received' \in [Readers -> Nat] /\ got' \in [Readers -> SUBSET Tasks]
  <2>1. CASE AddWaiting(r)
    BY <1>1, <2>1, IdsType DEF AddWaiting, queueVars, ReaderStates
  <2>2. CASE PostTasks(r)
    <3> DEFINE posted == [i \in 1 .. Len(Batch[r]) |-> Run(Batch[r][i])]
    <3>1. posted \in Seq(Items)
      BY IdsType DEF Items
    <3>2. queue \o posted \in Seq(Items)
      BY <1>1, <3>1
    <3>3. QED
      BY <1>1, <2>2, <3>2 DEF PostTasks, resultVars, ReaderStates
  <2>3. CASE Recv(r)
    <3> DEFINE i == FirstIn(results, ResultsOf(Ids(r)))
    <3>1. i \in DOMAIN results
      BY <1>1, <2>3, FirstInFound DEF Recv
    <3> HIDE DEF i
    <3>2. DropAt(results, i) \in Seq(ResultsOf(Tasks)) /\ results[i] \in ResultsOf(Tasks)
      BY <1>1, <3>1, DropAtElems
    <3>3. results[i].id \in Tasks
      BY <3>2 DEF ResultsOf
    <3>4. /\ results' = DropAt(results, i)
          /\ UNCHANGED <<queue, deferred, waiting>>
          /\ \/ UNCHANGED <<reader, received, got>>
             \/ /\ received' = [received EXCEPT ![r] = @ + 1]
                /\ got' = [got EXCEPT ![r] = @ \cup {results[i].id}]
                /\ UNCHANGED reader
             \/ /\ reader' = [reader EXCEPT ![r] = "failed"]
                /\ UNCHANGED <<received, got>>
      BY <2>3 DEF Recv, readerVars, queueVars, i
    <3>5. results' \in Seq(ResultsOf(Tasks))
      BY <3>2, <3>4
    <3>6. reader' \in [Readers -> ReaderStates]
      BY <1>1, <3>4 DEF ReaderStates
    <3>7. received' \in [Readers -> Nat]
      <4>1. received' = received \/ received' = [received EXCEPT ![r] = @ + 1]
        BY <3>4
      <4>2. received[r] + 1 \in Nat
        BY <1>1
      <4>3. QED
        BY <1>1, <4>1, <4>2
    <3>8. got' \in [Readers -> SUBSET Tasks]
      BY <1>1, <3>3, <3>4
    <3>9. QED
      BY <1>1, <3>4, <3>5, <3>6, <3>7, <3>8
  <2>4. CASE Finish(r) \/ Disconnect(r)
    BY <1>1, <2>4 DEF Finish, Disconnect, Stop, queueVars, ReaderStates
  <2>5. CASE PurgeResults(r)
    <3>1. Drop(results, ResultsOf(Ids(r))) \in Seq(ResultsOf(Tasks))
      BY <1>1, DropElems
    <3>2. QED
      BY <1>1, <2>5, <3>1 DEF PurgeResults, queueVars, ReaderStates
  <2>6. CASE PostCancels(r)
    <3>1. PICK order \in [1 .. Cardinality(Ids(r)) -> Ids(r)] :
             queue' = [i \in 1 .. Cardinality(Ids(r)) |-> Cancel(order[i])]
                        \o Drop(queue, {Run(t) : t \in Ids(r)})
      BY <2>6 DEF PostCancels
    <3> DEFINE cancels == [i \in 1 .. Cardinality(Ids(r)) |-> Cancel(order[i])]
               rest == Drop(queue, {Run(t) : t \in Ids(r)})
    <3>2. cancels \in Seq(Items)
      BY IdsType DEF Items
    <3>3. rest \in Seq(Items)
      BY <1>1, DropElems
    <3>4. Drop(deferred, Ids(r)) \in Seq(Tasks)
      BY <1>1, DropElems
    <3>5. cancels \o rest \in Seq(Items)
      <4> HIDE DEF cancels, rest
      <4> QED BY <3>2, <3>3
    <3>6. QED
      BY <1>1, <2>6, <3>1, <3>4, <3>5 DEF PostCancels, resultVars, ReaderStates
  <2>7. QED
    BY <2>1, <2>2, <2>3, <2>4, <2>5, <2>6 DEF ReaderStep
<1>5. QED
  BY <1>2, <1>3, <1>4 DEF TypeOK, slotVars, passVars

(* The main thread pops a task and dispatches it.                          *)
LEMMA PopTaskType ==
  ASSUME TypeInv, PopTask
  PROVE  TypeInv'
<1>1. CASE queue = <<>>
  BY <1>1 DEF PopTask, TypeInv, TypeOK, PassOK, PcValues, Idle, Busy,
              resultVars, slotVars, readerVars
<1>2. CASE queue # <<>>
  <2>1. Head(queue) \in Items /\ Tail(queue) \in Seq(Items)
    BY <1>2, TailElems DEF TypeInv, TypeOK
  <2>2. TypeOK'
    BY <1>2, <2>1 DEF PopTask, TypeInv, TypeOK, PcValues,
                      resultVars, slotVars, readerVars
  <2>3. PassOK'
    BY <1>2 DEF PopTask, TypeInv, PassOK, Idle, Busy, slotVars
  <2>4. QED
    BY <2>2, <2>3 DEF TypeInv
<1>3. QED
  BY <1>1, <1>2

(* The id of a task in the hands of the main thread.                       *)
LEMMA CurrentType ==
  ASSUME TypeOK
  PROVE  /\ current.type = "run" => current = Run(current.id) /\ current.id \in Tasks
         /\ current.type = "cancel" => current = Cancel(current.id) /\ current.id \in Tasks
<1>1. current \in Items \cup {NoItem}
  BY DEF TypeOK
<1>2. QED
  BY <1>1 DEF Items, NoItem, Run, Cancel, NextResponse

(* release() of a busy slot that is not to be visited.                     *)
LEMMA ReleaseType ==
  ASSUME TypeInv, NEW s \in Slots, Release(s), s \notin todo
  PROVE  /\ queue' \in Seq(Items) /\ deferred' \in Seq(Tasks)
         /\ Elems(queue) \subseteq Elems(queue')
         /\ slotTask' \in [Slots -> Tasks \cup {NoTask}]
         /\ slotState' \in [Slots -> SlotStates]
         /\ nDecoded' \in [Slots -> 0 .. NPredict - 1]
         /\ \A x \in Slots : Idle(x)' <=> slotTask'[x] = NoTask
         /\ Busy' = Busy \ {s}
<1>1. /\ slotTask \in [Slots -> Tasks \cup {NoTask}]
      /\ slotState \in [Slots -> SlotStates]
      /\ nDecoded \in [Slots -> 0 .. NPredict - 1]
      /\ \A x \in Slots : slotState[x] = "idle" <=> slotTask[x] = NoTask
  BY DEF TypeInv, TypeOK, PassOK, Idle
<1>2. /\ slotTask' = [slotTask EXCEPT ![s] = NoTask]
      /\ slotState' = [slotState EXCEPT ![s] = "idle"]
      /\ nDecoded' = nDecoded
      /\ PopDeferred(s)
  BY DEF Release
<1>3. /\ queue' \in Seq(Items) /\ deferred' \in Seq(Tasks)
      /\ Elems(queue) \subseteq Elems(queue')
  BY <1>2, PopDeferredType DEF TypeInv
<1>4. QED
  BY <1>1, <1>2, <1>3 DEF Idle, Busy, SlotStates

(* What launching task t on slot s and its children as in place does to    *)
(* the slots.                                                              *)
Placed(t, s, place) ==
  /\ \A c, d \in Children[t] : place[c] = place[d] => c = d
  /\ slotTask' = [x \in Slots |->
        IF x = s THEN t
        ELSE IF \E c \in Children[t] : place[c] = x
             THEN CHOOSE c \in Children[t] : place[c] = x
             ELSE slotTask[x]]
  /\ slotState' = [x \in Slots |->
        IF x = s THEN "started"
        ELSE IF \E c \in Children[t] : place[c] = x
             THEN "wait_other" ELSE slotState[x]]

(* The idle slots of a new task and its children become busy, no other.    *)
LEMMA LaunchType ==
  ASSUME TypeInv, LaunchTask
  PROVE  TypeInv'
<1> DEFINE t == current.id
<1>1. t \in Tasks /\ Children[t] \subseteq Tasks /\ t # NoTask
  BY CurrentType, ConstantsAssumption, IdsType DEF TypeInv, LaunchTask, Dispatching
<1>2. \A c \in Children[t] : c # NoTask
  BY <1>1, ConstantsAssumption
<1> HIDE DEF t
<1>3. \E s \in Candidates(t) : \E place \in [Children[t] -> Free \ {s}] : Placed(t, s, place)
  BY DEF LaunchTask, Placed, t
<1>4. PICK s \in Candidates(t) : \E place \in [Children[t] -> Free \ {s}] : Placed(t, s, place)
  BY <1>3
<1>5. PICK place \in [Children[t] -> Free \ {s}] : Placed(t, s, place)
  BY <1>4
<1>6. ASSUME NEW x \in Slots
      PROVE  /\ slotTask'[x] \in Tasks \cup {NoTask} /\ slotState'[x] \in SlotStates
             /\ slotState'[x] = "idle" <=> slotTask'[x] = NoTask
             /\ slotState'[x] = "idle" => slotState[x] = "idle"
  <2>1. CASE x = s
    BY <1>1, <1>5, <2>1 DEF Placed, SlotStates
  <2>2. CASE x # s /\ \E c \in Children[t] : place[c] = x
    <3>1. slotTask'[x] \in Children[t] /\ slotState'[x] = "wait_other"
      BY <1>5, <2>2 DEF Placed
    <3>2. QED
      BY <1>1, <1>2, <3>1 DEF SlotStates
  <2>3. CASE x # s /\ ~\E c \in Children[t] : place[c] = x
    <3>1. slotTask'[x] = slotTask[x] /\ slotState'[x] = slotState[x]
      BY <1>5, <2>3 DEF Placed
    <3>2. QED
      BY <3>1 DEF TypeInv, TypeOK, PassOK, Idle
  <2>4. QED
    BY <2>1, <2>2, <2>3
<1>7. /\ slotTask' \in [Slots -> Tasks \cup {NoTask}]
      /\ slotState' \in [Slots -> SlotStates]
  BY <1>5, <1>6 DEF Placed
<1>8. pc = "dispatch" /\ pc' = "drain" /\ current' = NoItem /\ nEmpty' = 0
      /\ UNCHANGED <<queue, deferred, waiting, results, answered, nDecoded,
                     todo, ending, batch, reader, received, got>>
  BY DEF LaunchTask, Dispatching, Dispatched, queueVars, resultVars, readerVars
<1>9. TypeOK'
  BY <1>7, <1>8 DEF TypeInv, TypeOK, PcValues
<1>10. PassOK'
  BY <1>6, <1>8 DEF TypeInv, PassOK, Idle, Busy
<1>11. QED
  BY <1>9, <1>10 DEF TypeInv

(* process_single_task(), whatever the task.                               *)
LEMMA DispatchType ==
  ASSUME TypeInv, Dispatch
  PROVE  TypeInv'
<1>1. pc = "dispatch" /\ todo = {} /\ ending = NoSlot
  BY DEF Dispatch, DeferTask, LaunchTask, LaunchFails, AnswerAtOnce, CancelTask,
         SkipNext, Dispatching, TypeInv, PassOK
<1>2. CASE LaunchTask
  BY <1>2, LaunchType
<1>3. CASE ~LaunchTask
  <2>1. /\ pc' = "drain" /\ current' = NoItem /\ nEmpty' = nEmpty
        /\ UNCHANGED <<todo, ending, batch, reader, received, got>>
    BY <1>3 DEF Dispatch, DeferTask, LaunchFails, AnswerAtOnce, CancelTask,
           SkipNext, Dispatched, readerVars
  <2>2. /\ queue' \in Seq(Items) /\ deferred' \in Seq(Tasks)
        /\ slotTask' \in [Slots -> Tasks \cup {NoTask}]
        /\ slotState' \in [Slots -> SlotStates]
        /\ nDecoded' \in [Slots -> 0 .. NPredict - 1]
        /\ \A x \in Slots : Idle(x)' <=> slotTask'[x] = NoTask
        /\ results' \in Seq(ResultsOf(Tasks)) /\ answered' \subseteq Tasks
        /\ waiting' = waiting
    <3>1. CASE DeferTask
      <4>1. Append(deferred, current.id) \in Seq(Tasks)
        BY <3>1, CurrentType DEF DeferTask, Dispatching, TypeInv, TypeOK
      <4>2. QED
        BY <3>1, <4>1 DEF DeferTask, TypeInv, TypeOK, PassOK, Idle, resultVars, slotVars
    <3>2. CASE LaunchFails
      <4>1. PICK x \in Tasks : Send(x, "error")
        <5>1. current.id \in Tasks /\ Children[current.id] \subseteq Tasks
          BY <3>2, CurrentType, IdsType DEF LaunchFails, Dispatching, TypeInv
        <5>2. QED
          BY <3>2, <5>1 DEF LaunchFails
      <4>2. QED
        BY <3>2, <4>1, SendType DEF LaunchFails, TypeInv, TypeOK, PassOK, Idle, queueVars, slotVars
    <3>3. CASE AnswerAtOnce
      <4>1. PICK type \in {"final", "error"} : Send(current.id, type)
        BY <3>3 DEF AnswerAtOnce
      <4>2. current.id \in Tasks
        BY <3>3, CurrentType DEF AnswerAtOnce, Dispatching, TypeInv
      <4>3. QED
        BY <3>3, <4>1, <4>2, SendType DEF AnswerAtOnce, TypeInv, TypeOK, PassOK, Idle, queueVars, slotVars
    <3>4. CASE CancelTask
      <4>1. CASE UNCHANGED <<queueVars, slotVars>>
        BY <3>4, <4>1 DEF CancelTask, TypeInv, TypeOK, PassOK, Idle, queueVars, slotVars, resultVars
      <4>2. CASE \E s \in Slots : Release(s)
        BY <1>1, <3>4, <4>2, ReleaseType DEF CancelTask, TypeInv, TypeOK, resultVars
      <4>3. QED
        BY <3>4, <4>1, <4>2 DEF CancelTask, Busy
    <3>5. CASE SkipNext
      BY <3>5 DEF SkipNext, TypeInv, TypeOK, PassOK, Idle, queueVars, slotVars, resultVars
    <3>6. QED
      BY <1>3, <3>1, <3>2, <3>3, <3>4, <3>5 DEF Dispatch
  <2>3. TypeOK'
    BY <2>1, <2>2 DEF TypeInv, TypeOK, PcValues
  <2>4. PassOK'
    BY <1>1, <2>1, <2>2 DEF PassOK
  <2>5. QED
    BY <2>3, <2>4 DEF TypeInv
<1>4. QED
  BY <1>2, <1>3

(* A slot that is visited by one of the loops of update_slots().           *)
LEMMA VisitType ==
  ASSUME TypeInv, NEW s \in Slots, NEW label, Visit(s, label)
  PROVE  /\ slotTask[s] \in Tasks /\ s \in Busy /\ ending = NoSlot
         /\ pc \in {"shift", "prompts", "failing", "sample"}
         /\ todo' = todo \ {s} /\ UNCHANGED <<pc, current, nEmpty, readerVars>>
BY DEF Visit, TypeInv, TypeOK, PassOK, Busy, Idle

(* The answer of a visited slot is sent.                                   *)
LEMMA AnswerSlotType ==
  ASSUME TypeInv, NEW s \in Slots, NEW label, Visit(s, label),
         NEW type \in {"final", "error"}, AnswerSlot(s, type)
  PROVE  TypeInv'
<1>1. /\ slotTask[s] \in Tasks /\ s \in Busy /\ ending = NoSlot
      /\ pc \in {"shift", "prompts", "failing", "sample"}
      /\ todo' = todo \ {s} /\ UNCHANGED <<pc, current, nEmpty, readerVars>>
  BY VisitType
<1>2. /\ results' \in Seq(ResultsOf(Tasks)) /\ answered' \subseteq Tasks
      /\ waiting' = waiting
  BY <1>1, SendType DEF AnswerSlot, TypeInv
<1>3. TypeOK'
  BY <1>1, <1>2 DEF AnswerSlot, TypeInv, TypeOK, queueVars, slotVars, readerVars
<1>4. PassOK'
  BY <1>1 DEF AnswerSlot, TypeInv, PassOK, Idle, Busy, slotVars
<1>5. QED
  BY <1>3, <1>4 DEF TypeInv

(* One slot in one of the loops of update_slots().                         *)
LEMMA SlotStepType ==
  ASSUME TypeInv, NEW s \in Slots, SlotStep(s)
  PROVE  TypeInv'
<1>1. CASE ShiftFails(s) \/ RejectPrompt(s) \/ FailSlot(s) \/ SampleLast(s)
  <2>1. \E label : Visit(s, label) /\ \E type \in {"final", "error"} : AnswerSlot(s, type)
    BY <1>1 DEF ShiftFails, RejectPrompt, FailSlot, SampleLast
  <2>2. QED
    BY <2>1, AnswerSlotType
<1>2. CASE JoinBatch(s)
  <2>1. Visit(s, "shift")
    BY <1>2 DEF JoinBatch
  <2>2. TypeOK'
    BY <1>2, <2>1, VisitType DEF JoinBatch, TypeInv, TypeOK, queueVars, resultVars, slotVars, readerVars
  <2>3. PassOK'
    BY <1>2, <2>1, VisitType DEF JoinBatch, TypeInv, PassOK, Idle, Busy, slotVars
  <2>4. QED
    BY <2>2, <2>3 DEF TypeInv
<1>3. CASE BatchPrompt(s)
  <2>1. Visit(s, "prompts")
    BY <1>3 DEF BatchPrompt
  <2>2. /\ \/ /\ slotState' = [slotState EXCEPT ![s] = "done"]
             /\ nDecoded' = [nDecoded EXCEPT ![s] = 0]
          \/ /\ slotState' = [slotState EXCEPT ![s] = "prompt"]
             /\ nDecoded' = nDecoded
        /\ batch' = batch \cup {s}
        /\ UNCHANGED <<queue, deferred, waiting, results, answered, slotTask, ending>>
    BY <1>3 DEF BatchPrompt, queueVars, resultVars
  <2>3. nDecoded' \in [Slots -> 0 .. NPredict - 1]
    <3>1. 0 \in 0 .. NPredict - 1
      BY ConstantsAssumption
    <3>2. nDecoded \in [Slots -> 0 .. NPredict - 1]
      BY DEF TypeInv, TypeOK
    <3>3. QED
      BY <2>2, <3>1, <3>2
  <2>4. slotState' \in [Slots -> SlotStates] /\ \A x \in Slots : Idle(x)' <=> Idle(x)
    <3>1. slotState \in [Slots -> SlotStates] /\ slotState[s] # "idle"
      BY <2>1, VisitType DEF TypeInv, TypeOK, Busy, Idle
    <3>2. QED
      BY <2>2, <3>1 DEF SlotStates, Idle
  <2>5. TypeOK'
    BY <2>1, <2>2, <2>3, <2>4, VisitType DEF TypeInv, TypeOK, readerVars
  <2>6. PassOK'
    BY <2>1, <2>2, <2>4, VisitType DEF TypeInv, PassOK, Busy
  <2>7. QED
    BY <2>5, <2>6 DEF TypeInv
<1>4. CASE PassOver(s)
  <2>1. Visit(s, pc)
    BY <1>4 DEF PassOver
  <2>2. TypeOK'
    BY <1>4, <2>1, VisitType DEF PassOver, TypeInv, TypeOK, queueVars, resultVars, slotVars, readerVars
  <2>3. PassOK'
    BY <1>4, <2>1, VisitType DEF PassOver, TypeInv, PassOK, Idle, Busy, slotVars
  <2>4. QED
    BY <2>2, <2>3 DEF TypeInv
<1>5. CASE SampleToken(s)
  <2>1. Visit(s, "sample")
    BY <1>5 DEF SampleToken
  <2>2. /\ slotState' = [slotState EXCEPT ![s] = "generating"]
        /\ nDecoded[s] + 1 < NPredict /\ nDecoded' = [nDecoded EXCEPT ![s] = @ + 1]
        /\ Send(slotTask[s], "partial")
        /\ UNCHANGED <<queue, deferred, slotTask, ending, batch>>
    BY <1>5 DEF SampleToken, queueVars
  <2>3. nDecoded' \in [Slots -> 0 .. NPredict - 1]
    <3>1. nDecoded \in [Slots -> 0 .. NPredict - 1] /\ NPredict \in Nat
      BY ConstantsAssumption DEF TypeInv, TypeOK
    <3>2. nDecoded[s] + 1 \in 0 .. NPredict - 1
      BY <2>2, <3>1
    <3>3. QED
      BY <2>2, <3>1, <3>2
  <2>4. slotState' \in [Slots -> SlotStates] /\ \A x \in Slots : Idle(x)' <=> Idle(x)
    <3>1. slotState \in [Slots -> SlotStates] /\ slotState[s] # "idle"
      BY <2>1, VisitType DEF TypeInv, TypeOK, Busy, Idle
    <3>2. QED
      BY <2>2, <3>1 DEF SlotStates, Idle
  <2>5. /\ results' \in Seq(ResultsOf(Tasks)) /\ answered' \subseteq Tasks
        /\ waiting' = waiting
    BY <2>1, <2>2, VisitType, SendType DEF TypeInv
  <2>6. TypeOK'
    BY <2>1, <2>2, <2>3, <2>4, <2>5, VisitType DEF TypeInv, TypeOK, readerVars
  <2>7. PassOK'
    BY <2>1, <2>2, <2>4, VisitType DEF TypeInv, PassOK, Busy
  <2>8. QED
    BY <2>6, <2>7 DEF TypeInv
<1>6. QED
  BY <1>1, <1>2, <1>3, <1>4, <1>5 DEF SlotStep

(* update_slots() between its loops.                                       *)
LEMMA PassType ==
  ASSUME TypeInv, UpdateSlots
  PROVE  TypeInv'
<1>1. CASE \E s \in Slots : SlotStep(s)
  BY <1>1, SlotStepType
<1>2. CASE ReleaseAnswered
  <2>1. ending \in Slots /\ ending \in Busy /\ ending \notin todo /\ Release(ending)
    BY <1>2 DEF ReleaseAnswered, TypeInv, PassOK, Busy
  <2>2. /\ queue' \in Seq(Items) /\ deferred' \in Seq(Tasks)
        /\ slotTask' \in [Slots -> Tasks \cup {NoTask}]
        /\ slotState' \in [Slots -> SlotStates]
        /\ nDecoded' \in [Slots -> 0 .. NPredict - 1]
        /\ \A x \in Slots : Idle(x)' <=> slotTask'[x] = NoTask
        /\ Busy' = Busy \ {ending}
    BY <2>1, ReleaseType
  <2>3. TypeOK'
    BY <1>2, <2>2 DEF ReleaseAnswered, TypeInv, TypeOK, resultVars, readerVars
  <2>4. PassOK'
    BY <1>2, <2>1, <2>2 DEF ReleaseAnswered, TypeInv, PassOK
  <2>5. QED
    BY <2>3, <2>4 DEF TypeInv
<1>3. CASE StartPass
  <2>1. Append(queue, NextResponse) \in Seq(Items)
    BY AppendElems DEF TypeInv, TypeOK, Items
  <2>2. TypeOK'
    BY <1>3, <2>1 DEF StartPass, GoTo, InState, TypeInv, TypeOK, PcValues, resultVars, slotVars, readerVars
  <2>3. PassOK'
    BY <1>3 DEF StartPass, GoTo, InState, TypeInv, PassOK, Idle, Busy, slotVars
  <2>4. QED
    BY <2>2, <2>3 DEF TypeInv
<1>4. CASE ToPrompts \/ ToDecode \/ EndPass
  <2>1. TypeOK'
    BY <1>4 DEF ToPrompts, ToDecode, EndPass, GoTo, InState, TypeInv, TypeOK, PcValues,
                queueVars, resultVars, slotVars, readerVars
  <2>2. PassOK'
    BY <1>4 DEF ToPrompts, ToDecode, EndPass, Visited, GoTo, InState, TypeInv, PassOK, Idle, Busy, slotVars
  <2>3. QED
    BY <2>1, <2>2 DEF TypeInv
<1>5. CASE DecodeNothing \/ DecodeFails \/ DraftFails
  <2>1. nEmpty' \in Nat
    BY <1>5 DEF DecodeNothing, DecodeFails, DraftFails, TypeInv, TypeOK
  <2>2. TypeOK'
    BY <1>5, <2>1 DEF DecodeNothing, DecodeFails, DraftFails, GoTo, Busy, TypeInv, TypeOK, PcValues,
                queueVars, resultVars, slotVars, readerVars
  <2>3. PassOK'
    BY <1>5 DEF DecodeNothing, DecodeFails, DraftFails, Decoding, GoTo, TypeInv, PassOK, Idle, Busy, slotVars
  <2>4. QED
    BY <2>2, <2>3 DEF TypeInv
<1>6. CASE DecodeBatch
  <2>1. /\ slotState' = [s \in Slots |-> IF s \in Activated THEN "done" ELSE slotState[s]]
        /\ nDecoded' = [s \in Slots |-> IF s \in Activated THEN 0 ELSE nDecoded[s]]
        /\ pc = "decode" /\ pc' = "sample" /\ nEmpty' = 0
        /\ UNCHANGED <<queue, deferred, waiting, results, answered, slotTask, batch,
                       current, ending, reader, received, got>>
    BY <1>6 DEF DecodeBatch, GoTo, queueVars, resultVars, readerVars
  <2>2. Activated \subseteq Busy
    BY DEF Activated, InState, Busy, Idle
  <2>3. todo' \subseteq Busy
    BY <1>6, <2>2 DEF DecodeBatch, InState, Busy, Idle
  <2>4. nDecoded' \in [Slots -> 0 .. NPredict - 1]
    <3>1. 0 \in 0 .. NPredict - 1
      BY ConstantsAssumption
    <3>2. nDecoded \in [Slots -> 0 .. NPredict - 1]
      BY DEF TypeInv, TypeOK
    <3>3. QED
      BY <2>1, <3>1, <3>2
  <2>5. slotState' \in [Slots -> SlotStates] /\ \A x \in Slots : Idle(x)' <=> Idle(x)
    BY <2>1, <2>2 DEF TypeInv, TypeOK, SlotStates, Idle, Busy
  <2>6. TypeOK'
    BY <2>1, <2>3, <2>4, <2>5 DEF TypeInv, TypeOK, PcValues, Busy
  <2>7. PassOK'
    BY <2>1, <2>3, <2>5 DEF TypeInv, PassOK, Busy
  <2>8. QED
    BY <2>6, <2>7 DEF TypeInv
<1>7. QED
  BY <1>1, <1>2, <1>3, <1>4, <1>5, <1>6 DEF UpdateSlots

(* Every step keeps the types.                                             *)
LEMMA NextType == TypeInv /\ [Next]_vars => TypeInv'
<1> SUFFICES ASSUME TypeInv, [Next]_vars PROVE TypeInv'
  OBVIOUS
<1>1. CASE \E r \in Readers : ReaderStep(r)
  BY <1>1, ReaderType
<1>2. CASE PopTask \/ Dispatch \/ UpdateSlots
  BY <1>2, PopTaskType, DispatchType, PassType
<1>3. CASE WakeUp
  BY <1>3 DEF WakeUp, GoTo, TypeInv, TypeOK, PassOK, PcValues, Idle, Busy,
              queueVars, resultVars, slotVars, readerVars
<1>4. CASE UNCHANGED vars
  BY <1>4 DEF vars, queueVars, resultVars, slotVars, passVars, readerVars,
              TypeInv, TypeOK, PassOK, Idle, Busy
<1>5. QED
  BY <1>1, <1>2, <1>3, <1>4 DEF Next, MainStep

(* The types are those declared, in every reachable state: among them, a   *)
(* slot never counts as many tokens as n_predict (n_decoded is reset where *)
(* a prompt is done and where a child takes over, and a generation that    *)
(* reaches n_predict is answered), so no slot generates for ever.          *)
THEOREM TypeCorrect == Spec => []TypeOK
<1>1. Init => TypeInv
  BY InitType
<1>2. TypeInv /\ [Next]_vars => TypeInv'
  BY NextType
<1>3. TypeInv => TypeOK
  BY DEF TypeInv
<1>4. QED
  BY <1>1, <1>2, <1>3, PTL DEF Spec
-----------------------------------------------------------------------------
(* The NEXT_RESPONSE task of a pass is queued until the loop pops it.      *)
WakeInv ==
  /\ pc \in {"shift", "prompts", "decode", "failing", "sample"} =>
        NextResponse \in Elems(queue)
  /\ BusyLoopWakes

(* No HTTP thread removes it.                                              *)
LEMMA ReaderKeepsNext ==
  ASSUME TypeInv, NEW r \in Readers, ReaderStep(r), NextResponse \in Elems(queue)
  PROVE  NextResponse \in Elems(queue')
<1>1. queue \in Seq(Items)
  BY DEF TypeInv, TypeOK
<1>2. CASE queue' = queue
  BY <1>2
<1>3. CASE PostTasks(r)
  <2> DEFINE posted == [i \in 1 .. Len(Batch[r]) |-> Run(Batch[r][i])]
  <2>1. posted \in Seq(Items)
    BY IdsType DEF Items
  <2>2. queue' = queue \o posted
    BY <1>3 DEF PostTasks
  <2> HIDE DEF posted
  <2>3. QED
    BY <1>1, <2>1, <2>2, ConcatElems
<1>4. CASE PostCancels(r)
  <2>1. PICK order \in [1 .. Cardinality(Ids(r)) -> Ids(r)] :
           queue' = [i \in 1 .. Cardinality(Ids(r)) |-> Cancel(order[i])]
                      \o Drop(queue, {Run(t) : t \in Ids(r)})
    BY <1>4 DEF PostCancels
  <2> DEFINE cancels == [i \in 1 .. Cardinality(Ids(r)) |-> Cancel(order[i])]
             rest == Drop(queue, {Run(t) : t \in Ids(r)})
  <2>2. cancels \in Seq(Items)
    BY IdsType DEF Items
  <2>3. rest \in Seq(Items) /\ Elems(rest) = Elems(queue) \ {Run(t) : t \in Ids(r)}
    BY <1>1, DropElems
  <2>4. NextResponse \notin {Run(t) : t \in Ids(r)}
    BY DEF NextResponse, Run
  <2>5. Elems(cancels \o rest) = Elems(cancels) \cup Elems(rest)
    <3> HIDE DEF cancels, rest
    <3> QED BY <2>2, <2>3, ConcatElems
  <2>6. QED
    BY <2>1, <2>3, <2>4, <2>5
<1>5. QED
  BY <1>2, <1>3, <1>4 DEF ReaderStep, AddWaiting, Recv, Finish, Disconnect, Stop,
                          PurgeResults, queueVars

(* BusyLoopWakes: whatever the threads do, the loop never goes to wait for *)
(* a new task with a slot that is processing and no NEXT_RESPONSE task in  *)
(* the queue, which would leave a generation without a next token.         *)
THEOREM BusyLoopNeverWaits == Spec => []BusyLoopWakes
<1>1. Init => TypeInv /\ WakeInv
  BY InitType DEF Init, WakeInv, BusyLoopWakes
<1>2. TypeInv /\ WakeInv /\ [Next]_vars => TypeInv' /\ WakeInv'
  <2> SUFFICES ASSUME TypeInv, WakeInv, [Next]_vars PROVE TypeInv' /\ WakeInv'
    OBVIOUS
  <2>1. TypeInv'
    BY NextType
  <2>2. CASE \E r \in Readers : ReaderStep(r)
    <3>1. PICK r \in Readers : ReaderStep(r)
      BY <2>2
    <3>2. UNCHANGED <<pc, slotState>>
      BY <3>1 DEF ReaderStep, AddWaiting, PostTasks, Recv, Finish, Disconnect, Stop,
                  PurgeResults, PostCancels, slotVars, passVars
    <3>3. QED
      BY <2>1, <3>1, <3>2, ReaderKeepsNext DEF WakeInv, BusyLoopWakes, Busy, Idle
  <2>3. CASE PopTask \/ Dispatch
    <3>1. pc' \in {"update", "dispatch", "drain"}
      BY <2>3 DEF PopTask, Dispatch, DeferTask, LaunchTask, LaunchFails, AnswerAtOnce,
                  CancelTask, SkipNext, Dispatched
    <3>2. QED
      BY <2>1, <3>1 DEF WakeInv, BusyLoopWakes
  <2>4. CASE StartPass
    <3>1. CASE Busy = {}
      BY <2>1, <2>4, <3>1 DEF StartPass, GoTo, WakeInv, BusyLoopWakes, Busy, Idle, slotVars
    <3>2. CASE Busy # {}
      <4>1. queue' = Append(queue, NextResponse) /\ pc' = "shift"
        BY <2>4, <3>2 DEF StartPass, GoTo
      <4>2. queue \in Seq(Items) /\ NextResponse \in Items
        BY DEF TypeInv, TypeOK, Items
      <4>3. NextResponse \in Elems(queue')
        BY <4>1, <4>2, AppendElems
      <4>4. QED
        BY <2>1, <4>1, <4>3 DEF WakeInv, BusyLoopWakes
    <3>3. QED
      BY <3>1, <3>2
  <2>5. CASE UpdateSlots /\ ~StartPass
    <3>1. pc \in {"shift", "prompts", "decode", "failing", "sample"}
      <4>1. CASE ReleaseAnswered
        BY <4>1 DEF ReleaseAnswered, TypeInv, PassOK
      <4>2. CASE \E s \in Slots : SlotStep(s)
        BY <4>2 DEF SlotStep, JoinBatch, ShiftFails, RejectPrompt, BatchPrompt, PassOver,
                    FailSlot, SampleToken, SampleLast, Visit
      <4>3. QED
        BY <2>5, <4>1, <4>2 DEF UpdateSlots, ToPrompts, ToDecode, DecodeNothing, DecodeBatch,
                  DecodeFails, DraftFails, EndPass, Decoding, Visited
    <3>2. Elems(queue) \subseteq Elems(queue')
      <4>1. CASE ReleaseAnswered
        BY <4>1, PopDeferredType DEF ReleaseAnswered, Release, TypeInv
      <4>2. CASE ~ReleaseAnswered
        BY <2>5, <4>2 DEF UpdateSlots, SlotStep, JoinBatch, ShiftFails, RejectPrompt,
                BatchPrompt, PassOver, FailSlot, SampleToken, SampleLast, AnswerSlot,
                ToPrompts, ToDecode, DecodeNothing, DecodeBatch, DecodeFails, DraftFails,
                EndPass, queueVars
      <4>3. QED
        BY <4>1, <4>2
    <3>3. QED
      BY <2>1, <3>1, <3>2 DEF WakeInv, BusyLoopWakes
  <2>6. CASE WakeUp
    BY <2>1, <2>6 DEF WakeUp, GoTo, WakeInv, BusyLoopWakes
  <2>7. CASE UNCHANGED vars
    BY <2>1, <2>7 DEF vars, queueVars, slotVars, passVars, WakeInv, BusyLoopWakes, Busy, Idle
  <2>8. QED
    BY <2>2, <2>3, <2>4, <2>5, <2>6, <2>7 DEF Next, MainStep
<1>3. WakeInv => BusyLoopWakes
  BY DEF WakeInv
<1>4. QED
  BY <1>1, <1>2, <1>3, PTL DEF Spec
-----------------------------------------------------------------------------
(* The threads move a task from one place to the next, and answer it when  *)
(* it is on its last one.                                                  *)

Runs == {Run(t) : t \in Tasks}

(* No task is twice in one of the queues, or on two slots.                 *)
UniquePlaces ==
  /\ Unique(queue, Runs) /\ Unique(deferred, Tasks)
  /\ \A s1, s2 \in Slots :
        slotTask[s1] = slotTask[s2] /\ slotTask[s1] # NoTask => s1 = s2

(* No task is both in one and in another of the queues and the hands of    *)
(* the main thread.                                                        *)
OnePending ==
  \A t \in Tasks : /\ ~(Queued(t) /\ Deferred(t)) /\ ~(Queued(t) /\ InFlight(t))
                   /\ ~(Deferred(t) /\ InFlight(t))

NotStarted == \A t \in Tasks : Pending(t) => \A u \in Family(t) : ~OnASlot(u)

(* Child tasks travel inside their parents.                                *)
PendingTops == \A t \in Tasks : Pending(t) => t \in Tops

NotYetPosted ==
  \A r \in Readers : reader[r] \in {"new", "registered"} =>
     \A t \in Ids(r) : ~Pending(t) /\ ~OnASlot(t) /\ t \notin answered

PlaceInv ==
  UniquePlaces /\ OnePending /\ NotStarted /\ PendingTops /\ NotYetPosted /\ AnsweredOnce
-----------------------------------------------------------------------------
(* A task id belongs to one family, and a family to one reader.            *)
LEMMA Families ==
  /\ \A t \in Tops : /\ t \notin Children[t] /\ ParentOf(t) = {}
                     /\ Family(t) \subseteq Tasks
  /\ \A t, u \in Tops : t # u => Family(t) \cap Family(u) = {}
  /\ \A r \in Readers : \A t \in Tops :
        /\ t \in Elems(Batch[r]) => Family(t) \subseteq Ids(r)
        /\ Family(t) \cap Ids(r) # {} => t \in Elems(Batch[r])
<1>1. ASSUME NEW t \in Tops
      PROVE  /\ t \notin Children[t] /\ ParentOf(t) = {}
             /\ Family(t) \subseteq Tasks
  BY DistinctIds, IdsType DEF ParentOf, Family
<1>2. ASSUME NEW t \in Tops, NEW u \in Tops, t # u
      PROVE  Family(t) \cap Family(u) = {}
  BY <1>2, DistinctIds DEF Family
<1>3. ASSUME NEW r \in Readers, NEW t \in Tops
      PROVE  /\ t \in Elems(Batch[r]) => Family(t) \subseteq Ids(r)
             /\ Family(t) \cap Ids(r) # {} => t \in Elems(Batch[r])
  <2>1. t \in Elems(Batch[r]) => Family(t) \subseteq Ids(r)
    BY DEF Family, Ids
  <2>2. ASSUME NEW u \in Family(t), u \in Ids(r)
        PROVE  t \in Elems(Batch[r])
    <3>1. Elems(Batch[r]) \subseteq Tops
      BY IdsType
    <3>2. CASE u \in Elems(Batch[r])
      BY <2>2, <3>1, <3>2, DistinctIds DEF Family
    <3>3. CASE u \notin Elems(Batch[r])
      <4>1. PICK p \in Elems(Batch[r]) : u \in Children[p]
        BY <2>2, <3>3 DEF Ids
      <4>2. p \in Tops
        BY <3>1
      <4>3. QED
        BY <2>2, <4>1, <4>2, DistinctIds DEF Family
    <3>4. QED
      BY <3>2, <3>3
  <2>3. QED
    BY <2>1, <2>2
<1>4. QED
  BY <1>1, <1>2, <1>3

(* The invariant contains OnePlace.                                        *)
LEMMA PlaceImpliesOnePlace == TypeInv /\ PlaceInv => OnePlace
<1> SUFFICES ASSUME TypeInv, PlaceInv PROVE OnePlace
  OBVIOUS
<1>1. ASSUME NEW i \in DOMAIN queue, NEW j \in DOMAIN queue,
             queue[i].type = "run", queue[i] = queue[j]
      PROVE  i = j
  <2>1. queue \in Seq(Items)
    BY DEF TypeInv, TypeOK
  <2>2. queue[i] \in Items
    BY <2>1
  <2>3. queue[i] \in Runs
    BY <1>1, <2>2 DEF Items, Runs, Run, Cancel, NextResponse
  <2>4. QED
    BY <1>1, <2>3 DEF PlaceInv, UniquePlaces, Unique
<1>2. ASSUME NEW i \in DOMAIN deferred, NEW j \in DOMAIN deferred, deferred[i] = deferred[j]
      PROVE  i = j
  <2>1. deferred \in Seq(Tasks)
    BY DEF TypeInv, TypeOK
  <2>2. deferred[i] \in Tasks
    BY <2>1
  <2>3. QED
    BY <1>2, <2>2 DEF PlaceInv, UniquePlaces, Unique
<1>3. QED
  BY <1>1, <1>2 DEF OnePlace, PlaceInv, UniquePlaces, OnePending, NotStarted

(* A step that posts and launches nothing keeps the invariant, when it     *)
(* moves tasks between the queues and the main thread, or takes them away. *)
LEMMA MovePlace ==
  ASSUME TypeInv, PlaceInv, TypeInv', UniquePlaces', OnePending', AnsweredOnce',
         \A t \in Tasks : Pending(t)' => Pending(t),
         \A t \in Tasks : OnASlot(t)' => OnASlot(t),
         \A r \in Readers : reader'[r] \in {"new", "registered"} =>
                               reader[r] \in {"new", "registered"},
         \A t \in answered' : \/ t \in answered \/ OnASlot(t)
                              \/ \E p \in Tasks : Pending(p) /\ t \in Family(p)
  PROVE  PlaceInv'
<1>1. NotStarted'
  <2> SUFFICES ASSUME NEW t \in Tasks, Pending(t)', NEW u \in Family(t)
               PROVE  ~OnASlot(u)'
    BY DEF NotStarted, Family
  <2>1. Pending(t) /\ t \in Tops /\ u \in Tasks
    BY Families DEF PlaceInv, PendingTops
  <2>2. QED
    BY <2>1 DEF PlaceInv, NotStarted
<1>2. PendingTops'
  BY DEF PendingTops, PlaceInv
<1>3. NotYetPosted'
  <2> SUFFICES ASSUME NEW r \in Readers, reader'[r] \in {"new", "registered"},
                      NEW t \in Ids(r)
               PROVE  ~Pending(t)' /\ ~OnASlot(t)' /\ t \notin answered'
    BY DEF NotYetPosted
  <2>1. t \in Tasks /\ ~Pending(t) /\ ~OnASlot(t) /\ t \notin answered
    BY IdsType DEF PlaceInv, NotYetPosted
  <2>2. ASSUME NEW p \in Tasks, Pending(p), t \in Family(p)
        PROVE  FALSE
    <3>1. p \in Tops
      BY <2>2 DEF PlaceInv, PendingTops
    <3>2. p \in Ids(r)
      BY <2>2, <3>1, Families DEF Ids
    <3>3. QED
      BY <2>2, <3>2 DEF PlaceInv, NotYetPosted
  <2>3. QED
    BY <2>1, <2>2
<1>4. QED
  BY <1>1, <1>2, <1>3 DEF PlaceInv

(* A step that only removes tasks, or moves none, and answers none.        *)
LEMMA QuietPlace ==
  ASSUME TypeInv, PlaceInv, TypeInv',
         Unique(queue', Runs), Unique(deferred', Tasks),
         \A t \in Tasks : /\ Queued(t)' => Queued(t)
                          /\ Deferred(t)' => Deferred(t)
                          /\ InFlight(t)' => InFlight(t),
         UNCHANGED <<slotTask, answered, ending>>,
         \A r \in Readers : reader'[r] \in {"new", "registered"} =>
                               reader[r] \in {"new", "registered"}
  PROVE  PlaceInv'
<1>1. UniquePlaces'
  BY DEF PlaceInv, UniquePlaces
<1>2. OnePending'
  BY DEF PlaceInv, OnePending
<1>3. \A t \in Tasks : Pending(t)' => Pending(t)
  BY DEF Pending
<1>4. \A t \in Tasks : OnASlot(t)' => OnASlot(t)
  BY DEF OnASlot
<1>5. AnsweredOnce'
  <2>1. \A t \in Tasks : ParentOf(t) \subseteq Tasks
    BY IdsType DEF ParentOf
  <2>2. answered \subseteq Tasks
    BY DEF TypeInv, TypeOK
  <2>3. QED
    BY <1>3, <2>1, <2>2 DEF PlaceInv, AnsweredOnce, ParentOf
<1>6. QED
  BY <1>1, <1>2, <1>3, <1>4, <1>5, MovePlace
-----------------------------------------------------------------------------
(* A cancel task is not the task that it cancels.                          *)
LEMMA RunIds ==
  /\ \A t, u : Run(t) = Run(u) => t = u
  /\ \A t, u : Cancel(t) # Run(u)
  /\ \A t : NextResponse # Run(t)
BY DEF Run, Cancel, NextResponse

(* stop() removes the tasks of the reader, wherever they wait.             *)
LEMMA PostCancelsPlace ==
  ASSUME TypeInv, PlaceInv, TypeInv', NEW r \in Readers, PostCancels(r)
  PROVE  PlaceInv'
<1>1. queue \in Seq(Items) /\ deferred \in Seq(Tasks)
  BY DEF TypeInv, TypeOK
<1>2. PICK order \in [1 .. Cardinality(Ids(r)) -> Ids(r)] :
         queue' = [i \in 1 .. Cardinality(Ids(r)) |-> Cancel(order[i])]
                    \o Drop(queue, {Run(t) : t \in Ids(r)})
  BY DEF PostCancels
<1> DEFINE cancels == [i \in 1 .. Cardinality(Ids(r)) |-> Cancel(order[i])]
           rest == Drop(queue, {Run(t) : t \in Ids(r)})
<1>3. cancels \in Seq(Items)
  BY IdsType DEF Items
<1>4. Elems(cancels) \cap Runs = {}
  BY IdsType, RunIds DEF Elems, Runs
<1>5. Unique(cancels, Runs)
  <2>1. \A i \in DOMAIN cancels : cancels[i] \in Elems(cancels)
    BY DEF Elems
  <2> HIDE DEF cancels
  <2>2. QED
    BY <1>4, <2>1 DEF Unique
<1>6. rest \in Seq(Items) /\ Elems(rest) \subseteq Elems(queue) /\ Unique(rest, Runs)
  BY <1>1, DropElems, DropUnique DEF PlaceInv, UniquePlaces
<1>7. /\ Elems(Drop(deferred, Ids(r))) \subseteq Elems(deferred)
      /\ Unique(Drop(deferred, Ids(r)), Tasks)
  BY <1>1, DropElems, DropUnique DEF PlaceInv, UniquePlaces
<1>8. queue' = cancels \o rest
  BY <1>2
<1> HIDE DEF cancels, rest
<1>9. Unique(queue', Runs) /\ Elems(queue') = Elems(cancels) \cup Elems(rest)
  BY <1>3, <1>4, <1>5, <1>6, <1>8, ConcatElems, ConcatUnique
<1>10. \A t \in Tasks : Queued(t)' => Queued(t)
  BY <1>4, <1>6, <1>9 DEF Queued, Runs
<1>11. deferred' = Drop(deferred, Ids(r)) /\ UNCHANGED <<slotTask, answered, ending, current>>
  BY DEF PostCancels, resultVars, slotVars, passVars
<1>12. \A x \in Readers : reader'[x] \in {"new", "registered"} =>
                             reader[x] \in {"new", "registered"}
  BY DEF PostCancels, TypeInv, TypeOK
<1>13. QED
  BY <1>7, <1>9, <1>10, <1>11, <1>12, QuietPlace DEF Deferred, InFlight

(* post_tasks(): the tasks of a new reader are nowhere, and only in its    *)
(* batch.                                                                  *)
LEMMA PostTasksPlace ==
  ASSUME TypeInv, PlaceInv, TypeInv', NEW r \in Readers, PostTasks(r)
  PROVE  PlaceInv'
<1> DEFINE posted == [i \in 1 .. Len(Batch[r]) |-> Run(Batch[r][i])]
<1>1. /\ queue \in Seq(Items) /\ Batch[r] \in Seq(Tasks)
      /\ reader \in [Readers -> ReaderStates]
  BY IdsType DEF TypeInv, TypeOK
<1>2. posted \in Seq(Items) /\ DOMAIN posted = DOMAIN Batch[r]
  BY <1>1 DEF Items
<1>3. \A t : Run(t) \in Elems(posted) <=> t \in Elems(Batch[r])
  BY <1>2, RunIds DEF Elems
<1>4. Unique(posted, Runs)
  BY <1>1, <1>2, RunIds, DistinctIds DEF Unique
<1>5. /\ queue' = queue \o posted /\ reader[r] = "registered"
      /\ reader' = [reader EXCEPT ![r] = "reading"]
      /\ UNCHANGED <<deferred, answered, slotTask, current, ending>>
  BY DEF PostTasks, resultVars, slotVars, passVars
<1> HIDE DEF posted
<1>6. Elems(queue') = Elems(queue) \cup Elems(posted)
  BY <1>1, <1>2, <1>5, ConcatElems
<1>7. \A t \in Ids(r) : t \in Tasks /\ ~Pending(t) /\ ~OnASlot(t) /\ t \notin answered
  BY <1>5, IdsType DEF PlaceInv, NotYetPosted
<1>8. Elems(Batch[r]) \subseteq Ids(r) /\ Elems(Batch[r]) \subseteq Tops
  BY IdsType DEF Ids
<1>9. \A t \in Tasks : /\ Queued(t)' <=> Queued(t) \/ t \in Elems(Batch[r])
                       /\ Deferred(t)' <=> Deferred(t)
                       /\ InFlight(t)' <=> InFlight(t)
                       /\ OnASlot(t)' <=> OnASlot(t)
  BY <1>3, <1>5, <1>6 DEF Queued, Deferred, InFlight, OnASlot
<1>10. \A t \in Tasks : Pending(t)' <=> Pending(t) \/ t \in Elems(Batch[r])
  BY <1>9 DEF Pending
<1>11. UniquePlaces'
  <2>1. Elems(queue) \cap Elems(posted) \cap Runs = {}
    <3> SUFFICES ASSUME NEW t \in Tasks, Run(t) \in Elems(queue), Run(t) \in Elems(posted)
                 PROVE  FALSE
      BY DEF Runs
    <3>1. t \in Ids(r) /\ Pending(t)
      BY <1>3, <1>8 DEF Pending, Queued
    <3>2. QED
      BY <1>7, <3>1
  <2>2. Unique(queue', Runs)
    BY <1>1, <1>2, <1>4, <1>5, <2>1, ConcatUnique DEF PlaceInv, UniquePlaces
  <2>3. QED
    BY <1>5, <2>2 DEF PlaceInv, UniquePlaces
<1>12. OnePending'
  BY <1>7, <1>8, <1>9 DEF OnePending, PlaceInv, Pending
<1>13. NotStarted'
  <2> SUFFICES ASSUME NEW t \in Tasks, Pending(t)', NEW u \in Family(t)
               PROVE  ~OnASlot(u)'
    BY DEF NotStarted, Family
  <2>1. u \in Tasks
    BY IdsType DEF Family
  <2>2. CASE Pending(t)
    BY <1>9, <2>1, <2>2 DEF PlaceInv, NotStarted
  <2>3. CASE t \in Elems(Batch[r])
    BY <1>7, <1>8, <1>9, <2>1, <2>3, Families
  <2>4. QED
    BY <1>10, <2>2, <2>3
<1>14. PendingTops'
  BY <1>8, <1>10 DEF PlaceInv, PendingTops
<1>15. NotYetPosted'
  <2> SUFFICES ASSUME NEW x \in Readers, reader'[x] \in {"new", "registered"}, NEW t \in Ids(x)
               PROVE  ~Pending(t)' /\ ~OnASlot(t)' /\ t \notin answered'
    BY DEF NotYetPosted
  <2>1. x # r /\ reader[x] \in {"new", "registered"} /\ t \in Tasks
    BY <1>1, <1>5, IdsType
  <2>2. t \notin Elems(Batch[r])
    BY <1>8, <2>1, DistinctIds
  <2>3. QED
    BY <1>5, <1>9, <1>10, <2>1, <2>2 DEF PlaceInv, NotYetPosted
<1>16. AnsweredOnce'
  <2> SUFFICES ASSUME NEW t \in answered
               PROVE  /\ ~Pending(t)' /\ \A p \in ParentOf(t) : ~Pending(p)'
                      /\ \A s \in Slots : slotTask'[s] = t => s = ending'
    BY <1>5 DEF AnsweredOnce, ParentOf
  <2>1. t \in Tasks /\ t \notin Ids(r)
    BY <1>7 DEF TypeInv, TypeOK
  <2>2. ~Pending(t)'
    BY <1>8, <1>10, <2>1 DEF PlaceInv, AnsweredOnce
  <2>3. ASSUME NEW p \in ParentOf(t)
        PROVE  ~Pending(p)'
    <3>1. p \in Tasks /\ p \notin Elems(Batch[r])
      BY <2>1, IdsType DEF ParentOf, Ids
    <3>2. QED
      BY <1>10, <3>1 DEF PlaceInv, AnsweredOnce
  <2>4. QED
    BY <1>5, <2>2, <2>3 DEF PlaceInv, AnsweredOnce
<1>17. QED
  BY <1>11, <1>12, <1>13, <1>14, <1>15, <1>16 DEF PlaceInv

(* The steps of the HTTP threads.                                          *)
LEMMA ReaderPlace ==
  ASSUME TypeInv, PlaceInv, TypeInv', NEW r \in Readers, ReaderStep(r)
  PROVE  PlaceInv'
<1>1. CASE PostTasks(r) \/ PostCancels(r)
  BY <1>1, PostTasksPlace, PostCancelsPlace
<1>2. CASE ~(PostTasks(r) \/ PostCancels(r))
  <2>1. UNCHANGED <<queue, deferred, current, slotTask, answered, ending>>
    BY <1>2 DEF ReaderStep, AddWaiting, Recv, Finish, Disconnect, Stop, PurgeResults,
                queueVars, slotVars, passVars
  <2>2. ASSUME NEW x \in Readers, reader'[x] \in {"new", "registered"}
        PROVE  reader[x] \in {"new", "registered"}
    BY <1>2, <2>2 DEF ReaderStep, AddWaiting, Recv, Finish, Disconnect, Stop, PurgeResults,
                readerVars, TypeInv, TypeOK
  <2>3. QED
    BY <2>1, <2>2, QuietPlace DEF PlaceInv, UniquePlaces, Queued, Deferred, InFlight
<1>3. QED
  BY <1>1, <1>2
-----------------------------------------------------------------------------
(* start_loop() takes the first task in its hands.                         *)
LEMMA PopTaskPlace ==
  ASSUME TypeInv, PlaceInv, TypeInv', PopTask
  PROVE  PlaceInv'
<1>1. UNCHANGED <<deferred, slotTask, answered, ending, reader>>
  BY DEF PopTask, resultVars, slotVars, readerVars
<1>2. CASE queue = <<>>
  BY <1>1, <1>2, QuietPlace DEF PopTask, PlaceInv, UniquePlaces, Queued, Deferred, InFlight
<1>3. CASE queue # <<>>
  <2>1. queue' = Tail(queue) /\ current' = Head(queue) /\ queue \in Seq(Items)
    BY <1>3 DEF PopTask, TypeInv, TypeOK
  <2>2. /\ Elems(queue) = Elems(queue') \cup {current'}
        /\ Unique(queue', Runs)
        /\ current' \in Runs => current' \notin Elems(queue')
    BY <1>3, <2>1, TailElems, TailUnique DEF PlaceInv, UniquePlaces
  <2>3. \A t \in Tasks : /\ Queued(t) <=> Queued(t)' \/ InFlight(t)'
                         /\ ~(Queued(t)' /\ InFlight(t)')
                         /\ Deferred(t)' <=> Deferred(t)
                         /\ OnASlot(t)' <=> OnASlot(t)
    BY <1>1, <2>2 DEF Queued, InFlight, Deferred, OnASlot, Runs
  <2>4. UniquePlaces'
    BY <1>1, <2>2 DEF PlaceInv, UniquePlaces
  <2>5. OnePending'
    BY <2>3 DEF PlaceInv, OnePending
  <2>6. \A t \in Tasks : Pending(t)' => Pending(t)
    BY <2>3 DEF Pending
  <2>7. AnsweredOnce'
    BY <1>1, <2>6, IdsType DEF PlaceInv, AnsweredOnce, ParentOf, TypeInv, TypeOK
  <2>8. QED
    BY <1>1, <2>3, <2>4, <2>5, <2>6, <2>7, MovePlace
<1>4. QED
  BY <1>2, <1>3

(* The task in the hands of the main thread is a top one, and its only     *)
(* place.                                                                  *)
LEMMA CurrentPlace ==
  ASSUME TypeInv, PlaceInv, current.type = "run"
  PROVE  /\ current.id \in Tops /\ InFlight(current.id) /\ Pending(current.id)
         /\ ~Queued(current.id) /\ ~Deferred(current.id)
         /\ \A u \in Family(current.id) :
               u \in Tasks /\ ~OnASlot(u) /\ u \notin answered
         /\ \A u \in Tasks : InFlight(u) => u = current.id
<1>1. InFlight(current.id) /\ current.id \in Tasks
  BY CurrentType DEF TypeInv, InFlight
<1>2. Pending(current.id) /\ ~Queued(current.id) /\ ~Deferred(current.id)
  BY <1>1 DEF Pending, PlaceInv, OnePending
<1>3. current.id \in Tops
  BY <1>1, <1>2 DEF PlaceInv, PendingTops
<1>4. ASSUME NEW u \in Family(current.id)
      PROVE  u \in Tasks /\ ~OnASlot(u) /\ u \notin answered
  <2>1. u \in Tasks /\ ~OnASlot(u)
    BY <1>1, <1>2, <1>3, Families DEF PlaceInv, NotStarted
  <2>2. u = current.id \/ current.id \in ParentOf(u)
    BY <1>3 DEF Family, ParentOf
  <2>3. QED
    BY <1>2, <2>1, <2>2 DEF PlaceInv, AnsweredOnce
<1>5. \A u \in Tasks : InFlight(u) => u = current.id
  BY <1>1, RunIds DEF InFlight
<1>6. QED
  BY <1>1, <1>2, <1>3, <1>4, <1>5

(* defer(): from the hands of the main thread into the deferred queue.     *)
LEMMA DeferPlace ==
  ASSUME TypeInv, PlaceInv, TypeInv', DeferTask
  PROVE  PlaceInv'
<1> DEFINE t == current.id
<1>1. /\ t \in Tasks /\ ~Queued(t) /\ ~Deferred(t) /\ Pending(t)
      /\ \A u \in Tasks : InFlight(u) => u = t
  BY CurrentPlace, IdsType DEF DeferTask, Dispatching
<1>2. /\ deferred' = Append(deferred, t) /\ current' = NoItem
      /\ UNCHANGED <<queue, slotTask, answered, ending, reader>>
  BY DEF DeferTask, Dispatched, resultVars, slotVars, readerVars
<1>3. deferred \in Seq(Tasks)
  BY DEF TypeInv, TypeOK
<1> HIDE DEF t
<1>4. Unique(deferred', Tasks) /\ Elems(deferred') = Elems(deferred) \cup {t}
  BY <1>1, <1>2, <1>3, AppendElems, AppendUnique DEF PlaceInv, UniquePlaces, Deferred
<1>5. \A u \in Tasks : /\ Queued(u)' <=> Queued(u)
                       /\ OnASlot(u)' <=> OnASlot(u)
                       /\ Deferred(u)' <=> Deferred(u) \/ u = t
                       /\ ~InFlight(u)'
  BY <1>2, <1>4 DEF Queued, Deferred, OnASlot, InFlight, NoItem, Run
<1>6. UniquePlaces'
  BY <1>2, <1>4 DEF PlaceInv, UniquePlaces
<1>7. OnePending'
  BY <1>1, <1>5 DEF PlaceInv, OnePending
<1>8. \A u \in Tasks : Pending(u)' => Pending(u)
  BY <1>1, <1>5 DEF Pending
<1>9. AnsweredOnce'
  BY <1>2, <1>8, IdsType DEF PlaceInv, AnsweredOnce, ParentOf, TypeInv, TypeOK
<1>10. QED
  BY <1>2, <1>5, <1>6, <1>7, <1>8, <1>9, MovePlace

(* release(): a task leaves its slot, and a deferred one is queued.        *)
LEMMA ReleasePlace ==
  ASSUME TypeInv, PlaceInv, TypeInv', NEW s \in Busy, Release(s),
         ending \in {s, NoSlot}, ending' = NoSlot,
         current' \in {current, NoItem}, UNCHANGED <<answered, reader>>
  PROVE  PlaceInv'
<1>1. /\ slotTask' = [slotTask EXCEPT ![s] = NoTask] /\ PopDeferred(s)
      /\ queue \in Seq(Items) /\ deferred \in Seq(Tasks)
      /\ slotTask \in [Slots -> Tasks \cup {NoTask}]
      /\ s \in Slots /\ NoSlot \notin Slots /\ slotTask[s] \in Tasks /\ NoTask \notin Tasks
  BY ConstantsAssumption DEF Release, TypeInv, TypeOK, PassOK, Busy
<1>2. /\ Unique(queue', Runs) /\ Unique(deferred', Tasks)
      /\ \A t \in Tasks :
            /\ ~(Queued(t)' /\ Deferred(t)')
            /\ Queued(t)' \/ Deferred(t)' => Queued(t) \/ Deferred(t)
  <2>1. CASE queue' = queue /\ deferred' = deferred
    BY <2>1 DEF PlaceInv, UniquePlaces, OnePending, Queued, Deferred
  <2>2. ASSUME NEW i \in DOMAIN deferred, deferred[i] \in Tasks,
               queue' = Cons(Run(deferred[i]), queue), deferred' = DropAt(deferred, i)
        PROVE  /\ Unique(queue', Runs) /\ Unique(deferred', Tasks)
               /\ \A t \in Tasks :
                     /\ ~(Queued(t)' /\ Deferred(t)')
                     /\ Queued(t)' \/ Deferred(t)' => Queued(t) \/ Deferred(t)
    <3>1. PICK u \in Tasks : u = deferred[i]
      BY <2>2
    <3>2. /\ Unique(deferred', Tasks) /\ u \notin Elems(deferred')
          /\ Elems(deferred) = Elems(deferred') \cup {u}
      BY <1>1, <2>2, <3>1, DropAtElems, DropAtUnique DEF PlaceInv, UniquePlaces
    <3>3. Run(u) \in Items
      BY DEF Items
    <3>4. Deferred(u) /\ ~Queued(u)
      BY <3>2, <3>3 DEF Deferred, PlaceInv, OnePending
    <3>5. Unique(queue', Runs) /\ Elems(queue') = Elems(queue) \cup {Run(u)}
      <4>1. Run(u) \notin Elems(queue) /\ Unique(queue, Runs)
        BY <3>4 DEF PlaceInv, UniquePlaces, Queued
      <4>2. queue' = Cons(Run(u), queue) /\ queue \in Seq(Items)
        BY <1>1, <2>2, <3>1
      <4>3. Unique(Cons(Run(u), queue), Runs)
        BY <3>3, <4>1, <4>2, ConsUnique
      <4>4. Elems(Cons(Run(u), queue)) = Elems(queue) \cup {Run(u)}
        BY <3>3, <4>2, ConsElems
      <4>5. QED
        BY <4>2, <4>3, <4>4
    <3>6. \A t \in Tasks : /\ Queued(t)' <=> Queued(t) \/ t = u
                           /\ Deferred(t) <=> Deferred(t)' \/ t = u
                           /\ ~Deferred(u)'
      BY <3>2, <3>5, RunIds DEF Queued, Deferred
    <3>7. QED
      BY <3>2, <3>4, <3>5, <3>6 DEF PlaceInv, OnePending
  <2>3. QED
    BY <2>1, <2>2, PopDeferredStep DEF TypeInv, Release
<1>3. \A t \in Tasks : InFlight(t)' => InFlight(t)
  BY DEF InFlight, NoItem, Run
<1>4. UniquePlaces'
  BY <1>1, <1>2 DEF PlaceInv, UniquePlaces
<1>5. OnePending'
  BY <1>2, <1>3 DEF PlaceInv, OnePending
<1>6. \A t \in Tasks : Pending(t)' => Pending(t)
  BY <1>2, <1>3 DEF Pending
<1>7. \A t \in Tasks : OnASlot(t)' => OnASlot(t)
  BY <1>1 DEF OnASlot
<1>8. AnsweredOnce'
  <2> SUFFICES ASSUME NEW t \in answered
               PROVE  /\ ~Pending(t)' /\ \A p \in ParentOf(t) : ~Pending(p)'
                      /\ \A x \in Slots : slotTask'[x] # t
    BY DEF AnsweredOnce, ParentOf
  <2>1. t \in Tasks /\ ParentOf(t) \subseteq Tasks
    BY IdsType DEF TypeInv, TypeOK, ParentOf
  <2>2. ~Pending(t) /\ \A p \in ParentOf(t) : ~Pending(p)
    BY DEF PlaceInv, AnsweredOnce
  <2>3. \A x \in Slots : slotTask[x] = t => x = s
    BY <1>1 DEF PlaceInv, AnsweredOnce
  <2>4. \A x \in Slots : slotTask'[x] # t
    BY <1>1, <2>1, <2>3
  <2>5. QED
    BY <1>6, <2>1, <2>2, <2>4
<1>9. QED
  BY <1>4, <1>5, <1>6, <1>7, <1>8, MovePlace

(* The main thread answers the task in its hands, or its child.            *)
LEMMA AnswerCurrentPlace ==
  ASSUME TypeInv, PlaceInv, TypeInv', LaunchFails \/ AnswerAtOnce
  PROVE  PlaceInv'
<1> DEFINE t == current.id
<1>1. /\ current.type = "run" /\ current' = NoItem
      /\ UNCHANGED <<queue, deferred, slotTask, ending, reader>>
  BY DEF LaunchFails, AnswerAtOnce, Dispatching, Dispatched, queueVars, slotVars, readerVars
<1>2. /\ t \in Tops /\ Pending(t) /\ ~Queued(t) /\ ~Deferred(t)
      /\ \A u \in Family(t) : u \in Tasks /\ ~OnASlot(u)
      /\ \A u \in Tasks : InFlight(u) => u = t
  BY <1>1, CurrentPlace
<1>3. PICK x \in Family(t) : \E type \in {"final", "error"} : Send(x, type)
  BY DEF LaunchFails, AnswerAtOnce, Family
<1>4. answered' = answered \cup {x}
  BY <1>3 DEF Send
<1> HIDE DEF t
<1>5. \A u \in Tasks : /\ Queued(u)' <=> Queued(u)
                       /\ Deferred(u)' <=> Deferred(u)
                       /\ OnASlot(u)' <=> OnASlot(u)
                       /\ ~InFlight(u)'
  BY <1>1 DEF Queued, Deferred, OnASlot, InFlight, NoItem, Run
<1>6. \A u \in Tasks : Pending(u)' => Pending(u) /\ u # t
  BY <1>2, <1>5 DEF Pending
<1>7. UniquePlaces' /\ OnePending'
  BY <1>1, <1>5 DEF PlaceInv, UniquePlaces, OnePending
<1>8. AnsweredOnce'
  <2> SUFFICES ASSUME NEW u \in answered'
               PROVE  /\ ~Pending(u)' /\ \A p \in ParentOf(u) : ~Pending(p)'
                      /\ \A s \in Slots : slotTask'[s] = u => s = ending'
    BY DEF AnsweredOnce, ParentOf
  <2>1. u \in Tasks /\ ParentOf(u) \subseteq Tops /\ Tops \subseteq Tasks
    BY <1>2, <1>4, IdsType DEF TypeInv, TypeOK, ParentOf
  <2>2. CASE u \in answered
    BY <1>1, <1>6, <2>1, <2>2 DEF PlaceInv, AnsweredOnce
  <2>3. CASE u = x
    <3>1. ASSUME NEW p \in Tasks, Pending(p)', u \in Family(p)
          PROVE  FALSE
      <4>1. Pending(p) /\ p # t /\ p \in Tops
        BY <1>6, <3>1 DEF PlaceInv, PendingTops
      <4>2. QED
        BY <1>2, <2>3, <3>1, <4>1, Families
    <3>2. ~Pending(u)' /\ \A p \in ParentOf(u) : ~Pending(p)'
      BY <2>1, <3>1 DEF Family, ParentOf
    <3>3. \A s \in Slots : slotTask'[s] # u
      BY <1>1, <1>2, <2>3 DEF OnASlot
    <3>4. QED
      BY <3>2, <3>3
  <2>4. QED
    BY <1>4, <2>2, <2>3
<1>9. \A u \in answered' : u \in answered \/ \E p \in Tasks : Pending(p) /\ u \in Family(p)
  BY <1>2, <1>4, IdsType
<1>10. QED
  BY <1>1, <1>5, <1>6, <1>7, <1>8, <1>9, MovePlace

(* launch_slots_with_parent_task(): from the hands of the main thread to   *)
(* the slots.                                                              *)
LEMMA LaunchPlace ==
  ASSUME TypeInv, PlaceInv, TypeInv', LaunchTask
  PROVE  PlaceInv'
<1> DEFINE t == current.id
<1>1. /\ current.type = "run" /\ current' = NoItem
      /\ UNCHANGED <<queue, deferred, answered, ending, reader>>
      /\ NoTask \notin Tasks
  BY ConstantsAssumption DEF LaunchTask, Dispatching, Dispatched, queueVars, resultVars, readerVars
<1>2. /\ t \in Tops /\ t \in Tasks /\ Pending(t) /\ ~Queued(t) /\ ~Deferred(t)
      /\ \A u \in Family(t) : u \in Tasks /\ ~OnASlot(u) /\ u \notin answered
      /\ \A u \in Tasks : InFlight(u) => u = t
  BY <1>1, CurrentPlace, IdsType
<1>3. \E s \in Candidates(t) : \E place \in [Children[t] -> Free \ {s}] : Placed(t, s, place)
  BY DEF LaunchTask, Placed
<1> HIDE DEF t
<1>4. PICK s \in Candidates(t) : \E place \in [Children[t] -> Free \ {s}] : Placed(t, s, place)
  BY <1>3
<1>5. PICK place \in [Children[t] -> Free \ {s}] : Placed(t, s, place)
  BY <1>4
<1>6. s \in Slots /\ slotTask'[s] = t
  BY <1>5 DEF Placed, Candidates, Free
<1>7. ASSUME NEW x \in Slots, x # s, NEW c \in Children[t], place[c] = x
      PROVE  slotTask'[x] = c
  <2>1. slotTask'[x] = CHOOSE d \in Children[t] : place[d] = x
    BY <1>5, <1>7 DEF Placed
  <2>2. \A d \in Children[t] : place[d] = x => d = c
    BY <1>5, <1>7 DEF Placed
  <2>3. QED
    BY <1>7, <2>1, <2>2
<1>8. \A x \in Slots : x # s /\ (\A c \in Children[t] : place[c] # x) => slotTask'[x] = slotTask[x]
  BY <1>5 DEF Placed
<1>9. t \notin Children[t] /\ Children[t] \subseteq Family(t) /\ t \in Family(t)
  BY <1>2, Families DEF Family
<1>10. \A x \in Slots : \/ x = s /\ slotTask'[x] = t
                        \/ x # s /\ slotTask'[x] \in Children[t] /\ place[slotTask'[x]] = x
                        \/ slotTask'[x] = slotTask[x] /\ slotTask[x] \notin Family(t)
  <2>1. \A x \in Slots : slotTask[x] \notin Family(t)
    BY <1>2 DEF OnASlot
  <2>2. QED
    BY <1>6, <1>7, <1>8, <2>1
<1>11. \A u \in Tasks : OnASlot(u)' => OnASlot(u) \/ u \in Family(t)
  BY <1>9, <1>10 DEF OnASlot
<1>12. \A u \in Tasks : /\ Queued(u)' <=> Queued(u)
                        /\ Deferred(u)' <=> Deferred(u)
                        /\ ~InFlight(u)'
  BY <1>1 DEF Queued, Deferred, InFlight, NoItem, Run
<1>13. \A u \in Tasks : Pending(u)' => Pending(u) /\ u # t
  BY <1>2, <1>12 DEF Pending
<1>14. UniquePlaces'
  <2>1. ASSUME NEW x \in Slots, NEW y \in Slots, slotTask'[x] = slotTask'[y], slotTask'[x] # NoTask
        PROVE  x = y
    BY <1>9, <1>10, <2>1 DEF PlaceInv, UniquePlaces
  <2>2. QED
    BY <1>1, <2>1 DEF PlaceInv, UniquePlaces
<1>15. OnePending'
  BY <1>12 DEF PlaceInv, OnePending
<1>16. PendingTops'
  BY <1>13 DEF PlaceInv, PendingTops
<1>17. NotStarted'
  <2> SUFFICES ASSUME NEW p \in Tasks, Pending(p)', NEW u \in Family(p)
               PROVE  ~OnASlot(u)'
    BY DEF NotStarted, Family
  <2>1. Pending(p) /\ p # t /\ p \in Tops
    BY <1>13 DEF PlaceInv, PendingTops
  <2>2. u \in Tasks /\ u \notin Family(t) /\ ~OnASlot(u)
    BY <1>2, <2>1, Families DEF PlaceInv, NotStarted
  <2>3. QED
    BY <1>11, <2>2
<1>18. NotYetPosted'
  <2> SUFFICES ASSUME NEW r \in Readers, reader'[r] \in {"new", "registered"}, NEW u \in Ids(r)
               PROVE  ~Pending(u)' /\ ~OnASlot(u)' /\ u \notin answered'
    BY DEF NotYetPosted
  <2>1. u \in Tasks /\ ~Pending(u) /\ ~OnASlot(u) /\ u \notin answered
    BY <1>1, IdsType DEF PlaceInv, NotYetPosted
  <2>2. u \notin Family(t)
    <3>1. SUFFICES ASSUME u \in Family(t) PROVE FALSE
      OBVIOUS
    <3>2. t \in Ids(r)
      BY <1>2, <3>1, Families DEF Ids
    <3>3. QED
      BY <1>1, <1>2, <3>2 DEF PlaceInv, NotYetPosted
  <2>3. QED
    BY <1>1, <1>11, <1>13, <2>1, <2>2
<1>19. AnsweredOnce'
  <2> SUFFICES ASSUME NEW u \in answered
               PROVE  /\ ~Pending(u)' /\ \A p \in ParentOf(u) : ~Pending(p)'
                      /\ \A x \in Slots : slotTask'[x] = u => x = ending'
    BY <1>1 DEF AnsweredOnce, ParentOf
  <2>1. u \in Tasks /\ ParentOf(u) \subseteq Tasks
    BY IdsType DEF TypeInv, TypeOK, ParentOf
  <2>2. u \notin Family(t)
    BY <1>2
  <2>3. \A x \in Slots : slotTask'[x] = u => slotTask[x] = u
    BY <1>9, <1>10, <2>2
  <2>4. QED
    BY <1>1, <1>13, <2>1, <2>3 DEF PlaceInv, AnsweredOnce
<1>20. QED
  BY <1>14, <1>15, <1>16, <1>17, <1>18, <1>19 DEF PlaceInv

(* The answer of a task is sent while it is on its slot.                   *)
LEMMA AnswerSlotPlace ==
  ASSUME TypeInv, PlaceInv, TypeInv', NEW s \in Slots, NEW label, Visit(s, label),
         NEW type \in {"final", "error"}, AnswerSlot(s, type)
  PROVE  PlaceInv'
<1> DEFINE t == slotTask[s]
<1>1. /\ t \in Tasks /\ ending = NoSlot /\ s # NoSlot /\ NoTask \notin Tasks
      /\ ending' = s /\ UNCHANGED <<queue, deferred, current, slotTask, reader>>
      /\ answered' = answered \cup {t}
  BY VisitType, ConstantsAssumption
  DEF AnswerSlot, Send, queueVars, slotVars, readerVars
<1>2. OnASlot(t)
  BY DEF OnASlot
<1>3. \A u \in Tasks : /\ Pending(u)' <=> Pending(u)
                       /\ OnASlot(u)' <=> OnASlot(u)
  BY <1>1 DEF Pending, Queued, Deferred, InFlight, OnASlot
<1>4. UniquePlaces' /\ OnePending'
  BY <1>1 DEF PlaceInv, UniquePlaces, OnePending, Queued, Deferred, InFlight
<1>5. AnsweredOnce'
  <2> SUFFICES ASSUME NEW u \in answered'
               PROVE  /\ ~Pending(u)' /\ \A p \in ParentOf(u) : ~Pending(p)'
                      /\ \A x \in Slots : slotTask'[x] = u => x = ending'
    BY DEF AnsweredOnce, ParentOf
  <2>1. u \in Tasks /\ ParentOf(u) \subseteq Tasks
    BY <1>1, IdsType DEF TypeInv, TypeOK, ParentOf
  <2>2. CASE u \in answered
    <3>1. ~Pending(u) /\ \A p \in ParentOf(u) : ~Pending(p)
      BY <2>2 DEF PlaceInv, AnsweredOnce
    <3>2. \A x \in Slots : slotTask[x] # u
      BY <1>1, <2>2, ConstantsAssumption DEF PlaceInv, AnsweredOnce
    <3>3. QED
      BY <1>1, <1>3, <2>1, <3>1, <3>2
  <2>3. CASE u = t
    <3>1. ASSUME NEW p \in Tasks, u \in Family(p)
          PROVE  ~Pending(p)
      BY <1>2, <2>3, <3>1 DEF PlaceInv, NotStarted
    <3>2. ~Pending(u)' /\ \A p \in ParentOf(u) : ~Pending(p)'
      BY <1>3, <2>1, <3>1 DEF Family, ParentOf
    <3>3. \A x \in Slots : slotTask'[x] = u => x = ending'
      BY <1>1, <2>3 DEF PlaceInv, UniquePlaces
    <3>4. QED
      BY <3>2, <3>3
  <2>4. QED
    BY <1>1, <2>2, <2>3
<1>6. \A u \in answered' : u \in answered \/ OnASlot(u)
  BY <1>1, <1>2
<1>7. QED
  BY <1>1, <1>3, <1>4, <1>5, <1>6, MovePlace

(* The steps of the main thread.                                           *)
LEMMA MainPlace ==
  ASSUME TypeInv, PlaceInv, TypeInv', MainStep
  PROVE  PlaceInv'
<1>1. CASE PopTask
  BY <1>1, PopTaskPlace
<1>2. CASE DeferTask \/ LaunchTask \/ LaunchFails \/ AnswerAtOnce
  BY <1>2, DeferPlace, LaunchPlace, AnswerCurrentPlace
<1>3. CASE CancelTask /\ ~UNCHANGED <<queueVars, slotVars>>
  <2>1. PICK s \in Busy : Release(s)
    BY <1>3 DEF CancelTask
  <2>2. /\ ending = NoSlot /\ ending' = NoSlot /\ current' = NoItem
        /\ UNCHANGED <<answered, reader>>
    BY <1>3 DEF CancelTask, Dispatching, Dispatched, TypeInv, PassOK, resultVars, readerVars
  <2>3. QED
    BY <2>1, <2>2, ReleasePlace
<1>4. CASE ReleaseAnswered
  <2>1. /\ ending \in Busy /\ Release(ending) /\ ending' = NoSlot
        /\ UNCHANGED <<answered, reader, current>>
    BY <1>4 DEF ReleaseAnswered, TypeInv, PassOK, resultVars, readerVars
  <2>2. QED
    BY <2>1, ReleasePlace
<1>5. CASE \E s \in Slots : ShiftFails(s) \/ RejectPrompt(s) \/ FailSlot(s) \/ SampleLast(s)
  <2>1. \E s \in Slots : \E label : Visit(s, label) /\ \E type \in {"final", "error"} : AnswerSlot(s, type)
    BY <1>5 DEF ShiftFails, RejectPrompt, FailSlot, SampleLast
  <2>2. QED
    BY <2>1, AnswerSlotPlace
<1>6. CASE StartPass
  <2>1. queue \in Seq(Items) /\ NextResponse \in Items
    BY DEF TypeInv, TypeOK, Items
  <2>2. /\ Unique(queue', Runs)
        /\ \A t \in Tasks : Queued(t)' => Queued(t)
    <3>1. CASE queue' = queue
      BY <3>1 DEF PlaceInv, UniquePlaces, Queued
    <3>2. CASE queue' = Append(queue, NextResponse)
      <4>1. Unique(queue, Runs) /\ NextResponse \notin Runs
        BY RunIds DEF PlaceInv, UniquePlaces, Runs
      <4>2. Unique(queue', Runs) /\ Elems(queue') = Elems(queue) \cup {NextResponse}
        BY <2>1, <3>2, <4>1, AppendElems, AppendUnique
      <4>3. QED
        BY <4>2, RunIds DEF Queued
    <3>3. QED
      BY <1>6, <3>1, <3>2 DEF StartPass
  <2>3. UNCHANGED <<deferred, slotTask, answered, ending, current, reader>>
    BY <1>6 DEF StartPass, GoTo, resultVars, slotVars, readerVars
  <2>4. QED
    BY <2>2, <2>3, QuietPlace DEF PlaceInv, UniquePlaces, Deferred, InFlight
<1>7. CASE SkipNext \/ (CancelTask /\ UNCHANGED <<queueVars, slotVars>>)
  <2>1. /\ UNCHANGED <<queue, deferred, slotTask, answered, ending, reader>>
        /\ current' = NoItem
    BY <1>7 DEF SkipNext, CancelTask, Dispatched, queueVars, resultVars, slotVars, readerVars
  <2>2. \A t \in Tasks : ~InFlight(t)'
    BY <2>1 DEF InFlight, NoItem, Run
  <2>3. QED
    BY <2>1, <2>2, QuietPlace DEF PlaceInv, UniquePlaces, Queued, Deferred
<1>8. CASE \/ ToPrompts \/ ToDecode \/ DecodeNothing \/ DecodeBatch \/ DecodeFails
           \/ DraftFails \/ EndPass \/ WakeUp
           \/ \E s \in Slots : JoinBatch(s) \/ BatchPrompt(s) \/ PassOver(s) \/ SampleToken(s)
  <2>1. UNCHANGED <<queue, deferred, slotTask, answered, ending, current, reader>>
    <3>1. CASE \E s \in Slots : JoinBatch(s) \/ BatchPrompt(s) \/ PassOver(s) \/ SampleToken(s)
      BY <3>1 DEF JoinBatch, BatchPrompt, PassOver, SampleToken, Visit, Send,
                  queueVars, resultVars, slotVars, readerVars
    <3>2. CASE ~\E s \in Slots : JoinBatch(s) \/ BatchPrompt(s) \/ PassOver(s) \/ SampleToken(s)
      BY <1>8, <3>2 DEF ToPrompts, ToDecode, DecodeNothing, DecodeBatch, DecodeFails,
                  DraftFails, EndPass, WakeUp, GoTo,
                  queueVars, resultVars, slotVars, readerVars
    <3>3. QED
      BY <3>1, <3>2
  <2>2. QED
    BY <2>1, QuietPlace DEF PlaceInv, UniquePlaces, Queued, Deferred, InFlight
<1>9. QED
  BY <1>1, <1>2, <1>3, <1>4, <1>5, <1>6, <1>7, <1>8
  DEF MainStep, Dispatch, UpdateSlots, SlotStep

(* PlaceInv is inductive, together with the types.                         *)
LEMMA PlaceInductive ==
  /\ Init => TypeInv /\ PlaceInv
  /\ TypeInv /\ PlaceInv /\ [Next]_vars => TypeInv' /\ PlaceInv'
<1>1. ASSUME Init PROVE TypeInv /\ PlaceInv
  <2>1. /\ queue = <<>> /\ deferred = <<>> /\ current = NoItem /\ answered = {}
        /\ \A s \in Slots : slotTask[s] = NoTask
        /\ NoTask \notin Tasks
    BY <1>1, ConstantsAssumption DEF Init
  <2>2. \A t \in Tasks : ~Pending(t) /\ ~OnASlot(t)
    BY <2>1 DEF Pending, Queued, Deferred, InFlight, OnASlot, Elems, NoItem, Run
  <2>3. UniquePlaces
    BY <2>1 DEF UniquePlaces, Unique
  <2>4. OnePending /\ NotStarted /\ PendingTops
    BY <2>2 DEF OnePending, NotStarted, PendingTops, Pending
  <2>5. NotYetPosted /\ AnsweredOnce
    BY <2>1, <2>2, IdsType DEF NotYetPosted, AnsweredOnce
  <2>6. QED
    BY <1>1, <2>3, <2>4, <2>5, InitType DEF PlaceInv
<1>2. ASSUME TypeInv, PlaceInv, [Next]_vars PROVE TypeInv' /\ PlaceInv'
  <2>1. TypeInv'
    BY <1>2, NextType
  <2>2. CASE Next
    BY <1>2, <2>1, <2>2, ReaderPlace, MainPlace DEF Next
  <2>3. CASE UNCHANGED vars
    <3>1. UNCHANGED <<queue, deferred, slotTask, answered, ending, current, reader>>
      BY <2>3 DEF vars, queueVars, resultVars, slotVars, passVars, readerVars
    <3>2. QED
      BY <1>2, <2>1, <3>1, QuietPlace DEF PlaceInv, UniquePlaces, Queued, Deferred, InFlight
  <2>4. QED
    BY <1>2, <2>1, <2>2, <2>3
<1>3. QED
  BY <1>1, <1>2

(* OnePlace: the HTTP threads and the main thread never duplicate a task:  *)
(* it is once in queue_tasks, in queue_tasks_deferred, in the hands of     *)
(* start_loop() or on a slot, and a parent that waits has no child on one. *)
THEOREM TasksHaveOnePlace == Spec => []OnePlace
<1>1. TypeInv /\ PlaceInv => OnePlace
  BY PlaceImpliesOnePlace
<1>2. QED
  BY <1>1, PlaceInductive, PTL DEF Spec

(* AnsweredOnce: once an answer was sent for a task, no thread holds it,   *)
(* except the slot that update_slots() releases next, so that no second    *)
(* final result or error can be sent for it.                               *)
THEOREM TasksAreAnsweredOnce == Spec => []AnsweredOnce
<1>1. TypeInv /\ PlaceInv => AnsweredOnce
  BY DEF PlaceInv
<1>2. QED
  BY <1>1, PlaceInductive, PTL DEF Spec

-----------------------------------------------------------------------------
(* A reader is sent results while it is registered, and each of its tasks  *)
(* ends with one final result or error, the last in the result queue.      *)

Listening ==
  \A r \in Readers : IF reader[r] \in {"registered", "reading", "failed"}
                     THEN Ids(r) \subseteq waiting ELSE Ids(r) \cap waiting = {}

PartialBefore ==
  {mn \in ResultsOf(Tasks) \X ResultsOf(Tasks) :
     mn[1].id = mn[2].id => mn[1].type = "partial"}

EndsAreAnswers ==
  /\ Chained(results, PartialBefore)
  /\ \A m \in Elems(results) : m.type # "partial" => m.id \in answered

(* received_count is the number of tasks whose final result was read.      *)
CountedOnce ==
  \A r \in Readers :
     /\ got[r] \subseteq Ids(r) \cap answered /\ received[r] = Cardinality(got[r])
     /\ \A m \in Elems(results) : m.id \notin got[r]

AnswersInv == Listening /\ EndsAreAnswers /\ CountedOnce /\ NoOrphanResults
-----------------------------------------------------------------------------
(* The main thread sends at most one result a step, for a task that was    *)
(* not answered yet.                                                       *)
LEMMA MainSends ==
  ASSUME TypeInv, PlaceInv, MainStep
  PROVE  /\ UNCHANGED readerVars
         /\ \/ UNCHANGED resultVars
            \/ \E t \in Tasks \ answered : \E type \in {"partial", "final", "error"} : Send(t, type)
<1>1. CASE \E s \in Slots : \/ ShiftFails(s) \/ RejectPrompt(s) \/ FailSlot(s)
                            \/ SampleLast(s) \/ SampleToken(s)
  <2>1. PICK s \in Slots : \E label : \E type \in {"partial", "final", "error"} :
                              Visit(s, label) /\ Send(slotTask[s], type)
    BY <1>1 DEF ShiftFails, RejectPrompt, FailSlot, SampleLast, SampleToken, AnswerSlot
  <2>2. /\ slotTask[s] \in Tasks /\ ending = NoSlot /\ UNCHANGED readerVars
        /\ s # NoSlot
    BY <2>1, VisitType, ConstantsAssumption
  <2>3. slotTask[s] \notin answered
    BY <2>2 DEF PlaceInv, AnsweredOnce
  <2>4. QED
    BY <2>1, <2>2, <2>3
<1>2. CASE LaunchFails \/ AnswerAtOnce
  <2>1. /\ current.type = "run" /\ UNCHANGED readerVars
        /\ \E x \in Family(current.id) : \E type \in {"final", "error"} : Send(x, type)
    BY <1>2 DEF LaunchFails, AnswerAtOnce, Dispatching, Dispatched, Family
  <2>2. QED
    BY <2>1, CurrentPlace
<1>3. CASE PopTask \/ DeferTask \/ LaunchTask \/ CancelTask \/ SkipNext \/ WakeUp
  BY <1>3 DEF PopTask, DeferTask, LaunchTask, CancelTask, SkipNext, WakeUp, Dispatched
<1>4. CASE \/ StartPass \/ ReleaseAnswered \/ ToPrompts \/ ToDecode \/ DecodeNothing
           \/ DecodeBatch \/ DecodeFails \/ DraftFails \/ EndPass
  BY <1>4 DEF StartPass, ReleaseAnswered, ToPrompts, ToDecode, DecodeNothing,
              DecodeBatch, DecodeFails, DraftFails, EndPass
<1>5. CASE \E s \in Slots : JoinBatch(s) \/ BatchPrompt(s) \/ PassOver(s)
  BY <1>5 DEF JoinBatch, BatchPrompt, PassOver, Visit
<1>6. QED
  BY <1>1, <1>2, <1>3, <1>4, <1>5 DEF MainStep, Dispatch, UpdateSlots, SlotStep

(* A result for a task that was not answered yet.                          *)
LEMMA SendAnswers ==
  ASSUME TypeInv, AnswersInv, UNCHANGED readerVars,
         NEW t \in Tasks, t \notin answered,
         NEW type \in {"partial", "final", "error"}, Send(t, type)
  PROVE  AnswersInv'
<1> DEFINE m == Result(t, type)
<1>1. /\ m \in ResultsOf(Tasks) /\ m.id = t /\ m.type = type
      /\ results \in Seq(ResultsOf(Tasks))
      /\ UNCHANGED <<waiting, reader, received, got>>
  BY DEF Result, ResultsOf, TypeInv, TypeOK, Send, readerVars
<1> HIDE DEF m
<1>2. /\ answered \subseteq answered'
      /\ type # "partial" => t \in answered'
  BY DEF Send
<1>3. CASE t \notin waiting
  <2>1. results' = results
    BY <1>3 DEF Send
  <2>2. QED
    BY <1>1, <1>2, <2>1
    DEF AnswersInv, Listening, EndsAreAnswers, CountedOnce, NoOrphanResults
<1>4. CASE t \in waiting
  <2>1. results' = Append(results, m)
    BY <1>4 DEF Send, m
  <2>2. Elems(results') = Elems(results) \cup {m}
    BY <1>1, <2>1, AppendElems
  <2>3. EndsAreAnswers'
    <3>1. ASSUME NEW x \in Elems(results)
          PROVE  <<x, m>> \in PartialBefore
      <4>1. x \in ResultsOf(Tasks)
        BY <1>1, <3>1 DEF Elems
      <4>2. x.type # "partial" => x.id # t
        BY <3>1 DEF AnswersInv, EndsAreAnswers
      <4>3. QED
        BY <1>1, <4>1, <4>2 DEF PartialBefore
    <3>2. Chained(results', PartialBefore)
      BY <1>1, <2>1, <3>1, AppendChained DEF AnswersInv, EndsAreAnswers
    <3>3. QED
      BY <1>1, <1>2, <2>2, <3>2 DEF AnswersInv, EndsAreAnswers
  <2>4. CountedOnce'
    BY <1>1, <1>2, <2>2 DEF AnswersInv, CountedOnce
  <2>5. NoOrphanResults'
    <3> SUFFICES ASSUME NEW r \in Readers, reader[r] \in {"purged", "closed"}
                 PROVE  Elems(results') \cap ResultsOf(Ids(r)) = {}
      BY <1>1 DEF NoOrphanResults
    <3>1. t \notin Ids(r)
      BY <1>4 DEF AnswersInv, Listening
    <3>2. m \notin ResultsOf(Ids(r))
      BY <1>1, <3>1 DEF ResultsOf
    <3>3. QED
      BY <2>2, <3>2 DEF AnswersInv, NoOrphanResults
  <2>6. QED
    BY <1>1, <2>3, <2>4, <2>5 DEF AnswersInv, Listening
<1>5. QED
  BY <1>3, <1>4

(* next() reads the oldest result of its tasks: the final result of a task *)
(* is the last one for it, and is counted once.                            *)
LEMMA RecvTakes ==
  ASSUME TypeInv, AnswersInv, NEW r \in Readers, Recv(r)
  PROVE  \E m \in Elems(results) :
            /\ m.id \in Ids(r) /\ m \in ResultsOf(Tasks)
            /\ results' \in Seq(ResultsOf(Tasks))
            /\ Elems(results) = Elems(results') \cup {m}
            /\ Chained(results', PartialBefore)
            /\ m.type # "partial" => \A x \in Elems(results') : x.id # m.id
            /\ \/ m.type = "partial" /\ UNCHANGED readerVars
               \/ /\ m.type = "final" /\ UNCHANGED reader
                  /\ received' = [received EXCEPT ![r] = @ + 1]
                  /\ got' = [got EXCEPT ![r] = @ \cup {m.id}]
               \/ /\ m.type = "error" /\ UNCHANGED <<received, got>>
                  /\ reader' = [reader EXCEPT ![r] = "failed"]
<1> DEFINE mine == ResultsOf(Ids(r))
           i == FirstIn(results, mine)
           m == results[i]
<1>1. results \in Seq(ResultsOf(Tasks)) /\ Elems(results) \cap mine # {}
  BY DEF Recv, TypeInv, TypeOK
<1>2. i \in DOMAIN results /\ m \in mine /\ \A j \in 1 .. i - 1 : results[j] \notin mine
  <2> HIDE DEF mine
  <2>1. QED
    BY <1>1, FirstInFound
<1>3. results' = DropAt(results, i)
  BY DEF Recv
<1>4. /\ results' \in Seq(ResultsOf(Tasks)) /\ m \in ResultsOf(Tasks)
      /\ Elems(results) = Elems(results') \cup {m}
      /\ Chained(results', PartialBefore)
      /\ \A x \in Elems(results') : \E j \in DOMAIN results : j # i /\ x = results[j]
  <2> HIDE DEF i
  <2>1. QED
    BY <1>1, <1>2, <1>3, DropAtElems, DropAtRest DEF AnswersInv, EndsAreAnswers
<1>5. m.id \in Ids(r)
  <2> HIDE DEF m
  <2>1. QED
    BY <1>2 DEF ResultsOf
<1>6. ASSUME m.type # "partial", NEW x \in Elems(results'), x.id = m.id
      PROVE  FALSE
  <2>1. PICK j \in DOMAIN results : j # i /\ x = results[j]
    BY <1>4
  <2>2. x \in ResultsOf(Tasks)
    BY <1>1, <2>1
  <2>3. x \in mine
    BY <1>5, <1>6, <2>2 DEF ResultsOf
  <2>4. i \in Nat /\ j \in Nat /\ 1 <= j
    BY <1>1, <1>2, <2>1
  <2> HIDE DEF mine, i
  <2>5. i < j
    BY <1>2, <2>1, <2>3, <2>4
  <2>6. <<m, x>> \in PartialBefore
    BY <1>2, <2>1, <2>5 DEF AnswersInv, EndsAreAnswers, Chained
  <2>7. QED
    BY <1>6, <2>6 DEF PartialBefore
<1>7. \/ m.type = "partial" /\ UNCHANGED readerVars
      \/ /\ m.type = "final" /\ UNCHANGED reader
         /\ received' = [received EXCEPT ![r] = @ + 1]
         /\ got' = [got EXCEPT ![r] = @ \cup {m.id}]
      \/ /\ m.type = "error" /\ UNCHANGED <<received, got>>
         /\ reader' = [reader EXCEPT ![r] = "failed"]
  BY DEF Recv
<1>8. m \in Elems(results)
  BY <1>4
<1> HIDE DEF m
<1>9. QED
  BY <1>4, <1>5, <1>6, <1>7, <1>8

LEMMA RecvAnswers ==
  ASSUME TypeInv, AnswersInv, NEW r \in Readers, Recv(r)
  PROVE  AnswersInv'
<1>1. PICK m \in Elems(results) :
        /\ m.id \in Ids(r) /\ m \in ResultsOf(Tasks)
        /\ Elems(results) = Elems(results') \cup {m}
        /\ Chained(results', PartialBefore)
        /\ m.type # "partial" => \A x \in Elems(results') : x.id # m.id
        /\ \/ m.type = "partial" /\ UNCHANGED readerVars
           \/ /\ m.type = "final" /\ UNCHANGED reader
              /\ received' = [received EXCEPT ![r] = @ + 1]
              /\ got' = [got EXCEPT ![r] = @ \cup {m.id}]
           \/ /\ m.type = "error" /\ UNCHANGED <<received, got>>
              /\ reader' = [reader EXCEPT ![r] = "failed"]
  BY RecvTakes
<1>2. /\ reader[r] = "reading" /\ UNCHANGED <<waiting, answered>>
      /\ reader \in [Readers -> ReaderStates] /\ received \in [Readers -> Nat]
      /\ got \in [Readers -> SUBSET Tasks]
  BY DEF Recv, TypeInv, TypeOK
<1>3. \A q \in Readers :
         \/ reader'[q] = reader[q]
         \/ q = r /\ reader'[q] = "failed"
  BY <1>1, <1>2 DEF readerVars
<1>4. Listening'
  BY <1>2, <1>3 DEF AnswersInv, Listening
<1>5. EndsAreAnswers'
  BY <1>1, <1>2 DEF AnswersInv, EndsAreAnswers
<1>6. NoOrphanResults'
  BY <1>1, <1>2, <1>3 DEF AnswersInv, NoOrphanResults
<1>7. CountedOnce'
  <2>1. CASE m.type # "final"
    BY <1>1, <1>2, <2>1 DEF AnswersInv, CountedOnce, readerVars
  <2>2. CASE m.type = "final"
    <3>1. /\ got'[r] = got[r] \cup {m.id} /\ received'[r] = received[r] + 1
          /\ \A q \in Readers : q # r => got'[q] = got[q] /\ received'[q] = received[q]
          /\ m.id \in answered /\ m.id \notin got[r]
      BY <1>1, <1>2, <2>2 DEF AnswersInv, EndsAreAnswers, CountedOnce
    <3>2. Cardinality(got'[r]) = Cardinality(got[r]) + 1
      <4>1. IsFiniteSet(got[r])
        BY IdsType, FS_Subset DEF AnswersInv, CountedOnce
      <4>2. QED
        BY <3>1, <4>1, FS_AddElement
    <3>3. got'[r] \subseteq Ids(r) \cap answered
      BY <1>1, <3>1 DEF AnswersInv, CountedOnce
    <3>4. \A q \in Readers : \A x \in Elems(results') : x.id \notin got'[q]
      BY <1>1, <2>2, <3>1 DEF AnswersInv, CountedOnce
    <3>5. QED
      BY <1>2, <3>1, <3>2, <3>3, <3>4 DEF AnswersInv, CountedOnce
  <2>3. QED
    BY <2>1, <2>2
<1>8. QED
  BY <1>4, <1>5, <1>6, <1>7 DEF AnswersInv

(* A reader that read every result leaves none behind.                     *)
LEMMA AllReceived ==
  ASSUME TypeInv, AnswersInv, NEW r \in Readers, ~HasNext(r)
  PROVE  got[r] = Ids(r) /\ Elems(results) \cap ResultsOf(Ids(r)) = {}
<1>1. /\ got[r] \subseteq Ids(r) /\ received[r] = Cardinality(got[r])
      /\ IsFiniteSet(Ids(r)) /\ Cardinality(Ids(r)) \in Nat
      /\ received[r] \in Nat
  BY IdsType DEF AnswersInv, CountedOnce, TypeInv, TypeOK
<1>2. Cardinality(Ids(r)) <= Cardinality(got[r])
  BY <1>1 DEF HasNext
<1>3. got[r] = Ids(r)
  BY <1>1, <1>2, FS_Subset
<1>4. \A m \in Elems(results) : m \notin ResultsOf(Ids(r))
  BY <1>3 DEF AnswersInv, CountedOnce, ResultsOf
<1>5. QED
  BY <1>3, <1>4

(* stop(): the reader listens no more, then its results are erased.        *)
LEMMA StopAnswers ==
  ASSUME TypeInv, AnswersInv, NEW r \in Readers, Stop(r),
         reader[r] \in {"reading", "failed"}
  PROVE  AnswersInv'
<1>1. /\ waiting' = waiting \ Ids(r)
      /\ reader' = [reader EXCEPT ![r] = IF HasNext(r) THEN "leaving" ELSE "closed"]
      /\ UNCHANGED <<results, answered, received, got>>
      /\ reader \in [Readers -> ReaderStates]
  BY DEF Stop, TypeInv, TypeOK
<1>2. Listening'
  <2> SUFFICES ASSUME NEW q \in Readers
               PROVE  IF reader'[q] \in {"registered", "reading", "failed"}
                      THEN Ids(q) \subseteq waiting' ELSE Ids(q) \cap waiting' = {}
    BY DEF Listening
  <2>1. CASE q = r
    BY <1>1, <2>1
  <2>2. CASE q # r
    <3>1. reader'[q] = reader[q] /\ Ids(q) \cap Ids(r) = {}
      BY <1>1, <2>2, DistinctIds
    <3>2. QED
      BY <1>1, <3>1 DEF AnswersInv, Listening
  <2>3. QED
    BY <2>1, <2>2
<1>3. NoOrphanResults'
  <2>1. ASSUME NEW q \in Readers, reader'[q] \in {"purged", "closed"}
        PROVE  Elems(results) \cap ResultsOf(Ids(q)) = {}
    BY <1>1, <2>1, AllReceived DEF AnswersInv, NoOrphanResults
  <2>2. QED
    BY <1>1, <2>1 DEF NoOrphanResults
<1>4. QED
  BY <1>1, <1>2, <1>3 DEF AnswersInv, EndsAreAnswers, CountedOnce

LEMMA PurgeAnswers ==
  ASSUME TypeInv, AnswersInv, NEW r \in Readers, PurgeResults(r)
  PROVE  AnswersInv'
<1>1. /\ reader[r] = "leaving" /\ reader' = [reader EXCEPT ![r] = "purged"]
      /\ results' = Drop(results, ResultsOf(Ids(r)))
      /\ UNCHANGED <<waiting, answered, received, got>>
      /\ reader \in [Readers -> ReaderStates] /\ results \in Seq(ResultsOf(Tasks))
  BY DEF PurgeResults, TypeInv, TypeOK
<1>2. /\ Elems(results') = Elems(results) \ ResultsOf(Ids(r))
      /\ Chained(results', PartialBefore)
  BY <1>1, DropElems, DropChained DEF AnswersInv, EndsAreAnswers
<1>3. Listening'
  BY <1>1 DEF AnswersInv, Listening
<1>4. QED
  BY <1>1, <1>2, <1>3 DEF AnswersInv, EndsAreAnswers, CountedOnce, NoOrphanResults

LEMMA ReaderAnswers ==
  ASSUME TypeInv, AnswersInv, NEW r \in Readers, ReaderStep(r)
  PROVE  AnswersInv'
<1>1. CASE AddWaiting(r)
  <2>1. /\ reader[r] = "new" /\ reader' = [reader EXCEPT ![r] = "registered"]
        /\ waiting' = waiting \cup Ids(r)
        /\ UNCHANGED <<results, answered, received, got>>
        /\ reader \in [Readers -> ReaderStates]
    BY <1>1 DEF AddWaiting, TypeInv, TypeOK
  <2>2. \A q \in Readers : q # r => reader'[q] = reader[q] /\ Ids(q) \cap Ids(r) = {}
    BY <2>1, DistinctIds
  <2>3. Listening'
    BY <2>1, <2>2 DEF AnswersInv, Listening
  <2>4. QED
    BY <2>1, <2>3 DEF AnswersInv, EndsAreAnswers, CountedOnce, NoOrphanResults
<1>2. CASE PostTasks(r) \/ PostCancels(r)
  <2>1. /\ UNCHANGED <<resultVars, received, got>>
        /\ reader \in [Readers -> ReaderStates]
        /\ \/ reader[r] = "registered" /\ reader' = [reader EXCEPT ![r] = "reading"]
           \/ reader[r] = "purged" /\ reader' = [reader EXCEPT ![r] = "closed"]
    BY <1>2 DEF PostTasks, PostCancels, TypeInv, TypeOK
  <2>2. QED
    BY <2>1 DEF AnswersInv, Listening, EndsAreAnswers, CountedOnce, NoOrphanResults, resultVars
<1>3. CASE Recv(r)
  BY <1>3, RecvAnswers
<1>4. CASE Finish(r) \/ Disconnect(r)
  BY <1>4, StopAnswers DEF Finish, Disconnect
<1>5. CASE PurgeResults(r)
  BY <1>5, PurgeAnswers
<1>6. QED
  BY <1>1, <1>2, <1>3, <1>4, <1>5 DEF ReaderStep

LEMMA AnswersInductive ==
  /\ Init => AnswersInv
  /\ TypeInv /\ PlaceInv /\ AnswersInv /\ [Next]_vars => AnswersInv'
<1>1. ASSUME Init PROVE AnswersInv
  <2>1. /\ waiting = {} /\ results = <<>> /\ answered = {}
        /\ \A r \in Readers : reader[r] = "new" /\ received[r] = 0 /\ got[r] = {}
        /\ Elems(results) = {}
    BY <1>1 DEF Init, Elems
  <2>2. Cardinality({}) = 0
    BY FS_EmptySet
  <2>3. Chained(results, PartialBefore)
    BY <2>1 DEF Chained
  <2>4. QED
    BY <2>1, <2>2, <2>3 DEF AnswersInv, Listening, EndsAreAnswers, CountedOnce, NoOrphanResults
<1>2. ASSUME TypeInv, PlaceInv, AnswersInv, [Next]_vars PROVE AnswersInv'
  <2>1. CASE MainStep
    <3>1. CASE UNCHANGED <<resultVars, readerVars>>
      BY <1>2, <3>1 DEF AnswersInv, Listening, EndsAreAnswers, CountedOnce,
                        NoOrphanResults, resultVars, readerVars
    <3>2. CASE ~UNCHANGED resultVars
      BY <1>2, <2>1, <3>2, MainSends, SendAnswers
    <3>3. QED
      BY <1>2, <2>1, <3>1, <3>2, MainSends
  <2>2. CASE \E r \in Readers : ReaderStep(r)
    BY <1>2, <2>2, ReaderAnswers
  <2>3. CASE UNCHANGED vars
    BY <1>2, <2>3 DEF vars, AnswersInv, Listening, EndsAreAnswers, CountedOnce,
                      NoOrphanResults, resultVars, readerVars
  <2>4. QED
    BY <1>2, <2>1, <2>2, <2>3 DEF Next
<1>3. QED
  BY <1>1, <1>2

(* NoOrphanResults: remove_waiting_task_id() of stop() leaves no result of *)
(* the reader in queue_results, and none can come later, because nobody    *)
(* waits for its ids.  A reader that stop() lets go without a purge, since *)
(* received_count says so, has indeed read everything.                     *)
THEOREM NothingIsLeftBehind == Spec => []NoOrphanResults
<1>1. AnswersInv => NoOrphanResults
  BY DEF AnswersInv
<1>2. QED
  BY <1>1, PlaceInductive, AnswersInductive, PTL DEF Spec

-----------------------------------------------------------------------------
(* What one step of the main thread does to the tasks: they stay where     *)
(* they are, or one is answered on its slot, leaves its slot, starts with  *)
(* its children, or ends before it starts.                                 *)

PendingStays   == \A u \in Tasks : Pending(u)' <=> Pending(u)
PendingLess(t) == \A u \in Tasks : Pending(u)' <=> Pending(u) /\ u # t
SlotsStay      == \A u \in Tasks : OnASlot(u)' <=> OnASlot(u)
SlotsLess(t)   == \A u \in Tasks : OnASlot(u)' <=> OnASlot(u) /\ u # t
SlotsMore(T)   == \A u \in Tasks : OnASlot(u)' <=> OnASlot(u) \/ u \in T

AnsweredOnSlot(t) ==
  /\ OnASlot(t) /\ t \notin answered /\ PendingStays /\ SlotsStay
  /\ \E type \in {"final", "error"} : Send(t, type)

LeavesSlot(t) ==
  /\ OnASlot(t) /\ PendingStays /\ SlotsLess(t) /\ UNCHANGED answered
  /\ t \in answered \/ \E r \in Readers : t \in Ids(r) /\ reader[r] = "closed"

Starts(t) ==
  Pending(t) /\ PendingLess(t) /\ SlotsMore(Family(t)) /\ UNCHANGED answered

EndsEarly(t) ==
  /\ Pending(t) /\ PendingLess(t) /\ SlotsStay
  /\ \E x \in Family(t) : \E type \in {"final", "error"} :
        Send(x, type) /\ (type = "error" \/ Family(t) = {x})

MainMoves ==
  \/ PendingStays /\ SlotsStay /\ UNCHANGED answered
  \/ \E t \in Tasks : AnsweredOnSlot(t) \/ LeavesSlot(t)
  \/ \E t \in Tops : Starts(t) \/ EndsEarly(t)

(* A cancel task is posted when the reader has stopped, and update_slots() *)
(* releases a slot after it sent the answer.                               *)
CancelsAreLast ==
  \A r \in Readers : \A t \in Ids(r) :
     Cancel(t) \in Elems(queue) \cup {current} => reader[r] = "closed"

EndingIsAnswered == ending # NoSlot => slotTask[ending] \in answered

(* start_loop() pops a task only when the one before is dispatched.        *)
HandsFree == pc # "dispatch" => current = NoItem
-----------------------------------------------------------------------------
(* pop_deferred_task() moves a task from one queue to the other.           *)
LEMMA PopDeferredMoves ==
  ASSUME TypeInv, NEW s, PopDeferred(s)
  PROVE  /\ \A t \in Tasks : Queued(t)' \/ Deferred(t)' <=> Queued(t) \/ Deferred(t)
         /\ \A t : Cancel(t) \in Elems(queue') => Cancel(t) \in Elems(queue)
<1>0. queue \in Seq(Items) /\ deferred \in Seq(Tasks)
  BY DEF TypeInv, TypeOK
<1>1. CASE queue' = queue /\ deferred' = deferred
  BY <1>1 DEF Queued, Deferred
<1>2. ASSUME NEW i \in DOMAIN deferred, deferred[i] \in Tasks,
             queue' = Cons(Run(deferred[i]), queue), deferred' = DropAt(deferred, i)
      PROVE  /\ \A t \in Tasks : Queued(t)' \/ Deferred(t)' <=> Queued(t) \/ Deferred(t)
             /\ \A t : Cancel(t) \in Elems(queue') => Cancel(t) \in Elems(queue)
  <2>1. PICK u \in Tasks : u = deferred[i]
    BY <1>2
  <2>2. Run(u) \in Items
    BY DEF Items
  <2>3. Elems(queue') = Elems(queue) \cup {Run(u)}
    <3>1. queue' = Cons(Run(u), queue)
      BY <1>2, <2>1
    <3>2. Elems(Cons(Run(u), queue)) = Elems(queue) \cup {Run(u)}
      BY <1>0, <2>2, ConsElems
    <3>3. QED
      BY <3>1, <3>2
  <2>4. Elems(deferred) = Elems(deferred') \cup {u}
    BY <1>0, <1>2, <2>1, DropAtElems
  <2>5. QED
    BY <2>3, <2>4, RunIds DEF Queued, Deferred
<1>3. QED
  BY <1>1, <1>2, PopDeferredStep DEF TypeInv

(* A slot is released: its task leaves, and nothing is lost of the queues. *)
LEMMA ReleaseMoves ==
  ASSUME TypeInv, PlaceInv, NEW s \in Busy, Release(s),
         \A t \in Tasks : InFlight(t)' <=> InFlight(t)
  PROVE  /\ slotTask[s] \in Tasks /\ OnASlot(slotTask[s])
         /\ PendingStays /\ SlotsLess(slotTask[s])
         /\ \A t : Cancel(t) \in Elems(queue') => Cancel(t) \in Elems(queue)
<1>1. /\ slotTask' = [slotTask EXCEPT ![s] = NoTask] /\ PopDeferred(s)
      /\ slotTask \in [Slots -> Tasks \cup {NoTask}]
      /\ s \in Slots /\ slotTask[s] \in Tasks /\ NoTask \notin Tasks
  BY ConstantsAssumption DEF Release, TypeInv, TypeOK, PassOK, Busy
<1>2. OnASlot(slotTask[s])
  BY <1>1 DEF OnASlot
<1>3. PendingStays
  BY <1>1, PopDeferredMoves DEF PendingStays, Pending
<1>4. SlotsLess(slotTask[s])
  <2> SUFFICES ASSUME NEW u \in Tasks
               PROVE  OnASlot(u)' <=> OnASlot(u) /\ u # slotTask[s]
    BY DEF SlotsLess
  <2>1. \A x \in Slots : slotTask[x] = slotTask[s] => x = s
    BY <1>1 DEF PlaceInv, UniquePlaces
  <2>2. \A x \in Slots : slotTask'[x] = IF x = s THEN NoTask ELSE slotTask[x]
    BY <1>1
  <2>3. QED
    BY <1>1, <2>1, <2>2 DEF OnASlot
<1>5. QED
  BY <1>1, <1>2, <1>3, <1>4, PopDeferredMoves

(* launch_slots_with_parent_task(): the whole family is on slots.          *)
LEMMA LaunchMoves ==
  ASSUME TypeInv, PlaceInv, LaunchTask
  PROVE  current.id \in Tops /\ Starts(current.id)
<1> DEFINE t == current.id
<1>1. /\ current.type = "run" /\ current' = NoItem
      /\ UNCHANGED <<queue, deferred, answered>>
  BY DEF LaunchTask, Dispatching, Dispatched, queueVars, resultVars
<1>2. /\ t \in Tops /\ t \in Tasks /\ Pending(t) /\ ~Queued(t) /\ ~Deferred(t)
      /\ \A u \in Family(t) : u \in Tasks /\ ~OnASlot(u)
      /\ \A u \in Tasks : InFlight(u) => u = t
  BY <1>1, CurrentPlace, IdsType
<1>3. \E s \in Candidates(t) : \E place \in [Children[t] -> Free \ {s}] : Placed(t, s, place)
  BY DEF LaunchTask, Placed
<1> HIDE DEF t
<1>4. PICK s \in Candidates(t) : \E place \in [Children[t] -> Free \ {s}] : Placed(t, s, place)
  BY <1>3
<1>5. PICK place \in [Children[t] -> Free \ {s}] : Placed(t, s, place)
  BY <1>4
<1>6. s \in Slots /\ slotTask'[s] = t
  BY <1>5 DEF Placed, Candidates, Free
<1>7. ASSUME NEW c \in Children[t]
      PROVE  place[c] \in Slots /\ place[c] # s /\ Idle(place[c]) /\ slotTask'[place[c]] = c
  <2>1. place[c] \in Slots /\ place[c] # s /\ Idle(place[c])
    BY DEF Free
  <2>2. slotTask'[place[c]] = CHOOSE d \in Children[t] : place[d] = place[c]
    BY <1>5, <2>1 DEF Placed
  <2>3. \A d \in Children[t] : place[d] = place[c] => d = c
    BY <1>5 DEF Placed
  <2>4. QED
    BY <2>1, <2>2, <2>3
<1>8. \A x \in Slots : x # s /\ (\A c \in Children[t] : place[c] # x) => slotTask'[x] = slotTask[x]
  BY <1>5 DEF Placed
<1>9. SlotsMore(Family(t))
  <2>1. ASSUME NEW u \in Tasks, OnASlot(u)
        PROVE  OnASlot(u)'
    <3>1. PICK x \in Slots : slotTask[x] = u
      BY <2>1 DEF OnASlot
    <3>2. ~Idle(x)
      BY <3>1, ConstantsAssumption DEF TypeInv, PassOK
    <3>3. Idle(s)
      BY DEF Candidates, Free
    <3>4. slotTask'[x] = u
      BY <1>7, <1>8, <3>1, <3>2, <3>3
    <3>5. QED
      BY <3>4 DEF OnASlot
  <2>2. ASSUME NEW u \in Family(t)
        PROVE  OnASlot(u)'
    BY <1>6, <1>7 DEF Family, OnASlot
  <2>3. ASSUME NEW u \in Tasks, OnASlot(u)'
        PROVE  OnASlot(u) \/ u \in Family(t)
    <3>1. PICK x \in Slots : slotTask'[x] = u
      BY <2>3 DEF OnASlot
    <3>2. CASE x = s
      BY <1>6, <3>1, <3>2 DEF Family
    <3>3. CASE \E c \in Children[t] : place[c] = x
      BY <1>7, <3>1, <3>3 DEF Family
    <3>4. CASE x # s /\ \A c \in Children[t] : place[c] # x
      BY <1>8, <3>1, <3>4 DEF OnASlot
    <3>5. QED
      BY <3>2, <3>3, <3>4
  <2>4. QED
    BY <2>1, <2>2, <2>3 DEF SlotsMore
<1>10. \A u \in Tasks : /\ Queued(u)' <=> Queued(u)
                        /\ Deferred(u)' <=> Deferred(u)
                        /\ ~InFlight(u)'
  BY <1>1 DEF Queued, Deferred, InFlight, NoItem, Run
<1>11. PendingLess(t)
  BY <1>2, <1>10 DEF PendingLess, Pending
<1>12. Starts(t)
  BY <1>1, <1>2, <1>9, <1>11 DEF Starts
<1>13. QED
  BY <1>2, <1>12 DEF t

LEMMA HandsAreFree == HandsFree /\ [Next]_vars => HandsFree'
<1> SUFFICES ASSUME HandsFree, [Next]_vars PROVE HandsFree'
  OBVIOUS
<1>1. CASE UNCHANGED <<pc, current>>
  BY <1>1 DEF HandsFree
<1>2. CASE PopTask \/ Dispatch \/ WakeUp
  BY <1>2 DEF PopTask, Dispatch, DeferTask, LaunchTask, LaunchFails, AnswerAtOnce,
              CancelTask, SkipNext, Dispatched, WakeUp, GoTo, HandsFree
<1>3. CASE UpdateSlots
  <2>1. CASE \E s \in Slots : SlotStep(s)
    BY <1>1, <2>1 DEF SlotStep, JoinBatch, ShiftFails, RejectPrompt, BatchPrompt, PassOver,
                      FailSlot, SampleToken, SampleLast, Visit
  <2>2. CASE ~\E s \in Slots : SlotStep(s)
    BY <1>3, <2>2 DEF UpdateSlots, StartPass, ReleaseAnswered, ToPrompts, ToDecode,
                      DecodeNothing, DecodeBatch, DecodeFails, DraftFails, EndPass,
                      Visited, Decoding, GoTo, HandsFree
  <2>3. QED
    BY <2>1, <2>2
<1>4. CASE \E r \in Readers : ReaderStep(r)
  BY <1>1, <1>4 DEF ReaderStep, AddWaiting, PostTasks, Recv, Finish, Disconnect, Stop,
                    PurgeResults, PostCancels, passVars
<1>5. QED
  BY <1>1, <1>2, <1>3, <1>4 DEF Next, MainStep, vars, passVars

(* Every step of the main thread is one of these moves.                    *)
LEMMA MainStepMoves ==
  ASSUME TypeInv, PlaceInv, CancelsAreLast, EndingIsAnswered, HandsFree, MainStep
  PROVE  /\ MainMoves /\ CancelsAreLast' /\ EndingIsAnswered'
         /\ \A t : Cancel(t) \in Elems(queue') \cup {current'}
                      => Cancel(t) \in Elems(queue) \cup {current}
<1>0. UNCHANGED reader
  BY MainSends DEF readerVars
<1>1. SUFFICES /\ MainMoves /\ EndingIsAnswered'
               /\ \A t : Cancel(t) \in Elems(queue') \cup {current'}
                            => Cancel(t) \in Elems(queue) \cup {current}
  BY <1>0 DEF CancelsAreLast
<1>2. \A t : Cancel(t) # NoItem
  BY DEF Cancel, NoItem
<1>3. ASSUME PendingStays, SlotsStay, UNCHANGED <<answered, queue, slotTask, ending>>,
             current' = current \/ current' = NoItem
      PROVE  /\ MainMoves /\ EndingIsAnswered'
             /\ \A t : Cancel(t) \in Elems(queue') \cup {current'}
                          => Cancel(t) \in Elems(queue) \cup {current}
  BY <1>2, <1>3 DEF MainMoves, EndingIsAnswered
<1>4. CASE PopTask
  <2>1. UNCHANGED <<deferred, answered, slotTask, ending>>
    BY <1>4 DEF PopTask, resultVars, slotVars
  <2>2. SlotsStay
    BY <2>1 DEF SlotsStay, OnASlot
  <2>3. CASE queue = <<>>
    <3>1. UNCHANGED <<queue, current>>
      BY <1>4, <2>3 DEF PopTask
    <3>2. PendingStays
      BY <2>1, <3>1 DEF PendingStays, Pending, Queued, Deferred, InFlight
    <3>3. QED
      BY <1>3, <2>1, <2>2, <3>1, <3>2
  <2>4. CASE queue # <<>>
    <3>1. queue' = Tail(queue) /\ current' = Head(queue) /\ queue \in Seq(Items)
      BY <1>4, <2>4 DEF PopTask, TypeInv, TypeOK
    <3>2. Elems(queue) = Elems(queue') \cup {current'}
      BY <2>4, <3>1, TailElems
    <3>3. \A t \in Tasks : ~InFlight(t)
      BY <1>4 DEF PopTask, HandsFree, InFlight, Run, NoItem
    <3>4. PendingStays
      BY <2>1, <3>2, <3>3 DEF PendingStays, Pending, Queued, Deferred, InFlight
    <3>5. QED
      BY <2>1, <2>2, <3>2, <3>4 DEF MainMoves, EndingIsAnswered
  <2>5. QED
    BY <2>3, <2>4
<1>5. CASE DeferTask
  <2>1. /\ current.type = "run" /\ current' = NoItem
        /\ deferred' = Append(deferred, current.id) /\ deferred \in Seq(Tasks)
        /\ UNCHANGED <<queue, answered, slotTask, ending>>
    BY <1>5 DEF DeferTask, Dispatching, Dispatched, resultVars, slotVars, TypeInv, TypeOK
  <2>2. /\ current.id \in Tasks /\ InFlight(current.id)
        /\ \A u \in Tasks : InFlight(u) => u = current.id
    BY <2>1, CurrentPlace, IdsType
  <2>3. Elems(deferred') = Elems(deferred) \cup {current.id}
    BY <2>1, <2>2, AppendElems
  <2>4. PendingStays
    BY <2>1, <2>2, <2>3 DEF PendingStays, Pending, Queued, Deferred, InFlight, NoItem, Run
  <2>5. SlotsStay
    BY <2>1 DEF SlotsStay, OnASlot
  <2>6. QED
    BY <1>3, <2>1, <2>4, <2>5
<1>6. CASE LaunchTask
  <2>1. current' = NoItem /\ UNCHANGED <<queue, ending, answered>> /\ ending = NoSlot
    BY <1>6 DEF LaunchTask, Dispatching, Dispatched, queueVars, resultVars, TypeInv, PassOK
  <2>2. QED
    BY <1>2, <1>6, <2>1, LaunchMoves DEF MainMoves, EndingIsAnswered
<1>7. CASE LaunchFails \/ AnswerAtOnce
  <2>1. /\ current.type = "run" /\ current' = NoItem
        /\ UNCHANGED <<queue, deferred, slotTask, ending>> /\ ending = NoSlot
    BY <1>7 DEF LaunchFails, AnswerAtOnce, Dispatching, Dispatched, queueVars, slotVars,
                TypeInv, PassOK
  <2>2. /\ current.id \in Tops /\ Pending(current.id) /\ InFlight(current.id)
        /\ ~Queued(current.id) /\ ~Deferred(current.id) /\ current.id \in Tasks
        /\ \A u \in Tasks : InFlight(u) => u = current.id
    BY <2>1, CurrentPlace, IdsType
  <2>3. PendingLess(current.id)
    BY <2>1, <2>2 DEF PendingLess, Pending, Queued, Deferred, InFlight, NoItem, Run
  <2>4. SlotsStay
    BY <2>1 DEF SlotsStay, OnASlot
  <2>5. \E x \in Family(current.id) : \E type \in {"final", "error"} :
           Send(x, type) /\ (type = "error" \/ Family(current.id) = {x})
    <3>1. CASE LaunchFails
      BY <3>1 DEF LaunchFails, Family
    <3>2. CASE AnswerAtOnce
      <4>1. Kind[current.id] = "direct"
        BY <3>2 DEF AnswerAtOnce
      <4>2. Family(current.id) = {current.id}
        BY <2>2, <4>1, TasksOfReaders DEF Family
      <4>3. QED
        BY <3>2, <4>2 DEF AnswerAtOnce
    <3>3. QED
      BY <1>7, <3>1, <3>2
  <2>6. EndsEarly(current.id)
    BY <2>2, <2>3, <2>4, <2>5 DEF EndsEarly
  <2>7. QED
    BY <1>2, <2>1, <2>2, <2>6 DEF MainMoves, EndingIsAnswered
<1>8. CASE CancelTask /\ ~UNCHANGED <<queueVars, slotVars>>
  <2>1. PICK s \in Busy : slotTask[s] = current.id /\ Release(s)
    BY <1>8 DEF CancelTask
  <2>2. /\ current.type = "cancel" /\ current' = NoItem /\ ending = NoSlot
        /\ UNCHANGED <<answered, ending>>
    BY <1>8 DEF CancelTask, Dispatching, Dispatched, TypeInv, PassOK, resultVars
  <2>3. \A t \in Tasks : InFlight(t)' <=> InFlight(t)
    BY <2>2 DEF InFlight, Run, NoItem
  <2>4. /\ current.id \in Tasks /\ OnASlot(current.id)
        /\ PendingStays /\ SlotsLess(current.id)
        /\ \A t : Cancel(t) \in Elems(queue') => Cancel(t) \in Elems(queue)
    BY <2>1, <2>3, ReleaseMoves
  <2>5. current = Cancel(current.id)
    <3>1. current \in Items \cup {NoItem}
      BY DEF TypeInv, TypeOK
    <3>2. QED
      BY <2>2, <3>1 DEF Items, NoItem, Run, Cancel, NextResponse
  <2>6. \E r \in Readers : current.id \in Ids(r) /\ reader[r] = "closed"
    <3>1. PICK r \in Readers : current.id \in Ids(r)
      BY <2>4, TasksOfReaders
    <3>2. QED
      BY <2>5, <3>1 DEF CancelsAreLast
  <2>7. LeavesSlot(current.id)
    BY <2>2, <2>4, <2>6 DEF LeavesSlot
  <2>8. QED
    BY <1>2, <2>2, <2>4, <2>7 DEF MainMoves, EndingIsAnswered
<1>9. CASE ReleaseAnswered
  <2>1. /\ ending \in Busy /\ Release(ending) /\ ending' = NoSlot /\ ending # NoSlot
        /\ UNCHANGED <<answered, current>>
    BY <1>9 DEF ReleaseAnswered, TypeInv, PassOK, resultVars
  <2>2. /\ slotTask[ending] \in Tasks /\ OnASlot(slotTask[ending])
        /\ PendingStays /\ SlotsLess(slotTask[ending])
        /\ \A t : Cancel(t) \in Elems(queue') => Cancel(t) \in Elems(queue)
    BY <2>1, ReleaseMoves DEF InFlight
  <2>3. LeavesSlot(slotTask[ending])
    BY <2>1, <2>2 DEF LeavesSlot, EndingIsAnswered
  <2>4. QED
    BY <2>1, <2>2, <2>3 DEF MainMoves, EndingIsAnswered
<1>10. CASE \E s \in Slots : ShiftFails(s) \/ RejectPrompt(s) \/ FailSlot(s) \/ SampleLast(s)
  <2>1. PICK s \in Slots : \E label : Visit(s, label) /\ \E type \in {"final", "error"} : AnswerSlot(s, type)
    BY <1>10 DEF ShiftFails, RejectPrompt, FailSlot, SampleLast
  <2>2. PICK type \in {"final", "error"} : AnswerSlot(s, type)
    BY <2>1
  <2>3. slotTask[s] \in Tasks /\ ending = NoSlot /\ s # NoSlot /\ UNCHANGED current
    BY <2>1, VisitType, ConstantsAssumption
  <2>4. /\ UNCHANGED <<queue, deferred, slotTask>> /\ ending' = s
        /\ Send(slotTask[s], type) /\ slotTask[s] \in answered'
    BY <2>2 DEF AnswerSlot, queueVars, slotVars, Send
  <2>5. PendingStays /\ SlotsStay
    BY <2>3, <2>4 DEF PendingStays, SlotsStay, Pending, Queued, Deferred, InFlight, OnASlot
  <2>6. AnsweredOnSlot(slotTask[s])
    BY <2>3, <2>4, <2>5 DEF AnsweredOnSlot, PlaceInv, AnsweredOnce, OnASlot
  <2>7. QED
    BY <2>3, <2>4, <2>6 DEF MainMoves, EndingIsAnswered
<1>11. CASE StartPass
  <2>1. UNCHANGED <<deferred, answered, slotTask, ending, current>> /\ ending = NoSlot
    BY <1>11 DEF StartPass, GoTo, resultVars, slotVars, TypeInv, PassOK
  <2>2. queue' = queue \/ Elems(queue') = Elems(queue) \cup {NextResponse}
    <3>1. queue \in Seq(Items)
      BY DEF TypeInv, TypeOK
    <3>2. NextResponse \in Items
      BY DEF Items
    <3>3. QED
      BY <1>11, <3>1, <3>2, AppendElems DEF StartPass
  <2>3. PendingStays
    BY <2>1, <2>2, RunIds DEF PendingStays, Pending, Queued, Deferred, InFlight
  <2>4. SlotsStay
    BY <2>1 DEF SlotsStay, OnASlot
  <2>5. \A t : Cancel(t) # NextResponse
    BY DEF Cancel, NextResponse
  <2>6. QED
    BY <2>1, <2>2, <2>3, <2>4, <2>5 DEF MainMoves, EndingIsAnswered
<1>12. CASE SkipNext \/ (CancelTask /\ UNCHANGED <<queueVars, slotVars>>)
  <2>1. /\ UNCHANGED <<queue, deferred, slotTask, answered, ending>>
        /\ current' = NoItem /\ current.type # "run"
    BY <1>12 DEF SkipNext, CancelTask, Dispatching, Dispatched, queueVars, resultVars, slotVars
  <2>2. PendingStays /\ SlotsStay
    BY <2>1 DEF PendingStays, SlotsStay, Pending, Queued, Deferred, InFlight, OnASlot, NoItem, Run
  <2>3. QED
    BY <1>3, <2>1, <2>2
<1>13. CASE \/ ToPrompts \/ ToDecode \/ DecodeNothing \/ DecodeBatch \/ DecodeFails
            \/ DraftFails \/ EndPass \/ WakeUp
            \/ \E s \in Slots : JoinBatch(s) \/ BatchPrompt(s) \/ PassOver(s) \/ SampleToken(s)
  <2>1. UNCHANGED <<queue, deferred, slotTask, answered, ending, current>>
    <3>1. CASE \E s \in Slots : JoinBatch(s) \/ BatchPrompt(s) \/ PassOver(s) \/ SampleToken(s)
      BY <3>1 DEF JoinBatch, BatchPrompt, PassOver, SampleToken, Visit, Send,
                  queueVars, resultVars, slotVars, readerVars
    <3>2. CASE ~\E s \in Slots : JoinBatch(s) \/ BatchPrompt(s) \/ PassOver(s) \/ SampleToken(s)
      BY <1>13, <3>2 DEF ToPrompts, ToDecode, DecodeNothing, DecodeBatch, DecodeFails,
                  DraftFails, EndPass, WakeUp, GoTo,
                  queueVars, resultVars, slotVars, readerVars
    <3>3. QED
      BY <3>1, <3>2
  <2>2. PendingStays /\ SlotsStay
    BY <2>1 DEF PendingStays, SlotsStay, Pending, Queued, Deferred, InFlight, OnASlot
  <2>3. QED
    BY <1>3, <2>1, <2>2
<1>14. QED
  BY <1>4, <1>5, <1>6, <1>7, <1>8, <1>9, <1>10, <1>11, <1>12, <1>13
  DEF MainStep, Dispatch, UpdateSlots, SlotStep

-----------------------------------------------------------------------------
(* What the steps of the HTTP threads do to the tasks.                     *)
LEMMA PostTasksMoves ==
  ASSUME TypeInv, NEW r \in Readers, PostTasks(r)
  PROVE  /\ \A u \in Tasks : Pending(u)' <=> Pending(u) \/ u \in Elems(Batch[r])
         /\ SlotsStay
         /\ \A t : Cancel(t) \in Elems(queue') => Cancel(t) \in Elems(queue)
<1> DEFINE posted == [i \in 1 .. Len(Batch[r]) |-> Run(Batch[r][i])]
<1>1. queue \in Seq(Items) /\ Batch[r] \in Seq(Tasks)
  BY IdsType DEF TypeInv, TypeOK
<1>2. posted \in Seq(Items) /\ DOMAIN posted = DOMAIN Batch[r]
  BY <1>1 DEF Items
<1>3. /\ \A t : Run(t) \in Elems(posted) <=> t \in Elems(Batch[r])
      /\ \A t : Cancel(t) \notin Elems(posted)
  BY <1>2, RunIds DEF Elems
<1>4. queue' = queue \o posted /\ UNCHANGED <<deferred, slotTask, current>>
  BY DEF PostTasks, slotVars, passVars
<1> HIDE DEF posted
<1>5. Elems(queue') = Elems(queue) \cup Elems(posted)
  BY <1>1, <1>2, <1>4, ConcatElems
<1>6. QED
  BY <1>3, <1>4, <1>5 DEF SlotsStay, Pending, Queued, Deferred, InFlight, OnASlot

(* cleanup_pending_task() reaches all tasks but the one that was popped.   *)
LEMMA PostCancelsMoves ==
  ASSUME TypeInv, NEW r \in Readers, PostCancels(r)
  PROVE  /\ \A u \in Tasks : Pending(u)' <=> Pending(u) /\ (u \notin Ids(r) \/ InFlight(u))
         /\ SlotsStay
         /\ \A t : Cancel(t) \in Elems(queue') => t \in Ids(r) \/ Cancel(t) \in Elems(queue)
<1>1. queue \in Seq(Items) /\ deferred \in Seq(Tasks)
  BY DEF TypeInv, TypeOK
<1>2. PICK order \in [1 .. Cardinality(Ids(r)) -> Ids(r)] :
         queue' = [i \in 1 .. Cardinality(Ids(r)) |-> Cancel(order[i])]
                    \o Drop(queue, {Run(t) : t \in Ids(r)})
  BY DEF PostCancels
<1> DEFINE cancels == [i \in 1 .. Cardinality(Ids(r)) |-> Cancel(order[i])]
           rest == Drop(queue, {Run(t) : t \in Ids(r)})
<1>3. cancels \in Seq(Items)
  BY IdsType DEF Items
<1>4. /\ \A t : Run(t) \notin Elems(cancels)
      /\ \A t : Cancel(t) \in Elems(cancels) => t \in Ids(r)
  BY IdsType, RunIds DEF Elems, Cancel
<1>5. rest \in Seq(Items) /\ Elems(rest) = Elems(queue) \ {Run(t) : t \in Ids(r)}
  BY <1>1, DropElems
<1>6. Elems(deferred') = Elems(deferred) \ Ids(r) /\ UNCHANGED <<current, slotTask>>
  BY <1>1, DropElems DEF PostCancels, passVars, slotVars
<1>7. queue' = cancels \o rest
  BY <1>2
<1> HIDE DEF cancels, rest
<1>8. Elems(queue') = Elems(cancels) \cup Elems(rest)
  BY <1>3, <1>5, <1>7, ConcatElems
<1>9. \A u \in Tasks : /\ Queued(u)' <=> Queued(u) /\ u \notin Ids(r)
                       /\ Deferred(u)' <=> Deferred(u) /\ u \notin Ids(r)
                       /\ InFlight(u)' <=> InFlight(u)
                       /\ OnASlot(u)' <=> OnASlot(u)
  BY <1>4, <1>5, <1>6, <1>8, RunIds DEF Queued, Deferred, InFlight, OnASlot
<1>10. QED
  BY <1>4, <1>5, <1>8, <1>9 DEF Pending, SlotsStay

LEMMA OtherReaderMoves ==
  ASSUME NEW r \in Readers, ReaderStep(r), ~PostTasks(r), ~PostCancels(r)
  PROVE  PendingStays /\ SlotsStay /\ UNCHANGED queue
<1>1. UNCHANGED <<queue, deferred, current, slotTask>>
  BY DEF ReaderStep, AddWaiting, Recv, Finish, Disconnect, Stop, PurgeResults,
         queueVars, slotVars, passVars
<1>2. QED
  BY <1>1 DEF PendingStays, SlotsStay, Pending, Queued, Deferred, InFlight, OnASlot
-----------------------------------------------------------------------------
(* A task that is neither answered nor lost.                               *)
OnTheWay(t) == Pending(t) \/ OnASlot(t) \/ \E p \in ParentOf(t) : Pending(p)

(* Where the tasks of a reader are that still reads.                       *)
AccountedFor(r) ==
  \/ \E m \in Elems(results) : m.id \in Ids(r) /\ m.type = "error"
  \/ \A t \in Ids(r) :
        IF t \in answered THEN t \in got[r] \/ Result(t, "final") \in Elems(results)
                          ELSE OnTheWay(t)

Accounted == \A r \in Readers : reader[r] = "reading" => AccountedFor(r)

WorkInv == CancelsAreLast /\ EndingIsAnswered /\ HandsFree /\ Accounted
-----------------------------------------------------------------------------
LEMMA MainAccounted ==
  ASSUME TypeInv, PlaceInv, AnswersInv, WorkInv, MainStep
  PROVE  Accounted'
<1> SUFFICES ASSUME NEW r \in Readers, reader'[r] = "reading"
             PROVE  AccountedFor(r)'
  BY DEF Accounted
<1>1. UNCHANGED <<reader, got>> /\ MainMoves
  BY MainSends, MainStepMoves DEF readerVars, WorkInv
<1>2. reader[r] = "reading" /\ AccountedFor(r) /\ Ids(r) \subseteq waiting
  BY <1>1 DEF WorkInv, Accounted, AnswersInv, Listening
<1>3. results \in Seq(ResultsOf(Tasks)) /\ Ids(r) \subseteq Tasks
  BY IdsType DEF TypeInv, TypeOK
<1>4. ASSUME NEW t \in Tasks, NEW type \in {"partial", "final", "error"}, Send(t, type)
      PROVE  /\ Elems(results) \subseteq Elems(results')
             /\ t \in Ids(r) => Result(t, type) \in Elems(results')
  <2>1. Result(t, type) \in ResultsOf(Tasks)
    BY DEF Result, ResultsOf
  <2>2. CASE t \in waiting
    <3>1. results' = Append(results, Result(t, type))
      BY <1>4, <2>2 DEF Send
    <3>2. QED
      BY <1>3, <2>1, <3>1, AppendElems
  <2>3. CASE t \notin waiting
    BY <1>2, <1>4, <2>3 DEF Send
  <2>4. QED
    BY <2>2, <2>3
<1>5. Elems(results) \subseteq Elems(results')
  BY <1>4, MainSends DEF resultVars
<1>6. ASSUME NEW m \in Elems(results'), m.id \in Ids(r), m.type = "error"
      PROVE  AccountedFor(r)'
  BY <1>6 DEF AccountedFor
<1>7. CASE \E m \in Elems(results) : m.id \in Ids(r) /\ m.type = "error"
  BY <1>5, <1>6, <1>7
<1>8. CASE \A t \in Ids(r) :
              IF t \in answered THEN t \in got[r] \/ Result(t, "final") \in Elems(results)
                                ELSE OnTheWay(t)
  <2>1. ASSUME NEW t \in Ids(r), t \in answered
        PROVE  t \in got'[r] \/ Result(t, "final") \in Elems(results')
    BY <1>1, <1>5, <1>8, <2>1
  <2>2. \A t \in Tasks : ParentOf(t) \subseteq Tops /\ ParentOf(t) \subseteq Tasks
    BY IdsType DEF ParentOf
  <2>3. CASE PendingStays /\ SlotsStay /\ UNCHANGED answered
    <3>1. \A t \in Tasks : OnTheWay(t) => OnTheWay(t)'
      BY <2>2, <2>3 DEF OnTheWay, PendingStays, SlotsStay, ParentOf
    <3>2. QED
      BY <1>3, <1>8, <2>1, <2>3, <3>1 DEF AccountedFor
  <2>4. ASSUME NEW x \in Tasks, AnsweredOnSlot(x)
        PROVE  AccountedFor(r)'
    <3>1. PICK type \in {"final", "error"} : Send(x, type)
      BY <2>4 DEF AnsweredOnSlot
    <3>2. answered' = answered \cup {x}
      BY <3>1 DEF Send
    <3>3. \A t \in Tasks : OnTheWay(t) => OnTheWay(t)'
      BY <2>2, <2>4 DEF OnTheWay, AnsweredOnSlot, PendingStays, SlotsStay, ParentOf
    <3>4. CASE x \in Ids(r) /\ type = "error"
      <4>1. Result(x, "error") \in Elems(results')
        BY <1>4, <3>1, <3>4
      <4>2. QED
        BY <1>6, <3>4, <4>1 DEF Result
    <3>5. CASE x \in Ids(r) => type = "final"
      <4>1. x \in Ids(r) => Result(x, "final") \in Elems(results')
        BY <1>4, <3>1, <3>5
      <4>2. QED
        BY <1>3, <1>8, <2>1, <3>2, <3>3, <4>1 DEF AccountedFor
    <3>6. QED
      BY <3>4, <3>5
  <2>5. ASSUME NEW x \in Tasks, LeavesSlot(x)
        PROVE  AccountedFor(r)'
    <3>1. x \in Ids(r) => x \in answered
      BY <1>2, <2>5, DistinctIds DEF LeavesSlot
    <3>2. \A t \in Tasks : OnTheWay(t) /\ t # x => OnTheWay(t)'
      BY <2>2, <2>5 DEF OnTheWay, LeavesSlot, PendingStays, SlotsLess, ParentOf
    <3>3. QED
      BY <1>3, <1>8, <2>1, <2>5, <3>1, <3>2 DEF AccountedFor, LeavesSlot
  <2>6. ASSUME NEW x \in Tops, Starts(x)
        PROVE  AccountedFor(r)'
    <3>1. ASSUME NEW t \in Tasks, OnTheWay(t)
          PROVE  OnTheWay(t)'
      <4>1. CASE t \in Family(x)
        BY <2>6, <4>1 DEF Starts, SlotsMore, OnTheWay
      <4>2. CASE t \notin Family(x)
        <5>1. t # x /\ x \notin ParentOf(t)
          BY <4>2 DEF Family, ParentOf
        <5>2. QED
          BY <2>2, <2>6, <3>1, <5>1 DEF Starts, PendingLess, SlotsMore, OnTheWay, ParentOf
      <4>3. QED
        BY <4>1, <4>2
    <3>2. QED
      BY <1>3, <1>8, <2>1, <2>6, <3>1 DEF AccountedFor, Starts
  <2>7. ASSUME NEW x \in Tops, EndsEarly(x)
        PROVE  AccountedFor(r)'
    <3>1. PICK y \in Family(x) : \E type \in {"final", "error"} :
                 Send(y, type) /\ (type = "error" \/ Family(x) = {y})
      BY <2>7 DEF EndsEarly
    <3>2. PICK type \in {"final", "error"} : Send(y, type) /\ (type = "error" \/ Family(x) = {y})
      BY <3>1
    <3>3. y \in Tasks /\ answered' = answered \cup {y}
      BY <3>2, Families DEF Send
    <3>4. ASSUME NEW t \in Tasks, t \notin Family(x), OnTheWay(t)
          PROVE  OnTheWay(t)'
      <4>1. t # x /\ x \notin ParentOf(t)
        BY <3>4 DEF Family, ParentOf
      <4>2. QED
        BY <2>2, <2>7, <3>4, <4>1 DEF EndsEarly, PendingLess, SlotsStay, OnTheWay, ParentOf
    <3>5. CASE Family(x) \cap Ids(r) = {}
      BY <1>3, <1>8, <2>1, <3>3, <3>4, <3>5 DEF AccountedFor
    <3>6. CASE Family(x) \cap Ids(r) # {}
      <4>1. Family(x) \subseteq Ids(r)
        BY <3>6, Families
      <4>2. Result(y, type) \in Elems(results')
        BY <1>4, <3>2, <3>3, <4>1
      <4>3. CASE type = "error"
        BY <1>6, <4>1, <4>2, <4>3 DEF Result
      <4>4. CASE type = "final" /\ Family(x) = {y}
        BY <1>3, <1>8, <2>1, <3>3, <3>4, <4>2, <4>4 DEF AccountedFor
      <4>5. QED
        BY <3>2, <4>3, <4>4
    <3>7. QED
      BY <3>5, <3>6
  <2>8. QED
    BY <1>1, <2>3, <2>4, <2>5, <2>6, <2>7 DEF MainMoves
<1>9. QED
  BY <1>2, <1>7, <1>8 DEF AccountedFor

(* The task of an answered slot and the posted cancels stay what they are. *)
LEMMA ReaderWork ==
  ASSUME TypeInv, PlaceInv, WorkInv, NEW q \in Readers, ReaderStep(q)
  PROVE  CancelsAreLast' /\ EndingIsAnswered' /\ HandsFree'
<1>1. /\ UNCHANGED <<slotTask, ending, pc, current, answered>>
      /\ reader \in [Readers -> ReaderStates]
  BY DEF ReaderStep, AddWaiting, PostTasks, Recv, Finish, Disconnect, Stop,
         PurgeResults, PostCancels, slotVars, passVars, resultVars, TypeInv, TypeOK
<1>2. \A r \in Readers : reader[r] = "closed" => reader'[r] = "closed"
  BY <1>1 DEF ReaderStep, AddWaiting, PostTasks, Recv, Finish, Disconnect, Stop,
              PurgeResults, PostCancels, readerVars
<1>3. ASSUME NEW r \in Readers, NEW t \in Ids(r), Cancel(t) \in Elems(queue') \cup {current'}
      PROVE  reader'[r] = "closed"
  <2>1. CASE Cancel(t) \in Elems(queue) \cup {current}
    BY <1>2, <2>1 DEF WorkInv, CancelsAreLast
  <2>2. CASE ~(Cancel(t) \in Elems(queue) \cup {current})
    <3>1. PostCancels(q) /\ t \in Ids(q)
      BY <1>1, <1>3, <2>2, PostTasksMoves, PostCancelsMoves, OtherReaderMoves
    <3>2. r = q
      BY <3>1, DistinctIds
    <3>3. QED
      BY <1>1, <3>1, <3>2 DEF PostCancels
  <2>3. QED
    BY <2>1, <2>2
<1>4. QED
  BY <1>1, <1>3 DEF WorkInv, CancelsAreLast, EndingIsAnswered, HandsFree

(* The results of one reader are not touched by another.                   *)
LEMMA ReaderResults ==
  ASSUME TypeInv, AnswersInv, NEW q \in Readers, ReaderStep(q), NEW r \in Readers, r # q
  PROVE  /\ reader'[r] = reader[r] /\ got'[r] = got[r] /\ UNCHANGED answered
         /\ \A m \in Elems(results) : m.id \in Ids(r) => m \in Elems(results')
<1>1. /\ reader \in [Readers -> ReaderStates] /\ got \in [Readers -> SUBSET Tasks]
      /\ results \in Seq(ResultsOf(Tasks)) /\ Ids(r) \cap Ids(q) = {}
  BY DistinctIds DEF TypeInv, TypeOK
<1>2. CASE Recv(q)
  <2>1. PICK m \in Elems(results) :
          /\ m.id \in Ids(q)
          /\ Elems(results) = Elems(results') \cup {m}
          /\ \/ m.type = "partial" /\ UNCHANGED readerVars
             \/ /\ m.type = "final" /\ UNCHANGED reader
                /\ got' = [got EXCEPT ![q] = @ \cup {m.id}]
             \/ /\ m.type = "error" /\ UNCHANGED <<received, got>>
                /\ reader' = [reader EXCEPT ![q] = "failed"]
    BY <1>2, RecvTakes
  <2>2. reader'[r] = reader[r] /\ got'[r] = got[r]
    BY <1>1, <2>1 DEF readerVars
  <2>3. UNCHANGED answered
    BY <1>2 DEF Recv
  <2>4. QED
    BY <1>1, <2>1, <2>2, <2>3
<1>3. CASE PurgeResults(q)
  <2>1. Elems(results') = Elems(results) \ ResultsOf(Ids(q))
    BY <1>1, <1>3, DropElems DEF PurgeResults
  <2>2. QED
    BY <1>1, <1>3, <2>1 DEF PurgeResults, ResultsOf
<1>4. CASE ~Recv(q) /\ ~PurgeResults(q)
  BY <1>1, <1>4 DEF ReaderStep, AddWaiting, PostTasks, Finish, Disconnect, Stop,
                    PostCancels, resultVars
<1>5. QED
  BY <1>2, <1>3, <1>4

(* The tasks of one reader are not touched by another.                     *)
LEMMA ReaderOnTheWay ==
  ASSUME TypeInv, PlaceInv, NEW q \in Readers, ReaderStep(q), NEW t \in Tasks,
         OnTheWay(t), PostCancels(q) => t \notin Ids(q)
  PROVE  OnTheWay(t)'
<1>1. ParentOf(t) \subseteq Tops /\ ParentOf(t) \subseteq Tasks
  BY IdsType DEF ParentOf
<1>2. CASE ~PostCancels(q)
  BY <1>1, <1>2, PostTasksMoves, OtherReaderMoves
  DEF OnTheWay, ParentOf, PendingStays, SlotsStay
<1>3. CASE PostCancels(q)
  <2>1. ASSUME NEW p \in ParentOf(t)
        PROVE  p \notin Ids(q)
    <3>1. SUFFICES ASSUME p \in Ids(q) PROVE FALSE
      OBVIOUS
    <3>2. p \in Tops /\ p \in Family(p) /\ t \in Family(p)
      BY DEF ParentOf, Family
    <3>3. p \in Elems(Batch[q])
      BY <3>1, <3>2, Families
    <3>4. QED
      BY <1>3, <3>2, <3>3, Families
  <2>2. QED
    BY <1>1, <1>3, <2>1, PostCancelsMoves DEF OnTheWay, ParentOf, SlotsStay
<1>4. QED
  BY <1>2, <1>3

LEMMA ReaderAccounted ==
  ASSUME TypeInv, PlaceInv, AnswersInv, WorkInv, NEW q \in Readers, ReaderStep(q)
  PROVE  Accounted'
<1> SUFFICES ASSUME NEW r \in Readers, reader'[r] = "reading"
             PROVE  AccountedFor(r)'
  BY DEF Accounted
<1>0. Ids(r) \subseteq Tasks
  BY IdsType
<1>1. CASE r # q
  <2>1. /\ reader[r] = "reading" /\ got'[r] = got[r] /\ UNCHANGED answered
        /\ \A m \in Elems(results) : m.id \in Ids(r) => m \in Elems(results')
    BY <1>1, ReaderResults
  <2>2. AccountedFor(r)
    BY <2>1 DEF WorkInv, Accounted
  <2>3. CASE \E m \in Elems(results) : m.id \in Ids(r) /\ m.type = "error"
    BY <2>1, <2>3 DEF AccountedFor
  <2>4. CASE \A t \in Ids(r) :
                IF t \in answered THEN t \in got[r] \/ Result(t, "final") \in Elems(results)
                                  ELSE OnTheWay(t)
    <3>1. \A t \in Ids(r) : OnTheWay(t) => OnTheWay(t)'
      BY <1>0, <1>1, DistinctIds, ReaderOnTheWay
    <3>2. \A t \in Ids(r) : Result(t, "final") \in Elems(results)
                               => Result(t, "final") \in Elems(results')
      BY <2>1 DEF Result
    <3>3. QED
      BY <2>1, <2>4, <3>1, <3>2 DEF AccountedFor
  <2>5. QED
    BY <2>2, <2>3, <2>4 DEF AccountedFor
<1>2. CASE r = q /\ PostTasks(r)
  <2>1. reader[r] = "registered" /\ UNCHANGED answered
    BY <1>2 DEF PostTasks, resultVars
  <2>2. \A u \in Tasks : u \in Elems(Batch[r]) => Pending(u)'
    BY <1>2, PostTasksMoves
  <2>3. ASSUME NEW t \in Ids(r)
        PROVE  t \notin answered' /\ OnTheWay(t)'
    <3>1. t \notin answered'
      BY <2>1 DEF PlaceInv, NotYetPosted
    <3>2. CASE t \in Elems(Batch[r])
      <4>1. Pending(t)'
        BY <1>0, <2>2, <3>2
      <4>2. QED
        BY <3>1, <4>1 DEF OnTheWay
    <3>3. CASE t \notin Elems(Batch[r])
      <4>1. PICK p \in Elems(Batch[r]) : t \in Children[p]
        BY <3>3 DEF Ids
      <4>2. p \in ParentOf(t) /\ p \in Tasks
        BY <4>1, IdsType DEF ParentOf
      <4>3. Pending(p)'
        BY <2>2, <4>1, <4>2
      <4>4. QED
        BY <3>1, <4>2, <4>3 DEF OnTheWay, ParentOf
    <3>4. QED
      BY <3>1, <3>2, <3>3
  <2>4. QED
    BY <2>3 DEF AccountedFor
<1>3. CASE r = q /\ Recv(r)
  <2>1. PICK m \in Elems(results) :
          /\ m.id \in Ids(r) /\ m \in ResultsOf(Tasks)
          /\ Elems(results) = Elems(results') \cup {m}
          /\ \/ m.type = "partial" /\ UNCHANGED readerVars
             \/ /\ m.type = "final" /\ UNCHANGED reader
                /\ got' = [got EXCEPT ![r] = @ \cup {m.id}]
             \/ /\ m.type = "error" /\ UNCHANGED <<received, got>>
                /\ reader' = [reader EXCEPT ![r] = "failed"]
    BY <1>3, RecvTakes
  <2>2. /\ reader \in [Readers -> ReaderStates] /\ got \in [Readers -> SUBSET Tasks]
        /\ reader[r] = "reading" /\ UNCHANGED answered
    BY <1>3 DEF Recv, TypeInv, TypeOK
  <2>3. m.type # "error"
    BY <2>1, <2>2
  <2>4. got[r] \subseteq got'[r] /\ (m.type = "final" => m.id \in got'[r])
    BY <2>1, <2>2, <2>3 DEF readerVars
  <2>5. AccountedFor(r)
    BY <2>2 DEF WorkInv, Accounted
  <2>6. CASE \E x \in Elems(results) : x.id \in Ids(r) /\ x.type = "error"
    BY <2>1, <2>3, <2>6 DEF AccountedFor
  <2>7. CASE \A t \in Ids(r) :
                IF t \in answered THEN t \in got[r] \/ Result(t, "final") \in Elems(results)
                                  ELSE OnTheWay(t)
    <3>1. ASSUME NEW t \in Ids(r), Result(t, "final") \in Elems(results)
          PROVE  t \in got'[r] \/ Result(t, "final") \in Elems(results')
      <4>1. CASE m = Result(t, "final")
        BY <2>4, <4>1 DEF Result
      <4>2. CASE m # Result(t, "final")
        BY <2>1, <3>1, <4>2
      <4>3. QED
        BY <4>1, <4>2
    <3>2. \A t \in Ids(r) : OnTheWay(t) => OnTheWay(t)'
      <4>1. ~PostCancels(q)
        BY <1>3, <2>2 DEF PostCancels
      <4>2. QED
        BY <1>0, <4>1, ReaderOnTheWay
    <3>3. QED
      BY <2>2, <2>4, <2>7, <3>1, <3>2 DEF AccountedFor
  <2>8. QED
    BY <2>5, <2>6, <2>7 DEF AccountedFor
<1>4. CASE r = q /\ ~PostTasks(r) /\ ~Recv(r)
  BY <1>4 DEF ReaderStep, AddWaiting, Finish, Disconnect, Stop, PurgeResults, PostCancels,
              TypeInv, TypeOK
<1>5. QED
  BY <1>1, <1>2, <1>3, <1>4

LEMMA WorkInductive ==
  /\ Init => WorkInv
  /\ TypeInv /\ PlaceInv /\ AnswersInv /\ WorkInv /\ [Next]_vars => WorkInv'
<1>1. ASSUME Init PROVE WorkInv
  BY <1>1 DEF Init, WorkInv, CancelsAreLast, EndingIsAnswered, HandsFree, Accounted,
              Elems, Cancel, NoItem
<1>2. ASSUME TypeInv, PlaceInv, AnswersInv, WorkInv, [Next]_vars PROVE WorkInv'
  <2>1. CASE MainStep
    BY <1>2, <2>1, MainStepMoves, MainAccounted, HandsAreFree DEF WorkInv
  <2>2. CASE \E r \in Readers : ReaderStep(r)
    BY <1>2, <2>2, ReaderWork, ReaderAccounted DEF WorkInv
  <2>3. CASE UNCHANGED vars
    <3>1. CancelsAreLast' /\ EndingIsAnswered' /\ HandsFree'
      BY <1>2, <2>3 DEF vars, WorkInv, CancelsAreLast, EndingIsAnswered, HandsFree,
                        queueVars, resultVars, slotVars, passVars, readerVars
    <3>2. Accounted'
      BY <1>2, <2>3 DEF vars, WorkInv, Accounted, AccountedFor, OnTheWay, Pending, Queued,
                        Deferred, InFlight, OnASlot, ParentOf,
                        queueVars, resultVars, slotVars, passVars, readerVars
    <3>3. QED
      BY <3>1, <3>2 DEF WorkInv
  <2>4. QED
    BY <1>2, <2>1, <2>2, <2>3 DEF Next
<1>3. QED
  BY <1>1, <1>2

(* NoLostTask: while a reader reads, each of its tasks is queued, deferred,*)
(* in the hands of the main thread, on a slot, or with a parent that is,   *)
(* or its answer is read or in queue_results; or else an error waits there *)
(* and ends the request.  No cancel task of another request, no release()  *)
(* and no remove_waiting_task_id() takes a task or its answer away.        *)
THEOREM NoTaskIsLost == Spec => []NoLostTask
<1>1. WorkInv => NoLostTask
  BY DEF WorkInv, Accounted, AccountedFor, NoLostTask, OnTheWay
<1>2. QED
  BY <1>1, PlaceInductive, AnswersInductive, WorkInductive, PTL DEF Spec

-----------------------------------------------------------------------------
(* The queues, slots and threads implement TaskService.                    *)

Awaits(t)   == Pending(t) \/ \E p \in ParentOf(t) : Pending(p)
Unposted(t) == \E r \in Readers : t \in Ids(r) /\ reader[r] \in {"new", "registered"}

(* The cases of StatusOf exclude each other.                               *)
LEMMA StatusCases ==
  ASSUME TypeInv, PlaceInv, NEW t \in Tasks
  PROVE  /\ t \in answered => StatusOf(t) = "answered"
         /\ t \notin answered /\ OnASlot(t) => StatusOf(t) = "running"
         /\ Awaits(t) => StatusOf(t) = "waiting"
         /\ Unposted(t) => StatusOf(t) = "none"
         /\ ~Awaits(t) /\ t \notin answered /\ ~OnASlot(t) /\ ~Unposted(t) => StatusOf(t) = "dropped"
<1>0. ParentOf(t) \subseteq Tops /\ ParentOf(t) \subseteq Tasks
  BY IdsType DEF ParentOf
<1>1. ASSUME Awaits(t)
      PROVE  t \notin answered /\ ~OnASlot(t)
  <2>1. t \notin answered
    BY <1>1 DEF PlaceInv, AnsweredOnce, Awaits
  <2>2. CASE Pending(t)
    BY <2>1, <2>2 DEF PlaceInv, NotStarted, Family
  <2>3. ASSUME NEW p \in ParentOf(t), Pending(p)
        PROVE  ~OnASlot(t)
    BY <1>0, <2>3 DEF PlaceInv, NotStarted, Family, ParentOf
  <2>4. QED
    BY <1>1, <2>1, <2>2, <2>3 DEF Awaits
<1>2. ASSUME NEW r \in Readers, t \in Ids(r), reader[r] \in {"new", "registered"}
      PROVE  t \notin answered /\ ~OnASlot(t) /\ ~Awaits(t)
  <2>1. t \notin answered /\ ~OnASlot(t) /\ ~Pending(t)
    BY <1>2 DEF PlaceInv, NotYetPosted
  <2>2. ASSUME NEW p \in ParentOf(t)
        PROVE  ~Pending(p)
    <3>1. p \in Tops /\ t \in Family(p)
      BY <1>0 DEF Family, ParentOf
    <3>2. p \in Elems(Batch[r])
      BY <1>2, <3>1, Families
    <3>3. QED
      BY <1>2, <3>2 DEF Ids, PlaceInv, NotYetPosted
  <2>3. QED
    BY <2>1, <2>2 DEF Awaits
<1>3. QED
  BY <1>1, <1>2 DEF StatusOf, Awaits, Unposted

(* What decides the status of a task.                                      *)
LEMMA SameStatus ==
  ASSUME NEW t, t \in answered' <=> t \in answered, OnASlot(t)' <=> OnASlot(t),
         Awaits(t)' <=> Awaits(t), Unposted(t)' <=> Unposted(t)
  PROVE  StatusOf(t)' = StatusOf(t)
BY DEF StatusOf, Awaits, Unposted

(* The steps of TaskService, on the values that its variables stand for.   *)
LEMMA MapSetStatus ==
  ASSUME NEW T, NEW value,
         \A t \in Tasks : StatusOf(t)' = IF t \in T THEN value ELSE StatusOf(t)
  PROVE  Service!SetStatus(T, value)
BY DEF Service!SetStatus

LEMMA MapClients ==
  ASSUME \A r \in Readers : ClientOf(r)' = ClientOf(r)
  PROVE  UNCHANGED [r \in Readers |-> ClientOf(r)]
OBVIOUS

LEMMA MapStutter ==
  ASSUME \A r \in Readers : ClientOf(r)' = ClientOf(r),
         \A t \in Tasks : StatusOf(t)' = StatusOf(t)
  PROVE  UNCHANGED Service!serviceVars
<1>1. UNCHANGED [r \in Readers |-> ClientOf(r)]
  BY MapClients
<1>2. UNCHANGED [t \in Tasks |-> StatusOf(t)]
  OBVIOUS
<1>3. QED
  BY <1>1, <1>2 DEF Service!serviceVars

(* The family of a task that no longer waits is all that waits no longer.  *)
LEMMA PendingLessAwaits ==
  ASSUME TypeInv, PlaceInv, NEW x \in Tops, Pending(x), PendingLess(x)
  PROVE  /\ \A t \in Family(x) : t \in Tasks /\ Awaits(t)
         /\ \A t \in Tasks : Awaits(t)' <=> Awaits(t) /\ t \notin Family(x)
<1>1. \A t \in Family(x) : t \in Tasks /\ Awaits(t)
  <2>1. \A t \in Family(x) : t \in Tasks
    BY Families
  <2>2. \A t \in Family(x) : t = x \/ x \in ParentOf(t)
    BY DEF Family, ParentOf
  <2>3. QED
    BY <2>1, <2>2 DEF Awaits
<1>2. ASSUME NEW t \in Tasks, Awaits(t), t \notin Family(x)
      PROVE  Awaits(t)'
  <2>1. t # x /\ x \notin ParentOf(t) /\ ParentOf(t) \subseteq Tasks
    BY <1>2, IdsType DEF Family, ParentOf
  <2>2. CASE Pending(t)
    <3>1. Pending(t)'
      BY <2>1, <2>2 DEF PendingLess
    <3>2. QED
      BY <3>1 DEF Awaits
  <2>3. ASSUME NEW p \in ParentOf(t), Pending(p)
        PROVE  Awaits(t)'
    <3>1. Pending(p)'
      BY <2>1, <2>3 DEF PendingLess
    <3>2. QED
      BY <3>1 DEF Awaits, ParentOf
  <2>4. QED
    BY <1>2, <2>2, <2>3 DEF Awaits
<1>3. ASSUME NEW t \in Tasks, Awaits(t)'
      PROVE  Awaits(t) /\ t \notin Family(x)
  <2>1. PICK p \in Tasks : Pending(p)' /\ t \in Family(p)
    BY <1>3, IdsType DEF Awaits, ParentOf, Family
  <2>2. Pending(p) /\ p # x /\ p \in Tops
    BY <2>1 DEF PendingLess, PlaceInv, PendingTops
  <2>3. t \notin Family(x)
    BY <2>1, <2>2, Families
  <2>4. Awaits(t)
    BY <2>1, <2>2 DEF Awaits, Family, ParentOf
  <2>5. QED
    BY <2>3, <2>4
<1>4. QED
  BY <1>1, <1>2, <1>3

(* There is a slot for every task that runs.                               *)
LEMMA OneSlotEach ==
  ASSUME NEW f \in [Slots -> Tasks \cup {NoTask}]
  PROVE  Cardinality({t \in Tasks : \E s \in Slots : f[s] = t}) <= Cardinality(Slots)
<1> DEFINE R == {t \in Tasks : \E s \in Slots : f[s] = t}
           at == [t \in R |-> CHOOSE s \in Slots : f[s] = t]
<1>1. \A t \in R : at[t] \in Slots /\ f[at[t]] = t
  OBVIOUS
<1>2. at \in Injection(R, Slots)
  <2>1. at \in [R -> Slots]
    BY <1>1
  <2>2. \A t, u \in R : at[t] = at[u] => t = u
    <3> HIDE DEF at
    <3>1. QED
      BY <1>1
  <2> HIDE DEF at, R
  <2>3. QED
    BY <2>1, <2>2 DEF Injection, IsInjective
<1>3. IsFiniteSet(Slots)
  BY ConstantsAssumption
<1> HIDE DEF at, R
<1>4. Cardinality(R) <= Cardinality(Slots)
  BY <1>2, <1>3, FS_Injection
<1>5. QED
  BY <1>4 DEF R
-----------------------------------------------------------------------------
(* TaskService counts as ServerQueue does.                                 *)
LEMMA ServiceCounts == ASSUME NEW S PROVE Service!Cardinality(S) = Cardinality(S)
BY DEF Service!Cardinality, Cardinality

(* Every move of the main thread is a step of TaskService, or none.        *)
LEMMA MainServes ==
  ASSUME TypeInv, PlaceInv, TypeInv', PlaceInv', MainMoves, UNCHANGED reader
  PROVE  [Service!ServiceNext]_(Service!serviceVars)
<1>1. /\ \A r \in Readers : ClientOf(r)' = ClientOf(r)
      /\ \A t : Unposted(t)' <=> Unposted(t)
  BY DEF ClientOf, Unposted
<1>2. ASSUME PendingStays
      PROVE  \A t \in Tasks : Awaits(t)' <=> Awaits(t)
  BY <1>2, IdsType DEF PendingStays, Awaits, ParentOf
<1>3. CASE PendingStays /\ SlotsStay /\ UNCHANGED answered
  <2>1. \A t \in Tasks : StatusOf(t)' = StatusOf(t)
    BY <1>1, <1>2, <1>3, SameStatus DEF SlotsStay
  <2>2. QED
    BY <1>1, <2>1, MapStutter
<1>4. ASSUME NEW x \in Tasks, AnsweredOnSlot(x)
      PROVE  Service!Answer(x)
  <2>1. StatusOf(x) = "running" /\ answered' = answered \cup {x}
    BY <1>4, StatusCases DEF AnsweredOnSlot, Send
  <2>2. \A t \in Tasks : StatusOf(t)' = IF t \in {x} THEN "answered" ELSE StatusOf(t)
    <3>1. StatusOf(x)' = "answered"
      BY <2>1 DEF StatusOf
    <3>2. \A t \in Tasks : t # x => StatusOf(t)' = StatusOf(t)
      BY <1>1, <1>2, <1>4, <2>1, SameStatus DEF AnsweredOnSlot, SlotsStay
    <3>3. QED
      BY <3>1, <3>2
  <2>3. Service!SetStatus({x}, "answered")
    BY <2>2, MapSetStatus
  <2>4. UNCHANGED [r \in Readers |-> ClientOf(r)]
    BY <1>1, MapClients
  <2>5. QED
    BY <2>1, <2>3, <2>4 DEF Service!Answer, Service!Running
<1>5. ASSUME NEW x \in Tasks, LeavesSlot(x)
      PROVE  Service!Drop({x}) \/ UNCHANGED Service!serviceVars
  <2>1. \A t \in Tasks : t # x => StatusOf(t)' = StatusOf(t)
    BY <1>1, <1>2, <1>5, SameStatus DEF LeavesSlot, SlotsLess
  <2>2. CASE x \in answered
    <3>1. StatusOf(x)' = StatusOf(x)
      BY <1>5, <2>2 DEF StatusOf, LeavesSlot
    <3>2. QED
      BY <1>1, <2>1, <3>1, MapStutter
  <2>3. CASE x \notin answered
    <3>1. StatusOf(x) = "running" /\ ~Awaits(x) /\ ~Unposted(x)
      BY <1>5, <2>3, StatusCases DEF LeavesSlot
    <3>2. x \notin answered' /\ ~OnASlot(x)' /\ ~Awaits(x)' /\ ~Unposted(x)'
      BY <1>1, <1>2, <1>5, <2>3, <3>1 DEF LeavesSlot, SlotsLess
    <3>3. StatusOf(x)' = "dropped"
      BY <3>2 DEF StatusOf, Awaits, Unposted
    <3>4. Service!SetStatus({x}, "dropped")
      BY <2>1, <3>3, MapSetStatus
    <3>5. \E r \in Readers : ClientOf(r) = "gone" /\ x \in Ids(r)
      BY <1>5, <2>3 DEF LeavesSlot, ClientOf
    <3>6. UNCHANGED [r \in Readers |-> ClientOf(r)]
      BY <1>1, MapClients
    <3>7. {x} \subseteq Service!Waiting \cup Service!Running
      BY <3>1 DEF Service!Running
    <3>8. \A t \in {x} : \E r \in Readers :
             [q \in Readers |-> ClientOf(q)][r] = "gone" /\ t \in [q \in Readers |-> Ids(q)][r]
      BY <3>5
    <3>9. QED
      BY <3>4, <3>6, <3>7, <3>8 DEF Service!Drop
  <2>4. QED
    BY <2>2, <2>3
<1>6. ASSUME NEW x \in Tops, Starts(x)
      PROVE  Service!Start(Family(x))
  <2>1. /\ \A t \in Family(x) : t \in Tasks /\ Awaits(t)
        /\ \A t \in Tasks : Awaits(t)' <=> Awaits(t) /\ t \notin Family(x)
    BY <1>6, PendingLessAwaits DEF Starts
  <2>2. \A t \in Family(x) : StatusOf(t) = "waiting" /\ StatusOf(t)' = "running"
    <3>1. ASSUME NEW t \in Family(x)
          PROVE  StatusOf(t) = "waiting" /\ StatusOf(t)' = "running"
      <4>1. t \in Tasks /\ t \notin answered /\ OnASlot(t)' /\ StatusOf(t) = "waiting"
        BY <1>6, <2>1, StatusCases DEF Starts, SlotsMore, StatusOf
      <4>2. t \notin answered'
        BY <1>6, <4>1 DEF Starts
      <4>3. QED
        BY <4>1, <4>2 DEF StatusOf
    <3>2. QED
      BY <3>1
  <2>3. \A t \in Tasks : t \notin Family(x) => StatusOf(t)' = StatusOf(t)
    BY <1>1, <1>6, <2>1, SameStatus DEF Starts, SlotsMore
  <2>4. Service!SetStatus(Family(x), "running")
    BY <2>2, <2>3, MapSetStatus
  <2>5. Family(x) # {} /\ Family(x) \subseteq Service!Waiting
    BY <2>1, <2>2 DEF Service!Waiting, Family
  <2>6. Cardinality(Service!Running \cup Family(x)) <= Cardinality(Slots)
    <3> DEFINE R == {t \in Tasks : \E s \in Slots : slotTask'[s] = t}
    <3>1. Cardinality(R) <= Cardinality(Slots)
      BY OneSlotEach DEF TypeInv, TypeOK
    <3>2. Service!Running \cup Family(x) \subseteq R
      <4>1. \A t \in Tasks : StatusOf(t) = "running" => OnASlot(t)
        BY DEF StatusOf
      <4>2. \A t \in Tasks : OnASlot(t)' => t \in R
        BY DEF OnASlot
      <4>3. QED
        BY <1>6, <2>1, <4>1, <4>2 DEF Service!Running, Starts, SlotsMore
    <3>3. IsFiniteSet(R) /\ IsFiniteSet(Slots)
      BY ConstantsAssumption, FS_Subset
    <3> HIDE DEF R
    <3>4. Cardinality(Service!Running \cup Family(x)) <= Cardinality(R)
      BY <3>2, <3>3, FS_Subset
    <3>5. /\ Cardinality(R) \in Nat /\ Cardinality(Slots) \in Nat
          /\ Cardinality(Service!Running \cup Family(x)) \in Nat
      BY <3>2, <3>3, FS_Subset, FS_CardinalityType
    <3>6. QED
      BY <3>1, <3>4, <3>5
  <2>7. UNCHANGED [r \in Readers |-> ClientOf(r)]
    BY <1>1, MapClients
  <2>8. QED
    BY <2>4, <2>5, <2>6, <2>7, ServiceCounts DEF Service!Start
<1>7. ASSUME NEW x \in Tops, EndsEarly(x)
      PROVE  \E y \in Family(x) : Service!Refuse(y, Family(x))
  <2>1. /\ \A t \in Family(x) : t \in Tasks /\ Awaits(t)
        /\ \A t \in Tasks : Awaits(t)' <=> Awaits(t) /\ t \notin Family(x)
    BY <1>7, PendingLessAwaits DEF EndsEarly
  <2>2. PICK y \in Family(x) : answered' = answered \cup {y}
    BY <1>7 DEF EndsEarly, Send
  <2>3. StatusOf(y)' = "answered"
    BY <2>2 DEF StatusOf
  <2>4. ASSUME NEW t \in Family(x), t # y
        PROVE  StatusOf(t)' = "dropped"
    <3>1. /\ t \in Tasks /\ t \notin answered /\ ~OnASlot(t) /\ ~Unposted(t)
      BY <2>1, StatusCases
    <3>2. t \notin answered' /\ ~OnASlot(t)' /\ ~Awaits(t)' /\ ~Unposted(t)'
      BY <1>1, <1>7, <2>1, <2>2, <2>4, <3>1 DEF EndsEarly, SlotsStay
    <3>3. QED
      BY <3>2 DEF StatusOf, Awaits, Unposted
  <2>5. \A t \in Tasks : t \notin Family(x) => StatusOf(t)' = StatusOf(t)
    BY <1>1, <1>7, <2>1, <2>2, SameStatus DEF EndsEarly, SlotsStay
  <2>6. [t \in Tasks |-> StatusOf(t)]' =
          [t \in Tasks |-> IF t = y THEN "answered" ELSE IF t \in Family(x) THEN "dropped"
                           ELSE [u \in Tasks |-> StatusOf(u)][t]]
    BY <2>2, <2>3, <2>4, <2>5
  <2>7. Family(x) \subseteq Service!Waiting
    BY <2>1, StatusCases DEF Service!Waiting
  <2>8. \E r \in Readers : Family(x) \subseteq [q \in Readers |-> Ids(q)][r]
    <3>1. PICK r \in Readers : x \in Elems(Batch[r])
      BY DEF Tops
    <3>2. QED
      BY <3>1, Families
  <2>9. UNCHANGED [r \in Readers |-> ClientOf(r)]
    BY <1>1, MapClients
  <2>10. Service!Refuse(y, Family(x))
    BY <2>2, <2>6, <2>7, <2>8, <2>9 DEF Service!Refuse
  <2>11. QED
    BY <2>2, <2>10
<1>8. \A x \in Tops : Family(x) \in SUBSET Tasks
  BY Families
<1>9. \A x \in Tasks : {x} \in SUBSET Tasks
  OBVIOUS
<1>10. QED
  BY <1>3, <1>4, <1>5, <1>6, <1>7, <1>8, <1>9 DEF MainMoves, Service!ServiceNext

(* So are the steps of the HTTP threads: the tasks of a request are        *)
(* submitted at once, and only a client that is gone has tasks dropped.    *)
LEMMA PostTasksServes ==
  ASSUME TypeInv, PlaceInv, TypeInv', PlaceInv', NEW r \in Readers, PostTasks(r)
  PROVE  Service!Submit(r)
<1>1. /\ reader[r] = "registered" /\ reader' = [reader EXCEPT ![r] = "reading"]
      /\ reader \in [Readers -> ReaderStates] /\ UNCHANGED answered
      /\ Ids(r) \subseteq Tasks /\ Elems(Batch[r]) \subseteq Tops
  BY IdsType DEF PostTasks, resultVars, TypeInv, TypeOK
<1>2. /\ \A u \in Tasks : Pending(u)' <=> Pending(u) \/ u \in Elems(Batch[r])
      /\ SlotsStay
  BY PostTasksMoves
<1>3. \A t \in Tasks : ParentOf(t) \subseteq Tops /\ ParentOf(t) \subseteq Tasks
  BY IdsType DEF ParentOf
<1>4. ASSUME NEW t \in Ids(r)
      PROVE  Awaits(t)'
  <2>1. CASE t \in Elems(Batch[r])
    <3>1. Pending(t)'
      BY <1>1, <1>2, <2>1
    <3>2. QED
      BY <3>1 DEF Awaits
  <2>2. CASE t \notin Elems(Batch[r])
    <3>1. PICK p \in Elems(Batch[r]) : t \in Children[p]
      BY <2>2 DEF Ids
    <3>2. p \in ParentOf(t) /\ p \in Tasks
      BY <1>1, <3>1, IdsType DEF ParentOf
    <3>3. Pending(p)'
      BY <1>2, <3>1, <3>2
    <3>4. QED
      BY <3>2, <3>3 DEF Awaits, ParentOf
  <2>3. QED
    BY <2>1, <2>2
<1>5. ASSUME NEW t \in Ids(r)
      PROVE  StatusOf(t)' = "waiting"
  <2>1. t \notin answered /\ ~OnASlot(t) /\ t \in Tasks
    BY <1>1 DEF PlaceInv, NotYetPosted
  <2>2. t \notin answered' /\ ~OnASlot(t)'
    BY <1>1, <1>2, <2>1 DEF SlotsStay
  <2>3. QED
    BY <1>4, <2>2 DEF StatusOf, Awaits
<1>6. ASSUME NEW t \in Tasks, t \notin Ids(r)
      PROVE  StatusOf(t)' = StatusOf(t)
  <2>1. Awaits(t)' <=> Awaits(t)
    <3>1. t \notin Elems(Batch[r]) /\ \A p \in ParentOf(t) : p \notin Elems(Batch[r])
      BY <1>6 DEF Ids, ParentOf
    <3>2. QED
      BY <1>2, <1>3, <3>1 DEF Awaits, ParentOf
  <2>2. Unposted(t)' <=> Unposted(t)
    BY <1>1, <1>6 DEF Unposted
  <2>3. QED
    BY <1>1, <1>2, <2>1, <2>2, SameStatus DEF SlotsStay
<1>7. Service!SetStatus(Ids(r), "waiting")
  BY <1>5, <1>6, MapSetStatus
<1>8. ClientOf(r) = "new" /\ [q \in Readers |-> ClientOf(q)]' =
                               [[q \in Readers |-> ClientOf(q)] EXCEPT ![r] = "open"]
  BY <1>1 DEF ClientOf
<1>9. QED
  BY <1>7, <1>8 DEF Service!Submit

LEMMA PostCancelsServes ==
  ASSUME TypeInv, PlaceInv, TypeInv', PlaceInv', NEW r \in Readers, PostCancels(r)
  PROVE  (\E T \in SUBSET Tasks : Service!Drop(T)) \/ UNCHANGED Service!serviceVars
<1>1. /\ reader[r] = "purged" /\ reader' = [reader EXCEPT ![r] = "closed"]
      /\ reader \in [Readers -> ReaderStates] /\ UNCHANGED answered
      /\ Ids(r) \subseteq Tasks
  BY IdsType DEF PostCancels, resultVars, TypeInv, TypeOK
<1>2. /\ \A u \in Tasks : Pending(u)' <=> Pending(u) /\ (u \notin Ids(r) \/ InFlight(u))
      /\ SlotsStay
  BY PostCancelsMoves
<1>3. \A t \in Tasks : ParentOf(t) \subseteq Tops /\ ParentOf(t) \subseteq Tasks
  BY IdsType DEF ParentOf
<1>4. \A q \in Readers : ClientOf(q)' = ClientOf(q)
  BY <1>1 DEF ClientOf
<1>5. \A t : Unposted(t)' <=> Unposted(t)
  BY <1>1 DEF Unposted
<1> DEFINE T == {t \in Tasks : Awaits(t) /\ ~Awaits(t)'}
<1>6. \A t \in Tasks : Awaits(t)' => Awaits(t)
  BY <1>2, <1>3 DEF Awaits, ParentOf
<1>7. \A t \in Tasks : t \notin T => StatusOf(t)' = StatusOf(t)
  BY <1>1, <1>2, <1>5, <1>6, SameStatus DEF SlotsStay
<1>8. ASSUME NEW t \in T
      PROVE  StatusOf(t) = "waiting" /\ StatusOf(t)' = "dropped"
  <2>1. StatusOf(t) = "waiting" /\ t \notin answered /\ ~OnASlot(t) /\ ~Unposted(t)
    BY StatusCases DEF StatusOf
  <2>2. t \notin answered' /\ ~OnASlot(t)' /\ ~Unposted(t)' /\ ~Awaits(t)'
    BY <1>1, <1>2, <1>5, <2>1 DEF SlotsStay
  <2>3. QED
    BY <2>1, <2>2 DEF StatusOf, Awaits, Unposted
<1>9. ASSUME NEW t \in T
      PROVE  t \in Ids(r)
  <2>1. CASE Pending(t)
    <3>1. ~Pending(t)'
      BY DEF Awaits
    <3>2. QED
      BY <1>2, <2>1, <3>1
  <2>2. ASSUME NEW p \in ParentOf(t), Pending(p)
        PROVE  t \in Ids(r)
    <3>1. p \in Tops /\ p \in Tasks /\ t \in Children[p]
      BY <1>3 DEF ParentOf
    <3>2. ~Pending(p)'
      BY <2>2 DEF Awaits, ParentOf
    <3>3. p \in Ids(r)
      BY <1>2, <2>2, <3>1, <3>2
    <3>4. p \in Elems(Batch[r])
      BY <3>1, <3>3, Families DEF Family
    <3>5. QED
      BY <3>1, <3>4 DEF Ids
  <2>3. Awaits(t)
    OBVIOUS
  <2>4. QED
    BY <2>1, <2>2, <2>3 DEF Awaits
<1> HIDE DEF T
<1>10. CASE T = {}
  BY <1>4, <1>7, <1>10, MapStutter
<1>11. CASE T # {}
  <2>1. Service!SetStatus(T, "dropped")
    BY <1>7, <1>8, MapSetStatus
  <2>2. T \subseteq Service!Waiting /\ T \in SUBSET Tasks
    BY <1>8 DEF Service!Waiting, T
  <2>3. \A t \in T : \E q \in Readers :
           /\ [x \in Readers |-> ClientOf(x)][q] = "gone"
           /\ t \in [x \in Readers |-> Ids(x)][q]
    BY <1>1, <1>9 DEF ClientOf
  <2>4. UNCHANGED [q \in Readers |-> ClientOf(q)]
    BY <1>4, MapClients
  <2>5. Service!Drop(T)
    BY <1>11, <2>1, <2>2, <2>3, <2>4 DEF Service!Drop
  <2>6. QED
    BY <2>2, <2>5
<1>12. QED
  BY <1>10, <1>11

LEMMA ReaderServes ==
  ASSUME TypeInv, PlaceInv, TypeInv', PlaceInv', NEW r \in Readers, ReaderStep(r)
  PROVE  [Service!ServiceNext]_(Service!serviceVars)
<1>1. CASE PostTasks(r)
  BY <1>1, PostTasksServes DEF Service!ServiceNext
<1>2. CASE PostCancels(r)
  BY <1>2, PostCancelsServes DEF Service!ServiceNext
<1>3. CASE ~PostTasks(r) /\ ~PostCancels(r)
  <2>1. PendingStays /\ SlotsStay
    BY <1>3, OtherReaderMoves
  <2>2. UNCHANGED answered /\ reader \in [Readers -> ReaderStates]
    BY <1>3 DEF ReaderStep, AddWaiting, Recv, Finish, Disconnect, Stop, PurgeResults,
                resultVars, TypeInv, TypeOK
  <2>3. /\ \A q \in Readers : q # r => reader'[q] = reader[q]
        /\ reader'[r] \in {"new", "registered"} <=> reader[r] \in {"new", "registered"}
        /\ reader[r] \notin {"new", "registered", "reading"}
              => reader'[r] \notin {"new", "registered", "reading"}
    BY <1>3, <2>2 DEF ReaderStep, AddWaiting, Recv, Finish, Disconnect, Stop, PurgeResults,
                      readerVars
  <2>4. \A t \in Tasks : StatusOf(t)' = StatusOf(t)
    <3>1. \A t : Unposted(t)' <=> Unposted(t)
      BY <2>3 DEF Unposted
    <3>2. \A t \in Tasks : Awaits(t)' <=> Awaits(t)
      BY <2>1, IdsType DEF PendingStays, Awaits, ParentOf
    <3>3. QED
      BY <2>1, <2>2, <3>1, <3>2, SameStatus DEF SlotsStay
  <2>5. \A q \in Readers : q # r => ClientOf(q)' = ClientOf(q)
    BY <2>3 DEF ClientOf
  <2>6. CASE ClientOf(r)' = ClientOf(r)
    BY <2>4, <2>5, <2>6, MapStutter
  <2>7. CASE ClientOf(r)' # ClientOf(r)
    <3>1. ClientOf(r) = "open" /\ ClientOf(r)' = "gone"
      BY <2>3, <2>7 DEF ClientOf
    <3>2. [q \in Readers |-> ClientOf(q)]' = [[q \in Readers |-> ClientOf(q)] EXCEPT ![r] = "gone"]
      BY <2>5, <3>1
    <3>3. UNCHANGED [t \in Tasks |-> StatusOf(t)]
      BY <2>4
    <3>4. Service!Leave(r)
      BY <3>1, <3>2, <3>3 DEF Service!Leave
    <3>5. QED
      BY <3>4 DEF Service!ServiceNext
  <2>8. QED
    BY <2>6, <2>7
<1>4. QED
  BY <1>1, <1>2, <1>3

(* ServesTasks: whatever the HTTP threads and the main thread do, a posted *)
(* task is answered once, no more tasks run than there are slots, tasks    *)
(* that were posted together as parent and children start together, and    *)
(* only a stopped reader, or an error answered in its place, ends a task   *)
(* without an answer.                                                      *)
THEOREM ImplementsService == Spec => ServesTasks
<1>1. Init => Service!ServiceInit
  <2> SUFFICES ASSUME Init PROVE Service!ServiceInit
    OBVIOUS
  <2>1. TypeInv /\ PlaceInv /\ \A r \in Readers : reader[r] = "new"
    BY PlaceInductive DEF Init
  <2>2. \A t \in Tasks : StatusOf(t) = "none"
    BY <2>1, StatusCases, TasksOfReaders DEF Unposted
  <2>3. \A r \in Readers : ClientOf(r) = "new"
    BY <2>1 DEF ClientOf
  <2>4. QED
    BY <2>2, <2>3 DEF Service!ServiceInit
<1> DEFINE Inv == TypeInv /\ PlaceInv /\ AnswersInv /\ WorkInv
<1>2. Inv /\ Inv' /\ [Next]_vars => [Service!ServiceNext]_(Service!serviceVars)
  <2> SUFFICES ASSUME Inv, Inv', [Next]_vars
               PROVE  [Service!ServiceNext]_(Service!serviceVars)
    OBVIOUS
  <2>1. CASE MainStep
    <3>1. MainMoves
      BY <2>1, MainStepMoves DEF WorkInv
    <3>2. UNCHANGED reader
      BY <2>1, MainSends DEF readerVars
    <3>3. QED
      BY <3>1, <3>2, MainServes
  <2>2. CASE \E r \in Readers : ReaderStep(r)
    BY <2>2, ReaderServes
  <2>3. CASE UNCHANGED vars
    <3>1. UNCHANGED <<queue, deferred, current, slotTask, answered, reader>>
      BY <2>3 DEF vars, queueVars, resultVars, slotVars, passVars, readerVars
    <3>2. /\ \A r \in Readers : ClientOf(r)' = ClientOf(r)
          /\ \A t \in Tasks : StatusOf(t)' = StatusOf(t)
      BY <3>1 DEF ClientOf, StatusOf, Pending, Queued, Deferred, InFlight, OnASlot, ParentOf
    <3>3. QED
      BY <3>2, MapStutter
  <2>4. QED
    BY <2>1, <2>2, <2>3 DEF Next
<1>3. Spec => []Inv
  BY PlaceInductive, AnswersInductive, WorkInductive, PTL DEF Spec
<1>4. QED
  BY <1>1, <1>2, <1>3, PTL DEF Spec, ServesTasks, Service!ServiceSpec
-----------------------------------------------------------------------------
(* A child that waits for its parent.  The parent of a family passes its   *)
(* prompt on unless something ends it first, and then the children have to *)
(* be ended one by one.  That nothing does is a matter of the requests     *)
(* with children: their clients stay, the launch and the prompt checks     *)
(* accept their tasks, and where llama_decode() may fail, one task with    *)
(* its children is all that such a request posts, so that an error cannot  *)
(* end it while another of its families waits to be launched.              *)
FamilyReaders == {r \in Readers : \E t \in Elems(Batch[r]) : Children[t] # {}}

FamiliesStay ==
  \A r \in FamilyReaders :
     /\ r \notin Impatient /\ Ids(r) \cap Faulty = {}
     /\ DecodeMayFail => Len(Batch[r]) = 1

(* A request that an error or a cancel task is about to end ...            *)
Doomed(r) ==
  \/ \E m \in Elems(results) : m.id \in Ids(r) /\ m.type = "error"
  \/ reader[r] \in {"failed", "leaving", "purged"}
  \/ \E t \in Ids(r) : Cancel(t) \in Elems(queue) \cup {current}

(* ... has nothing to start or on a slot, but for what a failed decode     *)
(* leaves to be ended.                                                     *)
DoomedEnd ==
  \A r \in FamilyReaders : Doomed(r) =>
     \A t \in Ids(r) : ~Pending(t) /\ (OnASlot(t) => pc = "failing")

(* A failed decode ends every slot that is processing.                     *)
FailingAll == pc = "failing" => DecodeMayFail /\ Busy \subseteq todo \cup {ending}

(* The parent of a child that waits has its prompt to process, or to be    *)
(* decoded.                                                                *)
ParentsAhead ==
  pc # "failing" =>
     \A s \in InState({"wait_other"}) : \E p \in InState({"started", "prompt", "done"}) :
        slotTask[p] \in ParentOf(slotTask[s])

NoneWaits(p) == \A s \in InState({"wait_other"}) : slotTask[p] \notin ParentOf(slotTask[s])

(* Nobody waits any more for a slot that is sampled or released.           *)
ParentsLast ==
  /\ pc = "sample" => \A p \in todo : NoneWaits(p)
  /\ ending # NoSlot /\ pc # "failing" => NoneWaits(ending)

FamilyInv == DoomedEnd /\ FailingAll /\ ParentsAhead /\ ParentsLast

(* A child has one parent, and no children of its own in a request.        *)
LEMMA OneParent ==
  /\ \A t : \A p, q \in ParentOf(t) : p = q
  /\ \A t : \A p \in ParentOf(t) : t \notin Tops
BY DistinctIds DEF ParentOf

(* A parent and its children belong to one request.                        *)
LEMMA FamilyHasReader ==
  ASSUME NEW t, NEW p \in ParentOf(t)
  PROVE  \E r \in FamilyReaders : p \in Elems(Batch[r]) /\ Family(p) \subseteq Ids(r)
<1>1. p \in Tops /\ t \in Children[p]
  BY DEF ParentOf
<1>2. PICK r \in Readers : p \in Elems(Batch[r])
  BY <1>1 DEF Tops
<1>3. Family(p) \subseteq Ids(r)
  BY <1>1, <1>2, Families
<1>4. r \in FamilyReaders
  BY <1>1, <1>2 DEF FamilyReaders
<1>5. QED
  BY <1>2, <1>3, <1>4

(* A task that a check may reject has no child that waits.                 *)
LEMMA FaultyNoneWaits ==
  ASSUME FamiliesStay, NEW p, slotTask[p] \in Faulty
  PROVE  NoneWaits(p)
<1> SUFFICES ASSUME NEW s \in InState({"wait_other"}), slotTask[p] \in ParentOf(slotTask[s])
             PROVE  FALSE
  BY DEF NoneWaits
<1>1. PICK r \in FamilyReaders : Family(slotTask[p]) \subseteq Ids(r)
  BY FamilyHasReader
<1>2. QED
  BY <1>1 DEF FamiliesStay, Family

(* send() adds at most the result it is called with.                       *)
LEMMA SendAdds ==
  ASSUME TypeInv, NEW t \in Tasks, NEW type \in {"partial", "final", "error"}, Send(t, type),
         NEW m \in Elems(results'), m \notin Elems(results)
  PROVE  m = Result(t, type)
<1>1. results \in Seq(ResultsOf(Tasks)) /\ Result(t, type) \in ResultsOf(Tasks)
  BY DEF TypeInv, TypeOK, Result, ResultsOf
<1>2. results' = Append(results, Result(t, type))
  BY DEF Send
<1>3. QED
  BY <1>1, <1>2, AppendElems

(* Only a failed decode sends an error to a request with a family.         *)
LEMMA FamilyErrors ==
  ASSUME FamiliesStay, TypeInv, PlaceInv, MainStep, NEW r \in FamilyReaders,
         NEW m \in Elems(results'), m \notin Elems(results), m.id \in Ids(r), m.type = "error"
  PROVE  pc = "failing" /\ pc' = "failing" /\ OnASlot(m.id)
<1>1. r \in Readers /\ Ids(r) \cap Faulty = {} /\ results' # results
  BY DEF FamiliesStay, FamilyReaders
<1>2. CASE \E s \in Slots : FailSlot(s)
  <2>1. PICK s \in Slots : FailSlot(s)
    BY <1>2
  <2>2. slotTask[s] \in Tasks /\ pc = "failing" /\ pc' = pc /\ Send(slotTask[s], "error")
    BY <2>1, VisitType DEF FailSlot, AnswerSlot, Visit
  <2>3. m = Result(slotTask[s], "error")
    BY <2>2, SendAdds
  <2>4. QED
    BY <2>2, <2>3 DEF Result, OnASlot
<1>3. CASE \E s \in Slots : ShiftFails(s) \/ RejectPrompt(s) \/ SampleLast(s) \/ SampleToken(s)
  <2>1. PICK s \in Slots : \E label : \E type \in {"partial", "final", "error"} :
            /\ Visit(s, label) /\ Send(slotTask[s], type)
            /\ type = "error" => slotTask[s] \in Faulty
    BY <1>3 DEF ShiftFails, RejectPrompt, SampleLast, SampleToken, AnswerSlot
  <2>2. slotTask[s] \in Tasks
    BY <2>1, VisitType
  <2>3. m.id = slotTask[s] /\ slotTask[s] \in Faulty
    BY <2>1, <2>2, SendAdds DEF Result
  <2>4. QED
    BY <1>1, <2>3
<1>4. CASE LaunchFails \/ AnswerAtOnce
  <2>1. /\ current.type = "run"
        /\ \E x \in Family(current.id) : \E type \in {"final", "error"} :
              Send(x, type) /\ (type = "error" => current.id \in Faulty)
    BY <1>4 DEF LaunchFails, AnswerAtOnce, Dispatching, Family
  <2>2. PICK x \in Family(current.id) : \E type \in {"final", "error"} :
           Send(x, type) /\ (type = "error" => current.id \in Faulty)
    BY <2>1
  <2>3. current.id \in Tops /\ x \in Tasks
    BY <2>1, CurrentPlace
  <2>4. m.id = x /\ current.id \in Faulty
    BY <2>2, <2>3, SendAdds DEF Result
  <2>5. current.id \in Ids(r)
    BY <1>1, <2>3, <2>4, Families DEF Ids
  <2>6. QED
    BY <1>1, <2>4, <2>5
<1>5. CASE PopTask \/ DeferTask \/ LaunchTask \/ CancelTask \/ SkipNext \/ WakeUp
  BY <1>1, <1>5 DEF PopTask, DeferTask, LaunchTask, CancelTask, SkipNext, WakeUp, resultVars
<1>6. CASE \/ StartPass \/ ReleaseAnswered \/ ToPrompts \/ ToDecode \/ DecodeNothing
           \/ DecodeBatch \/ DecodeFails \/ DraftFails \/ EndPass
  BY <1>1, <1>6 DEF StartPass, ReleaseAnswered, ToPrompts, ToDecode, DecodeNothing,
              DecodeBatch, DecodeFails, DraftFails, EndPass, resultVars
<1>7. CASE \E s \in Slots : JoinBatch(s) \/ BatchPrompt(s) \/ PassOver(s)
  BY <1>1, <1>7 DEF JoinBatch, BatchPrompt, PassOver, resultVars
<1>8. QED
  BY <1>2, <1>3, <1>4, <1>5, <1>6, <1>7 DEF MainStep, Dispatch, UpdateSlots, SlotStep

(* A failed decode is over when no slot is left.                           *)
LEMMA FailingEnds ==
  ASSUME TypeInv, MainStep, pc = "failing", pc' # "failing"
  PROVE  todo = {} /\ ending = NoSlot /\ UNCHANGED slotVars
<1>1. \A s \in Slots : ~SlotStep(s)
  BY DEF SlotStep, JoinBatch, ShiftFails, RejectPrompt, BatchPrompt, PassOver, FailSlot,
         SampleToken, SampleLast, Visit
<1>2. EndPass
  BY <1>1 DEF MainStep, PopTask, Dispatch, DeferTask, LaunchTask, LaunchFails, AnswerAtOnce,
         CancelTask, SkipNext, Dispatching, UpdateSlots, StartPass, ReleaseAnswered, ToPrompts,
         ToDecode, DecodeNothing, DecodeBatch, DecodeFails, DraftFails, Decoding, Visited, WakeUp
<1>3. QED
  BY <1>2 DEF EndPass, Visited

(* A main-thread step and the requests that are about to end.              *)
LEMMA MainDoomed ==
  ASSUME FamiliesStay, TypeInv, PlaceInv, WorkInv, FamilyInv, MainStep
  PROVE  DoomedEnd'
<1>1. /\ UNCHANGED reader /\ MainMoves
      /\ \A t : Cancel(t) \in Elems(queue') \cup {current'} => Cancel(t) \in Elems(queue) \cup {current}
  BY MainSends, MainStepMoves DEF readerVars, WorkInv
<1> SUFFICES ASSUME NEW r \in FamilyReaders, Doomed(r)', NEW t \in Ids(r)
             PROVE  ~Pending(t)' /\ (OnASlot(t)' => pc' = "failing")
  BY DEF DoomedEnd
<1>2. r \in Readers /\ t \in Tasks
  BY IdsType DEF FamilyReaders
<1>3. ASSUME \A u \in Ids(r) : ~Pending(u)
      PROVE  ~Pending(t)' /\ (OnASlot(t)' => OnASlot(t))
  <2>1. ASSUME NEW x \in Tops, Pending(x) PROVE t \notin Family(x)
    BY <1>2, <1>3, <2>1, Families DEF Ids
  <2>2. QED
    BY <1>1, <1>2, <1>3, <2>1
    DEF MainMoves, PendingStays, PendingLess, SlotsStay, SlotsLess, SlotsMore,
        AnsweredOnSlot, LeavesSlot, Starts, EndsEarly
<1>4. CASE Doomed(r)
  <2>1. \A u \in Ids(r) : ~Pending(u) /\ (OnASlot(u) => pc = "failing")
    BY <1>4 DEF FamilyInv, DoomedEnd
  <2>2. ASSUME OnASlot(t)', pc' # "failing"
        PROVE  FALSE
    <3>1. OnASlot(t) /\ pc = "failing"
      BY <1>3, <2>1, <2>2
    <3>2. todo = {} /\ ending = NoSlot
      BY <2>2, <3>1, FailingEnds
    <3>3. Busy = {}
      BY <3>1, <3>2, ConstantsAssumption DEF FamilyInv, FailingAll, Busy
    <3>4. PICK s \in Slots : slotTask[s] = t
      BY <3>1 DEF OnASlot
    <3>5. QED
      BY <1>2, <3>3, <3>4, ConstantsAssumption DEF TypeInv, PassOK, Busy
  <2>3. QED
    BY <1>3, <2>1, <2>2
<1>5. CASE ~Doomed(r)
  <2>1. PICK m \in Elems(results') : /\ m \notin Elems(results)
                                     /\ m.id \in Ids(r) /\ m.type = "error"
    BY <1>1, <1>5 DEF Doomed
  <2>2. pc = "failing" /\ pc' = "failing" /\ OnASlot(m.id)
    BY <2>1, FamilyErrors
  <2>3. Len(Batch[r]) = 1 /\ Batch[r] \in Seq(Tasks)
    BY <1>2, <2>2, ConstantsAssumption DEF FamilyInv, FailingAll, FamiliesStay
  <2>4. \A x, y \in Elems(Batch[r]) : x = y
    BY <2>3 DEF Elems
  <2>5. PICK x \in Elems(Batch[r]) : m.id \in Family(x)
    BY <1>2, <2>1 DEF Ids, Family
  <2>6. \A u \in Ids(r) : ~Pending(u)
    <3> SUFFICES ASSUME NEW u \in Ids(r), Pending(u) PROVE FALSE
      OBVIOUS
    <3>1. u \in Tasks /\ u \in Tops /\ u \in Family(u)
      BY <1>2, IdsType DEF PlaceInv, PendingTops, Family
    <3>2. u \in Elems(Batch[r])
      BY <1>2, <3>1, Families
    <3>3. u = x
      BY <2>4, <3>2
    <3>4. QED
      BY <2>2, <2>5, <3>1, <3>3 DEF PlaceInv, NotStarted
  <2>7. QED
    BY <1>3, <2>2, <2>6
<1>6. QED
  BY <1>4, <1>5

(* A reader posts nothing for a request that is about to end, and only a   *)
(* client that leaves or an error makes it cancel.                         *)
LEMMA ReaderDoomed ==
  ASSUME FamiliesStay, TypeInv, PlaceInv, AnswersInv, WorkInv, FamilyInv,
         NEW q \in Readers, ReaderStep(q)
  PROVE  DoomedEnd'
<1>1. /\ UNCHANGED <<pc, current, answered, slotTask>> /\ reader \in [Readers -> ReaderStates]
  BY DEF ReaderStep, AddWaiting, PostTasks, Recv, Finish, Disconnect, Stop, PurgeResults,
         PostCancels, slotVars, passVars, resultVars, TypeInv, TypeOK
<1>2. Elems(results') \subseteq Elems(results)
  <2>1. CASE Recv(q)
    BY <2>1, RecvTakes
  <2>2. CASE PurgeResults(q)
    BY <2>2, DropElems DEF PurgeResults, TypeInv, TypeOK
  <2>3. CASE ~Recv(q) /\ ~PurgeResults(q)
    BY <2>3 DEF ReaderStep, AddWaiting, PostTasks, Finish, Disconnect, Stop,
                PostCancels, resultVars
  <2>4. QED
    BY <2>1, <2>2, <2>3
<1> SUFFICES ASSUME NEW r \in FamilyReaders, Doomed(r)', NEW t \in Ids(r)
             PROVE  ~Pending(t)' /\ (OnASlot(t)' => pc' = "failing")
  BY DEF DoomedEnd
<1>3. r \in Readers /\ t \in Tasks /\ r \notin Impatient /\ (r # q => Ids(r) \cap Ids(q) = {})
  BY IdsType, DistinctIds DEF FamilyReaders, FamiliesStay
<1>4. Doomed(r)
  <2>1. CASE \E m \in Elems(results') : m.id \in Ids(r) /\ m.type = "error"
    BY <1>2, <2>1 DEF Doomed
  <2>2. CASE reader'[r] \in {"failed", "leaving", "purged"}
    <3>1. CASE Recv(q)
      BY <1>1, <1>3, <2>2, <3>1, RecvTakes DEF Doomed, readerVars
    <3>2. CASE ~Recv(q)
      BY <1>1, <1>3, <2>2, <3>2
      DEF ReaderStep, AddWaiting, PostTasks, Finish, Disconnect, Stop, PurgeResults,
          PostCancels, Doomed
    <3>3. QED
      BY <3>1, <3>2
  <2>3. CASE \E u \in Ids(r) : Cancel(u) \in Elems(queue') \cup {current'}
    <3>1. PICK u \in Ids(r) : Cancel(u) \in Elems(queue') \cup {current'}
      BY <2>3
    <3>2. CASE Cancel(u) \in Elems(queue) \cup {current}
      BY <3>2 DEF Doomed
    <3>3. CASE Cancel(u) \notin Elems(queue) \cup {current}
      <4>1. PostCancels(q) /\ u \in Ids(q)
        BY <1>1, <3>1, <3>3, PostTasksMoves, PostCancelsMoves, OtherReaderMoves
      <4>2. QED
        BY <1>3, <4>1 DEF PostCancels, Doomed
    <3>4. QED
      BY <3>2, <3>3
  <2>4. QED
    BY <2>1, <2>2, <2>3 DEF Doomed
<1>5. ~Pending(t) /\ (OnASlot(t) => pc = "failing")
  BY <1>4 DEF FamilyInv, DoomedEnd
<1>6. OnASlot(t)' <=> OnASlot(t)
  BY <1>1 DEF OnASlot
<1>7. CASE PostTasks(q)
  <2>1. q # r
    <3> SUFFICES ASSUME reader[r] = "registered" PROVE FALSE
      BY <1>7 DEF PostTasks
    <3>1. \A u \in Ids(r) : u \notin answered
      BY <1>3 DEF PlaceInv, NotYetPosted
    <3>2. ~\E m \in Elems(results) : m.id \in Ids(r) /\ m.type = "error"
      BY <3>1 DEF AnswersInv, EndsAreAnswers
    <3>3. ~\E u \in Ids(r) : Cancel(u) \in Elems(queue) \cup {current}
      BY <1>3 DEF WorkInv, CancelsAreLast
    <3>4. QED
      BY <1>4, <3>2, <3>3 DEF Doomed
  <2>2. t \notin Elems(Batch[q])
    BY <1>3, <2>1 DEF Ids
  <2>3. QED
    BY <1>1, <1>3, <1>5, <1>6, <1>7, <2>2, PostTasksMoves
<1>8. CASE ~PostTasks(q)
  BY <1>1, <1>3, <1>5, <1>6, <1>8, PostCancelsMoves, OtherReaderMoves DEF PendingStays
<1>9. QED
  BY <1>7, <1>8

(* The slots that wait, and their parents, are as they were.               *)
WaitersStay ==
  \A s \in InState({"wait_other"})' :
     s \in InState({"wait_other"}) /\ slotTask'[s] = slotTask[s]

ParentsStay ==
  \A s \in InState({"wait_other"})' : \A p \in InState({"started", "prompt", "done"}) :
     slotTask[p] \in ParentOf(slotTask[s]) =>
        p \in InState({"started", "prompt", "done"})' /\ slotTask'[p] = slotTask[p]

LEMMA StayNoneWaits ==
  ASSUME WaitersStay, NEW p, slotTask'[p] = slotTask[p], NoneWaits(p)
  PROVE  NoneWaits(p)'
BY DEF WaitersStay, NoneWaits, ParentOf

LEMMA StayAhead ==
  ASSUME ParentsAhead, pc # "failing", WaitersStay, ParentsStay
  PROVE  ParentsAhead'
BY DEF ParentsAhead, WaitersStay, ParentsStay, ParentOf

(* A slot that nobody waits for is released, and is no longer visited.     *)
LEMMA ReleaseFamilyInv ==
  ASSUME TypeInv, FamilyInv, NEW s \in Busy, Release(s), s \notin todo,
         ending \in {s, NoSlot}, ending' = NoSlot, UNCHANGED todo,
         pc' = pc \/ (pc = "dispatch" /\ pc' = "drain"),
         pc # "failing" => NoneWaits(s)
  PROVE  FailingAll' /\ ParentsAhead' /\ ParentsLast'
<1>1. /\ slotTask' = [slotTask EXCEPT ![s] = NoTask] /\ slotTask \in [Slots -> Tasks \cup {NoTask}]
      /\ slotState' = [slotState EXCEPT ![s] = "idle"] /\ slotState \in [Slots -> SlotStates]
      /\ todo \subseteq Slots /\ s \in Slots
  BY DEF Release, TypeInv, TypeOK, Busy
<1>2. FailingAll'
  <2>1. Busy' = Busy \ {s}
    BY <1>1 DEF Busy, Idle
  <2>2. QED
    BY <2>1 DEF FamilyInv, FailingAll
<1>3. WaitersStay
  BY <1>1 DEF WaitersStay, InState
<1>4. ParentsAhead'
  <2>1. CASE pc = "failing"
    BY <2>1 DEF ParentsAhead
  <2>2. CASE pc # "failing"
    <3>1. ParentsStay
      BY <1>1, <1>3, <2>2 DEF ParentsStay, WaitersStay, NoneWaits, InState
    <3>2. QED
      BY <1>3, <2>2, <3>1, StayAhead DEF FamilyInv
  <2>3. QED
    BY <2>1, <2>2
<1>5. ASSUME pc' = "sample", NEW p \in todo
      PROVE  NoneWaits(p)'
  <2>1. NoneWaits(p) /\ slotTask'[p] = slotTask[p]
    BY <1>1, <1>5 DEF FamilyInv, ParentsLast
  <2>2. QED
    BY <1>3, <2>1, StayNoneWaits
<1>6. QED
  BY <1>2, <1>4, <1>5 DEF ParentsLast

(* The new slots are those of a parent and of its children.                *)
LEMMA LaunchFamilyInv ==
  ASSUME TypeInv, PlaceInv, FamilyInv, LaunchTask
  PROVE  FailingAll' /\ ParentsAhead' /\ ParentsLast'
<1> DEFINE t == current.id
<1>1. /\ current.type = "run" /\ pc = "dispatch" /\ pc' = "drain" /\ ending' = ending
      /\ ending = NoSlot
  BY DEF LaunchTask, Dispatching, Dispatched, TypeInv, PassOK
<1>2. t \in Tops
  BY <1>1, CurrentPlace
<1>3. \E s \in Candidates(t) : \E place \in [Children[t] -> Free \ {s}] : Placed(t, s, place)
  BY DEF LaunchTask, Placed
<1> HIDE DEF t
<1>4. PICK s \in Candidates(t) : \E place \in [Children[t] -> Free \ {s}] : Placed(t, s, place)
  BY <1>3
<1>5. PICK place \in [Children[t] -> Free \ {s}] : Placed(t, s, place)
  BY <1>4
<1>6. s \in Slots /\ Idle(s) /\ slotTask'[s] = t /\ slotState'[s] = "started"
  BY <1>5 DEF Placed, Candidates, Free
<1>7. ASSUME NEW x \in Slots, ~Idle(x)
      PROVE  slotTask'[x] = slotTask[x] /\ slotState'[x] = slotState[x]
  <2>1. x # s /\ ~\E c \in Children[t] : place[c] = x
    BY <1>6, <1>7 DEF Free
  <2>2. QED
    BY <1>5, <2>1 DEF Placed
<1>8. ASSUME NEW x \in InState({"wait_other"})'
      PROVE  \E p \in InState({"started", "prompt", "done"})' : slotTask'[p] \in ParentOf(slotTask'[x])
  <2>1. x \in Slots /\ slotState'[x] = "wait_other"
    BY DEF InState
  <2>2. CASE \E c \in Children[t] : place[c] = x
    <3>1. x # s
      BY <1>6, <2>1
    <3>2. slotTask'[x] \in Children[t]
      BY <1>5, <2>1, <2>2, <3>1 DEF Placed
    <3>3. slotTask'[s] \in ParentOf(slotTask'[x])
      BY <1>2, <1>6, <3>2 DEF ParentOf
    <3>4. QED
      BY <1>6, <3>3 DEF InState
  <2>3. CASE ~\E c \in Children[t] : place[c] = x
    <3>1. x # s
      BY <1>6, <2>1
    <3>2. slotState[x] = "wait_other" /\ slotTask'[x] = slotTask[x]
      BY <1>5, <2>1, <2>3, <3>1 DEF Placed
    <3>3. PICK p \in InState({"started", "prompt", "done"}) : slotTask[p] \in ParentOf(slotTask[x])
      BY <1>1, <2>1, <3>2 DEF FamilyInv, ParentsAhead, InState
    <3>4. p \in Slots /\ ~Idle(p)
      BY DEF InState, Idle
    <3>5. QED
      BY <1>7, <3>2, <3>3, <3>4 DEF InState
  <2>4. QED
    BY <2>2, <2>3
<1>9. QED
  BY <1>1, <1>8 DEF FailingAll, ParentsAhead, ParentsLast, ParentOf

(* The children of every prompt that is done are activated, so that nobody *)
(* waits for a slot that is sampled next.                                  *)
LEMMA DecodeFamilyInv ==
  ASSUME TypeInv, PlaceInv, FamilyInv, DecodeBatch
  PROVE  FailingAll' /\ ParentsAhead' /\ ParentsLast'
<1>1. /\ pc = "decode" /\ pc' = "sample" /\ ending' = ending /\ ending = NoSlot
      /\ slotTask' = slotTask
      /\ slotState' = [s \in Slots |-> IF s \in Activated THEN "done" ELSE slotState[s]]
      /\ todo' \subseteq Activated \cup InState({"done", "generating"})
  BY DEF DecodeBatch, GoTo, TypeInv, PassOK, InState
<1>2. WaitersStay
  BY <1>1 DEF WaitersStay, InState
<1>3. ParentsStay
  BY <1>1 DEF ParentsStay, InState
<1>4. ParentsAhead'
  BY <1>1, <1>2, <1>3, StayAhead DEF FamilyInv
<1>5. ASSUME NEW p \in todo', NEW s \in InState({"wait_other"})',
             slotTask'[p] \in ParentOf(slotTask'[s])
      PROVE  FALSE
  <2>1. s \in InState({"wait_other"}) /\ s \notin Activated /\ slotTask[p] \in ParentOf(slotTask[s])
    BY <1>1, <1>5 DEF InState, ParentOf
  <2>2. slotTask[p] \in Tops /\ slotTask[s] \in Children[slotTask[p]]
    BY <2>1 DEF ParentOf
  <2>3. p \notin InState({"done"})
    BY <2>1, <2>2 DEF Activated
  <2>4. PICK q \in InState({"started", "prompt", "done"}) : slotTask[q] \in ParentOf(slotTask[s])
    BY <1>1, <2>1 DEF FamilyInv, ParentsAhead
  <2>5. p \in Slots /\ q \in Slots /\ slotTask[p] = slotTask[q] /\ slotTask[p] # NoTask
    <3>1. p \in Slots /\ q \in Slots
      BY <1>1 DEF Activated, InState
    <3>2. slotTask[p] = slotTask[q]
      BY <2>1, <2>4, OneParent
    <3>3. QED
      BY <2>2, <3>1, <3>2, IdsType, ConstantsAssumption
  <2>6. p = q
    BY <2>5 DEF PlaceInv, UniquePlaces
  <2>7. QED
    <3>1. p \notin InState({"wait_other"}) /\ p \notin InState({"generating"})
      BY <2>4, <2>6 DEF InState
    <3>2. QED
      BY <1>1, <2>3, <3>1 DEF Activated, InState
<1>6. QED
  BY <1>1, <1>4, <1>5 DEF FailingAll, ParentsLast, NoneWaits, ParentOf

(* The steps that leave the slots' tasks and states alone.                 *)
LEMMA QuietFamilyInv ==
  ASSUME TypeInv, FamilyInv, TypeInv', UNCHANGED <<slotTask, slotState>>,
         pc = "failing" /\ pc' # "failing" => Busy = {},
         pc' = "failing" => \/ pc = "failing" /\ todo \cup {ending} \subseteq todo' \cup {ending'}
                            \/ DecodeMayFail /\ todo' = Busy,
         pc' = "sample" => pc = "sample" /\ todo' \subseteq todo,
         ending' = ending \/ pc' = "failing" \/ NoneWaits(ending')
  PROVE  FailingAll' /\ ParentsAhead' /\ ParentsLast'
<1>1. WaitersStay /\ ParentsStay /\ Busy' = Busy
  BY DEF WaitersStay, ParentsStay, InState, Busy, Idle
<1>2. FailingAll'
  BY <1>1 DEF FamilyInv, FailingAll
<1>3. ParentsAhead'
  <2>1. CASE pc # "failing"
    BY <1>1, <2>1, StayAhead DEF FamilyInv
  <2>2. CASE pc = "failing" /\ pc' # "failing"
    <3>1. InState({"wait_other"})' = {}
      BY <1>1, <2>2 DEF InState, Busy, Idle
    <3>2. QED
      BY <3>1 DEF ParentsAhead
  <2>3. CASE pc' = "failing"
    BY <2>3 DEF ParentsAhead
  <2>4. QED
    BY <2>1, <2>2, <2>3
<1>4. \A p : NoneWaits(p) => NoneWaits(p)'
  BY <1>1, StayNoneWaits
<1>5. ending' # NoSlot /\ pc' # "failing" => NoneWaits(ending')
  BY DEF FamilyInv, ParentsLast, FailingAll, TypeInv, PassOK, Busy
<1>6. QED
  BY <1>2, <1>3, <1>4, <1>5 DEF FamilyInv, ParentsLast

LEMMA MainFamily ==
  ASSUME FamiliesStay, TypeInv, TypeInv', PlaceInv, WorkInv, FamilyInv, MainStep
  PROVE  FamilyInv'
<1> SUFFICES FailingAll' /\ ParentsAhead' /\ ParentsLast'
  BY MainDoomed DEF FamilyInv
<1>1. CASE PopTask \/ DeferTask \/ LaunchFails \/ AnswerAtOnce \/ SkipNext \/ WakeUp
  BY <1>1, QuietFamilyInv
  DEF PopTask, DeferTask, LaunchFails, AnswerAtOnce, SkipNext, WakeUp, Dispatching, Dispatched,
      GoTo, slotVars
<1>2. CASE LaunchTask
  BY <1>2, LaunchFamilyInv
<1>3. CASE CancelTask
  <2>1. /\ pc = "dispatch" /\ pc' = "drain" /\ current.type = "cancel" /\ UNCHANGED <<todo, ending>>
        /\ todo = {} /\ ending = NoSlot
    BY <1>3 DEF CancelTask, Dispatching, Dispatched, TypeInv, PassOK
  <2>2. CASE UNCHANGED slotVars
    BY <2>1, <2>2, QuietFamilyInv DEF slotVars
  <2>3. ASSUME NEW s \in Busy, slotTask[s] = current.id, Release(s)
        PROVE  FailingAll' /\ ParentsAhead' /\ ParentsLast'
    <3>1. ASSUME NEW x \in InState({"wait_other"}), slotTask[s] \in ParentOf(slotTask[x])
          PROVE  FALSE
      <4>1. PICK r \in FamilyReaders : Family(slotTask[s]) \subseteq Ids(r)
        BY <3>1, FamilyHasReader
      <4>2. slotTask[s] \in Ids(r) /\ Cancel(slotTask[s]) = current
        BY <2>1, <2>3, <4>1, CurrentType DEF Family, TypeInv
      <4>3. Doomed(r)
        BY <4>2 DEF Doomed
      <4>4. ~OnASlot(slotTask[s])
        BY <2>1, <4>2, <4>3 DEF FamilyInv, DoomedEnd
      <4>5. QED
        BY <4>4 DEF OnASlot, Busy
    <3>2. NoneWaits(s)
      BY <3>1 DEF NoneWaits
    <3>3. QED
      BY <2>1, <2>3, <3>2, ReleaseFamilyInv
  <2>4. QED
    BY <1>3, <2>2, <2>3 DEF CancelTask
<1>4. CASE ReleaseAnswered
  <2>1. /\ ending \in Busy /\ ending \notin todo /\ ending # NoSlot /\ ending' = NoSlot
        /\ Release(ending) /\ UNCHANGED <<pc, todo>>
    BY <1>4 DEF ReleaseAnswered, TypeInv, PassOK
  <2>2. pc # "failing" => NoneWaits(ending)
    BY <2>1 DEF FamilyInv, ParentsLast
  <2>3. QED
    BY <2>1, <2>2, ReleaseFamilyInv
<1>5. CASE StartPass \/ ToPrompts \/ ToDecode \/ DecodeNothing \/ DraftFails
  <2>1. /\ UNCHANGED <<slotTask, slotState, ending>> /\ pc # "failing"
        /\ pc' \notin {"failing", "sample"}
    BY <1>5 DEF StartPass, ToPrompts, ToDecode, DecodeNothing, DraftFails, Decoding, Visited,
                GoTo, slotVars
  <2>2. QED
    BY <2>1, QuietFamilyInv
<1>6. CASE DecodeFails
  BY <1>6, QuietFamilyInv DEF DecodeFails, GoTo, slotVars
<1>7. CASE EndPass
  <2>1. /\ UNCHANGED <<slotTask, slotState, ending, todo>> /\ pc' = "wait"
        /\ todo = {} /\ ending = NoSlot
    BY <1>7 DEF EndPass, Visited, GoTo, slotVars
  <2>2. pc = "failing" => Busy = {}
    BY <2>1, ConstantsAssumption DEF FamilyInv, FailingAll, Busy
  <2>3. QED
    BY <2>1, <2>2, QuietFamilyInv
<1>8. CASE DecodeBatch
  BY <1>8, DecodeFamilyInv
<1>9. ASSUME NEW s \in Slots, SlotStep(s)
      PROVE  FailingAll' /\ ParentsAhead' /\ ParentsLast'
  <2>1. CASE JoinBatch(s) \/ PassOver(s)
    <3>1. /\ UNCHANGED <<slotTask, slotState, ending, pc>> /\ pc \in {"shift", "prompts"}
      BY <2>1 DEF JoinBatch, PassOver, Visit, slotVars
    <3>2. QED
      BY <3>1, QuietFamilyInv
  <2>2. CASE ShiftFails(s) \/ RejectPrompt(s)
    <3>1. /\ UNCHANGED <<slotTask, slotState, pc>> /\ ending' = s /\ pc \in {"shift", "prompts"}
          /\ slotTask[s] \in Faulty
      BY <2>2 DEF ShiftFails, RejectPrompt, Visit, AnswerSlot, slotVars
    <3>2. NoneWaits(ending')
      BY <3>1, FaultyNoneWaits
    <3>3. QED
      BY <3>1, <3>2, QuietFamilyInv
  <2>3. CASE BatchPrompt(s)
    <3>1. /\ pc = "prompts" /\ UNCHANGED <<pc, slotTask, ending>> /\ ending = NoSlot
          /\ \E state \in {"prompt", "done"} : slotState' = [slotState EXCEPT ![s] = state]
          /\ slotState \in [Slots -> SlotStates]
      BY <2>3 DEF BatchPrompt, Visit, TypeInv, TypeOK
    <3>2. WaitersStay /\ ParentsStay
      BY <3>1 DEF WaitersStay, ParentsStay, InState
    <3>3. QED
      BY <3>1, <3>2, StayAhead DEF FamilyInv, FailingAll, ParentsLast
  <2>4. CASE FailSlot(s)
    <3>1. /\ UNCHANGED <<slotTask, slotState, pc>> /\ ending' = s /\ pc = "failing"
          /\ ending = NoSlot /\ todo' = todo \ {s}
      BY <2>4 DEF FailSlot, Visit, AnswerSlot, slotVars
    <3>2. Busy' = Busy /\ NoSlot \notin Busy
      BY <3>1, ConstantsAssumption DEF Busy, Idle
    <3>3. FailingAll'
      BY <3>1, <3>2 DEF FamilyInv, FailingAll
    <3>4. QED
      BY <3>1, <3>3 DEF ParentsAhead, ParentsLast
  <2>5. CASE SampleToken(s)
    <3>1. /\ pc = "sample" /\ UNCHANGED <<pc, slotTask, ending>> /\ ending = NoSlot
          /\ s \in todo /\ todo' = todo \ {s}
          /\ slotState' = [slotState EXCEPT ![s] = "generating"]
          /\ slotState \in [Slots -> SlotStates]
      BY <2>5 DEF SampleToken, Visit, TypeInv, TypeOK
    <3>2. NoneWaits(s)
      BY <3>1 DEF FamilyInv, ParentsLast
    <3>3. WaitersStay
      BY <3>1 DEF WaitersStay, InState
    <3>4. ParentsStay
      BY <3>1, <3>2, <3>3 DEF ParentsStay, WaitersStay, NoneWaits, InState
    <3>5. \A p \in todo : NoneWaits(p)'
      BY <3>1, <3>3, StayNoneWaits DEF FamilyInv, ParentsLast
    <3>6. QED
      BY <3>1, <3>3, <3>4, <3>5, StayAhead DEF FamilyInv, FailingAll, ParentsLast
  <2>6. CASE SampleLast(s)
    <3>1. /\ pc = "sample" /\ UNCHANGED <<slotTask, slotState, pc>> /\ ending' = s
          /\ s \in todo /\ todo' = todo \ {s}
      BY <2>6 DEF SampleLast, Visit, AnswerSlot, slotVars
    <3>2. NoneWaits(ending')
      BY <3>1 DEF FamilyInv, ParentsLast
    <3>3. QED
      BY <3>1, <3>2, QuietFamilyInv
  <2>7. QED
    BY <1>9, <2>1, <2>2, <2>3, <2>4, <2>5, <2>6 DEF SlotStep
<1>10. QED
  BY <1>1, <1>2, <1>3, <1>4, <1>5, <1>6, <1>7, <1>8, <1>9 DEF MainStep, Dispatch, UpdateSlots

LEMMA FamilyInductive ==
  /\ Init => FamilyInv
  /\ /\ FamiliesStay /\ TypeInv /\ TypeInv' /\ PlaceInv /\ AnswersInv /\ WorkInv
     /\ FamilyInv /\ [Next]_vars
     => FamilyInv'
<1>1. ASSUME Init PROVE FamilyInv
  <2>1. ASSUME NEW r \in Readers PROVE ~Doomed(r)
    <3>1. /\ reader[r] = "new" /\ Elems(results) = {} /\ Elems(queue) = {}
          /\ current = NoItem
      BY <1>1 DEF Init, Elems
    <3>2. \A t : Cancel(t) # NoItem
      BY DEF Cancel, NoItem
    <3>3. QED
      BY <3>1, <3>2 DEF Doomed
  <2>2. DoomedEnd
    <3>1. FamilyReaders \subseteq Readers
      BY DEF FamilyReaders
    <3>2. QED
      BY <2>1, <3>1 DEF DoomedEnd
  <2>3. FailingAll /\ ParentsAhead /\ ParentsLast
    BY <1>1 DEF Init, FailingAll, ParentsAhead, ParentsLast, InState
  <2>4. QED
    BY <2>2, <2>3 DEF FamilyInv
<1>2. ASSUME FamiliesStay, TypeInv, TypeInv', PlaceInv, AnswersInv, WorkInv, FamilyInv, [Next]_vars
      PROVE  FamilyInv'
  <2>1. CASE MainStep
    BY <1>2, <2>1, MainFamily
  <2>2. ASSUME NEW q \in Readers, ReaderStep(q) PROVE FamilyInv'
    <3>1. UNCHANGED <<slotVars, passVars>>
      BY <2>2 DEF ReaderStep, AddWaiting, PostTasks, Recv, Finish, Disconnect, Stop,
                  PurgeResults, PostCancels
    <3>2. FailingAll' /\ ParentsAhead' /\ ParentsLast'
      BY <1>2, <3>1, QuietFamilyInv DEF slotVars, passVars
    <3>3. QED
      BY <1>2, <2>2, <3>2, ReaderDoomed DEF FamilyInv
  <2>3. CASE UNCHANGED vars
    <3>1. FailingAll' /\ ParentsAhead' /\ ParentsLast'
      BY <1>2, <2>3, QuietFamilyInv DEF vars, slotVars, passVars
    <3>2. DoomedEnd'
      BY <1>2, <2>3 DEF vars, queueVars, resultVars, slotVars, passVars, readerVars, FamilyInv,
          DoomedEnd, Doomed, Pending, Queued, Deferred, InFlight, OnASlot
    <3>3. QED
      BY <3>1, <3>2 DEF FamilyInv
  <2>4. QED
    BY <1>2, <2>1, <2>2, <2>3 DEF Next
<1>3. QED
  BY <1>1, <1>2

(* ChildNotAlone: a slot in SLOT_STATE_WAIT_OTHER has a parent that will   *)
(* pass its prompt on, or is about to be ended itself, for any slots,      *)
(* families and other requests: these may leave, be rejected and share the *)
(* passes in which a decode fails.  It needs FamiliesStay: a client of a   *)
(* family that leaves can have the parent released before its children.    *)
THEOREM ChildrenHaveParents == Spec => [](FamiliesStay => ChildNotAlone)
<1>1. FamilyInv => ChildNotAlone
  <2> SUFFICES ASSUME FamilyInv, NEW s \in InState({"wait_other"})
               PROVE  \/ \E p \in InState({"started", "prompt", "done"}) :
                            slotTask[s] \in Children[slotTask[p]]
                      \/ pc = "failing" /\ (s \in todo \/ s = ending)
    BY DEF ChildNotAlone
  <2>1. CASE pc = "failing"
    <3>1. s \in Busy
      BY DEF InState, Busy, Idle
    <3>2. QED
      BY <2>1, <3>1 DEF FamilyInv, FailingAll
  <2>2. CASE pc # "failing"
    BY <2>2 DEF FamilyInv, ParentsAhead, ParentOf
  <2>3. QED
    BY <2>1, <2>2
<1> DEFINE FInv == FamiliesStay => FamilyInv
<1>2. Init => FInv
  BY FamilyInductive
<1>3. /\ TypeInv /\ TypeInv' /\ PlaceInv /\ AnswersInv /\ WorkInv /\ FInv /\ [Next]_vars
      => FInv'
  BY FamilyInductive DEF FamiliesStay, FamilyReaders
<1>4. FInv => (FamiliesStay => ChildNotAlone)
  BY <1>1
<1> HIDE DEF FInv
<1>5. QED
  BY <1>2, <1>3, <1>4, PlaceInductive, AnswersInductive, WorkInductive, PTL DEF Spec
=============================================================================
