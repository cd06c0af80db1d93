---------------------------- MODULE ServerSleep ----------------------------
(***************************************************************************)
(* The sleeping protocol of server_queue (tools/server/server-queue.cpp):  *)
(* when no task came for sleep_idle_seconds, the main thread unloads the   *)
(* model and waits on condition_tasks until an HTTP thread asks for it, or *)
(* the server terminates.  The HTTP threads wait on the same condition     *)
(* variable until the model is back, so who is blocked there, and whom a   *)
(* notification reaches, is part of the state.  A section under            *)
(* mutex_tasks is one step.                                                *)
(*                                                                         *)
(* Time is not counted: the idle time may pass whenever the main thread is *)
(* idle, wherever the HTTP threads are, since only tasks refresh           *)
(* time_last_task.  The end of a sleep does too, and it notifies every     *)
(* blocked thread: one that has not run when the next sleep begins was     *)
(* slower than sleep_idle_seconds, which the history variable stalled      *)
(* records.                                                                *)
(***************************************************************************)
EXTENDS SeqOps, FiniteSets

CONSTANTS
  Requesters,    \* the HTTP threads, each serves one request after the other
  Main,          \* the thread in start_loop()
  MayTerminate   \* whether terminate() may be called

ASSUME ThreadsAssumption ==
  /\ IsFiniteSet(Requesters) /\ Main \notin Requesters
  /\ MayTerminate \in BOOLEAN

VARIABLES
  running,          \* server_queue::running
  isTerminating,    \* is_terminating: the signal was handled
  stalled,          \* history: a notified thread did not run for the idle time
  sleeping,         \* server_queue::sleeping
  reqStopSleeping,  \* req_stop_sleeping
  loaded,           \* the model is loaded: load_model() without destroy()
  queue,            \* queue_tasks, a task named after its HTTP thread
  blocked,          \* the threads blocked in condition_tasks.wait()
  pc,               \* where the main thread is
  handler           \* where each HTTP thread is

runVars   == <<running, isTerminating, stalled>>
modelVars == <<sleeping, reqStopSleeping, loaded>>
vars == <<runVars, modelVars, queue, blocked, pc, handler>>

PcValues      == {"boot", "run", "idle", "waiting", "asleep", "exited"}
HandlerStates == {"none", "arrived", "blocked", "ready", "using", "posted"}

(* Threads that have left condition_tasks.wait() or never entered it.      *)
Awake(th) == th \notin blocked

Init ==
  /\ running = FALSE /\ isTerminating = FALSE /\ stalled = FALSE
  /\ sleeping = FALSE /\ reqStopSleeping = FALSE /\ loaded = TRUE
  /\ queue = <<>> /\ blocked = {}
  /\ pc = "boot"
  /\ handler = [r \in Requesters |-> "none"]

(* condition_tasks.notify_one() when W is blocked.                         *)
NotifyOne(W) == IF W = {} THEN {{}} ELSE {W \ {th} : th \in W}

MoveTo(r, place) == handler' = [handler EXCEPT ![r] = place]
-----------------------------------------------------------------------------
(* The HTTP threads.                                                       *)

Arrive(r) ==
  /\ handler[r] = "none"
  /\ MoveTo(r, "arrived")
  /\ UNCHANGED <<runVars, modelVars, queue, blocked, pc>>

(* Mutant of WaitUntilNoSleep: it asks without notifying.                  *)
WaitSilently(r) ==
  /\ handler[r] = "arrived"
  /\ reqStopSleeping' = sleeping
  /\ blocked' = IF sleeping THEN blocked \cup {r} ELSE blocked
  /\ MoveTo(r, IF sleeping THEN "blocked" ELSE "ready")
  /\ UNCHANGED <<runVars, sleeping, loaded, queue, pc>>

(* wait_until_no_sleep(): pass, or ask for the model and wait for it.      *)
WaitUntilNoSleep(r) ==
  /\ handler[r] = "arrived"
  /\ \/ /\ ~sleeping
        /\ MoveTo(r, "ready")
        /\ UNCHANGED <<reqStopSleeping, blocked>>
     \/ /\ sleeping /\ ~reqStopSleeping
        /\ reqStopSleeping' = TRUE
        /\ \E rest \in NotifyOne(blocked) : blocked' = rest \cup {r}
        /\ MoveTo(r, "blocked")
     \/ /\ sleeping /\ reqStopSleeping
        /\ blocked' = blocked \cup {r}
        /\ MoveTo(r, "blocked")
        /\ UNCHANGED reqStopSleeping
  /\ UNCHANGED <<runVars, sleeping, loaded, queue, pc>>

(* Mutant of TestAwake: a wait() without a predicate.                      *)
TakeAnyWakeUp(r) ==
  /\ handler[r] = "blocked" /\ Awake(r)
  /\ MoveTo(r, "ready")
  /\ UNCHANGED <<runVars, modelVars, queue, blocked, pc>>

(* A notification reached the thread: it tests the predicate again.        *)
TestAwake(r) ==
  /\ handler[r] = "blocked" /\ Awake(r)
  /\ \/ /\ ~sleeping
        /\ MoveTo(r, "ready")
        /\ UNCHANGED blocked
     \/ /\ sleeping
        /\ blocked' = blocked \cup {r}
        /\ UNCHANGED handler
  /\ UNCHANGED <<runVars, modelVars, queue, pc>>

(* The handler tokenizes its input with the vocabulary of the model.       *)
UseModel(r) ==
  /\ handler[r] = "ready"
  /\ MoveTo(r, "using")
  /\ UNCHANGED <<runVars, modelVars, queue, blocked, pc>>

(* post(): the task is queued, and one blocked thread is notified.         *)
Post(r) ==
  /\ handler[r] = "using"
  /\ MoveTo(r, "posted")
  /\ queue' = Append(queue, r)
  /\ blocked' \in NotifyOne(blocked)
  /\ UNCHANGED <<runVars, modelVars, pc>>

HandlerStep(r) == WaitUntilNoSleep(r) \/ TestAwake(r) \/ UseModel(r) \/ Post(r)
-----------------------------------------------------------------------------
(* The main thread: start_loop().                                          *)

(* The first statement of start_loop(), without the lock.  The model is    *)
(* loaded, the HTTP threads and the signal handler are there already.      *)
StartLoop ==
  /\ pc = "boot"
  /\ running' = TRUE
  /\ pc' = "run"
  /\ UNCHANGED <<isTerminating, stalled, modelVars, queue, blocked, handler>>

(* The inner loop: leave when not running, else process the next task      *)
(* (here it is answered at once), else update the slots and go idle.       *)
RunTask ==
  /\ pc = "run"
  /\ \/ /\ ~running
        /\ pc' = "exited"
        /\ UNCHANGED <<queue, handler>>
     \/ /\ running /\ queue # <<>>
        /\ queue' = Tail(queue)
        /\ MoveTo(Head(queue), "none")
        /\ UNCHANGED pc
     \/ /\ running /\ queue = <<>>
        /\ pc' = "idle"
        /\ UNCHANGED <<queue, handler>>
  /\ UNCHANGED <<runVars, modelVars, blocked>>

(* The waiting loop under the lock: leave it, go to sleep, or wait for a   *)
(* task.  The callback that destroys the model runs under the lock too.    *)
LeaveIdle ==
  /\ pc = "idle" /\ (~running \/ queue # <<>>)
  /\ pc' = "run"
  /\ UNCHANGED <<runVars, modelVars, blocked, queue, handler>>

(* A blocked thread that was notified has not run since.                   *)
Lagging == \E r \in Requesters : handler[r] = "blocked" /\ Awake(r)

(* Mutant of EnterSleep: the tasks in the queue are not looked at.         *)
SleepOverTasks ==
  /\ pc = "idle" /\ running
  /\ stalled' = (stalled \/ Lagging)
  /\ sleeping' = TRUE /\ loaded' = FALSE /\ reqStopSleeping' = FALSE
  /\ blocked' = blocked \cup {Main}
  /\ pc' = "asleep"
  /\ UNCHANGED <<running, isTerminating, queue, handler>>

EnterSleep ==
  /\ pc = "idle" /\ running /\ queue = <<>>
  /\ stalled' = (stalled \/ Lagging)
  /\ sleeping' = TRUE /\ loaded' = FALSE /\ reqStopSleeping' = FALSE
  /\ blocked' = blocked \cup {Main}
  /\ pc' = "asleep"
  /\ UNCHANGED <<running, isTerminating, queue, handler>>

WaitForTask ==
  /\ pc = "idle" /\ running /\ queue = <<>>
  /\ blocked' = blocked \cup {Main}
  /\ pc' = "waiting"
  /\ UNCHANGED <<runVars, modelVars, queue, handler>>

(* wait_for() ends on a notification or after a second at most.            *)
EndWait ==
  /\ pc = "waiting"
  /\ pc' = IF ~running \/ queue # <<>> THEN "run" ELSE "idle"
  /\ blocked' = blocked \ {Main}
  /\ UNCHANGED <<runVars, modelVars, queue, handler>>

(* The predicate of the sleeping wait is false: wait again.                *)
SleepOn ==
  /\ pc = "asleep" /\ Awake(Main) /\ running /\ ~reqStopSleeping
  /\ blocked' = blocked \cup {Main}
  /\ UNCHANGED <<runVars, modelVars, queue, pc, handler>>

(* Mutants of LeaveSleep: the other threads are not notified, or the model *)
(* is not loaded again.                                                    *)
LeaveSleepSilently ==
  /\ pc = "asleep" /\ Awake(Main) /\ running /\ reqStopSleeping
  /\ sleeping' = FALSE /\ loaded' = TRUE /\ reqStopSleeping' = FALSE
  /\ pc' = "run"
  /\ UNCHANGED <<runVars, queue, blocked, handler>>

LeaveSleepUnloaded ==
  /\ pc = "asleep" /\ Awake(Main) /\ running /\ reqStopSleeping
  /\ sleeping' = FALSE /\ reqStopSleeping' = FALSE
  /\ blocked' = {}
  /\ pc' = "run"
  /\ UNCHANGED <<runVars, loaded, queue, handler>>

(* Requested: the model is loaded again and every blocked thread notified. *)
LeaveSleep ==
  /\ pc = "asleep" /\ Awake(Main) /\ running /\ reqStopSleeping
  /\ sleeping' = FALSE /\ loaded' = TRUE /\ reqStopSleeping' = FALSE
  /\ blocked' = {}
  /\ pc' = "run"
  /\ UNCHANGED <<runVars, queue, handler>>

(* Terminated in its sleep: the loop is left as it is.                     *)
QuitAsleep ==
  /\ pc = "asleep" /\ Awake(Main) /\ ~running
  /\ pc' = "run"
  /\ UNCHANGED <<runVars, modelVars, blocked, queue, handler>>

MainStep == StartLoop \/ RunTask \/ LeaveIdle \/ EnterSleep \/ WaitForTask
            \/ EndWait \/ SleepOn \/ LeaveSleep \/ QuitAsleep

(* Mutant of Terminate: nobody is notified.                                *)
TerminateSilently ==
  /\ MayTerminate /\ ~isTerminating
  /\ isTerminating' = TRUE /\ running' = FALSE
  /\ UNCHANGED <<stalled, modelVars, queue, blocked, pc, handler>>

(* The first signal: the handler calls terminate().                        *)
Terminate ==
  /\ MayTerminate /\ ~isTerminating
  /\ isTerminating' = TRUE /\ running' = FALSE
  /\ blocked' = {}
  /\ UNCHANGED <<stalled, modelVars, queue, pc, handler>>

Next == MainStep \/ Terminate \/ \E r \in Requesters : Arrive(r) \/ HandlerStep(r)

Spec == Init /\ [][Next]_vars

(* Every thread that can run does; requests and signals need not come.     *)
Fairness == WF_vars(MainStep) /\ \A r \in Requesters : WF_vars(HandlerStep(r))

FairSpec == Spec /\ Fairness
-----------------------------------------------------------------------------
TypeOK ==
  /\ running \in BOOLEAN /\ isTerminating \in BOOLEAN /\ stalled \in BOOLEAN
  /\ sleeping \in BOOLEAN /\ reqStopSleeping \in BOOLEAN /\ loaded \in BOOLEAN
  /\ blocked \subseteq Requesters \cup {Main}
  /\ pc \in PcValues /\ handler \in [Requesters -> HandlerStates]
  /\ queue \in Seq(Requesters)
  /\ \A r \in Elems(queue) : handler[r] = "posted"

(* server-context.cpp, on its model pointers: "only use these pointers     *)
(* outside of this class: when not in sleeping state".  Whatever           *)
(* notification wakes a thread, none gets past wait_until_no_sleep() while *)
(* the model is destroyed, at any speed and with signals.  A thread that   *)
(* was past it before the sleep began does use a destroyed model (README,  *)
(* section 5).                                                             *)
PassesLoaded ==
  [][\A r \in Requesters :
       handler[r] # "ready" /\ handler'[r] = "ready" => loaded']_vars

(* The main thread never processes a task, or updates the slots, without a *)
(* model, whatever terminate() interrupted.                                *)
RunsLoaded == pc \in {"run", "idle", "waiting"} /\ running => loaded

(* While the main thread sleeps, a request for the model that it has not   *)
(* seen yet has woken it: it does not stay blocked with a request pending, *)
(* unless a notified thread has not run for a whole idle time.             *)
RequestWakesMain == ~stalled => (pc = "asleep" /\ reqStopSleeping => Awake(Main))

(* A task is processed unless it is posted into a sleep that nobody asks   *)
(* to end: it may come while the main thread works, idles, falls asleep or *)
(* has been asked for the model by another thread.  README.md says more,   *)
(* "any new incoming task will automatically trigger the model to reload", *)
(* which the code does not do (README, section 5).                         *)
TaskIsProcessed ==
  \A r \in Requesters :
     handler[r] = "posted" /\ (pc = "asleep" => reqStopSleeping)
       ~> handler[r] # "posted" \/ isTerminating \/ stalled

(* A loop that is not running ends, wherever terminate() finds it: asleep, *)
(* waiting for tasks, or in the middle of them.                            *)
StoppedLoopEnds == ~running /\ pc # "boot" ~> pc = "exited"

(* server.cpp, on the call of terminate() by the signal handler: "this     *)
(* will unblock start_loop()".  It fails for a signal that comes before    *)
(* start_loop() (README, section 5).                                       *)
SignalEndsLoop == isTerminating ~> pc = "exited"

(* server-queue.h, wait_until_no_sleep(): "if sleeping, request exiting    *)
(* sleep state and wait until it is done": the wait ends, unless the       *)
(* server terminates or a notified thread has not run for a whole idle     *)
(* time.                                                                   *)
WaitEnds ==
  \A r \in Requesters :
     handler[r] = "blocked" ~> handler[r] # "blocked" \/ isTerminating \/ stalled
=============================================================================
