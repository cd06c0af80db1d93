--------------------------- MODULE ServerSleepProofs ---------------------------
(***************************************************************************)
(* Theorems about ServerSleep, for any number of HTTP threads: what holds  *)
(* whatever their speed, and what holds until a notified thread has not    *)
(* run for a whole idle time (~stalled).                                   *)
(***************************************************************************)
EXTENDS ServerSleep, SeqOpsProofs

(* A handler has posted its task exactly when the task is queued, once.    *)
QueueInv ==
  /\ Unique(queue, Requesters)
  /\ \A r \in Requesters : handler[r] = "posted" <=> r \in Elems(queue)

TypeInv == TypeOK /\ QueueInv

(* Who is blocked until a thread stalls, wherever the others are when the  *)
(* idle time passes.                                                       *)
SleepInv ==
  /\ ~sleeping => ~reqStopSleeping /\ blocked \subseteq {Main}
  /\ sleeping /\ ~reqStopSleeping =>
        blocked \subseteq {Main} /\ \A r \in Requesters : handler[r] # "blocked"
  /\ pc = "asleep" => sleeping
  /\ pc = "boot" => ~sleeping
  /\ pc # "asleep" /\ running => ~sleeping
  /\ pc = "asleep" /\ reqStopSleeping => Awake(Main)
-----------------------------------------------------------------------------
(* notify_one() unblocks at most one thread.                               *)
LEMMA NotifyOneType ==
  ASSUME NEW W, NEW V \in NotifyOne(W)
  PROVE  /\ V \subseteq W
         /\ W # {} => \E th \in W : V = W \ {th}
BY DEF NotifyOne

(* The task at the head of the queue is answered and leaves the queue.     *)
LEMMA RunTaskType ==
  ASSUME TypeInv, RunTask
  PROVE  TypeInv'
<1>1. queue \in Seq(Requesters) /\ handler \in [Requesters -> HandlerStates]
  BY DEF TypeInv, TypeOK
<1>2. CASE UNCHANGED <<queue, handler>>
  BY <1>2 DEF RunTask, TypeInv, TypeOK, QueueInv, PcValues, runVars, modelVars
<1>3. CASE queue # <<>> /\ queue' = Tail(queue) /\ MoveTo(Head(queue), "none")
  <2>1. /\ queue' \in Seq(Requesters) /\ Head(queue) \in Requesters
        /\ Elems(queue) = Elems(queue') \cup {Head(queue)}
    BY <1>1, <1>3, TailElems
  <2>2. Unique(queue', Requesters) /\ Head(queue) \notin Elems(queue')
    BY <1>1, <1>3, <2>1, TailUnique DEF TypeInv, QueueInv
  <2>3. handler' \in [Requesters -> HandlerStates]
    BY <1>1, <1>3 DEF MoveTo, HandlerStates
  <2>4. ASSUME NEW r \in Requesters
        PROVE  handler'[r] = "posted" <=> r \in Elems(queue')
    BY <1>1, <1>3, <2>1, <2>2 DEF MoveTo, TypeInv, QueueInv
  <2>5. \A r \in Elems(queue') : r \in Requesters
    BY <2>1 DEF TypeInv, QueueInv, Elems
  <2>6. QED
    BY <2>1, <2>2, <2>3, <2>4, <2>5 DEF RunTask, TypeInv, TypeOK, QueueInv, PcValues, runVars, modelVars
<1>4. QED
  BY <1>2, <1>3 DEF RunTask

(* The steps of an HTTP thread.                                            *)
LEMMA HandlerType ==
  ASSUME TypeInv, NEW r \in Requesters, Arrive(r) \/ HandlerStep(r)
  PROVE  TypeInv'
<1>1. /\ queue \in Seq(Requesters) /\ handler \in [Requesters -> HandlerStates]
      /\ blocked \subseteq Requesters \cup {Main}
  BY DEF TypeInv, TypeOK
<1>2. CASE Post(r)
  <2>1. /\ queue' = Append(queue, r) /\ handler[r] = "using"
        /\ handler' = [handler EXCEPT ![r] = "posted"]
        /\ blocked' \in NotifyOne(blocked)
        /\ UNCHANGED <<runVars, sleeping, reqStopSleeping, loaded, pc>>
    BY <1>2 DEF Post, MoveTo, runVars, modelVars
  <2>2. r \notin Elems(queue)
    BY <2>1 DEF TypeInv, QueueInv
  <2>3. /\ queue' \in Seq(Requesters) /\ Elems(queue') = Elems(queue) \cup {r}
        /\ Unique(queue', Requesters)
    BY <1>1, <2>1, <2>2, AppendElems, AppendUnique DEF TypeInv, QueueInv
  <2>4. handler' \in [Requesters -> HandlerStates]
    BY <1>1, <2>1 DEF HandlerStates
  <2>5. QueueInv'
    BY <1>1, <2>1, <2>3 DEF TypeInv, QueueInv
  <2>6. blocked' \subseteq Requesters \cup {Main}
    BY <1>1, <2>1, NotifyOneType
  <2>7. \A x \in Elems(queue') : handler'[x] = "posted"
    BY <1>1, <2>1, <2>3 DEF TypeInv, TypeOK
  <2>8. QED
    BY <2>1, <2>3, <2>4, <2>5, <2>6, <2>7 DEF TypeInv, TypeOK, runVars
<1>3. CASE Arrive(r) \/ WaitUntilNoSleep(r) \/ TestAwake(r) \/ UseModel(r)
  <2>1. /\ UNCHANGED <<runVars, sleeping, loaded, queue, pc>>
        /\ handler[r] \in {"none", "arrived", "blocked", "ready"}
        /\ \/ handler' = handler
           \/ \E place \in {"arrived", "ready", "blocked", "using"} :
                 handler' = [handler EXCEPT ![r] = place]
        /\ reqStopSleeping' \in {reqStopSleeping, TRUE}
    BY <1>3 DEF Arrive, WaitUntilNoSleep, TestAwake, UseModel, MoveTo, runVars, modelVars
  <2>2. blocked' \subseteq blocked \cup {r}
    <3>1. CASE \E rest \in NotifyOne(blocked) : blocked' = rest \cup {r}
      BY <3>1, NotifyOneType
    <3>2. CASE blocked' = blocked \/ blocked' = blocked \cup {r}
      BY <3>2
    <3>3. QED
      BY <1>3, <3>1, <3>2 DEF Arrive, WaitUntilNoSleep, TestAwake, UseModel
  <2>3. handler' \in [Requesters -> HandlerStates]
    BY <1>1, <2>1 DEF HandlerStates
  <2>4. \A x \in Requesters : handler'[x] = "posted" <=> handler[x] = "posted"
    BY <1>1, <2>1
  <2>5. \A x \in Elems(queue) : x \in Requesters
    BY <1>1 DEF Elems
  <2>6. QED
    BY <1>1, <2>1, <2>2, <2>3, <2>4, <2>5 DEF TypeInv, TypeOK, QueueInv, runVars
<1>4. QED
  BY <1>2, <1>3 DEF HandlerStep

(* Every step keeps the types.                                             *)
LEMMA NextType == TypeInv /\ [Next]_vars => TypeInv'
<1> SUFFICES ASSUME TypeInv, [Next]_vars PROVE TypeInv'
  OBVIOUS
<1>1. CASE RunTask
  BY <1>1, RunTaskType
<1>2. CASE \E r \in Requesters : Arrive(r) \/ HandlerStep(r)
  BY <1>2, HandlerType
<1>3. CASE \/ StartLoop \/ LeaveIdle \/ EnterSleep \/ WaitForTask \/ EndWait \/ SleepOn \/ LeaveSleep
           \/ QuitAsleep \/ Terminate
  BY <1>3 DEF StartLoop, LeaveIdle, EnterSleep, WaitForTask, EndWait, SleepOn, LeaveSleep,
              QuitAsleep, Terminate, TypeInv, TypeOK, QueueInv, PcValues, runVars, modelVars
<1>4. CASE UNCHANGED vars
  BY <1>4 DEF vars, runVars, modelVars, TypeInv, TypeOK, QueueInv
<1>5. QED
  BY <1>1, <1>2, <1>3, <1>4 DEF Next, MainStep

(* The initial state has them.                                             *)
LEMMA InitType == Init => TypeInv
<1> SUFFICES ASSUME Init PROVE TypeInv
  OBVIOUS
<1>1. Elems(queue) = {} /\ Unique(queue, Requesters) /\ queue \in Seq(Requesters)
  BY DEF Init, Elems, Unique
<1>2. \A r \in Requesters : handler[r] = "none"
  BY DEF Init
<1>3. handler \in [Requesters -> HandlerStates]
  BY DEF Init, HandlerStates
<1>4. QED
  BY <1>1, <1>2, <1>3 DEF Init, TypeInv, TypeOK, QueueInv, PcValues

(* The types are those declared, and a task in the queue belongs to a      *)
(* handler that posted it and waits for its answer: no task is processed   *)
(* twice, whatever the sleeps and signals in between.                      *)
THEOREM TypeCorrect == Spec => []TypeOK
<1>1. TypeInv => TypeOK
  BY DEF TypeInv
<1>2. QED
  BY <1>1, InitType, NextType, PTL DEF Spec

(* RunsLoaded: the main thread never processes a task or updates the slots *)
(* without a model while the server runs, at any speed of the HTTP threads *)
(* and wherever terminate() interrupts the sleep.                          *)
THEOREM MainRunsLoaded == Spec => []RunsLoaded
<1> DEFINE Inv == RunsLoaded /\ (pc = "boot" => loaded)
<1>1. Init => Inv
  BY DEF Init, RunsLoaded
<1>2. Inv /\ [Next]_vars => Inv'
  BY DEF RunsLoaded, Next, MainStep, StartLoop, RunTask, LeaveIdle, EnterSleep, WaitForTask, EndWait,
         SleepOn, LeaveSleep, QuitAsleep, Terminate, Arrive, HandlerStep, WaitUntilNoSleep,
         TestAwake, UseModel, Post, vars, runVars, modelVars
<1>3. Inv => RunsLoaded
  OBVIOUS
<1> HIDE DEF Inv
<1>4. QED
  BY <1>1, <1>2, <1>3, PTL DEF Spec

(* PassesLoaded: no HTTP thread gets past wait_until_no_sleep() while the  *)
(* model is destroyed, at any speed, whichever notification wakes it and   *)
(* wherever terminate() interrupts the sleep.                              *)
THEOREM NoHandlerPassesAsleep == Spec => PassesLoaded
<1> DEFINE Inv == TypeInv /\ (~loaded => sleeping)
           Pass == \A r \in Requesters :
                      handler[r] # "ready" /\ handler'[r] = "ready" => loaded'
<1>1. Init => Inv
  BY InitType DEF Init
<1>2. Inv /\ [Next]_vars => Inv'
  <2> SUFFICES ASSUME Inv, [Next]_vars PROVE (~loaded => sleeping)'
    BY NextType
  <2>1. QED
    BY DEF Next, MainStep, StartLoop, RunTask, LeaveIdle, EnterSleep, WaitForTask, EndWait,
           SleepOn, LeaveSleep, QuitAsleep, Terminate, Arrive, HandlerStep, WaitUntilNoSleep,
           TestAwake, UseModel, Post, vars, runVars, modelVars
<1>3. Inv /\ [Next]_vars => [Pass]_vars
  <2> SUFFICES ASSUME Inv, Next,
                      NEW r \in Requesters, handler[r] # "ready", handler'[r] = "ready"
               PROVE  loaded'
    OBVIOUS
  <2>1. handler \in [Requesters -> HandlerStates]
    BY DEF TypeInv, TypeOK
  <2>2. CASE RunTask
    BY <2>1, <2>2 DEF RunTask, MoveTo
  <2>3. CASE StartLoop \/ LeaveIdle \/ EnterSleep \/ WaitForTask \/ EndWait \/ SleepOn
             \/ LeaveSleep \/ QuitAsleep \/ Terminate
    BY <2>3 DEF StartLoop, LeaveIdle, EnterSleep, WaitForTask, EndWait, SleepOn, LeaveSleep,
                QuitAsleep, Terminate
  <2>4. CASE \E x \in Requesters : Arrive(x) \/ UseModel(x) \/ Post(x)
    BY <2>1, <2>4 DEF Arrive, UseModel, Post, MoveTo
  <2>5. CASE \E x \in Requesters : WaitUntilNoSleep(x) \/ TestAwake(x)
    <3>1. PICK x \in Requesters : WaitUntilNoSleep(x) \/ TestAwake(x)
      BY <2>5
    <3>2. ~sleeping
      BY <2>1, <3>1 DEF WaitUntilNoSleep, TestAwake, MoveTo
    <3>3. loaded' = loaded
      BY <3>1 DEF WaitUntilNoSleep, TestAwake, modelVars
    <3>4. QED
      BY <3>2, <3>3
  <2>6. QED
    BY <2>2, <2>3, <2>4, <2>5 DEF Next, MainStep, HandlerStep
<1> HIDE DEF Inv
<1>4. Spec => [][Pass]_vars
  BY <1>1, <1>2, <1>3, PTL DEF Spec
<1>5. QED
  BY <1>4 DEF PassesLoaded
-----------------------------------------------------------------------------
(* The steps of the HTTP threads keep it.                                  *)
LEMMA HandlerSleep ==
  ASSUME TypeInv, SleepInv, NEW r \in Requesters, Arrive(r) \/ HandlerStep(r)
  PROVE  SleepInv'
<1>1. /\ handler \in [Requesters -> HandlerStates] /\ r # Main
      /\ sleeping \in BOOLEAN /\ reqStopSleeping \in BOOLEAN
  BY ThreadsAssumption DEF TypeInv, TypeOK
<1>2. CASE Arrive(r) \/ UseModel(r)
  BY <1>1, <1>2 DEF Arrive, UseModel, MoveTo, SleepInv, Awake, runVars, modelVars
<1>3. CASE Post(r)
  <2>1. /\ blocked' \subseteq blocked
        /\ UNCHANGED <<running, sleeping, reqStopSleeping, loaded, pc>>
    BY <1>3, NotifyOneType DEF Post, runVars, modelVars
  <2>2. \A x \in Requesters : handler'[x] = "blocked" => handler[x] = "blocked"
    BY <1>1, <1>3 DEF Post, MoveTo
  <2>3. QED
    BY <2>1, <2>2 DEF SleepInv, Awake
<1>4. CASE TestAwake(r)
  BY <1>1, <1>4 DEF TestAwake, MoveTo, SleepInv, Awake, runVars, modelVars
<1>5. CASE WaitUntilNoSleep(r)
  <2>1. CASE ~sleeping
    BY <1>1, <1>5, <2>1 DEF WaitUntilNoSleep, MoveTo, SleepInv
  <2>2. CASE sleeping /\ reqStopSleeping
    BY <1>1, <1>5, <2>2 DEF WaitUntilNoSleep, MoveTo, SleepInv, Awake, runVars
  <2>3. CASE sleeping /\ ~reqStopSleeping
    <3>1. PICK rest \in NotifyOne(blocked) : blocked' = rest \cup {r}
      BY <1>5, <2>3 DEF WaitUntilNoSleep
    <3>2. Main \notin rest
      BY <2>3, <3>1, NotifyOneType DEF SleepInv
    <3>3. QED
      BY <1>1, <1>5, <2>3, <3>1, <3>2 DEF WaitUntilNoSleep, MoveTo, SleepInv, Awake, runVars
  <2>4. QED
    BY <1>1, <2>1, <2>2, <2>3
<1>6. QED
  BY <1>2, <1>3, <1>4, <1>5 DEF HandlerStep

(* The steps of the main thread keep it while no thread has stalled, and a *)
(* signal does.                                                            *)
LEMMA MainSleep ==
  ASSUME TypeInv, SleepInv, ~stalled', MainStep \/ Terminate
  PROVE  SleepInv'
<1>1. handler \in [Requesters -> HandlerStates]
  BY DEF TypeInv, TypeOK
<1>2. CASE EnterSleep
  <2>1. /\ sleeping' = TRUE /\ loaded' = FALSE /\ reqStopSleeping' = FALSE
        /\ blocked' = blocked \cup {Main} /\ handler' = handler /\ pc' = "asleep"
    BY <1>2 DEF EnterSleep
  <2>2. \A r \in Requesters : handler[r] = "blocked" => r \in blocked
    BY <1>2 DEF EnterSleep, Lagging, Awake
  <2>3. ~sleeping
    BY <1>2 DEF EnterSleep, SleepInv
  <2>4. \A r \in Requesters : handler[r] # "blocked"
    BY <2>2, <2>3, ThreadsAssumption DEF SleepInv
  <2>5. QED
    BY <2>1, <2>3, <2>4 DEF SleepInv
<1>3. CASE RunTask
  <2>1. /\ UNCHANGED <<sleeping, reqStopSleeping, loaded, blocked, running>>
        /\ pc # "asleep" /\ pc' \notin {"asleep", "boot"}
    BY <1>3 DEF RunTask, runVars, modelVars
  <2>2. \A r \in Requesters : handler'[r] \in {handler[r], "none"}
    BY <1>1, <1>3 DEF RunTask, MoveTo
  <2>3. QED
    BY <2>1, <2>2 DEF SleepInv
<1>4. CASE StartLoop \/ LeaveIdle \/ WaitForTask \/ EndWait \/ SleepOn \/ QuitAsleep
  BY <1>4 DEF StartLoop, LeaveIdle, WaitForTask, EndWait, SleepOn, QuitAsleep, SleepInv,
              RequestWakesMain, Awake, runVars, modelVars
<1>5. CASE LeaveSleep \/ Terminate
  BY <1>5 DEF LeaveSleep, Terminate, SleepInv, Awake, runVars, modelVars
<1>6. QED
  BY <1>2, <1>3, <1>4, <1>5 DEF MainStep

(* SleepInv is inductive until a thread stalls, together with the types.   *)
SafeSleep == TypeInv /\ (~stalled => SleepInv)

(* No step undoes a stall, so SleepInv is not needed after one.            *)
LEMMA StallsForGood == TypeInv /\ [Next]_vars /\ ~stalled' => ~stalled
BY DEF Next, MainStep, StartLoop, RunTask, LeaveIdle, EnterSleep, WaitForTask, EndWait, SleepOn,
       LeaveSleep, QuitAsleep, Terminate, Arrive, HandlerStep, WaitUntilNoSleep, TestAwake,
       UseModel, Post, vars, runVars

(* The inductive invariant of the theorem below.                           *)
LEMMA SleepInductive ==
  /\ Init => SafeSleep
  /\ SafeSleep /\ [Next]_vars => SafeSleep'
<1>1. ASSUME Init PROVE SafeSleep
  BY <1>1, InitType DEF Init, SleepInv, SafeSleep
<1>2. ASSUME SafeSleep, [Next]_vars PROVE SafeSleep'
  <2>1. TypeInv /\ TypeInv'
    BY <1>2, NextType DEF SafeSleep
  <2>2. SUFFICES ASSUME ~stalled' PROVE SleepInv'
    BY <2>1 DEF SafeSleep
  <2>3. SleepInv
    BY <1>2, <2>1, <2>2, StallsForGood DEF SafeSleep
  <2>4. CASE Next
    BY <2>1, <2>2, <2>3, <2>4, HandlerSleep, MainSleep DEF Next
  <2>5. CASE UNCHANGED vars
    BY <2>3, <2>5 DEF vars, runVars, modelVars, SleepInv, Awake
  <2>6. QED
    BY <1>2, <2>4, <2>5
<1>3. QED
  BY <1>1, <1>2

(* RequestWakesMain: until a notified thread has not run for a whole idle  *)
(* time, the one notification of wait_until_no_sleep() reaches the main    *)
(* thread and no HTTP thread, because none is blocked when the first       *)
(* request comes.  Threads may be anywhere else when the idle time passes. *)
THEOREM RequestReachesMain == Spec => []RequestWakesMain
<1>1. SafeSleep => RequestWakesMain
  BY DEF SafeSleep, SleepInv, RequestWakesMain
<1>2. QED
  BY <1>1, SleepInductive, PTL DEF Spec
=============================================================================
