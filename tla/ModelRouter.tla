---------------------------- MODULE ModelRouter ----------------------------
(***************************************************************************)
(* The router of llama-server (server-models.cpp): HTTP threads that load, *)
(* unload and reload models, each model instance being a child process     *)
(* with a managing thread, a thread that reads its output and a thread     *)
(* that stops it.  One action is one critical section of `mutex`, or one   *)
(* step of a thread between two of them.                                   *)
(*                                                                         *)
(* Left out: ports, arguments, presets (a preset is in the sources or not, *)
(* changed or not), aliases, the proxied traffic, and the clock: any       *)
(* running model may be the least recently used one, or none may be, when  *)
(* all of them were used in this very millisecond.                         *)
(***************************************************************************)
EXTENDS Integers, FiniteSets, Sequences

CONSTANTS
  Models,      \* names of models
  Requesters,  \* HTTP threads, each with one request
  Job,         \* Job[r]: the request, [op, name], of thread r
  Sources,     \* Sources[r]: the models that a reload by r finds in its sources
  Changed,     \* Changed[r]: those whose preset it finds changed
  Startup,     \* those that a reload that adds them loads at once
  Crashing,    \* the models whose child may exit by itself
  MaxModels,   \* models_max, 0 for no limit
  MaxSpawns,   \* bound: processes that can be created, further spawns fail
  MaxPipe,     \* bound: unread messages of a child
  NoModel

Ops  == {"post", "load", "unload", "reload"}
Gens == 1 .. MaxSpawns

ASSUME RouterAssumption ==
  /\ Job \in [Requesters -> [op : Ops, name : Models]]
  /\ Sources \in [Requesters -> SUBSET Models] /\ Changed \in [Requesters -> SUBSET Models]
  /\ Startup \subseteq Models /\ Crashing \subseteq Models
  /\ MaxModels \in Nat /\ MaxSpawns \in Nat /\ MaxPipe \in Nat
  /\ NoModel \notin Models
  /\ IsFiniteSet(Models)

VARIABLES
  known,     \* the keys of mapping
  mapping,   \* mapping[m], default constructed when m is not a key
  stopping,  \* stopping_models
  reloading, \* is_reloading
  inst,      \* inst[g]: the g-th child process and its threads
  spawned,   \* number of processes created
  req,       \* req[r]: where the HTTP thread r is, and its locals
  main       \* the main thread, and how the router ended

vars == <<known, mapping, stopping, reloading, inst, spawned, req, main>>

Statuses == {"UNLOADED", "LOADING", "LOADED", "SLEEPING"}

(* instance_t.  gen is the child of subproc: 0 is a subprocess_s that was  *)
(* never started, NullProc a null pointer.                                 *)
NullProc == -1
Entry    == [status : Statuses, failed : BOOLEAN, gen : Gens \cup {0, NullProc}, th : BOOLEAN]
Phantom  == [status |-> "UNLOADED", failed |-> FALSE, gen |-> NullProc, th |-> FALSE]
NewEntry == [Phantom EXCEPT !.gen = 0]

(* A child: its process, unread messages, the EXIT command, its exit code, *)
(* its managing thread, its stopping_thread, and whether cv_stop was       *)
(* notified since the stopping_thread last looked.                         *)
Alive    == {"starting", "ready", "sleeping"}
Children == Alive \cup {"closed", "dead", "reaped"}
Instance == [model : Models \cup {NoModel}, child : Children, pipe : Seq(Statuses), told : BOOLEAN, failed : BOOLEAN, mgr : {"read", "stop", "status", "done"}, stopper : {"wait", "awake", "grace", "done"}, poked : BOOLEAN]
NoInstance == [model |-> NoModel, child |-> "reaped", pipe |-> <<>>, told |-> FALSE, failed |-> FALSE, mgr |-> "done", stopper |-> "done", poked |-> FALSE]

(* Where an HTTP thread is in its handler, and what it remembers.          *)
Places  == {"look", "load", "lru", "evict", "evicted", "admit", "await", "check", "proxy", "touch", "unload", "reload", "stopping", "join", "autoload", "done"}
Request == [pc : Places, name : Models, lru : Models \cup {NoModel}, targets : SUBSET Models, todo : SUBSET Models, joins : SUBSET Gens]

Status(m)  == mapping[m].status
Running(m) == m \in known /\ Status(m) # "UNLOADED"
Serving    == main = "serving"
Up         == main \in {"serving", "joining"}

Init ==
  /\ known \in {Models, Models \ Startup}
  /\ mapping = [m \in Models |-> IF m \in known THEN NewEntry ELSE Phantom]
  /\ stopping = {} /\ reloading = FALSE
  /\ inst = [g \in Gens |-> NoInstance] /\ spawned = 0
  /\ req = [r \in Requesters |->
              [pc |-> IF Job[r].op = "reload" THEN "reload" ELSE "look", name |-> Job[r].name, lru |-> NoModel, targets |-> {}, todo |-> {}, joins |-> {}]]
  /\ main = "serving"

---------------------------------------------------------------------------
(* Child processes.                                                        *)

Speaks(g, from, to, status) ==
  /\ inst[g].child = from /\ Len(inst[g].pipe) < MaxPipe
  /\ inst' = [inst EXCEPT ![g].child = to, ![g].pipe = Append(@, status)]
  /\ UNCHANGED <<known, mapping, stopping, reloading, spawned, req, main>>

(* setup_child_server() and notify_router_sleeping_state().                *)
ChildReady(g) == Speaks(g, "starting", "ready", "LOADED")
ChildSleep(g) == Speaks(g, "ready", "sleeping", "SLEEPING")
ChildWake(g)  == Speaks(g, "sleeping", "ready", "LOADED")

(* A process closes its output before it can be waited for.                *)
Exits(g, how) == inst' = [inst EXCEPT ![g].child = "closed", ![g].failed = how]

(* The EXIT command is read by a thread that starts when the model is      *)
(* loaded.                                                                 *)
ChildStops(g) ==
  /\ inst[g].child \in {"ready", "sleeping"} /\ inst[g].told
  /\ Exits(g, FALSE)
  /\ UNCHANGED <<known, mapping, stopping, reloading, spawned, req, main>>

ChildFails(g) ==
  /\ inst[g].child \in Alive /\ inst[g].model \in Crashing
  /\ Exits(g, TRUE)
  /\ UNCHANGED <<known, mapping, stopping, reloading, spawned, req, main>>

ChildDies(g) ==
  /\ inst[g].child = "closed"
  /\ inst' = [inst EXCEPT ![g].child = "dead"]
  /\ UNCHANGED <<known, mapping, stopping, reloading, spawned, req, main>>

(* subprocess_alive() reaps a process that ended.                          *)
Ended(g) == inst[g].child \in {"dead", "reaped"}
Reap(i)  == IF i.child = "dead" THEN [i EXCEPT !.child = "reaped"] ELSE i
Kill(i)  == IF i.child \in Alive THEN [i EXCEPT !.child = "closed", !.failed = TRUE] ELSE i

Poke(is) == [g \in Gens |-> [is[g] EXCEPT !.poked = TRUE]]

---------------------------------------------------------------------------
(* The managing thread of a child and the two threads that it starts.      *)

(* log_thread: update_status() finds the model by its name.                *)
LogRead(g) ==
  LET i == inst[g]
  IN /\ i.mgr = "read" /\ i.pipe # <<>>
     /\ inst' = [inst EXCEPT ![g].pipe = Tail(@)]
     /\ mapping' = IF i.model \in known
                   THEN [mapping EXCEPT ![i.model].status = Head(i.pipe), ![i.model].failed = FALSE]
                   ELSE mapping
     /\ UNCHANGED <<known, stopping, reloading, spawned, req, main>>

(* The end of the child's output: the stopping_thread is told to end.      *)
MgrEof(g) ==
  /\ inst[g].mgr = "read" /\ inst[g].pipe = <<>> /\ inst[g].child \notin Alive
  /\ stopping' = stopping \ {inst[g].model}
  /\ inst' = Poke([inst EXCEPT ![g].mgr = "stop"])
  /\ UNCHANGED <<known, mapping, reloading, spawned, req, main>>

MgrJoins(g) ==
  /\ inst[g].mgr = "stop" /\ inst[g].stopper = "done" /\ Ended(g)
  /\ inst' = [inst EXCEPT ![g].mgr = "status", ![g].child = "reaped"]
  /\ UNCHANGED <<known, mapping, stopping, reloading, spawned, req, main>>

MgrUnloaded(g) ==
  LET m == inst[g].model
  IN /\ inst[g].mgr = "status"
     /\ inst' = [inst EXCEPT ![g].mgr = "done"]
     /\ mapping' = IF m \in known
                   THEN [mapping EXCEPT ![m].status = "UNLOADED", ![m].failed = inst[g].failed]
                   ELSE mapping
     /\ UNCHANGED <<known, stopping, reloading, spawned, req, main>>

IsStopping(g) == inst[g].model \in stopping

(* cv_stop.wait(): the predicate is evaluated at first and on a notify.    *)
StopperLooks(g) ==
  /\ inst[g].stopper = "wait" /\ inst[g].poked
  /\ inst' = [inst EXCEPT ![g] =
                IF IsStopping(g) THEN [@ EXCEPT !.stopper = "awake"]
                ELSE IF Ended(g) THEN [Reap(@) EXCEPT !.stopper = "awake"]
                ELSE [@ EXCEPT !.poked = FALSE]]
  /\ UNCHANGED <<known, mapping, stopping, reloading, spawned, req, main>>

(* Without the lock: a child that ended is not told to exit.               *)
StopperTells(g) ==
  /\ inst[g].stopper = "awake"
  /\ inst' = [inst EXCEPT ![g] =
                IF Ended(g) THEN [Reap(@) EXCEPT !.stopper = "done"]
                ELSE [@ EXCEPT !.stopper = "grace", !.told = TRUE]]
  /\ UNCHANGED <<known, mapping, stopping, reloading, spawned, req, main>>

StopperEnds(g) ==
  /\ inst[g].stopper = "grace" /\ ~ IsStopping(g)
  /\ inst' = [inst EXCEPT ![g].stopper = "done"]
  /\ UNCHANGED <<known, mapping, stopping, reloading, spawned, req, main>>

(* Mutant of StopperKills: the stopping_thread gives up after the timeout. *)
StopperGivesUp(g) ==
  /\ inst[g].stopper = "grace" /\ IsStopping(g)
  /\ inst' = [inst EXCEPT ![g].stopper = "done"]
  /\ UNCHANGED <<known, mapping, stopping, reloading, spawned, req, main>>

(* stop_timeout has passed.                                                *)
StopperKills(g) ==
  /\ inst[g].stopper = "grace" /\ IsStopping(g)
  /\ inst' = [inst EXCEPT ![g] = [Kill(@) EXCEPT !.stopper = "done"]]
  /\ UNCHANGED <<known, mapping, stopping, reloading, spawned, req, main>>

InstanceStep(g) ==
  \/ ChildReady(g) \/ ChildSleep(g) \/ ChildWake(g)
  \/ ChildStops(g) \/ ChildFails(g) \/ ChildDies(g)
  \/ LogRead(g) \/ MgrEof(g) \/ MgrJoins(g) \/ MgrUnloaded(g)
  \/ StopperLooks(g) \/ StopperTells(g) \/ StopperEnds(g) \/ StopperKills(g)

---------------------------------------------------------------------------
(* HTTP threads.                                                           *)

At(r, pc) == Serving /\ req[r].pc = pc
Goes(r, pc) == req' = [req EXCEPT ![r].pc = pc]
Name(r) == req[r].name

(* The routes read the meta data first, ensure_model_ready() and the       *)
(* handlers of /models/load and /models/unload.                            *)
NextOf(r) ==
  LET m == Name(r)
  IN IF m \notin known THEN "done"
     ELSE CASE Job[r].op = "post" -> (CASE Status(m) = "UNLOADED" -> "load"
                                        [] Status(m) = "LOADING"  -> "await"
                                        [] OTHER                  -> "proxy")
            [] Job[r].op = "load" -> IF Running(m) THEN "done" ELSE "load"
            [] OTHER              -> IF Running(m) THEN "unload" ELSE "done"

Look(r) ==
  /\ At(r, "look")
  /\ Goes(r, NextOf(r))
  /\ UNCHANGED <<known, mapping, stopping, reloading, inst, spawned, main>>

(* load(): has_model().                                                    *)
HasModel(r) ==
  /\ At(r, "load")
  /\ Goes(r, IF Name(r) \in known THEN "lru" ELSE "done")
  /\ UNCHANGED <<known, mapping, stopping, reloading, inst, spawned, main>>

RunningModels == {m \in Models : Running(m)}
(* Mutant of Full: a model that is loading does not count for the limit.   *)
FullOfLoaded == MaxModels > 0 /\ Cardinality({m \in RunningModels : Status(m) # "LOADING"}) >= MaxModels

Full == MaxModels > 0 /\ Cardinality(RunningModels) >= MaxModels

(* unload_lru(): the choice.                                               *)
PickLru(r) ==
  /\ At(r, "lru")
  /\ \/ Full /\ \E m \in RunningModels : req' = [req EXCEPT ![r].pc = "evict", ![r].lru = m]
     \/ Goes(r, "admit")
  /\ UNCHANGED <<known, mapping, stopping, reloading, inst, spawned, main>>

(* unload(): a model that is loading is killed.  Once its process has been *)
(* waited for its pid is 0, and kill(0) is the router's own process group. *)
KillsItself(m) == Running(m) /\ Status(m) = "LOADING" /\ inst[mapping[m].gen].child = "reaped"

Unload(m) ==
  IF ~ Running(m)
  THEN UNCHANGED <<stopping, inst, main>>
  ELSE /\ stopping' = stopping \cup {m}
       /\ inst' = Poke(IF Status(m) = "LOADING" THEN [inst EXCEPT ![mapping[m].gen] = Kill(@)] ELSE inst)
       /\ main' = IF KillsItself(m) THEN "killed" ELSE main

(* Mutant of Evict: unload_lru() marks the model as unloaded itself.       *)
EvictMarks(r) ==
  /\ At(r, "evict")
  /\ Unload(req[r].lru)
  /\ mapping' = [mapping EXCEPT ![req[r].lru].status = "UNLOADED"]
  /\ Goes(r, "evicted")
  /\ UNCHANGED <<known, reloading, spawned>>

Evict(r) ==
  /\ At(r, "evict")
  /\ Unload(req[r].lru)
  /\ Goes(r, "evicted")
  /\ UNCHANGED <<known, mapping, reloading, spawned>>

(* The wait reads mapping[lru], which makes an entry if there is none.     *)
Evicted(r) ==
  /\ At(r, "evicted") /\ Status(req[r].lru) = "UNLOADED"
  /\ known' = known \cup {req[r].lru}
  /\ req' = [req EXCEPT ![r].pc = "admit", ![r].lru = NoModel]
  /\ UNCHANGED <<mapping, stopping, reloading, inst, spawned, main>>

(* Where load() returns to, and where its exceptions go.                   *)
Loaded(r) == CASE Job[r].op = "post"   -> "await"
               [] Job[r].op = "reload" -> "autoload"
               [] OTHER                -> "done"

(* load(): the rest is one critical section.  When the child is there the  *)
(* old instance is cleaned up: its subproc is looked into, and its thread  *)
(* joined under the lock, for ever if the thread still needs it.           *)
AlreadyLoaded(r) ==
  /\ At(r, "admit") /\ ~ reloading /\ Status(Name(r)) # "UNLOADED"
  /\ Goes(r, Loaded(r))
  /\ UNCHANGED <<known, mapping, stopping, reloading, inst, spawned, main>>

LoadThrows(r) ==
  /\ At(r, "admit") /\ ~ reloading /\ Status(Name(r)) = "UNLOADED"
  /\ known' = known \cup {Name(r)}
  /\ Full \/ spawned = MaxSpawns
  /\ Goes(r, "done")
  /\ UNCHANGED <<mapping, stopping, reloading, inst, spawned, main>>

Child(m) == [NoInstance EXCEPT !.model = m, !.child = "starting", !.mgr = "read", !.stopper = "wait", !.poked = TRUE]

AfterCleanup(m) ==
  IF mapping[m].gen = NullProc THEN "null"
  ELSE IF mapping[m].th /\ inst[mapping[m].gen].mgr # "done" THEN "deadlocked"
  ELSE main

(* Mutant of Spawn: load() does not wait for a reload.                     *)
SpawnInReload(r) ==
  LET m == Name(r)
      g == spawned + 1
  IN /\ At(r, "admit")
     /\ Status(m) = "UNLOADED" /\ ~ Full
     /\ spawned < MaxSpawns
     /\ known' = known \cup {m}
     /\ spawned' = g
     /\ inst' = [inst EXCEPT ![g] = Child(m)]
     /\ mapping' = [mapping EXCEPT ![m].status = "LOADING", ![m].gen = g, ![m].th = TRUE]
     /\ main' = AfterCleanup(m)
     /\ Goes(r, Loaded(r))
     /\ UNCHANGED <<stopping, reloading>>

Spawn(r) ==
  LET m == Name(r)
      g == spawned + 1
  IN /\ At(r, "admit") /\ ~ reloading
     /\ Status(m) = "UNLOADED" /\ ~ Full
     /\ spawned < MaxSpawns
     /\ known' = known \cup {m}
     /\ spawned' = g
     /\ inst' = [inst EXCEPT ![g] = Child(m)]
     /\ mapping' = [mapping EXCEPT ![m].status = "LOADING", ![m].gen = g, ![m].th = TRUE]
     /\ main' = AfterCleanup(m)
     /\ Goes(r, Loaded(r))
     /\ UNCHANGED <<stopping, reloading>>

(* wait_until_loading_finished().                                          *)
AwaitLoaded(r) ==
  /\ At(r, "await") /\ Name(r) \in known /\ Status(Name(r)) # "LOADING"
  /\ Goes(r, "check")
  /\ UNCHANGED <<known, mapping, stopping, reloading, inst, spawned, main>>

(* The end of ensure_model_ready().                                        *)
Check(r) ==
  LET m == Name(r)
  IN /\ At(r, "check")
     /\ Goes(r, IF m \notin known \/ (~ Running(m) /\ mapping[m].failed) THEN "done" ELSE "proxy")
     /\ UNCHANGED <<known, mapping, stopping, reloading, inst, spawned, main>>

(* proxy_request(): get_meta(), then mapping[name].meta.last_used.         *)
Proxy(r) ==
  /\ At(r, "proxy")
  /\ Goes(r, IF Running(Name(r)) THEN "touch" ELSE "done")
  /\ UNCHANGED <<known, mapping, stopping, reloading, inst, spawned, main>>

Touch(r) ==
  /\ At(r, "touch")
  /\ known' = known \cup {Name(r)}
  /\ Goes(r, "done")
  /\ UNCHANGED <<mapping, stopping, reloading, inst, spawned, main>>

UnloadModel(r) ==
  /\ At(r, "unload")
  /\ Unload(Name(r))
  /\ Goes(r, "done")
  /\ UNCHANGED <<known, mapping, reloading, spawned>>

---------------------------------------------------------------------------
(* load_models() as a reload.                                              *)

Reload(r) ==
  LET targets == {m \in RunningModels : m \notin Sources[r] \/ m \in Changed[r]}
  IN /\ At(r, "reload")
     /\ reloading' = TRUE
     /\ req' = [req EXCEPT ![r].pc = "stopping", ![r].targets = targets, ![r].todo = targets]
     /\ UNCHANGED <<known, mapping, stopping, inst, spawned, main>>

(* Mutant of ReloadUnloads: a reload does not unload its targets.          *)
ReloadForgets(r) ==
  /\ At(r, "stopping")
  /\ \E m \in req[r].todo : req' = [req EXCEPT ![r].todo = @ \ {m}]
  /\ UNCHANGED <<known, mapping, stopping, reloading, inst, spawned, main>>

(* The lock is released before each unload().                              *)
ReloadUnloads(r) ==
  /\ At(r, "stopping")
  /\ \E m \in req[r].todo :
       /\ Unload(m)
       /\ req' = [req EXCEPT ![r].todo = @ \ {m}]
  /\ UNCHANGED <<known, mapping, reloading, spawned>>

(* When no target runs any more their threads, and those of the models     *)
(* that are to be erased, are moved out of mapping ...                     *)
Joinable(r) ==
  {m \in known : mapping[m].th /\ (m \in req[r].targets \/ (m \notin Sources[r] /\ ~ Running(m)))}

ReloadStopped(r) ==
  /\ At(r, "stopping") /\ req[r].todo = {}
  /\ \A m \in req[r].targets : ~ Running(m)
  /\ req' = [req EXCEPT ![r].pc = "join", ![r].joins = {mapping[m].gen : m \in Joinable(r)}]
  /\ mapping' = [m \in Models |-> [mapping[m] EXCEPT !.th = @ /\ m \notin Joinable(r)]]
  /\ UNCHANGED <<known, stopping, reloading, inst, spawned, main>>

(* ... and joined without the lock.  Then the models that are in no source *)
(* are erased, with an assertion that their thread was joined, the others  *)
(* updated unless they run, and new ones added.                            *)
Reconciled(r, m) ==
  IF m \notin Sources[r] THEN Phantom
  ELSE IF m \notin known THEN NewEntry
  ELSE IF Running(m) THEN mapping[m]
  ELSE [mapping[m] EXCEPT !.failed = FALSE]

ReloadReconciles(r) ==
  /\ At(r, "join") /\ \A g \in req[r].joins : inst[g].mgr = "done"
  /\ IF \E m \in known \ Sources[r] : mapping[m].th
     THEN main' = "asserted" /\ UNCHANGED <<known, mapping, reloading, req>>
     ELSE /\ known' = Sources[r]
          /\ mapping' = [m \in Models |-> Reconciled(r, m)]
          /\ reloading' = FALSE
          /\ req' = [req EXCEPT ![r].pc = "autoload", ![r].joins = {}, ![r].targets = {}, ![r].todo = Startup \cap (Sources[r] \ known)]
          /\ UNCHANGED main
  /\ UNCHANGED <<stopping, inst, spawned>>

(* The new models that are to be loaded on startup are loaded in turn.     *)
Autoload(r) ==
  /\ At(r, "autoload")
  /\ IF req[r].todo = {} THEN Goes(r, "done")
     ELSE \E m \in req[r].todo : req' = [req EXCEPT ![r].pc = "load", ![r].name = m, ![r].todo = @ \ {m}]
  /\ UNCHANGED <<known, mapping, stopping, reloading, inst, spawned, main>>

RequestStep(r) ==
  \/ Look(r) \/ HasModel(r) \/ PickLru(r) \/ Evict(r) \/ Evicted(r)
  \/ AlreadyLoaded(r) \/ LoadThrows(r) \/ Spawn(r)
  \/ AwaitLoaded(r) \/ Check(r) \/ Proxy(r) \/ Touch(r) \/ UnloadModel(r)
  \/ Reload(r) \/ ReloadUnloads(r) \/ ReloadStopped(r) \/ ReloadReconciles(r) \/ Autoload(r)

---------------------------------------------------------------------------
(* Mutant of UnloadAll: unload_all() does not notify the stopping threads. *)
UnloadAllSilently ==
  /\ Serving /\ \A r \in Requesters : req[r].pc = "done"
  /\ stopping' = stopping \cup RunningModels
  /\ main' = "joining"
  /\ UNCHANGED <<known, mapping, reloading, inst, spawned, req>>

(* The end: the HTTP server has stopped, so that no request is under way,  *)
(* and the main thread calls unload_all().  A model that is loading is     *)
(* told to exit like any other.                                            *)
UnloadAll ==
  /\ Serving /\ \A r \in Requesters : req[r].pc = "done"
  /\ stopping' = stopping \cup RunningModels
  /\ inst' = IF RunningModels = {} THEN inst ELSE Poke(inst)
  /\ main' = "joining"
  /\ UNCHANGED <<known, mapping, reloading, spawned, req>>

(* Mutant of Leave: unload_all() joins the threads of the loaded models    *)
(* only.                                                                   *)
LeaveSleepers ==
  /\ main = "joining"
  /\ \A m \in known : mapping[m].th /\ Status(m) = "LOADED" => inst[mapping[m].gen].mgr = "done"
  /\ main' = "gone"
  /\ UNCHANGED <<known, mapping, stopping, reloading, inst, spawned, req>>

(* It joins the threads that it moved out of mapping.                      *)
Leave ==
  /\ main = "joining"
  /\ \A m \in known : mapping[m].th => inst[mapping[m].gen].mgr = "done"
  /\ main' = "gone"
  /\ UNCHANGED <<known, mapping, stopping, reloading, inst, spawned, req>>

Next ==
  \/ \E g \in Gens : Up /\ InstanceStep(g)
  \/ \E r \in Requesters : RequestStep(r)
  \/ UnloadAll
  \/ Leave

Spec == Init /\ [][Next]_vars

(* The threads run when they can, a process that was killed or has exited  *)
(* disappears, and stop_timeout passes.  Nothing is assumed of a child     *)
(* that was told to exit.                                                  *)
InstanceFairness ==
  \A g \in Gens :
    /\ WF_vars(Up /\ ChildDies(g))
    /\ WF_vars(Up /\ (LogRead(g) \/ MgrEof(g) \/ MgrJoins(g) \/ MgrUnloaded(g)))
    /\ WF_vars(Up /\ (StopperLooks(g) \/ StopperTells(g) \/ StopperEnds(g) \/ StopperKills(g)))
RouterFairness ==
  /\ \A r \in Requesters : WF_vars(RequestStep(r))
  /\ WF_vars(Leave)
FairSpec == Spec /\ InstanceFairness /\ RouterFairness

---------------------------------------------------------------------------
(* Properties.                                                             *)

TypeOK ==
  /\ known \subseteq Models /\ stopping \subseteq Models
  /\ mapping \in [Models -> Entry]
  /\ reloading \in BOOLEAN
  /\ inst \in [Gens -> Instance]
  /\ spawned \in 0 .. MaxSpawns
  /\ req \in [Requesters -> Request]
  /\ main \in {"serving", "joining", "gone", "killed", "asserted", "deadlocked", "null"}

Processes == {g \in Gens : ~ Ended(g)}

(* However many requests load at once, there are never more child          *)
(* processes than models_max: the check in load() counts the entries of    *)
(* mapping, so every process that still exists must have a running entry.  *)
WithinLimit == MaxModels > 0 => Cardinality(Processes) <= MaxModels

(* A model has one process: load() never finds the "old process ... still  *)
(* alive".                                                                 *)
OneProcess ==
  \A g, h \in Processes : inst[g].model = inst[h].model => g = h

(* The threads of a child report to mapping by the name of the model: as   *)
(* long as they do, the entry of that name is the one of this child.       *)
ReportsToOwn ==
  \A g \in Gens : inst[g].mgr # "done" =>
    LET m == inst[g].model IN m \in known /\ mapping[m].gen = g /\ Running(m)

(* Whatever is loaded and reloaded at once: load() joins under the lock    *)
(* only threads that do not need it; and a model that a reload erases has  *)
(* no thread left ("must have been joined above"), as long as the sources  *)
(* do not change between two reloads that overlap.  When they do, a reload *)
(* may erase a model that another one has just added and loaded.           *)
SameSources  == \A r, s \in Requesters : Sources[r] = Sources[s]
JoinsAreSafe == main # "deadlocked" /\ (SameSources => main # "asserted")

(* When the router has ended all its children have been waited for.        *)
NoOrphans == main = "gone" => \A g \in Gens : inst[g].child = "reaped"

(* Force-killing a model that is loading kills its process, and no other:  *)
(* never one that was waited for already.                                  *)
KillsOnlyChildren == main # "killed"

(* "thread to monitor stopping signal OR child crash": the stopping_thread *)
(* of g waits for a notification, and the last one is behind it.  It came  *)
(* when the output had ended, when the mark in stopping_models was gone,   *)
(* and when the process could not be waited for yet (README, section 5).   *)
SleepsThrough(g) ==
  inst[g].mgr = "stop" /\ inst[g].stopper = "wait" /\ ~ inst[g].poked

AnySleepsThrough == \E g \in Gens : SleepsThrough(g)

(* A model that was asked to stop is unloaded, even if its child does not  *)
(* answer the EXIT command, crashes, or stops by itself at that moment,    *)
(* unless its stopping_thread sleeps through it.                           *)
StopCompletes ==
  \A g \in Gens :
    (Up /\ inst[g].mgr = "read" /\ IsStopping(g))
      ~> (inst[g].mgr = "done" \/ ~ Up \/ SleepsThrough(g))

(* A reload ends its wait for the models that it unloads, and load() its   *)
(* wait for the reload, unless a stopping_thread sleeps through the end of *)
(* its child.                                                              *)
ReloadEnds == reloading ~> (~ reloading \/ ~ Up \/ AnySleepsThrough)

(* The router ends once its HTTP server has stopped, with the same         *)
(* exception.                                                              *)
ShutdownEnds == (main = "joining") ~> (main = "gone" \/ AnySleepsThrough)
=============================================================================
