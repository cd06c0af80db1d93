-------------------------- MODULE ModelRouterProofs --------------------------
(* Proofs about the router: for every number of models, requests and       *)
(* processes, and every interleaving of loads, unloads, evictions and      *)
(* reloads, its entries are those of the processes that exist, and there   *)
(* are never more of them than models_max.                                 *)
EXTENDS ModelRouter, FiniteSetTheorems, TLAPS

(* What an entry, a child and a request refer to.                          *)
ThreadsHaveChild == \A m \in Models : mapping[m].th => mapping[m].gen \in Gens
NotSpawned       == \A g \in Gens : g > spawned => inst[g].mgr = "done" /\ Ended(g)
PipesReport      ==
  \A g \in Gens : \A i \in 1 .. Len(inst[g].pipe) : inst[g].pipe[i] \in {"LOADED", "SLEEPING"}
LruIsAModel      ==
  \A r \in Requesters : req[r].pc \in {"evict", "evicted"} => req[r].lru \in Models

(* A managing thread that has not ended belongs to the running entry of    *)
(* its model, whose thread it is ...                                       *)
Owned ==
  \A g \in Gens : inst[g].mgr # "done" =>
    /\ inst[g].model \in known /\ inst[g].model \in Models
    /\ mapping[inst[g].model].gen = g /\ mapping[inst[g].model].th
    /\ mapping[inst[g].model].status # "UNLOADED"

(* ... and it outlives its process.                                        *)
ManagedToTheEnd == \A g \in Processes : inst[g].mgr \in {"read", "stop"}

RouterTypes == TypeOK /\ ThreadsHaveChild /\ LruIsAModel

USE RouterAssumption DEF Gens

LEMMA InitTypes == Init => RouterTypes
<1> SUFFICES ASSUME Init  PROVE RouterTypes
  OBVIOUS
<1>1. mapping \in [Models -> Entry] /\ \A m \in Models : mapping[m].th = FALSE
  BY DEF Init, NewEntry, Phantom, Entry, NullProc, Statuses
<1>2. inst \in [Gens -> Instance]
  BY DEF Init, NoInstance, Instance, Children, Alive, Statuses
<1>3. req \in [Requesters -> Request] /\ \A r \in Requesters : req[r].pc \in {"look", "reload"}
  BY DEF Init, Request, Places, Ops
<1>4. known \subseteq Models /\ stopping \subseteq Models /\ reloading \in BOOLEAN
      /\ spawned \in 0 .. MaxSpawns /\ main = "serving"
  <2>1. known \subseteq Models /\ stopping \subseteq Models /\ main = "serving"
    BY DEF Init
  <2>2. reloading \in BOOLEAN
    BY DEF Init
  <2>3. spawned \in 0 .. MaxSpawns
    BY DEF Init
  <2> QED  BY <2>1, <2>2, <2>3
<1> QED  BY <1>1, <1>2, <1>3, <1>4 DEF RouterTypes, TypeOK, ThreadsHaveChild, LruIsAModel

(* The parts of an instance.                                               *)
LEMMA InstanceParts ==
  ASSUME TypeOK, NEW g \in Gens
  PROVE  /\ inst[g] \in Instance /\ inst[g].model \in Models \cup {NoModel}
         /\ inst[g].pipe \in Seq(Statuses)
  BY DEF TypeOK, Instance

(* Types of what a child and the threads around it change.                 *)
LEMMA PokeTypes ==
  ASSUME NEW is \in [Gens -> Instance]
  PROVE  Poke(is) \in [Gens -> Instance]
<1>1. ASSUME NEW g \in Gens  PROVE [is[g] EXCEPT !.poked = TRUE] \in Instance
  <2>1. is[g] \in Instance
    OBVIOUS
  <2> QED  BY <2>1 DEF Instance
<1> QED  BY <1>1 DEF Poke

LEMMA KillTypes ==
  ASSUME NEW i \in Instance
  PROVE  Kill(i) \in Instance /\ Reap(i) \in Instance
BY DEF Kill, Reap, Instance, Children, Alive

LEMMA InstanceTypes ==
  ASSUME RouterTypes, NEW g \in Gens, InstanceStep(g)
  PROVE  RouterTypes'
<1> DEFINE i == inst[g]
<1>0. inst \in [Gens -> Instance] /\ i \in Instance /\ mapping \in [Models -> Entry]
  BY DEF RouterTypes, TypeOK
<1>1. inst' \in [Gens -> Instance]
  <2>1. ASSUME NEW from, NEW to \in Children, NEW status \in Statuses, Speaks(g, from, to, status)
        PROVE  inst' \in [Gens -> Instance]
    <3>1. Append(i.pipe, status) \in Seq(Statuses)
      BY <1>0 DEF Instance
    <3>2. [i EXCEPT !.child = to, !.pipe = Append(@, status)] \in Instance
      BY <1>0, <3>1 DEF Instance
    <3> QED  BY <1>0, <2>1, <3>2 DEF Speaks
  <2>2. CASE ChildReady(g) \/ ChildSleep(g) \/ ChildWake(g)
    BY <2>1, <2>2 DEF ChildReady, ChildSleep, ChildWake, Children, Alive, Statuses
  <2>3. CASE ChildStops(g) \/ ChildFails(g) \/ ChildDies(g)
    <3>1. \A f \in BOOLEAN : [i EXCEPT !.child = "closed", !.failed = f] \in Instance
      BY <1>0 DEF Instance, Children
    <3>2. [i EXCEPT !.child = "dead"] \in Instance
      BY <1>0 DEF Instance, Children
    <3> QED  BY <1>0, <2>3, <3>1, <3>2 DEF ChildStops, ChildFails, ChildDies, Exits
  <2>4. CASE LogRead(g)
    <3>1. i.pipe \in Seq(Statuses) /\ i.pipe # <<>>
      BY <1>0, <2>4 DEF Instance, LogRead
    <3>2. Tail(i.pipe) \in Seq(Statuses)
      BY <3>1
    <3>3. [i EXCEPT !.pipe = Tail(@)] \in Instance
      BY <1>0, <3>2 DEF Instance
    <3> QED  BY <1>0, <2>4, <3>3 DEF LogRead
  <2>5. CASE MgrEof(g)
    <3>1. [inst EXCEPT ![g].mgr = "stop"] \in [Gens -> Instance]
      BY <1>0 DEF Instance
    <3> QED  BY <2>5, <3>1, PokeTypes DEF MgrEof
  <2>6. CASE MgrJoins(g) \/ MgrUnloaded(g)
    <3>1. /\ [i EXCEPT !.mgr = "status", !.child = "reaped"] \in Instance
          /\ [i EXCEPT !.mgr = "done"] \in Instance
      BY <1>0 DEF Instance, Children
    <3> QED  BY <1>0, <2>6, <3>1 DEF MgrJoins, MgrUnloaded
  <2>7. CASE StopperLooks(g) \/ StopperTells(g)
    <3>1. [i EXCEPT !.stopper = "awake"] \in Instance /\ [i EXCEPT !.poked = FALSE] \in Instance
          /\ [i EXCEPT !.stopper = "grace", !.told = TRUE] \in Instance
      BY <1>0 DEF Instance
    <3>2. [Reap(i) EXCEPT !.stopper = "awake"] \in Instance
          /\ [Reap(i) EXCEPT !.stopper = "done"] \in Instance
      <4>1. Reap(i) \in Instance
        BY <1>0, KillTypes
      <4> QED  BY <4>1 DEF Instance
    <3> QED  BY <1>0, <2>7, <3>1, <3>2 DEF StopperLooks, StopperTells
  <2>8. CASE StopperEnds(g)
    BY <1>0, <2>8 DEF StopperEnds, Instance
  <2>9. CASE StopperKills(g)
    <3>1. [Kill(i) EXCEPT !.stopper = "done"] \in Instance
      <4>1. Kill(i) \in Instance
        BY <1>0, KillTypes
      <4> QED  BY <4>1 DEF Instance
    <3> QED  BY <1>0, <2>9, <3>1 DEF StopperKills
  <2> QED  BY <2>2, <2>3, <2>4, <2>5, <2>6, <2>7, <2>8, <2>9 DEF InstanceStep
<1>2. /\ mapping' \in [Models -> Entry]
      /\ \A m \in Models : mapping'[m].th = mapping[m].th /\ mapping'[m].gen = mapping[m].gen
  <2>0. ASSUME NEW k, NEW s \in Statuses, NEW f \in BOOLEAN,
               mapping' = [mapping EXCEPT ![k].status = s, ![k].failed = f] \/ mapping' = mapping
        PROVE  /\ mapping' \in [Models -> Entry]
               /\ \A m \in Models : mapping'[m].th = mapping[m].th /\ mapping'[m].gen = mapping[m].gen
    <3>1. ASSUME NEW m \in Models
          PROVE  [mapping[m] EXCEPT !.status = s, !.failed = f] \in Entry
      <4>1. mapping[m] \in Entry
        BY <1>0
      <4> QED  BY <4>1 DEF Entry
    <3>2. CASE mapping' = mapping
      BY <1>0, <3>2
    <3>3. CASE mapping' = [mapping EXCEPT ![k].status = s, ![k].failed = f]
      <4>1. ASSUME NEW m \in Models
            PROVE  mapping'[m] = IF m = k THEN [mapping[m] EXCEPT !.status = s, !.failed = f]
                                 ELSE mapping[m]
        BY <1>0, <3>3
      <4>2. mapping' = [m \in Models |-> mapping'[m]]
        BY <1>0, <3>3
      <4>3. ASSUME NEW m \in Models
            PROVE  /\ mapping'[m] \in Entry
                   /\ mapping'[m].th = mapping[m].th /\ mapping'[m].gen = mapping[m].gen
        <5>1. mapping[m] \in Entry
          BY <1>0
        <5> QED  BY <3>1, <4>1, <5>1 DEF Entry
      <4> QED  BY <4>2, <4>3
    <3> QED  BY <2>0, <3>2, <3>3
  <2>1. CASE LogRead(g)
    <3>1. Head(i.pipe) \in Statuses
      <4>1. i.pipe \in Seq(Statuses) /\ i.pipe # <<>>
        BY <1>0, <2>1 DEF Instance, LogRead
      <4> QED  BY <4>1
    <3> QED  BY <2>1, <2>0, <3>1 DEF LogRead
  <2>2. CASE MgrUnloaded(g)
    <3>1. i.failed \in BOOLEAN /\ "UNLOADED" \in Statuses
      BY <1>0 DEF Instance, Statuses
    <3> QED  BY <2>0, <2>2, <3>1 DEF MgrUnloaded
  <2>3. CASE mapping' = mapping
    BY <1>0, <2>3
  <2> QED  BY <2>1, <2>2, <2>3
           DEF InstanceStep, ChildReady, ChildSleep, ChildWake, Speaks, ChildStops, ChildFails,
               ChildDies, MgrEof, MgrJoins, StopperLooks, StopperTells, StopperEnds, StopperKills
<1>3. stopping' \subseteq stopping /\ UNCHANGED <<known, reloading, spawned, req, main>>
  BY DEF InstanceStep, ChildReady, ChildSleep, ChildWake, Speaks, ChildStops, ChildFails, ChildDies,
         LogRead, MgrEof, MgrJoins, MgrUnloaded, StopperLooks, StopperTells, StopperEnds, StopperKills
<1> QED  BY <1>1, <1>2, <1>3 DEF RouterTypes, TypeOK, ThreadsHaveChild, LruIsAModel

(* Types of what an HTTP thread changes.                                   *)
LEMMA GoesTypes ==
  ASSUME RouterTypes, NEW r \in Requesters, NEW pc \in Places, Goes(r, pc),
         pc \in {"evict", "evicted"} => req[r].lru \in Models
  PROVE  req' \in [Requesters -> Request] /\ LruIsAModel'
<1>1. req[r] \in Request /\ req \in [Requesters -> Request] /\ LruIsAModel
  BY DEF RouterTypes, TypeOK
<1>2. [req[r] EXCEPT !.pc = pc] \in Request
  BY <1>1 DEF Request
<1> QED  BY <1>1, <1>2 DEF Goes, LruIsAModel

LEMMA UnloadTypes ==
  ASSUME RouterTypes, NEW m \in Models, Unload(m)
  PROVE  /\ stopping' \subseteq Models /\ inst' \in [Gens -> Instance]
         /\ main' \in {main, "killed"}
<1>1. stopping' \subseteq Models /\ main' \in {main, "killed"}
  BY DEF RouterTypes, TypeOK, Unload
<1>2. inst' \in [Gens -> Instance]
  <2>0. inst \in [Gens -> Instance]
    BY DEF RouterTypes, TypeOK
  <2>1. CASE inst' = inst
    BY <2>0, <2>1
  <2>2. ASSUME NEW h  PROVE [inst EXCEPT ![h] = Kill(@)] \in [Gens -> Instance]
    <3>1. CASE h \in Gens
      <4>1. inst[h] \in Instance
        BY <2>0, <3>1
      <4>2. Kill(inst[h]) \in Instance
        BY <4>1, KillTypes
      <4> QED  BY <2>0, <4>2
    <3>2. CASE h \notin Gens
      BY <2>0, <3>2
    <3> QED  BY <3>1, <3>2
  <2>3. CASE inst' = Poke(inst)
    BY <2>0, <2>3, PokeTypes
  <2>4. CASE inst' = Poke([inst EXCEPT ![mapping[m].gen] = Kill(@)])
    <3>1. [inst EXCEPT ![mapping[m].gen] = Kill(@)] \in [Gens -> Instance]
      BY <2>2
    <3> QED  BY <2>4, <3>1, PokeTypes
  <2> QED  BY <2>1, <2>3, <2>4 DEF Unload
<1> QED  BY <1>1, <1>2

LEMMA RequestParts ==
  ASSUME RouterTypes, NEW r \in Requesters
  PROVE  /\ req[r] \in Request /\ req[r].name \in Models
         /\ req[r].targets \subseteq Models /\ req[r].todo \subseteq Models
BY DEF RouterTypes, TypeOK, Request

(* The steps of an HTTP thread that only look.                             *)
LEMMA LookTypes ==
  ASSUME RouterTypes, NEW r \in Requesters,
         \/ Look(r) \/ HasModel(r) \/ PickLru(r) \/ AlreadyLoaded(r)
         \/ AwaitLoaded(r) \/ Check(r) \/ Proxy(r) \/ Reload(r) \/ Autoload(r)
  PROVE  RouterTypes' /\ UNCHANGED <<known, mapping, stopping, inst, spawned, main>>
<1>1. UNCHANGED <<known, mapping, stopping, inst, spawned, main>>
  BY DEF Look, HasModel, PickLru, AlreadyLoaded, AwaitLoaded, Check, Proxy, Reload, Autoload
<1>2. reloading' \in BOOLEAN
  <2>1. CASE Reload(r)
    BY <2>1 DEF Reload
  <2>2. CASE reloading' = reloading
    BY <2>2 DEF RouterTypes, TypeOK
  <2> QED  BY <2>1, <2>2 DEF Look, HasModel, PickLru, AlreadyLoaded, AwaitLoaded, Check, Proxy, Autoload
<1>0. req \in [Requesters -> Request] /\ LruIsAModel
  BY DEF RouterTypes, TypeOK
<1>3. req' \in [Requesters -> Request] /\ LruIsAModel'
  <2>1. CASE \/ Look(r) \/ HasModel(r) \/ AlreadyLoaded(r) \/ AwaitLoaded(r) \/ Check(r) \/ Proxy(r)
    <3>1. \E pc \in Places \ {"evict", "evicted"} : Goes(r, pc)
      BY <2>1 DEF Look, HasModel, AlreadyLoaded, AwaitLoaded, Check, Proxy, NextOf, Loaded, Places
    <3> QED  BY <3>1, GoesTypes
  <2>2. CASE PickLru(r)
    <3>1. CASE Goes(r, "admit")
      BY <3>1, GoesTypes DEF Places
    <3>2. ASSUME NEW m \in RunningModels, req' = [req EXCEPT ![r].pc = "evict", ![r].lru = m]
          PROVE  req' \in [Requesters -> Request] /\ LruIsAModel'
      <4>1. m \in Models
        BY DEF RunningModels
      <4>2. [req[r] EXCEPT !.pc = "evict", !.lru = m] \in Request
        BY <4>1, RequestParts DEF Request, Places
      <4>3. req' = [req EXCEPT ![r] = [req[r] EXCEPT !.pc = "evict", !.lru = m]]
        BY <1>0, <3>2
      <4> QED  BY <1>0, <4>1, <4>2, <4>3, RequestParts DEF LruIsAModel, Request
    <3> QED  BY <2>2, <3>1, <3>2 DEF PickLru
  <2>3. CASE Reload(r)
    <3> DEFINE T == {m \in RunningModels : m \notin Sources[r] \/ m \in Changed[r]}
    <3>1. T \subseteq Models
      BY DEF RunningModels
    <3> HIDE DEF T
    <3>2. [req[r] EXCEPT !.pc = "stopping", !.targets = T, !.todo = T] \in Request
      BY <3>1, RequestParts DEF Request, Places
    <3>3. req' = [req EXCEPT ![r] = [req[r] EXCEPT !.pc = "stopping", !.targets = T, !.todo = T]]
      BY <1>0, <2>3 DEF Reload, T
    <3> QED  BY <1>0, <3>2, <3>3, RequestParts DEF LruIsAModel, Request
  <2>4. CASE Autoload(r)
    <3>1. CASE Goes(r, "done")
      BY <3>1, GoesTypes DEF Places
    <3>2. ASSUME NEW m \in req[r].todo,
                 req' = [req EXCEPT ![r].pc = "load", ![r].name = m, ![r].todo = @ \ {m}]
          PROVE  req' \in [Requesters -> Request] /\ LruIsAModel'
      <4>1. m \in Models /\ req[r].todo \ {m} \subseteq Models
        BY RequestParts
      <4>2. [req[r] EXCEPT !.pc = "load", !.name = m, !.todo = @ \ {m}] \in Request
        BY <4>1, RequestParts DEF Request, Places
      <4>3. req' = [req EXCEPT ![r] = [req[r] EXCEPT !.pc = "load", !.name = m, !.todo = @ \ {m}]]
        BY <1>0, <3>2
      <4> QED  BY <1>0, <4>2, <4>3, RequestParts DEF LruIsAModel, Request
    <3> QED  BY <2>4, <3>1, <3>2 DEF Autoload
  <2> QED  BY <2>1, <2>2, <2>3, <2>4
<1> QED  BY <1>1, <1>2, <1>3 DEF RouterTypes, TypeOK, ThreadsHaveChild

(* The steps that ask models to stop.                                      *)
LEMMA StopTypes ==
  ASSUME RouterTypes, NEW r \in Requesters, Evict(r) \/ UnloadModel(r) \/ ReloadUnloads(r)
  PROVE  /\ RouterTypes' /\ UNCHANGED <<known, mapping, reloading, spawned>>
         /\ \E m \in Models : Unload(m)
<1>0. req \in [Requesters -> Request] /\ LruIsAModel
  BY DEF RouterTypes, TypeOK
<1>1. \E m \in Models : Unload(m)
  <2>1. CASE Evict(r)
    <3>1. req[r].lru \in Models
      BY <1>0, <2>1 DEF Evict, At, LruIsAModel
    <3> QED  BY <2>1, <3>1 DEF Evict
  <2>2. CASE UnloadModel(r)
    BY <2>2, RequestParts DEF UnloadModel, Name
  <2>3. CASE ReloadUnloads(r)
    BY <2>3, RequestParts DEF ReloadUnloads
  <2> QED  BY <2>1, <2>2, <2>3
<1>2. stopping' \subseteq Models /\ inst' \in [Gens -> Instance] /\ main' \in {main, "killed"}
  BY <1>1, UnloadTypes
<1>3. UNCHANGED <<known, mapping, reloading, spawned>>
  BY DEF Evict, UnloadModel, ReloadUnloads
<1>4. req' \in [Requesters -> Request] /\ LruIsAModel'
  <2>1. CASE Evict(r)
    <3>1. req[r].lru \in Models /\ Goes(r, "evicted")
      BY <1>0, <2>1 DEF Evict, At, LruIsAModel
    <3> QED  BY <3>1, GoesTypes DEF Places
  <2>2. CASE UnloadModel(r)
    BY <2>2, GoesTypes DEF UnloadModel, Places
  <2>3. CASE ReloadUnloads(r)
    <3>1. PICK m \in req[r].todo : req' = [req EXCEPT ![r].todo = @ \ {m}]
      BY <2>3 DEF ReloadUnloads
    <3>2. [req[r] EXCEPT !.todo = @ \ {m}] \in Request
      BY RequestParts DEF Request
    <3> QED  BY <1>0, <3>1, <3>2, RequestParts DEF LruIsAModel, Request
  <2> QED  BY <2>1, <2>2, <2>3
<1>5. main' \in {"serving", "joining", "gone", "killed", "asserted", "deadlocked", "null"}
  BY <1>2 DEF RouterTypes, TypeOK
<1> QED  BY <1>1, <1>2, <1>3, <1>4, <1>5 DEF RouterTypes, TypeOK, ThreadsHaveChild

(* The steps that make an entry for a name that is not there.              *)
LEMMA TouchTypes ==
  ASSUME RouterTypes, NEW r \in Requesters, Evicted(r) \/ LoadThrows(r) \/ Touch(r)
  PROVE  /\ RouterTypes' /\ known \subseteq known'
         /\ UNCHANGED <<mapping, stopping, reloading, inst, spawned, main>>
<1>0. req \in [Requesters -> Request] /\ LruIsAModel /\ known \subseteq Models
  BY DEF RouterTypes, TypeOK
<1>1. known' \subseteq Models /\ known \subseteq known'
  <2>1. CASE Evicted(r)
    BY <1>0, <2>1 DEF Evicted, At, LruIsAModel
  <2>2. CASE LoadThrows(r) \/ Touch(r)
    BY <1>0, <2>2, RequestParts DEF LoadThrows, Touch, Name
  <2> QED  BY <2>1, <2>2
<1>2. req' \in [Requesters -> Request] /\ LruIsAModel'
  <2>1. CASE Evicted(r)
    <3>1. [req[r] EXCEPT !.pc = "admit", !.lru = NoModel] \in Request
      BY RequestParts DEF Request, Places
    <3>2. req' = [req EXCEPT ![r] = [req[r] EXCEPT !.pc = "admit", !.lru = NoModel]]
      BY <1>0, <2>1 DEF Evicted
    <3> QED  BY <1>0, <3>1, <3>2, RequestParts DEF LruIsAModel, Request
  <2>2. CASE LoadThrows(r) \/ Touch(r)
    BY <2>2, GoesTypes DEF LoadThrows, Touch, Places
  <2> QED  BY <2>1, <2>2
<1>3. UNCHANGED <<mapping, stopping, reloading, inst, spawned, main>>
  BY DEF Evicted, LoadThrows, Touch
<1> QED  BY <1>1, <1>2, <1>3 DEF RouterTypes, TypeOK, ThreadsHaveChild

LEMMA SpawnTypes ==
  ASSUME RouterTypes, NEW r \in Requesters, Spawn(r)
  PROVE  RouterTypes'
<1> DEFINE m == Name(r)
           g == spawned + 1
           e == [mapping[m] EXCEPT !.status = "LOADING", !.gen = g, !.th = TRUE]
<1>1. m \in Models /\ g \in Gens /\ mapping \in [Models -> Entry] /\ inst \in [Gens -> Instance]
  BY RequestParts DEF RouterTypes, TypeOK, Spawn, Name
<1>2. e \in Entry /\ e.th /\ e.gen = g
  <2>1. mapping[m] \in Entry
    BY <1>1
  <2> QED  BY <1>1, <2>1 DEF Entry, Statuses
<1>3. mapping' = [mapping EXCEPT ![m] = e]
  BY <1>1 DEF Spawn
<1>4. mapping' \in [Models -> Entry] /\ \A k \in Models : mapping'[k] = IF k = m THEN e ELSE mapping[k]
  BY <1>1, <1>2, <1>3
<1>5. inst' \in [Gens -> Instance]
  <2>1. Child(m) \in Instance
    <3>1. NoInstance \in Instance
      BY DEF NoInstance, Instance, Children, Alive
    <3>2. m \in Models
      BY <1>1
    <3> HIDE DEF m
    <3> QED  BY <3>1, <3>2 DEF Child, Instance, Children, Alive
  <2> QED  BY <1>1, <2>1 DEF Spawn
<1>6. req' \in [Requesters -> Request] /\ LruIsAModel'
  BY GoesTypes DEF Spawn, Loaded, Places
<1>7. known' \subseteq Models /\ stopping' \subseteq Models /\ spawned' \in 0 .. MaxSpawns
      /\ main' \in {main, "null", "deadlocked"}
  BY <1>1 DEF Spawn, RouterTypes, TypeOK, AfterCleanup, Name
<1>8. reloading' \in BOOLEAN
  BY DEF Spawn, RouterTypes, TypeOK
<1>9. main' \in {"serving", "joining", "gone", "killed", "asserted", "deadlocked", "null"}
  BY <1>7 DEF RouterTypes, TypeOK
<1> HIDE DEF e, m, g
<1>10. ThreadsHaveChild'
  BY <1>1, <1>2, <1>4 DEF RouterTypes, ThreadsHaveChild
<1> QED  BY <1>4, <1>5, <1>6, <1>7, <1>8, <1>9, <1>10 DEF RouterTypes, TypeOK

(* The two sections of a reload under the lock, after its wait.            *)
LEMMA ReloadTypes ==
  ASSUME RouterTypes, NEW r \in Requesters, ReloadStopped(r) \/ ReloadReconciles(r)
  PROVE  RouterTypes' /\ UNCHANGED <<stopping, inst, spawned>>
<1>0. /\ req \in [Requesters -> Request] /\ mapping \in [Models -> Entry] /\ known \subseteq Models
      /\ \A k \in Models : mapping[k] \in Entry
  BY DEF RouterTypes, TypeOK
<1>1. UNCHANGED <<stopping, inst, spawned>>
  BY DEF ReloadStopped, ReloadReconciles
<1>2. CASE ReloadStopped(r)
  <2> DEFINE J == {mapping[m].gen : m \in Joinable(r)}
  <2>1. J \subseteq Gens
    BY <1>0 DEF Joinable, RouterTypes, ThreadsHaveChild
  <2> HIDE DEF J
  <2>2. req' \in [Requesters -> Request] /\ LruIsAModel'
    <3>1. [req[r] EXCEPT !.pc = "join", !.joins = J] \in Request
      BY <2>1, RequestParts DEF Request, Places
    <3>2. req' = [req EXCEPT ![r] = [req[r] EXCEPT !.pc = "join", !.joins = J]]
      BY <1>0, <1>2 DEF ReloadStopped, J
    <3> QED  BY <1>0, <3>1, <3>2, RequestParts DEF RouterTypes, LruIsAModel, Request
  <2>3. /\ mapping' \in [Models -> Entry]
        /\ \A k \in Models : mapping'[k].gen = mapping[k].gen /\ (mapping'[k].th => mapping[k].th)
    <3>1. ASSUME NEW k \in Models
          PROVE  /\ [mapping[k] EXCEPT !.th = @ /\ k \notin Joinable(r)] \in Entry
                 /\ mapping'[k] = [mapping[k] EXCEPT !.th = @ /\ k \notin Joinable(r)]
                 /\ mapping'[k].gen = mapping[k].gen /\ (mapping'[k].th => mapping[k].th)
      BY <1>0, <1>2 DEF ReloadStopped, Entry
    <3> QED  BY <1>2, <3>1 DEF ReloadStopped
  <2> QED  BY <1>1, <1>2, <2>2, <2>3 DEF ReloadStopped, RouterTypes, TypeOK, ThreadsHaveChild
<1>3. CASE ReloadReconciles(r)
  <2>1. CASE \E m \in known \ Sources[r] : mapping[m].th
    <3>1. main' = "asserted" /\ UNCHANGED <<known, mapping, reloading, req>>
      BY <1>3, <2>1 DEF ReloadReconciles
    <3> QED  BY <1>1, <3>1 DEF RouterTypes, TypeOK, ThreadsHaveChild, LruIsAModel
  <2>2. CASE ~ \E m \in known \ Sources[r] : mapping[m].th
    <3> DEFINE D == Startup \cap (Sources[r] \ known)
    <3>1. /\ known' = Sources[r] /\ reloading' = FALSE /\ main' = main
          /\ mapping' = [m \in Models |-> Reconciled(r, m)]
          /\ req' = [req EXCEPT ![r] =
                      [req[r] EXCEPT !.pc = "autoload", !.joins = {}, !.targets = {}, !.todo = D]]
      BY <1>0, <1>3, <2>2 DEF ReloadReconciles
    <3>2. [req[r] EXCEPT !.pc = "autoload", !.joins = {}, !.targets = {}, !.todo = D] \in Request
      BY RequestParts DEF Request, Places
    <3>3. req' \in [Requesters -> Request] /\ LruIsAModel'
      BY <1>0, <3>1, <3>2, RequestParts DEF RouterTypes, LruIsAModel, Request
    <3>4. ASSUME NEW k \in Models
          PROVE  Reconciled(r, k) \in Entry /\ (Reconciled(r, k).th => Reconciled(r, k).gen \in Gens)
      <4>1. mapping[k] \in Entry /\ (mapping[k].th => mapping[k].gen \in Gens)
        BY <1>0 DEF RouterTypes, ThreadsHaveChild
      <4>2. [mapping[k] EXCEPT !.failed = FALSE] \in Entry
            /\ [mapping[k] EXCEPT !.failed = FALSE].th = mapping[k].th
            /\ [mapping[k] EXCEPT !.failed = FALSE].gen = mapping[k].gen
        BY <4>1 DEF Entry
      <4>3. Phantom \in Entry /\ Phantom.th = FALSE /\ NewEntry \in Entry /\ NewEntry.th = FALSE
        BY DEF Phantom, NewEntry, Entry, NullProc, Statuses
      <4> QED  BY <4>1, <4>2, <4>3 DEF Reconciled
    <3>5. mapping' \in [Models -> Entry] /\ ThreadsHaveChild'
      BY <3>1, <3>4 DEF ThreadsHaveChild
    <3>6. reloading' \in BOOLEAN
      BY <3>1
    <3> QED  BY <1>1, <3>1, <3>3, <3>5, <3>6 DEF RouterTypes, TypeOK
  <2> QED  BY <2>1, <2>2
<1> QED  BY <1>1, <1>2, <1>3

LEMMA StepTypes == RouterTypes /\ [Next]_vars => RouterTypes'
<1> SUFFICES ASSUME RouterTypes, [Next]_vars  PROVE RouterTypes'
  OBVIOUS
<1>1. ASSUME NEW r \in Requesters, RequestStep(r)  PROVE RouterTypes'
  BY <1>1, LookTypes, StopTypes, TouchTypes, SpawnTypes, ReloadTypes DEF RequestStep
<1>2. CASE UnloadAll
  <2>1. inst' \in [Gens -> Instance]
    BY <1>2, PokeTypes DEF UnloadAll, RouterTypes, TypeOK
  <2>2. stopping' \subseteq Models /\ main' = "joining"
    BY <1>2 DEF UnloadAll, RouterTypes, TypeOK, RunningModels
  <2> QED  BY <1>2, <2>1, <2>2 DEF UnloadAll, RouterTypes, TypeOK, ThreadsHaveChild, LruIsAModel
<1>3. CASE Leave
  BY <1>3 DEF Leave, RouterTypes, TypeOK, ThreadsHaveChild, LruIsAModel
<1>4. CASE UNCHANGED vars
  BY <1>4 DEF vars, RouterTypes, TypeOK, ThreadsHaveChild, LruIsAModel
<1> QED  BY <1>1, <1>2, <1>3, <1>4, InstanceTypes DEF Next

(* Type correctness for every number of models, requests and processes.    *)
THEOREM TypeCorrect == Spec => []TypeOK
<1>1. RouterTypes => TypeOK
  BY DEF RouterTypes
<1> QED  BY <1>1, InitTypes, StepTypes, PTL DEF Spec

---------------------------------------------------------------------------
(* The children and their entries.                                         *)

RouterParts == RouterTypes /\ NotSpawned /\ PipesReport /\ Owned /\ ManagedToTheEnd

(* Poke() changes nothing but a mark.                                      *)
LEMMA PokeKeeps ==
  ASSUME NEW is \in [Gens -> Instance], NEW h \in Gens
  PROVE  /\ Poke(is)[h].model = is[h].model /\ Poke(is)[h].child = is[h].child
         /\ Poke(is)[h].mgr = is[h].mgr /\ Poke(is)[h].pipe = is[h].pipe
<1>1. is[h] \in Instance /\ Poke(is)[h] = [is[h] EXCEPT !.poked = TRUE]
  BY DEF Poke
<1> QED  BY <1>1 DEF Instance

(* A step of a child or of its threads: a process that has ended and a     *)
(* managing thread that has ended stay so, the managing thread waits for   *)
(* the process, and the pipe says nothing but that the model is there.     *)
LEMMA InstanceChange ==
  ASSUME RouterParts, NEW g \in Gens, InstanceStep(g), NEW h \in Gens
  PROVE  /\ inst'[h].model = inst[h].model
         /\ Ended(h) => Ended(h)'
         /\ inst[h].mgr = "done" => inst'[h].mgr = "done"
         /\ inst'[h].mgr \notin {"read", "stop"} => inst[h].mgr \notin {"read", "stop"} \/ Ended(h)'
         /\ \A i \in 1 .. Len(inst'[h].pipe) : inst'[h].pipe[i] \in {"LOADED", "SLEEPING"}
<1>0. /\ inst \in [Gens -> Instance] /\ inst[g] \in Instance /\ inst[h] \in Instance
      /\ inst[h].pipe \in Seq(Statuses)
      /\ \A i \in 1 .. Len(inst[h].pipe) : inst[h].pipe[i] \in {"LOADED", "SLEEPING"}
  BY DEF RouterParts, RouterTypes, TypeOK, Instance, PipesReport
<1>1. ASSUME NEW to \in Alive, NEW from \in Alive, NEW status \in {"LOADED", "SLEEPING"},
             Speaks(g, from, to, status)
      PROVE  /\ inst'[h].model = inst[h].model /\ inst'[h].mgr = inst[h].mgr
             /\ Ended(h)' <=> Ended(h)
             /\ \A i \in 1 .. Len(inst'[h].pipe) : inst'[h].pipe[i] \in {"LOADED", "SLEEPING"}
  <2>1. CASE h # g
    BY <1>0, <1>1, <2>1 DEF Speaks, Ended
  <2>2. CASE h = g
    <3>1. inst'[h] = [inst[h] EXCEPT !.child = to, !.pipe = Append(@, status)] /\ inst[h].child = from
      BY <1>0, <1>1, <2>2 DEF Speaks
    <3>2. inst'[h].pipe = Append(inst[h].pipe, status) /\ inst'[h].child = to
          /\ inst'[h].model = inst[h].model /\ inst'[h].mgr = inst[h].mgr
      BY <1>0, <3>1 DEF Instance
    <3>3. \A i \in 1 .. Len(inst'[h].pipe) : inst'[h].pipe[i] \in {"LOADED", "SLEEPING"}
      BY <1>0, <3>2
    <3> QED  BY <3>1, <3>2, <3>3 DEF Ended, Alive
  <2> QED  BY <2>1, <2>2
<1>2. CASE ChildReady(g) \/ ChildSleep(g) \/ ChildWake(g)
  BY <1>1, <1>2 DEF ChildReady, ChildSleep, ChildWake, Alive
<1>3. CASE ChildStops(g) \/ ChildFails(g) \/ ChildDies(g)
  <2>1. CASE h # g
    BY <1>0, <1>3, <2>1 DEF ChildStops, ChildFails, ChildDies, Exits, Ended
  <2>2. CASE h = g
    <3>1. CASE ChildStops(g) \/ ChildFails(g)
      <4>1. \E f \in BOOLEAN : inst'[h] = [inst[h] EXCEPT !.child = "closed", !.failed = f]
        BY <1>0, <2>2, <3>1 DEF ChildStops, ChildFails, Exits
      <4>2. inst'[h].model = inst[h].model /\ inst'[h].mgr = inst[h].mgr /\ inst'[h].pipe = inst[h].pipe
        BY <1>0, <4>1 DEF Instance
      <4>3. ~ Ended(h)
        BY <2>2, <3>1 DEF ChildStops, ChildFails, Ended, Alive
      <4> QED  BY <1>0, <4>2, <4>3
    <3>2. CASE ChildDies(g)
      <4>1. inst'[h] = [inst[h] EXCEPT !.child = "dead"]
        BY <1>0, <2>2, <3>2 DEF ChildDies
      <4> QED  BY <1>0, <4>1 DEF Instance, Ended
    <3> QED  BY <1>3, <2>2, <3>1, <3>2
  <2> QED  BY <2>1, <2>2
<1>4. CASE LogRead(g)
  <2>1. CASE h # g
    BY <1>0, <1>4, <2>1 DEF LogRead, Ended
  <2>2. CASE h = g
    <3>1. inst'[h] = [inst[h] EXCEPT !.pipe = Tail(@)] /\ inst[h].pipe # <<>>
      BY <1>0, <1>4, <2>2 DEF LogRead
    <3>2. inst'[h].pipe = Tail(inst[h].pipe) /\ inst'[h].child = inst[h].child
          /\ inst'[h].model = inst[h].model /\ inst'[h].mgr = inst[h].mgr
      BY <1>0, <3>1 DEF Instance
    <3>3. \A i \in 1 .. Len(inst'[h].pipe) : inst'[h].pipe[i] \in {"LOADED", "SLEEPING"}
      <4>1. ASSUME NEW s \in Seq(Statuses), s # <<>>,
                   \A i \in 1 .. Len(s) : s[i] \in {"LOADED", "SLEEPING"}
            PROVE  \A i \in 1 .. Len(Tail(s)) : Tail(s)[i] \in {"LOADED", "SLEEPING"}
        <5>1. Len(s) \in Nat /\ Len(Tail(s)) = Len(s) - 1
          BY <4>1
        <5>2. \A i \in 1 .. Len(s) - 1 : Tail(s)[i] = s[i + 1]
          BY <4>1
        <5> QED  BY <4>1, <5>1, <5>2
      <4> HIDE DEF Statuses
      <4> QED  BY <1>0, <3>1, <3>2, <4>1
    <3> QED  BY <3>2, <3>3 DEF Ended
  <2> QED  BY <2>1, <2>2
<1>5. CASE MgrEof(g)
  <2>1. [inst EXCEPT ![g].mgr = "stop"] \in [Gens -> Instance]
    BY <1>0 DEF Instance
  <2>2. /\ inst'[h].model = [inst EXCEPT ![g].mgr = "stop"][h].model
        /\ inst'[h].child = [inst EXCEPT ![g].mgr = "stop"][h].child
        /\ inst'[h].mgr = [inst EXCEPT ![g].mgr = "stop"][h].mgr
        /\ inst'[h].pipe = [inst EXCEPT ![g].mgr = "stop"][h].pipe
    BY <1>5, <2>1, PokeKeeps DEF MgrEof
  <2> QED  BY <1>0, <1>5, <2>2 DEF MgrEof, Ended, Instance
<1>6. CASE MgrJoins(g) \/ MgrUnloaded(g)
  <2>1. CASE h # g
    BY <1>0, <1>6, <2>1 DEF MgrJoins, MgrUnloaded, Ended
  <2>2. CASE h = g /\ MgrJoins(g)
    <3>1. inst'[h] = [inst[h] EXCEPT !.mgr = "status", !.child = "reaped"] /\ inst[h].mgr = "stop"
      BY <1>0, <2>2 DEF MgrJoins
    <3> QED  BY <1>0, <3>1 DEF Instance, Ended
  <2>3. CASE h = g /\ MgrUnloaded(g)
    <3>1. inst'[h] = [inst[h] EXCEPT !.mgr = "done"] /\ inst[h].mgr = "status"
      BY <1>0, <2>3 DEF MgrUnloaded
    <3> QED  BY <1>0, <3>1 DEF Instance, Ended
  <2> QED  BY <1>6, <2>1, <2>2, <2>3
<1>7. CASE \/ StopperLooks(g) \/ StopperTells(g) \/ StopperEnds(g) \/ StopperKills(g)
  <2>1. ASSUME NEW i \in Instance
        PROVE  /\ Reap(i) \in Instance /\ Reap(i).model = i.model /\ Reap(i).mgr = i.mgr
               /\ Reap(i).pipe = i.pipe /\ (i.child \in {"dead", "reaped"} => Reap(i).child \in {"dead", "reaped"})
               /\ Kill(i) \in Instance /\ Kill(i).model = i.model /\ Kill(i).mgr = i.mgr
               /\ Kill(i).pipe = i.pipe /\ (i.child \in {"dead", "reaped"} => Kill(i).child = i.child)
    BY KillTypes DEF Reap, Kill, Alive, Instance
  <2>2. /\ inst'[h].model = inst[h].model /\ inst'[h].mgr = inst[h].mgr /\ inst'[h].pipe = inst[h].pipe
        /\ Ended(h) => Ended(h)'
    <3>1. CASE h # g
      BY <1>0, <1>7, <3>1 DEF StopperLooks, StopperTells, StopperEnds, StopperKills, Ended
    <3>2. CASE h = g
      <4>1. \E j \in {inst[h], Reap(inst[h]), Kill(inst[h])} :
              \/ inst'[h] = j
              \/ inst'[h] = [j EXCEPT !.poked = FALSE]
              \/ inst'[h] = [j EXCEPT !.stopper = "grace", !.told = TRUE]
              \/ \E s \in {"awake", "done"} : inst'[h] = [j EXCEPT !.stopper = s]
        BY <1>0, <1>7, <3>2 DEF StopperLooks, StopperTells, StopperEnds, StopperKills
      <4>2. ASSUME NEW j \in {inst[h], Reap(inst[h]), Kill(inst[h])},
              \/ inst'[h] = j
              \/ inst'[h] = [j EXCEPT !.poked = FALSE]
              \/ inst'[h] = [j EXCEPT !.stopper = "grace", !.told = TRUE]
              \/ \E s \in {"awake", "done"} : inst'[h] = [j EXCEPT !.stopper = s]
            PROVE  /\ inst'[h].model = j.model /\ inst'[h].mgr = j.mgr /\ inst'[h].pipe = j.pipe
                   /\ inst'[h].child = j.child
        <5>1. j \in Instance
          BY <1>0, <2>1
        <5> QED  BY <4>2, <5>1 DEF Instance
      <4>3. \A j \in {inst[h], Reap(inst[h]), Kill(inst[h])} :
              /\ j.model = inst[h].model /\ j.mgr = inst[h].mgr /\ j.pipe = inst[h].pipe
              /\ inst[h].child \in {"dead", "reaped"} => j.child \in {"dead", "reaped"}
        BY <1>0, <2>1
      <4> QED  BY <4>1, <4>2, <4>3 DEF Ended
    <3> QED  BY <3>1, <3>2
  <2> QED  BY <1>0, <2>2
<1> QED  BY <1>2, <1>3, <1>4, <1>5, <1>6, <1>7 DEF InstanceStep

(* Whatever leaves the children's models alone, starts no process and ends *)
(* no entry that a managing thread needs, keeps the invariant.             *)
LEMMA QuietStep ==
  ASSUME RouterParts, RouterTypes',
         spawned' = spawned,
         \A h \in Gens :
           /\ inst'[h].model = inst[h].model
           /\ Ended(h) => Ended(h)'
           /\ inst[h].mgr = "done" => inst'[h].mgr = "done"
           /\ inst'[h].mgr \notin {"read", "stop"} => inst[h].mgr \notin {"read", "stop"} \/ Ended(h)'
           /\ \A i \in 1 .. Len(inst'[h].pipe) : inst'[h].pipe[i] \in {"LOADED", "SLEEPING"}
           /\ inst'[h].mgr # "done" =>
                LET m == inst[h].model
                IN /\ m \in known => m \in known'
                   /\ mapping'[m].gen = mapping[m].gen
                   /\ mapping[m].th => mapping'[m].th
                   /\ mapping[m].status # "UNLOADED" => mapping'[m].status # "UNLOADED"
  PROVE  RouterParts' /\ Processes' \subseteq Processes
<1>1. NotSpawned'
  BY DEF RouterParts, NotSpawned
<1>2. PipesReport'
  BY DEF PipesReport
<1>3. Owned'
  BY DEF RouterParts, Owned
<1>4. Processes' \subseteq Processes
  BY DEF Processes
<1>5. ManagedToTheEnd'
  BY <1>4 DEF RouterParts, ManagedToTheEnd, Processes
<1> QED  BY <1>1, <1>2, <1>3, <1>4, <1>5 DEF RouterParts

LEMMA InstanceKeeps ==
  ASSUME RouterParts, NEW g \in Gens, InstanceStep(g)
  PROVE  RouterParts' /\ Processes' \subseteq Processes
<1>1. RouterTypes' /\ spawned' = spawned /\ known' = known
  <2>1. RouterTypes'
    BY InstanceTypes DEF RouterParts
  <2> QED  BY <2>1 DEF InstanceStep, ChildReady, ChildSleep, ChildWake, Speaks, ChildStops, ChildFails,
         ChildDies, LogRead, MgrEof, MgrJoins, MgrUnloaded, StopperLooks, StopperTells, StopperEnds,
         StopperKills
<1>2. ASSUME NEW h \in Gens, inst'[h].mgr # "done"
      PROVE  LET m == inst[h].model
             IN /\ mapping'[m].gen = mapping[m].gen /\ mapping'[m].th = mapping[m].th
                /\ mapping[m].status # "UNLOADED" => mapping'[m].status # "UNLOADED"
  <2> DEFINE m == inst[h].model
  <2>1. inst[h].mgr # "done"
    BY <1>2, InstanceChange
  <2>2. m \in known /\ m \in Models /\ mapping[m].gen = h
    BY <2>1 DEF RouterParts, Owned
  <2>3. mapping \in [Models -> Entry] /\ mapping[m] \in Entry /\ inst \in [Gens -> Instance]
        /\ inst[g] \in Instance
    BY <2>2 DEF RouterParts, RouterTypes, TypeOK
  <2>4. CASE LogRead(g)
    <3>1. Head(inst[g].pipe) # "UNLOADED"
      <4>1. inst[g].pipe \in Seq(Statuses) /\ inst[g].pipe # <<>>
        BY <2>3, <2>4 DEF LogRead, Instance
      <4>2. \A i \in 1 .. Len(inst[g].pipe) : inst[g].pipe[i] \in {"LOADED", "SLEEPING"}
        BY DEF RouterParts, PipesReport
      <4>3. 1 \in 1 .. Len(inst[g].pipe) /\ Head(inst[g].pipe) = inst[g].pipe[1]
        BY <4>1
      <4> QED  BY <4>2, <4>3
    <3>2. CASE mapping' = mapping
      BY <3>2
    <3>3. CASE mapping' = [mapping EXCEPT ![inst[g].model].status = Head(inst[g].pipe),
                                          ![inst[g].model].failed = FALSE]
      <4>1. CASE inst[g].model # m
        BY <2>2, <2>3, <3>3, <4>1
      <4>2. CASE inst[g].model = m
        <5>1. mapping'[m] = [mapping[m] EXCEPT !.status = Head(inst[g].pipe), !.failed = FALSE]
          BY <2>2, <2>3, <3>3, <4>2
        <5> QED  BY <2>3, <3>1, <5>1 DEF Entry
      <4> QED  BY <4>1, <4>2
    <3> QED  BY <2>4, <3>2, <3>3 DEF LogRead
  <2>5. CASE MgrUnloaded(g)
    <3>1. inst[g].mgr # "done" /\ inst'[g].mgr = "done"
      BY <2>3, <2>5 DEF MgrUnloaded, Instance
    <3>2. mapping[inst[g].model].gen = g /\ g # h
      BY <1>2, <3>1 DEF RouterParts, Owned
    <3>3. m # inst[g].model
      BY <2>2, <3>2
    <3>4. mapping'[m] = mapping[m]
      BY <2>2, <2>3, <2>5, <3>3 DEF MgrUnloaded
    <3> QED  BY <3>4
  <2>6. CASE mapping' = mapping
    BY <2>6
  <2> QED  BY <2>4, <2>5, <2>6
           DEF InstanceStep, ChildReady, ChildSleep, ChildWake, Speaks, ChildStops, ChildFails,
               ChildDies, MgrEof, MgrJoins, StopperLooks, StopperTells, StopperEnds, StopperKills
<1> QED  BY <1>1, <1>2, InstanceChange, QuietStep

(* unload() kills or tells, but takes nothing away.                        *)
LEMMA UnloadKeeps ==
  ASSUME RouterParts, RouterTypes', NEW m \in Models, Unload(m), UNCHANGED <<known, mapping, spawned>>
  PROVE  RouterParts' /\ Processes' \subseteq Processes
<1>0. inst \in [Gens -> Instance]
  BY DEF RouterParts, RouterTypes, TypeOK
<1>1. ASSUME NEW h \in Gens
      PROVE  /\ inst'[h].model = inst[h].model /\ inst'[h].mgr = inst[h].mgr
             /\ inst'[h].pipe = inst[h].pipe /\ (Ended(h) => Ended(h)')
  <2>1. CASE inst' = inst
    BY <2>1 DEF Ended
  <2>2. CASE inst' = Poke(inst)
    BY <1>0, <2>2, PokeKeeps DEF Ended
  <2>3. CASE inst' = Poke([inst EXCEPT ![mapping[m].gen] = Kill(@)])
    <3> DEFINE g == mapping[m].gen
               is == [inst EXCEPT ![g] = Kill(@)]
    <3>1. is \in [Gens -> Instance] /\ is[h] = IF h = g THEN Kill(inst[h]) ELSE inst[h]
      <4>1. g \in Gens => inst[g] \in Instance /\ Kill(inst[g]) \in Instance
        BY <1>0, KillTypes
      <4> HIDE DEF g
      <4> QED  BY <1>0, <4>1
    <3> HIDE DEF g
    <3>2. /\ inst'[h].model = is[h].model /\ inst'[h].child = is[h].child
          /\ inst'[h].mgr = is[h].mgr /\ inst'[h].pipe = is[h].pipe
      <4>1. inst' = Poke(is)
        BY <2>3 DEF g
      <4> HIDE DEF is
      <4> QED  BY <3>1, <4>1, PokeKeeps
    <3>3. LET k == Kill(inst[h])
          IN /\ k.model = inst[h].model /\ k.mgr = inst[h].mgr /\ k.pipe = inst[h].pipe
             /\ inst[h].child \in {"dead", "reaped"} => k.child = inst[h].child
      <4>1. inst[h] \in Instance
        BY <1>0
      <4> QED  BY <4>1 DEF Kill, Alive, Instance
    <3> QED  BY <3>1, <3>2, <3>3 DEF Ended
  <2> QED  BY <2>1, <2>2, <2>3 DEF Unload
<1>2. \A h \in Gens : \A i \in 1 .. Len(inst'[h].pipe) : inst'[h].pipe[i] \in {"LOADED", "SLEEPING"}
  BY <1>1 DEF RouterParts, PipesReport
<1> QED  BY <1>1, <1>2, QuietStep

LEMMA RequestKeeps ==
  ASSUME RouterParts, NEW r \in Requesters, RequestStep(r), ~ Spawn(r)
  PROVE  RouterParts' /\ Processes' \subseteq Processes
<1>0. RouterTypes /\ mapping \in [Models -> Entry]
  BY DEF RouterParts, RouterTypes, TypeOK
<1>1. ASSUME RouterTypes', UNCHANGED <<mapping, inst, spawned>>, known \subseteq known'
      PROVE  RouterParts' /\ Processes' \subseteq Processes
  <2>1. \A h \in Gens : Ended(h)' <=> Ended(h)
    BY <1>1 DEF Ended
  <2>2. \A h \in Gens : \A i \in 1 .. Len(inst'[h].pipe) : inst'[h].pipe[i] \in {"LOADED", "SLEEPING"}
    BY <1>1 DEF RouterParts, PipesReport
  <2> QED  BY <1>1, <2>1, <2>2, QuietStep
<1>2. CASE \/ Look(r) \/ HasModel(r) \/ PickLru(r) \/ AlreadyLoaded(r) \/ AwaitLoaded(r)
           \/ Check(r) \/ Proxy(r) \/ Reload(r) \/ Autoload(r)
  BY <1>0, <1>1, <1>2, LookTypes
<1>3. CASE Evict(r) \/ UnloadModel(r) \/ ReloadUnloads(r)
  BY <1>0, <1>3, StopTypes, UnloadKeeps
<1>4. CASE Evicted(r) \/ LoadThrows(r) \/ Touch(r)
  BY <1>0, <1>1, <1>4, TouchTypes
<1>5. CASE ReloadStopped(r) \/ ReloadReconciles(r)
  <2>1. RouterTypes' /\ UNCHANGED <<inst, spawned>>
    BY <1>0, <1>5, ReloadTypes
  <2>2. ASSUME NEW h \in Gens, inst[h].mgr # "done"
        PROVE  LET m == inst[h].model
               IN /\ m \in known'
                  /\ mapping'[m].gen = mapping[m].gen
                  /\ mapping[m].th => mapping'[m].th
                  /\ mapping[m].status # "UNLOADED" => mapping'[m].status # "UNLOADED"
    <3> DEFINE m == inst[h].model
    <3>1. m \in known /\ m \in Models /\ mapping[m].th /\ Running(m) /\ mapping[m] \in Entry
      BY <1>0, <2>2 DEF RouterParts, Owned, Running, Status
    <3> HIDE DEF m
    <3>2. CASE ReloadStopped(r)
      <4>1. m \notin Joinable(r)
        BY <3>1, <3>2 DEF ReloadStopped, Joinable
      <4>2. mapping'[m] = [mapping[m] EXCEPT !.th = @ /\ m \notin Joinable(r)]
        BY <3>1, <3>2 DEF ReloadStopped
      <4> QED  BY <3>1, <3>2, <4>1, <4>2 DEF ReloadStopped, Entry, m
    <3>3. CASE ReloadReconciles(r)
      <4>1. CASE \E k \in known \ Sources[r] : mapping[k].th
        BY <3>1, <3>3, <4>1 DEF ReloadReconciles, m
      <4>2. CASE ~ \E k \in known \ Sources[r] : mapping[k].th
        <5>1. m \in Sources[r] /\ known' = Sources[r] /\ mapping' = [k \in Models |-> Reconciled(r, k)]
          BY <3>1, <3>3, <4>2 DEF ReloadReconciles
        <5>2. Reconciled(r, m) = mapping[m]
          BY <3>1, <5>1 DEF Reconciled
        <5>3. mapping'[m] = mapping[m]
          BY <3>1, <5>1, <5>2
        <5> QED  BY <5>1, <5>3 DEF m
      <4> QED  BY <4>1, <4>2
    <3> QED  BY <1>5, <3>2, <3>3
  <2>3. \A h \in Gens : Ended(h)' <=> Ended(h)
    BY <2>1 DEF Ended
  <2>4. \A h \in Gens : \A i \in 1 .. Len(inst'[h].pipe) : inst'[h].pipe[i] \in {"LOADED", "SLEEPING"}
    BY <2>1 DEF RouterParts, PipesReport
  <2> QED  BY <2>1, <2>2, <2>3, <2>4, QuietStep
<1> QED  BY <1>2, <1>3, <1>4, <1>5 DEF RequestStep

(* The processes are no more than the running entries: each has its own.   *)
LEMMA ProcessesAreEntries ==
  ASSUME RouterParts
  PROVE  /\ IsFiniteSet(Processes) /\ IsFiniteSet(RunningModels)
         /\ Cardinality(Processes) \in Nat /\ Cardinality(RunningModels) \in Nat
         /\ Cardinality(Processes) <= Cardinality(RunningModels)
<1> DEFINE f == [g \in Processes |-> inst[g].model]
<1>1. IsFiniteSet(RunningModels)
  <2>1. RunningModels \subseteq Models
    BY DEF RunningModels
  <2> QED  BY <2>1, FS_Subset
<1>2. ASSUME NEW g \in Processes
      PROVE  g \in Gens /\ inst[g].model \in RunningModels /\ mapping[inst[g].model].gen = g
  <2>1. g \in Gens /\ inst[g].mgr # "done"
    BY DEF Processes, RouterParts, ManagedToTheEnd
  <2> QED  BY <2>1 DEF RouterParts, Owned, RunningModels, Running, Status
<1>3. f \in Injection(Processes, RunningModels)
  <2>1. f \in [Processes -> RunningModels]
    BY <1>2
  <2>2. \A g, h \in Processes : f[g] = f[h] => g = h
    BY <1>2
  <2> HIDE DEF f
  <2> QED  BY <2>1, <2>2 DEF Injection, IsInjective
<1> HIDE DEF f
<1>4. IsFiniteSet(Processes) /\ Cardinality(Processes) <= Cardinality(RunningModels)
  BY <1>1, <1>3, FS_Injection
<1> QED  BY <1>1, <1>4, FS_CardinalityType

LEMMA SpawnKeeps ==
  ASSUME RouterParts, WithinLimit, NEW r \in Requesters, Spawn(r)
  PROVE  RouterParts' /\ WithinLimit'
<1> DEFINE m == Name(r)
           g == spawned + 1
<1>1. /\ m \in Models /\ g \in Gens /\ mapping \in [Models -> Entry] /\ inst \in [Gens -> Instance]
      /\ spawned \in 0 .. MaxSpawns /\ spawned' = g /\ known' = known \cup {m}
      /\ Status(m) = "UNLOADED" /\ ~ Full
  BY RequestParts DEF RouterParts, RouterTypes, TypeOK, Spawn, Name
<1>2. RouterTypes'
  BY SpawnTypes DEF RouterParts
<1>3. /\ inst'[g] = Child(m)
      /\ \A h \in Gens : h # g => inst'[h] = inst[h]
  BY <1>1 DEF Spawn
<1>4. /\ mapping'[m].status = "LOADING" /\ mapping'[m].gen = g /\ mapping'[m].th
      /\ \A k \in Models : k # m => mapping'[k] = mapping[k]
  <2>1. mapping[m] \in Entry
    BY <1>1
  <2>2. mapping' = [mapping EXCEPT ![m] = [mapping[m] EXCEPT !.status = "LOADING", !.gen = g, !.th = TRUE]]
    BY <1>1 DEF Spawn
  <2> QED  BY <1>1, <2>1, <2>2 DEF Entry
<1>5. Child(m).model = m /\ Child(m).mgr = "read" /\ Child(m).pipe = <<>>
  BY DEF Child, NoInstance
<1> HIDE DEF m, g
<1>6. NotSpawned'
  <2>1. ASSUME NEW h \in Gens, h > spawned'  PROVE inst'[h].mgr = "done" /\ Ended(h)'
    <3>1. h # g /\ h > spawned
      BY <1>1, <2>1 DEF g
    <3> QED  BY <1>3, <3>1 DEF RouterParts, NotSpawned, Ended
  <2> QED  BY <2>1 DEF NotSpawned
<1>7. PipesReport'
  <2>1. ASSUME NEW h \in Gens, NEW i \in 1 .. Len(inst'[h].pipe)
        PROVE  inst'[h].pipe[i] \in {"LOADED", "SLEEPING"}
    <3>1. CASE h = g
      BY <1>3, <1>5, <3>1
    <3>2. CASE h # g
      BY <1>3, <3>2 DEF RouterParts, PipesReport
    <3> QED  BY <3>1, <3>2
  <2> QED  BY <2>1 DEF PipesReport
<1>8. Owned'
  <2>1. ASSUME NEW h \in Gens, inst'[h].mgr # "done"
        PROVE  /\ inst'[h].model \in known' /\ inst'[h].model \in Models
               /\ mapping'[inst'[h].model].gen = h /\ mapping'[inst'[h].model].th
               /\ mapping'[inst'[h].model].status # "UNLOADED"
    <3>1. CASE h = g
      BY <1>1, <1>3, <1>4, <1>5, <3>1
    <3>2. CASE h # g
      <4> DEFINE k == inst[h].model
      <4>1. k \in known /\ k \in Models /\ mapping[k].gen = h /\ mapping[k].th
            /\ mapping[k].status # "UNLOADED" /\ inst'[h].model = k
        BY <1>3, <2>1, <3>2 DEF RouterParts, Owned
      <4>2. k # m
        BY <1>1, <4>1 DEF Status
      <4> QED  BY <1>1, <1>4, <4>1, <4>2
    <3> QED  BY <3>1, <3>2
  <2> QED  BY <2>1 DEF Owned
<1>9. Processes' \subseteq Processes \cup {g}
  BY <1>3 DEF Processes, Ended
<1>10. ManagedToTheEnd'
  <2>1. ASSUME NEW h \in Processes'  PROVE inst'[h].mgr \in {"read", "stop"}
    <3>1. CASE h = g
      BY <1>1, <1>3, <1>5, <3>1
    <3>2. CASE h # g
      BY <1>3, <1>9, <3>2 DEF RouterParts, ManagedToTheEnd, Processes
    <3> QED  BY <3>1, <3>2
  <2> QED  BY <2>1 DEF ManagedToTheEnd
<1>11. WithinLimit'
  <2> SUFFICES ASSUME MaxModels > 0  PROVE Cardinality(Processes') <= MaxModels
    BY DEF WithinLimit
  <2>1. /\ IsFiniteSet(Processes) /\ Cardinality(Processes) \in Nat
        /\ Cardinality(RunningModels) \in Nat /\ Cardinality(Processes) <= Cardinality(RunningModels)
    BY ProcessesAreEntries
  <2>2. Cardinality(RunningModels) < MaxModels
    BY <1>1, <2>1 DEF Full
  <2>3. /\ IsFiniteSet(Processes \cup {g})
        /\ Cardinality(Processes \cup {g}) <= Cardinality(Processes) + 1
        /\ Cardinality(Processes \cup {g}) \in Nat
    <3>1. IsFiniteSet(Processes \cup {g})
          /\ Cardinality(Processes \cup {g}) = IF g \in Processes THEN Cardinality(Processes)
                                               ELSE Cardinality(Processes) + 1
      BY <2>1, FS_AddElement
    <3>2. Cardinality(Processes \cup {g}) \in Nat
      BY <3>1, FS_CardinalityType
    <3> QED  BY <2>1, <3>1, <3>2
  <2>4. Cardinality(Processes') <= Cardinality(Processes \cup {g}) /\ Cardinality(Processes') \in Nat
    BY <1>9, <2>3, FS_Subset, FS_CardinalityType
  <2> QED  BY <2>1, <2>2, <2>3, <2>4
<1> QED  BY <1>2, <1>6, <1>7, <1>8, <1>10, <1>11 DEF RouterParts

LEMMA LimitKept ==
  ASSUME RouterParts, WithinLimit, Processes' \subseteq Processes
  PROVE  WithinLimit'
<1>1. IsFiniteSet(Processes) /\ Cardinality(Processes) \in Nat
  BY ProcessesAreEntries
<1>2. Cardinality(Processes') <= Cardinality(Processes) /\ Cardinality(Processes') \in Nat
  BY <1>1, FS_Subset, FS_CardinalityType
<1> QED  BY <1>1, <1>2 DEF WithinLimit

LEMMA InitParts == Init => RouterParts /\ WithinLimit
<1> SUFFICES ASSUME Init  PROVE RouterParts /\ WithinLimit
  OBVIOUS
<1>1. \A g \in Gens : inst[g].mgr = "done" /\ inst[g].child = "reaped" /\ inst[g].pipe = <<>>
  BY DEF Init, NoInstance
<1>2. Processes = {}
  BY <1>1 DEF Processes, Ended
<1>3. WithinLimit
  BY <1>2, FS_EmptySet DEF WithinLimit
<1>4. NotSpawned /\ PipesReport /\ Owned /\ ManagedToTheEnd
  BY <1>1, <1>2 DEF NotSpawned, PipesReport, Owned, ManagedToTheEnd, Ended
<1> QED  BY <1>3, <1>4, InitTypes DEF RouterParts

LEMMA StepParts == RouterParts /\ WithinLimit /\ [Next]_vars => RouterParts' /\ WithinLimit'
<1> SUFFICES ASSUME RouterParts, WithinLimit, [Next]_vars  PROVE RouterParts' /\ WithinLimit'
  OBVIOUS
<1>0. RouterTypes'
  BY StepTypes DEF RouterParts
<1>1. ASSUME NEW g \in Gens, InstanceStep(g)  PROVE RouterParts' /\ WithinLimit'
  BY <1>1, InstanceKeeps, LimitKept
<1>2. ASSUME NEW r \in Requesters, RequestStep(r)  PROVE RouterParts' /\ WithinLimit'
  BY <1>2, RequestKeeps, SpawnKeeps, LimitKept
<1>3. CASE UnloadAll \/ Leave \/ UNCHANGED vars
  <2>1. /\ UNCHANGED <<known, mapping, spawned>> /\ (inst' = inst \/ inst' = Poke(inst))
        /\ inst \in [Gens -> Instance]
    BY <1>3 DEF UnloadAll, Leave, vars, RouterParts, RouterTypes, TypeOK
  <2>2. \A h \in Gens : /\ inst'[h].model = inst[h].model /\ inst'[h].child = inst[h].child
                        /\ inst'[h].mgr = inst[h].mgr /\ inst'[h].pipe = inst[h].pipe
    BY <2>1, PokeKeeps
  <2>3. \A h \in Gens : Ended(h)' <=> Ended(h)
    BY <2>2 DEF Ended
  <2>4. \A h \in Gens : \A i \in 1 .. Len(inst'[h].pipe) : inst'[h].pipe[i] \in {"LOADED", "SLEEPING"}
    BY <2>2 DEF RouterParts, PipesReport
  <2>5. RouterParts' /\ Processes' \subseteq Processes
    BY <1>0, <2>1, <2>2, <2>3, <2>4, QuietStep
  <2> QED  BY <2>5, LimitKept
<1> QED  BY <1>1, <1>2, <1>3 DEF Next

LEMMA RouterInvHolds == Spec => [](RouterParts /\ WithinLimit)
BY InitParts, StepParts, PTL DEF Spec

(* However many requests load, evict, unload and reload at once, there are *)
(* never more child processes than models_max.                             *)
THEOREM LimitIsKept == Spec => []WithinLimit
BY RouterInvHolds, PTL

(* The threads of a child report to the entry of their own child.          *)
THEOREM ChildrenOwnTheirEntry == Spec => []ReportsToOwn
<1>1. RouterParts => ReportsToOwn
  BY DEF RouterParts, Owned, ReportsToOwn, Running, Status
<1> QED  BY <1>1, RouterInvHolds, PTL

(* A model never has two processes.                                        *)
THEOREM ModelsHaveOneProcess == Spec => []OneProcess
<1>1. RouterParts => OneProcess
  <2> SUFFICES ASSUME RouterParts, NEW g \in Processes, NEW h \in Processes,
                      inst[g].model = inst[h].model
               PROVE  g = h
    BY DEF OneProcess
  <2>1. /\ g \in Gens /\ inst[g].mgr # "done" /\ h \in Gens /\ inst[h].mgr # "done"
    BY DEF RouterParts, ManagedToTheEnd, Processes
  <2> QED  BY <2>1 DEF RouterParts, Owned
<1> QED  BY <1>1, RouterInvHolds, PTL

---------------------------------------------------------------------------
(* The threads that are joined.                                            *)

(* A name that mapping does not have would be default constructed.         *)
UnknownIsPhantom == \A m \in Models : m \notin known => mapping[m] = Phantom

(* A joinable thread is the one of a child of the entry's own model, so    *)
(* that it has ended when the entry counts as unloaded.                    *)
ThreadsOfModel ==
  \A m \in Models : mapping[m].th =>
    mapping[m].gen \in 1 .. spawned /\ inst[mapping[m].gen].model = m

(* A managing thread waits for its process before it reports its end.      *)
WaitedFor == \A g \in Gens : inst[g].mgr \in {"status", "done"} => inst[g].child = "reaped"

(* What some reload finds in no source: for reloads of the same sources,   *)
(* what each of them does.  Once one reload has erased these     *)
(* entries they stay without a subprocess, whatever another reload does.   *)
Dropped == {m \in Models : \E r \in Requesters : m \notin Sources[r]}
Erased  == \A m \in Dropped : mapping[m].gen = NullProc /\ ~ mapping[m].th /\ ~ Running(m)

(* A reload knows all the models that it has to stop: those that run, for  *)
(* no model starts as long as it is under way, unless another reload has   *)
(* ended before it and erased them all.                                    *)
ReloadsSeeAll ==
  SameSources /\ Serving => \A r \in Requesters :
    /\ req[r].pc \in {"stopping", "join"} => reloading \/ Erased
    /\ req[r].pc = "stopping" => \A m \in Dropped : Running(m) => m \in req[r].targets
    /\ req[r].pc = "join" => \A m \in Dropped : ~ mapping[m].th /\ ~ Running(m)

AllEnded == main = "gone" => \A g \in Gens : inst[g].mgr = "done"

JoinParts ==
  UnknownIsPhantom /\ ThreadsOfModel /\ WaitedFor /\ ReloadsSeeAll /\ AllEnded /\ JoinsAreSafe

(* What the threads of a child report changes neither which child an entry *)
(* is for, nor makes an unloaded model run.                                *)
LEMMA EntriesReported ==
  ASSUME RouterParts, NEW g \in Gens, InstanceStep(g), NEW m \in Models
  PROVE  /\ mapping'[m].th = mapping[m].th /\ mapping'[m].gen = mapping[m].gen
         /\ m \notin known => mapping'[m] = mapping[m]
         /\ Running(m)' => Running(m)
         /\ UNCHANGED <<known, reloading, spawned, req, main>>
<1>1. UNCHANGED <<known, reloading, spawned, req, main>>
  BY DEF InstanceStep, ChildReady, ChildSleep, ChildWake, Speaks, ChildStops, ChildFails,
         ChildDies, LogRead, MgrEof, MgrJoins, MgrUnloaded, StopperLooks, StopperTells, StopperEnds,
         StopperKills
<1>2. mapping \in [Models -> Entry] /\ mapping[m] \in Entry
  BY DEF RouterParts, RouterTypes, TypeOK
<1>3. CASE mapping' = mapping
  BY <1>1, <1>3 DEF Running, Status
<1>4. CASE LogRead(g) \/ MgrUnloaded(g)
  <2> DEFINE k == inst[g].model
  <2>1. k \in known /\ k \in Models /\ mapping[k].status # "UNLOADED"
    <3>1. inst[g].mgr # "done"
      BY <1>4 DEF LogRead, MgrUnloaded
    <3> QED  BY <3>1 DEF RouterParts, Owned
  <2>2. \E s, f : mapping' = [mapping EXCEPT ![k].status = s, ![k].failed = f]
    BY <1>4, <2>1 DEF LogRead, MgrUnloaded
  <2> HIDE DEF k
  <2>3. CASE m # k
    <3>1. mapping'[m] = mapping[m]
      BY <1>2, <2>1, <2>2, <2>3
    <3> QED  BY <1>1, <3>1 DEF Running, Status
  <2>4. CASE m = k
    <3>1. PICK s, f : mapping' = [mapping EXCEPT ![k].status = s, ![k].failed = f]
      BY <2>2
    <3>2. mapping'[m] = [mapping[m] EXCEPT !.status = s, !.failed = f]
      BY <1>2, <2>4, <3>1
    <3>3. mapping'[m].th = mapping[m].th /\ mapping'[m].gen = mapping[m].gen
      BY <1>2, <3>2 DEF Entry
    <3> QED  BY <1>1, <2>1, <2>4, <3>3 DEF Running, Status
  <2> QED  BY <2>3, <2>4
<1> QED  BY <1>3, <1>4
         DEF InstanceStep, ChildReady, ChildSleep, ChildWake, Speaks, ChildStops, ChildFails,
             ChildDies, MgrEof, MgrJoins, StopperLooks, StopperTells, StopperEnds, StopperKills

(* Nothing happens to a process that was waited for.                       *)
LEMMA ReapedStays ==
  ASSUME NEW i \in Instance
  PROVE  /\ Kill(i).mgr = i.mgr /\ Reap(i).mgr = i.mgr
         /\ i.child = "reaped" => Kill(i).child = "reaped" /\ Reap(i).child = "reaped"
BY DEF Kill, Reap, Alive, Instance

LEMMA InstanceWaits ==
  ASSUME RouterParts, WaitedFor, NEW g \in Gens, InstanceStep(g)
  PROVE  WaitedFor'
<1>0. inst \in [Gens -> Instance] /\ inst[g] \in Instance
  BY DEF RouterParts, RouterTypes, TypeOK
<1> SUFFICES ASSUME NEW h \in Gens
             PROVE  inst'[h].mgr \in {"status", "done"} => inst'[h].child = "reaped"
  BY DEF WaitedFor
<1>1. inst[h] \in Instance /\ (inst[h].mgr \in {"status", "done"} => inst[h].child = "reaped")
  BY <1>0 DEF WaitedFor
<1>2. CASE MgrEof(g)
  <2> DEFINE is == [inst EXCEPT ![g].mgr = "stop"]
  <2>1. is \in [Gens -> Instance] /\ is[h].mgr \in {"stop", inst[h].mgr} /\ is[h].child = inst[h].child
    BY <1>0, <1>1 DEF Instance
  <2>2. inst' = Poke(is)
    BY <1>2 DEF MgrEof
  <2> HIDE DEF is
  <2>3. inst'[h].mgr = is[h].mgr /\ inst'[h].child = is[h].child
    BY <2>1, <2>2, PokeKeeps
  <2> QED  BY <1>1, <2>1, <2>3
<1>3. CASE ~ MgrEof(g) /\ h # g
  <2>1. inst'[h] = inst[h]
    BY <1>0, <1>3
       DEF InstanceStep, ChildReady, ChildSleep, ChildWake, Speaks, ChildStops, ChildFails, Exits,
           ChildDies, LogRead, MgrJoins, MgrUnloaded, StopperLooks, StopperTells, StopperEnds, StopperKills
  <2> QED  BY <1>1, <2>1
<1>4. CASE h = g /\ (ChildReady(g) \/ ChildSleep(g) \/ ChildWake(g))
  <2>1. \E from, to, status : Speaks(g, from, to, status)
    BY <1>4 DEF ChildReady, ChildSleep, ChildWake
  <2>2. PICK from, to, status : Speaks(g, from, to, status)
    BY <2>1
  <2>3. inst'[h] = [inst[h] EXCEPT !.child = to, !.pipe = Append(@, status)]
    BY <1>0, <1>4, <2>2 DEF Speaks
  <2>4. inst[h].child # "reaped"
    BY <1>4 DEF ChildReady, ChildSleep, ChildWake, Speaks
  <2> QED  BY <1>1, <2>3, <2>4 DEF Instance
<1>5. CASE h = g /\ (ChildStops(g) \/ ChildFails(g) \/ ChildDies(g))
  <2>1. inst[h].child # "reaped"
    BY <1>5 DEF ChildStops, ChildFails, ChildDies, Alive
  <2>2. \/ \E f : inst'[h] = [inst[h] EXCEPT !.child = "closed", !.failed = f]
        \/ inst'[h] = [inst[h] EXCEPT !.child = "dead"]
    BY <1>0, <1>5 DEF ChildStops, ChildFails, ChildDies, Exits
  <2>3. inst'[h].mgr = inst[h].mgr
    BY <1>1, <2>2 DEF Instance
  <2> QED  BY <1>1, <2>1, <2>3
<1>6. CASE h = g /\ LogRead(g)
  <2>1. inst'[h] = [inst[h] EXCEPT !.pipe = Tail(@)]
    BY <1>0, <1>6 DEF LogRead
  <2> QED  BY <1>1, <2>1 DEF Instance
<1>7. CASE h = g /\ (MgrJoins(g) \/ MgrUnloaded(g))
  <2>1. \/ inst'[h] = [inst[h] EXCEPT !.mgr = "status", !.child = "reaped"]
        \/ inst[h].mgr = "status" /\ inst'[h] = [inst[h] EXCEPT !.mgr = "done"]
    BY <1>0, <1>7 DEF MgrJoins, MgrUnloaded
  <2>2. CASE inst'[h] = [inst[h] EXCEPT !.mgr = "status", !.child = "reaped"]
    BY <1>1, <2>2 DEF Instance
  <2>3. CASE inst[h].mgr = "status" /\ inst'[h] = [inst[h] EXCEPT !.mgr = "done"]
    BY <1>1, <2>3 DEF Instance
  <2> QED  BY <2>1, <2>2, <2>3
<1>8. CASE h = g /\ (StopperLooks(g) \/ StopperTells(g) \/ StopperEnds(g) \/ StopperKills(g))
  <2>1. \E j \in {inst[h], Reap(inst[h]), Kill(inst[h])} :
          \/ inst'[h] = j
          \/ inst'[h] = [j EXCEPT !.poked = FALSE]
          \/ inst'[h] = [j EXCEPT !.stopper = "grace", !.told = TRUE]
          \/ \E s \in {"awake", "done"} : inst'[h] = [j EXCEPT !.stopper = s]
    BY <1>0, <1>8 DEF StopperLooks, StopperTells, StopperEnds, StopperKills
  <2>2. PICK j \in {inst[h], Reap(inst[h]), Kill(inst[h])} :
          \/ inst'[h] = j
          \/ inst'[h] = [j EXCEPT !.poked = FALSE]
          \/ inst'[h] = [j EXCEPT !.stopper = "grace", !.told = TRUE]
          \/ \E s \in {"awake", "done"} : inst'[h] = [j EXCEPT !.stopper = s]
    BY <2>1
  <2>3. j \in Instance /\ j.mgr = inst[h].mgr /\ (inst[h].child = "reaped" => j.child = "reaped")
    BY <1>1, KillTypes, ReapedStays
  <2>4. inst'[h].mgr = j.mgr /\ inst'[h].child = j.child
    BY <2>2, <2>3 DEF Instance
  <2> QED  BY <1>1, <2>3, <2>4
<1> QED  BY <1>2, <1>3, <1>4, <1>5, <1>6, <1>7, <1>8 DEF InstanceStep

LEMMA UnloadWaits ==
  ASSUME RouterParts, WaitedFor, NEW m \in Models, Unload(m)
  PROVE  WaitedFor' /\ \A h \in Gens : inst'[h].model = inst[h].model
<1>0. inst \in [Gens -> Instance]
  BY DEF RouterParts, RouterTypes, TypeOK
<1> SUFFICES ASSUME NEW h \in Gens
             PROVE  /\ inst'[h].model = inst[h].model
                    /\ inst'[h].mgr \in {"status", "done"} => inst'[h].child = "reaped"
  BY DEF WaitedFor
<1>1. inst[h] \in Instance /\ (inst[h].mgr \in {"status", "done"} => inst[h].child = "reaped")
  BY <1>0 DEF WaitedFor
<1>2. CASE inst' = inst
  BY <1>1, <1>2
<1>3. CASE inst' = Poke(inst)
  BY <1>0, <1>1, <1>3, PokeKeeps
<1>4. CASE inst' = Poke([inst EXCEPT ![mapping[m].gen] = Kill(@)])
  <2> DEFINE g == mapping[m].gen
             is == [inst EXCEPT ![g] = Kill(@)]
  <2>1. is \in [Gens -> Instance] /\ is[h] \in {inst[h], Kill(inst[h])}
    <3>1. g \in Gens => Kill(inst[g]) \in Instance
      BY <1>0, KillTypes
    <3> HIDE DEF g
    <3> QED  BY <1>0, <3>1
  <2>2. inst' = Poke(is)
    BY <1>4
  <2> HIDE DEF is
  <2>3. inst'[h].model = is[h].model /\ inst'[h].mgr = is[h].mgr /\ inst'[h].child = is[h].child
    BY <2>1, <2>2, PokeKeeps
  <2>4. Kill(inst[h]).model = inst[h].model
    BY <1>1 DEF Kill, Instance
  <2>5. Kill(inst[h]).mgr = inst[h].mgr /\ (inst[h].child = "reaped" => Kill(inst[h]).child = "reaped")
    BY <1>1, ReapedStays
  <2> QED  BY <1>1, <2>1, <2>3, <2>4, <2>5
<1> QED  BY <1>2, <1>3, <1>4 DEF Unload

(* What starts no model and no reload leaves the reloads as they are.      *)
LEMMA ReloadsStillSee ==
  ASSUME ReloadsSeeAll, Serving' => Serving, reloading' = reloading,
         \A m \in Models : /\ mapping'[m].gen = mapping[m].gen
                           /\ mapping'[m].th => mapping[m].th
                           /\ Running(m)' => Running(m),
         \A r \in Requesters : req'[r].pc \in {"stopping", "join"} =>
           req'[r].pc = req[r].pc /\ req'[r].targets = req[r].targets
  PROVE  ReloadsSeeAll'
<1>1. Erased => Erased'
  BY DEF Erased, Dropped
<1> SUFFICES ASSUME SameSources, Serving', NEW r \in Requesters
             PROVE  /\ req'[r].pc \in {"stopping", "join"} => reloading' \/ Erased'
                    /\ req'[r].pc = "stopping" => \A m \in Dropped : Running(m)' => m \in req'[r].targets
                    /\ req'[r].pc = "join" => \A m \in Dropped : ~ mapping'[m].th /\ ~ Running(m)'
  BY DEF ReloadsSeeAll
<1>2. /\ req[r].pc \in {"stopping", "join"} => reloading \/ Erased
      /\ req[r].pc = "stopping" => \A m \in Dropped : Running(m) => m \in req[r].targets
      /\ req[r].pc = "join" => \A m \in Dropped : ~ mapping[m].th /\ ~ Running(m)
  BY DEF ReloadsSeeAll
<1> QED  BY <1>1, <1>2 DEF Dropped

(* A step that starts no process and takes no entry of a thread away.      *)
LEMMA QuietJoins ==
  ASSUME JoinParts, RouterTypes, ReloadsSeeAll', WaitedFor', spawned' = spawned,
         \A h \in Gens : inst'[h].model = inst[h].model,
         \A m \in Models : /\ m \notin known' => mapping'[m] = Phantom
                           /\ mapping'[m].th => mapping[m].th /\ mapping'[m].gen = mapping[m].gen,
         main' \notin {"asserted", "deadlocked", "gone"}
  PROVE  JoinParts'
<1>1. UnknownIsPhantom' /\ AllEnded' /\ JoinsAreSafe'
  BY DEF UnknownIsPhantom, AllEnded, JoinsAreSafe
<1>2. ThreadsOfModel'
  <2>1. spawned \in 0 .. MaxSpawns
    BY DEF RouterTypes, TypeOK
  <2>2. ASSUME NEW m \in Models, mapping'[m].th
        PROVE  mapping'[m].gen \in 1 .. spawned' /\ inst'[mapping'[m].gen].model = m
    <3>1. mapping'[m].gen = mapping[m].gen /\ mapping[m].gen \in 1 .. spawned
          /\ inst[mapping[m].gen].model = m
      BY <2>2 DEF JoinParts, ThreadsOfModel
    <3>2. mapping[m].gen \in Gens
      BY <2>1, <3>1
    <3> QED  BY <3>1, <3>2
  <2> QED  BY <2>2 DEF ThreadsOfModel
<1> QED  BY <1>1, <1>2 DEF JoinParts

LEMMA InstanceJoins ==
  ASSUME RouterParts, JoinParts, Up, NEW g \in Gens, InstanceStep(g)
  PROVE  JoinParts'
<1>1. UNCHANGED <<known, reloading, spawned, req, main>>
  BY DEF InstanceStep, ChildReady, ChildSleep, ChildWake, Speaks, ChildStops,
     ChildFails, ChildDies, LogRead, MgrEof, MgrJoins, MgrUnloaded, StopperLooks, StopperTells,
     StopperEnds, StopperKills
<1>2. ASSUME NEW m \in Models
      PROVE  /\ mapping'[m].th = mapping[m].th /\ mapping'[m].gen = mapping[m].gen
             /\ m \notin known' => mapping'[m] = Phantom
             /\ Running(m)' => Running(m)
  BY <1>1, EntriesReported DEF JoinParts, UnknownIsPhantom
<1>3. WaitedFor' /\ \A h \in Gens : inst'[h].model = inst[h].model
  BY InstanceWaits, InstanceChange DEF JoinParts
<1>4. ReloadsSeeAll'
  BY <1>1, <1>2, ReloadsStillSee DEF JoinParts, Serving
<1> QED  BY <1>1, <1>2, <1>3, <1>4, QuietJoins DEF RouterParts, Up

(* The steps of an HTTP thread.  They are taken while the router serves.   *)
LEMMA LookJoins ==
  ASSUME RouterParts, JoinParts, NEW r \in Requesters,
         \/ Look(r) \/ HasModel(r) \/ PickLru(r) \/ AlreadyLoaded(r)
         \/ AwaitLoaded(r) \/ Check(r) \/ Proxy(r) \/ Reload(r) \/ Autoload(r)
  PROVE  JoinParts'
<1>1. UNCHANGED <<known, mapping, stopping, inst, spawned, main>> /\ RouterTypes
      /\ req \in [Requesters -> Request]
  BY LookTypes DEF RouterParts, RouterTypes, TypeOK
<1>2. Serving
  BY DEF Look, HasModel, PickLru, AlreadyLoaded, AwaitLoaded, Check, Proxy, Reload, Autoload, At
<1>3. Erased' <=> Erased
  BY <1>1 DEF Erased, Running, Status
<1>4. ReloadsSeeAll'
  <2>1. CASE Reload(r)
    <3> DEFINE T == {m \in RunningModels : m \notin Sources[r] \/ m \in Changed[r]}
    <3>1. /\ reloading' = TRUE
          /\ req' = [req EXCEPT ![r].pc = "stopping", ![r].targets = T, ![r].todo = T]
      BY <2>1 DEF Reload
    <3>2. SameSources => \A m \in Dropped : Running(m) => m \in T
      BY DEF Dropped, RunningModels, SameSources
    <3> HIDE DEF T
    <3>3. /\ req'[r].pc = "stopping" /\ req'[r].targets = T
          /\ \A s \in Requesters : s # r => req'[s] = req[s]
      <4>1. req'[r] = [req[r] EXCEPT !.pc = "stopping", !.targets = T, !.todo = T]
        BY <1>1, <3>1
      <4> QED  BY <1>1, <3>1, <4>1, RequestParts DEF Request
    <3>4. \A m \in Models : (Running(m)' <=> Running(m)) /\ mapping'[m] = mapping[m]
      BY <1>1 DEF Running, Status
    <3> QED  BY <1>2, <3>1, <3>2, <3>3, <3>4 DEF JoinParts, ReloadsSeeAll, Dropped
  <2>2. CASE ~ Reload(r)
    <3>1. reloading' = reloading
      BY <2>2 DEF Look, HasModel, PickLru, AlreadyLoaded, AwaitLoaded, Check, Proxy, Autoload
    <3>2. ASSUME NEW s \in Requesters, req'[s].pc \in {"stopping", "join"}
          PROVE  req'[s] = req[s]
      <4>1. CASE s # r
        BY <1>1, <2>2, <4>1
           DEF Look, HasModel, PickLru, AlreadyLoaded, AwaitLoaded, Check, Proxy, Autoload, Goes
      <4>2. CASE s = r
        <5>1. \/ \E pc \in Places \ {"stopping", "join"} : req'[r] = [req[r] EXCEPT !.pc = pc]
              \/ \E m : req'[r] = [req[r] EXCEPT !.pc = "evict", !.lru = m]
              \/ \E m : req'[r] = [req[r] EXCEPT !.pc = "load", !.name = m, !.todo = @ \ {m}]
          <6>1. CASE \/ Look(r) \/ HasModel(r) \/ AlreadyLoaded(r) \/ AwaitLoaded(r) \/ Check(r) \/ Proxy(r)
            <7>1. \E pc \in Places \ {"stopping", "join"} : Goes(r, pc)
              BY <6>1 DEF Look, HasModel, AlreadyLoaded, AwaitLoaded, Check, Proxy, NextOf, Loaded, Places
            <7> QED  BY <1>1, <7>1 DEF Goes
          <6>2. CASE PickLru(r)
            BY <1>1, <6>2 DEF PickLru, Goes, Places
          <6>3. CASE Autoload(r)
            BY <1>1, <6>3 DEF Autoload, Goes, Places
          <6> QED  BY <2>2, <6>1, <6>2, <6>3
        <5>2. req'[r].pc \notin {"stopping", "join"}
          BY <5>1, RequestParts, <1>1 DEF Request
        <5> QED  BY <3>2, <4>2, <5>2
      <4> QED  BY <4>1, <4>2
    <3> QED  BY <1>1, <3>1, <3>2, ReloadsStillSee DEF JoinParts, Serving, Running, Status
  <2> QED  BY <2>1, <2>2
<1>5. WaitedFor'
  BY <1>1 DEF JoinParts, WaitedFor
<1> QED  BY <1>1, <1>2, <1>4, <1>5, QuietJoins DEF JoinParts, UnknownIsPhantom, Serving

LEMMA StopJoins ==
  ASSUME RouterParts, JoinParts, NEW r \in Requesters,
         Evict(r) \/ UnloadModel(r) \/ ReloadUnloads(r)
  PROVE  JoinParts'
<1>0. RouterTypes /\ req \in [Requesters -> Request] /\ req[r] \in Request
  BY RequestParts DEF RouterParts, RouterTypes, TypeOK
<1>1. UNCHANGED <<known, mapping, reloading, spawned>> /\ \E m \in Models : Unload(m)
  BY <1>0, StopTypes
<1>2. WaitedFor' /\ \A h \in Gens : inst'[h].model = inst[h].model
  BY <1>1, UnloadWaits DEF JoinParts
<1>3. Serving /\ main' \in {main, "killed"}
  BY <1>0, <1>1, UnloadTypes DEF Evict, UnloadModel, ReloadUnloads, At
<1>4. ASSUME NEW s \in Requesters, req'[s].pc \in {"stopping", "join"}
      PROVE  req'[s].pc = req[s].pc /\ req'[s].targets = req[s].targets
  <2>1. CASE s # r
    BY <1>0, <2>1 DEF Evict, UnloadModel, ReloadUnloads, Goes
  <2>2. CASE s = r
    <3>1. CASE Evict(r) \/ UnloadModel(r)
      <4>1. \E pc \in {"evicted", "done"} : req'[r] = [req[r] EXCEPT !.pc = pc]
        BY <1>0, <3>1 DEF Evict, UnloadModel, Goes
      <4> QED  BY <1>0, <1>4, <2>2, <4>1 DEF Request
    <3>2. CASE ReloadUnloads(r)
      <4>1. \E m : req'[r] = [req[r] EXCEPT !.todo = @ \ {m}]
        BY <1>0, <3>2 DEF ReloadUnloads
      <4> QED  BY <1>0, <2>2, <4>1 DEF Request
    <3> QED  BY <3>1, <3>2
  <2> QED  BY <2>1, <2>2
<1>5. ReloadsSeeAll'
  BY <1>1, <1>3, <1>4, ReloadsStillSee DEF JoinParts, Serving, Running, Status
<1> QED  BY <1>0, <1>1, <1>2, <1>3, <1>5, QuietJoins DEF JoinParts, UnknownIsPhantom, Serving

LEMMA TouchJoins ==
  ASSUME RouterParts, JoinParts, NEW r \in Requesters, Evicted(r) \/ LoadThrows(r) \/ Touch(r)
  PROVE  JoinParts'
<1>0. RouterTypes /\ req \in [Requesters -> Request] /\ req[r] \in Request
  BY RequestParts DEF RouterParts, RouterTypes, TypeOK
<1>1. known \subseteq known' /\ UNCHANGED <<mapping, stopping, reloading, inst, spawned, main>>
  BY <1>0, TouchTypes
<1>2. Serving
  BY DEF Evicted, LoadThrows, Touch, At
<1>3. ASSUME NEW m \in Models, Running(m)'  PROVE Running(m)
  <2>1. mapping[m].status # "UNLOADED"
    BY <1>1, <1>3 DEF Running, Status
  <2>2. m \in known
    BY <2>1 DEF JoinParts, UnknownIsPhantom, Phantom
  <2> QED  BY <2>1, <2>2 DEF Running, Status
<1>4. ASSUME NEW s \in Requesters, req'[s].pc \in {"stopping", "join"}
      PROVE  req'[s] = req[s]
  <2>1. CASE s # r
    BY <1>0, <2>1 DEF Evicted, LoadThrows, Touch, Goes
  <2>2. CASE s = r
    <3>1. \/ req'[r] = [req[r] EXCEPT !.pc = "done"]
          \/ req'[r] = [req[r] EXCEPT !.pc = "admit", !.lru = NoModel]
      BY <1>0 DEF Evicted, LoadThrows, Touch, Goes
    <3> QED  BY <1>0, <1>4, <2>2, <3>1 DEF Request
  <2> QED  BY <2>1, <2>2
<1>5. ReloadsSeeAll'
  BY <1>1, <1>3, <1>4, ReloadsStillSee DEF JoinParts, Serving
<1>6. WaitedFor'
  BY <1>1 DEF JoinParts, WaitedFor
<1> QED  BY <1>0, <1>1, <1>2, <1>5, <1>6, QuietJoins DEF JoinParts, UnknownIsPhantom, Serving

(* load() finds the thread of an unloaded model ended, so that joining it  *)
(* under the lock is safe.  It starts a model that is in no source only    *)
(* when no reload is under way; after one the entry has no subprocess.     *)
LEMMA SpawnJoins ==
  ASSUME RouterParts, JoinParts, NEW r \in Requesters, Spawn(r)
  PROVE  JoinParts'
<1> DEFINE m == Name(r)
           g == spawned + 1
<1>1. /\ m \in Models /\ g \in Gens /\ mapping \in [Models -> Entry] /\ inst \in [Gens -> Instance]
      /\ spawned \in 0 .. MaxSpawns /\ spawned' = g /\ known' = known \cup {m}
      /\ Status(m) = "UNLOADED" /\ Serving /\ ~ reloading /\ reloading' = reloading
      /\ req \in [Requesters -> Request] /\ req[r] \in Request
  BY RequestParts DEF RouterParts, RouterTypes, TypeOK, Spawn, Name, At
<1>2. /\ inst'[g] = Child(m)
      /\ \A h \in Gens : h # g => inst'[h] = inst[h]
  BY <1>1 DEF Spawn
<1>3. /\ mapping'[m].gen = g /\ mapping'[m].th
      /\ \A k \in Models : k # m => mapping'[k] = mapping[k]
  <2>1. mapping[m] \in Entry
    BY <1>1
  <2>2. mapping' = [mapping EXCEPT ![m] = [mapping[m] EXCEPT !.status = "LOADING", !.gen = g, !.th = TRUE]]
    BY <1>1 DEF Spawn
  <2> QED  BY <1>1, <2>1, <2>2 DEF Entry
<1>4. Child(m).model = m /\ Child(m).mgr = "read"
  BY DEF Child, NoInstance
<1>5. main' = AfterCleanup(m)
  BY DEF Spawn
<1>6. ~ (mapping[m].th /\ inst[mapping[m].gen].mgr # "done")
  <2> SUFFICES ASSUME mapping[m].th, inst[mapping[m].gen].mgr # "done"  PROVE FALSE
    OBVIOUS
  <2>1. mapping[m].gen \in Gens /\ inst[mapping[m].gen].model = m
    BY <1>1 DEF JoinParts, ThreadsOfModel
  <2>2. mapping[m].status # "UNLOADED"
    BY <2>1 DEF RouterParts, Owned
  <2> QED  BY <1>1, <2>2 DEF Status
<1>7. main' = IF mapping[m].gen = NullProc THEN "null" ELSE main
  BY <1>5, <1>6 DEF AfterCleanup
<1>8. \A s \in Requesters : req'[s].pc \in {"stopping", "join"} => req'[s] = req[s]
  <2>1. Goes(r, Loaded(r)) /\ Loaded(r) \notin {"stopping", "join"}
    BY DEF Spawn, Loaded
  <2>2. req'[r].pc \notin {"stopping", "join"}
    <3>1. req'[r] = [req[r] EXCEPT !.pc = Loaded(r)]
      BY <1>1, <2>1 DEF Goes
    <3> QED  BY <1>1, <2>1, <3>1 DEF Request
  <2> QED  BY <1>1, <2>1, <2>2 DEF Goes
<1> HIDE DEF m, g
<1>9. UnknownIsPhantom' /\ AllEnded' /\ JoinsAreSafe'
  BY <1>1, <1>3, <1>7 DEF JoinParts, UnknownIsPhantom, AllEnded, JoinsAreSafe, Serving
<1>10. ThreadsOfModel'
  <2> SUFFICES ASSUME NEW k \in Models, mapping'[k].th
               PROVE  mapping'[k].gen \in 1 .. spawned' /\ inst'[mapping'[k].gen].model = k
    BY DEF ThreadsOfModel
  <2>1. CASE k = m
    BY <1>1, <1>2, <1>3, <1>4, <2>1
  <2>2. CASE k # m
    <3>1. mapping[k].gen \in 1 .. spawned /\ inst[mapping[k].gen].model = k
          /\ mapping'[k] = mapping[k]
      BY <1>3, <2>2 DEF JoinParts, ThreadsOfModel
    <3>2. mapping[k].gen \in Gens /\ mapping[k].gen # g /\ mapping[k].gen \in 1 .. spawned'
      BY <1>1, <3>1 DEF g
    <3> QED  BY <1>2, <3>1, <3>2
  <2> QED  BY <2>1, <2>2
<1>11. WaitedFor'
  <2> SUFFICES ASSUME NEW h \in Gens, inst'[h].mgr \in {"status", "done"}
               PROVE  inst'[h].child = "reaped"
    BY DEF WaitedFor
  <2> QED  BY <1>2, <1>4 DEF JoinParts, WaitedFor
<1>12. ReloadsSeeAll'
  <2> SUFFICES ASSUME SameSources, Serving', NEW s \in Requesters, req'[s].pc \in {"stopping", "join"}
               PROVE  /\ reloading' \/ Erased'
                      /\ req'[s].pc = "stopping" => \A k \in Dropped : Running(k)' => k \in req'[s].targets
                      /\ req'[s].pc = "join" => \A k \in Dropped : ~ mapping'[k].th /\ ~ Running(k)'
    BY DEF ReloadsSeeAll
  <2>1. Erased
    BY <1>1, <1>8 DEF JoinParts, ReloadsSeeAll
  <2>2. m \notin Dropped
    BY <1>7, <2>1 DEF Erased, Serving
  <2>3. \A k \in Dropped : k # m /\ k \in Models /\ mapping'[k] = mapping[k] /\ (Running(k)' <=> Running(k))
    BY <1>1, <1>3, <2>2 DEF Dropped, Running, Status
  <2> QED  BY <1>8, <2>1, <2>3 DEF Erased
<1> QED  BY <1>9, <1>10, <1>11, <1>12 DEF JoinParts

(* When a reload has seen its models end, no model that is in no source    *)
(* runs any more: it takes all their threads.                              *)
LEMMA ReloadStoppedJoins ==
  ASSUME RouterParts, JoinParts, NEW r \in Requesters, ReloadStopped(r)
  PROVE  JoinParts'
<1>0. /\ RouterTypes /\ req \in [Requesters -> Request] /\ req[r] \in Request
      /\ mapping \in [Models -> Entry]
  BY RequestParts DEF RouterParts, RouterTypes, TypeOK
<1>1. /\ UNCHANGED <<known, reloading, inst, spawned, main>> /\ Serving /\ req[r].pc = "stopping"
      /\ \A m \in req[r].targets : ~ Running(m)
  BY DEF ReloadStopped, At
<1>2. ASSUME NEW m \in Models
      PROVE  /\ mapping'[m].gen = mapping[m].gen /\ mapping'[m].status = mapping[m].status
             /\ mapping'[m].th <=> (mapping[m].th /\ m \notin Joinable(r))
             /\ mapping[m] = Phantom => mapping'[m] = Phantom
  <2>1. mapping[m] \in Entry /\ mapping'[m] = [mapping[m] EXCEPT !.th = @ /\ m \notin Joinable(r)]
    BY <1>0 DEF ReloadStopped
  <2>2. mapping[m] = Phantom => mapping'[m] = Phantom
    <3> SUFFICES ASSUME mapping[m] = Phantom  PROVE mapping'[m] = Phantom
      OBVIOUS
    <3> DEFINE v == mapping[m].th /\ m \notin Joinable(r)
    <3>1. v = FALSE
      BY DEF Phantom
    <3>2. mapping'[m] = [Phantom EXCEPT !.th = v]
      BY <2>1
    <3> HIDE DEF v
    <3>3. mapping'[m] = [Phantom EXCEPT !.th = FALSE]
      BY <3>1, <3>2
    <3> QED  BY <3>3 DEF Phantom
  <2> QED  BY <2>1, <2>2 DEF Entry
<1>3. \A m \in Models : Running(m)' <=> Running(m)
  BY <1>1, <1>2 DEF Running, Status
<1>4. req'[r].pc = "join" /\ \A s \in Requesters : s # r => req'[s] = req[s]
  <2> DEFINE J == {mapping[m].gen : m \in Joinable(r)}
  <2>1. req' = [req EXCEPT ![r].pc = "join", ![r].joins = J]
    BY DEF ReloadStopped
  <2> HIDE DEF J
  <2>2. req'[r] = [req[r] EXCEPT !.pc = "join", !.joins = J]
    BY <1>0, <2>1
  <2> QED  BY <1>0, <2>1, <2>2 DEF Request
<1>5. ASSUME SameSources, NEW m \in Dropped  PROVE ~ mapping'[m].th /\ ~ Running(m)'
  <2>1. m \in Models /\ m \notin Sources[r] /\ ~ Running(m)
    BY <1>1, <1>5 DEF JoinParts, ReloadsSeeAll, Dropped, SameSources
  <2>2. mapping[m].th => m \in known
    BY <2>1 DEF JoinParts, UnknownIsPhantom, Phantom
  <2>3. mapping[m].th => m \in Joinable(r)
    BY <2>1, <2>2 DEF Joinable
  <2> QED  BY <1>2, <1>3, <2>1, <2>3
<1>6. ReloadsSeeAll'
  <2>1. Erased => Erased'
    BY <1>2, <1>3 DEF Erased, Dropped
  <2> SUFFICES ASSUME SameSources, NEW s \in Requesters
               PROVE  /\ req'[s].pc \in {"stopping", "join"} => reloading' \/ Erased'
                      /\ req'[s].pc = "stopping" => \A m \in Dropped : Running(m)' => m \in req'[s].targets
                      /\ req'[s].pc = "join" => \A m \in Dropped : ~ mapping'[m].th /\ ~ Running(m)'
    BY DEF ReloadsSeeAll
  <2>2. CASE s = r
    BY <1>1, <1>4, <1>5, <2>1, <2>2 DEF JoinParts, ReloadsSeeAll
  <2>3. CASE s # r
    <3>1. req'[s] = req[s]
      BY <1>4, <2>3
    <3>2. /\ req[s].pc \in {"stopping", "join"} => reloading \/ Erased
          /\ req[s].pc = "stopping" => \A m \in Dropped : Running(m) => m \in req[s].targets
      BY <1>1 DEF JoinParts, ReloadsSeeAll
    <3>3. \A m \in Dropped : m \in Models
      BY DEF Dropped
    <3> QED  BY <1>1, <1>3, <1>5, <2>1, <3>1, <3>2, <3>3
  <2> QED  BY <2>2, <2>3
<1>7. WaitedFor'
  BY <1>1 DEF JoinParts, WaitedFor
<1> QED  BY <1>0, <1>1, <1>2, <1>6, <1>7, QuietJoins DEF JoinParts, UnknownIsPhantom, Serving

(* So that the assertion holds when it erases them, if all reloads find    *)
(* the same sources.                                                       *)
LEMMA AssertionHolds ==
  ASSUME RouterParts, JoinParts, SameSources, NEW r \in Requesters, Serving, req[r].pc = "join"
  PROVE  ~ \E m \in known \ Sources[r] : mapping[m].th
<1>1. known \subseteq Models
  BY DEF RouterParts, RouterTypes, TypeOK
<1> QED  BY <1>1 DEF JoinParts, ReloadsSeeAll, Dropped

LEMMA AssertedJoins ==
  ASSUME RouterParts, JoinParts, ~ SameSources, main' = "asserted",
         UNCHANGED <<known, mapping, reloading, req, inst, spawned>>
  PROVE  JoinParts'
<1>1. UnknownIsPhantom' /\ ThreadsOfModel' /\ WaitedFor'
  BY DEF JoinParts, UnknownIsPhantom, ThreadsOfModel, WaitedFor
<1>2. ReloadsSeeAll' /\ AllEnded' /\ JoinsAreSafe'
  BY DEF ReloadsSeeAll, AllEnded, JoinsAreSafe, Serving
<1> QED  BY <1>1, <1>2 DEF JoinParts

LEMMA ReconcileJoins ==
  ASSUME RouterParts, JoinParts, NEW r \in Requesters, ReloadReconciles(r),
         ~ \E m \in known \ Sources[r] : mapping[m].th
  PROVE  JoinParts'
<1>0. /\ RouterTypes /\ req \in [Requesters -> Request] /\ req[r] \in Request
      /\ mapping \in [Models -> Entry] /\ known \subseteq Models
  BY RequestParts DEF RouterParts, RouterTypes, TypeOK
<1>1. UNCHANGED <<inst, spawned>> /\ Serving /\ req[r].pc = "join"
  BY DEF ReloadReconciles, At
<1> DEFINE D == Startup \cap (Sources[r] \ known)
<1>2. /\ known' = Sources[r] /\ main' = main
      /\ mapping' = [m \in Models |-> Reconciled(r, m)]
      /\ req' = [req EXCEPT ![r].pc = "autoload", ![r].joins = {}, ![r].targets = {}, ![r].todo = D]
  BY DEF ReloadReconciles
<1> HIDE DEF D
<1>3. req'[r].pc = "autoload" /\ \A s \in Requesters : s # r => req'[s] = req[s]
  <2>1. req'[r] = [req[r] EXCEPT !.pc = "autoload", !.joins = {}, !.targets = {}, !.todo = D]
    BY <1>0, <1>2
  <2> QED  BY <1>0, <1>2, <2>1 DEF Request
<1>4. ASSUME NEW m \in Models
      PROVE  /\ m \notin Sources[r] => mapping'[m] = Phantom
             /\ mapping'[m].th => mapping[m].th /\ mapping'[m].gen = mapping[m].gen
  <2>1. mapping[m] \in Entry /\ mapping'[m] = Reconciled(r, m)
    BY <1>0, <1>2
  <2>2. /\ [mapping[m] EXCEPT !.failed = FALSE].th = mapping[m].th
        /\ [mapping[m] EXCEPT !.failed = FALSE].gen = mapping[m].gen
    BY <2>1 DEF Entry
  <2>3. Phantom.th = FALSE /\ NewEntry.th = FALSE
    BY DEF Phantom, NewEntry
  <2> QED  BY <2>1, <2>2, <2>3 DEF Reconciled
<1>5. SameSources => \A m \in Dropped : mapping'[m].gen = NullProc /\ ~ mapping'[m].th /\ ~ Running(m)'
  BY <1>2, <1>4 DEF Dropped, SameSources, Phantom, Running, Status
<1>6. ReloadsSeeAll'
  BY <1>5 DEF ReloadsSeeAll, Erased
<1>7. WaitedFor'
  BY <1>1 DEF JoinParts, WaitedFor
<1> QED  BY <1>0, <1>1, <1>2, <1>4, <1>6, <1>7, QuietJoins DEF Serving

LEMMA InitJoins == Init => JoinParts
<1> SUFFICES ASSUME Init  PROVE JoinParts
  OBVIOUS
<1>1. \A m \in Models : mapping[m] \in {NewEntry, Phantom} /\ (m \notin known => mapping[m] = Phantom)
  BY DEF Init
<1>2. \A m \in Models : ~ mapping[m].th
  BY <1>1 DEF NewEntry, Phantom
<1>3. \A g \in Gens : inst[g].child = "reaped"
  BY DEF Init, NoInstance
<1>4. \A r \in Requesters : req[r].pc \notin {"stopping", "join"}
  BY DEF Init
<1>5. main = "serving"
  BY DEF Init
<1> QED  BY <1>1, <1>2, <1>3, <1>4, <1>5
         DEF JoinParts, UnknownIsPhantom, ThreadsOfModel, WaitedFor, ReloadsSeeAll, AllEnded, JoinsAreSafe

LEMMA StepJoins == RouterParts /\ JoinParts /\ [Next]_vars => JoinParts'
<1> SUFFICES ASSUME RouterParts, JoinParts, [Next]_vars  PROVE JoinParts'
  OBVIOUS
<1>1. ASSUME NEW r \in Requesters, RequestStep(r)  PROVE JoinParts'
  <2>1. CASE ReloadReconciles(r) /\ \E m \in known \ Sources[r] : mapping[m].th
    <3>1. Serving /\ req[r].pc = "join" /\ main' = "asserted"
          /\ UNCHANGED <<known, mapping, reloading, req, inst, spawned>>
      BY <2>1 DEF ReloadReconciles, At
    <3> QED  BY <2>1, <3>1, AssertionHolds, AssertedJoins
  <2>2. CASE ReloadReconciles(r) /\ ~ \E m \in known \ Sources[r] : mapping[m].th
    BY <2>2, ReconcileJoins
  <2>3. CASE ~ ReloadReconciles(r)
    BY <1>1, <2>3, LookJoins, StopJoins, TouchJoins, SpawnJoins, ReloadStoppedJoins
       DEF RequestStep
  <2> QED  BY <2>1, <2>2, <2>3
<1>2. CASE UnloadAll
  <2>1. /\ UNCHANGED <<known, mapping, reloading, spawned, req>> /\ main' = "joining"
        /\ inst' = inst \/ inst' = Poke(inst)
        /\ inst \in [Gens -> Instance] /\ RouterTypes
    BY <1>2 DEF UnloadAll, RouterParts, RouterTypes, TypeOK
  <2>2. \A h \in Gens : inst'[h].model = inst[h].model /\ inst'[h].child = inst[h].child
                        /\ inst'[h].mgr = inst[h].mgr
    BY <2>1, PokeKeeps
  <2>3. WaitedFor' /\ ReloadsSeeAll'
    BY <2>1, <2>2 DEF JoinParts, WaitedFor, ReloadsSeeAll, Serving
  <2> QED  BY <2>1, <2>2, <2>3, QuietJoins DEF JoinParts, UnknownIsPhantom
<1>3. CASE Leave
  <2>1. UNCHANGED <<known, mapping, reloading, inst, spawned, req>> /\ main' = "gone"
    BY <1>3 DEF Leave
  <2>2. \A g \in Gens : inst[g].mgr = "done"
    BY <1>3 DEF Leave, RouterParts, Owned
  <2> QED  BY <2>1, <2>2 DEF JoinParts, UnknownIsPhantom, ThreadsOfModel, WaitedFor, ReloadsSeeAll,
                             AllEnded, JoinsAreSafe, Serving
<1>4. CASE UNCHANGED vars
  BY <1>4 DEF vars, JoinParts, UnknownIsPhantom, ThreadsOfModel, WaitedFor, ReloadsSeeAll, AllEnded,
              JoinsAreSafe, Serving, Erased, Running, Status
<1> QED  BY <1>1, <1>2, <1>3, <1>4, InstanceJoins DEF Next

LEMMA JoinsInductive == Spec => []JoinParts
<1>1. Init => RouterParts /\ WithinLimit /\ JoinParts
  BY InitParts, InitJoins
<1>2. RouterParts /\ WithinLimit /\ JoinParts /\ [Next]_vars
      => (RouterParts /\ WithinLimit /\ JoinParts)'
  BY StepParts, StepJoins
<1> QED  BY <1>1, <1>2, PTL DEF Spec

(* Whatever is loaded, evicted and reloaded at once, by any number of      *)
(* reloads: load() joins under the lock only a thread that has ended; and  *)
(* if all the reloads find the same sources, none of them erases an entry  *)
(* whose thread it has not joined.                                         *)
THEOREM ThreadsAreJoined == Spec => []JoinsAreSafe
<1>1. JoinParts => JoinsAreSafe
  BY DEF JoinParts
<1> QED  BY <1>1, JoinsInductive, PTL

(* When the router has ended, it has waited for every child that it ever   *)
(* started.                                                                *)
THEOREM NoChildIsLeft == Spec => []NoOrphans
<1>1. JoinParts => NoOrphans
  BY DEF JoinParts, AllEnded, WaitedFor, NoOrphans
<1> QED  BY <1>1, JoinsInductive, PTL
=============================================================================
