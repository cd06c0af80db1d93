-------------------------- MODULE InstallerProofs --------------------------
(* Proofs about Installer for every set of runs, any number of faults and  *)
(* any order of faults and kills; most of them about one run at a time.    *)
EXTENDS Installer, TLAPS

(* One run at a time: only the active run changes anything, and what it    *)
(* goes on from is still as it saw it.                                     *)
Alone == \A r, x \in Runs : Active(r) /\ Active(x) => r = x

Progress(r) ==
  /\ pc[r] \in {"look", "clear", "aside", "swap", "restore", "place"} => staging[r] = Parts
  /\ pc[r] \in {"clear", "aside", "tidy"} => prefix # None
  /\ pc[r] \in {"swap", "restore", "place"} => prefix = None
  /\ pc[r] \in {"swap", "restore"} => IsWhole(backup)
  /\ pc[r] \in {"copy", "look", "clear", "aside", "swap", "place", "restore"} => Current = found[r]
  /\ pc[r] = "tidy" => prefix.by = r
  /\ pc[r] = "abort" => Current \in {found[r], r}

(* A staging directory is there until it is renamed or removed, and has    *)
(* all the parts once they are copied: no other run touches it.            *)
StagingThere ==
  \A r \in Runs :
    /\ pc[r] \in {"copy", "look", "clear", "aside", "swap", "place"} => staging[r] # None
    /\ pc[r] \in {"look", "clear", "aside", "swap", "place"} => staging[r] = Parts

IInv ==
  /\ TypeOK /\ StagingThere /\ PrefixWhole
  /\ ~mode.overlap => Alone /\ \A r \in Runs : Progress(r)

---------------------------------------------------------------------------
(* The parts and the labels.                                               *)

(* What a run has copied is a set of parts, and it is all of them after    *)
(* the third.                                                              *)
LEMMA CopiedParts ==
  ASSUME NEW n \in 1 .. 3
  PROVE  /\ Copied(n) \subseteq Parts
         /\ Copied(n - 1) = Copied(2) => Copied(n) = Parts
<1>1. "runtime" # "model" /\ "model" # "receipt" /\ "runtime" # "receipt"
  OBVIOUS
<1>2. CASE n = 1
  <2>1. Copied(1) = {"runtime"} /\ Copied(0) = {} /\ Copied(2) = {"runtime", "model"}
    BY DEF Copied
  <2> QED  BY <1>2, <2>1, <1>1 DEF Parts
<1>3. CASE n = 2
  <2>1. Copied(1) = {"runtime"} /\ Copied(2) = {"runtime", "model"}
    BY DEF Copied
  <2> QED  BY <1>3, <2>1, <1>1 DEF Parts
<1>4. CASE n = 3
  <2>1. Copied(3) = Parts
    BY DEF Copied
  <2> QED  BY <1>4, <2>1
<1> QED  BY <1>2, <1>3, <1>4

(* A step of rmtree() leaves a tree with fewer parts, or none.             *)
LEMMA RemoveSomeType ==
  ASSUME backup \in Trees \cup {None}, RemoveSome
  PROVE  backup' \in Trees \cup {None}
<1>1. CASE \E p \in backup.parts : backup # None /\ backup' = [backup EXCEPT !.parts = @ \ {p}]
  BY <1>1 DEF Trees
<1>2. CASE backup' = None
  BY <1>2
<1> QED  BY <1>1, <1>2 DEF RemoveSome

LEMMA ToType ==
  ASSUME NEW r \in Runs, NEW l \in Labels, pc \in [Runs -> Labels], To(r, l)
  PROVE  pc' \in [Runs -> Labels]
BY DEF To

LEMMA FailType ==
  ASSUME NEW r \in Runs, mode \in Modes, faults \in [Runs -> 0 .. mode.faults], MayFail(r),
         faults' = [faults EXCEPT ![r] = @ + 1]
  PROVE  faults' \in [Runs -> 0 .. mode.faults]
<1>1. mode.faults \in Nat
  BY InstallerAssumption DEF Mode
<1> QED  BY <1>1 DEF MayFail

(* The variables that are not typed by what they are assigned.             *)
LEMMA CurrentType ==
  ASSUME TypeOK
  PROVE  Current \in Runs \cup {Before, None}
BY DEF TypeOK, Current, Trees, IsWhole

(* Every variable keeps its type, whatever a run does.                     *)
LEMMA TypeStep ==
  ASSUME TypeOK, StagingThere, [Next]_vars
  PROVE  TypeOK'
<1>0. /\ mode \in Modes /\ prefix \in Trees \cup {None} /\ backup \in Trees \cup {None}
      /\ staging \in [Runs -> (SUBSET Parts) \cup {None}] /\ replace \in [Runs -> BOOLEAN]
      /\ found \in [Runs -> Runs \cup {Before, None}] /\ pc \in [Runs -> Labels]
      /\ faults \in [Runs -> 0 .. mode.faults]
  BY DEF TypeOK
<1>l. /\ "copy" \in Labels /\ "look" \in Labels /\ "clear" \in Labels /\ "aside" \in Labels
      /\ "swap" \in Labels /\ "place" \in Labels /\ "restore" \in Labels /\ "tidy" \in Labels
      /\ "abort" \in Labels /\ "ok" \in Labels /\ "failed" \in Labels /\ "killed" \in Labels
  BY DEF Labels
<1>1. CASE UNCHANGED vars
  BY <1>0, <1>1 DEF vars, TypeOK
<1>2. ASSUME NEW r \in Runs, Begin(r)  PROVE TypeOK'
  <2>1. pc' \in [Runs -> Labels]
    BY <1>0, <1>l, <1>2, ToType DEF Begin
  <2>2. staging' \in [Runs -> (SUBSET Parts) \cup {None}]
    BY <1>0, <1>2 DEF Begin
  <2>3. found' \in [Runs -> Runs \cup {Before, None}]
    BY <1>0, <1>2, CurrentType DEF Begin
  <2> QED  BY <1>0, <1>2, <2>1, <2>2, <2>3 DEF Begin, TypeOK
<1>3. ASSUME NEW r \in Runs, Copy(r)  PROVE TypeOK'
  <2>1. pc' \in [Runs -> Labels]
    BY <1>0, <1>l, <1>3, ToType DEF Copy
  <2>2. staging' \in [Runs -> (SUBSET Parts) \cup {None}]
    BY <1>0, <1>3, CopiedParts DEF Copy
  <2>3. faults' \in [Runs -> 0 .. mode.faults]
    BY <1>0, <1>3, FailType DEF Copy, Fail
  <2> QED  BY <1>0, <1>3, <2>1, <2>2, <2>3 DEF Copy, TypeOK
<1>4. ASSUME NEW r \in Runs, Look(r)  PROVE TypeOK'
  <2>1. pc' \in [Runs -> Labels]
    BY <1>0, <1>l, <1>4, ToType DEF Look
  <2> QED  BY <1>0, <1>4, <2>1 DEF Look, TypeOK
<1>5. ASSUME NEW r \in Runs, Clear(r)  PROVE TypeOK'
  <2>1. pc' \in [Runs -> Labels]
    BY <1>0, <1>l, <1>5, ToType DEF Clear
  <2>2. backup' \in Trees \cup {None}
    BY <1>0, <1>5, RemoveSomeType DEF Clear
  <2>3. faults' \in [Runs -> 0 .. mode.faults]
    BY <1>0, <1>5, FailType DEF Clear, Fail
  <2> QED  BY <1>0, <1>5, <2>1, <2>2, <2>3 DEF Clear, TypeOK
<1>6. ASSUME NEW r \in Runs, MoveAside(r)  PROVE TypeOK'
  <2>1. pc' \in [Runs -> Labels]
    BY <1>0, <1>l, <1>6, ToType DEF MoveAside
  <2>2. prefix' \in Trees \cup {None} /\ backup' \in Trees \cup {None}
    BY <1>0, <1>6 DEF MoveAside
  <2>3. faults' \in [Runs -> 0 .. mode.faults]
    BY <1>0, <1>6, FailType DEF MoveAside, Fail
  <2> QED  BY <1>0, <1>6, <2>1, <2>2, <2>3 DEF MoveAside, TypeOK
<1>7. ASSUME NEW r \in Runs, PutInPlace(r)  PROVE TypeOK'
  <2>1. pc' \in [Runs -> Labels]
    BY <1>0, <1>l, <1>7, ToType DEF PutInPlace
  <2>2. staging' \in [Runs -> (SUBSET Parts) \cup {None}]
    BY <1>0, <1>7 DEF PutInPlace
  <2>3. faults' \in [Runs -> 0 .. mode.faults]
    BY <1>0, <1>7, FailType DEF PutInPlace
  <2>4. staging[r] \in SUBSET Parts
    BY <1>0, <1>7 DEF PutInPlace, StagingThere
  <2>5. prefix' \in Trees \cup {None}
    BY <1>0, <1>7, <2>4 DEF PutInPlace, Tree, Trees
  <2> QED  BY <1>0, <1>7, <2>1, <2>2, <2>3, <2>5 DEF PutInPlace, TypeOK
<1>8. ASSUME NEW r \in Runs, Restore(r)  PROVE TypeOK'
  <2>1. pc' \in [Runs -> Labels]
    BY <1>0, <1>l, <1>8, ToType DEF Restore
  <2>2. prefix' \in Trees \cup {None} /\ backup' \in Trees \cup {None}
    BY <1>0, <1>8 DEF Restore
  <2>3. faults' \in [Runs -> 0 .. mode.faults]
    BY <1>0, <1>8, FailType DEF Restore, Fail
  <2> QED  BY <1>0, <1>8, <2>1, <2>2, <2>3 DEF Restore, TypeOK
<1>9. ASSUME NEW r \in Runs, Tidy(r)  PROVE TypeOK'
  <2>1. pc' \in [Runs -> Labels]
    BY <1>0, <1>l, <1>9, ToType DEF Tidy
  <2>2. backup' \in Trees \cup {None}
    BY <1>0, <1>9, RemoveSomeType DEF Tidy
  <2>3. faults' \in [Runs -> 0 .. mode.faults]
    BY <1>0, <1>9, FailType DEF Tidy, Fail
  <2> QED  BY <1>0, <1>9, <2>1, <2>2, <2>3 DEF Tidy, TypeOK
<1>10. ASSUME NEW r \in Runs, Abort(r)  PROVE TypeOK'
  <2>1. pc' \in [Runs -> Labels]
    BY <1>0, <1>l, <1>10, ToType DEF Abort
  <2>2. staging' \in [Runs -> (SUBSET Parts) \cup {None}]
    BY <1>0, <1>10 DEF Abort
  <2>3. faults' \in [Runs -> 0 .. mode.faults]
    BY <1>0, <1>10, FailType DEF Abort, Fail
  <2> QED  BY <1>0, <1>10, <2>1, <2>2, <2>3 DEF Abort, TypeOK
<1>11. ASSUME NEW r \in Runs, Kill(r)  PROVE TypeOK'
  <2>1. pc' \in [Runs -> Labels]
    BY <1>0, <1>l, <1>11, ToType DEF Kill
  <2> QED  BY <1>0, <1>11, <2>1 DEF Kill, TypeOK
<1> QED
  BY <1>1, <1>2, <1>3, <1>4, <1>5, <1>6, <1>7, <1>8, <1>9, <1>10, <1>11 DEF Next

(* The staging directory of an active run is not taken from it.            *)
LEMMA StagingStep ==
  ASSUME TypeOK, StagingThere, [Next]_vars
  PROVE  StagingThere'
<1>0. /\ staging \in [Runs -> (SUBSET Parts) \cup {None}] /\ pc \in [Runs -> Labels]
  BY DEF TypeOK
<1> USE DEF StagingThere
<1>1. CASE UNCHANGED vars
  BY <1>1 DEF vars
<1>2. ASSUME NEW r \in Runs, Begin(r)  PROVE StagingThere'
  <2>1. {} # None
    <3>1. {} \in SUBSET Parts
      OBVIOUS
    <3> QED  BY <3>1, InstallerAssumption
  <2> QED  BY <1>0, <1>2, <2>1 DEF Begin, To
<1>3. ASSUME NEW r \in Runs, Copy(r)  PROVE StagingThere'
  <2>1. \A n \in 1 .. 3 : Copied(n) # None
    BY CopiedParts, InstallerAssumption
  <2>2. pc'[r] = "look" => staging'[r] = Parts
    BY <1>0, <1>3, CopiedParts DEF Copy, To
  <2> QED  BY <1>0, <1>3, <2>1, <2>2 DEF Copy, To
<1>4. ASSUME NEW r \in Runs, Look(r) \/ Clear(r) \/ MoveAside(r)  PROVE StagingThere'
  BY <1>0, <1>4 DEF Look, Clear, MoveAside, To
<1>5. ASSUME NEW r \in Runs, PutInPlace(r)  PROVE StagingThere'
  BY <1>0, <1>5 DEF PutInPlace, To
<1>6. ASSUME NEW r \in Runs, Restore(r) \/ Tidy(r) \/ Abort(r) \/ Kill(r)  PROVE StagingThere'
  BY <1>0, <1>6 DEF Restore, Tidy, Abort, Kill, To
<1> QED
  BY <1>1, <1>2, <1>3, <1>4, <1>5, <1>6 DEF Next

(* With runs that overlap half a tree comes to the prefix by a restore,    *)
(* after which the run that made it fails.                                 *)
LEMMA OverlapStep ==
  ASSUME TypeOK, StagingThere, PrefixWhole, mode.overlap, [Next]_vars
  PROVE  PrefixWhole'
<1>0. /\ prefix \in Trees \cup {None} /\ pc \in [Runs -> Labels]
      /\ staging \in [Runs -> (SUBSET Parts) \cup {None}]
      /\ None \notin Trees /\ \A r \in Runs : pc[r] \in Labels
  BY InstallerAssumption DEF TypeOK
<1>1. mode' = mode
  BY DEF Next, vars, Begin, Copy, Look, Clear, MoveAside, PutInPlace, Restore, Tidy, Abort, Kill
<1>2. Unsuccessful => Unsuccessful'
  <2>1. SUFFICES ASSUME NEW x \in Runs, pc[x] \in {"abort", "failed", "killed"}
                 PROVE  pc'[x] \in {"abort", "failed", "killed"}
    BY DEF Unsuccessful
  <2>2. CASE UNCHANGED vars
    BY <2>1, <2>2 DEF vars
  <2>3. ASSUME NEW r \in Runs, Begin(r) \/ Copy(r) \/ Look(r) \/ Clear(r) \/ MoveAside(r)
        PROVE  pc'[x] \in {"abort", "failed", "killed"}
    BY <1>0, <2>1, <2>3 DEF Begin, Copy, Look, Clear, MoveAside, To
  <2>4. ASSUME NEW r \in Runs, PutInPlace(r) \/ Restore(r) \/ Tidy(r) \/ Abort(r) \/ Kill(r)
        PROVE  pc'[x] \in {"abort", "failed", "killed"}
    BY <1>0, <2>1, <2>4 DEF PutInPlace, Restore, Tidy, Abort, Kill, Active, To
  <2> QED  BY <2>2, <2>3, <2>4 DEF Next
<1>3. CASE prefix' = prefix
  BY <1>1, <1>2, <1>3 DEF PrefixWhole
<1>4. CASE prefix' # prefix
  <2>1. PICK r \in Runs : MoveAside(r) \/ PutInPlace(r) \/ Restore(r)
    BY <1>4 DEF Next, vars, Begin, Copy, Look, Clear, Tidy, Abort, Kill
  <2>2. CASE MoveAside(r)
    BY <1>4, <2>2 DEF MoveAside, PrefixWhole
  <2>3. CASE PutInPlace(r)
    <3>1. prefix' = Tree(r, staging[r]) /\ staging[r] = Parts
      BY <1>0, <1>4, <2>3 DEF PutInPlace, StagingThere
    <3>2. IsWhole(prefix')
      BY <3>1, InstallerAssumption DEF IsWhole, Tree, Trees
    <3> QED  BY <3>2 DEF PrefixWhole
  <2>4. CASE Restore(r)
    <3>1. pc'[r] = "abort"
      BY <1>0, <2>4 DEF Restore, To
    <3> QED  BY <1>1, <3>1 DEF PrefixWhole, Unsuccessful
  <2> QED  BY <2>1, <2>2, <2>3, <2>4
<1> QED  BY <1>3, <1>4

---------------------------------------------------------------------------
(* One run at a time.                                                      *)

(* Only an active run has anything to keep to.                             *)
LEMMA OnlyActive ==
  ASSUME TypeOK, NEW r \in Runs, ~Active(r)
  PROVE  Progress(r)
BY DEF Progress, Active

(* The steps of an active run; a run begins with Begin.                    *)
Work(r) ==
  Copy(r) \/ Look(r) \/ Clear(r) \/ MoveAside(r) \/ PutInPlace(r)
    \/ Restore(r) \/ Tidy(r) \/ Abort(r) \/ Kill(r)

(* The step of the run that is active, as long as no other is.             *)
LEMMA RunStep ==
  ASSUME IInv, ~mode.overlap, NEW r \in Runs, Work(r)
  PROVE  /\ PrefixWhole' /\ Progress(r)'
         /\ Current' = Current \/ Current' = r
         /\ pc[r] # "ok" /\ pc'[r] = "ok" => Current' = r
         /\ pc[r] # "failed" /\ pc'[r] = "failed" => Current' \in {found'[r], r}
<1>0. /\ prefix \in Trees \cup {None} /\ backup \in Trees \cup {None}
      /\ staging \in [Runs -> (SUBSET Parts) \cup {None}]
      /\ pc \in [Runs -> Labels] /\ None \notin Trees
      /\ PrefixWhole /\ Progress(r)
  BY InstallerAssumption DEF IInv, TypeOK
<1>1. CASE Copy(r)
  <2>1. pc'[r] = "look" => staging'[r] = Parts
    BY <1>0, <1>1, CopiedParts DEF Copy, To
  <2> QED  BY <1>0, <1>1, <2>1 DEF Copy, To, PrefixWhole, Progress, Current
<1>2. CASE Look(r)
  BY <1>0, <1>2 DEF Look, To, PrefixWhole, Progress, Current
<1>3. CASE Clear(r)
  BY <1>0, <1>3 DEF Clear, To, PrefixWhole, Progress, Current
<1>4. CASE MoveAside(r)
  BY <1>0, <1>4 DEF MoveAside, To, PrefixWhole, Progress, Current, IsWhole
<1>5. CASE PutInPlace(r)
  BY <1>0, <1>5 DEF PutInPlace, To, PrefixWhole, Progress, Current, IsWhole, Tree, Trees, CanRename
<1>6. CASE Restore(r)
  BY <1>0, <1>6 DEF Restore, To, PrefixWhole, Progress, Current, IsWhole
<1>7. CASE Tidy(r)
  BY <1>0, <1>7 DEF Tidy, To, PrefixWhole, Progress, Current
<1>8. CASE Abort(r)
  BY <1>0, <1>8 DEF Abort, To, PrefixWhole, Progress, Current
<1>9. CASE Kill(r)
  BY <1>0, <1>9 DEF Kill, To, PrefixWhole, Progress, Current
<1> QED
  BY <1>1, <1>2, <1>3, <1>4, <1>5, <1>6, <1>7, <1>8, <1>9 DEF Work

(* A run works only while it is active, on its own label.                  *)
LEMMA WorkIsLocal ==
  ASSUME TypeOK, NEW r \in Runs, Work(r)
  PROVE  /\ Active(r) /\ mode' = mode /\ found' = found
         /\ \E l \in Labels : pc' = [pc EXCEPT ![r] = l]
<1>1. pc \in [Runs -> Labels]
  BY DEF TypeOK
<1>2. \A l \in {"copy", "look", "clear", "aside", "swap", "place", "restore", "tidy", "abort"} :
        pc[r] = l => Active(r)
  BY DEF Active
<1>3. Active(r)
  BY <1>2 DEF Work, Copy, Look, Clear, MoveAside, PutInPlace, Restore, Tidy, Abort, Kill
<1>4. \E l \in Labels : pc' = [pc EXCEPT ![r] = l]
  <2>1. pc = [pc EXCEPT ![r] = pc[r]] /\ pc[r] \in Labels
    BY <1>1
  <2> QED
    BY <2>1 DEF Work, Copy, Look, Clear, MoveAside, PutInPlace, Restore, Tidy, Abort, Kill, To, Labels
<1> QED
  BY <1>3, <1>4 DEF Work, Copy, Look, Clear, MoveAside, PutInPlace, Restore, Tidy, Abort, Kill

(* What a step may do when runs do not overlap.                            *)
StepIsSound ==
  /\ Current' = Current \/ \E r \in Runs : Active(r) /\ Current' = r
  /\ \A r \in Runs :
       /\ pc[r] # "ok" /\ pc'[r] = "ok" => Current' = r
       /\ pc[r] # "failed" /\ pc'[r] = "failed" => Current' \in {found'[r], r}

LEMMA AloneStep ==
  ASSUME IInv, [Next]_vars, ~mode.overlap
  PROVE  /\ mode' = mode /\ StepIsSound
         /\ PrefixWhole' /\ Alone' /\ \A x \in Runs : Progress(x)'
<1>0. /\ TypeOK /\ PrefixWhole /\ Alone /\ \A x \in Runs : Progress(x)
      /\ pc \in [Runs -> Labels] /\ found \in [Runs -> Runs \cup {Before, None}]
      /\ TypeOK'
  BY TypeStep DEF IInv, TypeOK
<1>1. CASE UNCHANGED vars
  BY <1>0, <1>1 DEF vars, StepIsSound, PrefixWhole, IsWhole, Alone, Active, Progress, Current
<1>2. ASSUME NEW r \in Runs, Begin(r)
      PROVE  /\ mode' = mode /\ StepIsSound
             /\ PrefixWhole' /\ Alone' /\ \A x \in Runs : Progress(x)'
  <2>1. /\ mode' = mode /\ prefix' = prefix /\ backup' = backup
        /\ found' = [found EXCEPT ![r] = Current] /\ \A x \in Runs : ~Active(x)
        /\ Current' = Current
    BY <1>2 DEF Begin, Current, IsWhole
  <2>2. pc' = [pc EXCEPT ![r] = "failed"] \/ pc' = [pc EXCEPT ![r] = "copy"]
    BY <1>2 DEF Begin, To
  <2>3. \A x \in Runs : x # r => ~Active(x)'
    BY <1>0, <2>1, <2>2 DEF Active
  <2>4. Alone'
    BY <2>3 DEF Alone
  <2>5. Progress(r)'
    BY <1>0, <2>1, <2>2 DEF Progress
  <2>6. \A x \in Runs : x # r => Progress(x)'
    BY <2>3 DEF Progress, Active
  <2>7. StepIsSound
    BY <1>0, <2>1, <2>2 DEF StepIsSound
  <2> QED  BY <1>0, <2>1, <2>4, <2>5, <2>6, <2>7 DEF PrefixWhole, IsWhole
<1>3. ASSUME NEW r \in Runs, Work(r)
      PROVE  /\ mode' = mode /\ StepIsSound
             /\ PrefixWhole' /\ Alone' /\ \A x \in Runs : Progress(x)'
  <2>1. /\ Active(r) /\ mode' = mode /\ found' = found
    BY <1>0, <1>3, WorkIsLocal
  <2>2. PICK l \in Labels : pc' = [pc EXCEPT ![r] = l]
    BY <1>0, <1>3, WorkIsLocal
  <2>3. /\ PrefixWhole' /\ Progress(r)'
        /\ Current' = Current \/ Current' = r
        /\ pc[r] # "ok" /\ pc'[r] = "ok" => Current' = r
        /\ pc[r] # "failed" /\ pc'[r] = "failed" => Current' \in {found'[r], r}
    BY <1>3, <2>1, RunStep
  <2>4. \A x \in Runs : x # r => ~Active(x)'
    BY <1>0, <2>1, <2>2 DEF Alone, Active
  <2>5. Alone'
    BY <2>4 DEF Alone
  <2>6. \A x \in Runs : x # r => Progress(x)'
    BY <2>4 DEF Progress, Active
  <2>7. \A x \in Runs : x # r => pc'[x] = pc[x]
    BY <1>0, <2>2
  <2>8. StepIsSound
    BY <2>1, <2>3, <2>7 DEF StepIsSound
  <2> QED  BY <2>1, <2>3, <2>5, <2>6, <2>8
<1> QED
  BY <1>1, <1>2, <1>3 DEF Next, Work

LEMMA InitIInv ==
  ASSUME Init
  PROVE  IInv
<1>1. TypeOK
  <2>1. Parts \in SUBSET Parts
    OBVIOUS
  <2>2. prefix \in Trees \cup {None}
    BY <2>1 DEF Init, Tree, Trees
  <2>3. mode \in Modes /\ mode.faults \in Nat
    BY InstallerAssumption DEF Init, Mode
  <2>4. faults \in [Runs -> 0 .. mode.faults]
    BY <2>3 DEF Init
  <2> QED  BY <2>2, <2>3, <2>4, InstallerAssumption DEF Init, TypeOK, Labels
<1>2. \A r \in Runs : pc[r] = "idle"
  BY DEF Init
<1>3. StagingThere /\ Alone /\ \A r \in Runs : Progress(r)
  BY <1>2 DEF StagingThere, Alone, Active, Progress
<1>4. PrefixWhole
  BY DEF Init, PrefixWhole, IsWhole, Tree
<1> QED  BY <1>1, <1>3, <1>4 DEF IInv

LEMMA StepIInv ==
  ASSUME IInv, [Next]_vars
  PROVE  IInv'
<1>1. TypeOK' /\ StagingThere'
  BY TypeStep, StagingStep DEF IInv
<1>2. mode' = mode
  <2>1. TypeOK
    BY DEF IInv
  <2> QED  BY <2>1, WorkIsLocal DEF Next, vars, Begin, Work
<1>3. CASE mode.overlap
  BY <1>1, <1>2, <1>3, OverlapStep DEF IInv
<1>4. CASE ~mode.overlap
  BY <1>1, <1>2, <1>4, AloneStep DEF IInv
<1> QED  BY <1>3, <1>4

LEMMA AlwaysIInv ==
  Spec => []IInv
BY InitIInv, StepIInv, PTL DEF Spec

(* The variables of the installer keep their types, with runs that overlap *)
(* and without.                                                            *)
THEOREM InstallerTypes ==
  Spec => []TypeOK
<1>1. IInv => TypeOK
  BY DEF IInv
<1> QED  BY <1>1, AlwaysIInv, PTL

(* With one run at a time nobody ever finds half an installation at the    *)
(* prefix, whichever renames, copies and removals fail and whenever runs   *)
(* are killed, and with runs that overlap not before one of them has ended *)
(* without success (install(): staging.rename(prefix),                     *)
(* backup.rename(prefix)).                                                 *)
THEOREM PrefixIsWhole ==
  Spec => []PrefixWhole
<1>1. IInv => PrefixWhole
  BY DEF IInv
<1> QED  BY <1>1, AlwaysIInv, PTL

(* With one run at a time the installation that a user has, at the prefix  *)
(* or in the backup, only ever changes to the whole tree of the run that   *)
(* is active: no fault and no kill loses it.                               *)
THEOREM InstallationIsKept ==
  Spec => InstallsAtomically
<1>1. IInv /\ [Next]_vars =>
        [~mode.overlap => Current' = Current \/ \E r \in Runs : Active(r) /\ Current' = r]_vars
  BY AloneStep DEF StepIsSound
<1> QED  BY <1>1, AlwaysIInv, PTL DEF Spec, InstallsAtomically

(* A run that ends by itself has installed its tree when it reports        *)
(* success, and has left the old tree or its own when it reports an error. *)
THEOREM ReportsAreTrue ==
  Spec => EndsAsSaid
<1>1. IInv /\ [Next]_vars =>
        [~mode.overlap => \A r \in Runs :
           /\ pc[r] # "ok" /\ pc'[r] = "ok" => Current' = r
           /\ pc[r] # "failed" /\ pc'[r] = "failed" => Current' \in {found'[r], r}]_vars
  BY AloneStep DEF StepIsSound
<1> QED  BY <1>1, AlwaysIInv, PTL DEF Spec, EndsAsSaid
=============================================================================
