----------------------------- MODULE Installer -----------------------------
(***************************************************************************)
(* The consumer installer (src/tools/install_consumer_bundle.py): a run    *)
(* copies the runtime and the model to a staging directory, moves the      *)
(* directory that is installed aside and the staging directory in its      *)
(* place.  Every call to the file system may fail, and a run may be killed *)
(* or interrupted between any two of them.                                 *)
(***************************************************************************)
EXTENDS Naturals, FiniteSets

CONSTANTS
  Runs,       \* runs of the installer; each makes one tree
  Modes,      \* the circumstances to start with
  Before,     \* what is installed at first, or None
  None

Parts == {"runtime", "model", "receipt"}

(* A directory: the run that made it and its parts.                        *)
Trees == [by : Runs \cup {Before}, parts : SUBSET Parts]

(* Whether runs may overlap, and how many calls of a run fail, bound.  With *)
(* faults runs are also killed.                                            *)
Mode == [overlap : BOOLEAN, faults : Nat]

ASSUME InstallerAssumption ==
  /\ Modes \subseteq Mode
  /\ Before \notin Runs
  /\ None \notin Runs /\ \A t \in Trees : t # None
  /\ \A S \in SUBSET Parts : S # None

VARIABLES
  mode,     \* the circumstances, which do not change
  prefix,   \* the tree at the prefix, or None
  backup,   \* the tree at .<prefix>.previous, or None
  staging,  \* staging[r]: the parts in the directory of r, or None
  replace,  \* replace[r]: --replace
  found,    \* found[r]: what was installed when r began
  pc,       \* where r is
  faults    \* faults[r]: how many calls have failed

vars == <<mode, prefix, backup, staging, replace, found, pc, faults>>

(* The parts are copied in this order.                                     *)
Copied(n) == CASE n = 0 -> {}
               [] n = 1 -> {"runtime"}
               [] n = 2 -> {"runtime", "model"}
               [] n = 3 -> Parts

Tree(by, parts) == [by |-> by, parts |-> parts]
IsWhole(t) == t # None /\ t.parts = Parts

Labels == {"idle", "copy", "look", "clear", "aside", "swap", "place",
           "restore", "tidy", "abort", "ok", "failed", "killed"}

Active(r) == pc[r] \notin {"idle", "ok", "failed", "killed"}

(* What a user has: what is at the prefix or, when a run was cut off there, *)
(* what can be renamed back.                                               *)
Current ==
  IF prefix # None THEN prefix.by
  ELSE IF IsWhole(backup) THEN backup.by ELSE None

Init ==
  /\ mode \in Modes
  /\ prefix = IF Before = None THEN None ELSE Tree(Before, Parts)
  /\ backup = None
  /\ staging = [r \in Runs |-> None] /\ replace \in [Runs -> BOOLEAN]
  /\ found = [r \in Runs |-> None]
  /\ pc = [r \in Runs |-> "idle"] /\ faults = [r \in Runs |-> 0]

To(r, label) == pc' = [pc EXCEPT ![r] = label]

MayFail(r) == faults[r] < mode.faults

Fail(r) == MayFail(r) /\ faults' = [faults EXCEPT ![r] = @ + 1]

(* os.rename() of a directory: the target may only be an empty directory.  *)
CanRename(from, to) == from # None /\ (to # None => to.parts = {})

---------------------------------------------------------------------------
(* The steps of install().                                                 *)

(* The bundle is verified; "install already exists"; mkdtemp().            *)
Begin(r) ==
  /\ pc[r] = "idle" /\ (mode.overlap \/ \A x \in Runs : ~Active(x))
  /\ found' = [found EXCEPT ![r] = Current]
  /\ IF prefix # None /\ ~replace[r]
     THEN To(r, "failed") /\ UNCHANGED staging
     ELSE To(r, "copy") /\ staging' = [staging EXCEPT ![r] = {}]
  /\ UNCHANGED <<mode, prefix, backup, replace, faults>>

(* Mutant: the receipt is not waited for.                                  *)
CopyUnfinished(r) ==
  /\ pc[r] = "copy"
  /\ \/ /\ \E n \in 1 .. 3 : staging[r] = Copied(n - 1) /\ staging' = [staging EXCEPT ![r] = Copied(n)]
        /\ To(r, IF staging[r] = Copied(1) THEN "look" ELSE "copy")
        /\ UNCHANGED faults
     \/ Fail(r) /\ To(r, "abort") /\ UNCHANGED staging
  /\ UNCHANGED <<mode, prefix, backup, replace, found>>

Copy(r) ==
  /\ pc[r] = "copy"
  /\ \/ /\ \E n \in 1 .. 3 : staging[r] = Copied(n - 1) /\ staging' = [staging EXCEPT ![r] = Copied(n)]
        /\ To(r, IF staging[r] = Copied(2) THEN "look" ELSE "copy")
        /\ UNCHANGED faults
     \/ Fail(r) /\ To(r, "abort") /\ UNCHANGED staging
  /\ UNCHANGED <<mode, prefix, backup, replace, found>>

(* Mutant: the backup goes whether there is a tree at the prefix or not.   *)
LookAndClear(r) ==
  /\ pc[r] = "look"
  /\ To(r, "clear")
  /\ UNCHANGED <<mode, prefix, backup, staging, replace, found, faults>>

(* if prefix.exists(): it is not asked again whether r may replace it.     *)
Look(r) ==
  /\ pc[r] = "look"
  /\ To(r, IF prefix # None THEN "clear" ELSE "place")
  /\ UNCHANGED <<mode, prefix, backup, staging, replace, found, faults>>

(* A step of rmtree(backup): an entry, or the directory when it is empty.  *)
RemoveSome ==
  \/ /\ backup # None
     /\ \E p \in backup.parts : backup' = [backup EXCEPT !.parts = @ \ {p}]
  \/ /\ backup # None /\ backup.parts = {}
     /\ backup' = None

(* rmtree(backup, ignore_errors=True)                                      *)
Clear(r) ==
  /\ pc[r] = "clear"
  /\ \/ RemoveSome /\ UNCHANGED <<pc, faults>>
     \/ backup = None /\ To(r, "aside") /\ UNCHANGED <<backup, faults>>
     \/ Fail(r) /\ To(r, "aside") /\ UNCHANGED backup
  /\ UNCHANGED <<mode, prefix, staging, replace, found>>

(* prefix.rename(backup)                                                   *)
MoveAside(r) ==
  /\ pc[r] = "aside"
  /\ \/ /\ CanRename(prefix, backup)
        /\ backup' = prefix /\ prefix' = None
        /\ To(r, "swap") /\ UNCHANGED faults
     \/ /\ ~CanRename(prefix, backup)
        /\ To(r, "abort") /\ UNCHANGED <<prefix, backup, faults>>
     \/ Fail(r) /\ To(r, "abort") /\ UNCHANGED <<prefix, backup>>
  /\ UNCHANGED <<mode, staging, replace, found>>

(* staging.rename(prefix), with a backup and without.                      *)
PutInPlace(r) ==
  /\ pc[r] \in {"swap", "place"}
  /\ \/ /\ CanRename(Tree(r, staging[r]), prefix)
        /\ prefix' = Tree(r, staging[r])
        /\ staging' = [staging EXCEPT ![r] = None]
        /\ To(r, IF pc[r] = "swap" THEN "tidy" ELSE "ok")
        /\ UNCHANGED faults
     \/ /\ ~CanRename(Tree(r, staging[r]), prefix) \/ MayFail(r)
        /\ faults' = IF CanRename(Tree(r, staging[r]), prefix)
                     THEN [faults EXCEPT ![r] = @ + 1] ELSE faults
        /\ To(r, IF pc[r] = "swap" THEN "restore" ELSE "abort")
        /\ UNCHANGED <<prefix, staging>>
  /\ UNCHANGED <<mode, backup, replace, found>>

(* except: backup.rename(prefix), then the error is raised again.          *)
Restore(r) ==
  /\ pc[r] = "restore"
  /\ \/ /\ CanRename(backup, prefix)
        /\ prefix' = backup /\ backup' = None
        /\ UNCHANGED faults
     \/ ~CanRename(backup, prefix) /\ UNCHANGED <<prefix, backup, faults>>
     \/ Fail(r) /\ UNCHANGED <<prefix, backup>>
  /\ To(r, "abort")
  /\ UNCHANGED <<mode, staging, replace, found>>

(* rmtree(backup), whose errors are raised: also that it is gone.          *)
Tidy(r) ==
  /\ pc[r] = "tidy"
  /\ \/ /\ RemoveSome
        /\ To(r, IF backup' = None THEN "ok" ELSE "tidy")
        /\ UNCHANGED faults
     \/ backup = None /\ To(r, "abort") /\ UNCHANGED <<backup, faults>>
     \/ Fail(r) /\ To(r, "abort") /\ UNCHANGED backup
  /\ UNCHANGED <<mode, prefix, staging, replace, found>>

(* Mutant: the error is not raised again.                                  *)
AbortQuietly(r) ==
  /\ pc[r] = "abort" /\ To(r, "ok")
  /\ \/ staging' = [staging EXCEPT ![r] = None] /\ UNCHANGED faults
     \/ Fail(r) /\ UNCHANGED staging
  /\ UNCHANGED <<mode, prefix, backup, replace, found>>

(* except: rmtree(staging, ignore_errors=True)                             *)
Abort(r) ==
  /\ pc[r] = "abort" /\ To(r, "failed")
  /\ \/ staging' = [staging EXCEPT ![r] = None] /\ UNCHANGED faults
     \/ Fail(r) /\ UNCHANGED staging
  /\ UNCHANGED <<mode, prefix, backup, replace, found>>

(* The process is killed, or ^C, which is not an Exception.                *)
Kill(r) ==
  /\ mode.faults # 0 /\ Active(r)
  /\ To(r, "killed")
  /\ UNCHANGED <<mode, prefix, backup, staging, replace, found, faults>>

Next ==
  \E r \in Runs :
    \/ Begin(r) \/ Copy(r) \/ Look(r) \/ Clear(r) \/ MoveAside(r)
    \/ PutInPlace(r) \/ Restore(r) \/ Tidy(r) \/ Abort(r) \/ Kill(r)

Spec == Init /\ [][Next]_vars

---------------------------------------------------------------------------
(* Properties.                                                             *)

TypeOK ==
  /\ mode \in Modes
  /\ prefix \in Trees \cup {None} /\ backup \in Trees \cup {None}
  /\ staging \in [Runs -> (SUBSET Parts) \cup {None}]
  /\ replace \in [Runs -> BOOLEAN]
  /\ found \in [Runs -> Runs \cup {Before, None}]
  /\ pc \in [Runs -> Labels]
  /\ faults \in [Runs -> 0 .. mode.faults]

Unsuccessful == \E r \in Runs : pc[r] \in {"abort", "failed", "killed"}

(* "The installer ... installs atomically" (README.md), as far as it does:  *)
(* with one run at a time nobody finds half an installation at the prefix, *)
(* whichever calls fail and whenever a run is killed.  A run that is killed *)
(* between its renames leaves nothing there.  A run that overlaps another  *)
(* may restore what the other has begun to remove, and then fails: half a  *)
(* tree is only found once a run has not succeeded.                        *)
PrefixWhole == prefix # None => IsWhole(prefix) \/ (mode.overlap /\ Unsuccessful)

(* With one run at a time an installation is never lost: it stays, at the  *)
(* prefix or where the next user of rename() finds it whole, until a run   *)
(* puts its own in its place.                                              *)
InstallsAtomically ==
  [][~mode.overlap => Current' = Current \/ \E r \in Runs : Active(r) /\ Current' = r]_vars

(* A run that comes to its end by itself leaves what it says: its own tree *)
(* when it succeeds, and when it fails what it found or, if only the old   *)
(* tree could not be removed, its own.                                     *)
EndsAsSaid ==
  [][~mode.overlap => \A r \in Runs :
       /\ pc[r] # "ok" /\ pc'[r] = "ok" => Current' = r
       /\ pc[r] # "failed" /\ pc'[r] = "failed" => Current' \in {found'[r], r}]_vars
=============================================================================
