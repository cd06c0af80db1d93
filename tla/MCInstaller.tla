---------------------------- MODULE MCInstaller ----------------------------
(* Instances of Installer for TLC.                                         *)
EXTENDS Installer, TLC

CONSTANTS i1, i2, i3

(* Runs after each other and runs that overlap, which fail and are killed. *)
Both == {[overlap |-> FALSE, faults |-> 2], [overlap |-> TRUE, faults |-> 1]}

Symmetry == Permutations({i1, i2, i3})
=============================================================================
