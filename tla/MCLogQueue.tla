----------------------------- MODULE MCLogQueue -----------------------------
(* Instances of LogQueue for TLC.                                          *)
EXTENDS LogQueue
=============================================================================
