--------------------------- MODULE MCServerSleep ---------------------------
(* Instances of ServerSleep for TLC.                                       *)
EXTENDS ServerSleep

CONSTANTS r1, r2, r3
=============================================================================
