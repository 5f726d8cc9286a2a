---------------------------- MODULE MCProjectBus ----------------------------
(* Small instances of ProjectBus for TLC.                                  *)
EXTENDS ProjectBus, TLC

CONSTANTS t1, t2
=============================================================================
