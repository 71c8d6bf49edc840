----------------------------- MODULE MCSpawner -----------------------------
(***************************************************************************)
(* An instance of the Spawner for TLC.                                     *)
(***************************************************************************)
EXTENDS Spawner

CONSTANTS p1, p2, p3
=============================================================================
