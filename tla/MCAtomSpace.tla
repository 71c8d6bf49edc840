---------------------------- MODULE MCAtomSpace ----------------------------
(* Instance of AtomSpace for TLC. *)
EXTENDS AtomSpace

LowestSTI == -1
=============================================================================
