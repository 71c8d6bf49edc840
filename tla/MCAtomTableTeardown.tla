------------------------ MODULE MCAtomTableTeardown ------------------------
(* Instance of AtomTableTeardown for TLC; the cfg files give the constants. *)
EXTENDS AtomTableTeardown
=============================================================================
