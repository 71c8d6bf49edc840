----------------------------- MODULE MCLearning -----------------------------
(***************************************************************************)
(* Instances of imitation learning for TLC.                                *)
(***************************************************************************)
EXTENDS Learning, TLC

CONSTANTS p1, p2, t1, t2

MCTeaches == p1 :> {t1, t2} @@ p2 :> {t1}
=============================================================================
