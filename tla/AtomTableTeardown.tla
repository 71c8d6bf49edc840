-------------------------- MODULE AtomTableTeardown --------------------------
(***************************************************************************)
(* The destructor of AtomTable: while the hash set is not empty it removes *)
(* the first atom in it together with the links above that atom.  The atom *)
(* is whichever the hash puts first, and TLB::getHandle throws for an atom *)
(* the TLB never saw.                                                      *)
(***************************************************************************)
EXTENDS AtomTable

VARIABLE teardown   \* "no", "running", "threw" or "done"

teardownVars == <<vars, teardown>>

TeardownInit == Init /\ teardown = "no"

\* Any operation of the table before its destruction.
Use == teardown = "no" /\ Next /\ UNCHANGED teardown

Begin ==
  /\ teardown = "no" /\ ~threw
  /\ teardown' = "running"
  /\ UNCHANGED vars

\* One pass of the destructor's loop.
RemoveFirst(e) ==
  /\ teardown = "running"
  /\ e[2] # UNDEFINED
  /\ remove(e[2], TRUE)
  /\ UNCHANGED teardown

\* TLB::getHandle: "Atom is not in the TLB!"
NotInTLB(e) ==
  /\ teardown = "running"
  /\ e[2] = UNDEFINED
  /\ teardown' = "threw"
  /\ UNCHANGED vars

Finish ==
  /\ teardown = "running"
  /\ atomSet = {}
  /\ teardown' = "done"
  /\ UNCHANGED vars

Destructor ==
  \/ Begin
  \/ \E e \in atomSet : RemoveFirst(e)
  \/ \E e \in atomSet : NotInTLB(e)
  \/ Finish

\* The loop runs to its end once it was entered.
TeardownSpec ==
  /\ TeardownInit
  /\ [][Use \/ Destructor]_teardownVars
  /\ WF_teardownVars(Destructor /\ teardown = "running")

-----------------------------------------------------------------------------
(* Properties                                                              *)

\* The destructor, which is to "remove all atoms from AtomTable": its loop ends,
\* whatever the order of the hash, and leaves atoms in the TLB only when an
\* earlier addition failed half-way.
DestructorEnds ==
  teardown = "running" ~> \/ teardown = "done" /\ Valid = {}
                          \/ teardown = "threw" /\ size > Cardinality(Valid)
=============================================================================
