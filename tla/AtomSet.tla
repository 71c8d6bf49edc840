------------------------------- MODULE AtomSet -------------------------------
(***************************************************************************)
(* What an AtomTable is to its users, whatever indexes, hash sets and      *)
(* incoming sets it keeps: a set of atoms that differ from each other,     *)
(* each under a handle that is given out once, in which the targets of     *)
(* every link are present.                                                 *)
(***************************************************************************)
EXTENDS Integers, FiniteSets, Sequences

CONSTANTS
  Handles,   \* what an atom can be known by
  Values,    \* atoms: <<type, name, targets>>, targets a sequence of handles
  NoAtom     \* what an unused handle names

VARIABLES
  given,     \* the handles given out so far
  atom       \* [handle -> atom it names, or NoAtom]

contents == <<given, atom>>

Present == {h \in Handles : atom[h] # NoAtom}
Targets(v) == {v[3][i] : i \in DOMAIN v[3]}
Occurrences(v, h) == Cardinality({i \in DOMAIN v[3] : v[3][i] = h})

\* The order of the targets of an unordered link does not distinguish it.
Same(v, w) ==
  /\ v[1] = w[1] /\ v[2] = w[2]
  /\ \/ v[3] = w[3]
     \/ v[1] = "unordered" /\ \A h \in Handles : Occurrences(v, h) = Occurrences(w, h)

Init == given = {} /\ atom = [h \in Handles |-> NoAtom]

\* A new atom with its targets present gets a new handle.
Add(h, v) ==
  /\ h \notin given
  /\ Targets(v) \subseteq Present
  /\ \A g \in Present : ~Same(atom[g], v)
  /\ given' = given \cup {h}
  /\ atom' = [atom EXCEPT ![h] = v]

\* Some atoms go, and with them every link that names one of them.
Remove(X) ==
  /\ X # {} /\ X \subseteq Present
  /\ \A l \in Present \ X : Targets(atom[l]) \cap X = {}
  /\ atom' = [h \in Handles |-> IF h \in X THEN NoAtom ELSE atom[h]]
  /\ UNCHANGED given

Next == \/ \E h \in Handles, v \in Values : Add(h, v)
        \/ \E X \in SUBSET Handles : Remove(X)

Spec == Init /\ [][Next]_contents
=============================================================================
