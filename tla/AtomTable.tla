------------------------------ MODULE AtomTable ------------------------------
(***************************************************************************)
(* The AtomTable of opencog/atomspace with the TLB that maps handles to    *)
(* atoms: insertion, recursive extraction, the indexes, the incoming sets  *)
(* and the decay of short-term importance.                                 *)
(*                                                                         *)
(* An atom is known by its handle; the functions type, name, outgoing,     *)
(* incoming, sti and lti hold the fields of the Atom object that           *)
(* TLB::handle_map gives for the handle, and type[h] = NOTYPE says that    *)
(* handle_map has no entry for h.  Truth values are left out: merging two  *)
(* atoms changes nothing else.                                             *)
(***************************************************************************)
EXTENDS Integers, Sequences, FiniteSets

CONSTANTS
  Names,       \* names of nodes (one node type stands for all)
  NoName,      \* the name of a link
  MaxHandle,   \* bound: handles the TLB may give out
  MaxArity,    \* bound: arity of links
  MaxFailures, \* bound: additions that end in an exception
  STI_LOW,     \* smallest value of sti_t (-32768 in the code)
  STI_HIGH,    \* largest value of sti_t (32767 in the code)
  MIN_STI,     \* configuration value MIN_STI: the threshold of decay
  CallerSTIs,  \* values of sti that callers set
  LTIs         \* values of lti that callers set

ASSUME HandleBounds == MaxHandle \in Nat /\ MaxArity \in Nat /\ MaxFailures \in Nat
ASSUME NamesAssumption == NoName \notin Names
ASSUME ImportanceBounds ==
  /\ STI_LOW \in Int /\ STI_HIGH \in Int /\ MIN_STI \in Int
  /\ STI_LOW <= 0 /\ 0 <= STI_HIGH /\ STI_LOW < STI_HIGH
  /\ STI_LOW <= MIN_STI /\ MIN_STI <= STI_HIGH
  /\ CallerSTIs \subseteq STI_LOW .. STI_HIGH
  /\ LTIs \subseteq Int /\ 0 \in LTIs

NOTYPE == "notype"
UNDEFINED == 0    \* Handle::UNDEFINED
LinkTypes == {"ordered", "unordered"}
AtomTypes == LinkTypes \cup {"node"}
Handles == 1 .. MaxHandle
HandleSeqs == UNION {[1 .. n -> Handles] : n \in 1 .. MaxArity}
STIs == STI_LOW .. STI_HIGH

\* AttentionValue::DEFAULTATOMSTI and DEFAULTATOMLTI
DEFAULTATOMSTI == 0
DEFAULTATOMLTI == 0

VARIABLES
  brk_uuid,        \* TLB: the next handle
  type, name, outgoing, incoming, sti, lti,  \* the atoms, by handle
  nodeIndex,       \* set of <<name, handle>>
  linkIndex,       \* set of <<type, outgoing, handle>>
  typeIndex,       \* [type -> set of handles]
  importanceIndex, \* [bin -> set of handles]
  size,            \* AtomTable::size
  atomSet,         \* the hash set: pairs <<value, handle>>, one for a value;
                   \* the handle is UNDEFINED for an atom the TLB has not seen
  threw            \* a consistency check of Atom.cc raised RuntimeException

atoms == <<brk_uuid, type, name, outgoing>>
indexes == <<nodeIndex, linkIndex, typeIndex>>
vars == <<brk_uuid, type, name, outgoing, incoming, sti, lti, nodeIndex,
          linkIndex, typeIndex, importanceIndex, size, atomSet, threw>>

-----------------------------------------------------------------------------
(* Atoms, handles and bins                                                 *)

\* TLB::isValidHandle
isValidHandle(h) == h \in Handles /\ h < brk_uuid /\ type[h] # NOTYPE

Valid == {h \in Handles : isValidHandle(h)}
IsLink(h) == type[h] \in LinkTypes

\* What Atom::operator== compares: the key of an atom in the hash set.
Value(h) == <<type[h], name[h], outgoing[h]>>

\* Mutant: nothing is erased.
ErasedNone(values) == atomSet

\* What the hash set holds after insert and after erase: atoms compare by
\* value, so insert keeps an equal atom that is there and erase drops it.
Hashed(value, h) ==
  IF \E e \in atomSet : e[1] = value THEN atomSet ELSE atomSet \cup {<<value, h>>}
Erased(values) == {e \in atomSet : e[1] \notin values}

\* How often the target t occurs in an outgoing set.
Times(seq, t) == Cardinality({i \in DOMAIN seq : seq[i] = t})

\* ImportanceIndex::importanceBin; the index has one bin more than it uses.
importanceBin(s) == s - STI_LOW
IMPORTANCE_INDEX_SIZE == STI_HIGH - STI_LOW + 1
Bins == 0 .. IMPORTANCE_INDEX_SIZE

\* Link::setOutgoingSet sorts the targets of an unordered link.
Normalised(t, seq) ==
  t = "unordered" => \A i, j \in DOMAIN seq : i <= j => seq[i] <= seq[j]

\* The links in the incoming set of x, the ones it names any number of times.
IncomingLinks(x) == {l \in Handles : incoming[x][l] > 0}

\* A set of atoms the recursive extraction would not leave.
IncomingClosed(S) == \A x \in S : IncomingLinks(x) \subseteq S

\* The atoms the recursion of extract and extractOld visits from h: h, the
\* links of its incoming set, the links of theirs, and so on.
Reached(h) == {x \in Handles : \A S \in SUBSET Handles :
                                 h \in S /\ IncomingClosed(S) => x \in S}

-----------------------------------------------------------------------------
Init ==
  /\ brk_uuid = 1
  /\ type = [h \in Handles |-> NOTYPE]
  /\ name = [h \in Handles |-> NoName]
  /\ outgoing = [h \in Handles |-> << >>]
  /\ incoming = [h \in Handles |-> [l \in Handles |-> 0]]
  /\ sti = [h \in Handles |-> DEFAULTATOMSTI]
  /\ lti = [h \in Handles |-> DEFAULTATOMLTI]
  /\ nodeIndex = {} /\ linkIndex = {}
  /\ typeIndex = [t \in AtomTypes |-> {}]
  /\ importanceIndex = [b \in Bins |-> {}]
  /\ size = 0 /\ atomSet = {}
  /\ threw = FALSE

\* Mutant: the lowest free handle is given out again.
NewHandleReused == CHOOSE h \in 1 .. MaxHandle + 1 :
  /\ h \in Handles => type[h] = NOTYPE
  /\ \A g \in 1 .. h - 1 : type[g] # NOTYPE

\* TLB::addAtom: the handle of the next atom.
NewHandle == brk_uuid

(***************************************************************************)
(* AtomTable::add for an atom that no index knows and whose targets are    *)
(* all valid: the TLB gives it the next handle, the indexes learn it, and  *)
(* each occurrence of a target adds an entry to the target's incoming set. *)
(***************************************************************************)
Insert(t, n, out) ==
  LET h == NewHandle IN
  /\ h \in Handles
  /\ brk_uuid' = h + 1
  /\ type' = [type EXCEPT ![h] = t]
  /\ name' = [name EXCEPT ![h] = n]
  /\ outgoing' = [outgoing EXCEPT ![h] = out]
  /\ incoming' = [x \in Handles |->
                   [incoming[x] EXCEPT ![h] = @ + Times(out, x)]]
  /\ sti' = [sti EXCEPT ![h] = DEFAULTATOMSTI]
  /\ lti' = [lti EXCEPT ![h] = DEFAULTATOMLTI]
  /\ typeIndex' = [typeIndex EXCEPT ![t] = @ \cup {h}]
  /\ importanceIndex' =
       [importanceIndex EXCEPT ![importanceBin(DEFAULTATOMSTI)] = @ \cup {h}]
  /\ size' = size + 1
  /\ atomSet' = Hashed(<<t, n, out>>, h)
  /\ UNCHANGED threw

\* Mutant: only ordered links are looked up.
KnownLinkIfOrdered(t, out) ==
  t = "ordered" /\ \E h \in Handles : <<t, out, h>> \in linkIndex

\* getHandle(name, type) of the node index, getHandle(type, outgoing) of the
\* link index.
KnownNode(n) == \E h \in Handles : <<n, h>> \in nodeIndex
KnownLink(t, out) == \E h \in Handles : <<t, out, h>> \in linkIndex

\* Mutant: the node index is not told of the new node.
addNodeUnindexed(n) ==
  /\ ~threw
  /\ ~KnownNode(n)
  /\ Insert("node", n, << >>)
  /\ UNCHANGED <<nodeIndex, linkIndex>>

\* AtomTable::add of a node; a known node is merged and nothing changes.
addNode(n) ==
  /\ ~threw
  /\ ~KnownNode(n)
  /\ Insert("node", n, << >>)
  /\ nodeIndex' = nodeIndex \cup {<<n, NewHandle>>}
  /\ UNCHANGED linkIndex

\* Mutant: only the first target is checked.
addLinkFirstChecked(t, out) ==
  /\ ~threw
  /\ Normalised(t, out)
  /\ ~KnownLink(t, out)
  /\ isValidHandle(out[1])
  /\ Insert(t, NoName, out)
  /\ linkIndex' = linkIndex \cup {<<t, out, NewHandle>>}
  /\ UNCHANGED nodeIndex

\* AtomTable::add of a link whose targets are all valid.
addLink(t, out) ==
  /\ ~threw
  /\ Normalised(t, out)
  /\ ~KnownLink(t, out)
  /\ \A i \in DOMAIN out : isValidHandle(out[i])
  /\ Insert(t, NoName, out)
  /\ linkIndex' = linkIndex \cup {<<t, out, NewHandle>>}
  /\ UNCHANGED nodeIndex

(***************************************************************************)
(* AtomTable::add of a link with an invalid target: the size and the hash  *)
(* set are updated before the targets are looked at, and the exception     *)
(* leaves them so.                                                         *)
(***************************************************************************)
addLinkFails(t, out) ==
  /\ ~threw
  /\ Normalised(t, out)
  /\ ~KnownLink(t, out)
  /\ \E i \in DOMAIN out : ~isValidHandle(out[i])
  /\ size < Cardinality(Valid) + MaxFailures
  /\ size' = size + 1
  /\ atomSet' = Hashed(<<t, NoName, out>>, UNDEFINED)
  /\ UNCHANGED <<atoms, incoming, sti, lti, indexes, importanceIndex, threw>>

-----------------------------------------------------------------------------
\* Mutant: one entry is taken out for each link, however often it names x.
DetachedOnce(X) ==
  [x \in Handles |-> [l \in Handles |->
     IF l \in X /\ Times(outgoing[l], x) > 0 THEN incoming[x][l] - 1
                                           ELSE incoming[x][l]]]

(***************************************************************************)
(* The entries left in the incoming sets once the links in X are gone:     *)
(* removeIncomingHandle takes one entry out for each occurrence of the     *)
(* target.                                                                 *)
(***************************************************************************)
Detached(X) ==
  [x \in Handles |-> [l \in Handles |->
     IF l \in X THEN incoming[x][l] - Times(outgoing[l], x)
                ELSE incoming[x][l]]]

\* removeIncomingHandle finds every entry it looks for, and ~Atom finds the
\* incoming set of every atom it destroys empty; otherwise they throw.
Removable(X) ==
  \A x, l \in Handles : /\ Detached(X)[x][l] >= 0
                        /\ x \in X => Detached(X)[x][l] = 0

\* The atoms of X leave the table, the TLB and memory.  The order in which
\* the code takes them (links before their targets) is not modelled.
Discard(X) ==
  /\ type' = [h \in Handles |-> IF h \in X THEN NOTYPE ELSE type[h]]
  /\ name' = [h \in Handles |-> IF h \in X THEN NoName ELSE name[h]]
  /\ outgoing' = [h \in Handles |-> IF h \in X THEN << >> ELSE outgoing[h]]
  /\ incoming' = Detached(X)
  /\ lti' = [h \in Handles |-> IF h \in X THEN DEFAULTATOMLTI ELSE lti[h]]
  /\ nodeIndex' = {e \in nodeIndex : e[2] \notin X}
  /\ linkIndex' = {e \in linkIndex : e[3] \notin X}
  /\ typeIndex' = [t \in AtomTypes |-> typeIndex[t] \ X]
  /\ size' = size - Cardinality(X)
  /\ atomSet' = Erased({Value(h) : h \in X})
  /\ UNCHANGED brk_uuid

Throw ==
  /\ threw' = TRUE
  /\ UNCHANGED <<atoms, incoming, sti, lti, indexes, importanceIndex, size, atomSet>>

\* Mutant: the recursion stops after the links of h itself.
ExtractedOneLevel(h, recursive) ==
  IF recursive THEN {h} \cup IncomingLinks(h)
  ELSE IF IncomingLinks(h) = {} THEN {h} ELSE {}

\* The atoms extract(h, recursive) takes out: none when h keeps an incoming
\* link (only without recursion), else h and all it visits.
Extracted(h, recursive) ==
  IF recursive THEN Reached(h)
  ELSE IF IncomingLinks(h) = {} THEN {h} ELSE {}

\* AtomTable::remove (extract, then removeExtractedHandles)
remove(h, recursive) ==
  LET X == Extracted(h, recursive) IN
  /\ ~threw
  /\ isValidHandle(h)
  /\ X # {}
  /\ IF Removable(X)
     THEN /\ Discard(X)
          /\ sti' = [x \in Handles |-> IF x \in X THEN DEFAULTATOMSTI ELSE sti[x]]
          /\ importanceIndex' = [b \in Bins |->
               importanceIndex[b] \ {x \in X : importanceBin(sti[x]) = b}]
          /\ UNCHANGED threw
     ELSE Throw

-----------------------------------------------------------------------------
\* Atom::setAttentionValue, with updateImportanceIndex when the bin changes.
setAttentionValue(h, s, l) ==
  /\ ~threw
  /\ isValidHandle(h)
  /\ sti' = [sti EXCEPT ![h] = s]
  /\ lti' = [lti EXCEPT ![h] = l]
  /\ importanceIndex' =
       IF s = sti[h] THEN importanceIndex
       ELSE [[importanceIndex EXCEPT ![importanceBin(sti[h])] = @ \ {h}]
               EXCEPT ![importanceBin(s)] = @ \cup {h}]
  /\ UNCHANGED <<atoms, incoming, indexes, size, atomSet, threw>>

\* Mutant: the lowest bin is overwritten by the one above it.
ShiftedIndexOverwrites ==
  [b \in Bins |->
     CASE b \in 0 .. IMPORTANCE_INDEX_SIZE - 2 -> importanceIndex[b + 1]
       [] b = IMPORTANCE_INDEX_SIZE - 1 -> {}
       [] OTHER -> importanceIndex[b]]

\* ImportanceIndex::decayShortTermImportance, first part: every bin from 1 on
\* moves down by one and the atoms of these bins lose one unit of sti.
ShiftedIndex ==
  [b \in Bins |->
     CASE b = 0 -> importanceIndex[0] \cup importanceIndex[1]
       [] b \in 1 .. IMPORTANCE_INDEX_SIZE - 2 -> importanceIndex[b + 1]
       [] b = IMPORTANCE_INDEX_SIZE - 1 -> {}
       [] OTHER -> importanceIndex[b]]

\* Mutant: the lowest bin decays too and nothing stops it at the bottom.
DecayedSTIUnbounded ==
  [h \in Handles |-> IF \E b \in Bins : h \in importanceIndex[b] THEN sti[h] - 1
                                                             ELSE sti[h]]

DecayedSTI ==
  [h \in Handles |->
     IF \E b \in 1 .. IMPORTANCE_INDEX_SIZE - 1 : h \in importanceIndex[b]
     THEN (IF sti[h] # STI_LOW THEN sti[h] - 1 ELSE sti[h])
     ELSE sti[h]]

\* Atom::isOld, with the decayed importance.
isOld(h) == DecayedSTI[h] < MIN_STI /\ lti[h] < 1

(***************************************************************************)
(* Second part: extractOld for each old atom of the bins up to MIN_STI.    *)
(* It takes an atom when it and every link visited from it are old; the    *)
(* old links it visits are themselves in these bins.                       *)
(***************************************************************************)
OldAtoms ==
  {h \in UNION {ShiftedIndex[b] : b \in 0 .. importanceBin(MIN_STI)} :
     \A x \in Reached(h) : isOld(x)}

\* AtomTable::decayShortTermImportance and clearIndexesAndRemoveAtoms
decayShortTermImportance ==
  /\ ~threw
  /\ IF Removable(OldAtoms)
     THEN /\ Discard(OldAtoms)
          /\ sti' = [x \in Handles |->
                       IF x \in OldAtoms THEN DEFAULTATOMSTI ELSE DecayedSTI[x]]
          /\ importanceIndex' = [b \in Bins |-> ShiftedIndex[b] \ OldAtoms]
          /\ UNCHANGED threw
     ELSE Throw

-----------------------------------------------------------------------------
Next ==
  \/ \E n \in Names : addNode(n)
  \/ \E t \in LinkTypes, out \in HandleSeqs : addLink(t, out)
  \/ \E t \in LinkTypes, out \in HandleSeqs : addLinkFails(t, out)
  \/ \E h \in Handles, recursive \in BOOLEAN : remove(h, recursive)
  \/ \E h \in Handles, s \in CallerSTIs, l \in LTIs : setAttentionValue(h, s, l)
  \/ decayShortTermImportance

Spec == Init /\ [][Next]_vars

-----------------------------------------------------------------------------
(* Properties                                                              *)

\* The type invariant of the table and the TLB.
TypeOK ==
  /\ brk_uuid \in 1 .. MaxHandle + 1
  /\ type \in [Handles -> AtomTypes \cup {NOTYPE}]
  /\ name \in [Handles -> Names \cup {NoName}]
  /\ outgoing \in [Handles -> HandleSeqs \cup {<< >>}]
  /\ incoming \in [Handles -> [Handles -> Nat]]
  /\ sti \in [Handles -> STIs]
  /\ lti \in [Handles -> LTIs]
  /\ nodeIndex \subseteq Names \X Handles
  /\ linkIndex \subseteq LinkTypes \X HandleSeqs \X Handles
  /\ typeIndex \in [AtomTypes -> SUBSET Handles]
  /\ importanceIndex \in [Bins -> SUBSET Handles]
  /\ size \in Int
  /\ threw \in BOOLEAN

\* A handle without an atom has no targets, and handles at or above brk_uuid
\* were never given out.
UnusedHandlesAreEmpty ==
  \A h \in Handles : /\ h >= brk_uuid => type[h] = NOTYPE
                     /\ type[h] = NOTYPE => outgoing[h] = << >>

\* The incoming set of an atom holds exactly one entry for each occurrence of
\* the atom in the outgoing set of a link (Atom::addIncomingHandle against
\* removeIncomingHandle).
IncomingMatchesOutgoing ==
  \A x, l \in Handles : incoming[x][l] = Times(outgoing[l], x)

\* No link in the table has a target that was removed: extract takes a target
\* only together with every link above it.
TargetsAreValid ==
  \A l \in Handles : \A i \in DOMAIN outgoing[l] : isValidHandle(outgoing[l][i])

\* removeIncomingHandle and ~Atom never raise their RuntimeException
\* (Atom.cc: "unable to extract incoming element", "Attempting to remove atom
\* with non-empty incoming set").
NeverThrows == ~threw

\* A link is younger than its targets, so the recursion of extract over the
\* incoming sets ends.
TargetsAreOlder ==
  \A l \in Handles : \A i \in DOMAIN outgoing[l] : outgoing[l][i] < l

\* The node, link and type indexes list the atoms of the table and no others.
IndexesAgree ==
  /\ nodeIndex = {<<name[h], h>> : h \in {g \in Handles : type[g] = "node"}}
  /\ linkIndex = {<<type[h], outgoing[h], h>> : h \in {g \in Handles : IsLink(g)}}
  /\ \A t \in AtomTypes : typeIndex[t] = {h \in Handles : type[h] = t}

\* Every atom is in the bin of its own importance and in no other, also after
\* the bins were shifted by a decay.
ImportanceIndexAgrees ==
  \A h \in Handles, b \in Bins :
    h \in importanceIndex[b] <=> isValidHandle(h) /\ importanceBin(sti[h]) = b

\* Two atoms of the table never have the same type, name and targets, for an
\* unordered link in whatever order: adding what is already there returns the
\* existing handle.
AtomsAreUnique ==
  \A g, h \in Valid :
    /\ type[g] = type[h] /\ name[g] = name[h]
    /\ \/ outgoing[g] = outgoing[h]
       \/ /\ type[g] = "unordered"
          /\ \A x \in Handles : Times(outgoing[g], x) = Times(outgoing[h], x)
    => g = h

\* The hash set, through which lookups by targets and foreach_atom go, lists
\* no removed atom and misses none: an atom of the table is in it, or an equal
\* one that a failed addition left behind.
HashSetAgrees ==
  /\ \A e \in atomSet :
       e[2] # UNDEFINED => e[2] \in Valid /\ e[1] = Value(e[2])
  /\ \A h \in Valid :
       \E e \in atomSet : e[1] = Value(h) /\ e[2] \in {h, UNDEFINED}

\* A handle whose atom was removed never becomes valid again, and a valid
\* handle never comes to name another atom (TLB.h: "an immutable ID").
HandlesAreImmutable ==
  [][\A h \in Handles : /\ h < brk_uuid /\ ~isValidHandle(h) => ~isValidHandle(h)'
                        /\ isValidHandle(h) /\ isValidHandle(h)' => Value(h)' = Value(h)]_vars

-----------------------------------------------------------------------------
(* What the table is to its users                                          *)

AtomValues == ({"node"} \X Names \X {<< >>}) \cup (LinkTypes \X {NoName} \X HandleSeqs)

Set == INSTANCE AtomSet WITH
  Handles <- Handles, Values <- AtomValues, NoAtom <- << >>,
  given <- 1 .. brk_uuid - 1,
  atom <- [h \in Handles |-> IF type[h] = NOTYPE THEN << >> ELSE Value(h)]

\* The table is a set of distinct atoms under handles that never come back,
\* closed under targets: each operation adds one atom that no index and no
\* other atom equals, removes atoms with all the links on them, or changes
\* nothing its users can see.
ImplementsAtomSet == Set!Spec
=============================================================================
