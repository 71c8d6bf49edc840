----------------------- MODULE AtomTableTeardownProofs -----------------------
(***************************************************************************)
(* The destructor of AtomTable uses the table only through remove, so the  *)
(* table stays an AtomSet while it is torn down; and what the destructor   *)
(* leaves when it is done, or when TLB::getHandle throws under it.         *)
(***************************************************************************)
EXTENDS AtomTableTeardown, AtomTableProofs

\* One step of the destructor is one removal, or leaves the table alone.
LEMMA TeardownStepIsTableStep ==
  ASSUME Indexed, [Use \/ Destructor]_teardownVars
  PROVE  [Next]_vars
<1>1. CASE Use
  BY <1>1 DEF Use
<1>2. ASSUME NEW e \in atomSet, RemoveFirst(e)
      PROVE  Next
  <2>1. e[2] \in Handles /\ remove(e[2], TRUE)
    BY <1>2 DEF RemoveFirst, Indexed, HashSetAgrees, Valid
  <2> QED BY <2>1 DEF Next
<1>3. CASE Begin \/ Finish
  BY <1>3 DEF Begin, Finish
<1>4. ASSUME NEW e \in atomSet, NotInTLB(e)
      PROVE  UNCHANGED vars
  BY <1>4 DEF NotInTLB
<1>5. CASE UNCHANGED teardownVars
  BY <1>5 DEF teardownVars
<1> QED BY <1>1, <1>2, <1>3, <1>4, <1>5 DEF Destructor

\* Through its use and its destruction the table's indexes stay exact.
THEOREM TeardownIndexed == TeardownSpec => []Indexed
<1>1. TeardownInit => Indexed
  BY IndexedInit DEF TeardownInit
<1>2. Indexed /\ [Use \/ Destructor]_teardownVars => Indexed'
  BY TeardownStepIsTableStep, IndexedStep
<1> QED BY <1>1, <1>2, PTL DEF TeardownSpec

\* A table that is used and then destroyed behaves as an AtomTable.
THEOREM TeardownImplementsTable == TeardownSpec => Spec
<1>1. TeardownInit => Init
  BY DEF TeardownInit
<1>2. Indexed /\ [Use \/ Destructor]_teardownVars => [Next]_vars
  BY TeardownStepIsTableStep
<1> QED BY <1>1, <1>2, TeardownIndexed, PTL DEF TeardownSpec, Spec

\* To its users the table is an AtomSet until the last atom is gone.
COROLLARY TeardownIsAtomSet == TeardownSpec => ImplementsAtomSet
BY TeardownImplementsTable, TableIsAtomSet

-----------------------------------------------------------------------------
(* What the destructor leaves                                              *)

\* AtomTable::size counts the atoms, and the additions that failed after they
\* were counted; one of those is behind every atom the TLB never saw.
SizeCounts ==
  /\ size >= Cardinality(Valid)
  /\ (\E e \in atomSet : e[2] = UNDEFINED) => size > Cardinality(Valid)

\* The destructor ended with nothing left, or threw over a failed addition.
DestructorLeaves ==
  /\ teardown = "done" => Valid = {}
  /\ teardown = "threw" => size > Cardinality(Valid)

\* The handles are finitely many.
LEMMA ValidIsFinite == IsFiniteSet(Valid) /\ Cardinality(Valid) \in Nat
<1>1. IsFiniteSet(Handles)
  BY HandleBounds, FS_Interval, 1 \in Int, MaxHandle \in Int DEF Handles
<1>2. IsFiniteSet(Valid)
  BY <1>1, FS_Subset DEF Valid
<1> QED BY <1>2, FS_CardinalityType

\* Insert counts the atom it adds.
LEMMA InsertCounts ==
  ASSUME Indexed, Indexed', SizeCounts,
         NEW t \in AtomTypes, NEW n, NEW out, Insert(t, n, out)
  PROVE  SizeCounts'
<1>0. PICK h \in Handles : h = brk_uuid
  BY InsertEffect DEF Indexed
<1>1. /\ type[h] = NOTYPE /\ t # NOTYPE /\ type'[h] = t
      /\ \A g \in Handles \ {h} : type'[g] = type[g]
  BY <1>0, InsertEffect DEF Indexed
<1>2. \A g \in Handles : isValidHandle(g) <=> type[g] # NOTYPE
  BY ValidHasAtom DEF Indexed, Consistent
<1>3. \A g \in Handles : isValidHandle(g)' <=> type'[g] # NOTYPE
  <2>1. brk_uuid' \in Int /\ \A g \in Handles : g >= brk_uuid' => type'[g] = NOTYPE
    BY DEF Indexed, Consistent, TypeOK, UnusedHandlesAreEmpty
  <2> QED BY <2>1 DEF isValidHandle, Handles
<1>4. Valid' = Valid \cup {h} /\ h \notin Valid
  BY <1>1, <1>2, <1>3 DEF Valid
<1>5. Cardinality(Valid') = Cardinality(Valid) + 1
  BY <1>4, ValidIsFinite, FS_AddElement
<1>6. \A e \in atomSet' : e[2] = UNDEFINED => e \in atomSet
  BY <1>0 DEF Insert, Hashed, NewHandle, UNDEFINED, Handles
<1>7. size \in Int /\ size' = size + 1
  BY DEF Insert, Indexed, Consistent, TypeOK
<1> QED BY <1>5, <1>6, <1>7, ValidIsFinite DEF SizeCounts

\* Discard takes the atoms it removes off the count.
LEMMA DiscardCounts ==
  ASSUME Indexed, SizeCounts, NEW X \in SUBSET Valid, Discard(X)
  PROVE  SizeCounts'
<1>1. Valid' = Valid \ X
  BY DEF Valid, isValidHandle, Discard
<1>2. IsFiniteSet(X) /\ Cardinality(X) \in Nat
  BY ValidIsFinite, FS_Subset, FS_CardinalityType
<1>3. Cardinality(Valid') = Cardinality(Valid) - Cardinality(X)
  <2>1. Valid \cap X = X
    OBVIOUS
  <2> QED BY <1>1, <1>2, <2>1, ValidIsFinite, FS_Difference
<1>4. size \in Int /\ size' = size - Cardinality(X) /\ atomSet' \subseteq atomSet
  BY DEF Discard, Erased, Indexed, Consistent, TypeOK
<1> QED BY <1>2, <1>3, <1>4, ValidIsFinite DEF SizeCounts

\* Every operation of the table keeps the count.
LEMMA CountStep ==
  ASSUME Indexed, Indexed', SizeCounts, [Next]_vars
  PROVE  SizeCounts'
<1>1. ASSUME NEW n \in Names, addNode(n)
      PROVE  SizeCounts'
  BY <1>1, InsertCounts DEF addNode, AtomTypes
<1>2. ASSUME NEW t \in LinkTypes, NEW out \in HandleSeqs, addLink(t, out)
      PROVE  SizeCounts'
  BY <1>2, InsertCounts DEF addLink, AtomTypes
<1>3. ASSUME NEW t \in LinkTypes, NEW out \in HandleSeqs, addLinkFails(t, out)
      PROVE  SizeCounts'
  <2>1. size \in Int /\ size' = size + 1 /\ Valid' = Valid
    BY <1>3 DEF addLinkFails, atoms, Valid, isValidHandle, Indexed, Consistent, TypeOK
  <2> QED BY <2>1, ValidIsFinite DEF SizeCounts
<1>4. ASSUME NEW h \in Handles, NEW recursive \in BOOLEAN, remove(h, recursive)
      PROVE  SizeCounts'
  <2> DEFINE X == Extracted(h, recursive)
  <2>1. h \in Valid
    BY <1>4 DEF remove, Valid
  <2>2. X \in SUBSET Valid /\ IncomingClosed(X)
    BY <2>1, TakenAreValid, ExtractedClosed DEF Indexed
  <2>3. Discard(X)
    BY <1>4, <2>2, ClosedIsRemovable DEF remove, Valid, Indexed
  <2> QED BY <2>2, <2>3, DiscardCounts
<1>5. ASSUME NEW h \in Handles, NEW s \in CallerSTIs, NEW l \in LTIs,
             setAttentionValue(h, s, l)
      PROVE  SizeCounts'
  BY <1>5 DEF setAttentionValue, atoms, SizeCounts, Valid, isValidHandle
<1>6. CASE decayShortTermImportance
  <2>1. OldAtoms \in SUBSET Valid /\ IncomingClosed(OldAtoms)
    BY TakenAreValid, OldAtomsClosed DEF Indexed
  <2>2. Discard(OldAtoms)
    BY <1>6, <2>1, ClosedIsRemovable DEF decayShortTermImportance, Valid, Indexed
  <2> QED BY <2>1, <2>2, DiscardCounts
<1>7. CASE UNCHANGED vars
  BY <1>7 DEF vars, SizeCounts, Valid, isValidHandle
<1> QED BY <1>1, <1>2, <1>3, <1>4, <1>5, <1>6, <1>7 DEF Next

\* Once the destructor is done or has thrown, nothing changes any more.
LEMMA LeavesStep ==
  ASSUME Indexed, SizeCounts, DestructorLeaves, [Use \/ Destructor]_teardownVars
  PROVE  DestructorLeaves'
<1>1. ASSUME teardown' = teardown, teardown \in {"no", "running"}
      PROVE  DestructorLeaves'
  BY <1>1 DEF DestructorLeaves
<1>2. CASE Use
  BY <1>1, <1>2 DEF Use
<1>3. CASE Begin
  BY <1>3 DEF Begin, DestructorLeaves
<1>4. ASSUME NEW e \in atomSet, RemoveFirst(e)
      PROVE  DestructorLeaves'
  BY <1>1, <1>4 DEF RemoveFirst
<1>5. ASSUME NEW e \in atomSet, NotInTLB(e)
      PROVE  DestructorLeaves'
  <2>1. teardown' = "threw" /\ e[2] = UNDEFINED /\ size' = size /\ Valid' = Valid
    BY <1>5 DEF NotInTLB, vars, Valid, isValidHandle
  <2> QED BY <2>1 DEF DestructorLeaves, SizeCounts
<1>6. CASE Finish
  <2>1. teardown' = "done" /\ atomSet = {} /\ Valid' = Valid
    BY <1>6 DEF Finish, vars, Valid, isValidHandle
  <2>2. Valid = {}
    BY <2>1 DEF Indexed, HashSetAgrees
  <2> QED BY <2>1, <2>2 DEF DestructorLeaves
<1>7. CASE UNCHANGED teardownVars
  <2>1. teardown' = teardown /\ size' = size /\ Valid' = Valid
    BY <1>7 DEF teardownVars, vars, Valid, isValidHandle
  <2> QED BY <2>1 DEF DestructorLeaves
<1> QED BY <1>2, <1>3, <1>4, <1>5, <1>6, <1>7 DEF Destructor

\* "Remove all atoms from AtomTable" (AtomTable::~AtomTable): when the loop ends
\* no atom is left, and when TLB::getHandle throws out of it an addition had
\* failed half-way before.
THEOREM DestructorLeavesNothing == TeardownSpec => []DestructorLeaves
<1>1. TeardownInit => SizeCounts /\ DestructorLeaves
  <2> SUFFICES ASSUME TeardownInit PROVE SizeCounts /\ DestructorLeaves
    OBVIOUS
  <2>1. Valid = {} /\ size = 0 /\ atomSet = {} /\ teardown = "no"
    BY DEF TeardownInit, Init, Valid, isValidHandle
  <2> QED BY <2>1, FS_EmptySet DEF SizeCounts, DestructorLeaves
<1>2. Indexed /\ Indexed' /\ SizeCounts /\ [Use \/ Destructor]_teardownVars => SizeCounts'
  BY TeardownStepIsTableStep, CountStep
<1>3. /\ Indexed /\ SizeCounts /\ DestructorLeaves
      /\ [Use \/ Destructor]_teardownVars
      => DestructorLeaves'
  BY LeavesStep
<1> QED BY <1>1, <1>2, <1>3, TeardownIndexed, PTL DEF TeardownSpec
=============================================================================
