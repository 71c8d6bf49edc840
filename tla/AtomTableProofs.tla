--------------------------- MODULE AtomTableProofs ---------------------------
(***************************************************************************)
(* Proofs about AtomTable: the incoming sets mirror the outgoing sets, no  *)
(* link is left with a removed target, every atom sits in the bin of its   *)
(* importance, and the consistency checks of Atom.cc never throw; and the  *)
(* AtomTable is a set of distinct atoms: its indexes list exactly the      *)
(* atoms that are there, no two atoms are equal, the hash set misses none, *)
(* and every operation is one that AtomSet allows.                         *)
(***************************************************************************)
EXTENDS AtomTable, FiniteSetTheorems, WellFoundedInduction, TLAPS

-----------------------------------------------------------------------------
(* Facts about the operators                                               *)

\* The arithmetic of the bins (ImportanceIndex::importanceBin).
LEMMA BinFacts ==
  /\ STI_LOW \in Int /\ STI_HIGH \in Int /\ MIN_STI \in Int
  /\ IMPORTANCE_INDEX_SIZE \in Nat /\ IMPORTANCE_INDEX_SIZE >= 2
  /\ \A s \in STIs : s \in Int /\ importanceBin(s) \in 0 .. IMPORTANCE_INDEX_SIZE - 1
  /\ CallerSTIs \subseteq STIs
  /\ DEFAULTATOMSTI \in STIs /\ DEFAULTATOMLTI \in LTIs
BY ImportanceBounds
   DEF IMPORTANCE_INDEX_SIZE, importanceBin, STIs, DEFAULTATOMSTI, DEFAULTATOMLTI

\* Occurrences in an outgoing set are counted by a natural number.
LEMMA TimesType ==
  ASSUME NEW seq \in HandleSeqs \cup {<< >>}, NEW x
  PROVE  Times(seq, x) \in Nat
<1> DEFINE P == {i \in DOMAIN seq : seq[i] = x}
<1>1. PICK n \in Nat : DOMAIN seq = 1 .. n
  <2>1. CASE seq = << >>
    BY <2>1
  <2>2. CASE seq \in HandleSeqs
    BY <2>2, HandleBounds DEF HandleSeqs
  <2> QED BY <2>1, <2>2
<1>2. IsFiniteSet(DOMAIN seq)
  BY <1>1, FS_Interval
<1>3. IsFiniteSet(P)
  BY <1>2, FS_Subset
<1> QED BY <1>3, FS_CardinalityType DEF Times

\* An empty outgoing set has no occurrences.
LEMMA TimesEmpty ==
  ASSUME NEW x
  PROVE  Times(<< >>, x) = 0
<1>1. {i \in DOMAIN << >> : << >>[i] = x} = {}
  OBVIOUS
<1> QED BY <1>1, FS_EmptySet DEF Times

\* A target occurs at least once.
LEMMA TimesPositive ==
  ASSUME NEW seq \in HandleSeqs \cup {<< >>}, NEW i \in DOMAIN seq
  PROVE  Times(seq, seq[i]) > 0
<1> DEFINE P == {j \in DOMAIN seq : seq[j] = seq[i]}
<1>1. PICK n \in Nat : DOMAIN seq = 1 .. n
  <2>1. CASE seq = << >>
    BY <2>1
  <2>2. CASE seq \in HandleSeqs
    BY <2>2, HandleBounds DEF HandleSeqs
  <2> QED BY <2>1, <2>2
<1>2. IsFiniteSet(P)
  BY <1>1, FS_Interval, FS_Subset
<1>3. i \in P
  OBVIOUS
<1>4. Cardinality(P) # 0
  BY <1>2, <1>3, FS_EmptySet
<1>5. Cardinality(P) \in Nat
  BY <1>2, FS_CardinalityType
<1> QED BY <1>4, <1>5 DEF Times

\* What is counted is there.
LEMMA TimesZero ==
  ASSUME NEW seq, NEW x, Times(seq, x) # 0
  PROVE  \E i \in DOMAIN seq : seq[i] = x
<1>1. CASE {i \in DOMAIN seq : seq[i] = x} = {}
  BY <1>1, FS_EmptySet DEF Times
<1>2. CASE {i \in DOMAIN seq : seq[i] = x} # {}
  BY <1>2
<1> QED BY <1>1, <1>2

\* The recursion of extract returns with every link it could go up to.
LEMMA ReachedClosed ==
  ASSUME NEW h \in Handles
  PROVE  IncomingClosed(Reached(h)) /\ h \in Reached(h)
BY DEF IncomingClosed, Reached, IncomingLinks

\* What is visited from a visited atom is visited.
LEMMA ReachedTransitive ==
  ASSUME NEW h \in Handles, NEW x \in Reached(h)
  PROVE  Reached(x) \subseteq Reached(h)
BY DEF Reached

\* A set of handles has a cardinality.
LEMMA HandleSetCardinality ==
  ASSUME NEW X \in SUBSET Handles
  PROVE  Cardinality(X) \in Nat
<1>1. IsFiniteSet(Handles)
  BY HandleBounds, FS_Interval, 1 \in Int, MaxHandle \in Int DEF Handles
<1>2. IsFiniteSet(X)
  BY <1>1, FS_Subset
<1> QED BY <1>2, FS_CardinalityType

-----------------------------------------------------------------------------
(* The type invariant                                                      *)

\* Detaching links keeps the counts of the incoming sets natural, because
\* removeIncomingHandle throws rather than take out what is not there.
LEMMA DetachedType ==
  ASSUME TypeOK, NEW X \in SUBSET Handles, Removable(X)
  PROVE  Detached(X) \in [Handles -> [Handles -> Nat]]
<1>1. \A x, l \in Handles : Detached(X)[x][l] \in Nat
  <2> SUFFICES ASSUME NEW x \in Handles, NEW l \in Handles
               PROVE  Detached(X)[x][l] \in Nat
    OBVIOUS
  <2>1. Times(outgoing[l], x) \in Nat
    BY TimesType DEF TypeOK
  <2>2. Detached(X)[x][l] \in Int
    BY <2>1 DEF TypeOK, Detached
  <2> QED BY <2>2 DEF Removable
<1> QED BY <1>1 DEF Detached

\* What an extraction takes are handles.
LEMMA ExtractedType ==
  ASSUME NEW h \in Handles, NEW recursive \in BOOLEAN
  PROVE  Extracted(h, recursive) \in SUBSET Handles
BY DEF Extracted, Reached

\* The bins hold handles, also after the shift; decayed importance stays in
\* the range of sti_t.
LEMMA DecayTypes ==
  ASSUME TypeOK
  PROVE  /\ ShiftedIndex \in [Bins -> SUBSET Handles]
         /\ DecayedSTI \in [Handles -> STIs]
         /\ OldAtoms \in SUBSET Handles
<1>1. ShiftedIndex \in [Bins -> SUBSET Handles]
  <2> SUFFICES ASSUME NEW b \in Bins
               PROVE  ShiftedIndex[b] \in SUBSET Handles
    BY DEF ShiftedIndex
  <2>1. 0 \in Bins /\ 1 \in Bins
    BY BinFacts DEF Bins
  <2>2. b \in 1 .. IMPORTANCE_INDEX_SIZE - 2 => b + 1 \in Bins
    BY BinFacts DEF Bins
  <2> QED BY <2>1, <2>2 DEF TypeOK, ShiftedIndex
<1>2. DecayedSTI \in [Handles -> STIs]
  BY BinFacts DEF TypeOK, DecayedSTI, STIs
<1>3. \A b \in 0 .. importanceBin(MIN_STI) : b \in Bins
  BY ImportanceBounds DEF Bins, importanceBin, IMPORTANCE_INDEX_SIZE
<1> QED BY <1>1, <1>2, <1>3 DEF OldAtoms

\* Taking atoms away keeps the types of what Discard changes.
LEMMA DiscardType ==
  ASSUME TypeOK, NEW X \in SUBSET Handles, Removable(X), Discard(X)
  PROVE  /\ brk_uuid' \in 1 .. MaxHandle + 1
         /\ type' \in [Handles -> AtomTypes \cup {NOTYPE}]
         /\ name' \in [Handles -> Names \cup {NoName}]
         /\ outgoing' \in [Handles -> HandleSeqs \cup {<< >>}]
         /\ incoming' \in [Handles -> [Handles -> Nat]]
         /\ lti' \in [Handles -> LTIs]
         /\ nodeIndex' \subseteq Names \X Handles
         /\ linkIndex' \subseteq LinkTypes \X HandleSeqs \X Handles
         /\ typeIndex' \in [AtomTypes -> SUBSET Handles]
         /\ size' \in Int
<1>1. incoming' \in [Handles -> [Handles -> Nat]]
  BY DetachedType DEF Discard
<1>2. size' \in Int
  <2>1. Cardinality(X) \in Nat
    BY HandleSetCardinality
  <2> QED BY <2>1 DEF Discard, TypeOK
<1>3. lti' \in [Handles -> LTIs]
  BY BinFacts DEF Discard, TypeOK
<1> QED BY <1>1, <1>2, <1>3 DEF Discard, TypeOK

\* Inserting an atom keeps the types of what Insert changes.
LEMMA InsertType ==
  ASSUME TypeOK,
         NEW t \in AtomTypes, NEW n \in Names \cup {NoName},
         NEW out \in HandleSeqs \cup {<< >>}, Insert(t, n, out)
  PROVE  /\ brk_uuid' \in 1 .. MaxHandle + 1
         /\ type' \in [Handles -> AtomTypes \cup {NOTYPE}]
         /\ name' \in [Handles -> Names \cup {NoName}]
         /\ outgoing' \in [Handles -> HandleSeqs \cup {<< >>}]
         /\ incoming' \in [Handles -> [Handles -> Nat]]
         /\ sti' \in [Handles -> STIs]
         /\ lti' \in [Handles -> LTIs]
         /\ typeIndex' \in [AtomTypes -> SUBSET Handles]
         /\ importanceIndex' \in [Bins -> SUBSET Handles]
         /\ size' \in Int
         /\ threw' \in BOOLEAN
<1> DEFINE h == brk_uuid
<1>1. h \in Handles
  BY DEF Insert, NewHandle
<1>2. brk_uuid' \in 1 .. MaxHandle + 1
  BY <1>1, HandleBounds DEF Insert, NewHandle, Handles
<1>3. incoming' \in [Handles -> [Handles -> Nat]]
  <2>1. \A x \in Handles : Times(out, x) \in Nat
    BY TimesType
  <2> QED BY <1>1, <2>1 DEF Insert, NewHandle, TypeOK
<1>4. sti' \in [Handles -> STIs] /\ lti' \in [Handles -> LTIs]
  BY BinFacts DEF Insert, NewHandle, TypeOK
<1>5. importanceIndex' \in [Bins -> SUBSET Handles]
  BY <1>1 DEF Insert, NewHandle, TypeOK
<1>6. typeIndex' \in [AtomTypes -> SUBSET Handles]
  BY <1>1 DEF Insert, NewHandle, TypeOK
<1> QED BY <1>1, <1>2, <1>3, <1>4, <1>5, <1>6 DEF Insert, NewHandle, TypeOK

\* Every operation of the table keeps its types.
LEMMA TypeStep == TypeOK /\ [Next]_vars => TypeOK'
<1> SUFFICES ASSUME TypeOK, [Next]_vars
             PROVE  TypeOK'
  OBVIOUS
<1>1. ASSUME NEW n \in Names, addNode(n)
      PROVE  TypeOK'
  <2>1. Insert("node", n, << >>) /\ brk_uuid \in Handles
    BY <1>1 DEF addNode, Insert, NewHandle
  <2>2. nodeIndex' \subseteq Names \X Handles
    BY <1>1, <2>1 DEF addNode, NewHandle, TypeOK
  <2> QED BY <1>1, <2>1, <2>2, InsertType DEF addNode, TypeOK, AtomTypes
<1>2. ASSUME NEW t \in LinkTypes, NEW out \in HandleSeqs, addLink(t, out)
      PROVE  TypeOK'
  <2>1. Insert(t, NoName, out) /\ brk_uuid \in Handles
    BY <1>2 DEF addLink, Insert, NewHandle
  <2>2. linkIndex' \subseteq LinkTypes \X HandleSeqs \X Handles
    BY <1>2, <2>1 DEF addLink, NewHandle, TypeOK
  <2> QED BY <1>2, <2>1, <2>2, InsertType DEF addLink, TypeOK, AtomTypes
<1>3. ASSUME NEW t \in LinkTypes, NEW out \in HandleSeqs, addLinkFails(t, out)
      PROVE  TypeOK'
  BY <1>3 DEF addLinkFails, TypeOK, atoms, indexes
<1>4. ASSUME NEW h \in Handles, NEW recursive \in BOOLEAN, remove(h, recursive)
      PROVE  TypeOK'
  <2> DEFINE X == Extracted(h, recursive)
  <2>1. X \in SUBSET Handles
    BY ExtractedType
  <2>2. CASE Removable(X)
    <3>1. sti' \in [Handles -> STIs]
      BY <1>4, <2>2, BinFacts DEF remove, TypeOK
    <3>2. importanceIndex' \in [Bins -> SUBSET Handles]
      BY <1>4, <2>2 DEF remove, TypeOK
    <3>3. Discard(X) /\ threw' = threw
      BY <1>4, <2>2 DEF remove
    <3> QED BY <2>1, <2>2, <3>1, <3>2, <3>3, DiscardType DEF TypeOK
  <2>3. CASE ~Removable(X)
    BY <1>4, <2>3 DEF remove, Throw, TypeOK, atoms, indexes
  <2> QED BY <2>2, <2>3
<1>5. ASSUME NEW h \in Handles, NEW s \in CallerSTIs, NEW l \in LTIs,
             setAttentionValue(h, s, l)
      PROVE  TypeOK'
  <2>1. importanceIndex' \in [Bins -> SUBSET Handles]
    BY <1>5 DEF setAttentionValue, TypeOK
  <2> QED BY <1>5, <2>1, BinFacts DEF setAttentionValue, TypeOK, atoms, indexes
<1>6. ASSUME decayShortTermImportance
      PROVE  TypeOK'
  <2>1. OldAtoms \in SUBSET Handles
    BY DecayTypes
  <2>2. CASE Removable(OldAtoms)
    <3>1. sti' \in [Handles -> STIs]
      BY <1>6, <2>2, BinFacts, DecayTypes DEF decayShortTermImportance
    <3>2. importanceIndex' \in [Bins -> SUBSET Handles]
      BY <1>6, <2>2, DecayTypes DEF decayShortTermImportance
    <3>3. Discard(OldAtoms) /\ threw' = threw
      BY <1>6, <2>2 DEF decayShortTermImportance
    <3> QED BY <2>1, <2>2, <3>1, <3>2, <3>3, DiscardType DEF TypeOK
  <2>3. CASE ~Removable(OldAtoms)
    BY <1>6, <2>3 DEF decayShortTermImportance, Throw, TypeOK, atoms, indexes
  <2> QED BY <2>2, <2>3
<1>7. CASE UNCHANGED vars
  BY <1>7 DEF vars, TypeOK
<1> QED BY <1>1, <1>2, <1>3, <1>4, <1>5, <1>6, <1>7 DEF Next

\* The empty table has its types.
LEMMA TypeInit == Init => TypeOK
<1> SUFFICES ASSUME Init PROVE TypeOK
  OBVIOUS
<1>1. brk_uuid \in 1 .. MaxHandle + 1
  BY HandleBounds DEF Init
<1>2. sti \in [Handles -> STIs] /\ lti \in [Handles -> LTIs]
  BY BinFacts DEF Init
<1>3. incoming \in [Handles -> [Handles -> Nat]] /\ size \in Int
  BY DEF Init
<1> QED BY <1>1, <1>2, <1>3 DEF Init, TypeOK

\* The table and the TLB hold values of their types in every reachable state.
THEOREM TypeCorrectness == Spec => []TypeOK
BY TypeInit, TypeStep, PTL DEF Spec

-----------------------------------------------------------------------------
(* The structure of the table                                              *)

\* The inductive invariant: the incoming sets, the targets and the importance
\* index depend on one another, because extract finds the links to take away
\* in the incoming sets and decay finds the atoms in the importance index.
Consistent ==
  /\ TypeOK
  /\ UnusedHandlesAreEmpty
  /\ IncomingMatchesOutgoing
  /\ TargetsAreValid
  /\ TargetsAreOlder
  /\ ImportanceIndexAgrees
  /\ NeverThrows

\* A set that is closed under the incoming links can be taken away without an
\* exception from removeIncomingHandle or ~Atom.
LEMMA ClosedIsRemovable ==
  ASSUME Consistent, NEW X \in SUBSET Handles, IncomingClosed(X)
  PROVE  Removable(X)
<1> SUFFICES ASSUME NEW x \in Handles, NEW l \in Handles
             PROVE  /\ Detached(X)[x][l] >= 0
                    /\ x \in X => Detached(X)[x][l] = 0
  BY DEF Removable
<1>1. incoming[x][l] \in Nat /\ incoming[x][l] = Times(outgoing[l], x)
  BY DEF Consistent, TypeOK, IncomingMatchesOutgoing
<1>2. CASE l \in X
  BY <1>1, <1>2 DEF Detached
<1>3. CASE l \notin X
  <2>1. Detached(X)[x][l] = incoming[x][l]
    BY <1>3 DEF Detached
  <2>2. x \in X => ~(incoming[x][l] > 0)
    BY <1>3 DEF IncomingClosed, IncomingLinks
  <2> QED BY <1>1, <2>1, <2>2
<1> QED BY <1>2, <1>3

\* Taking away a closed set leaves incoming and outgoing sets that match and
\* no link without its targets.
LEMMA DiscardKeepsStructure ==
  ASSUME Consistent, NEW X \in SUBSET Handles, IncomingClosed(X), Discard(X)
  PROVE  /\ UnusedHandlesAreEmpty'
         /\ IncomingMatchesOutgoing'
         /\ TargetsAreValid'
         /\ TargetsAreOlder'
<1>1. UnusedHandlesAreEmpty'
  BY DEF Consistent, UnusedHandlesAreEmpty, Discard
<1>2. IncomingMatchesOutgoing'
  <2> SUFFICES ASSUME NEW x \in Handles, NEW l \in Handles
               PROVE  incoming'[x][l] = Times(outgoing'[l], x)
    BY DEF IncomingMatchesOutgoing, Times
  <2>1. incoming[x][l] \in Nat /\ incoming[x][l] = Times(outgoing[l], x)
    BY DEF Consistent, TypeOK, IncomingMatchesOutgoing
  <2>2. CASE l \in X
    <3>1. outgoing'[l] = << >>
      BY <2>2 DEF Discard
    <3>2. incoming'[x][l] = 0
      BY <2>1, <2>2 DEF Discard, Detached
    <3> QED BY <3>1, <3>2, TimesEmpty
  <2>3. CASE l \notin X
    BY <2>1, <2>3 DEF Discard, Detached
  <2> QED BY <2>2, <2>3
<1>3. TargetsAreValid' /\ TargetsAreOlder'
  <2> SUFFICES ASSUME NEW l \in Handles, NEW i \in DOMAIN outgoing'[l]
               PROVE  /\ outgoing'[l][i] \in Handles
                      /\ outgoing'[l][i] < brk_uuid'
                      /\ type'[outgoing'[l][i]] # NOTYPE
                      /\ outgoing'[l][i] < l
    BY DEF TargetsAreValid, TargetsAreOlder, isValidHandle
  <2>1. l \notin X
    BY DEF Discard
  <2>2. outgoing'[l] = outgoing[l]
    BY <2>1 DEF Discard
  <2>3. isValidHandle(outgoing[l][i]) /\ outgoing[l][i] < l
    BY <2>2 DEF Consistent, TargetsAreValid, TargetsAreOlder
  <2>4. outgoing[l][i] \in Handles
    BY <2>3 DEF isValidHandle
  <2>5. Times(outgoing[l], outgoing[l][i]) > 0
    BY <2>2, TimesPositive DEF Consistent, TypeOK
  <2>6. l \in IncomingLinks(outgoing[l][i])
    BY <2>4, <2>5 DEF Consistent, IncomingMatchesOutgoing, IncomingLinks
  <2>7. outgoing[l][i] \notin X
    BY <2>1, <2>6 DEF IncomingClosed
  <2> QED BY <2>2, <2>3, <2>4, <2>7 DEF isValidHandle, Discard
<1> QED BY <1>1, <1>2, <1>3

\* What extract takes is closed under the incoming links.
LEMMA ExtractedClosed ==
  ASSUME NEW h \in Handles, NEW recursive \in BOOLEAN
  PROVE  IncomingClosed(Extracted(h, recursive))
BY ReachedClosed DEF Extracted, IncomingClosed

\* Inserting an atom with valid targets keeps the structure.
LEMMA InsertKeepsStructure ==
  ASSUME Consistent,
         NEW t \in AtomTypes, NEW n \in Names \cup {NoName},
         NEW out \in HandleSeqs \cup {<< >>},
         \A i \in DOMAIN out : isValidHandle(out[i]),
         Insert(t, n, out)
  PROVE  /\ UnusedHandlesAreEmpty'
         /\ IncomingMatchesOutgoing'
         /\ TargetsAreValid'
         /\ TargetsAreOlder'
         /\ ImportanceIndexAgrees'
<1> DEFINE h == brk_uuid
<1>1. /\ h \in Handles /\ h \in Nat
      /\ type[h] = NOTYPE /\ outgoing[h] = << >>
      /\ t # NOTYPE
  BY DEF Insert, NewHandle, Handles, Consistent, UnusedHandlesAreEmpty, AtomTypes, LinkTypes, NOTYPE
<1>2. \A x \in Handles : isValidHandle(x) => /\ x < h /\ x < brk_uuid'
                                            /\ type'[x] # NOTYPE
  BY <1>1 DEF isValidHandle, Insert, NewHandle, Handles, Consistent, TypeOK
<1>3. UnusedHandlesAreEmpty'
  BY <1>1, HandleBounds DEF Consistent, UnusedHandlesAreEmpty, TypeOK, Insert, NewHandle, Handles
<1>4. IncomingMatchesOutgoing'
  <2> SUFFICES ASSUME NEW x \in Handles, NEW l \in Handles
               PROVE  incoming'[x][l] = Times(outgoing'[l], x)
    BY DEF IncomingMatchesOutgoing, Times
  <2>1. incoming[x][l] = Times(outgoing[l], x)
    BY DEF Consistent, IncomingMatchesOutgoing
  <2>2. CASE l = h
    <3>1. incoming[x][h] = 0
      BY <1>1, <2>1, <2>2, TimesEmpty
    <3>2. outgoing'[h] = out
      BY <1>1 DEF Insert, NewHandle, Consistent, TypeOK
    <3>3. incoming'[x][h] = incoming[x][h] + Times(out, x)
      BY <1>1 DEF Insert, NewHandle, Consistent, TypeOK
    <3>4. Times(out, x) \in Nat
      BY TimesType
    <3> QED BY <2>2, <3>1, <3>2, <3>3, <3>4
  <2>3. CASE l # h
    <3>1. outgoing'[l] = outgoing[l]
      BY <1>1, <2>3 DEF Insert, NewHandle, Consistent, TypeOK
    <3>2. incoming'[x][l] = incoming[x][l]
      BY <1>1, <2>3 DEF Insert, NewHandle, Consistent, TypeOK
    <3> QED BY <2>1, <3>1, <3>2
  <2> QED BY <2>2, <2>3
<1>5. TargetsAreValid' /\ TargetsAreOlder'
  <2> SUFFICES ASSUME NEW l \in Handles, NEW i \in DOMAIN outgoing'[l]
               PROVE  /\ outgoing'[l][i] \in Handles
                      /\ outgoing'[l][i] < brk_uuid'
                      /\ type'[outgoing'[l][i]] # NOTYPE
                      /\ outgoing'[l][i] < l
    BY DEF TargetsAreValid, TargetsAreOlder, isValidHandle
  <2>1. CASE l = h
    <3>1. outgoing'[l] = out
      BY <1>1, <2>1 DEF Insert, NewHandle, Consistent, TypeOK
    <3>2. isValidHandle(out[i]) /\ out[i] \in Handles
      BY <3>1 DEF isValidHandle
    <3> QED BY <1>2, <2>1, <3>1, <3>2 DEF isValidHandle
  <2>2. CASE l # h
    <3>1. outgoing'[l] = outgoing[l]
      BY <1>1, <2>2 DEF Insert, NewHandle, Consistent, TypeOK
    <3>2. isValidHandle(outgoing[l][i]) /\ outgoing[l][i] < l
      BY <3>1 DEF Consistent, TargetsAreValid, TargetsAreOlder
    <3> QED BY <1>2, <3>1, <3>2 DEF isValidHandle
  <2> QED BY <2>1, <2>2
<1>6. ImportanceIndexAgrees'
  <2> SUFFICES ASSUME NEW x \in Handles, NEW b \in Bins
               PROVE  x \in importanceIndex'[b] <=>
                        isValidHandle(x)' /\ importanceBin(sti'[x]) = b
    BY DEF ImportanceIndexAgrees, importanceBin
  <2>1. x \in importanceIndex[b] <=> isValidHandle(x) /\ importanceBin(sti[x]) = b
    BY DEF Consistent, ImportanceIndexAgrees
  <2>2. CASE x = h
    <3>1. ~isValidHandle(x) /\ isValidHandle(x)'
      BY <1>1, <2>2 DEF isValidHandle, Insert, NewHandle, Consistent, TypeOK
    <3>2. sti'[x] = DEFAULTATOMSTI
      BY <1>1, <2>2 DEF Insert, NewHandle, Consistent, TypeOK
    <3>3. importanceIndex'[b] = IF importanceBin(DEFAULTATOMSTI) = b
                                THEN importanceIndex[b] \cup {h}
                                ELSE importanceIndex[b]
      BY DEF Insert, NewHandle, Consistent, TypeOK
    <3> QED BY <2>1, <2>2, <3>1, <3>2, <3>3
  <2>3. CASE x # h
    <3>1. isValidHandle(x)' <=> isValidHandle(x)
      BY <1>1, <2>3 DEF isValidHandle, Insert, NewHandle, Consistent, TypeOK, Handles
    <3>2. sti'[x] = sti[x]
      BY <1>1, <2>3 DEF Insert, NewHandle, Consistent, TypeOK
    <3>3. x \in importanceIndex'[b] <=> x \in importanceIndex[b]
      BY <2>3 DEF Insert, NewHandle, Consistent, TypeOK
    <3> QED BY <2>1, <3>1, <3>2, <3>3
  <2> QED BY <2>2, <2>3
<1> QED BY <1>3, <1>4, <1>5, <1>6

\* After the shift every atom is in the bin of its decayed importance.
LEMMA ShiftedIndexAgrees ==
  ASSUME Consistent, NEW h \in Handles, NEW b \in Bins
  PROVE  h \in ShiftedIndex[b] <=>
           isValidHandle(h) /\ importanceBin(DecayedSTI[h]) = b
<1> DEFINE c == importanceBin(sti[h])
<1>1. \A d \in Bins : h \in importanceIndex[d] <=> isValidHandle(h) /\ c = d
  BY DEF Consistent, ImportanceIndexAgrees
<1>2. sti[h] \in STIs /\ c \in 0 .. IMPORTANCE_INDEX_SIZE - 1 /\ sti[h] = c + STI_LOW
  BY BinFacts DEF Consistent, TypeOK, importanceBin
<1>3. DecayedSTI[h] = IF isValidHandle(h) /\ c # 0 THEN sti[h] - 1 ELSE sti[h]
  <2>1. (\E d \in 1 .. IMPORTANCE_INDEX_SIZE - 1 : h \in importanceIndex[d])
          <=> isValidHandle(h) /\ c # 0
    BY <1>1, <1>2, BinFacts DEF Bins
  <2>2. sti[h] # STI_LOW <=> c # 0
    BY <1>2, BinFacts
  <2> QED BY <2>1, <2>2 DEF DecayedSTI
<1>4. importanceBin(DecayedSTI[h]) = IF isValidHandle(h) /\ c # 0 THEN c - 1 ELSE c
  BY <1>2, <1>3, BinFacts DEF importanceBin
<1>5. CASE b = 0
  <2>1. ShiftedIndex[b] = importanceIndex[0] \cup importanceIndex[1]
    BY <1>5, BinFacts DEF ShiftedIndex
  <2> QED BY <1>1, <1>2, <1>4, <1>5, <2>1, BinFacts DEF Bins
<1>6. CASE b \in 1 .. IMPORTANCE_INDEX_SIZE - 2
  <2>1. ShiftedIndex[b] = importanceIndex[b + 1]
    BY <1>6, BinFacts DEF ShiftedIndex
  <2> QED BY <1>1, <1>2, <1>4, <1>6, <2>1, BinFacts DEF Bins
<1>7. CASE b = IMPORTANCE_INDEX_SIZE - 1 /\ b # 0
  <2>1. ShiftedIndex[b] = {}
    BY <1>7, BinFacts DEF ShiftedIndex
  <2> QED BY <1>2, <1>4, <1>7, <2>1, BinFacts
<1>8. CASE b = IMPORTANCE_INDEX_SIZE
  <2>1. ShiftedIndex[b] = importanceIndex[b]
    BY <1>8, BinFacts DEF ShiftedIndex
  <2> QED BY <1>1, <1>2, <1>4, <1>8, <2>1, BinFacts
<1> QED BY <1>5, <1>6, <1>7, <1>8, BinFacts DEF Bins

\* Decay takes a closed set too: a link above an atom it takes is old, and the
\* importance index shows it to the scan.
LEMMA OldAtomsClosed ==
  ASSUME Consistent
  PROVE  IncomingClosed(OldAtoms)
<1> SUFFICES ASSUME NEW x \in OldAtoms, NEW l \in IncomingLinks(x)
             PROVE  l \in OldAtoms
  BY DEF IncomingClosed
<1>1. x \in Handles /\ l \in Handles /\ \A y \in Reached(x) : isOld(y)
  BY DecayTypes DEF OldAtoms, IncomingLinks, Consistent
<1>2. l \in Reached(x)
  BY <1>1, ReachedClosed DEF IncomingClosed
<1>3. \A y \in Reached(l) : isOld(y)
  BY <1>1, <1>2, ReachedTransitive
<1>4. isValidHandle(l)
  <2>1. incoming[x][l] > 0 /\ incoming[x][l] = Times(outgoing[l], x)
    BY <1>1 DEF IncomingLinks, Consistent, IncomingMatchesOutgoing
  <2>2. outgoing[l] # << >>
    BY <2>1, TimesEmpty
  <2> QED BY <1>1, <2>2 DEF Consistent, UnusedHandlesAreEmpty, isValidHandle, TypeOK, Handles
<1>5. DecayedSTI[l] \in STIs /\ DecayedSTI[l] < MIN_STI
  BY <1>1, <1>2, DecayTypes DEF isOld, Consistent
<1> DEFINE b == importanceBin(DecayedSTI[l])
<1>6. b \in Bins /\ b \in 0 .. importanceBin(MIN_STI)
  BY <1>5, BinFacts DEF Bins, importanceBin, STIs
<1>7. l \in ShiftedIndex[b]
  BY <1>1, <1>4, <1>6, ShiftedIndexAgrees
<1> QED BY <1>3, <1>6, <1>7 DEF OldAtoms

\* Every operation of the table keeps it consistent.
LEMMA ConsistentStep == Consistent /\ [Next]_vars => Consistent'
<1> SUFFICES ASSUME Consistent, [Next]_vars
             PROVE  Consistent'
  OBVIOUS
<1>0. TypeOK'
  BY TypeStep DEF Consistent
<1>1. ASSUME NEW n \in Names, addNode(n)
      PROVE  Consistent'
  <2>1. Insert("node", n, << >>) /\ threw' = threw
    BY <1>1 DEF addNode, Insert, NewHandle
  <2>2. \A i \in DOMAIN << >> : isValidHandle(<< >>[i])
    OBVIOUS
  <2> QED BY <1>0, <2>1, <2>2, InsertKeepsStructure
          DEF Consistent, NeverThrows, AtomTypes
<1>2. ASSUME NEW t \in LinkTypes, NEW out \in HandleSeqs, addLink(t, out)
      PROVE  Consistent'
  <2>1. Insert(t, NoName, out) /\ threw' = threw
    BY <1>2 DEF addLink, Insert, NewHandle
  <2>2. \A i \in DOMAIN out : isValidHandle(out[i])
    BY <1>2 DEF addLink
  <2> QED BY <1>0, <2>1, <2>2, InsertKeepsStructure
          DEF Consistent, NeverThrows, AtomTypes
<1>3. ASSUME NEW t \in LinkTypes, NEW out \in HandleSeqs, addLinkFails(t, out)
      PROVE  Consistent'
  <2>1. UNCHANGED <<brk_uuid, type, outgoing, incoming, sti, importanceIndex, threw>>
    BY <1>3 DEF addLinkFails, atoms
  <2> QED BY <1>0, <2>1 DEF Consistent, UnusedHandlesAreEmpty,
          IncomingMatchesOutgoing, TargetsAreValid, TargetsAreOlder,
          ImportanceIndexAgrees, NeverThrows, isValidHandle
<1>4. ASSUME NEW h \in Handles, NEW recursive \in BOOLEAN, remove(h, recursive)
      PROVE  Consistent'
  <2> DEFINE X == Extracted(h, recursive)
  <2>1. X \in SUBSET Handles /\ IncomingClosed(X)
    BY ExtractedType, ExtractedClosed
  <2>2. Removable(X)
    BY <2>1, ClosedIsRemovable
  <2>3. /\ Discard(X) /\ threw' = threw
        /\ sti' = [x \in Handles |-> IF x \in X THEN DEFAULTATOMSTI ELSE sti[x]]
        /\ importanceIndex' = [b \in Bins |->
             importanceIndex[b] \ {x \in X : importanceBin(sti[x]) = b}]
    BY <1>4, <2>2 DEF remove
  <2>4. ImportanceIndexAgrees'
    <3> SUFFICES ASSUME NEW x \in Handles, NEW b \in Bins
                 PROVE  x \in importanceIndex'[b] <=>
                          isValidHandle(x)' /\ importanceBin(sti'[x]) = b
      BY DEF ImportanceIndexAgrees, importanceBin
    <3>1. x \in importanceIndex[b] <=> isValidHandle(x) /\ importanceBin(sti[x]) = b
      BY DEF Consistent, ImportanceIndexAgrees
    <3>2. isValidHandle(x)' <=> isValidHandle(x) /\ x \notin X
      BY <2>3 DEF Discard, isValidHandle
    <3> QED BY <2>3, <3>1, <3>2
  <2> QED BY <1>0, <2>1, <2>3, <2>4, DiscardKeepsStructure DEF Consistent, NeverThrows
<1>5. ASSUME NEW h \in Handles, NEW s \in CallerSTIs, NEW l \in LTIs,
             setAttentionValue(h, s, l)
      PROVE  Consistent'
  <2>1. UNCHANGED <<brk_uuid, type, outgoing, incoming, threw>>
    BY <1>5 DEF setAttentionValue, atoms
  <2>2. ImportanceIndexAgrees'
    <3> SUFFICES ASSUME NEW x \in Handles, NEW b \in Bins
                 PROVE  x \in importanceIndex'[b] <=>
                          isValidHandle(x)' /\ importanceBin(sti'[x]) = b
      BY DEF ImportanceIndexAgrees, importanceBin
    <3>1. x \in importanceIndex[b] <=> isValidHandle(x) /\ importanceBin(sti[x]) = b
      BY DEF Consistent, ImportanceIndexAgrees
    <3>2. isValidHandle(x)' <=> isValidHandle(x)
      BY <2>1 DEF isValidHandle
    <3>3. /\ isValidHandle(h) /\ sti[h] \in STIs
          /\ importanceBin(s) \in Bins /\ importanceBin(sti[h]) \in Bins
      BY <1>5, BinFacts DEF setAttentionValue, Bins, Consistent, TypeOK
    <3>4. importanceBin(s) = importanceBin(sti[h]) <=> s = sti[h]
      BY <3>3, BinFacts DEF importanceBin
    <3>5. CASE x = h
      <4>1. sti'[x] = s
        BY <1>5, <3>5 DEF setAttentionValue, Consistent, TypeOK
      <4>2. CASE s = sti[h]
        BY <1>5, <3>1, <3>2, <3>5, <4>1, <4>2 DEF setAttentionValue
      <4>3. CASE s # sti[h]
        <5>1. importanceIndex' =
               [[importanceIndex EXCEPT ![importanceBin(sti[h])] = @ \ {h}]
                  EXCEPT ![importanceBin(s)] = @ \cup {h}]
          BY <1>5, <4>3 DEF setAttentionValue
        <5>2. CASE b = importanceBin(s)
          BY <3>2, <3>3, <3>5, <4>1, <5>1, <5>2 DEF Consistent, TypeOK
        <5>3. CASE b # importanceBin(s) /\ b = importanceBin(sti[h])
          BY <3>2, <3>3, <3>5, <4>1, <5>1, <5>3 DEF Consistent, TypeOK
        <5>4. CASE b # importanceBin(s) /\ b # importanceBin(sti[h])
          BY <3>1, <3>2, <3>3, <3>5, <4>1, <5>1, <5>4 DEF Consistent, TypeOK
        <5> QED BY <5>2, <5>3, <5>4
      <4> QED BY <4>2, <4>3
    <3>6. CASE x # h
      <4>1. sti'[x] = sti[x]
        BY <1>5, <3>6 DEF setAttentionValue, Consistent, TypeOK
      <4>2. x \in importanceIndex'[b] <=> x \in importanceIndex[b]
        BY <1>5, <3>3, <3>6 DEF setAttentionValue, Consistent, TypeOK
      <4> QED BY <3>1, <3>2, <4>1, <4>2
    <3> QED BY <3>5, <3>6
  <2> QED BY <1>0, <2>1, <2>2 DEF Consistent, UnusedHandlesAreEmpty,
          IncomingMatchesOutgoing, TargetsAreValid, TargetsAreOlder, NeverThrows,
          isValidHandle
<1>6. ASSUME decayShortTermImportance
      PROVE  Consistent'
  <2>1. OldAtoms \in SUBSET Handles /\ IncomingClosed(OldAtoms)
    BY DecayTypes, OldAtomsClosed DEF Consistent
  <2>2. Removable(OldAtoms)
    BY <2>1, ClosedIsRemovable
  <2>3. /\ Discard(OldAtoms) /\ threw' = threw
        /\ sti' = [x \in Handles |->
                     IF x \in OldAtoms THEN DEFAULTATOMSTI ELSE DecayedSTI[x]]
        /\ importanceIndex' = [b \in Bins |-> ShiftedIndex[b] \ OldAtoms]
    BY <1>6, <2>2 DEF decayShortTermImportance
  <2>4. ImportanceIndexAgrees'
    <3> SUFFICES ASSUME NEW x \in Handles, NEW b \in Bins
                 PROVE  x \in importanceIndex'[b] <=>
                          isValidHandle(x)' /\ importanceBin(sti'[x]) = b
      BY DEF ImportanceIndexAgrees, importanceBin
    <3>1. x \in ShiftedIndex[b] <=> isValidHandle(x) /\ importanceBin(DecayedSTI[x]) = b
      BY ShiftedIndexAgrees
    <3>2. isValidHandle(x)' <=> isValidHandle(x) /\ x \notin OldAtoms
      BY <2>3 DEF Discard, isValidHandle
    <3> QED BY <2>3, <3>1, <3>2
  <2> QED BY <1>0, <2>1, <2>3, <2>4, DiscardKeepsStructure DEF Consistent, NeverThrows
<1>7. CASE UNCHANGED vars
  BY <1>0, <1>7 DEF vars, Consistent, UnusedHandlesAreEmpty, IncomingMatchesOutgoing,
     TargetsAreValid, TargetsAreOlder, ImportanceIndexAgrees, NeverThrows, isValidHandle
<1> QED BY <1>1, <1>2, <1>3, <1>4, <1>5, <1>6, <1>7 DEF Next

\* The empty table is consistent.
LEMMA ConsistentInit == Init => Consistent
<1> SUFFICES ASSUME Init PROVE Consistent
  OBVIOUS
<1>1. TypeOK
  BY TypeInit
<1>2. IncomingMatchesOutgoing
  BY TimesEmpty DEF Init, IncomingMatchesOutgoing
<1>3. ImportanceIndexAgrees
  BY DEF Init, ImportanceIndexAgrees, isValidHandle
<1> QED BY <1>1, <1>2, <1>3 DEF Init, Consistent, UnusedHandlesAreEmpty,
        TargetsAreValid, TargetsAreOlder, NeverThrows

\* The table is consistent in every reachable state.
THEOREM AlwaysConsistent == Spec => []Consistent
BY ConsistentInit, ConsistentStep, PTL DEF Spec

\* The incoming sets always mirror the outgoing sets.
THEOREM IncomingSets == Spec => []IncomingMatchesOutgoing
BY AlwaysConsistent, PTL DEF Consistent

\* No link outlives one of its targets.
THEOREM NoDanglingTargets == Spec => []TargetsAreValid
BY AlwaysConsistent, PTL DEF Consistent

\* removeIncomingHandle and ~Atom never throw.
THEOREM NoException == Spec => []NeverThrows
BY AlwaysConsistent, PTL DEF Consistent

\* The graph of links has no cycle, so extract's recursion ends.
THEOREM RecursionEnds == Spec => []TargetsAreOlder
BY AlwaysConsistent, PTL DEF Consistent

\* The importance index is exact, through changes of importance and decay.
THEOREM ImportanceIndexIsExact == Spec => []ImportanceIndexAgrees
BY AlwaysConsistent, PTL DEF Consistent

-----------------------------------------------------------------------------
(* Handles                                                                 *)

\* What HandlesAreImmutable asks of one step.
HandlesKept ==
  \A h \in Handles : /\ h < brk_uuid /\ ~isValidHandle(h) => ~isValidHandle(h)'
                     /\ isValidHandle(h) /\ isValidHandle(h)' => Value(h)' = Value(h)

\* A new atom gets a handle no other atom ever had.
LEMMA InsertKeepsHandles ==
  ASSUME TypeOK, NEW t, NEW n, NEW out, Insert(t, n, out)
  PROVE  HandlesKept
<1> SUFFICES ASSUME NEW h \in Handles, h < brk_uuid
             PROVE  UNCHANGED <<type[h], name[h], outgoing[h]>>
  BY DEF HandlesKept, isValidHandle, Value
<1>1. h # brk_uuid
  BY DEF TypeOK, Handles
<1> QED BY <1>1 DEF Insert, NewHandle, TypeOK

\* An atom is taken away or stays as it is.
LEMMA DiscardKeepsHandles ==
  ASSUME TypeOK, NEW X, Discard(X)
  PROVE  HandlesKept
<1> SUFFICES ASSUME NEW h \in Handles
             PROVE  type'[h] = NOTYPE \/ UNCHANGED <<type[h], name[h], outgoing[h]>>
  BY DEF HandlesKept, isValidHandle, Value, Discard
<1> QED BY DEF Discard

\* Every operation of the table keeps the meaning of the handles.
LEMMA HandlesStep == TypeOK /\ [Next]_vars => HandlesKept
<1> SUFFICES ASSUME TypeOK, [Next]_vars
             PROVE  HandlesKept
  OBVIOUS
<1>0. ASSUME UNCHANGED atoms
      PROVE  HandlesKept
  BY <1>0 DEF atoms, HandlesKept, isValidHandle, Value
<1>1. ASSUME NEW n \in Names, addNode(n)
      PROVE  HandlesKept
  BY <1>1, InsertKeepsHandles DEF addNode
<1>2. ASSUME NEW t \in LinkTypes, NEW out \in HandleSeqs, addLink(t, out)
      PROVE  HandlesKept
  BY <1>2, InsertKeepsHandles DEF addLink
<1>3. ASSUME NEW t \in LinkTypes, NEW out \in HandleSeqs, addLinkFails(t, out)
      PROVE  HandlesKept
  BY <1>0, <1>3 DEF addLinkFails
<1>4. ASSUME NEW h \in Handles, NEW recursive \in BOOLEAN, remove(h, recursive)
      PROVE  HandlesKept
  BY <1>0, <1>4, DiscardKeepsHandles DEF remove, Throw
<1>5. ASSUME NEW h \in Handles, NEW s \in CallerSTIs, NEW l \in LTIs,
             setAttentionValue(h, s, l)
      PROVE  HandlesKept
  BY <1>0, <1>5 DEF setAttentionValue
<1>6. CASE decayShortTermImportance
  BY <1>0, <1>6, DiscardKeepsHandles DEF decayShortTermImportance, Throw
<1>7. CASE UNCHANGED vars
  BY <1>0, <1>7 DEF vars, atoms
<1> QED BY <1>1, <1>2, <1>3, <1>4, <1>5, <1>6, <1>7 DEF Next

\* A handle never names a second atom, and never comes back to life
\* (TLB::addAtom and the removal of atoms).
THEOREM HandlesStay == Spec => HandlesAreImmutable
<1>1. TypeOK /\ [Next]_vars => [HandlesKept]_vars
  BY HandlesStep
<1>2. Spec => [][HandlesKept]_vars
  BY <1>1, TypeCorrectness, PTL DEF Spec
<1> QED BY <1>2 DEF HandlesAreImmutable, HandlesKept

-----------------------------------------------------------------------------
(* Sorted target lists                                                     *)

\* A set of natural numbers has a smallest element.
LEMMA SmallestElement ==
  ASSUME NEW T, T \subseteq Nat, T # {}
  PROVE  \E m \in T : \A k \in T : m <= k
<1>1. PICK m \in T : \A k \in T : <<k, m>> \notin OpToRel(<, Nat)
  BY NatLessThanWellFounded, WFMin
<1>2. \A k \in T : ~(k < m)
  BY <1>1 DEF OpToRel
<1> QED BY <1>2

\* A target list, empty or not, is a list of handles.
LEMMA TargetList ==
  ASSUME NEW seq \in HandleSeqs \cup {<< >>}
  PROVE  \E n \in Nat : DOMAIN seq = 1 .. n /\ seq \in [1 .. n -> Handles]
<1>1. CASE seq = << >>
  <2>1. DOMAIN seq = 1 .. 0 /\ seq \in [1 .. 0 -> Handles]
    BY <1>1
  <2> QED BY <2>1
<1>2. CASE seq \in HandleSeqs
  BY <1>2, HandleBounds DEF HandleSeqs
<1> QED BY <1>1, <1>2

\* If two sorted lists agree before i and the first has x at i where the second
\* has something larger or nothing, then x occurs more often in the first.
LEMMA SortedListsPart ==
  ASSUME NEW s \in HandleSeqs \cup {<< >>}, NEW t \in HandleSeqs \cup {<< >>},
         Normalised("unordered", t),
         NEW i \in DOMAIN s,
         \A k \in 1 .. i - 1 : k \in DOMAIN s /\ k \in DOMAIN t /\ s[k] = t[k],
         i \in DOMAIN t => s[i] < t[i]
  PROVE  Times(s, s[i]) # Times(t, s[i])
<1> DEFINE x == s[i]
           P == {k \in DOMAIN s : s[k] = x}
           Q == {k \in DOMAIN t : t[k] = x}
<1>1. PICK m \in Nat : DOMAIN s = 1 .. m /\ s \in [1 .. m -> Handles]
  BY TargetList
<1>2. PICK n \in Nat : DOMAIN t = 1 .. n /\ t \in [1 .. n -> Handles]
  BY TargetList
<1>3. \A k \in Q : k < i
  <2> SUFFICES ASSUME NEW k \in 1 .. n, t[k] = x, i <= k
               PROVE  FALSE
    BY <1>1, <1>2
  <2>1. i \in DOMAIN t /\ t[i] <= t[k]
    BY <1>1, <1>2 DEF Normalised
  <2>2. s[i] \in Int /\ t[i] \in Int /\ t[k] \in Int
    BY <1>1, <1>2, <2>1 DEF Handles
  <2> QED BY <2>1, <2>2
<1>4. Q \subseteq P /\ i \in P /\ i \notin Q
  BY <1>1, <1>2, <1>3
<1>5. IsFiniteSet(P)
  BY <1>1, FS_Interval, FS_Subset
<1>6. Cardinality(Q) # Cardinality(P)
  BY <1>4, <1>5, FS_Subset
<1> QED BY <1>6 DEF Times

\* Link::setOutgoingSet sorts the targets of an unordered link, so two such
\* links with the same targets in whatever order have equal target lists.
LEMMA SortedListsEqual ==
  ASSUME NEW s \in HandleSeqs \cup {<< >>}, NEW t \in HandleSeqs \cup {<< >>},
         Normalised("unordered", s), Normalised("unordered", t),
         \A x \in Handles : Times(s, x) = Times(t, x)
  PROVE  s = t
<1>1. PICK m \in Nat : DOMAIN s = 1 .. m /\ s \in [1 .. m -> Handles]
  BY TargetList
<1>2. PICK n \in Nat : DOMAIN t = 1 .. n /\ t \in [1 .. n -> Handles]
  BY TargetList
<1> DEFINE Agree(k) == k \in DOMAIN s /\ k \in DOMAIN t /\ s[k] = t[k]
           Differ == {k \in DOMAIN s \cup DOMAIN t : ~Agree(k)}
<1>3. CASE Differ = {}
  <2>1. DOMAIN s = DOMAIN t /\ \A k \in DOMAIN s : s[k] = t[k]
    BY <1>3
  <2> QED BY <1>1, <1>2, <2>1
<1>4. CASE Differ # {}
  <2>0. Differ \subseteq Nat
    BY <1>1, <1>2
  <2>1. PICK i \in Differ : \A k \in Differ : i <= k
    <3> HIDE DEF Differ
    <3> QED BY <2>0, <1>4, SmallestElement
  <2>2. i \in Nat /\ i >= 1
    BY <1>1, <1>2
  <2>3. \A k \in 1 .. i - 1 : Agree(k)
    <3> SUFFICES ASSUME NEW k \in 1 .. i - 1, ~Agree(k)
                 PROVE  FALSE
      OBVIOUS
    <3>1. k \in DOMAIN s \cup DOMAIN t
      BY <1>1, <1>2, <2>1, <2>2
    <3> QED BY <2>1, <2>2, <3>1
  <2>4. CASE i \in DOMAIN s /\ (i \in DOMAIN t => s[i] < t[i])
    <3>1. Times(s, s[i]) # Times(t, s[i])
      BY <2>3, <2>4, SortedListsPart
    <3> QED BY <1>1, <2>4, <3>1
  <2>5. CASE i \in DOMAIN t /\ (i \in DOMAIN s => t[i] < s[i])
    <3>1. \A k \in 1 .. i - 1 : k \in DOMAIN t /\ k \in DOMAIN s /\ t[k] = s[k]
      BY <2>3
    <3>2. Times(t, t[i]) # Times(s, t[i])
      BY <2>5, <3>1, SortedListsPart
    <3> QED BY <1>2, <2>5, <3>2
  <2>6. i \in DOMAIN s /\ i \in DOMAIN t => s[i] < t[i] \/ t[i] < s[i]
    <3>1. i \in DOMAIN s /\ i \in DOMAIN t => s[i] # t[i]
      OBVIOUS
    <3> QED BY <1>1, <1>2, <3>1 DEF Handles
  <2> QED BY <2>4, <2>5, <2>6
<1> QED BY <1>3, <1>4

-----------------------------------------------------------------------------
(* Indexes, distinct atoms and the hash set                                *)

\* Nodes have a name and no targets; links have targets and no name, sorted
\* when the link is unordered.
AtomShapes ==
  \A h \in Handles :
    /\ type[h] = "node" => name[h] \in Names /\ outgoing[h] = << >>
    /\ IsLink(h) => /\ name[h] = NoName /\ outgoing[h] \in HandleSeqs
                    /\ Normalised(type[h], outgoing[h])

\* No two atoms of the table are equal (Atom::operator==).
ValuesDiffer ==
  \A g, h \in Handles : type[g] # NOTYPE /\ Value(g) = Value(h) => g = h

\* The inductive invariant: an addition is refused when an index knows the
\* atom, so atoms differ only as long as the indexes are exact, and erasing a
\* removed atom from the hash set by value hits no other only as long as atoms
\* differ.
Indexed ==
  /\ Consistent
  /\ AtomShapes
  /\ IndexesAgree
  /\ ValuesDiffer
  /\ HashSetAgrees

\* A handle is valid exactly when the TLB has an atom for it.
LEMMA ValidHasAtom ==
  ASSUME TypeOK, UnusedHandlesAreEmpty, NEW h \in Handles
  PROVE  isValidHandle(h) <=> type[h] # NOTYPE
BY DEF TypeOK, UnusedHandlesAreEmpty, isValidHandle, Handles

\* What Insert does to the atoms, handle by handle.
LEMMA InsertEffect ==
  ASSUME Consistent,
         NEW t \in AtomTypes, NEW n, NEW out, Insert(t, n, out)
  PROVE  /\ brk_uuid \in Handles /\ type[brk_uuid] = NOTYPE /\ t # NOTYPE
         /\ type'[brk_uuid] = t /\ name'[brk_uuid] = n /\ outgoing'[brk_uuid] = out
         /\ \A g \in Handles \ {brk_uuid} :
              type'[g] = type[g] /\ name'[g] = name[g] /\ outgoing'[g] = outgoing[g]
<1>1. brk_uuid \in Handles /\ t # NOTYPE
  BY DEF Insert, NewHandle, AtomTypes, LinkTypes, NOTYPE
<1>2. type[brk_uuid] = NOTYPE
  BY <1>1 DEF Consistent, UnusedHandlesAreEmpty, Handles
<1> QED BY <1>1, <1>2 DEF Insert, NewHandle, Consistent, TypeOK

\* A node or link that its index does not know is in the table under no handle.
LEMMA UnknownIsNew ==
  ASSUME Indexed
  PROVE  /\ \A n : ~KnownNode(n) =>
              \A g \in Handles : type[g] # NOTYPE => Value(g) # <<"node", n, << >> >>
         /\ \A t \in LinkTypes : \A out : ~KnownLink(t, out) =>
              \A g \in Handles : type[g] # NOTYPE => Value(g) # <<t, NoName, out>>
<1>1. ASSUME NEW n, ~KnownNode(n), NEW g \in Handles, Value(g) = <<"node", n, << >> >>
      PROVE  FALSE
  <2>1. type[g] = "node" /\ name[g] = n
    BY <1>1 DEF Value
  <2>2. <<n, g>> \in nodeIndex
    BY <2>1 DEF Indexed, IndexesAgree
  <2> QED BY <1>1, <2>2 DEF KnownNode
<1>2. ASSUME NEW t \in LinkTypes, NEW out, ~KnownLink(t, out), NEW g \in Handles,
             Value(g) = <<t, NoName, out>>
      PROVE  FALSE
  <2>1. type[g] = t /\ outgoing[g] = out /\ IsLink(g)
    BY <1>2 DEF Value, IsLink
  <2>2. <<t, out, g>> \in linkIndex
    BY <2>1 DEF Indexed, IndexesAgree
  <2> QED BY <1>2, <2>2 DEF KnownLink
<1> QED BY <1>1, <1>2

\* Inserting an atom that equals none keeps the atoms distinct and the hash set
\* complete: an equal entry there is one that a failed addition left.
LEMMA InsertKeepsDistinct ==
  ASSUME Indexed, Consistent',
         NEW t \in AtomTypes, NEW n, NEW out, Insert(t, n, out),
         \A g \in Handles : type[g] # NOTYPE => Value(g) # <<t, n, out>>
  PROVE  ValuesDiffer' /\ HashSetAgrees'
<1> DEFINE v == <<t, n, out>>
<1>0. PICK h \in Handles : h = brk_uuid
  BY InsertEffect DEF Indexed
<1>1. /\ h \in Handles /\ type[h] = NOTYPE /\ t # NOTYPE
      /\ type'[h] = t /\ name'[h] = n /\ outgoing'[h] = out
      /\ \A g \in Handles \ {h} :
           type'[g] = type[g] /\ name'[g] = name[g] /\ outgoing'[g] = outgoing[g]
  BY <1>0, InsertEffect DEF Indexed
<1>2. Value(h)' = v /\ \A g \in Handles \ {h} : Value(g)' = Value(g)
  BY <1>1 DEF Value
<1>3. \A g \in Handles : /\ isValidHandle(g) <=> type[g] # NOTYPE
                         /\ isValidHandle(g)' <=> type'[g] # NOTYPE
  <2>1. \A g \in Handles : isValidHandle(g) <=> type[g] # NOTYPE
    BY ValidHasAtom DEF Indexed, Consistent
  <2>2. TypeOK' /\ UnusedHandlesAreEmpty'
    BY DEF Consistent
  <2>3. brk_uuid' \in Int /\ \A g \in Handles : g >= brk_uuid' => type'[g] = NOTYPE
    BY <2>2 DEF TypeOK, UnusedHandlesAreEmpty
  <2> QED BY <2>1, <2>3 DEF isValidHandle, Handles
<1>4. ValuesDiffer'
  <2> SUFFICES ASSUME NEW g \in Handles, NEW k \in Handles, type'[g] # NOTYPE,
                      Value(g)' = Value(k)', g # k
               PROVE  FALSE
    BY DEF ValuesDiffer
  <2>1. CASE g = h
    <3>1. Value(k) = v
      BY <1>2, <2>1
    <3>2. type[k] = t
      BY <3>1 DEF Value
    <3> QED BY <1>1, <3>1, <3>2
  <2>2. CASE k = h
    <3>1. Value(g) = v /\ type[g] # NOTYPE
      BY <1>1, <1>2, <2>2
    <3> QED BY <3>1
  <2>3. CASE g # h /\ k # h
    <3>1. Value(g) = Value(k) /\ type[g] # NOTYPE
      BY <1>1, <1>2, <2>3
    <3> QED BY <3>1 DEF Indexed, ValuesDiffer
  <2> QED BY <2>1, <2>2, <2>3
<1>5. HashSetAgrees'
  <2>1. atomSet \subseteq atomSet'
    BY DEF Insert, Hashed
  <2>2. \E e \in atomSet' : e[1] = v /\ e[2] \in {h, UNDEFINED}
    <3>1. CASE \E e \in atomSet : e[1] = v
      <4>1. PICK e \in atomSet : e[1] = v
        BY <3>1
      <4>2. e[2] = UNDEFINED
        BY <1>3, <4>1 DEF Indexed, HashSetAgrees, Valid
      <4> QED BY <2>1, <4>1, <4>2
    <3>2. CASE ~\E e \in atomSet : e[1] = v
      <4>1. <<v, h>> \in atomSet'
        BY <1>0, <3>2 DEF Insert, Hashed, NewHandle
      <4> QED BY <4>1
    <3> QED BY <3>1, <3>2
  <2>3. \A e \in atomSet' : e \in atomSet \/ e = <<v, h>>
    BY <1>0 DEF Insert, Hashed, NewHandle
  <2>4. ASSUME NEW e \in atomSet', e[2] # UNDEFINED
        PROVE  e[2] \in Valid' /\ e[1] = Value(e[2])'
    <3>1. CASE e \in atomSet
      <4>1. e[2] \in Valid /\ e[1] = Value(e[2])
        BY <2>4, <3>1 DEF Indexed, HashSetAgrees
      <4>2. e[2] \in Handles /\ type[e[2]] # NOTYPE /\ e[2] # h
        BY <1>1, <1>3, <4>1 DEF Valid
      <4>3. type'[e[2]] # NOTYPE /\ Value(e[2])' = Value(e[2])
        BY <1>1, <1>2, <4>2
      <4> QED BY <1>3, <4>1, <4>2, <4>3 DEF Valid
    <3>2. CASE e = <<v, h>>
      <4>1. e[1] = v /\ e[2] = h /\ isValidHandle(h)'
        BY <1>1, <1>3, <3>2
      <4>2. Value(e[2])' = Value(h)'
        BY <4>1 DEF Value
      <4> QED BY <1>1, <1>2, <4>1, <4>2 DEF Valid
    <3> QED BY <2>3, <3>1, <3>2
  <2>5. ASSUME NEW g \in Valid'
        PROVE  \E e \in atomSet' : e[1] = Value(g)' /\ e[2] \in {g, UNDEFINED}
    <3>1. CASE g = h
      BY <1>2, <2>2, <3>1
    <3>2. CASE g # h
      <4>1. g \in Valid /\ Value(g)' = Value(g)
        BY <1>1, <1>2, <1>3, <3>2 DEF Valid
      <4> QED BY <2>1, <4>1 DEF Indexed, HashSetAgrees
    <3> QED BY <3>1, <3>2
  <2> QED BY <2>4, <2>5 DEF HashSetAgrees
<1> QED BY <1>4, <1>5

\* Taking atoms away keeps the shapes and the indexes, and erases from the hash
\* set the atoms taken and no other.
LEMMA DiscardKeepsIndexed ==
  ASSUME Indexed, Consistent', NEW X \in SUBSET Handles, Discard(X)
  PROVE  AtomShapes' /\ IndexesAgree' /\ ValuesDiffer' /\ HashSetAgrees'
<1>1. /\ \A g \in X : type'[g] = NOTYPE
      /\ \A g \in Handles \ X : type'[g] = type[g] /\ name'[g] = name[g]
                               /\ outgoing'[g] = outgoing[g]
  BY DEF Discard
<1>2. \A g \in Handles \ X : Value(g)' = Value(g)
  BY <1>1 DEF Value
<1>3. \A g \in Handles : /\ isValidHandle(g) <=> type[g] # NOTYPE
                         /\ isValidHandle(g)' <=> type'[g] # NOTYPE
  <2>1. \A g \in Handles : isValidHandle(g) <=> type[g] # NOTYPE
    BY ValidHasAtom DEF Indexed, Consistent
  <2>2. TypeOK' /\ UnusedHandlesAreEmpty'
    BY DEF Consistent
  <2>3. brk_uuid' \in Int /\ \A g \in Handles : g >= brk_uuid' => type'[g] = NOTYPE
    BY <2>2 DEF TypeOK, UnusedHandlesAreEmpty
  <2> QED BY <2>1, <2>3 DEF isValidHandle, Handles
<1>4. NOTYPE \notin AtomTypes
  BY DEF AtomTypes, LinkTypes, NOTYPE
<1>5. AtomShapes'
  BY <1>1, <1>4 DEF Indexed, AtomShapes, IsLink, Normalised, AtomTypes
<1>6. IndexesAgree'
  <2>1. nodeIndex' = {<<name'[h], h>> : h \in {g \in Handles : type'[g] = "node"}}
    BY <1>1, <1>4 DEF Indexed, IndexesAgree, Discard, AtomTypes
  <2>2. linkIndex' = {<<type'[h], outgoing'[h], h>> :
                         h \in {g \in Handles : type'[g] \in LinkTypes}}
    BY <1>1, <1>4 DEF Indexed, IndexesAgree, Discard, AtomTypes, IsLink
  <2>3. \A t \in AtomTypes : typeIndex'[t] = {h \in Handles : type'[h] = t}
    BY <1>1, <1>4 DEF Indexed, IndexesAgree, Discard
  <2> QED BY <2>1, <2>2, <2>3 DEF IndexesAgree, IsLink
<1>7. ValuesDiffer'
  <2> SUFFICES ASSUME NEW g \in Handles, NEW k \in Handles, type'[g] # NOTYPE,
                      Value(g)' = Value(k)'
               PROVE  g = k
    BY DEF ValuesDiffer
  <2>1. g \notin X /\ k \notin X
    BY <1>1 DEF Value
  <2>2. type[g] # NOTYPE /\ Value(g) = Value(k)
    BY <1>1, <1>2, <2>1
  <2> QED BY <2>2 DEF Indexed, ValuesDiffer
<1>8. HashSetAgrees'
  <2>1. atomSet' = {e \in atomSet : e[1] \notin {Value(h) : h \in X}}
    BY DEF Discard, Erased
  <2>2. ASSUME NEW e \in atomSet', e[2] # UNDEFINED
        PROVE  e[2] \in Valid' /\ e[1] = Value(e[2])'
    <3>1. e \in atomSet /\ e[2] \in Valid /\ e[1] = Value(e[2])
      BY <2>1, <2>2 DEF Indexed, HashSetAgrees
    <3>2. e[2] \in Handles \ X
      BY <2>1, <3>1 DEF Valid
    <3>3. type'[e[2]] # NOTYPE /\ Value(e[2])' = Value(e[2])
      BY <1>1, <1>2, <1>3, <3>1, <3>2 DEF Valid
    <3> QED BY <1>3, <3>1, <3>2, <3>3 DEF Valid
  <2>3. ASSUME NEW g \in Valid'
        PROVE  \E e \in atomSet' : e[1] = Value(g)' /\ e[2] \in {g, UNDEFINED}
    <3>1. g \in Handles \ X
      BY <1>1, <1>3 DEF Valid
    <3>2. g \in Valid /\ type[g] # NOTYPE /\ Value(g)' = Value(g)
      BY <1>1, <1>2, <1>3, <3>1 DEF Valid
    <3>3. PICK e \in atomSet : e[1] = Value(g) /\ e[2] \in {g, UNDEFINED}
      BY <3>2 DEF Indexed, HashSetAgrees
    <3>4. \A h \in X : Value(h) # Value(g)
      BY <3>1, <3>2 DEF Indexed, ValuesDiffer
    <3> QED BY <2>1, <3>2, <3>3, <3>4
  <2> QED BY <2>2, <2>3 DEF HashSetAgrees
<1> QED BY <1>5, <1>6, <1>7, <1>8

\* Every operation of the table keeps its indexes exact and its atoms distinct.
LEMMA IndexedStep == Indexed /\ [Next]_vars => Indexed'
<1> SUFFICES ASSUME Indexed, [Next]_vars
             PROVE  Indexed'
  OBVIOUS
<1>0. Consistent'
  BY ConsistentStep DEF Indexed
<1>1. ASSUME NEW n \in Names, addNode(n)
      PROVE  Indexed'
  <2>1. Insert("node", n, << >>) /\ "node" \in AtomTypes
    BY <1>1 DEF addNode, AtomTypes
  <2>2. /\ brk_uuid \in Handles /\ type[brk_uuid] = NOTYPE
        /\ type'[brk_uuid] = "node" /\ name'[brk_uuid] = n /\ outgoing'[brk_uuid] = << >>
        /\ \A g \in Handles \ {brk_uuid} :
             type'[g] = type[g] /\ name'[g] = name[g] /\ outgoing'[g] = outgoing[g]
    BY <2>1, InsertEffect DEF Indexed
  <2>3. ValuesDiffer' /\ HashSetAgrees'
    <3>1. \A g \in Handles : type[g] # NOTYPE => Value(g) # <<"node", n, << >> >>
      BY <1>1, UnknownIsNew DEF addNode
    <3> QED BY <1>0, <2>1, <3>1, InsertKeepsDistinct
  <2>4. AtomShapes'
    BY <2>2 DEF Indexed, AtomShapes, IsLink, Normalised, LinkTypes
  <2>5. nodeIndex' = {<<name'[h], h>> : h \in {g \in Handles : type'[g] = "node"}}
    <3>1. nodeIndex' = nodeIndex \cup {<<n, brk_uuid>>}
      BY <1>1 DEF addNode, NewHandle
    <3> QED BY <2>2, <3>1 DEF Indexed, IndexesAgree, NOTYPE
  <2>6. linkIndex' = {<<type'[h], outgoing'[h], h>> :
                         h \in {g \in Handles : type'[g] \in LinkTypes}}
    <3>1. linkIndex' = linkIndex
      BY <1>1 DEF addNode
    <3> QED BY <2>2, <3>1 DEF Indexed, IndexesAgree, IsLink, LinkTypes, NOTYPE
  <2>7. \A t \in AtomTypes : typeIndex'[t] = {h \in Handles : type'[h] = t}
    <3>1. typeIndex' = [typeIndex EXCEPT !["node"] = @ \cup {brk_uuid}]
      BY <2>1 DEF Insert, NewHandle
    <3>2. NOTYPE \notin AtomTypes
      BY DEF AtomTypes, LinkTypes, NOTYPE
    <3> QED BY <2>1, <2>2, <3>1, <3>2 DEF Indexed, Consistent, TypeOK, IndexesAgree
  <2>8. IndexesAgree'
    BY <2>5, <2>6, <2>7 DEF IndexesAgree, IsLink
  <2> QED BY <1>0, <2>3, <2>4, <2>8 DEF Indexed
<1>2. ASSUME NEW t \in LinkTypes, NEW out \in HandleSeqs, addLink(t, out)
      PROVE  Indexed'
  <2>1. Insert(t, NoName, out) /\ t \in AtomTypes
    BY <1>2 DEF addLink, AtomTypes
  <2>2. /\ brk_uuid \in Handles /\ type[brk_uuid] = NOTYPE
        /\ type'[brk_uuid] = t /\ name'[brk_uuid] = NoName /\ outgoing'[brk_uuid] = out
        /\ \A g \in Handles \ {brk_uuid} :
             type'[g] = type[g] /\ name'[g] = name[g] /\ outgoing'[g] = outgoing[g]
    BY <2>1, InsertEffect DEF Indexed
  <2>3. ValuesDiffer' /\ HashSetAgrees'
    <3>1. \A g \in Handles : type[g] # NOTYPE => Value(g) # <<t, NoName, out>>
      BY <1>2, UnknownIsNew DEF addLink
    <3> QED BY <1>0, <2>1, <3>1, InsertKeepsDistinct
  <2>4. AtomShapes'
    <3> SUFFICES ASSUME NEW h \in Handles
                 PROVE  /\ type'[h] = "node" => name'[h] \in Names /\ outgoing'[h] = << >>
                        /\ type'[h] \in LinkTypes =>
                             /\ name'[h] = NoName /\ outgoing'[h] \in HandleSeqs
                             /\ Normalised(type'[h], outgoing'[h])
      BY DEF AtomShapes, IsLink, Normalised
    <3>1. CASE h = brk_uuid
      BY <1>2, <2>2, <3>1 DEF addLink, LinkTypes
    <3>2. CASE h # brk_uuid
      BY <2>2, <3>2 DEF Indexed, AtomShapes, IsLink
    <3> QED BY <3>1, <3>2
  <2>5. nodeIndex' = {<<name'[h], h>> : h \in {g \in Handles : type'[g] = "node"}}
    <3>1. nodeIndex' = nodeIndex
      BY <1>2 DEF addLink
    <3> QED BY <2>2, <3>1 DEF Indexed, IndexesAgree, LinkTypes, NOTYPE
  <2>6. linkIndex' = {<<type'[h], outgoing'[h], h>> :
                         h \in {g \in Handles : type'[g] \in LinkTypes}}
    <3>1. linkIndex' = linkIndex \cup {<<t, out, brk_uuid>>}
      BY <1>2 DEF addLink, NewHandle
    <3> QED BY <2>2, <3>1 DEF Indexed, IndexesAgree, IsLink, LinkTypes, NOTYPE
  <2>7. \A u \in AtomTypes : typeIndex'[u] = {h \in Handles : type'[h] = u}
    <3>1. typeIndex' = [typeIndex EXCEPT ![t] = @ \cup {brk_uuid}]
      BY <2>1 DEF Insert, NewHandle
    <3>2. NOTYPE \notin AtomTypes
      BY DEF AtomTypes, LinkTypes, NOTYPE
    <3> QED BY <2>1, <2>2, <3>1, <3>2 DEF Indexed, Consistent, TypeOK, IndexesAgree
  <2>8. IndexesAgree'
    BY <2>5, <2>6, <2>7 DEF IndexesAgree, IsLink
  <2> QED BY <1>0, <2>3, <2>4, <2>8 DEF Indexed
<1>3. ASSUME NEW t \in LinkTypes, NEW out \in HandleSeqs, addLinkFails(t, out)
      PROVE  Indexed'
  <2>1. /\ UNCHANGED <<brk_uuid, type, name, outgoing, nodeIndex, linkIndex, typeIndex>>
        /\ atomSet' = Hashed(<<t, NoName, out>>, UNDEFINED)
    BY <1>3 DEF addLinkFails, atoms, indexes
  <2>2. AtomShapes' /\ IndexesAgree' /\ ValuesDiffer'
    BY <2>1 DEF Indexed, AtomShapes, IndexesAgree, ValuesDiffer, IsLink, Value, Normalised
  <2>3. atomSet \subseteq atomSet' /\ \A e \in atomSet' : e \in atomSet \/ e[2] = UNDEFINED
    BY <2>1 DEF Hashed
  <2>4. Valid' = Valid /\ \A h : Value(h)' = Value(h)
    BY <2>1 DEF Valid, isValidHandle, Value
  <2>5. HashSetAgrees'
    BY <2>3, <2>4 DEF Indexed, HashSetAgrees
  <2> QED BY <1>0, <2>2, <2>5 DEF Indexed
<1>4. ASSUME NEW h \in Handles, NEW recursive \in BOOLEAN, remove(h, recursive)
      PROVE  Indexed'
  <2> DEFINE X == Extracted(h, recursive)
  <2>1. X \in SUBSET Handles /\ Removable(X)
    BY ExtractedType, ExtractedClosed, ClosedIsRemovable DEF Indexed
  <2>2. Discard(X)
    BY <1>4, <2>1 DEF remove
  <2> QED BY <1>0, <2>1, <2>2, DiscardKeepsIndexed DEF Indexed
<1>5. ASSUME UNCHANGED <<brk_uuid, type, name, outgoing, nodeIndex, linkIndex, typeIndex, atomSet>>
      PROVE  Indexed'
  <2>1. AtomShapes' /\ IndexesAgree' /\ ValuesDiffer'
    BY <1>5 DEF Indexed, AtomShapes, IndexesAgree, ValuesDiffer, IsLink, Value, Normalised
  <2>2. Valid' = Valid /\ \A h : Value(h)' = Value(h)
    BY <1>5 DEF Valid, isValidHandle, Value
  <2>3. HashSetAgrees'
    BY <1>5, <2>2 DEF Indexed, HashSetAgrees
  <2> QED BY <1>0, <2>1, <2>3 DEF Indexed
<1>6. ASSUME NEW h \in Handles, NEW s \in CallerSTIs, NEW l \in LTIs,
             setAttentionValue(h, s, l)
      PROVE  Indexed'
  BY <1>5, <1>6 DEF setAttentionValue, atoms, indexes
<1>7. ASSUME decayShortTermImportance
      PROVE  Indexed'
  <2>1. OldAtoms \in SUBSET Handles /\ Removable(OldAtoms)
    BY DecayTypes, OldAtomsClosed, ClosedIsRemovable DEF Indexed, Consistent
  <2>2. Discard(OldAtoms)
    BY <1>7, <2>1 DEF decayShortTermImportance
  <2> QED BY <1>0, <2>1, <2>2, DiscardKeepsIndexed DEF Indexed
<1>8. CASE UNCHANGED vars
  BY <1>5, <1>8 DEF vars
<1> QED BY <1>1, <1>2, <1>3, <1>4, <1>6, <1>7, <1>8 DEF Next

\* The indexes of the empty table are exact.
LEMMA IndexedInit == Init => Indexed
<1> SUFFICES ASSUME Init PROVE Indexed
  OBVIOUS
<1>1. Consistent /\ \A h \in Handles : type[h] = NOTYPE
  BY ConsistentInit DEF Init
<1>2. NOTYPE \notin AtomTypes
  BY DEF AtomTypes, LinkTypes, NOTYPE
<1>3. IndexesAgree
  BY <1>1, <1>2 DEF Init, IndexesAgree, IsLink, AtomTypes
<1>4. AtomShapes /\ ValuesDiffer
  BY <1>1, <1>2 DEF AtomShapes, ValuesDiffer, IsLink, AtomTypes
<1>5. HashSetAgrees
  BY <1>1 DEF Init, HashSetAgrees, Valid, isValidHandle
<1> QED BY <1>1, <1>3, <1>4, <1>5 DEF Indexed

\* The indexes are exact and the atoms distinct in every reachable state.
THEOREM AlwaysIndexed == Spec => []Indexed
BY IndexedInit, IndexedStep, PTL DEF Spec

\* The node, link and type indexes list the atoms of the table and no others.
THEOREM IndexesAreExact == Spec => []IndexesAgree
BY AlwaysIndexed, PTL DEF Indexed

\* The hash set lists no removed atom and misses none.
THEOREM HashSetIsExact == Spec => []HashSetAgrees
BY AlwaysIndexed, PTL DEF Indexed

\* Atoms with the same targets in whatever order are equal when the link is
\* unordered, because its targets are sorted.
LEMMA DistinctUpToOrder == Indexed => AtomsAreUnique
<1> SUFFICES ASSUME Indexed, NEW g \in Valid, NEW h \in Valid,
                    type[g] = type[h], name[g] = name[h],
                    \/ outgoing[g] = outgoing[h]
                    \/ /\ type[g] = "unordered"
                       /\ \A x \in Handles : Times(outgoing[g], x) = Times(outgoing[h], x)
             PROVE  g = h
  BY DEF AtomsAreUnique
<1>1. g \in Handles /\ h \in Handles /\ type[g] # NOTYPE
  BY DEF Valid, isValidHandle
<1>2. outgoing[g] = outgoing[h]
  <2>1. CASE type[g] = "unordered" /\
             \A x \in Handles : Times(outgoing[g], x) = Times(outgoing[h], x)
    <3>1. /\ outgoing[g] \in HandleSeqs /\ outgoing[h] \in HandleSeqs
          /\ Normalised("unordered", outgoing[g]) /\ Normalised("unordered", outgoing[h])
      BY <1>1, <2>1 DEF Indexed, AtomShapes, IsLink, LinkTypes
    <3> QED BY <2>1, <3>1, SortedListsEqual
  <2> QED BY <2>1
<1>3. Value(g) = Value(h)
  BY <1>2 DEF Value
<1> QED BY <1>1, <1>3 DEF Indexed, ValuesDiffer

\* No two atoms of the table have the same type, name and targets, for an
\* unordered link in whatever order (AtomTable::add finds the existing one).
THEOREM NoDuplicates == Spec => []AtomsAreUnique
BY AlwaysIndexed, DistinctUpToOrder, PTL

-----------------------------------------------------------------------------
(* The table implements AtomSet                                            *)

\* The atom under a handle as AtomSet sees it.
AtomAt == [h \in Handles |-> IF type[h] = NOTYPE THEN << >> ELSE Value(h)]

\* An atom is not the empty tuple that stands for an unused handle.
LEMMA ValueIsAtom ==
  ASSUME NEW h
  PROVE  Value(h) # << >>
<1>1. <<type[h], name[h], outgoing[h]>> # << >>
  OBVIOUS
<1> QED BY <1>1 DEF Value

\* The handles AtomSet sees in use.
LEMMA PresentAtoms ==
  Set!Present = {h \in Handles : type[h] # NOTYPE}
BY ValueIsAtom DEF Set!Present

\* AtomSet counts targets as the table does.
LEMMA OccurrencesAreTimes ==
  ASSUME NEW v, NEW seq, v[3] = seq, NEW x
  PROVE  Set!Occurrences(v, x) = Times(seq, x)
<1>1. {i \in DOMAIN v[3] : v[3][i] = x} = {i \in DOMAIN seq : seq[i] = x}
  OBVIOUS
<1>2. \A S : Set!Cardinality(S) = Cardinality(S)
  BY DEF Set!Cardinality, Cardinality
<1> QED BY <1>1, <1>2 DEF Set!Occurrences, Times

\* Inserting a new atom with valid targets is AtomSet's Add.
LEMMA InsertIsAdd ==
  ASSUME Indexed, Indexed',
         NEW t \in AtomTypes, NEW n, NEW out \in HandleSeqs \cup {<< >>},
         Insert(t, n, out),
         <<t, n, out>> \in AtomValues,
         Normalised(t, out),
         \A i \in DOMAIN out : isValidHandle(out[i])
  PROVE  Set!Next
<1> DEFINE v == <<t, n, out>>
<1>0. PICK h \in Handles : h = brk_uuid
  BY InsertEffect DEF Indexed
<1>1. /\ type[h] = NOTYPE /\ t # NOTYPE
      /\ type'[h] = t /\ name'[h] = n /\ outgoing'[h] = out
      /\ \A g \in Handles \ {h} :
           type'[g] = type[g] /\ name'[g] = name[g] /\ outgoing'[g] = outgoing[g]
  BY <1>0, InsertEffect DEF Indexed
<1>2. Value(h)' = v /\ \A g \in Handles \ {h} : Value(g)' = Value(g)
  BY <1>1 DEF Value
<1>3. brk_uuid \in Int /\ brk_uuid >= 1 /\ brk_uuid' = brk_uuid + 1
  BY DEF Indexed, Consistent, TypeOK, Insert, NewHandle
<1>4. h \notin 1 .. brk_uuid - 1 /\ 1 .. brk_uuid' - 1 = (1 .. brk_uuid - 1) \cup {h}
  BY <1>0, <1>3
<1>5. AtomAt' = [AtomAt EXCEPT ![h] = v]
  BY <1>1, <1>2 DEF AtomAt
<1>6. Set!Targets(v) \subseteq Set!Present
  BY PresentAtoms DEF Set!Targets, isValidHandle
<1>7. \A g \in Set!Present : ~Set!Same(AtomAt[g], v)
  <2> SUFFICES ASSUME NEW g \in Handles, type[g] # NOTYPE, Set!Same(Value(g), v)
               PROVE  FALSE
    BY PresentAtoms DEF AtomAt
  <2>1. g # h /\ type'[g] = type[g] /\ name'[g] = name[g] /\ outgoing'[g] = outgoing[g]
    BY <1>1
  <2>2. /\ type[g] = t /\ name[g] = n
        /\ \/ outgoing[g] = out
           \/ t = "unordered" /\ \A x \in Handles : Times(outgoing[g], x) = Times(out, x)
    <3>1. /\ Value(g)[1] = type[g] /\ Value(g)[2] = name[g] /\ Value(g)[3] = outgoing[g]
          /\ v[1] = t /\ v[2] = n /\ v[3] = out
      BY DEF Value
    <3> HIDE DEF v
    <3>2. \A x : /\ Set!Occurrences(Value(g), x) = Times(outgoing[g], x)
                 /\ Set!Occurrences(v, x) = Times(out, x)
      BY <3>1, OccurrencesAreTimes
    <3> QED BY <3>1, <3>2 DEF Set!Same
  <2>3. outgoing[g] = out
    <3>1. CASE t = "unordered" /\ \A x \in Handles : Times(outgoing[g], x) = Times(out, x)
      <4>1. outgoing[g] \in HandleSeqs /\ Normalised("unordered", outgoing[g])
        BY <2>2, <3>1 DEF Indexed, AtomShapes, IsLink, LinkTypes
      <4> QED BY <3>1, <4>1, SortedListsEqual
    <3> QED BY <2>2, <3>1
  <2>4. Value(g)' = Value(h)' /\ type'[g] # NOTYPE
    BY <1>1, <2>1, <2>2, <2>3 DEF Value
  <2> QED BY <2>1, <2>4 DEF Indexed, ValuesDiffer
<1>8. Set!Add(h, v)
  BY <1>4, <1>5, <1>6, <1>7 DEF Set!Add, AtomAt
<1> QED BY <1>8 DEF Set!Next

\* Taking away a closed set of atoms is AtomSet's Remove, or nothing when no
\* atom is taken.
LEMMA DiscardIsRemove ==
  ASSUME Indexed, NEW X \in SUBSET Valid, IncomingClosed(X), Discard(X)
  PROVE  [Set!Next]_(Set!contents)
<1>1. X \in SUBSET Handles /\ \A h \in X : type[h] # NOTYPE
  BY DEF Valid, isValidHandle
<1>2. AtomAt' = [h \in Handles |-> IF h \in X THEN << >> ELSE AtomAt[h]]
  BY <1>1 DEF AtomAt, Discard, Value
<1>3. brk_uuid' = brk_uuid
  BY DEF Discard
<1>4. CASE X = {}
  <2>1. AtomAt' = AtomAt
    BY <1>2, <1>4 DEF AtomAt
  <2> QED BY <1>3, <2>1 DEF Set!contents, AtomAt
<1>5. CASE X # {}
  <2>1. \A l \in Set!Present \ X : Set!Targets(AtomAt[l]) \cap X = {}
    <3> SUFFICES ASSUME NEW l \in Handles \ X, type[l] # NOTYPE,
                        NEW i \in DOMAIN outgoing[l], outgoing[l][i] \in X
                 PROVE  FALSE
      BY PresentAtoms DEF AtomAt, Set!Targets, Value
    <3>1. Times(outgoing[l], outgoing[l][i]) > 0
      BY TimesPositive DEF Indexed, Consistent, TypeOK
    <3>2. l \in IncomingLinks(outgoing[l][i])
      BY <1>1, <3>1 DEF Indexed, Consistent, IncomingMatchesOutgoing, IncomingLinks
    <3> QED BY <3>2 DEF IncomingClosed
  <2>2. X \subseteq Set!Present
    BY <1>1, PresentAtoms
  <2>3. Set!Remove(X)
    BY <1>2, <1>3, <1>5, <2>1, <2>2 DEF Set!Remove, AtomAt
  <2> QED BY <1>1, <2>3 DEF Set!Next
<1> QED BY <1>4, <1>5

\* What extract takes, and what decay takes, are atoms of the table.
LEMMA TakenAreValid ==
  ASSUME Consistent
  PROVE  /\ \A h \in Valid, recursive \in BOOLEAN : Extracted(h, recursive) \subseteq Valid
         /\ OldAtoms \subseteq Valid
<1>1. ASSUME NEW x \in Handles, NEW l \in IncomingLinks(x)
      PROVE  l \in Valid
  <2>1. l \in Handles /\ incoming[x][l] > 0 /\ incoming[x][l] = Times(outgoing[l], x)
    BY DEF IncomingLinks, Consistent, IncomingMatchesOutgoing
  <2>2. outgoing[l] # << >>
    BY <2>1, TimesEmpty
  <2>3. type[l] # NOTYPE
    BY <2>1, <2>2 DEF Consistent, UnusedHandlesAreEmpty
  <2> QED BY <2>1, <2>3, ValidHasAtom DEF Consistent, Valid
<1>2. Valid \in SUBSET Handles /\ IncomingClosed(Valid)
  BY <1>1 DEF IncomingClosed, Valid
<1>3. ASSUME NEW h \in Valid, NEW recursive \in BOOLEAN
      PROVE  Extracted(h, recursive) \subseteq Valid
  BY <1>2 DEF Extracted, Reached
<1>4. OldAtoms \subseteq Valid
  <2> SUFFICES ASSUME NEW h \in OldAtoms
               PROVE  h \in Valid
    OBVIOUS
  <2>1. PICK b \in 0 .. importanceBin(MIN_STI) : h \in ShiftedIndex[b]
    BY DEF OldAtoms
  <2>2. b \in Bins
    BY ImportanceBounds DEF Bins, importanceBin, IMPORTANCE_INDEX_SIZE
  <2>3. h \in Handles
    BY DecayTypes DEF Consistent
  <2> QED BY <2>1, <2>2, <2>3, ShiftedIndexAgrees DEF Valid
<1> QED BY <1>3, <1>4

\* Every operation of the table is one of AtomSet, or one its users cannot see.
LEMMA TableStepIsSetStep ==
  ASSUME Indexed, Indexed', [Next]_vars
  PROVE  [Set!Next]_(Set!contents)
<1>0. ASSUME UNCHANGED atoms
      PROVE  UNCHANGED Set!contents
  <2>1. AtomAt' = AtomAt /\ brk_uuid' = brk_uuid
    BY <1>0 DEF atoms, AtomAt, Value
  <2> QED BY <2>1 DEF Set!contents, AtomAt
<1>1. ASSUME NEW n \in Names, addNode(n)
      PROVE  Set!Next
  <2>1. <<"node", n, << >> >> \in AtomValues /\ Normalised("node", << >>)
    BY DEF AtomValues, Normalised
  <2>2. Insert("node", n, << >>) /\ "node" \in AtomTypes
    BY <1>1 DEF addNode, AtomTypes
  <2> QED BY <2>1, <2>2, InsertIsAdd
<1>2. ASSUME NEW t \in LinkTypes, NEW out \in HandleSeqs, addLink(t, out)
      PROVE  Set!Next
  <2>1. <<t, NoName, out>> \in AtomValues /\ t \in AtomTypes
    BY DEF AtomValues, AtomTypes
  <2>2. /\ Insert(t, NoName, out) /\ Normalised(t, out)
        /\ \A i \in DOMAIN out : isValidHandle(out[i])
    BY <1>2 DEF addLink
  <2> QED BY <2>1, <2>2, InsertIsAdd
<1>3. ASSUME NEW t \in LinkTypes, NEW out \in HandleSeqs, addLinkFails(t, out)
      PROVE  UNCHANGED Set!contents
  BY <1>0, <1>3 DEF addLinkFails
<1>4. ASSUME NEW h \in Handles, NEW recursive \in BOOLEAN, remove(h, recursive)
      PROVE  [Set!Next]_(Set!contents)
  <2> DEFINE X == Extracted(h, recursive)
  <2>1. h \in Valid
    BY <1>4 DEF remove, Valid
  <2>2. X \in SUBSET Valid /\ IncomingClosed(X)
    BY <2>1, TakenAreValid, ExtractedClosed DEF Indexed
  <2>3. Discard(X)
    BY <1>4, <2>2, ClosedIsRemovable DEF remove, Valid, Indexed
  <2> QED BY <2>2, <2>3, DiscardIsRemove
<1>5. ASSUME NEW h \in Handles, NEW s \in CallerSTIs, NEW l \in LTIs,
             setAttentionValue(h, s, l)
      PROVE  UNCHANGED Set!contents
  BY <1>0, <1>5 DEF setAttentionValue
<1>6. ASSUME decayShortTermImportance
      PROVE  [Set!Next]_(Set!contents)
  <2>1. OldAtoms \in SUBSET Valid /\ IncomingClosed(OldAtoms)
    BY TakenAreValid, OldAtomsClosed DEF Indexed
  <2>2. Discard(OldAtoms)
    BY <1>6, <2>1, ClosedIsRemovable DEF decayShortTermImportance, Valid, Indexed
  <2> QED BY <2>1, <2>2, DiscardIsRemove
<1>7. CASE UNCHANGED vars
  BY <1>0, <1>7 DEF vars, atoms
<1> QED BY <1>1, <1>2, <1>3, <1>4, <1>5, <1>6, <1>7 DEF Next

\* AtomTable implements AtomSet: a set of distinct atoms under handles that
\* never come back, closed under targets, whatever the indexes, the hash set,
\* the incoming sets and the importance do below it.
THEOREM TableIsAtomSet == Spec => ImplementsAtomSet
<1>1. Init => Set!Init
  BY DEF Init, Set!Init
<1>2. Indexed /\ Indexed' /\ [Next]_vars => [Set!Next]_(Set!contents)
  BY TableStepIsSetStep
<1> QED BY <1>1, <1>2, AlwaysIndexed, PTL DEF Spec, Set!Spec, ImplementsAtomSet
=============================================================================
