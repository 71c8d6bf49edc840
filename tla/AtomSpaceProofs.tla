--------------------------- MODULE AtomSpaceProofs ---------------------------
(***************************************************************************)
(* The AtomSpace uses the AtomTable only through its operations: every     *)
(* behaviour of AtomSpace is one of AtomTable, so whatever holds for the   *)
(* table holds for the table inside the space.                             *)
(***************************************************************************)
EXTENDS AtomSpace, AtomTableProofs

\* One step of the AtomSpace is one operation of the AtomTable, or leaves the
\* table alone.
LEMMA SpaceStepIsTableStep ==
  ASSUME [SpaceNext]_spaceVars
  PROVE  [Next]_vars
<1>1. ASSUME NEW n \in Names, AddNode(n)
      PROVE  Next
  BY <1>1 DEF AddNode, Next
<1>2. ASSUME NEW t \in LinkTypes, NEW raw \in HandleSeqs, AddLink(t, raw)
      PROVE  Next \/ UNCHANGED vars
  <2>1. PICK out \in HandleSeqs : \/ addLink(t, out)
                                  \/ addLinkFails(t, out)
                                  \/ UNCHANGED vars
    BY <1>2 DEF AddLink
  <2> QED BY <2>1 DEF Next
<1>3. ASSUME NEW h \in Handles, NEW recursive \in BOOLEAN, removeAtom(h, recursive)
      PROVE  Next
  BY <1>3 DEF removeAtom, Next
<1>4. ASSUME NEW h \in Handles, NEW s \in CallerSTIs, NEW l \in LTIs, SetAV(h, s, l)
      PROVE  Next
  BY <1>4 DEF SetAV, Next
<1>5. ASSUME NEW a \in Agents, NEW s \in CallerSTIs, NEW l \in LTIs, SetAgentAV(a, s, l)
      PROVE  UNCHANGED vars
  BY <1>5 DEF SetAgentAV
<1>6. CASE DecayShortTermImportance
  BY <1>6 DEF DecayShortTermImportance, Next
<1>7. CASE ClearBegins \/ ClearEnds
  BY <1>7 DEF ClearBegins, ClearEnds
<1>8. ASSUME NEW h \in Handles, ClearRemoves(h)
      PROVE  Next \/ UNCHANGED vars
  BY <1>8, <1>3 DEF ClearRemoves
<1>9. CASE UNCHANGED spaceVars
  BY <1>9 DEF spaceVars
<1> QED
  BY <1>1, <1>2, <1>3, <1>4, <1>5, <1>6, <1>7, <1>8, <1>9 DEF SpaceNext, RemoveAtom

\* AtomSpace implements AtomTable: addNode, addLink, removeAtom, setAV, the
\* decay and clear, with the importance funds around them, never change the
\* table in a way AtomTable's own operations could not.
THEOREM SpaceImplementsTable == SpaceSpec => Spec
<1>1. SpaceInit => Init
  BY DEF SpaceInit
<1>2. [SpaceNext]_spaceVars => [Next]_vars
  BY SpaceStepIsTableStep
<1> QED BY <1>1, <1>2, PTL DEF SpaceSpec, Spec

\* So through every operation of the AtomSpace the table inside it stays
\* consistent: incoming sets mirror outgoing sets, no target is missing, bins
\* are exact, and no consistency check throws.
COROLLARY SpaceConsistent == SpaceSpec => []Consistent
BY SpaceImplementsTable, AlwaysConsistent, PTL

\* In the AtomSpace a link's target has one incoming entry per occurrence.
COROLLARY SpaceIncomingSets == SpaceSpec => []IncomingMatchesOutgoing
BY SpaceConsistent, PTL DEF Consistent

\* In the AtomSpace, too, a handle never names a second atom.
COROLLARY SpaceHandlesStay == SpaceSpec => HandlesAreImmutable
BY SpaceImplementsTable, HandlesStay

\* In the AtomSpace, too, the indexes are exact.
COROLLARY SpaceIndexed == SpaceSpec => []Indexed
BY SpaceImplementsTable, AlwaysIndexed, PTL

\* The AtomSpace is a set of distinct atoms to its users.
COROLLARY SpaceIsAtomSet == SpaceSpec => ImplementsAtomSet
BY SpaceImplementsTable, TableIsAtomSet

-----------------------------------------------------------------------------
(* AtomSpace::clear                                                        *)

\* While clear runs, what is still in the table is still on its list.
ClearCovers == clearing => Valid \subseteq toClear

\* Removing the next handle of the list, with the links above it or after it
\* already went with another, keeps the rest on the list.
LEMMA ClearStep ==
  ASSUME Indexed, ClearCovers, [SpaceNext]_spaceVars
  PROVE  ClearCovers'
<1>1. ASSUME NEW n \in Names, AddNode(n)
      PROVE  ClearCovers'
  BY <1>1 DEF AddNode, progress, ClearCovers
<1>2. ASSUME NEW t \in LinkTypes, NEW raw \in HandleSeqs, AddLink(t, raw)
      PROVE  ClearCovers'
  BY <1>2 DEF AddLink, progress, ClearCovers
<1>3. ASSUME NEW h \in Handles, NEW recursive \in BOOLEAN, RemoveAtom(h, recursive)
      PROVE  ClearCovers'
  BY <1>3 DEF RemoveAtom, progress, ClearCovers
<1>4. ASSUME NEW h \in Handles, NEW s \in CallerSTIs, NEW l \in LTIs, SetAV(h, s, l)
      PROVE  ClearCovers'
  BY <1>4 DEF SetAV, progress, ClearCovers
<1>5. ASSUME NEW a \in Agents, NEW s \in CallerSTIs, NEW l \in LTIs, SetAgentAV(a, s, l)
      PROVE  ClearCovers'
  BY <1>5 DEF SetAgentAV, progress, ClearCovers
<1>6. CASE DecayShortTermImportance
  BY <1>6 DEF DecayShortTermImportance, progress, ClearCovers
<1>7. CASE ClearBegins
  <2>1. toClear' = UNION {typeIndex[t] : t \in AtomTypes} /\ UNCHANGED vars
    BY <1>7 DEF ClearBegins
  <2>2. \A h \in Valid : type[h] \in AtomTypes /\ h \in typeIndex[type[h]]
    BY DEF Valid, isValidHandle, Indexed, IndexesAgree, Consistent, TypeOK
  <2>3. Valid' = Valid
    BY <2>1 DEF vars, Valid, isValidHandle
  <2> QED BY <2>1, <2>2, <2>3 DEF ClearCovers
<1>8. ASSUME NEW h \in Handles, ClearRemoves(h)
      PROVE  ClearCovers'
  <2>1. toClear' = toClear \ {h} /\ Valid \subseteq toClear
    BY <1>8 DEF ClearRemoves, ClearCovers
  <2>2. CASE isValidHandle(h)
    <3>1. remove(h, TRUE)
      BY <1>8, <2>2 DEF ClearRemoves, removeAtom
    <3>2. Reached(h) \in SUBSET Handles /\ h \in Reached(h) /\ Removable(Reached(h))
      BY ReachedClosed, ClosedIsRemovable DEF Reached, Indexed
    <3>3. Discard(Reached(h))
      BY <3>1, <3>2 DEF remove, Extracted
    <3>4. Valid' \subseteq Valid \ {h}
      BY <3>2, <3>3 DEF Discard, Valid, isValidHandle
    <3> QED BY <2>1, <3>4 DEF ClearCovers
  <2>3. CASE ~isValidHandle(h)
    <3>1. UNCHANGED vars
      BY <1>8, <2>3 DEF ClearRemoves
    <3>2. Valid' = Valid /\ h \notin Valid
      BY <2>3, <3>1 DEF vars, Valid, isValidHandle
    <3> QED BY <2>1, <3>2 DEF ClearCovers
  <2> QED BY <2>2, <2>3
<1>9. CASE ClearEnds
  BY <1>9 DEF ClearEnds, ClearCovers
<1>10. CASE UNCHANGED spaceVars
  <2>1. UNCHANGED <<clearing, toClear>> /\ Valid' = Valid
    BY <1>10 DEF spaceVars, progress, vars, Valid, isValidHandle
  <2> QED BY <2>1 DEF ClearCovers
<1> QED BY <1>1, <1>2, <1>3, <1>4, <1>5, <1>6, <1>7, <1>8, <1>9, <1>10 DEF SpaceNext

\* The assertion at the end of AtomSpace::clear holds: once its list is worked
\* off, no atom is in the table.
THEOREM ClearIsComplete == SpaceSpec => []ClearLeavesNothing
<1>1. SpaceInit => ClearCovers
  BY DEF SpaceInit, ClearCovers
<1>2. Indexed /\ ClearCovers /\ [SpaceNext]_spaceVars => ClearCovers'
  BY ClearStep
<1>3. Indexed /\ ClearCovers => ClearLeavesNothing
  <2> SUFFICES ASSUME Indexed, ClearCovers, clearing, toClear = {},
                      NEW t \in AtomTypes, NEW h \in typeIndex[t]
               PROVE  FALSE
    BY DEF ClearLeavesNothing
  <2>1. h \in Handles /\ type[h] = t
    BY DEF Indexed, IndexesAgree
  <2>2. type[h] # NOTYPE
    BY <2>1 DEF AtomTypes, LinkTypes, NOTYPE
  <2>3. h \in Valid
    BY <2>1, <2>2, ValidHasAtom DEF Indexed, Consistent, Valid
  <2> QED BY <2>3 DEF ClearCovers
<1> QED BY <1>1, <1>2, <1>3, SpaceIndexed, PTL DEF SpaceSpec

-----------------------------------------------------------------------------
(* The currency                                                            *)

\* k units of importance of the holder x; none when k is negative.
Part(x, k) == {<<x, n>> : n \in 1 .. k}

\* The units the holders in S have (sign is 1), or lack (sign is -1).
Parts(av, sign, S) == UNION {Part(x, sign * av[x]) : x \in S}

\* What S holds in total, counted in units.
Units(av, S) == Cardinality(Parts(av, 1, S)) - Cardinality(Parts(av, -1, S))

\* A holder has as many units as its importance says.
LEMMA PartCount ==
  ASSUME NEW x, NEW k \in Int
  PROVE  IsFiniteSet(Part(x, k)) /\ Cardinality(Part(x, k)) = IF k > 0 THEN k ELSE 0
<1> DEFINE f == [n \in 1 .. k |-> <<x, n>>]
<1>1. f \in Bijection(1 .. k, Part(x, k))
  <2>1. f \in [1 .. k -> Part(x, k)]
    BY DEF Part
  <2>2. \A m, n \in 1 .. k : f[m] = f[n] => m = n
    OBVIOUS
  <2>3. \A t \in Part(x, k) : \E n \in 1 .. k : f[n] = t
    BY DEF Part
  <2> QED BY <2>1, <2>2, <2>3 DEF Bijection, Injection, IsInjective, Surjection
<1>2. IsFiniteSet(1 .. k) /\ Cardinality(1 .. k) = IF 1 > k THEN 0 ELSE k - 1 + 1
  BY FS_Interval
<1>3. IsFiniteSet(Part(x, k)) /\ Cardinality(Part(x, k)) = Cardinality(1 .. k)
  <2>1. ExistsBijection(1 .. k, Part(x, k))
    BY <1>1 DEF ExistsBijection
  <2> QED BY <1>2, <2>1, FS_Bijection
<1> QED BY <1>2, <1>3

\* Finitely many holders have finitely many units.
LEMMA PartsType ==
  ASSUME NEW S, IsFiniteSet(S), NEW av, \A x \in S : av[x] \in Int, NEW sign \in {1, -1}
  PROVE  IsFiniteSet(Parts(av, sign, S)) /\ Cardinality(Parts(av, sign, S)) \in Nat
<1> DEFINE T == {Part(x, sign * av[x]) : x \in S}
           f == [x \in S |-> Part(x, sign * av[x])]
<1>1. \A x \in S : sign * av[x] \in Int
  OBVIOUS
<1>2. \A t \in T : IsFiniteSet(t)
  BY <1>1, PartCount
<1>3. f \in Surjection(S, T)
  BY DEF Surjection
<1>4. IsFiniteSet(T)
  BY <1>3, FS_Surjection
<1>5. IsFiniteSet(UNION T)
  BY <1>2, <1>4, FS_UNION
<1> QED BY <1>5, FS_CardinalityType DEF Parts

\* Disjoint finite sets are counted one by one.
LEMMA DisjointCount ==
  ASSUME NEW A, IsFiniteSet(A), NEW B, IsFiniteSet(B), A \cap B = {}
  PROVE  Cardinality(A \cup B) = Cardinality(A) + Cardinality(B)
<1>1. Cardinality(A) \in Nat /\ Cardinality(B) \in Nat
  BY FS_CardinalityType
<1>2. PICK a \in Nat, b \in Nat : a = Cardinality(A) /\ b = Cardinality(B)
  BY <1>1
<1>3. Cardinality({}) = 0
  BY FS_EmptySet
<1>4. Cardinality(A \cup B) = Cardinality(A) + Cardinality(B) - Cardinality(A \cap B)
  BY FS_Union
<1>5. Cardinality(A \cup B) = a + b - 0
  BY <1>2, <1>3, <1>4
<1> QED BY <1>2, <1>5

\* Units of disjoint sets add up.
LEMMA PartsUnion ==
  ASSUME NEW S, IsFiniteSet(S), NEW T, IsFiniteSet(T), S \cap T = {},
         NEW av, \A x \in S \cup T : av[x] \in Int, NEW sign \in {1, -1}
  PROVE  Cardinality(Parts(av, sign, S \cup T)) = Cardinality(Parts(av, sign, S)) + Cardinality(Parts(av, sign, T))
<1>1. Parts(av, sign, S \cup T) = Parts(av, sign, S) \cup Parts(av, sign, T)
  BY DEF Parts
<1>2. /\ IsFiniteSet(Parts(av, sign, S)) /\ Cardinality(Parts(av, sign, S)) \in Nat
      /\ IsFiniteSet(Parts(av, sign, T)) /\ Cardinality(Parts(av, sign, T)) \in Nat
  BY PartsType
<1>3. Parts(av, sign, S) \cap Parts(av, sign, T) = {}
  <2>1. \A p \in Parts(av, sign, S) : p[1] \in S
    BY DEF Parts, Part
  <2>2. \A p \in Parts(av, sign, T) : p[1] \in T
    BY DEF Parts, Part
  <2> QED BY <2>1, <2>2
<1> QED BY <1>1, <1>2, <1>3, DisjointCount

\* What two sets apart from each other hold adds up, lacks included.
LEMMA UnitsUnion ==
  ASSUME NEW S, IsFiniteSet(S), NEW T, IsFiniteSet(T), S \cap T = {},
         NEW av, \A x \in S \cup T : av[x] \in Int
  PROVE  Units(av, S \cup T) = Units(av, S) + Units(av, T) /\ Units(av, S) \in Int /\ Units(av, T) \in Int
<1>1. /\ \A sign \in {1, -1} : Cardinality(Parts(av, sign, S)) \in Nat /\ Cardinality(Parts(av, sign, T)) \in Nat
      /\ \A sign \in {1, -1} : Cardinality(Parts(av, sign, S \cup T)) = Cardinality(Parts(av, sign, S)) + Cardinality(Parts(av, sign, T))
  <2> SUFFICES ASSUME NEW sign \in {1, -1}
               PROVE  /\ Cardinality(Parts(av, sign, S)) \in Nat /\ Cardinality(Parts(av, sign, T)) \in Nat
                      /\ Cardinality(Parts(av, sign, S \cup T)) = Cardinality(Parts(av, sign, S)) + Cardinality(Parts(av, sign, T))
    OBVIOUS
  <2>1. (\A x \in S : av[x] \in Int) /\ (\A x \in T : av[x] \in Int)
    OBVIOUS
  <2>2. Cardinality(Parts(av, sign, S)) \in Nat
    BY <2>1, PartsType
  <2>3. Cardinality(Parts(av, sign, T)) \in Nat
    BY <2>1, PartsType
  <2>4. Cardinality(Parts(av, sign, S \cup T)) = Cardinality(Parts(av, sign, S)) + Cardinality(Parts(av, sign, T))
    BY PartsUnion
  <2> QED BY <2>2, <2>3, <2>4
<1>2. 1 \in {1, -1} /\ -1 \in {1, -1}
  OBVIOUS
<1>3. PICK a \in Nat, b \in Nat, c \in Nat, d \in Nat :
        /\ a = Cardinality(Parts(av, 1, S)) /\ b = Cardinality(Parts(av, 1, T))
        /\ c = Cardinality(Parts(av, -1, S)) /\ d = Cardinality(Parts(av, -1, T))
  BY <1>1, <1>2
<1>4. Cardinality(Parts(av, 1, S \cup T)) = a + b /\ Cardinality(Parts(av, -1, S \cup T)) = c + d
  BY <1>1, <1>2, <1>3
<1>5. Units(av, S \cup T) = (a + b) - (c + d) /\ Units(av, S) = a - c /\ Units(av, T) = b - d
  BY <1>3, <1>4 DEF Units
<1> QED BY <1>5

\* One holder has what its importance says; no holder has nothing.
LEMMA UnitsOne ==
  ASSUME NEW av, NEW x, av[x] \in Int
  PROVE  Units(av, {x}) = av[x] /\ Units(av, {}) = 0
<1>1. \A sign : Parts(av, sign, {x}) = Part(x, sign * av[x]) /\ Parts(av, sign, {}) = {}
  BY DEF Parts
<1>2. PICK k \in Int : k = av[x]
  OBVIOUS
<1>3. 1 * k = k /\ (-1) * k = -k
  OBVIOUS
<1>4. /\ Cardinality(Part(x, k)) = IF k > 0 THEN k ELSE 0
      /\ Cardinality(Part(x, -k)) = IF -k > 0 THEN -k ELSE 0
  BY PartCount
<1>5. Units(av, {x}) = (IF k > 0 THEN k ELSE 0) - (IF -k > 0 THEN -k ELSE 0)
  BY <1>1, <1>2, <1>3, <1>4 DEF Units
<1>6. Units(av, {}) = 0 - 0
  BY <1>1, FS_EmptySet DEF Units
<1> QED BY <1>2, <1>5, <1>6

\* g sums up av over the subsets of S, one element after the other: the
\* recursive function inside MapThenSumSet.
Sums(av, S, g) ==
  g = [s \in SUBSET S |-> IF s = {} THEN 0 ELSE av[CHOOSE x \in s : TRUE] + g[s \ {CHOOSE x \in s : TRUE}]]

\* The sum taken element by element, in whatever order, is the number of units:
\* the counting function satisfies the recursion, and a smallest set on which
\* another solution differs from it cannot exist.
LEMMA TotalIs ==
  ASSUME NEW S, IsFiniteSet(S), NEW av, \A x \in S : av[x] \in Int
  PROVE  Total(av, S) = Units(av, S)
<1> DEFINE f == [s \in SUBSET S |-> Units(av, s)]
\* What is left after one element.
<1>1. ASSUME NEW s \in SUBSET S, NEW x \in s
      PROVE  Units(av, s) = av[x] + Units(av, s \ {x})
  <2>1. IsFiniteSet(s \ {x}) /\ IsFiniteSet({x}) /\ {x} \cap (s \ {x}) = {} /\ s = {x} \cup (s \ {x})
    <3>1. IsFiniteSet(s \ {x})
      BY FS_Subset
    <3> QED BY <3>1, FS_Singleton
  <2>2. av[x] \in Int /\ \A y \in {x} \cup (s \ {x}) : av[y] \in Int
    OBVIOUS
  <2>3. Units(av, {x} \cup (s \ {x})) = Units(av, {x}) + Units(av, s \ {x})
    BY <2>1, <2>2, UnitsUnion
  <2> QED BY <2>1, <2>2, <2>3, UnitsOne
<1>2. Sums(av, S, f)
  <2> SUFFICES ASSUME NEW s \in SUBSET S
               PROVE  f[s] = IF s = {} THEN 0 ELSE av[CHOOSE x \in s : TRUE] + f[s \ {CHOOSE x \in s : TRUE}]
    BY DEF Sums
  <2>1. CASE s = {}
    <3>1. Units(av, {}) = 0
      <4>1. \A sign : Parts(av, sign, {}) = {}
        BY DEF Parts
      <4> QED BY <4>1, FS_EmptySet DEF Units
    <3> QED BY <2>1, <3>1
  <2>2. CASE s # {}
    <3>1. PICK c : c = CHOOSE x \in s : TRUE
      OBVIOUS
    <3>2. c \in s /\ s \ {c} \in SUBSET S
      BY <2>2, <3>1
    <3>3. f[s] = av[c] + f[s \ {c}]
      BY <1>1, <3>2
    <3> QED BY <2>2, <3>1, <3>3
  <2> QED BY <2>1, <2>2
<1>3. ASSUME NEW g, Sums(av, S, g) PROVE g = f
  <2> DEFINE T == {s \in SUBSET S : g[s] # f[s]}
  <2>1. T = {}
    <3> SUFFICES ASSUME T # {} PROVE FALSE
      OBVIOUS
    <3>1. IsWellFoundedOn(StrictSubsetOrdering(S), SUBSET S)
      BY FS_StrictSubsetOrderingWellFounded, FS_FiniteSubsetsOfFinite
    <3>2. T \subseteq SUBSET S
      OBVIOUS
    <3> HIDE DEF T
    <3>3. PICK s \in T : \A t \in T : ~ (<<t, s>> \in StrictSubsetOrdering(S))
      BY <3>1, <3>2, WFMin
    <3> USE DEF T
    <3>4. s # {}
      BY <1>2, <1>3 DEF Sums
    <3>5. PICK c : c = CHOOSE x \in s : TRUE
      OBVIOUS
    <3>6. c \in s /\ s \ {c} \in SUBSET S /\ s \in SUBSET S
      BY <3>4, <3>5
    <3>7. <<s \ {c}, s>> \in StrictSubsetOrdering(S)
      BY <3>6 DEF StrictSubsetOrdering
    <3>8. g[s \ {c}] = f[s \ {c}]
      BY <3>3, <3>6, <3>7
    <3> HIDE DEF f
    <3>9. g[s] = av[c] + g[s \ {c}] /\ f[s] = av[c] + f[s \ {c}]
      BY <1>2, <1>3, <3>4, <3>5, <3>6 DEF Sums
    <3> QED BY <3>3, <3>8, <3>9
  <2>2. \A s \in SUBSET S : g[s] = f[s]
    BY <2>1
  <2>3. g = [s \in SUBSET S |-> g[s]]
    BY <1>3 DEF Sums
  <2> QED BY <2>2, <2>3
<1>4. Total(av, S) = (CHOOSE g : Sums(av, S, g))[S]
  BY DEF Total, MapThenSumSet, MapThenFoldSet, Sums
<1> HIDE DEF f
<1>5. (CHOOSE g : Sums(av, S, g)) = f
  BY <1>2, <1>3
<1> QED BY <1>4, <1>5 DEF f

\* The importance a set of holders has in total is an integer.
LEMMA TotalType ==
  ASSUME NEW S, IsFiniteSet(S), NEW av, \A x \in S : av[x] \in Int
  PROVE  Total(av, S) \in Int
<1>1. S \cup {} = S /\ S \cap {} = {} /\ IsFiniteSet({})
  BY FS_EmptySet
<1>2. Units(av, S) \in Int
  BY <1>1, UnitsUnion
<1> QED BY <1>2, TotalIs

\* Holders apart from each other add up.
LEMMA TotalUnion ==
  ASSUME NEW S, IsFiniteSet(S), NEW T, IsFiniteSet(T), S \cap T = {},
         NEW av, \A x \in S \cup T : av[x] \in Int
  PROVE  Total(av, S \cup T) = Total(av, S) + Total(av, T)
<1>1. IsFiniteSet(S \cup T) /\ (\A x \in S : av[x] \in Int) /\ (\A x \in T : av[x] \in Int)
  BY FS_Union
<1>2. Total(av, S \cup T) = Units(av, S \cup T)
  BY <1>1, TotalIs
<1>3. Total(av, S) = Units(av, S) /\ Total(av, T) = Units(av, T)
  BY <1>1, TotalIs
<1>4. Units(av, S \cup T) = Units(av, S) + Units(av, T)
  BY UnitsUnion
<1> QED BY <1>2, <1>3, <1>4

\* The total depends only on what the holders have.
LEMMA TotalSame ==
  ASSUME NEW S, IsFiniteSet(S), NEW av, NEW bv,
         \A x \in S : av[x] \in Int /\ bv[x] = av[x]
  PROVE  Total(bv, S) = Total(av, S)
<1>1. (\A x \in S : av[x] \in Int) /\ (\A x \in S : bv[x] \in Int)
  OBVIOUS
<1>2. \A sign : Parts(bv, sign, S) = Parts(av, sign, S)
  <2> TAKE sign
  <2>1. {Part(x, sign * bv[x]) : x \in S} = {Part(x, sign * av[x]) : x \in S}
    OBVIOUS
  <2> QED BY <2>1 DEF Parts
<1>3. Units(bv, S) = Units(av, S)
  BY <1>2 DEF Units
<1> QED BY <1>1, <1>3, TotalIs

\* One holder alone.
LEMMA TotalOne ==
  ASSUME NEW av, NEW x, av[x] \in Int
  PROVE  Total(av, {x}) = av[x]
<1>1. IsFiniteSet({x}) /\ \A y \in {x} : av[y] \in Int
  BY FS_Singleton
<1>2. Total(av, {x}) = Units(av, {x})
  BY <1>1, TotalIs
<1>3. Units(av, {x}) = av[x]
  BY UnitsOne
<1> QED BY <1>2, <1>3

\* A new holder adds what it has.
LEMMA TotalAdded ==
  ASSUME NEW S, IsFiniteSet(S), NEW x, x \notin S, NEW av, NEW bv,
         \A y \in S : av[y] \in Int /\ bv[y] = av[y], bv[x] \in Int
  PROVE  Total(bv, S \cup {x}) = Total(av, S) + bv[x] /\ Total(av, S) \in Int
<1>1. IsFiniteSet({x}) /\ S \cap {x} = {} /\ \A y \in S \cup {x} : bv[y] \in Int
  BY FS_Singleton
<1>2. Total(bv, S \cup {x}) = Total(bv, S) + Total(bv, {x})
  BY <1>1, TotalUnion
<1>3. Total(bv, S) = Total(av, S)
  BY TotalSame
<1>4. Total(bv, {x}) = bv[x]
  BY TotalOne
<1>5. Total(av, S) \in Int
  BY TotalType
<1> QED BY <1>2, <1>3, <1>4, <1>5

\* Holders that leave take what they have.
LEMMA TotalRemoved ==
  ASSUME NEW S, IsFiniteSet(S), NEW X \in SUBSET S, NEW av, NEW bv,
         \A y \in S : av[y] \in Int, \A y \in S \ X : bv[y] = av[y]
  PROVE  Total(av, S) = Total(bv, S \ X) + Total(av, X) /\ Total(bv, S \ X) \in Int /\ Total(av, X) \in Int
<1>1. IsFiniteSet(X) /\ IsFiniteSet(S \ X)
  <2>1. X \subseteq S /\ S \ X \subseteq S
    OBVIOUS
  <2> QED BY <2>1, FS_Subset
<1>2. (S \ X) \cup X = S /\ (S \ X) \cap X = {}
  OBVIOUS
<1>3. PICK R : R = S \ X
  OBVIOUS
<1>4. Total(av, R \cup X) = Total(av, R) + Total(av, X)
  BY <1>1, <1>2, <1>3, TotalUnion
<1>5. Total(bv, R) = Total(av, R)
  BY <1>1, <1>3, TotalSame
<1>6. Total(av, R) \in Int /\ Total(av, X) \in Int
  <2>1. (\A x \in R : av[x] \in Int) /\ (\A x \in X : av[x] \in Int)
    BY <1>3
  <2>2. Total(av, R) \in Int
    BY <1>1, <1>3, <2>1, TotalType
  <2>3. Total(av, X) \in Int
    BY <1>1, <2>1, TotalType
  <2> QED BY <2>2, <2>3
<1> QED BY <1>2, <1>3, <1>4, <1>5, <1>6

\* What one holder gets more, the total is more.
LEMMA TotalUpdated ==
  ASSUME NEW S, IsFiniteSet(S), NEW h \in S, NEW av, NEW bv,
         \A y \in S : av[y] \in Int, \A y \in S \ {h} : bv[y] = av[y], bv[h] \in Int
  PROVE  /\ Total(bv, S) = Total(av, S) - av[h] + bv[h]
         /\ Total(av, S) \in Int /\ av[h] \in Int
<1>1. PICK R : R = S \ {h}
  OBVIOUS
<1>2. PICK k \in Int : k = bv[h]
  OBVIOUS
<1>3. /\ \A y \in R : av[y] \in Int /\ bv[y] = av[y]
      /\ bv[h] \in Int
  BY <1>1
<1>4. IsFiniteSet(R) /\ h \notin R /\ R \cup {h} = S /\ av[h] \in Int
  BY <1>1, FS_Subset
<1>5. Total(bv, R \cup {h}) = Total(av, R) + bv[h] /\ Total(av, R) \in Int
  BY <1>3, <1>4, TotalAdded, SMTT(30)
<1>6. Total(av, R \cup {h}) = Total(av, R) + av[h]
  BY <1>3, <1>4, TotalAdded
<1>7. PICK r \in Int, a \in Int : r = Total(av, R) /\ a = av[h]
  BY <1>4, <1>5
<1>8. Total(bv, S) = r + k /\ Total(av, S) = r + a
  BY <1>2, <1>4, <1>5, <1>6, <1>7
<1>9. r + k = (r + a) - a + k
  OBVIOUS
<1> QED BY <1>2, <1>4, <1>7, <1>8, <1>9

-----------------------------------------------------------------------------
\* Pools and holders have integers, so what is held together can be compared.
PoolsOK ==
  /\ fundsSTI \in Int /\ fundsLTI \in Int
  /\ agentSTI \in [Agents -> Int] /\ agentLTI \in [Agents -> Int]
  /\ decays \in Nat

\* No importance is made or lost in this step.
Conserved ==
  /\ Held(fundsSTI, sti, agentSTI)' = Held(fundsSTI, sti, agentSTI)
  /\ Held(fundsLTI, lti, agentLTI)' = Held(fundsLTI, lti, agentLTI)

\* The sets of holders are finite, and what they have are integers.
LEMMA HoldersOK ==
  ASSUME Consistent, PoolsOK
  PROVE  /\ IsFiniteSet(Handles) /\ IsFiniteSet(Valid) /\ Valid \subseteq Handles
         /\ sti \in [Handles -> Int] /\ lti \in [Handles -> Int]
         /\ Total(agentSTI, Agents) \in Int /\ Total(agentLTI, Agents) \in Int
<1>1. MaxHandle \in Int /\ IsFiniteSet(1 .. MaxHandle)
  BY HandleBounds, FS_Interval
<1>2. Valid \subseteq Handles
  BY DEF Valid
<1>3. IsFiniteSet(Handles) /\ IsFiniteSet(Valid)
  BY <1>1, <1>2, FS_Subset DEF Handles
<1>4. STIs \subseteq Int /\ LTIs \subseteq Int
  BY ImportanceBounds DEF STIs
<1>5. sti \in [Handles -> Int] /\ lti \in [Handles -> Int]
  BY <1>4 DEF Consistent, TypeOK
<1>6. (\A a \in Agents : agentSTI[a] \in Int) /\ (\A a \in Agents : agentLTI[a] \in Int)
  BY DEF PoolsOK
<1>7. Total(agentSTI, Agents) \in Int
  BY <1>6, FundsAssumption, TotalType
<1>8. Total(agentLTI, Agents) \in Int
  BY <1>6, FundsAssumption, TotalType
<1> QED BY <1>2, <1>3, <1>5, <1>7, <1>8

\* A new atom has nothing and is paid nothing.
LEMMA InsertConserves ==
  ASSUME Consistent, PoolsOK, NEW t \in AtomTypes, NEW n, NEW out, Insert(t, n, out),
         PayDefault, UNCHANGED agentAV
  PROVE  Conserved
<1>1. brk_uuid \in Handles /\ type[brk_uuid] = NOTYPE /\ t # NOTYPE /\ type'[brk_uuid] = t
      /\ \A g \in Handles \ {brk_uuid} : type'[g] = type[g]
  BY InsertEffect
<1>2. brk_uuid \in Int /\ brk_uuid' = brk_uuid + 1
  BY DEF Insert, NewHandle, Consistent, TypeOK
<1>3. brk_uuid \notin Valid /\ Valid' = Valid \cup {brk_uuid}
  <2>1. \A g \in Handles : isValidHandle(g) <=> type[g] # NOTYPE
    BY ValidHasAtom DEF Consistent
  <2>2. \A g \in Handles : g \in Int /\ (g < brk_uuid => g < brk_uuid')
    BY <1>2 DEF Handles
  <2>3. brk_uuid \notin Valid
    BY <1>1, <2>1 DEF Valid
  <2>4. ASSUME NEW g \in Handles
        PROVE  g \in Valid' <=> g \in Valid \/ g = brk_uuid
    <3>1. CASE g = brk_uuid
      BY <1>1, <1>2, <3>1 DEF Valid, isValidHandle
    <3>2. CASE g # brk_uuid
      BY <1>1, <2>1, <2>2, <3>2 DEF Valid, isValidHandle
    <3> QED BY <3>1, <3>2
  <2>5. Valid \subseteq Handles /\ Valid' \subseteq Handles
    BY DEF Valid
  <2> QED BY <1>1, <2>3, <2>4, <2>5
<1>4. PICK b : b = brk_uuid
  OBVIOUS
<1>5. /\ sti'[b] = 0 /\ \A y \in Valid : sti[y] \in Int /\ sti'[y] = sti[y]
      /\ lti'[b] = 0 /\ \A y \in Valid : lti[y] \in Int /\ lti'[y] = lti[y]
  BY <1>1, <1>3, <1>4, HoldersOK DEF Insert, NewHandle, DEFAULTATOMSTI, DEFAULTATOMLTI
<1>6. IsFiniteSet(Valid) /\ b \notin Valid /\ Valid' = Valid \cup {b}
  BY <1>3, <1>4, HoldersOK
<1>7. Total(sti', Valid \cup {b}) = Total(sti, Valid) + sti'[b] /\ Total(sti, Valid) \in Int
  <2>1. PICK S, av, bv : S = Valid /\ av = sti /\ bv = sti'
    OBVIOUS
  <2>2. /\ IsFiniteSet(S) /\ b \notin S
        /\ \A y \in S : av[y] \in Int /\ bv[y] = av[y]
        /\ bv[b] \in Int
    BY <1>5, <1>6, <2>1
  <2>3. Total(bv, S \cup {b}) = Total(av, S) + bv[b] /\ Total(av, S) \in Int
    BY <2>2, TotalAdded
  <2> QED BY <2>1, <2>3
<1>8. Total(lti', Valid \cup {b}) = Total(lti, Valid) + lti'[b] /\ Total(lti, Valid) \in Int
  <2>1. PICK S, av, bv : S = Valid /\ av = lti /\ bv = lti'
    OBVIOUS
  <2>2. /\ IsFiniteSet(S) /\ b \notin S
        /\ \A y \in S : av[y] \in Int /\ bv[y] = av[y]
        /\ bv[b] \in Int
    BY <1>5, <1>6, <2>1
  <2>3. Total(bv, S \cup {b}) = Total(av, S) + bv[b] /\ Total(av, S) \in Int
    BY <2>2, TotalAdded
  <2> QED BY <2>1, <2>3
<1>9. Total(sti', Valid') = Total(sti, Valid) /\ Total(lti', Valid') = Total(lti, Valid)
  BY <1>5, <1>6, <1>7, <1>8
<1>10. fundsSTI' = fundsSTI /\ fundsLTI' = fundsLTI /\ agentSTI' = agentSTI /\ agentLTI' = agentLTI
  BY DEF PayDefault, PoolsOK, DEFAULTATOMSTI, DEFAULTATOMLTI, agentAV
<1> QED BY <1>9, <1>10 DEF Conserved, Held

\* What the removed atoms had goes back to the pools; removeAtom refunds every
\* atom that extract takes, the links above h included.
LEMMA RemoveConserves ==
  ASSUME Consistent, PoolsOK, NEW h \in Handles, NEW recursive \in BOOLEAN,
         removeAtom(h, recursive), UNCHANGED agentAV
  PROVE  Conserved /\ fundsSTI' \in Int /\ fundsLTI' \in Int
<1>1. PICK X : X = Extracted(h, recursive)
  OBVIOUS
<1>2. h \in Valid /\ X \subseteq Valid /\ X \subseteq Handles
  BY <1>1, TakenAreValid DEF removeAtom, remove, Valid
<1>3. Removable(X)
  BY <1>1, <1>2, ExtractedClosed, ClosedIsRemovable
<1>4. /\ Discard(X)
      /\ sti' = [x \in Handles |-> IF x \in X THEN DEFAULTATOMSTI ELSE sti[x]]
      /\ fundsSTI' = fundsSTI + Total(sti, X) /\ fundsLTI' = fundsLTI + Total(lti, X)
  BY <1>1, <1>3 DEF removeAtom, remove, Refund
<1>5. Valid' = Valid \ X
  BY <1>2, <1>4 DEF Discard, Valid, isValidHandle
<1>6. \A y \in Valid \ X : sti'[y] = sti[y] /\ lti'[y] = lti[y]
  BY <1>4, HoldersOK DEF Discard
<1>7. Total(sti, Valid) = Total(sti', Valid \ X) + Total(sti, X) /\ Total(sti', Valid \ X) \in Int /\ Total(sti, X) \in Int
  <2>1. PICK S, av, bv : S = Valid /\ av = sti /\ bv = sti'
    OBVIOUS
  <2>2. /\ IsFiniteSet(S) /\ X \in SUBSET S
        /\ \A y \in S : av[y] \in Int
        /\ \A y \in S \ X : bv[y] = av[y]
    BY <1>2, <1>6, <2>1, HoldersOK
  <2>3. Total(av, S) = Total(bv, S \ X) + Total(av, X) /\ Total(bv, S \ X) \in Int /\ Total(av, X) \in Int
    BY <2>2, TotalRemoved
  <2> QED BY <2>1, <2>3
<1>8. Total(lti, Valid) = Total(lti', Valid \ X) + Total(lti, X) /\ Total(lti', Valid \ X) \in Int /\ Total(lti, X) \in Int
  <2>1. PICK S, av, bv : S = Valid /\ av = lti /\ bv = lti'
    OBVIOUS
  <2>2. /\ IsFiniteSet(S) /\ X \in SUBSET S
        /\ \A y \in S : av[y] \in Int
        /\ \A y \in S \ X : bv[y] = av[y]
    BY <1>2, <1>6, <2>1, HoldersOK
  <2>3. Total(av, S) = Total(bv, S \ X) + Total(av, X) /\ Total(bv, S \ X) \in Int /\ Total(av, X) \in Int
    BY <2>2, TotalRemoved
  <2> QED BY <2>1, <2>3
<1>9. agentSTI' = agentSTI /\ agentLTI' = agentLTI
  BY DEF agentAV
<1>10. Held(fundsSTI, sti, agentSTI)' = Held(fundsSTI, sti, agentSTI) /\ fundsSTI' \in Int
  <2>1. PICK f \in Int, r \in Int, x \in Int, a \in Int :
          f = fundsSTI /\ r = Total(sti', Valid \ X) /\ x = Total(sti, X) /\ a = Total(agentSTI, Agents)
    BY <1>7, HoldersOK DEF PoolsOK
  <2>2. Held(fundsSTI, sti, agentSTI) = f + (r + x) + a
    BY <1>7, <2>1 DEF Held
  <2>3. Held(fundsSTI, sti, agentSTI)' = (f + x) + r + a
    BY <1>4, <1>5, <1>9, <2>1 DEF Held
  <2> QED BY <1>4, <2>1, <2>2, <2>3
<1>11. Held(fundsLTI, lti, agentLTI)' = Held(fundsLTI, lti, agentLTI) /\ fundsLTI' \in Int
  <2>1. PICK f \in Int, r \in Int, x \in Int, a \in Int :
          f = fundsLTI /\ r = Total(lti', Valid \ X) /\ x = Total(lti, X) /\ a = Total(agentLTI, Agents)
    BY <1>8, HoldersOK DEF PoolsOK
  <2>2. Held(fundsLTI, lti, agentLTI) = f + (r + x) + a
    BY <1>8, <2>1 DEF Held
  <2>3. Held(fundsLTI, lti, agentLTI)' = (f + x) + r + a
    BY <1>4, <1>5, <1>9, <2>1 DEF Held
  <2> QED BY <1>4, <2>1, <2>2, <2>3
<1> QED BY <1>10, <1>11 DEF Conserved

\* What an atom gets, the pool pays.
LEMMA SetAVConserves ==
  ASSUME Consistent, PoolsOK, NEW h \in Handles, NEW s \in Int, NEW l \in Int, SetAV(h, s, l)
  PROVE  Conserved /\ fundsSTI' \in Int /\ fundsLTI' \in Int
<1>1. /\ h \in Valid /\ Valid' = Valid
      /\ sti' = [sti EXCEPT ![h] = s] /\ lti' = [lti EXCEPT ![h] = l]
      /\ fundsSTI' = fundsSTI + (sti[h] - s) /\ fundsLTI' = fundsLTI + (lti[h] - l)
      /\ agentSTI' = agentSTI /\ agentLTI' = agentLTI
  BY DEF SetAV, setAttentionValue, Valid, isValidHandle, atoms, agentAV
<1>2. Total([sti EXCEPT ![h] = s], Valid) = Total(sti, Valid) - sti[h] + s /\ Total(sti, Valid) \in Int /\ sti[h] \in Int
  <2>1. PICK S, av, bv : S = Valid /\ av = sti /\ bv = [sti EXCEPT ![h] = s]
    OBVIOUS
  <2>2. /\ IsFiniteSet(S) /\ h \in S /\ bv[h] = s /\ bv[h] \in Int
        /\ \A y \in S : av[y] \in Int
        /\ \A y \in S \ {h} : bv[y] = av[y]
    BY <1>1, <2>1, HoldersOK
  <2>3. Total(bv, S) = Total(av, S) - av[h] + bv[h] /\ Total(av, S) \in Int /\ av[h] \in Int
    BY ONLY <2>2, TotalUpdated
  <2> QED BY <2>1, <2>2, <2>3
<1>3. Total([lti EXCEPT ![h] = l], Valid) = Total(lti, Valid) - lti[h] + l /\ Total(lti, Valid) \in Int /\ lti[h] \in Int
  <2>1. PICK S, av, bv : S = Valid /\ av = lti /\ bv = [lti EXCEPT ![h] = l]
    OBVIOUS
  <2>2. /\ IsFiniteSet(S) /\ h \in S /\ bv[h] = l /\ bv[h] \in Int
        /\ \A y \in S : av[y] \in Int
        /\ \A y \in S \ {h} : bv[y] = av[y]
    BY <1>1, <2>1, HoldersOK
  <2>3. Total(bv, S) = Total(av, S) - av[h] + bv[h] /\ Total(av, S) \in Int /\ av[h] \in Int
    BY ONLY <2>2, TotalUpdated
  <2> QED BY <2>1, <2>2, <2>3
<1>4. Held(fundsSTI, sti, agentSTI)' = Held(fundsSTI, sti, agentSTI) /\ fundsSTI' \in Int
  <2>1. PICK f \in Int, r \in Int, x \in Int, a \in Int :
          f = fundsSTI /\ r = Total(sti, Valid) /\ x = sti[h] /\ a = Total(agentSTI, Agents)
    BY <1>2, HoldersOK DEF PoolsOK
  <2>2. Held(fundsSTI, sti, agentSTI) = f + r + a
    BY <2>1 DEF Held
  <2>3. Held(fundsSTI, sti, agentSTI)' = (f + (x - s)) + (r - x + s) + a
    BY <1>1, <1>2, <2>1 DEF Held
  <2> QED BY <1>1, <2>1, <2>2, <2>3
<1>5. Held(fundsLTI, lti, agentLTI)' = Held(fundsLTI, lti, agentLTI) /\ fundsLTI' \in Int
  <2>1. PICK f \in Int, r \in Int, x \in Int, a \in Int :
          f = fundsLTI /\ r = Total(lti, Valid) /\ x = lti[h] /\ a = Total(agentLTI, Agents)
    BY <1>3, HoldersOK DEF PoolsOK
  <2>2. Held(fundsLTI, lti, agentLTI) = f + r + a
    BY <2>1 DEF Held
  <2>3. Held(fundsLTI, lti, agentLTI)' = (f + (x - l)) + (r - x + l) + a
    BY <1>1, <1>3, <2>1 DEF Held
  <2> QED BY <1>1, <2>1, <2>2, <2>3
<1> QED BY <1>4, <1>5 DEF Conserved

\* What an agent gets, the pool pays.
LEMMA SetAgentAVConserves ==
  ASSUME Consistent, PoolsOK, NEW g \in Agents, NEW s \in Int, NEW l \in Int, SetAgentAV(g, s, l)
  PROVE  /\ Conserved /\ fundsSTI' \in Int /\ fundsLTI' \in Int
         /\ agentSTI' \in [Agents -> Int] /\ agentLTI' \in [Agents -> Int]
<1>1. /\ agentSTI' = [agentSTI EXCEPT ![g] = s] /\ agentLTI' = [agentLTI EXCEPT ![g] = l]
      /\ fundsSTI' = fundsSTI + (agentSTI[g] - s) /\ fundsLTI' = fundsLTI + (agentLTI[g] - l)
      /\ UNCHANGED vars
  BY DEF SetAgentAV
<1>2. Valid' = Valid /\ sti' = sti /\ lti' = lti
  BY <1>1 DEF vars, Valid, isValidHandle
<1>3. agentSTI \in [Agents -> Int] /\ agentLTI \in [Agents -> Int] /\ IsFiniteSet(Agents)
  BY FundsAssumption DEF PoolsOK
<1>4. Total([agentSTI EXCEPT ![g] = s], Agents) = Total(agentSTI, Agents) - agentSTI[g] + s /\ agentSTI[g] \in Int
  <2>1. PICK S, av, bv : S = Agents /\ av = agentSTI /\ bv = [agentSTI EXCEPT ![g] = s]
    OBVIOUS
  <2>2. /\ IsFiniteSet(S) /\ g \in S /\ bv[g] = s /\ bv[g] \in Int
        /\ \A y \in S : av[y] \in Int
        /\ \A y \in S \ {g} : bv[y] = av[y]
    BY <1>3, <2>1
  <2>3. Total(bv, S) = Total(av, S) - av[g] + bv[g] /\ Total(av, S) \in Int /\ av[g] \in Int
    BY ONLY <2>2, TotalUpdated
  <2> QED BY <2>1, <2>2, <2>3
<1>5. Total([agentLTI EXCEPT ![g] = l], Agents) = Total(agentLTI, Agents) - agentLTI[g] + l /\ agentLTI[g] \in Int
  <2>1. PICK S, av, bv : S = Agents /\ av = agentLTI /\ bv = [agentLTI EXCEPT ![g] = l]
    OBVIOUS
  <2>2. /\ IsFiniteSet(S) /\ g \in S /\ bv[g] = l /\ bv[g] \in Int
        /\ \A y \in S : av[y] \in Int
        /\ \A y \in S \ {g} : bv[y] = av[y]
    BY <1>3, <2>1
  <2>3. Total(bv, S) = Total(av, S) - av[g] + bv[g] /\ Total(av, S) \in Int /\ av[g] \in Int
    BY ONLY <2>2, TotalUpdated
  <2> QED BY <2>1, <2>2, <2>3
<1>6. Total(sti, Valid) \in Int /\ Total(lti, Valid) \in Int
  <2>1. (\A x \in Valid : sti[x] \in Int) /\ (\A x \in Valid : lti[x] \in Int) /\ IsFiniteSet(Valid)
    BY HoldersOK
  <2>2. Total(sti, Valid) \in Int
    BY <2>1, TotalType
  <2>3. Total(lti, Valid) \in Int
    BY <2>1, TotalType
  <2> QED BY <2>2, <2>3
<1>7. Held(fundsSTI, sti, agentSTI)' = Held(fundsSTI, sti, agentSTI) /\ fundsSTI' \in Int
  <2>1. PICK f \in Int, r \in Int, x \in Int, a \in Int :
          f = fundsSTI /\ r = Total(sti, Valid) /\ x = agentSTI[g] /\ a = Total(agentSTI, Agents)
    BY <1>4, <1>6, HoldersOK DEF PoolsOK
  <2>2. Held(fundsSTI, sti, agentSTI) = f + r + a
    BY <2>1 DEF Held
  <2>3. Held(fundsSTI, sti, agentSTI)' = (f + (x - s)) + r + (a - x + s)
    BY <1>1, <1>2, <1>4, <2>1 DEF Held
  <2> QED BY <1>1, <2>1, <2>2, <2>3
<1>8. Held(fundsLTI, lti, agentLTI)' = Held(fundsLTI, lti, agentLTI) /\ fundsLTI' \in Int
  <2>1. PICK f \in Int, r \in Int, x \in Int, a \in Int :
          f = fundsLTI /\ r = Total(lti, Valid) /\ x = agentLTI[g] /\ a = Total(agentLTI, Agents)
    BY <1>5, <1>6, HoldersOK DEF PoolsOK
  <2>2. Held(fundsLTI, lti, agentLTI) = f + r + a
    BY <2>1 DEF Held
  <2>3. Held(fundsLTI, lti, agentLTI)' = (f + (x - l)) + r + (a - x + l)
    BY <1>1, <1>2, <1>5, <2>1 DEF Held
  <2> QED BY <1>1, <2>1, <2>2, <2>3
<1>9. agentSTI' \in [Agents -> Int] /\ agentLTI' \in [Agents -> Int]
  BY <1>1, <1>3
<1> QED BY <1>7, <1>8, <1>9 DEF Conserved

\* A step that leaves pools, atoms and agents alone.
LEMMA IdleConserves ==
  ASSUME sti' = sti, lti' = lti, Valid' = Valid, UNCHANGED funds, UNCHANGED agentAV
  PROVE  Conserved
BY DEF Conserved, Held, funds, agentAV

\* Every step keeps the pools integers, and conserves what is held unless it is
\* a decay.
LEMMA CurrencyStep ==
  ASSUME Consistent, PoolsOK, [SpaceNext]_spaceVars
  PROVE  PoolsOK' /\ (decays' = decays => Conserved)
<1> DEFINE Paid == fundsSTI' \in Int /\ fundsLTI' \in Int /\ UNCHANGED agentAV /\ UNCHANGED decays
<1>1. Paid => PoolsOK'
  BY DEF PoolsOK, agentAV
<1>2. PayDefault /\ UNCHANGED agentAV /\ UNCHANGED decays => Paid /\ UNCHANGED funds
  BY DEF PayDefault, PoolsOK, DEFAULTATOMSTI, DEFAULTATOMLTI, funds
<1>3. UNCHANGED vars => sti' = sti /\ lti' = lti /\ Valid' = Valid
  BY DEF vars, Valid, isValidHandle
<1>4. UNCHANGED funds /\ UNCHANGED agentAV /\ UNCHANGED decays => Paid
  BY DEF funds, PoolsOK
<1> HIDE DEF Paid
<1>5. ASSUME NEW n \in Names, AddNode(n)
      PROVE  PoolsOK' /\ Conserved
  <2>1. Insert("node", n, << >>) /\ PayDefault /\ UNCHANGED agentAV /\ UNCHANGED decays
    BY <1>5 DEF AddNode, addNode
  <2>2. Conserved
    BY <2>1, InsertConserves DEF AtomTypes
  <2> QED BY <1>1, <1>2, <2>1, <2>2
<1>6. ASSUME NEW t \in LinkTypes, NEW raw \in HandleSeqs, AddLink(t, raw)
      PROVE  PoolsOK' /\ Conserved
  <2>1. PICK out \in HandleSeqs : addLink(t, out) \/ addLinkFails(t, out) \/ UNCHANGED vars
    BY <1>6 DEF AddLink
  <2>2. PayDefault /\ UNCHANGED agentAV /\ UNCHANGED decays
    BY <1>6 DEF AddLink
  <2>3. CASE addLink(t, out)
    <3>1. Insert(t, NoName, out) /\ t \in AtomTypes
      BY <2>3 DEF addLink, AtomTypes
    <3>2. Conserved
      BY <2>2, <3>1, InsertConserves
    <3> QED BY <1>1, <1>2, <2>2, <3>2
  <2>4. CASE addLinkFails(t, out)
    <3>1. sti' = sti /\ lti' = lti /\ Valid' = Valid
      BY <2>4 DEF addLinkFails, atoms, Valid, isValidHandle
    <3> QED BY <1>1, <1>2, <2>2, <3>1, IdleConserves
  <2>5. CASE UNCHANGED vars
    BY <1>1, <1>2, <1>3, <2>2, <2>5, IdleConserves
  <2> QED BY <2>1, <2>3, <2>4, <2>5
<1>7. ASSUME NEW h \in Handles, NEW recursive \in BOOLEAN, removeAtom(h, recursive),
             UNCHANGED agentAV, UNCHANGED decays
      PROVE  PoolsOK' /\ Conserved
  <2>1. Conserved /\ fundsSTI' \in Int /\ fundsLTI' \in Int
    BY <1>7, RemoveConserves
  <2>2. Paid
    BY <1>7, <2>1 DEF Paid
  <2> QED BY <1>1, <2>1, <2>2
<1>8. ASSUME NEW h \in Handles, NEW recursive \in BOOLEAN, RemoveAtom(h, recursive)
      PROVE  PoolsOK' /\ Conserved
  BY <1>7, <1>8 DEF RemoveAtom
<1>9. CallerSTIs \subseteq Int /\ LTIs \subseteq Int
  BY ImportanceBounds
<1>10. ASSUME NEW h \in Handles, NEW s \in CallerSTIs, NEW l \in LTIs, SetAV(h, s, l)
       PROVE  PoolsOK' /\ Conserved
  <2>1. Conserved /\ fundsSTI' \in Int /\ fundsLTI' \in Int
    BY <1>9, <1>10, SetAVConserves
  <2>2. Paid
    BY <1>10, <2>1 DEF Paid, SetAV
  <2> QED BY <1>1, <2>1, <2>2
<1>11. ASSUME NEW a \in Agents, NEW s \in CallerSTIs, NEW l \in LTIs, SetAgentAV(a, s, l)
       PROVE  PoolsOK' /\ Conserved
  <2>1. /\ Conserved /\ fundsSTI' \in Int /\ fundsLTI' \in Int
        /\ agentSTI' \in [Agents -> Int] /\ agentLTI' \in [Agents -> Int]
    BY <1>9, <1>11, SetAgentAVConserves
  <2>2. UNCHANGED decays
    BY <1>11 DEF SetAgentAV
  <2> QED BY <2>1, <2>2 DEF PoolsOK
<1>12. CASE DecayShortTermImportance
  <2>1. decays' = decays + 1 /\ UNCHANGED funds /\ UNCHANGED agentAV
    BY <1>12 DEF DecayShortTermImportance
  <2>2. decays' # decays /\ decays' \in Nat
    BY <2>1 DEF PoolsOK
  <2>3. PoolsOK'
    BY <2>1, <2>2 DEF PoolsOK, funds, agentAV
  <2> QED BY <2>2, <2>3
<1>13. ASSUME UNCHANGED <<vars, funds, agentAV, decays>>
       PROVE  PoolsOK' /\ Conserved
  BY <1>1, <1>3, <1>4, <1>13, IdleConserves
<1>14. CASE ClearBegins \/ ClearEnds
  BY <1>13, <1>14 DEF ClearBegins, ClearEnds
<1>15. ASSUME NEW h \in Handles, ClearRemoves(h)
       PROVE  PoolsOK' /\ Conserved
  <2>1. UNCHANGED agentAV /\ UNCHANGED decays
    BY <1>15 DEF ClearRemoves
  <2>2. removeAtom(h, TRUE) \/ UNCHANGED <<vars, funds>>
    BY <1>15 DEF ClearRemoves
  <2>3. CASE removeAtom(h, TRUE)
    BY <1>7, <2>1, <2>3
  <2>4. CASE UNCHANGED <<vars, funds>>
    BY <1>13, <2>1, <2>4
  <2> QED BY <2>2, <2>3, <2>4
<1>16. CASE UNCHANGED spaceVars
  BY <1>13, <1>16 DEF spaceVars
<1> QED
  BY <1>5, <1>6, <1>8, <1>10, <1>11, <1>12, <1>14, <1>15, <1>16 DEF SpaceNext

\* The currency is conserved: no operation but the decay, and no step of clear,
\* makes or loses importance, whatever the agents, the starting funds and the
\* order of additions, removals and changes.
THEOREM CurrencyIsConserved == SpaceSpec => OnlyDecayLosesCurrency
<1>1. SpaceInit => PoolsOK
  BY FundsAssumption DEF SpaceInit, PoolsOK, DEFAULTATOMSTI, DEFAULTATOMLTI
<1>2. Consistent /\ PoolsOK /\ [SpaceNext]_spaceVars => PoolsOK'
  BY CurrencyStep
<1>3. Consistent /\ PoolsOK /\ [SpaceNext]_spaceVars => (decays' = decays => Conserved)
  BY CurrencyStep
<1>4. Consistent /\ PoolsOK /\ [SpaceNext]_spaceVars =>
        [decays' = decays =>
           /\ Held(fundsSTI, sti, agentSTI)' = Held(fundsSTI, sti, agentSTI)
           /\ Held(fundsLTI, lti, agentLTI)' = Held(fundsLTI, lti, agentLTI)]_spaceVars
  BY <1>3 DEF Conserved
<1> QED BY <1>1, <1>2, <1>4, SpaceConsistent, PTL DEF SpaceSpec, OnlyDecayLosesCurrency
=============================================================================
