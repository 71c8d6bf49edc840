------------------------------ MODULE AtomSpace ------------------------------
(***************************************************************************)
(* The AtomSpace around the AtomTable: the pools of short- and long-term   *)
(* importance from which atoms and agents draw, and the operations that    *)
(* move importance between the pools and their holders.                    *)
(***************************************************************************)
EXTENDS AtomTable, FiniteSetsExt

CONSTANTS
  Agents,       \* the mind agents that hold importance
  StartingSTI,  \* configuration value STARTING_STI_FUNDS
  StartingLTI,  \* configuration value STARTING_LTI_FUNDS
  MaxDecays     \* bound: decays by STIDecayingAgent or OPC; 0 if neither runs

ASSUME FundsAssumption ==
  /\ IsFiniteSet(Agents)
  /\ StartingSTI \in Int /\ StartingLTI \in Int /\ MaxDecays \in Nat

VARIABLES
  fundsSTI, fundsLTI,   \* the pools
  agentSTI, agentLTI,   \* the importance each agent holds
  clearing,             \* AtomSpace::clear is running
  toClear,              \* what is left of the handles it listed
  decays                \* decays so far

funds == <<fundsSTI, fundsLTI>>
agentAV == <<agentSTI, agentLTI>>
progress == <<clearing, toClear>>
spaceVars == <<vars, funds, agentAV, progress, decays>>

SpaceInit ==
  /\ Init
  /\ fundsSTI = StartingSTI /\ fundsLTI = StartingLTI
  /\ agentSTI = [a \in Agents |-> DEFAULTATOMSTI]
  /\ agentLTI = [a \in Agents |-> DEFAULTATOMLTI]
  /\ clearing = FALSE /\ toClear = {}
  /\ decays = 0

Total(av, S) == MapThenSumSet(LAMBDA x : av[x], S)

\* What addNode and addLink do to the pools before they add a new atom.
PayDefault ==
  /\ fundsSTI' = fundsSTI - DEFAULTATOMSTI
  /\ fundsLTI' = fundsLTI - DEFAULTATOMLTI

\* AtomSpace::addNode
AddNode(n) ==
  /\ ~clearing
  /\ addNode(n)
  /\ PayDefault
  /\ UNCHANGED <<agentAV, progress, decays>>

\* out holds the targets of raw, sorted when the link is unordered.
IsNormalForm(t, raw, out) ==
  /\ Normalised(t, out)
  /\ t = "ordered" => out = raw
  /\ DOMAIN out = DOMAIN raw
  /\ \A h \in Handles : Times(out, h) = Times(raw, h)

(***************************************************************************)
(* AtomSpace::addLink looks for the link with the targets as they were     *)
(* given; AtomTable::add looks again with the targets sorted, and merges   *)
(* the link if it is known.                                                *)
(***************************************************************************)
AddLink(t, raw) ==
  /\ ~clearing
  /\ ~KnownLink(t, raw)
  /\ \E out \in HandleSeqs :
       /\ IsNormalForm(t, raw, out)
       /\ \/ addLink(t, out)
          \/ addLinkFails(t, out)
          \/ KnownLink(t, out) /\ ~threw /\ UNCHANGED vars
  /\ PayDefault
  /\ UNCHANGED <<agentAV, progress, decays>>

\* Mutant: the long-term importance is not refunded.
RefundSTIOnly(X) ==
  /\ fundsSTI' = fundsSTI + Total(sti, X)
  /\ UNCHANGED fundsLTI

\* The refund of removeAtom for every atom that extract took.
Refund(X) ==
  /\ fundsSTI' = fundsSTI + Total(sti, X)
  /\ fundsLTI' = fundsLTI + Total(lti, X)

\* AtomSpace::removeAtom
removeAtom(h, recursive) ==
  /\ remove(h, recursive)
  /\ Refund(Extracted(h, recursive))

RemoveAtom(h, recursive) ==
  /\ ~clearing
  /\ removeAtom(h, recursive)
  /\ UNCHANGED <<agentAV, progress, decays>>

\* AtomSpace::setAV (and setSTI, setLTI) for an atom.
SetAV(h, s, l) ==
  /\ ~clearing
  /\ fundsSTI' = fundsSTI + (sti[h] - s)
  /\ fundsLTI' = fundsLTI + (lti[h] - l)
  /\ setAttentionValue(h, s, l)
  /\ UNCHANGED <<agentAV, progress, decays>>

\* AtomSpace::setAV for an agent; ~Agent gives everything back this way.
SetAgentAV(a, s, l) ==
  /\ ~clearing
  /\ fundsSTI' = fundsSTI + (agentSTI[a] - s)
  /\ fundsLTI' = fundsLTI + (agentLTI[a] - l)
  /\ agentSTI' = [agentSTI EXCEPT ![a] = s]
  /\ agentLTI' = [agentLTI EXCEPT ![a] = l]
  /\ UNCHANGED <<vars, progress, decays>>

\* AtomSpace::decayShortTermImportance: the pools are not told.
DecayShortTermImportance ==
  /\ decays < MaxDecays
  /\ decays' = decays + 1
  /\ ~clearing
  /\ decayShortTermImportance
  /\ UNCHANGED <<funds, agentAV, progress>>

-----------------------------------------------------------------------------
(* AtomSpace::clear lists all handles and removes them one by one with     *)
(* their links, so it comes to handles that are already gone.              *)

\* Mutant: the handles are listed without the subtypes of ATOM.
ClearBeginsExactType ==
  /\ ~clearing /\ ~threw
  /\ clearing' = TRUE
  /\ toClear' = {}
  /\ UNCHANGED <<vars, funds, agentAV, decays>>

ClearBegins ==
  /\ ~clearing /\ ~threw
  /\ clearing' = TRUE
  /\ toClear' = UNION {typeIndex[t] : t \in AtomTypes}
  /\ UNCHANGED <<vars, funds, agentAV, decays>>

ClearRemoves(h) ==
  /\ clearing
  /\ h \in toClear
  /\ toClear' = toClear \ {h}
  /\ IF isValidHandle(h) THEN removeAtom(h, TRUE)
                         ELSE UNCHANGED <<vars, funds>>
  /\ UNCHANGED <<agentAV, clearing, decays>>

ClearEnds ==
  /\ clearing /\ toClear = {}
  /\ clearing' = FALSE
  /\ UNCHANGED <<vars, funds, agentAV, toClear, decays>>

-----------------------------------------------------------------------------
SpaceNext ==
  \/ \E n \in Names : AddNode(n)
  \/ \E t \in LinkTypes, raw \in HandleSeqs : AddLink(t, raw)
  \/ \E h \in Handles, recursive \in BOOLEAN : RemoveAtom(h, recursive)
  \/ \E h \in Handles, s \in CallerSTIs, l \in LTIs : SetAV(h, s, l)
  \/ \E a \in Agents, s \in CallerSTIs, l \in LTIs : SetAgentAV(a, s, l)
  \/ DecayShortTermImportance
  \/ ClearBegins
  \/ \E h \in Handles : ClearRemoves(h)
  \/ ClearEnds

SpaceSpec == SpaceInit /\ [][SpaceNext]_spaceVars

-----------------------------------------------------------------------------
(* Properties                                                              *)

Held(pool, ofAtoms, ofAgents) == pool + Total(ofAtoms, Valid) + Total(ofAgents, Agents)

\* ImportanceUpdatingAgent.h: "both STI and LTI currency are conserved".  What
\* the pools, the atoms (getTotalSTI, getTotalLTI) and the agents hold together
\* never changes, whether atoms are added, found to exist or removed with their
\* links, and in every step of clear; except by decayShortTermImportance, which
\* does not tell the pools.
OnlyDecayLosesCurrency ==
  [][decays' = decays =>
       /\ Held(fundsSTI, sti, agentSTI)' = Held(fundsSTI, sti, agentSTI)
       /\ Held(fundsLTI, lti, agentLTI)' = Held(fundsLTI, lti, agentLTI)]_spaceVars

\* The assertion at the end of AtomSpace::clear: no atom is listed any more.
ClearLeavesNothing ==
  clearing /\ toClear = {} => \A t \in AtomTypes : typeIndex[t] = {}
=============================================================================
