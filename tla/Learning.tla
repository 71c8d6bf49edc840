------------------------------- MODULE Learning -------------------------------
(***************************************************************************)
(* Imitation learning: the operational pet controllers (OPC), each with a  *)
(* pet that an owner teaches tricks, and the learning server (LS), which   *)
(* learns one trick at a time for all of them.  They exchange messages     *)
(* through the router, which keeps the messages for an element in one      *)
(* queue (module Messaging).  The programs that are learned, what makes an *)
(* exemplar usable and the choice of what a pet does are left open.        *)
(***************************************************************************)
EXTENDS Naturals, Sequences

CONSTANTS
  Pets, Tricks,
  None,      \* no pet, no trick
  Teaches,   \* [Pets -> the tricks its owner teaches the pet]
  Hard,      \* tricks for which the learning algorithm may have no program to offer
  MayDie,    \* pets whose OPC may crash
  MaxQueue,  \* bound: messages for the LS when the owner of a pet says something
  MaxAnswers \* bound: messages for the pet then

ASSUME LearningAssumption == /\ None \notin Pets \cup Tricks
                             /\ Teaches \in [Pets -> SUBSET Tricks]
                             /\ Hard \subseteq Tricks /\ MayDie \subseteq Pets
                             /\ MaxQueue \in Nat /\ MaxAnswers \in Nat

VARIABLES
  mode,       \* [Pets -> "PLAYING", "LEARNING", "unloaded" or "dead"]
  learns,     \* [Pets -> learningSchema of the pet]
  tried,      \* [Pets -> triedSchema of the pet]
  executed,   \* [Pets -> candidateSchemaExecuted]
  exemplar,   \* [Pets -> an exemplar has been started]
  repository, \* [Pets -> the tricks in the procedure repository]
  running,    \* the LS runs; an assertion that fails ends it
  busy, learningPet, learningSchema,  \* the LS
  lts,        \* "LEARN" or "IDLE": the state of its ImitationLearningAgent
  PIL,        \* the agent has a learning algorithm
  filter,     \* the agent has an entropy filter, definite objects and the rest
  emptyCandidate, \* the candidate the agent waits to be rewarded is the empty program
  toLS,       \* messages for the LS
  toPet       \* [Pets -> messages for the pet]

pets == <<mode, learns, tried, executed, exemplar, repository>>
server == <<running, busy, learningPet, learningSchema, lts, PIL, filter, emptyCandidate>>
vars == <<pets, server, toLS, toPet>>

Types == {"LEARN", "REWARD", "TRY", "STOP_LEARNING"}
Messages == [type : Types, pet : Pets, trick : Tricks]
Answers == [type : {"SCHEMA", "CANDIDATE_SCHEMA"}, trick : Tricks, empty : BOOLEAN]

Init ==
  /\ mode = [p \in Pets |-> "PLAYING"]
  /\ learns = [p \in Pets |-> None]
  /\ tried = [p \in Pets |-> None]
  /\ executed = [p \in Pets |-> TRUE]
  /\ exemplar = [p \in Pets |-> FALSE]
  /\ repository = [p \in Pets |-> {}]
  /\ running = TRUE /\ busy = FALSE /\ learningPet = None /\ learningSchema = None
  /\ lts = "IDLE" /\ PIL = FALSE /\ filter = FALSE /\ emptyCandidate = FALSE
  /\ toLS = << >>
  /\ toPet = [p \in Pets |-> << >>]

-----------------------------------------------------------------------------
(* What the owner says to the pet (the mode handlers, and Pet). *)

Says(p) == Len(toLS) < MaxQueue /\ Len(toPet[p]) < MaxAnswers

Send(p, type, t) == toLS' = Append(toLS, [type |-> type, pet |-> p, trick |-> t])

\* Only a pet that plays takes the instruction LEARN.
startLearning(p, t) ==
  /\ mode[p] = "PLAYING"
  /\ learns' = [learns EXCEPT ![p] = t]
  /\ mode' = [mode EXCEPT ![p] = "LEARNING"]
  /\ UNCHANGED <<tried, executed, exemplar, repository, server, toLS, toPet>>

startExemplar(p) ==
  /\ mode[p] = "LEARNING"
  /\ executed' = [executed EXCEPT ![p] = TRUE]
  /\ exemplar' = [exemplar EXCEPT ![p] = TRUE]
  /\ UNCHANGED <<mode, learns, tried, repository, server, toLS, toPet>>

endExemplar(p) ==
  /\ mode[p] = "LEARNING" /\ exemplar[p]
  /\ Says(p) /\ Send(p, "LEARN", learns[p])
  /\ exemplar' = [exemplar EXCEPT ![p] = FALSE]
  /\ UNCHANGED <<mode, learns, tried, executed, repository, server, toPet>>

\* Mutant: the trick tried last is forgotten.
StopOtherForgets(p) ==
  /\ mode[p] = "LEARNING"
  /\ exemplar' = [exemplar EXCEPT ![p] = FALSE]
  /\ tried' = [tried EXCEPT ![p] = None]
  /\ UNCHANGED <<mode, learns, executed, repository, server, toLS, toPet>>
\* A stop that names another trick only ends the exemplar.
StopOther(p) ==
  /\ mode[p] = "LEARNING"
  /\ exemplar' = [exemplar EXCEPT ![p] = FALSE]
  /\ UNCHANGED <<mode, learns, tried, executed, repository, server, toLS, toPet>>

\* The fields stopLearning and setMode reset.
Reset(p) ==
  /\ learns' = [learns EXCEPT ![p] = None]
  /\ tried' = [tried EXCEPT ![p] = None]
  /\ exemplar' = [exemplar EXCEPT ![p] = FALSE]

stopLearning(p) ==
  /\ mode[p] = "LEARNING"
  /\ Says(p) /\ Send(p, "STOP_LEARNING", learns[p])
  /\ mode' = [mode EXCEPT ![p] = "PLAYING"]
  /\ Reset(p)
  /\ UNCHANGED <<executed, repository, server, toPet>>

\* The LS is asked for a candidate only when the last one was executed; else the
\* RuleEngine is asked again to execute that.
trySchema(p) ==
  /\ mode[p] = "LEARNING" /\ executed[p]
  /\ Says(p) /\ Send(p, "TRY", learns[p])
  /\ UNCHANGED <<mode, learns, tried, executed, exemplar, repository, server, toPet>>

\* reward and punish name the trick tried last.
reward(p) ==
  /\ mode[p] = "LEARNING" /\ tried[p] # None
  /\ Says(p) /\ Send(p, "REWARD", tried[p])
  /\ executed' = [executed EXCEPT ![p] = TRUE]
  /\ UNCHANGED <<mode, learns, tried, exemplar, repository, server, toPet>>

\* Mutant: the learning server is not told.
saveAndExitSilently(p) ==
  /\ mode[p] \in {"PLAYING", "LEARNING"} /\ Says(p)
  /\ mode' = [mode EXCEPT ![p] = "unloaded"]
  /\ Reset(p)
  /\ executed' = [executed EXCEPT ![p] = TRUE]
  /\ toPet' = [toPet EXCEPT ![p] = << >>]
  /\ UNCHANGED <<toLS, repository, server>>
\* SAVE_AND_EXIT: adjustPetToBePersisted, and the logout, which removes the queue.
saveAndExit(p) ==
  /\ mode[p] \in {"PLAYING", "LEARNING"} /\ Says(p)
  /\ IF mode[p] = "LEARNING" THEN Send(p, "STOP_LEARNING", learns[p]) ELSE UNCHANGED toLS
  /\ mode' = [mode EXCEPT ![p] = "unloaded"]
  /\ Reset(p)
  /\ executed' = [executed EXCEPT ![p] = TRUE]   \* as the next process starts
  /\ toPet' = [toPet EXCEPT ![p] = << >>]
  /\ UNCHANGED <<repository, server>>

\* The spawner starts the OPC again, from what it has saved.
Load(p) ==
  /\ mode[p] = "unloaded"
  /\ mode' = [mode EXCEPT ![p] = "PLAYING"]
  /\ UNCHANGED <<learns, tried, executed, exemplar, repository, server, toLS, toPet>>

\* The OPC crashes and is not started again.
Die(p) ==
  /\ p \in MayDie /\ mode[p] \in {"PLAYING", "LEARNING"}
  /\ mode' = [mode EXCEPT ![p] = "dead"]
  /\ UNCHANGED <<learns, tried, executed, exemplar, repository, server, toLS, toPet>>

Owner(p) ==
  \/ \E t \in Teaches[p] : startLearning(p, t)
  \/ startExemplar(p) \/ endExemplar(p) \/ StopOther(p) \/ stopLearning(p)
  \/ trySchema(p) \/ reward(p) \/ saveAndExit(p) \/ Load(p) \/ Die(p)

-----------------------------------------------------------------------------
(* OPC::processNextMessage, for messages of the LS, and the RuleEngine. *)

\* Whatever the pet does by now.  A message with an empty program is discarded, here or
\* already when it is read.
ProcessSchema(p) ==
  /\ mode[p] \in {"PLAYING", "LEARNING"} /\ toPet[p] # << >>
  /\ LET m == Head(toPet[p]) IN
       /\ repository' = [repository EXCEPT ![p] = IF m.empty THEN @ ELSE @ \cup {m.trick}]
       /\ IF m.type = "CANDIDATE_SCHEMA" /\ ~m.empty
          THEN /\ tried' = [tried EXCEPT ![p] = m.trick]
               /\ executed' = [executed EXCEPT ![p] = FALSE]
          ELSE UNCHANGED <<tried, executed>>
  /\ toPet' = [toPet EXCEPT ![p] = Tail(@)]
  /\ UNCHANGED <<mode, learns, exemplar, server, toLS>>

\* runSchemaForCurrentAction and schemaSelectedToExecute: the pet does one of its tricks,
\* at once, later or never, because its owner wants it to try that or because a rule says
\* so; here the one it tried last.
Act(p) ==
  /\ mode[p] \in {"PLAYING", "LEARNING"} /\ tried[p] \in repository[p]
  /\ executed' = [executed EXCEPT ![p] = TRUE]
  /\ UNCHANGED <<mode, learns, tried, exemplar, repository, server, toLS, toPet>>

-----------------------------------------------------------------------------
(* LS::processNextMessage, for the first message in its queue. *)

Receives(type) == running /\ toLS # << >> /\ Head(toLS).type = type

Mine == busy /\ learningPet = Head(toLS).pet /\ learningSchema = Head(toLS).trick

\* sendSchema
Answer(type, empty) ==
  toPet' = [toPet EXCEPT ![learningPet] =
              Append(@, [type |-> type, trick |-> learningSchema, empty |-> empty])]

\* A message that is none of the server's business: it is free, or works for another
\* pet or at another trick.
Ignore ==
  /\ running /\ toLS # << >> /\ ~Mine
  /\ Head(toLS).type = "LEARN" => busy
  /\ toLS' = Tail(toLS)
  /\ UNCHANGED <<pets, server, toPet>>

resetLearningServer ==
  busy' = FALSE /\ learningPet' = None /\ learningSchema' = None

\* Mutant: the server stays busy after a failure.
initLearnStaysBusy ==
  /\ Receives("LEARN") /\ ~busy
  /\ toLS' = Tail(toLS)
  /\ busy' = TRUE /\ learningPet' = Head(toLS).pet /\ learningSchema' = Head(toLS).trick
  /\ \/ UNCHANGED <<running, lts, PIL, filter>>
     \/ ~filter /\ filter' = TRUE /\ UNCHANGED <<running, lts, PIL>>
     \/ ~filter /\ filter' = TRUE /\ PIL' = TRUE /\ lts' = "LEARN" /\ UNCHANGED running
     \/ filter /\ running' = FALSE /\ UNCHANGED <<lts, PIL, filter>>
  /\ UNCHANGED <<pets, emptyCandidate, toPet>>
\* initLearn and initLearning: the exemplar shows nothing ("empty"), or no action that
\* could be imitated ("noAction"), or learning starts.  The second failure comes after
\* the filter and the objects are there, and leaves them behind; the assertions at
\* the next exemplar with any content find them.
initLearn ==
  /\ Receives("LEARN") /\ ~busy
  /\ toLS' = Tail(toLS)
  /\ \/ resetLearningServer /\ UNCHANGED <<running, lts, PIL, filter>>
     \/ /\ ~filter /\ filter' = TRUE
        /\ resetLearningServer /\ UNCHANGED <<running, lts, PIL>>
     \/ /\ ~filter /\ filter' = TRUE /\ PIL' = TRUE /\ lts' = "LEARN"
        /\ busy' = TRUE /\ learningPet' = Head(toLS).pet /\ learningSchema' = Head(toLS).trick
        /\ UNCHANGED running
     \/ /\ filter /\ running' = FALSE
        /\ busy' = TRUE /\ learningPet' = Head(toLS).pet /\ learningSchema' = Head(toLS).trick
        /\ UNCHANGED <<lts, PIL, filter>>
  /\ UNCHANGED <<pets, emptyCandidate, toPet>>

addLearnExample ==
  /\ Receives("LEARN") /\ Mine
  /\ lts' = "LEARN" /\ emptyCandidate' = FALSE
  /\ toLS' = Tail(toLS)
  /\ UNCHANGED <<pets, running, busy, learningPet, learningSchema, PIL, filter, toPet>>

rewardCandidateSchema ==
  /\ Receives("REWARD") /\ Mine
  /\ lts' = "LEARN" /\ emptyCandidate' = FALSE
  /\ toLS' = Tail(toLS)
  /\ UNCHANGED <<pets, running, busy, learningPet, learningSchema, PIL, filter, toPet>>

\* The algorithm pauses until the reward.  The candidate is empty when every program
\* found was sent before or, after a new exemplar, none is estimated yet.
LStrySchema ==
  /\ Receives("TRY") /\ Mine
  /\ lts' = "IDLE"
  /\ \E empty \in BOOLEAN : /\ empty => learningSchema \in Hard
                            /\ emptyCandidate' = empty
                            /\ Answer("CANDIDATE_SCHEMA", empty)
  /\ toLS' = Tail(toLS)
  /\ UNCHANGED <<pets, running, busy, learningPet, learningSchema, PIL, filter>>

\* Mutant: the answer is sent after the reset.
stopLearnResetFirst ==
  /\ Receives("STOP_LEARNING") /\ Mine
  /\ resetLearningServer
  /\ toPet' = [toPet EXCEPT ![learningPet] =
                 Append(@, [type |-> "SCHEMA", trick |-> learningSchema', empty |-> FALSE])]
  /\ lts' = "IDLE" /\ PIL' = FALSE /\ filter' = FALSE /\ emptyCandidate' = FALSE
  /\ toLS' = Tail(toLS)
  /\ UNCHANGED <<pets, running>>
\* Mutant: no answer is sent.
stopLearnSilently ==
  /\ Receives("STOP_LEARNING") /\ Mine
  /\ resetLearningServer
  /\ lts' = "IDLE" /\ PIL' = FALSE /\ filter' = FALSE /\ emptyCandidate' = FALSE
  /\ toLS' = Tail(toLS)
  /\ UNCHANGED <<pets, running, toPet>>
\* stopLearn, sendBestSchema and stopLearning of the agent; the best program is empty if
\* none was tried since the last exemplar.
stopLearn ==
  /\ Receives("STOP_LEARNING") /\ Mine
  /\ \E empty \in BOOLEAN : (empty => learningSchema \in Hard) /\ Answer("SCHEMA", empty)
  /\ resetLearningServer
  /\ lts' = "IDLE" /\ PIL' = FALSE /\ filter' = FALSE /\ emptyCandidate' = FALSE
  /\ toLS' = Tail(toLS)
  /\ UNCHANGED <<pets, running>>

LS == Ignore \/ initLearn \/ addLearnExample \/ rewardCandidateSchema \/ LStrySchema
      \/ stopLearn

Next == LS \/ \E p \in Pets : Owner(p) \/ ProcessSchema(p) \/ Act(p)

\* The LS and the OPCs that run process their messages.
Fairness == WF_vars(LS) /\ \A p \in Pets : WF_vars(ProcessSchema(p))

Spec == Init /\ [][Next]_vars
LearningSpec == Spec /\ Fairness

-----------------------------------------------------------------------------
(* Properties. *)

\* The variables of Pet, LS and ImitationLearningAgent have their types.
LearningTypeOK ==
  /\ mode \in [Pets -> {"PLAYING", "LEARNING", "unloaded", "dead"}]
  /\ learns \in [Pets -> Tricks \cup {None}] /\ tried \in [Pets -> Tricks \cup {None}]
  /\ executed \in [Pets -> BOOLEAN] /\ exemplar \in [Pets -> BOOLEAN]
  /\ repository \in [Pets -> SUBSET Tricks]
  /\ running \in BOOLEAN /\ busy \in BOOLEAN
  /\ learningPet \in Pets \cup {None} /\ learningSchema \in Tricks \cup {None}
  /\ lts \in {"LEARN", "IDLE"} /\ PIL \in BOOLEAN /\ filter \in BOOLEAN
  /\ emptyCandidate \in BOOLEAN
  /\ toLS \in Seq(Messages) /\ toPet \in [Pets -> Seq(Answers)]

\* The learning server is busy exactly when its agent has a learning algorithm, and only
\* then does the agent run it: none of the assertions "_PIL != NULL" of run, setFitness,
\* getBestSchema, getBestSchemaEstimated and stopLearning fails (LS,
\* ImitationLearningAgent).
BusyHasLearner ==
  running => /\ busy <=> PIL
             /\ PIL => filter
             /\ lts = "LEARN" => PIL

Learning(p, t) == mode[p] = "LEARNING" /\ learns[p] = t

StopIsComing(p, t) ==
  \E i \in DOMAIN toLS : toLS[i] = [type |-> "STOP_LEARNING", pet |-> p, trick |-> t]

\* The learning server, which has no timeout and serves nobody else meanwhile, works only
\* for a pet that is still learning the trick or whose STOP_LEARNING is on its way,
\* whatever it has ignored before; a pet that died is the exception (LS, Pet, OPC).
BusyHasOwner ==
  busy => \/ Learning(learningPet, learningSchema)
          \/ StopIsComing(learningPet, learningSchema)
          \/ mode[learningPet] = "dead"

\* A pet that stops learning a trick the server works at gets the trick in the end, unless
\* the best program is empty, which the OPC discards, or its OPC is unloaded or dies or the
\* server ends (stopLearn, sendBestSchema, OPC).
StoppedTrickArrives ==
  \A p \in Pets : \A t \in Teaches[p] :
    (busy /\ learningPet = p /\ learningSchema = t /\ mode[p] = "PLAYING")
      ~> \/ t \in repository[p]
         \/ \E i \in DOMAIN toPet[p] :
              toPet[p][i] = [type |-> "SCHEMA", trick |-> t, empty |-> TRUE]
         \/ mode[p] \in {"unloaded", "dead"} \/ ~running

\* The server waits for a reward (lts = "IDLE") that its pet cannot give only if the
\* candidate it sent last was empty, so that the OPC discarded it: else the pet has or will
\* have the candidate as the trick tried last, or is about to stop (trySchema,
\* setTriedSchema, reward).
PausedForReward ==
  (busy /\ running /\ lts = "IDLE" /\ ~emptyCandidate) =>
     \/ tried[learningPet] = learningSchema
     \/ \E i \in DOMAIN toPet[learningPet] :
          toPet[learningPet][i] =
            [type |-> "CANDIDATE_SCHEMA", trick |-> learningSchema, empty |-> FALSE]
     \/ StopIsComing(learningPet, learningSchema)
     \/ mode[learningPet] = "dead"

\* "_definite_objects must be empty because it should have been cleared by stopLearning",
\* "_entropyFilter must be NULL because it should have been deleted by stopLearning"
\* (ImitationLearningAgent::initLearning): the assertions never end the server.
NoAssertionFails == running
=============================================================================
