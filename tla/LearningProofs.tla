---------------------------- MODULE LearningProofs ----------------------------
(***************************************************************************)
(* Proofs about imitation learning: the learning server is busy exactly    *)
(* while its agent has an algorithm, works only for a pet that still       *)
(* learns or whose STOP_LEARNING is on its way, and waits for a reward     *)
(* that its pet cannot give only after an empty candidate.                 *)
(***************************************************************************)
EXTENDS Learning, SequenceTheorems, TLAPS

\* The messages with which a pet sends an exemplar of a trick and stops learning
\* it, and the candidate the server sends it.
Exemplar(p, t) == [type |-> "LEARN", pet |-> p, trick |-> t]
Stop(p, t) == [type |-> "STOP_LEARNING", pet |-> p, trick |-> t]
Candidate(t) == [type |-> "CANDIDATE_SCHEMA", trick |-> t, empty |-> FALSE]

-----------------------------------------------------------------------------
(* The inductive invariant                                                 *)

\* A pet that learns learns something, and a busy server knows for whom and what.
Named ==
  /\ \A p \in Pets : mode[p] = "LEARNING" => learns[p] \in Tricks
  /\ busy => learningPet \in Pets /\ learningSchema \in Tricks

\* Somebody will end the learning of t for p, by a message behind position i.
Owned(i, p, t) ==
  \/ Learning(p, t)
  \/ \E j \in DOMAIN toLS : j > i /\ toLS[j] = Stop(p, t)
  \/ mode[p] = "dead"

\* Behind every exemplar on its way to the server comes the message that stops
\* it, unless the pet still learns.
LearnsAreStopped ==
  \A i \in DOMAIN toLS : \A p \in Pets, t \in Tricks :
    toLS[i] = Exemplar(p, t) => Owned(i, p, t)

\* A message that makes the pet try something: not one with an empty program.
IsTried(m) == m.type = "CANDIDATE_SCHEMA" /\ ~m.empty

\* The last candidate sent to p that is not empty was t: either no other is behind it in
\* p's queue, or p has taken it and no such candidate is left in the queue.
LastCandidate(p, t) ==
  \/ \E i \in DOMAIN toPet[p] :
       /\ toPet[p][i] = Candidate(t)
       /\ \A j \in DOMAIN toPet[p] : j > i => ~IsTried(toPet[p][j])
  \/ /\ tried[p] = t
     /\ \A j \in DOMAIN toPet[p] : ~IsTried(toPet[p][j])

\* The server pauses for a reward only after the candidate it sent last.
PausedForLast ==
  busy /\ running /\ lts = "IDLE" /\ ~emptyCandidate =>
    \/ LastCandidate(learningPet, learningSchema)
    \/ StopIsComing(learningPet, learningSchema)
    \/ mode[learningPet] = "dead"

LearningSafe ==
  /\ LearningTypeOK
  /\ Named
  /\ BusyHasLearner
  /\ LearnsAreStopped
  /\ BusyHasOwner
  /\ PausedForLast

-----------------------------------------------------------------------------
(* Queues                                                                  *)

\* A message put at the end of a queue leaves the others where they were.
LEMMA Appended ==
  ASSUME NEW S, NEW q \in Seq(S), NEW m \in S
  PROVE  /\ Append(q, m) \in Seq(S)
         /\ Len(q) \in Nat /\ DOMAIN q = 1 .. Len(q)
         /\ DOMAIN Append(q, m) = 1 .. Len(q) + 1
         /\ Append(q, m)[Len(q) + 1] = m
         /\ \A i \in DOMAIN q : Append(q, m)[i] = q[i]
         /\ Append(q, m) # q
BY AppendProperties, LenProperties

\* Taking the first message moves the others up by one.
LEMMA Taken ==
  ASSUME NEW S, NEW q \in Seq(S), q # << >>
  PROVE  /\ Tail(q) \in Seq(S) /\ Head(q) \in S /\ Head(q) = q[1]
         /\ Len(q) \in Nat /\ Len(q) >= 1 /\ DOMAIN q = 1 .. Len(q)
         /\ DOMAIN Tail(q) = 1 .. Len(q) - 1
         /\ \A i \in 1 .. Len(q) - 1 : Tail(q)[i] = q[i + 1]
<1>1. Len(q) \in Nat /\ Len(q) # 0 /\ DOMAIN q = 1 .. Len(q)
  BY LenProperties, EmptySeq
<1> QED BY <1>1, HeadTailProperties, LenProperties

\* What a pet sends is a message.
LEMMA SentIsMessage ==
  ASSUME NEW type \in Types, NEW p \in Pets, NEW t \in Tricks
  PROVE  [type |-> type, pet |-> p, trick |-> t] \in Messages
BY DEF Messages

-----------------------------------------------------------------------------
(* Types                                                                   *)

\* What the owner says, and what the pet does, keeps the types.
LEMMA PetTypes ==
  ASSUME LearningTypeOK, Named, NEW p \in Pets, Owner(p) \/ ProcessSchema(p) \/ Act(p)
  PROVE  LearningTypeOK' /\ Named' /\ UNCHANGED server
<1>0. \A t \in Tricks, type \in Types :
        Append(toLS, [type |-> type, pet |-> p, trick |-> t]) \in Seq(Messages)
  BY SentIsMessage, Appended DEF LearningTypeOK
<1>1. ASSUME NEW t \in Teaches[p], startLearning(p, t)
      PROVE  LearningTypeOK' /\ Named' /\ UNCHANGED server
  <2>1. t \in Tricks
    BY LearningAssumption
  <2> QED BY <1>1, <2>1 DEF startLearning, LearningTypeOK, Named, server
<1>2. CASE startExemplar(p)
  BY <1>2 DEF startExemplar, LearningTypeOK, Named, server
<1>3. CASE endExemplar(p)
  <2>1. toLS' \in Seq(Messages)
    BY <1>0, <1>3 DEF endExemplar, Send, Named, Types
  <2> QED BY <1>3, <2>1 DEF endExemplar, LearningTypeOK, Named, server
<1>4. CASE StopOther(p)
  BY <1>4 DEF StopOther, LearningTypeOK, Named, server
<1>5. CASE stopLearning(p)
  <2>1. toLS' \in Seq(Messages)
    BY <1>0, <1>5 DEF stopLearning, Send, Named, Types
  <2> QED BY <1>5, <2>1 DEF stopLearning, Reset, LearningTypeOK, Named, server
<1>6. CASE trySchema(p)
  <2>1. toLS' \in Seq(Messages)
    BY <1>0, <1>6 DEF trySchema, Send, Named, Types
  <2> QED BY <1>6, <2>1 DEF trySchema, LearningTypeOK, Named, server
<1>7. CASE reward(p)
  <2>1. tried[p] \in Tricks
    BY <1>7 DEF reward, LearningTypeOK
  <2>2. toLS' \in Seq(Messages)
    BY <1>0, <1>7, <2>1 DEF reward, Send, Types
  <2> QED BY <1>7, <2>2 DEF reward, LearningTypeOK, Named, server
<1>8. CASE saveAndExit(p)
  <2>1. toLS' \in Seq(Messages)
    BY <1>0, <1>8 DEF saveAndExit, Send, Named, Types, LearningTypeOK
  <2>2. << >> \in Seq(Answers)
    BY EmptySeq
  <2> QED BY <1>8, <2>1, <2>2 DEF saveAndExit, Reset, LearningTypeOK, Named, server
<1>9. CASE Load(p)
  BY <1>9 DEF Load, LearningTypeOK, Named, server
<1>10. CASE Die(p)
  BY <1>10 DEF Die, LearningTypeOK, Named, server
<1>11. CASE ProcessSchema(p)
  <2>1. toPet[p] \in Seq(Answers) /\ toPet[p] # << >>
    BY <1>11 DEF ProcessSchema, LearningTypeOK
  <2>2. Tail(toPet[p]) \in Seq(Answers) /\ Head(toPet[p]) \in Answers
    BY <2>1, Taken
  <2>3. Head(toPet[p]).trick \in Tricks
    BY <2>2 DEF Answers
  <2> QED BY <1>11, <2>2, <2>3 DEF ProcessSchema, LearningTypeOK, Named, server
<1>12. CASE Act(p)
  BY <1>12 DEF Act, LearningTypeOK, Named, server
<1> QED BY <1>1, <1>2, <1>3, <1>4, <1>5, <1>6, <1>7, <1>8, <1>9, <1>10, <1>11, <1>12 DEF Owner

\* The first message for the server is a message.
LEMMA FirstMessage ==
  ASSUME LearningTypeOK, toLS # << >>
  PROVE  /\ Head(toLS) = toLS[1] /\ Head(toLS) \in Messages
         /\ Head(toLS).pet \in Pets /\ Head(toLS).trick \in Tricks
         /\ Tail(toLS) \in Seq(Messages)
         /\ Len(toLS) \in Nat /\ Len(toLS) >= 1 /\ DOMAIN toLS = 1 .. Len(toLS)
         /\ DOMAIN Tail(toLS) = 1 .. Len(toLS) - 1
         /\ \A i \in 1 .. Len(toLS) - 1 : Tail(toLS)[i] = toLS[i + 1]
<1>1. toLS \in Seq(Messages)
  BY DEF LearningTypeOK
<1>2. Head(toLS) \in Messages
  BY <1>1, Taken
<1> QED BY <1>1, <1>2, Taken DEF Messages

\* The server's handlers keep the types, take the first message and leave the pets.
LEMMA ServerTypes ==
  ASSUME LearningTypeOK, Named, BusyHasLearner, LS
  PROVE  /\ LearningTypeOK' /\ Named' /\ BusyHasLearner'
         /\ UNCHANGED pets /\ toLS # << >> /\ toLS' = Tail(toLS)
<1>0. toLS # << >>
  BY DEF LS, Ignore, initLearn, addLearnExample, rewardCandidateSchema, LStrySchema,
         stopLearn, Receives
<1>1. /\ Head(toLS).pet \in Pets /\ Head(toLS).trick \in Tricks
      /\ Tail(toLS) \in Seq(Messages)
  BY <1>0, FirstMessage
<1>2. ASSUME NEW type \in {"SCHEMA", "CANDIDATE_SCHEMA"}, NEW empty \in BOOLEAN,
             Answer(type, empty), busy
      PROVE  toPet' \in [Pets -> Seq(Answers)]
  <2>1. learningPet \in Pets /\ learningSchema \in Tricks
    BY <1>2 DEF Named
  <2>2. [type |-> type, trick |-> learningSchema, empty |-> empty] \in Answers
    BY <2>1 DEF Answers
  <2>3. toPet[learningPet] \in Seq(Answers)
    BY <2>1 DEF LearningTypeOK
  <2>4. Append(toPet[learningPet], [type |-> type, trick |-> learningSchema, empty |-> empty])
          \in Seq(Answers)
    BY <2>2, <2>3, Appended
  <2> QED BY <1>2, <2>4 DEF Answer, LearningTypeOK
<1>3. CASE Ignore
  BY <1>0, <1>1, <1>3 DEF Ignore, LearningTypeOK, Named, BusyHasLearner, pets, server
<1>4. CASE initLearn
  <2>1. /\ toLS' = Tail(toLS) /\ UNCHANGED pets /\ UNCHANGED <<toPet, emptyCandidate>>
        /\ running /\ ~busy /\ ~PIL
    BY <1>4 DEF initLearn, Receives, BusyHasLearner
  <2>2. \/ /\ busy' = FALSE /\ learningPet' = None /\ learningSchema' = None
           /\ UNCHANGED <<running, lts, PIL>> /\ filter' \in {filter, TRUE}
        \/ /\ busy' = TRUE /\ PIL' = TRUE /\ filter' = TRUE /\ lts' = "LEARN"
           /\ learningPet' = Head(toLS).pet /\ learningSchema' = Head(toLS).trick
           /\ UNCHANGED running
        \/ /\ running' = FALSE /\ busy' = TRUE
           /\ learningPet' = Head(toLS).pet /\ learningSchema' = Head(toLS).trick
           /\ UNCHANGED <<lts, PIL, filter>>
    BY <1>4 DEF initLearn, resetLearningServer
  <2>3. UNCHANGED <<mode, learns, tried, executed, exemplar, repository>>
    BY <2>1 DEF pets
  <2>4. LearningTypeOK'
    BY <1>1, <2>1, <2>2, <2>3 DEF LearningTypeOK
  <2>5. Named'
    BY <1>1, <2>2, <2>3 DEF Named
  <2>6. BusyHasLearner'
    BY <2>1, <2>2, <2>3 DEF BusyHasLearner
  <2> QED BY <1>0, <2>1, <2>4, <2>5, <2>6
<1>5. CASE addLearnExample
  BY <1>0, <1>1, <1>5 DEF addLearnExample, Mine, Receives, LearningTypeOK, Named,
     BusyHasLearner, pets
<1>6. CASE rewardCandidateSchema
  BY <1>0, <1>1, <1>6 DEF rewardCandidateSchema, Mine, Receives, LearningTypeOK, Named,
     BusyHasLearner, pets
<1>7. CASE LStrySchema
  <2>1. toPet' \in [Pets -> Seq(Answers)]
    BY <1>2, <1>7 DEF LStrySchema, Mine
  <2> QED BY <1>0, <1>1, <1>7, <2>1 DEF LStrySchema, Mine, Receives, LearningTypeOK, Named,
          BusyHasLearner, pets
<1>8. CASE stopLearn
  <2>1. toPet' \in [Pets -> Seq(Answers)]
    BY <1>2, <1>8 DEF stopLearn, Mine
  <2> QED BY <1>0, <1>1, <1>8, <2>1 DEF stopLearn, resetLearningServer, Receives,
          LearningTypeOK, Named, BusyHasLearner, pets
<1> QED BY <1>3, <1>4, <1>5, <1>6, <1>7, <1>8 DEF LS

-----------------------------------------------------------------------------
(* Who ends the learning                                                   *)

\* What a step of a pet may do to the server's queue and to the learning of
\* pets: a pet that ceases to learn a trick has sent the message that stops it.
PetMove ==
  /\ \/ toLS' = toLS
     \/ \E m \in Messages : /\ toLS' = Append(toLS, m)
                            /\ \A q \in Pets, t \in Tricks :
                                 m = Exemplar(q, t) => Learning(q, t)'
  /\ \A q \in Pets, t \in Tricks :
       Learning(q, t) => \/ Learning(q, t)'
                         \/ toLS' = Append(toLS, Stop(q, t))
                         \/ mode'[q] = "dead"
  /\ \A q \in Pets : mode[q] = "dead" => mode'[q] = "dead"

\* Every step of a pet is such a move.
LEMMA PetMoves ==
  ASSUME LearningTypeOK, Named, NEW p \in Pets, Owner(p) \/ ProcessSchema(p) \/ Act(p)
  PROVE  PetMove
<1>0. ASSUME UNCHANGED <<mode, learns, toLS>>
      PROVE  PetMove
  BY <1>0 DEF PetMove, Learning
<1>1. ASSUME NEW t \in Teaches[p], startLearning(p, t)
      PROVE  PetMove
  BY <1>1 DEF startLearning, PetMove, Learning, LearningTypeOK
<1>2. CASE startExemplar(p) \/ StopOther(p) \/ ProcessSchema(p) \/ Act(p)
  BY <1>0, <1>2 DEF startExemplar, StopOther, ProcessSchema, Act
<1>3. CASE endExemplar(p)
  <2>1. /\ mode[p] = "LEARNING" /\ UNCHANGED <<mode, learns>>
        /\ toLS' = Append(toLS, Exemplar(p, learns[p]))
    BY <1>3 DEF endExemplar, Send, Exemplar
  <2>2. Exemplar(p, learns[p]) \in Messages
    BY <2>1, SentIsMessage DEF Named, Types, Exemplar
  <2>3. \A q \in Pets, t \in Tricks :
          Exemplar(p, learns[p]) = Exemplar(q, t) => q = p /\ t = learns[p]
    BY DEF Exemplar
  <2> QED BY <2>1, <2>2, <2>3 DEF PetMove, Learning
<1>4. CASE stopLearning(p) \/ (saveAndExit(p) /\ mode[p] = "LEARNING")
  <2>1. /\ mode[p] = "LEARNING" /\ toLS' = Append(toLS, Stop(p, learns[p]))
        /\ \A q \in Pets \ {p} : mode'[q] = mode[q] /\ learns'[q] = learns[q]
    BY <1>4 DEF stopLearning, saveAndExit, Send, Reset, Stop, LearningTypeOK
  <2>2. /\ Stop(p, learns[p]) \in Messages
        /\ \A q \in Pets, t \in Tricks : Stop(p, learns[p]) # Exemplar(q, t)
    BY <2>1, SentIsMessage DEF Named, Types, Stop, Exemplar
  <2> QED BY <2>1, <2>2 DEF PetMove, Learning
<1>5. CASE saveAndExit(p) /\ mode[p] = "PLAYING"
  <2>1. /\ mode[p] = "PLAYING" /\ toLS' = toLS
        /\ \A q \in Pets \ {p} : mode'[q] = mode[q] /\ learns'[q] = learns[q]
    BY <1>5 DEF saveAndExit, Reset, LearningTypeOK
  <2> QED BY <2>1 DEF PetMove, Learning
<1>6. CASE trySchema(p) \/ reward(p)
  <2>1. PICK type \in {"TRY", "REWARD"}, t \in Tricks :
          toLS' = Append(toLS, [type |-> type, pet |-> p, trick |-> t])
    BY <1>6 DEF trySchema, reward, Send, Named, LearningTypeOK
  <2>2. UNCHANGED <<mode, learns>>
    BY <1>6 DEF trySchema, reward
  <2>3. /\ [type |-> type, pet |-> p, trick |-> t] \in Messages
        /\ \A q \in Pets, u \in Tricks :
             [type |-> type, pet |-> p, trick |-> t] # Exemplar(q, u)
    BY SentIsMessage DEF Types, Exemplar
  <2> QED BY <2>1, <2>2, <2>3 DEF PetMove, Learning
<1>7. CASE Load(p)
  BY <1>7 DEF Load, PetMove, Learning, LearningTypeOK
<1>8. CASE Die(p)
  BY <1>8 DEF Die, PetMove, Learning, LearningTypeOK
<1> QED BY <1>1, <1>2, <1>3, <1>4, <1>5, <1>6, <1>7, <1>8 DEF Owner, saveAndExit

\* A move leaves the messages in the queue and may add one behind them.
LEMMA MoveKeepsQueue ==
  ASSUME LearningTypeOK, PetMove
  PROVE  /\ DOMAIN toLS \subseteq DOMAIN toLS'
         /\ \A i \in DOMAIN toLS : toLS'[i] = toLS[i]
         /\ \A i \in DOMAIN toLS' \ DOMAIN toLS : \A q \in Pets, t \in Tricks :
              toLS'[i] = Exemplar(q, t) => Learning(q, t)'
         /\ \A m \in Messages : toLS' = Append(toLS, m) =>
              \E j \in DOMAIN toLS' : /\ toLS'[j] = m
                                      /\ \A i \in DOMAIN toLS : j > i
<1>0. toLS \in Seq(Messages)
  BY DEF LearningTypeOK
<1>1. ASSUME NEW m \in Messages
      PROVE  /\ Len(toLS) \in Nat /\ DOMAIN toLS = 1 .. Len(toLS)
             /\ DOMAIN Append(toLS, m) = 1 .. Len(toLS) + 1
             /\ Append(toLS, m)[Len(toLS) + 1] = m
             /\ \A i \in DOMAIN toLS : Append(toLS, m)[i] = toLS[i]
             /\ Append(toLS, m) # toLS
  BY <1>0, Appended
<1>2. CASE toLS' = toLS
  BY <1>1, <1>2
<1>3. ASSUME NEW m \in Messages, toLS' = Append(toLS, m),
             \A q \in Pets, t \in Tricks : m = Exemplar(q, t) => Learning(q, t)'
      PROVE  /\ DOMAIN toLS \subseteq DOMAIN toLS'
             /\ \A i \in DOMAIN toLS : toLS'[i] = toLS[i]
             /\ \A i \in DOMAIN toLS' \ DOMAIN toLS : \A q \in Pets, t \in Tricks :
                  toLS'[i] = Exemplar(q, t) => Learning(q, t)'
             /\ \E j \in DOMAIN toLS' : /\ toLS'[j] = m
                                         /\ \A i \in DOMAIN toLS : j > i
  <2>1. /\ Len(toLS) \in Nat /\ DOMAIN toLS = 1 .. Len(toLS)
        /\ DOMAIN toLS' = 1 .. Len(toLS) + 1
        /\ toLS'[Len(toLS) + 1] = m
        /\ \A i \in DOMAIN toLS : toLS'[i] = toLS[i]
    BY <1>1, <1>3
  <2>2. \A i \in DOMAIN toLS' \ DOMAIN toLS : toLS'[i] = m
    BY <2>1
  <2>3. \A i \in DOMAIN toLS' \ DOMAIN toLS : \A q \in Pets, t \in Tricks :
          toLS'[i] = Exemplar(q, t) => Learning(q, t)'
    BY <1>3, <2>2
  <2>4. \E j \in DOMAIN toLS' : toLS'[j] = m /\ \A i \in DOMAIN toLS : j > i
    BY <2>1
  <2> QED BY <2>1, <2>3, <2>4
<1>4. ASSUME NEW m \in Messages, NEW n \in Messages,
             toLS' = Append(toLS, m), toLS' = Append(toLS, n)
      PROVE  m = n
  BY <1>1, <1>4
<1> QED BY <1>2, <1>3, <1>4 DEF PetMove

\* Behind every exemplar, and for a busy server, somebody is still there to end
\* the learning after a step of a pet.
LEMMA PetKeepsOwner ==
  ASSUME LearningTypeOK, Named, LearnsAreStopped, BusyHasOwner,
         PetMove, UNCHANGED server
  PROVE  LearnsAreStopped' /\ BusyHasOwner'
<1>1. /\ DOMAIN toLS \subseteq DOMAIN toLS'
      /\ \A i \in DOMAIN toLS : toLS'[i] = toLS[i]
      /\ \A i \in DOMAIN toLS' \ DOMAIN toLS : \A q \in Pets, t \in Tricks :
           toLS'[i] = Exemplar(q, t) => Learning(q, t)'
  BY MoveKeepsQueue
<1>2. ASSUME NEW q \in Pets, NEW t \in Tricks, toLS' = Append(toLS, Stop(q, t))
      PROVE  \E j \in DOMAIN toLS' : toLS'[j] = Stop(q, t) /\ \A i \in DOMAIN toLS : j > i
  <2>1. Stop(q, t) \in Messages
    BY SentIsMessage DEF Types, Stop
  <2> QED BY <1>2, <2>1, MoveKeepsQueue
<1>3. LearnsAreStopped'
  <2> SUFFICES ASSUME NEW i \in DOMAIN toLS', NEW q \in Pets, NEW t \in Tricks,
                      toLS'[i] = Exemplar(q, t)
               PROVE  Owned(i, q, t)'
    BY DEF LearnsAreStopped, Exemplar
  <2>1. CASE i \notin DOMAIN toLS
    BY <1>1, <2>1 DEF Owned
  <2>2. CASE i \in DOMAIN toLS
    <3>1. Owned(i, q, t)
      BY <1>1, <2>2 DEF LearnsAreStopped
    <3> QED BY <1>1, <1>2, <2>2, <3>1 DEF Owned, PetMove
  <2> QED BY <2>1, <2>2
<1>4. BusyHasOwner'
  <2> SUFFICES ASSUME busy
               PROVE  \/ Learning(learningPet, learningSchema)'
                      \/ StopIsComing(learningPet, learningSchema)'
                      \/ mode'[learningPet] = "dead"
    BY DEF BusyHasOwner, server
  <2>1. PICK q \in Pets, t \in Tricks : q = learningPet /\ t = learningSchema
    BY DEF Named
  <2>2. UNCHANGED <<learningPet, learningSchema>>
    BY DEF server
  <2>3. Learning(q, t) \/ StopIsComing(q, t) \/ mode[q] = "dead"
    BY <2>1 DEF BusyHasOwner
  <2>4. Learning(q, t)' \/ StopIsComing(q, t)' \/ mode'[q] = "dead"
    BY <1>1, <1>2, <2>3 DEF PetMove, StopIsComing, Stop
  <2> QED BY <2>1, <2>2, <2>4 DEF Learning, StopIsComing
<1> QED BY <1>3, <1>4

\* Taking the messages of the server one by one, a pet comes to the candidate
\* sent last; it forgets it only when it ceases to learn.
LEMMA PetKeepsCandidate ==
  ASSUME LearningTypeOK, NEW p \in Pets, Owner(p) \/ ProcessSchema(p) \/ Act(p),
         NEW q \in Pets, NEW t \in Tricks, LastCandidate(q, t)
  PROVE  LastCandidate(q, t)' \/ ~Learning(q, t)'
<1>0. ASSUME UNCHANGED <<tried[q], toPet[q]>>
      PROVE  LastCandidate(q, t)'
  BY <1>0 DEF LastCandidate
<1>1. CASE (\E u \in Teaches[p] : startLearning(p, u)) \/ startExemplar(p) \/ endExemplar(p)
           \/ StopOther(p) \/ trySchema(p) \/ reward(p) \/ Load(p) \/ Die(p) \/ Act(p)
  BY <1>0, <1>1 DEF startLearning, startExemplar, endExemplar, StopOther, trySchema, reward,
     Load, Die, Act
<1>2. CASE stopLearning(p) \/ saveAndExit(p)
  <2>1. CASE q = p
    <3>1. mode'[p] # "LEARNING"
      BY <1>2 DEF stopLearning, saveAndExit, LearningTypeOK
    <3> QED BY <2>1, <3>1 DEF Learning
  <2>2. CASE q # p
    BY <1>0, <1>2, <2>2 DEF stopLearning, saveAndExit, Reset, LearningTypeOK
  <2> QED BY <2>1, <2>2
<1>3. CASE ProcessSchema(p)
  <2>1. CASE q # p
    BY <1>0, <1>3, <2>1 DEF ProcessSchema, LearningTypeOK
  <2>2. CASE q = p
    <3> DEFINE c == toPet[p]
    <3>1. /\ c \in Seq(Answers) /\ c # << >>
          /\ toPet'[p] = Tail(c)
          /\ tried'[p] = IF IsTried(Head(c)) THEN Head(c).trick ELSE tried[p]
      BY <1>3 DEF ProcessSchema, LearningTypeOK, IsTried
    <3>2. /\ Head(c) = c[1] /\ Len(c) \in Nat /\ Len(c) >= 1 /\ DOMAIN c = 1 .. Len(c)
          /\ DOMAIN Tail(c) = 1 .. Len(c) - 1
          /\ \A i \in 1 .. Len(c) - 1 : Tail(c)[i] = c[i + 1]
      BY <3>1, Taken
    <3> HIDE DEF c
    <3>3. CASE tried[p] = t /\ \A j \in DOMAIN c : ~IsTried(c[j])
      <4>1. tried'[p] = t
        BY <3>1, <3>2, <3>3
      <4>2. \A j \in DOMAIN toPet'[p] : ~IsTried(toPet'[p][j])
        BY <3>1, <3>2, <3>3
      <4> QED BY <2>2, <4>1, <4>2 DEF LastCandidate
    <3>4. ASSUME NEW i \in DOMAIN c, c[i] = Candidate(t),
                 \A j \in DOMAIN c : j > i => ~IsTried(c[j])
          PROVE  LastCandidate(p, t)'
      <4>1. CASE i = 1
        <5>1. tried'[p] = t
          BY <3>1, <3>2, <3>4, <4>1 DEF Candidate, IsTried
        <5>2. \A j \in DOMAIN toPet'[p] : ~IsTried(toPet'[p][j])
          BY <3>1, <3>2, <3>4, <4>1
        <5> QED BY <5>1, <5>2 DEF LastCandidate
      <4>2. CASE i # 1
        <5>1. /\ i - 1 \in DOMAIN toPet'[p] /\ toPet'[p][i - 1] = Candidate(t)
              /\ \A j \in DOMAIN toPet'[p] : j > i - 1 => ~IsTried(toPet'[p][j])
          BY <3>1, <3>2, <3>4, <4>2
        <5> QED BY <5>1 DEF LastCandidate, Candidate
      <4> QED BY <4>1, <4>2
    <3> QED BY <2>2, <3>3, <3>4 DEF LastCandidate, c
  <2> QED BY <2>1, <2>2
<1> QED BY <1>1, <1>2, <1>3 DEF Owner

\* A step of a pet does not leave the server waiting in vain.
LEMMA PetKeepsPause ==
  ASSUME LearningTypeOK, Named, BusyHasOwner', PausedForLast, PetMove, UNCHANGED server,
         NEW p \in Pets, Owner(p) \/ ProcessSchema(p) \/ Act(p)
  PROVE  PausedForLast'
<1> SUFFICES ASSUME busy, running, lts = "IDLE", ~emptyCandidate
             PROVE  \/ LastCandidate(learningPet, learningSchema)'
                    \/ StopIsComing(learningPet, learningSchema)'
                    \/ mode'[learningPet'] = "dead"
  BY DEF PausedForLast, server
<1>1. PICK q \in Pets, t \in Tricks : q = learningPet /\ t = learningSchema
  BY DEF Named
<1>2. UNCHANGED <<busy, learningPet, learningSchema>>
  BY DEF server
<1>3. LastCandidate(q, t) \/ StopIsComing(q, t) \/ mode[q] = "dead"
  BY <1>1 DEF PausedForLast
<1>4. Learning(q, t)' \/ StopIsComing(q, t)' \/ mode'[q] = "dead"
  BY <1>1, <1>2 DEF BusyHasOwner, Learning, StopIsComing
<1>5. LastCandidate(q, t) => LastCandidate(q, t)' \/ ~Learning(q, t)'
  BY PetKeepsCandidate
<1>6. StopIsComing(q, t) => StopIsComing(q, t)'
  BY MoveKeepsQueue DEF StopIsComing
<1>7. mode[q] = "dead" => mode'[q] = "dead"
  BY DEF PetMove
<1>8. LastCandidate(q, t)' \/ StopIsComing(q, t)' \/ mode'[q] = "dead"
  BY <1>3, <1>4, <1>5, <1>6, <1>7
<1> QED BY <1>1, <1>2, <1>8 DEF LastCandidate, StopIsComing, Candidate

-----------------------------------------------------------------------------
(* The server                                                              *)

\* What is behind the first message moves up when the server takes that.
LEMMA ServerKeepsStops ==
  ASSUME LearningTypeOK, toLS # << >>, toLS' = Tail(toLS), UNCHANGED pets
  PROVE  /\ LearnsAreStopped => LearnsAreStopped'
         /\ \A p \in Pets, t \in Tricks :
              StopIsComing(p, t) /\ Head(toLS) # Stop(p, t) => StopIsComing(p, t)'
         /\ \A p \in Pets, t \in Tricks :
              Owned(1, p, t) => \/ Learning(p, t)' \/ StopIsComing(p, t)'
                                \/ mode'[p] = "dead"
<1>1. /\ Head(toLS) = toLS[1] /\ Len(toLS) \in Nat /\ Len(toLS) >= 1
      /\ DOMAIN toLS = 1 .. Len(toLS)
      /\ DOMAIN toLS' = 1 .. Len(toLS) - 1
      /\ \A i \in 1 .. Len(toLS) - 1 : toLS'[i] = toLS[i + 1]
  BY FirstMessage
<1>2. UNCHANGED <<mode, learns>>
  BY DEF pets
<1>3. ASSUME NEW i \in 0 .. Len(toLS) - 1, NEW p, NEW t, Owned(i + 1, p, t)
      PROVE  Owned(i, p, t)'
  <2>1. CASE \E j \in DOMAIN toLS : j > i + 1 /\ toLS[j] = Stop(p, t)
    <3>1. PICK j \in DOMAIN toLS : j > i + 1 /\ toLS[j] = Stop(p, t)
      BY <2>1
    <3>2. j - 1 \in DOMAIN toLS' /\ j - 1 > i /\ toLS'[j - 1] = Stop(p, t)
      BY <1>1, <3>1
    <3> QED BY <3>2 DEF Owned, Stop
  <2> QED BY <1>2, <1>3, <2>1 DEF Owned, Learning
<1>4. LearnsAreStopped => LearnsAreStopped'
  <2> SUFFICES ASSUME LearnsAreStopped,
                      NEW i \in DOMAIN toLS', NEW p \in Pets, NEW t \in Tricks,
                      toLS'[i] = Exemplar(p, t)
               PROVE  Owned(i, p, t)'
    BY DEF LearnsAreStopped, Exemplar
  <2>1. i + 1 \in DOMAIN toLS /\ toLS[i + 1] = Exemplar(p, t)
    BY <1>1
  <2>2. Owned(i + 1, p, t) /\ i \in 0 .. Len(toLS) - 1
    BY <1>1, <2>1 DEF LearnsAreStopped
  <2> QED BY <1>3, <2>2
<1>5. ASSUME NEW p \in Pets, NEW t \in Tricks, StopIsComing(p, t), Head(toLS) # Stop(p, t)
      PROVE  StopIsComing(p, t)'
  <2>1. PICK j \in DOMAIN toLS : toLS[j] = Stop(p, t)
    BY <1>5 DEF StopIsComing, Stop
  <2>2. j - 1 \in DOMAIN toLS' /\ toLS'[j - 1] = Stop(p, t)
    BY <1>1, <1>5, <2>1
  <2> QED BY <2>2 DEF StopIsComing, Stop
<1>6. ASSUME NEW p \in Pets, NEW t \in Tricks, Owned(1, p, t)
      PROVE  Learning(p, t)' \/ StopIsComing(p, t)' \/ mode'[p] = "dead"
  <2>1. Owned(0, p, t)'
    <3>1. 0 \in 0 .. Len(toLS) - 1 /\ 0 + 1 = 1
      BY <1>1
    <3> QED BY <1>3, <1>6, <3>1
  <2> QED BY <2>1 DEF Owned, StopIsComing, Stop
<1> QED BY <1>4, <1>5, <1>6

\* A server that goes on for the same pet and trick keeps who will end it.
LEMMA ServerGoesOn ==
  ASSUME LearningTypeOK, Named, BusyHasOwner, toLS # << >>, toLS' = Tail(toLS),
         UNCHANGED <<pets, busy, learningPet, learningSchema>>,
         Mine => Head(toLS).type # "STOP_LEARNING"
  PROVE  /\ BusyHasOwner'
         /\ busy => (StopIsComing(learningPet, learningSchema)
                       => StopIsComing(learningPet, learningSchema)')
<1> SUFFICES ASSUME busy
             PROVE  /\ \/ Learning(learningPet, learningSchema)'
                       \/ StopIsComing(learningPet, learningSchema)'
                       \/ mode'[learningPet'] = "dead"
                    /\ StopIsComing(learningPet, learningSchema)
                         => StopIsComing(learningPet, learningSchema)'
  BY DEF BusyHasOwner
<1>1. PICK q \in Pets, t \in Tricks : q = learningPet /\ t = learningSchema
  BY DEF Named
<1>2. Learning(q, t) \/ StopIsComing(q, t) \/ mode[q] = "dead"
  BY <1>1 DEF BusyHasOwner
<1>3. Head(toLS) # Stop(q, t)
  BY <1>1 DEF Mine, Stop
<1>4. StopIsComing(q, t) => StopIsComing(q, t)'
  BY <1>3, ServerKeepsStops
<1>5. (Learning(q, t) => Learning(q, t)') /\ (mode[q] = "dead" => mode'[q] = "dead")
  BY DEF pets, Learning
<1> QED BY <1>1, <1>2, <1>4, <1>5 DEF Learning, StopIsComing

\* No handler of the server leaves it busy without an owner, or waiting in vain.
LEMMA ServerKeeps ==
  ASSUME LearningSafe, LearningTypeOK', LS,
         UNCHANGED pets, toLS # << >>, toLS' = Tail(toLS)
  PROVE  LearnsAreStopped' /\ BusyHasOwner' /\ PausedForLast'
<1>0. LearnsAreStopped'
  BY ServerKeepsStops DEF LearningSafe
<1>1. UNCHANGED <<mode, learns, tried>>
  BY DEF pets
<1>2. CASE Ignore
  <2>1. /\ UNCHANGED <<running, busy, learningPet, learningSchema, lts, emptyCandidate, toPet>>
        /\ ~Mine
    BY <1>2 DEF Ignore, server
  <2>2. BusyHasOwner' /\ (busy => (StopIsComing(learningPet, learningSchema)
                                     => StopIsComing(learningPet, learningSchema)'))
    BY <2>1, ServerGoesOn DEF LearningSafe
  <2>3. PausedForLast'
    BY <1>1, <2>1, <2>2 DEF LearningSafe, PausedForLast, LastCandidate
  <2> QED BY <1>0, <2>2, <2>3
<1>3. CASE initLearn
  <2>1. Receives("LEARN") /\ ~busy
    BY <1>3 DEF initLearn
  <2>2. \/ busy' = FALSE
        \/ /\ busy' = TRUE
           /\ learningPet' = Head(toLS).pet /\ learningSchema' = Head(toLS).trick
           /\ lts' = "LEARN" \/ running' = FALSE
    BY <1>3 DEF initLearn, resetLearningServer
  <2>3. PICK q \in Pets, t \in Tricks : q = Head(toLS).pet /\ t = Head(toLS).trick
    BY FirstMessage DEF LearningSafe
  <2>4. Head(toLS) = Exemplar(q, t)
    <3>1. Head(toLS) \in Messages /\ Head(toLS).type = "LEARN"
      BY <2>1, FirstMessage DEF LearningSafe, Receives
    <3> QED BY <2>3, <3>1 DEF Messages, Exemplar
  <2>5. Owned(1, q, t)
    <3>1. 1 \in DOMAIN toLS /\ toLS[1] = Exemplar(q, t)
      BY <2>4, FirstMessage DEF LearningSafe
    <3> QED BY <3>1 DEF LearningSafe, LearnsAreStopped
  <2>6. Learning(q, t)' \/ StopIsComing(q, t)' \/ mode'[q] = "dead"
    BY <2>5, ServerKeepsStops DEF LearningSafe
  <2>7. BusyHasOwner'
    BY <2>2, <2>3, <2>6 DEF BusyHasOwner, Learning, StopIsComing
  <2>8. PausedForLast'
    BY <2>2 DEF PausedForLast
  <2> QED BY <1>0, <2>7, <2>8
<1>4. CASE addLearnExample \/ rewardCandidateSchema
  <2>1. /\ UNCHANGED <<busy, learningPet, learningSchema>> /\ lts' = "LEARN"
        /\ Head(toLS).type # "STOP_LEARNING"
    BY <1>4 DEF addLearnExample, rewardCandidateSchema, Receives
  <2>2. BusyHasOwner'
    BY <2>1, ServerGoesOn DEF LearningSafe
  <2>3. PausedForLast'
    BY <2>1 DEF PausedForLast
  <2> QED BY <1>0, <2>2, <2>3
<1>5. CASE LStrySchema
  <2>1. /\ UNCHANGED <<busy, learningPet, learningSchema>> /\ busy
        /\ Head(toLS).type # "STOP_LEARNING"
        /\ emptyCandidate' \in BOOLEAN /\ Answer("CANDIDATE_SCHEMA", emptyCandidate')
    BY <1>5 DEF LStrySchema, Receives, Mine
  <2>2. BusyHasOwner'
    BY <2>1, ServerGoesOn DEF LearningSafe
  <2>3. PICK q \in Pets, t \in Tricks : q = learningPet /\ t = learningSchema
    BY <2>1 DEF LearningSafe, Named
  <2>4. toPet[q] \in Seq(Answers) /\ Candidate(t) \in Answers
    BY DEF LearningSafe, LearningTypeOK, Answers, Candidate
  <2>5. ASSUME emptyCandidate' = FALSE
        PROVE  LastCandidate(q, t)'
    <3>1. toPet'[q] = Append(toPet[q], Candidate(t))
      BY <2>1, <2>3, <2>5 DEF Answer, Candidate, LearningSafe, LearningTypeOK
    <3>2. /\ Len(toPet[q]) \in Nat /\ DOMAIN toPet'[q] = 1 .. Len(toPet[q]) + 1
          /\ toPet'[q][Len(toPet[q]) + 1] = Candidate(t)
      BY <2>4, <3>1, Appended
    <3> QED BY <3>2 DEF LastCandidate, Candidate
  <2>6. PausedForLast'
    BY <2>1, <2>3, <2>5 DEF PausedForLast, LastCandidate, Candidate
  <2> QED BY <1>0, <2>2, <2>6
<1>6. CASE stopLearn
  <2>1. busy' = FALSE
    BY <1>6 DEF stopLearn, resetLearningServer
  <2> QED BY <1>0, <2>1 DEF BusyHasOwner, PausedForLast
<1> QED BY <1>2, <1>3, <1>4, <1>5, <1>6 DEF LS

-----------------------------------------------------------------------------
\* Every step of the pets, their owners and the server keeps the invariant.
LEMMA SafeStep == LearningSafe /\ [Next]_vars => LearningSafe'
<1> SUFFICES ASSUME LearningSafe, [Next]_vars
             PROVE  LearningSafe'
  OBVIOUS
<1>1. CASE LS
  <2>1. /\ LearningTypeOK' /\ Named' /\ BusyHasLearner'
        /\ UNCHANGED pets /\ toLS # << >> /\ toLS' = Tail(toLS)
    BY <1>1, ServerTypes DEF LearningSafe
  <2> QED BY <1>1, <2>1, ServerKeeps DEF LearningSafe
<1>2. ASSUME NEW p \in Pets, Owner(p) \/ ProcessSchema(p) \/ Act(p)
      PROVE  LearningSafe'
  <2>1. LearningTypeOK' /\ Named' /\ UNCHANGED server
    BY <1>2, PetTypes DEF LearningSafe
  <2>2. PetMove
    BY <1>2, PetMoves DEF LearningSafe
  <2>3. BusyHasLearner'
    BY <2>1 DEF LearningSafe, BusyHasLearner, server
  <2>4. LearnsAreStopped' /\ BusyHasOwner'
    BY <2>1, <2>2, PetKeepsOwner DEF LearningSafe
  <2>5. PausedForLast'
    BY <1>2, <2>1, <2>2, <2>4, PetKeepsPause DEF LearningSafe
  <2> QED BY <2>1, <2>3, <2>4, <2>5 DEF LearningSafe
<1>3. CASE UNCHANGED vars
  BY <1>3 DEF vars, pets, server, LearningSafe, LearningTypeOK, Named, BusyHasLearner,
     LearnsAreStopped, Owned, BusyHasOwner, PausedForLast, LastCandidate, Learning, StopIsComing
<1> QED BY <1>1, <1>2, <1>3 DEF Next

\* Before anything is taught the invariant holds.
LEMMA SafeInit == Init => LearningSafe
<1> SUFFICES ASSUME Init PROVE LearningSafe
  OBVIOUS
<1>1. << >> \in Seq(Messages) /\ << >> \in Seq(Answers)
  BY EmptySeq
<1>2. LearningTypeOK
  BY <1>1 DEF Init, LearningTypeOK
<1>3. Named /\ BusyHasLearner /\ BusyHasOwner /\ PausedForLast
  BY DEF Init, Named, BusyHasLearner, BusyHasOwner, PausedForLast
<1>4. LearnsAreStopped
  BY DEF Init, LearnsAreStopped
<1> QED BY <1>2, <1>3, <1>4 DEF LearningSafe

\* The invariant holds in every reachable state.
THEOREM AlwaysSafe == Spec => []LearningSafe
BY SafeInit, SafeStep, PTL DEF Spec

\* The variables of Pet, LS and ImitationLearningAgent have their types.
THEOREM LearningTypes == Spec => []LearningTypeOK
BY AlwaysSafe, PTL DEF LearningSafe

\* The assertions "_PIL != NULL" of the agent never fail.
THEOREM LearnerIsThere == Spec => []BusyHasLearner
BY AlwaysSafe, PTL DEF LearningSafe

\* The server is never busy for a pet that has gone without telling it, except
\* one that died.
THEOREM BusyForSomebody == Spec => []BusyHasOwner
BY AlwaysSafe, PTL DEF LearningSafe

\* The server waits for a reward that its pet cannot give any more only if the candidate it
\* sent last was the empty program, which the OPC discards.
THEOREM RewardCanCome == Spec => []PausedForReward
<1>1. LearningSafe => PausedForReward
  BY DEF LearningSafe, PausedForLast, LastCandidate, Candidate, PausedForReward
<1> QED BY <1>1, AlwaysSafe, PTL
=============================================================================
