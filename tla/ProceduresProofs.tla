--------------------------- MODULE ProceduresProofs ---------------------------
(***************************************************************************)
(* Proofs about the procedures of an OPC, for any programs: the result of  *)
(* a schema that is finished is there when the RuleEngine asks for it, and *)
(* a procedure has one plan at a time in the world.                        *)
(***************************************************************************)
EXTENDS Procedures, FiniteSetTheorems, SequenceTheorems, TLAPS

\* What a RunningComboProcedure keeps
Fields == {"prog", "tree", "it", "begun", "sent", "failed", "inCompound", "stack",
           "broken", "finished"}

\* The k-th thing procedure p met is a plan, and one the world has not answered.
Planned(p, k) == hist[p][k].plan # 0
Waits(p, k) == Planned(p, k) /\ hist[p][k].plan \in pending

\* What a procedure met is a sequence.
IsHistory(h) == \E S : h \in Seq(S)

-----------------------------------------------------------------------------
(* The inductive invariant                                                 *)

\* The variables the other parts are about
Shapes ==
  /\ next \in 0 .. MaxProcedures /\ plans \in 0 .. MaxPlans
  /\ DOMAIN proc = Procs /\ DOMAIN hist = Procs
  /\ \A p \in Procs : /\ DOMAIN proc[p] = Fields /\ IsProgram(proc[p].prog)
                      /\ IsHistory(hist[p])
  /\ pending \subseteq 1 .. plans

\* How many procedures the RuleEngine and the shell have started
Counted ==
  /\ next \in Nat /\ shells \in 0 .. MaxShells
  /\ shells <= next /\ next - shells <= MaxSchemas

\* Who is visited, removed, kept and selected was started before.
Started ==
  /\ running \subseteq 1 .. next /\ known \subseteq running
  /\ todo \subseteq running /\ done \subseteq running
  /\ schema \in 0 .. next
  /\ \A p \in Procs : p > next => hist[p] = << >>

\* Between two runs of the interpreter nothing is visited; in a run a procedure is
\* still to be visited, being cycled or found finished.
RunPhases ==
  /\ phase \in {"messages", "visit", "select", "visit again"}
  /\ phase \notin Visits => current = 0 /\ done = {}
  /\ current # 0 => current \in running \ (todo \cup done)
  /\ todo \cap done = {}

\* A procedure that is cycled has a node to execute; one that was stopped or has
\* been found finished has none, so it is not cycled again.
EndedStay ==
  /\ current # 0 => proc[current].it # End
  /\ \A p \in Procs : proc[p].tree = "null" \/ proc[p].finished => proc[p].it = End
  /\ \A p \in done : proc[p].finished

\* A procedure that was started is known, or its result is, or it was stopped.
Accounted ==
  \A p \in 1 .. next : p \in known \cup failures \cup results \/ proc[p].tree = "null"

\* The plan a procedure waits for is the wrapper's, and keeps the procedure running.
WaitsForLast ==
  \A p \in Procs \ mixed : \A k \in DOMAIN hist[p] :
    Waits(p, k) => /\ hist[p][k].plan = planID /\ p \in running \ done /\ p # current
                   /\ proc[p].begun /\ proc[p].sent /\ ~proc[p].finished

\* The plans a procedure has sent are different plans.
PlansDiffer ==
  \A p \in Procs : \A j, k \in DOMAIN hist[p] :
    Planned(p, j) => /\ hist[p][j].plan \in 1 .. plans
                     /\ hist[p][k].plan = hist[p][j].plan => k = j

ProceduresSafe ==
  Shapes /\ Started /\ RunPhases /\ EndedStay /\ Accounted /\ WaitsForLast /\ PlansDiffer

LEMMA MaxIsNumber == MaxProcedures \in Nat
BY ProceduresAssumption DEF MaxProcedures

-----------------------------------------------------------------------------
(* Walking the tree                                                        *)

\* Executing a node changes neither what a procedure is waiting for nor whether it
\* was stopped or found finished.
Keeps(q, s) ==
  /\ DOMAIN s = Fields
  /\ s.prog = q.prog /\ s.tree = q.tree /\ s.finished = q.finished
  /\ s.begun = q.begun /\ s.sent = q.sent

\* moveOn goes to another node and may turn the result, whatever the program is.
LEMMA MoveOnKeeps ==
  ASSUME NEW q, DOMAIN q = Fields, NEW answer
  PROVE  Keeps(q, moveOn(q, answer))
<1> DEFINE path == Ancestors(q, q.it)
           halts == {m \in path : Halts(q, m)}
           top == CHOOSE m \in halts : \A k \in halts : k <= m
           par == Parent(q, top)
           nots == Cardinality({m \in path : m > top /\ Op(q, Parent(q, m)) = "not"})
           fails == FailedIf(q, answer) # (nots % 2 = 1)
           s == [q EXCEPT !.it = par,
                          !.failed = IF nots = 0 THEN @ ELSE IF fails THEN "yes" ELSE "no"]
<1>1. moveOn(q, answer) =
        IF par = End \/ Op(q, par) \in {"while", "boolwhile"} THEN s ELSE
        CASE Op(q, par) = "and" -> [s EXCEPT !.it = Kid(q, par, Position(q, top) + 1)]
          [] Op(q, par) = "if" -> [s EXCEPT !.it = Kid(q, par, IF fails THEN 3 ELSE 2)]
          [] OTHER -> [s EXCEPT !.stack[1][2] = @ - 1]
  BY DEF moveOn
<1>2. Keeps(q, s)
  BY DEF Keeps, Fields
<1> HIDE DEF s
<1>3. \A v : Keeps(q, [s EXCEPT !.it = v]) /\ Keeps(q, [s EXCEPT !.stack = v])
  BY <1>2 DEF Keeps, Fields
<1>4. Keeps(q, [s EXCEPT !.stack[1][2] = @ - 1])
  BY <1>2 DEF Keeps, Fields
<1> HIDE DEF par, fails, top
<1> QED BY <1>1, <1>2, <1>3, <1>4

-----------------------------------------------------------------------------
(* The iterations of cycle()                                               *)

\* What an iteration makes of the procedure that is cycled
Iterated(s) ==
  /\ proc' = [proc EXCEPT ![current] = s]
  /\ DOMAIN s = Fields /\ IsProgram(s.prog) /\ s.tree # "null" /\ ~s.finished
  /\ current' = 0 \/ (current' = current /\ s.it # End)

\* It met nothing, or something that is not a plan on its way.
Meeting ==
  \/ hist' = hist
  \/ \E e : e.plan = 0 /\ Meets(e)

Mixes == mixed' = mixed \cup {q \in running \ {current} : proc[q].begun}

\* An iteration creates no plan, or one that is not sent, or it sends one.
Walks(s) == Iterated(s) /\ Meeting /\ NoPlan
Wastes(s) ==
  /\ Iterated(s) /\ Meeting /\ Mixes
  /\ plans' = plans /\ pending' = pending
Sends(s) ==
  /\ Iterated(s) /\ s.begun /\ s.sent /\ current' = 0
  /\ plans < MaxPlans /\ plans' = plans + 1 /\ planID' = plans + 1
  /\ pending' = pending \cup {plans + 1}
  /\ \E e : e.plan = plans + 1 /\ Meets(e)
  /\ Mixes
CycleStep == LoopStays /\ \E s : Walks(s) \/ Wastes(s) \/ Sends(s)

\* The procedure that is cycled has a node to execute.
Cycled ==
  /\ current \in Procs /\ DOMAIN r = Fields /\ IsProgram(r.prog)
  /\ r.it # End /\ r.tree # "null" /\ ~r.finished

LEMMA SafeCycled == ASSUME ProceduresSafe, current # 0 PROVE Cycled
<1> USE ProceduresAssumption, MaxIsNumber
<1>1. current \in 1 .. next /\ next \in 0 .. MaxProcedures
  BY DEF ProceduresSafe, Shapes, Started, RunPhases
<1>2. current \in Procs
  BY <1>1 DEF Procs
<1> QED BY <1>2 DEF ProceduresSafe, Shapes, EndedStay, Cycled, r

\* A step from the procedure's state to a state that Keeps it.
LEMMA Goes ==
  ASSUME Cycled, NEW q, Keeps(r, q)
  PROVE  /\ Continue(q) => Iterated(q)
         /\ Return(q) => Iterated(q)
BY DEF Cycled, Keeps, Continue, Return, Iterated, r

\* One iteration of cycle(), for each kind of node (execSeqRunsOver only ends the OPC)
LEMMA CycleIsStep == ASSUME ProceduresSafe, cycle, ~execSeqRunsOver PROVE CycleStep
<1>1. current # 0 /\ Cycled
  <2>1. current # 0
    BY DEF cycle, action_while, abortSequence, action_action_if, action_boolean_if,
      boolean_while, action_success, action_failure, return_success, repeat_n,
      procedure_call, Expression, builtin_action, execSeqRunsOver, Proceeds, Iterates
  <2> QED BY <2>1, SafeCycled
<1>2. ASSUME RestOfLoop PROVE LoopStays
  BY <1>2 DEF RestOfLoop
<1>3. Keeps(r, r) /\ \A v : Keeps(r, [r EXCEPT !.it = v])
  BY <1>1 DEF Cycled, Keeps, Fields
<1>4. \A a : Keeps(r, moveOn(r, a))
  BY <1>1, MoveOnKeeps DEF Cycled
<1>5. Keeps(r, Fails(r))
  BY <1>1 DEF Cycled, Keeps, Fields, Fails
<1>6. ASSUME NEW q, Keeps(r, q) PROVE DOMAIN q = Fields /\ \A a : Keeps(r, moveOn(q, a))
  <2>1. DOMAIN q = Fields
    BY <1>6 DEF Keeps
  <2>2. \A a : Keeps(q, moveOn(q, a))
    BY <2>1, MoveOnKeeps
  <2> QED BY <1>6, <2>1, <2>2 DEF Keeps
<1>7. ASSUME NEW q, Keeps(r, q), Continue(q) \/ Return(q), Meeting, NoPlan, LoopStays
      PROVE  CycleStep
  BY <1>1, <1>7, Goes DEF CycleStep, Walks
<1>8. CASE action_while
  <2>1. Keeps(r, [r EXCEPT !.failed = "no"])
    BY <1>1 DEF Cycled, Keeps, Fields
  <2>2. Keeps(r, moveOn([r EXCEPT !.failed = "no"], isPlanFailed))
    BY <2>1, <1>6
  <2> QED BY <1>2, <1>3, <1>7, <1>8, <2>2 DEF action_while, Meeting
<1>9. CASE abortSequence
  <2>1. Keeps(r, moveOn([r EXCEPT !.it = LastKid(r, Parent(r, r.it))], isPlanFailed))
    BY <1>3, <1>6
  <2> QED BY <1>2, <1>7, <1>9, <2>1 DEF abortSequence, Meeting
<1>10. CASE action_action_if
  BY <1>2, <1>3, <1>7, <1>10 DEF action_action_if, Meeting
<1>11. \A v : Event(v).plan = 0
  BY DEF Event
<1>12. CASE action_boolean_if
  <2>1. PICK v \in Perceptions :
          /\ Meets(Event(v))
          /\ \/ Return(Fails(r))
             \/ Continue([r EXCEPT !.it = Kid(r, r.it, IF v = "true" THEN 2 ELSE 3)])
    BY <1>12 DEF action_boolean_if
  <2>2. Meeting
    BY <1>11, <2>1 DEF Meeting
  <2>3. NoPlan /\ LoopStays
    BY <1>2, <1>12 DEF action_boolean_if
  <2>4. CASE Return(Fails(r))
    BY <1>5, <1>7, <2>2, <2>3, <2>4
  <2>5. CASE Continue([r EXCEPT !.it = Kid(r, r.it, IF v = "true" THEN 2 ELSE 3)])
    BY <1>3, <1>7, <2>2, <2>3, <2>5
  <2> QED BY <2>1, <2>4, <2>5
<1>13. CASE boolean_while
  <2>1. NoPlan /\ LoopStays
    BY <1>2, <1>13 DEF boolean_while
  <2>2. CASE Continue(moveOn(r, isPlanFailed)) /\ UNCHANGED hist
    BY <1>4, <1>7, <2>1, <2>2 DEF Meeting
  <2>3. ASSUME NEW v \in Perceptions, Meets(Event(v)),
               \/ Continue([r EXCEPT !.it = Kid(r, r.it, 2)])
               \/ Return(moveOn(r, isPlanFailed))
               \/ Return(Fails(r))
        PROVE  CycleStep
    <3>1. Meeting
      BY <1>11, <2>3 DEF Meeting
    <3> QED BY <1>3, <1>4, <1>5, <1>7, <2>1, <2>3, <3>1
  <2> QED BY <1>13, <2>2, <2>3 DEF boolean_while, Perceptions
<1>14. ASSUME NEW q, Keeps(r, q), NEW v \in Values \cup {"success", "failure"},
              Continue(Becomes(q, v)), Meeting, NoPlan, LoopStays
       PROVE  CycleStep
  <2> DEFINE s == Becomes(q, v)
  <2>1. /\ DOMAIN s = Fields /\ s.prog = q.prog
        /\ s.tree = v /\ s.finished = q.finished /\ s.it = End
    BY <1>14 DEF Becomes, Keeps, Fields
  <2>2. IsProgram(s.prog) /\ ~s.finished /\ s.tree # "null"
    BY <1>1, <1>14, <2>1 DEF Cycled, Keeps, Values
  <2>3. Iterated(s)
    BY <1>14, <2>1, <2>2 DEF Iterated, Continue
  <2> QED BY <1>14, <2>3 DEF CycleStep, Walks
<1>15. CASE action_success
  BY <1>2, <1>3, <1>14, <1>15 DEF action_success, Meeting
<1>16. CASE action_failure
  <2>1. Keeps(r, [r EXCEPT !.failed = "yes"])
    BY <1>1 DEF Cycled, Keeps, Fields
  <2>3. Meeting
    BY <1>11, <1>16 DEF action_failure, Meeting
  <2> QED BY <1>2, <1>14, <1>16, <2>1, <2>3 DEF action_failure
<1>17. CASE return_success
  BY <1>3, <1>7, <1>17 DEF return_success, Meeting
<1>18. CASE repeat_n
  <2> DEFINE entered == r.stack # << >> /\ Head(r.stack)[1] = r.it
             s == IF entered THEN r
                  ELSE [r EXCEPT !.stack = <<<<r.it, r.prog[r.it].times>>>> \o @]
             t == [s EXCEPT !.stack = Tail(@)]
             u == [s EXCEPT !.it = LastKid(s, s.it)]
  <2>1. Keeps(r, s)
    BY <1>1 DEF Cycled, Keeps, Fields
  <2>2. Continue(IF Head(s.stack)[2] >= 1 THEN u ELSE moveOn(t, isPlanFailed))
    BY <1>18 DEF repeat_n
  <2> HIDE DEF s
  <2>3. Keeps(r, u)
    BY <2>1 DEF Keeps, Fields
  <2>4. Keeps(r, t)
    BY <2>1 DEF Keeps, Fields
  <2> HIDE DEF t, u
  <2>5. Keeps(r, moveOn(t, isPlanFailed))
    BY <1>6, <2>4
  <2>6. Meeting /\ NoPlan /\ LoopStays
    BY <1>2, <1>18 DEF repeat_n, Meeting
  <2> QED BY <1>7, <2>2, <2>3, <2>5, <2>6
<1>19. CASE procedure_call
  BY <1>2, <1>5, <1>7, <1>19 DEF procedure_call, Meeting
<1>20. CASE Expression
  <2>1. NoPlan /\ LoopStays
    BY <1>2, <1>20 DEF Expression
  <2>2. CASE Return(Fails(r)) /\ UNCHANGED hist
    BY <1>5, <1>7, <2>1, <2>2 DEF Meeting
  <2>3. ASSUME NEW v \in Values, Continue(Becomes(r, v)), Meets(Event(v)) PROVE CycleStep
    <3>1. Meeting
      BY <1>11, <2>3 DEF Meeting
    <3> QED BY <1>3, <1>14, <2>1, <2>3, <3>1
  <2> QED BY <1>20, <2>2, <2>3 DEF Expression
<1>21. ASSUME NEW s, NEW outcome, NEW last,
              sendSequential_and(outcome), LoopStays,
              DOMAIN s = Fields, s.prog = r.prog, s.tree = r.tree,
              s.finished = r.finished, s.begun = TRUE,
              s.sent = (outcome \in Sent),
              \/ Return(s)
              \/ outcome \notin Sent /\ Continue(s),
              \/ outcome \notin Sent /\ hist' = hist
              \/ Meets(PlanEvent(outcome, last))
       PROVE  CycleStep
  <2>1. Iterated(s)
    BY <1>1, <1>21 DEF Cycled, Return, Continue, Iterated
  <2>2. Mixes
    BY <1>21 DEF sendSequential_and, Mixes
  <2>3. CASE outcome \in Sent
    <3>1. /\ plans < MaxPlans /\ plans' = plans + 1 /\ planID' = plans + 1
          /\ pending' = pending \cup {plans + 1}
      BY <1>21, <2>3 DEF sendSequential_and
    <3>2. PlanEvent(outcome, last).plan = plans + 1
      BY <2>3 DEF PlanEvent, Sent
    <3>3. \E e : e.plan = plans + 1 /\ Meets(e)
      BY <1>21, <2>3, <3>2
    <3>4. current' = 0
      BY <1>21, <2>3 DEF Return
    <3> QED BY <1>21, <2>1, <2>2, <2>3, <3>1, <3>3, <3>4 DEF CycleStep, Sends
  <2>4. CASE outcome \notin Sent
    <3>1. PlanEvent(outcome, last).plan = 0
      BY <2>4, <1>11 DEF PlanEvent
    <3>2. Meeting
      BY <1>21, <2>4, <3>1 DEF Meeting
    <3>3. pending' = pending /\ plans' = plans
      BY <1>21, <2>4 DEF sendSequential_and
    <3> QED BY <1>21, <2>1, <2>2, <3>2, <3>3 DEF CycleStep, Wastes
  <2> QED BY <2>3, <2>4
<1>22. ASSUME NEW m, Compound(m), LoopStays PROVE CycleStep
  <2>1. CASE Continue(moveOn([r EXCEPT !.it = m, !.failed = "yes"], isPlanFailed))
             /\ Meets(Event("fail")) /\ NoPlan
    <3>1. Keeps(r, [r EXCEPT !.it = m, !.failed = "yes"])
      BY <1>1 DEF Cycled, Keeps, Fields
    <3>2. Meeting
      BY <1>11, <2>1 DEF Meeting
    <3> QED BY <1>6, <1>7, <1>22, <2>1, <3>1, <3>2
  <2> DEFINE S0(outcome) == [r EXCEPT !.it = m, !.begun = TRUE, !.sent = (outcome \in Sent),
                                      !.failed = IF outcome = "refused" THEN "yes" ELSE @]
             U0(s) == [s EXCEPT !.inCompound = TRUE]
  <2>2. ASSUME NEW outcome, sendSequential_and(outcome), Meets(PlanEvent(outcome, m)),
               \/ outcome \in Sent /\ Return(U0(S0(outcome)))
               \/ outcome \notin Sent /\ Return(S0(outcome))
               \/ outcome \notin Sent /\ Continue(moveOn(S0(outcome), FailedAfter(outcome)))
        PROVE  CycleStep
    <3> DEFINE s == S0(outcome)
               t == moveOn(s, FailedAfter(outcome))
               u == U0(s)
    <3>1. /\ DOMAIN s = Fields /\ s.prog = r.prog
          /\ s.tree = r.tree /\ s.finished = r.finished
          /\ s.begun = TRUE /\ s.sent = (outcome \in Sent)
      BY <1>1 DEF Cycled, Fields
    <3> HIDE DEF s
    <3>2. Keeps(s, t)
      BY <3>1, MoveOnKeeps
    <3>3. Keeps(s, u)
      BY <3>1 DEF Keeps, Fields
    <3>4. \/ outcome \in Sent /\ Return(u)
          \/ outcome \notin Sent /\ Return(s)
          \/ outcome \notin Sent /\ Continue(t)
      BY <2>2 DEF s
    <3> HIDE DEF t, u
    <3>6. CASE outcome \in Sent /\ Return(u)
      BY <1>21, <1>22, <2>2, <3>1, <3>3, <3>6 DEF Keeps
    <3>7. CASE outcome \notin Sent /\ Return(s)
      BY <1>21, <1>22, <2>2, <3>1, <3>7 DEF Keeps
    <3>8. CASE outcome \notin Sent /\ Continue(t)
      BY <1>21, <1>22, <2>2, <3>1, <3>2, <3>8 DEF Keeps
    <3> QED BY <3>4, <3>6, <3>7, <3>8
  <2>3. ASSUME NEW outcome, sendSequential_and(outcome), Meets(PlanEvent(outcome, m)),
               CASE outcome \in Sent -> Return(U0(S0(outcome)))
                 [] outcome \notin Sent /\ FailedIf(S0(outcome), FailedAfter(outcome)) ->
                      Return(S0(outcome))
                 [] OTHER -> Continue(moveOn(S0(outcome), FailedAfter(outcome)))
        PROVE  CycleStep
    <3> DEFINE F == FailedIf(S0(outcome), FailedAfter(outcome))
    <3>1. F \in BOOLEAN
      BY DEF FailedIf
    <3>2. CASE outcome \in Sent
      <4>1. Return(U0(S0(outcome)))
        <5> HIDE DEF S0, U0
        <5> QED BY <2>3, <3>2
      <4> QED BY <2>2, <2>3, <3>2, <4>1
    <3>3. CASE outcome \notin Sent /\ F
      <4>1. Return(S0(outcome))
        BY <2>3, <3>3
      <4> QED BY <2>2, <2>3, <3>3, <4>1
    <3>4. CASE outcome \notin Sent /\ ~F
      <4>1. Continue(moveOn(S0(outcome), FailedAfter(outcome)))
        BY <2>3, <3>4
      <4> QED BY <2>2, <2>3, <3>4, <4>1
    <3> QED BY <3>1, <3>2, <3>3, <3>4
  <2> QED BY <1>22, <2>1, <2>3 DEF Compound
<1>23. ASSUME NEW g, execSeq(g), LoopStays PROVE CycleStep
  <2> DEFINE s == [r EXCEPT !.begun = TRUE, !.failed = "ask"]
             last == g[Len(g)]
             b0 == [s EXCEPT !.it = g[1], !.broken = @ \cup {g[1]}]
             T0(outcome) == [s EXCEPT !.it = last, !.sent = (outcome \in Sent)]
  <2>1. \/ Continue(b0) /\ UNCHANGED hist /\ NoPlan
        \/ \E outcome \in Outcomes(g) :
             /\ sendSequential_and(outcome)
             /\ IF outcome = "refused" \/ (outcome = "unbuilt" /\ ~InAnd(r, last))
                THEN UNCHANGED hist ELSE Meets(PlanEvent(outcome, last))
             /\ IF outcome \in Sent THEN Return(moveOn(T0(outcome), FALSE))
                ELSE Continue(T0(outcome))
    BY <1>23 DEF execSeq
  <2>2. /\ DOMAIN s = Fields /\ s.prog = r.prog /\ s.tree = r.tree
        /\ s.finished = r.finished /\ s.begun = TRUE
    BY <1>1 DEF Cycled, Fields
  <2> HIDE DEF s, last
  <2>3. CASE Continue(b0) /\ UNCHANGED hist /\ NoPlan
    <3>1. /\ DOMAIN b0 = Fields /\ b0.prog = r.prog /\ b0.tree = r.tree
          /\ b0.finished = r.finished
      BY <2>2 DEF Fields
    <3> HIDE DEF b0
    <3>2. Iterated(b0)
      BY <1>1, <2>3, <3>1 DEF Iterated, Continue, Cycled
    <3> QED BY <1>23, <2>3, <3>2 DEF CycleStep, Walks, Meeting
  <2>4. ASSUME NEW outcome, sendSequential_and(outcome),
               IF outcome = "refused" \/ (outcome = "unbuilt" /\ ~InAnd(r, last))
               THEN UNCHANGED hist ELSE Meets(PlanEvent(outcome, last)),
               IF outcome \in Sent THEN Return(moveOn(T0(outcome), FALSE))
               ELSE Continue(T0(outcome))
        PROVE  CycleStep
    <3> DEFINE t == T0(outcome)
    <3>1. /\ DOMAIN t = Fields /\ t.prog = r.prog /\ t.tree = r.tree
          /\ t.finished = r.finished /\ t.begun = TRUE /\ t.sent = (outcome \in Sent)
      BY <2>2 DEF Fields
    <3>2. \/ outcome \in Sent /\ Return(moveOn(t, FALSE))
          \/ outcome \notin Sent /\ Continue(t)
      BY <2>4
    <3>3. \/ outcome \notin Sent /\ hist' = hist
          \/ Meets(PlanEvent(outcome, last))
      <4>1. outcome = "refused" \/ outcome = "unbuilt" => outcome \notin Sent
        BY DEF Sent
      <4> QED BY <2>4, <4>1
    <3> HIDE DEF t
    <3>4. Keeps(t, moveOn(t, FALSE))
      BY <3>1, MoveOnKeeps
    <3>6. CASE outcome \in Sent /\ Return(moveOn(t, FALSE))
      BY <1>21, <1>23, <2>4, <3>1, <3>3, <3>4, <3>6 DEF Keeps
    <3>7. CASE outcome \notin Sent /\ Continue(t)
      BY <1>21, <1>23, <2>4, <3>1, <3>3, <3>7
    <3> QED BY <3>2, <3>6, <3>7
  <2> QED BY <2>1, <2>3, <2>4
<1>24. CASE builtin_action
  <2> DEFINE m == ToExecute
  <2>1. LoopStays
    BY <1>2, <1>24 DEF builtin_action
  <2>2. \/ Return(moveOn(r, isPlanFailed)) /\ UNCHANGED hist /\ NoPlan
        \/ Compound(m)
        \/ execSeq(Group(m))
        \/ Continue([r EXCEPT !.it = m]) /\ UNCHANGED hist /\ NoPlan
    BY <1>24 DEF builtin_action
  <2> HIDE DEF m
  <2> QED BY <1>3, <1>4, <1>7, <1>22, <1>23, <2>1, <2>2 DEF Meeting
<1> QED
  BY <1>8, <1>9, <1>10, <1>12, <1>13, <1>15, <1>16, <1>17, <1>18, <1>19, <1>20, <1>24
    DEF cycle

-----------------------------------------------------------------------------
(* An iteration keeps the invariant                                        *)

\* The k-th thing p met is what it was before.
Old(p, k) == k \in DOMAIN hist[p] /\ hist'[p][k] = hist[p][k]

\* What a procedure meets is put at the end of what it met.
LEMMA MeetsAppends ==
  ASSUME Shapes, current \in Procs, NEW e, Meets(e)
  PROVE  /\ DOMAIN hist' = Procs
         /\ \A p \in Procs : IsHistory(hist'[p]) /\ (p # current => hist'[p] = hist[p])
         /\ \A p \in Procs : \A k \in DOMAIN hist'[p] :
              \/ Old(p, k)
              \/ p = current /\ k = Len(hist[p]) + 1 /\ hist'[p][k] = e
<1>1. /\ DOMAIN hist' = Procs
      /\ \A p \in Procs : hist'[p] = IF p = current THEN Append(hist[p], e) ELSE hist[p]
  BY DEF Shapes, Meets
<1>2. \A p \in Procs : IsHistory(hist[p])
  BY DEF Shapes
<1>3. ASSUME NEW h, IsHistory(h)
      PROVE  /\ IsHistory(Append(h, e))
             /\ Len(h) \in Nat /\ DOMAIN h = 1 .. Len(h)
             /\ DOMAIN Append(h, e) = 1 .. Len(h) + 1
             /\ Append(h, e)[Len(h) + 1] = e
             /\ \A k \in DOMAIN h : Append(h, e)[k] = h[k]
  <2>1. PICK S : h \in Seq(S)
    BY <1>3 DEF IsHistory
  <2>2. Len(h) \in Nat /\ h \in [1 .. Len(h) -> S]
    BY <2>1, LenProperties, ElementOfSeq
  <2> DEFINE T == S \cup {e}
  <2>3. h \in [1 .. Len(h) -> T]
    BY <2>2
  <2>4. h \in Seq(T) /\ e \in T
    BY <2>2, <2>3, SeqDef
  <2> HIDE DEF T
  <2>5. Append(h, e) \in Seq(T)
    BY <2>4, AppendProperties
  <2> QED BY <2>4, <2>5, AppendProperties, LenProperties DEF IsHistory
<1>4. ASSUME NEW p \in Procs, NEW k \in DOMAIN hist'[p], p = current
      PROVE  Old(p, k) \/ (k = Len(hist[p]) + 1 /\ hist'[p][k] = e)
  <2>1. hist'[p] = Append(hist[p], e) /\ IsHistory(hist[p])
    BY <1>1, <1>2, <1>4
  <2>2. k \in 1 .. Len(hist[p]) + 1 /\ Len(hist[p]) \in Nat /\ DOMAIN hist[p] = 1 .. Len(hist[p])
    BY <1>3, <1>4, <2>1
  <2> QED BY <1>3, <2>1, <2>2 DEF Old
<1>5. ASSUME NEW p \in Procs
      PROVE  IsHistory(hist'[p]) /\ (p # current => hist'[p] = hist[p])
  BY <1>1, <1>2, <1>3
<1>6. ASSUME NEW p \in Procs, NEW k \in DOMAIN hist'[p], p # current
      PROVE  Old(p, k)
  BY <1>1, <1>6 DEF Old
<1> QED BY <1>1, <1>4, <1>5, <1>6

\* A procedure that met no plan has met no other plans than before.
LEMMA MeetingIsOld ==
  ASSUME Shapes, current \in Procs, Meeting
  PROVE  /\ DOMAIN hist' = Procs
         /\ \A p \in Procs : IsHistory(hist'[p]) /\ (p # current => hist'[p] = hist[p])
         /\ \A p \in Procs : \A k \in DOMAIN hist'[p] : Planned(p, k)' => Old(p, k)
<1>1. CASE hist' = hist
  BY <1>1 DEF Shapes, Old
<1>2. CASE \E e : e.plan = 0 /\ Meets(e)
  <2>1. PICK e : e.plan = 0 /\ Meets(e)
    BY <1>2
  <2> QED BY <2>1, MeetsAppends DEF Planned
<1> QED BY <1>1, <1>2 DEF Meeting

\* The parts of the invariant that do not speak of plans
LEMMA IteratedKeeps ==
  ASSUME ProceduresSafe, Cycled, NEW s, Iterated(s), LoopStays,
         DOMAIN hist' = Procs,
         \A p \in Procs : IsHistory(hist'[p]) /\ (p # current => hist'[p] = hist[p]),
         plans' \in 0 .. MaxPlans, pending' \subseteq 1 .. plans'
  PROVE  Shapes' /\ Started' /\ RunPhases' /\ EndedStay' /\ Accounted'
<1> USE DEF LoopStays, started, runner
<1>1. /\ DOMAIN proc' = Procs /\ proc'[current] = s
      /\ \A p \in Procs : p # current => proc'[p] = proc[p]
      /\ current \in Procs
  BY DEF ProceduresSafe, Shapes, Iterated, Cycled
<1>2. Shapes'
  BY <1>1 DEF ProceduresSafe, Shapes, Iterated
<1>3. /\ next \in Nat /\ current # 0 /\ current \in running \ (todo \cup done)
      /\ current \in 1 .. next /\ current <= next
  <2>1. next \in Nat
    BY ProceduresAssumption, MaxIsNumber DEF ProceduresSafe, Shapes
  <2>2. current # 0
    BY <1>1, ProceduresAssumption, MaxIsNumber DEF Procs
  <2>3. current \in running \ (todo \cup done) /\ running \subseteq 1 .. next
    BY <2>2 DEF ProceduresSafe, RunPhases, Started
  <2> QED BY ONLY <2>1, <2>2, <2>3
<1>4. Started'
  <2>1. \A p \in Procs : p > next => p # current
    BY <1>3
  <2> QED BY <2>1 DEF ProceduresSafe, Started
<1>5. RunPhases'
  BY <1>3 DEF ProceduresSafe, RunPhases, Iterated
<1>6. EndedStay'
  <2>1. current' # 0 => proc'[current'].it # End
    BY <1>1 DEF Iterated
  <2>2. \A p \in Procs : proc'[p].tree = "null" \/ proc'[p].finished => proc'[p].it = End
    BY <1>1 DEF ProceduresSafe, EndedStay, Iterated
  <2>3. \A p \in done : p \in Procs /\ p # current
    BY <1>3, ProceduresAssumption, MaxIsNumber DEF ProceduresSafe, Shapes, Started, Procs
  <2>4. \A p \in done' : proc'[p].finished
    BY <1>1, <2>3 DEF ProceduresSafe, EndedStay
  <2> QED BY <2>1, <2>2, <2>4 DEF EndedStay
<1>7. current \in known \cup failures \cup results
  BY <1>1, <1>3 DEF ProceduresSafe, Accounted, Cycled, r, Started
<1>8. Accounted'
  <2> SUFFICES ASSUME NEW p \in 1 .. next
               PROVE  p \in known \cup failures \cup results \/ proc'[p].tree = "null"
    BY DEF Accounted
  <2>1. p \in Procs
    BY ProceduresAssumption, MaxIsNumber DEF Procs, ProceduresSafe, Shapes
  <2> QED BY <1>1, <1>7, <2>1 DEF ProceduresSafe, Accounted
<1> QED BY <1>2, <1>4, <1>5, <1>6, <1>8

LEMMA CycleKeeps == ASSUME ProceduresSafe, cycle, ~execSeqRunsOver PROVE ProceduresSafe'
<1>1. CycleStep
  BY CycleIsStep
<1>2. Cycled
  <2>1. current # 0
    BY DEF cycle, action_while, abortSequence, action_action_if, action_boolean_if,
      boolean_while, action_success, action_failure, return_success, repeat_n,
      procedure_call, Expression, builtin_action, execSeqRunsOver, Proceeds, Iterates
  <2> QED BY <2>1, SafeCycled
<1>3. LoopStays /\ current \in Procs
  BY <1>1, <1>2 DEF CycleStep, Cycled
<1>4. current \in running \ done /\ current # 0
  <2>1. current # 0
    BY <1>3, ProceduresAssumption, MaxIsNumber DEF Procs
  <2> QED BY <2>1 DEF ProceduresSafe, RunPhases
<1>5. /\ plans \in 0 .. MaxPlans /\ MaxPlans \in Nat /\ pending \subseteq 1 .. plans
      /\ \A p \in Procs : proc'[p] = proc[p] \/ p = current
  BY <1>1, ProceduresAssumption, MaxIsNumber DEF ProceduresSafe, Shapes, CycleStep, Walks, Wastes, Sends,
    Iterated
<1>6. ASSUME NEW p \in Procs, p = current, NEW k \in DOMAIN hist[p], p \notin mixed
      PROVE  ~Waits(p, k)
  BY <1>6 DEF ProceduresSafe, WaitsForLast
\* No plan is sent.
<1>7. ASSUME NEW s, Iterated(s), Meeting, pending' = pending, plans' = plans,
             mixed \subseteq mixed',
             \A p \in Procs : p \in running \ {current} /\ proc[p].begun /\ p \notin mixed'
                                => planID' = planID
      PROVE  ProceduresSafe'
  <2>1. /\ DOMAIN hist' = Procs
        /\ \A p \in Procs : IsHistory(hist'[p]) /\ (p # current => hist'[p] = hist[p])
        /\ \A p \in Procs : \A k \in DOMAIN hist'[p] :
             Planned(p, k)' => Old(p, k)
    BY <1>3, <1>7, MeetingIsOld DEF ProceduresSafe
  <2>2. Shapes' /\ Started' /\ RunPhases' /\ EndedStay' /\ Accounted'
    BY <1>2, <1>3, <1>5, <1>7, <2>1, IteratedKeeps
  <2>3. WaitsForLast'
    <3> SUFFICES ASSUME NEW p \in Procs, p \notin mixed', NEW k \in DOMAIN hist'[p],
                        Planned(p, k)', hist'[p][k].plan \in pending'
                 PROVE  /\ hist'[p][k].plan = planID' /\ p \in running' \ done' /\ p # current'
                        /\ proc'[p].begun /\ proc'[p].sent /\ ~proc'[p].finished
      BY DEF WaitsForLast, Waits, Planned
    <3>1. Old(p, k)
      BY <2>1
    <3>2. Waits(p, k) /\ k \in DOMAIN hist[p] /\ p \notin mixed
      BY <1>7, <3>1 DEF Old, Waits, Planned
    <3>3. p # current
      BY <1>6, <3>2
    <3>4. /\ hist[p][k].plan = planID /\ p \in running \ done
          /\ proc[p].begun /\ proc[p].sent /\ ~proc[p].finished
      BY <3>2 DEF ProceduresSafe, WaitsForLast
    <3>5. proc'[p] = proc[p] /\ planID' = planID
      BY <1>5, <1>7, <3>3, <3>4
    <3>6. p # 0
      BY ProceduresAssumption, MaxIsNumber DEF Procs
    <3> QED BY <1>3, <1>7, <3>1, <3>3, <3>4, <3>5, <3>6 DEF Old, LoopStays, started, Iterated
  <2>4. PlansDiffer'
    BY <1>5, <1>7, <2>1 DEF ProceduresSafe, PlansDiffer, Old, Planned
  <2> QED BY <2>2, <2>3, <2>4 DEF ProceduresSafe
<1>8. ASSUME NEW s, Walks(s) PROVE ProceduresSafe'
  BY <1>5, <1>7, <1>8 DEF Walks, NoPlan, world
<1>9. ASSUME NEW s, Wastes(s) PROVE ProceduresSafe'
  BY <1>5, <1>7, <1>9 DEF Wastes, Mixes
<1>10. ASSUME NEW s, Sends(s) PROVE ProceduresSafe'
  <2>1. PICK e : e.plan = plans + 1 /\ Meets(e)
    BY <1>10 DEF Sends
  <2>2. /\ DOMAIN hist' = Procs
        /\ \A p \in Procs : IsHistory(hist'[p]) /\ (p # current => hist'[p] = hist[p])
        /\ \A p \in Procs : \A k \in DOMAIN hist'[p] :
             \/ Old(p, k)
             \/ p = current /\ k = Len(hist[p]) + 1 /\ hist'[p][k] = e
    BY <1>3, <2>1, MeetsAppends DEF ProceduresSafe
  <2>3. /\ Iterated(s) /\ s.begun /\ s.sent /\ current' = 0 /\ Mixes
        /\ plans' = plans + 1 /\ plans' \in 0 .. MaxPlans /\ planID' = plans + 1
        /\ pending' = pending \cup {plans + 1} /\ pending' \subseteq 1 .. plans'
    <3>1. /\ Iterated(s) /\ s.begun /\ s.sent /\ current' = 0 /\ Mixes
          /\ plans < MaxPlans /\ plans' = plans + 1 /\ planID' = plans + 1
          /\ pending' = pending \cup {plans + 1}
      BY <1>10 DEF Sends
    <3>2. plans' \in 0 .. MaxPlans /\ pending' \subseteq 1 .. plans'
      BY ONLY <1>5, <3>1
    <3> QED BY <3>1, <3>2
  <2>4. Shapes' /\ Started' /\ RunPhases' /\ EndedStay' /\ Accounted'
    BY <1>2, <1>3, <2>2, <2>3, IteratedKeeps
  <2>5. PlansDiffer'
    <3> SUFFICES ASSUME NEW p \in Procs, NEW j \in DOMAIN hist'[p], NEW k \in DOMAIN hist'[p],
                        Planned(p, j)'
                 PROVE  /\ hist'[p][j].plan \in 1 .. plans'
                        /\ hist'[p][k].plan = hist'[p][j].plan => k = j
      BY DEF PlansDiffer, Planned
    <3>1. \A i \in DOMAIN hist'[p] : Planned(p, i)' =>
            \/ Old(p, i) /\ hist'[p][i].plan \in 1 .. plans
            \/ i = Len(hist[p]) + 1 /\ hist'[p][i].plan = plans + 1
      BY <2>1, <2>2 DEF ProceduresSafe, PlansDiffer, Old, Planned
    <3> QED BY <1>5, <2>3, <3>1 DEF ProceduresSafe, PlansDiffer, Old, Planned
  <2>6. WaitsForLast'
    <3> SUFFICES ASSUME NEW p \in Procs, p \notin mixed', NEW k \in DOMAIN hist'[p],
                        Planned(p, k)', hist'[p][k].plan \in pending'
                 PROVE  /\ hist'[p][k].plan = planID' /\ p \in running' \ done' /\ p # current'
                        /\ proc'[p].begun /\ proc'[p].sent /\ ~proc'[p].finished
      BY DEF WaitsForLast, Waits, Planned
    <3>0. p # 0 /\ p \notin mixed
      BY ProceduresAssumption, MaxIsNumber, <2>3 DEF Procs, Mixes
    <3>1. CASE Old(p, k)
      <4>1. k \in DOMAIN hist[p] /\ Planned(p, k) /\ hist[p][k].plan \in 1 .. plans
        BY <3>1 DEF ProceduresSafe, PlansDiffer, Old, Planned
      <4>2. Waits(p, k)
        BY <1>5, <2>3, <3>1, <4>1 DEF Waits, Planned, Old
      <4>3. p # current /\ p \in running /\ proc[p].begun
        BY <1>6, <3>0, <4>1, <4>2 DEF ProceduresSafe, WaitsForLast
      <4> QED BY <2>3, <4>3 DEF Mixes
    <3>2. CASE p = current /\ hist'[p][k] = e
      <4>1. proc'[p] = s
        BY <2>3, <3>2 DEF ProceduresSafe, Shapes, Iterated
      <4> QED BY <1>3, <1>4, <2>1, <2>3, <3>0, <3>2, <4>1 DEF LoopStays, started, Iterated
    <3> QED BY <2>2, <3>1, <3>2
  <2> QED BY <2>4, <2>5, <2>6 DEF ProceduresSafe
<1> QED BY <1>1, <1>8, <1>9, <1>10 DEF CycleStep

-----------------------------------------------------------------------------
(* The other steps                                                         *)

\* Procedure p waits for the world's answer, and for its own plan's.
Waiting(p) == p \notin mixed /\ \E k \in DOMAIN hist[p] : Waits(p, k)

\* A procedure that waits is neither ready nor finished.
LEMMA WaitingStays ==
  ASSUME ProceduresSafe, NEW p \in Procs, Waiting(p)
  PROVE  /\ p \in running \ done /\ p # current
         /\ proc[p].begun /\ proc[p].sent /\ ~proc[p].finished
         /\ ~isReady(proc[p]) /\ ~Finished(proc[p])
<1>1. PICK k \in DOMAIN hist[p] : Waits(p, k)
  BY DEF Waiting
<1>2. /\ hist[p][k].plan = planID /\ p \in running \ done /\ p # current
      /\ proc[p].begun /\ proc[p].sent /\ ~proc[p].finished
  BY <1>1 DEF Waiting, ProceduresSafe, WaitsForLast
<1>3. ~isPlanFinished
  BY <1>1, <1>2 DEF Waits, Planned, isPlanFinished
<1> QED BY <1>2, <1>3 DEF isReady, Finished

\* A step that sends no plan need only leave the waiting procedures alone.
LEMMA NoPlanKeeps ==
  ASSUME ProceduresSafe, UNCHANGED <<hist, planID, plans, mixed>>, pending' \subseteq pending,
         \A p \in Procs : Waiting(p) =>
           /\ p \in running' \ done' /\ p # current'
           /\ proc'[p].begun /\ proc'[p].sent /\ ~proc'[p].finished
  PROVE  WaitsForLast' /\ PlansDiffer'
<1>1. WaitsForLast'
  <2> SUFFICES ASSUME NEW p \in Procs, p \notin mixed, NEW k \in DOMAIN hist[p],
                      Planned(p, k), hist[p][k].plan \in pending'
               PROVE  /\ hist[p][k].plan = planID /\ p \in running' \ done' /\ p # current'
                      /\ proc'[p].begun /\ proc'[p].sent /\ ~proc'[p].finished
    BY DEF WaitsForLast, Waits, Planned
  <2>1. Waits(p, k)
    BY DEF Waits, Planned
  <2>2. Waiting(p)
    BY <2>1 DEF Waiting
  <2> QED BY <2>1, <2>2 DEF ProceduresSafe, WaitsForLast
<1>2. PlansDiffer'
  BY DEF ProceduresSafe, PlansDiffer, Planned
<1> QED BY <1>1, <1>2

\* Procedure p is left alone, asked whether it is finished, or stopped.
Stopped(q) == [q EXCEPT !.tree = "null", !.it = End]
Calm(p) == proc'[p] \in {proc[p], Asked(proc[p]), Stopped(proc[p])}

LEMMA CalmKeeps ==
  ASSUME ProceduresSafe, NEW p \in Procs, Calm(p)
  PROVE  /\ DOMAIN proc'[p] = Fields /\ IsProgram(proc'[p].prog)
         /\ proc'[p].begun = proc[p].begun /\ proc'[p].sent = proc[p].sent
         /\ proc[p].it = End => proc'[p].it = End
         /\ proc[p].tree = "null" => proc'[p].tree = "null"
         /\ proc'[p].tree = "null" \/ proc'[p].finished => proc'[p].it = End
         /\ proc'[p].finished => Finished(proc[p])
         /\ proc[p].finished => proc'[p].finished
<1> DEFINE q == proc[p]
<1>1. /\ DOMAIN q = Fields /\ IsProgram(q.prog)
      /\ q.tree = "null" \/ q.finished => q.it = End
  BY DEF ProceduresSafe, Shapes, EndedStay
<1>2. Finished(q) \in BOOLEAN /\ (q.finished => Finished(q)) /\ (Finished(q) => q.finished \/ q.it = End)
  BY DEF Finished
<1> HIDE DEF q
<1>3. LET a == Asked(q)
      IN  /\ DOMAIN a = Fields /\ a.prog = q.prog /\ a.begun = q.begun /\ a.sent = q.sent
          /\ a.it = q.it /\ a.tree = q.tree /\ a.finished = Finished(q)
  BY <1>1 DEF Asked, Fields
<1>4. LET a == Stopped(q)
      IN  /\ DOMAIN a = Fields /\ a.prog = q.prog /\ a.begun = q.begun /\ a.sent = q.sent
          /\ a.it = End /\ a.tree = "null" /\ a.finished = q.finished
  BY <1>1 DEF Stopped, Fields
<1>5. proc'[p] = q \/ proc'[p] = Asked(q) \/ proc'[p] = Stopped(q)
  BY DEF Calm, q
<1> HIDE DEF Asked, Stopped, Finished
<1>6. CASE proc'[p] = q
  BY <1>1, <1>2, <1>6 DEF q
<1>7. CASE proc'[p] = Asked(q)
  BY <1>1, <1>2, <1>3, <1>7 DEF q
<1>8. CASE proc'[p] = Stopped(q)
  BY <1>1, <1>2, <1>4, <1>8 DEF q
<1> QED BY <1>5, <1>6, <1>7, <1>8

\* Procedure p is started.
New(p) == p > next /\ \E t \in Schemas \cup ShellPrograms : proc'[p] = Fresh(t)

LEMMA FreshIsFresh ==
  ASSUME NEW t \in Schemas \cup ShellPrograms
  PROVE  /\ DOMAIN Fresh(t) = Fields /\ IsProgram(Fresh(t).prog)
         /\ Fresh(t).tree # "null" /\ ~Fresh(t).finished
BY ProceduresAssumption DEF Fresh, Fields

\* No procedure is cycled: they are asked, stopped, started or removed.
QuietProcs == DOMAIN proc' = Procs /\ \A p \in Procs : Calm(p) \/ New(p)
QuietWorld ==
  /\ UNCHANGED <<hist, planID, plans, mixed>> /\ pending' \subseteq pending
  /\ current = 0 /\ current' = 0
QuietStarts ==
  /\ next' \in Nat /\ next <= next' /\ next' <= MaxProcedures
  /\ next + 1 .. next' \subseteq known' /\ schema' \in 0 .. next'
QuietResults ==
  \A p \in known \cup failures \cup results :
    p \in known' \cup failures' \cup results' \/ proc'[p].tree = "null"
QuietSets ==
  /\ running \ done \subseteq running' /\ running' \subseteq 1 .. next'
  /\ known' \subseteq running' /\ todo' \subseteq running'
  /\ done' \subseteq done /\ done' \subseteq running' /\ todo' \cap done' = {}
  /\ phase' \in {"messages", "visit", "select", "visit again"}
  /\ phase' \notin Visits => done' = {}
Quiet == QuietProcs /\ QuietWorld /\ QuietStarts /\ QuietResults /\ QuietSets

LEMMA QuietKeeps == ASSUME ProceduresSafe, Quiet PROVE ProceduresSafe'
<1>1. /\ next \in Nat /\ MaxProcedures \in Nat /\ next' \in Nat
      /\ next <= next' /\ next <= MaxProcedures /\ next' <= MaxProcedures
  BY ProceduresAssumption, MaxIsNumber DEF ProceduresSafe, Shapes, Quiet, QuietStarts
<1>2. ASSUME NEW p \in Procs
      PROVE  /\ DOMAIN proc'[p] = Fields /\ IsProgram(proc'[p].prog)
             /\ proc'[p].tree = "null" \/ proc'[p].finished => proc'[p].it = End
  <2>1. CASE Calm(p)
    BY <2>1, CalmKeeps
  <2>2. CASE New(p)
    <3>1. PICK t \in Schemas \cup ShellPrograms : proc'[p] = Fresh(t)
      BY <2>2 DEF New
    <3> QED BY <3>1, FreshIsFresh
  <2> QED BY <2>1, <2>2 DEF Quiet, QuietProcs
<1>3. Shapes'
  BY <1>1, <1>2 DEF ProceduresSafe, Shapes, Quiet, QuietProcs, QuietWorld
<1>4. Started'
  <2>1. \A p \in Procs : p > next' => hist'[p] = << >>
    BY <1>1 DEF ProceduresSafe, Started, Quiet, QuietWorld, Procs
  <2> QED BY <2>1 DEF Started, Quiet, QuietSets, QuietStarts
<1>5. RunPhases'
  BY DEF RunPhases, Quiet, QuietSets, QuietWorld
<1>6. ASSUME NEW p \in 1 .. next PROVE p \in Procs /\ Calm(p)
  <2>1. p \in Procs /\ ~(p > next)
    BY <1>1 DEF Procs
  <2> QED BY <2>1 DEF Quiet, QuietProcs, New
<1>7. EndedStay'
  <2>1. \A p \in done' : proc'[p].finished
    BY <1>6, CalmKeeps DEF ProceduresSafe, Started, EndedStay, Quiet, QuietSets, QuietWorld
  <2> QED BY <1>2, <2>1 DEF EndedStay, Quiet, QuietSets, QuietWorld
<1>8. Accounted'
  <2> SUFFICES ASSUME NEW p \in 1 .. next'
               PROVE  p \in known' \cup failures' \cup results' \/ proc'[p].tree = "null"
    BY DEF Accounted
  <2>1. CASE p \in 1 .. next
    BY <1>6, <2>1, CalmKeeps DEF ProceduresSafe, Accounted, Quiet, QuietResults
  <2>2. CASE p \in next + 1 .. next'
    BY <2>2 DEF Quiet, QuietStarts
  <2> QED BY <1>1, <2>1, <2>2
<1>9. ASSUME NEW p \in Procs, Waiting(p)
      PROVE  /\ p \in running' \ done' /\ p # current'
             /\ proc'[p].begun /\ proc'[p].sent /\ ~proc'[p].finished
  <2>1. /\ p \in running \ done /\ p # current /\ proc[p].begun /\ proc[p].sent
        /\ ~Finished(proc[p])
    BY <1>9, WaitingStays
  <2>2. p \in 1 .. next
    BY <2>1 DEF ProceduresSafe, Started
  <2>3. Calm(p)
    BY <1>6, <2>2
  <2> QED BY <2>1, <2>3, CalmKeeps DEF Quiet, QuietSets, QuietWorld
<1>10. WaitsForLast' /\ PlansDiffer'
  BY <1>9, NoPlanKeeps DEF Quiet, QuietWorld
<1> QED BY <1>3, <1>4, <1>5, <1>7, <1>8, <1>10 DEF ProceduresSafe

LEMMA NextIsNumber ==
  ASSUME ProceduresSafe
  PROVE  /\ next \in Nat /\ next <= MaxProcedures /\ MaxProcedures \in Nat
         /\ next + 1 .. next = {} /\ next + 1 > next
<1>1. next \in 0 .. MaxProcedures /\ MaxProcedures \in Nat
  BY ProceduresAssumption, MaxIsNumber DEF ProceduresSafe, Shapes
<1> QED BY <1>1

\* Between two runs, and when an action is selected, nothing is cycled.
LEMMA AtRest ==
  ASSUME ProceduresSafe
  PROVE  /\ phase \in {"messages", "select"} => current = 0 /\ done = {}
         /\ running \subseteq 1 .. next /\ known \subseteq running /\ todo \subseteq running
         /\ done \subseteq running /\ todo \cap done = {} /\ schema \in 0 .. next
         /\ phase \in {"messages", "visit", "select", "visit again"}
         /\ DOMAIN proc = Procs
<1>1. phase \in {"messages", "select"} => current = 0 /\ done = {}
  BY DEF ProceduresSafe, RunPhases, Visits
<1> QED BY <1>1 DEF ProceduresSafe, Shapes, RunPhases, Started

LEMMA Numbers ==
  ASSUME ProceduresSafe
  PROVE  /\ \A p \in Procs : p # 0
         /\ \A p \in 1 .. next : p \in Procs /\ p # next + 1
         /\ \A p \in running : p \in 1 .. next
         /\ schema # 0 => schema \in 1 .. next
<1>1. next \in Nat /\ next <= MaxProcedures /\ MaxProcedures \in Nat
  BY NextIsNumber
<1>2. schema \in 0 .. next /\ running \subseteq 1 .. next
  BY AtRest
<1>3. \A p \in 1 .. next : p \in Procs /\ p # next + 1
  BY <1>1 DEF Procs
<1>4. \A p \in Procs : p # 0
  BY <1>1 DEF Procs
<1>5. schema # 0 => schema \in 1 .. next
  BY <1>1, <1>2
<1> QED BY <1>2, <1>3, <1>4, <1>5

LEMMA SameStarts == ASSUME ProceduresSafe, next' = next, schema' = schema PROVE QuietStarts
<1>1. schema' \in 0 .. next'
  BY AtRest
<1>2. next + 1 .. next' = {}
  BY NextIsNumber
<1>3. next' \in Nat /\ next <= next' /\ next' <= MaxProcedures
  BY NextIsNumber
<1> QED BY <1>1, <1>2, <1>3 DEF QuietStarts

\* Nothing is started, stopped or asked.
LEMMA LeftAlone ==
  ASSUME ProceduresSafe, UNCHANGED <<interpreter, schema>>
  PROVE  QuietProcs /\ QuietStarts /\ QuietResults
<1>1. QuietProcs
  BY AtRest DEF QuietProcs, Calm, interpreter, started
<1>2. QuietStarts
  BY SameStarts DEF interpreter, started
<1>3. QuietResults
  BY DEF QuietResults, interpreter, started
<1> QED BY <1>1, <1>2, <1>3

LEMMA StartRunKeeps == ASSUME ProceduresSafe, StartRun PROVE ProceduresSafe'
<1>1. QuietProcs /\ QuietStarts /\ QuietResults
  BY LeftAlone DEF StartRun, runner
<1>2. QuietWorld /\ QuietSets
  BY AtRest DEF StartRun, QuietWorld, QuietSets, interpreter, started, world, Visits
<1> QED BY <1>1, <1>2, QuietKeeps DEF Quiet

\* Time passes, or the world answers.
LEMMA ExpireKeeps ==
  ASSUME ProceduresSafe, Expire \/ \E i \in pending : ActionFails(i) \/ PlanEnds(i)
  PROVE  ProceduresSafe'
<1>1. /\ UNCHANGED <<interpreter, loop, planID, plans, schema, hist, mixed>>
      /\ pending' \subseteq pending /\ phase = "messages"
  BY DEF Expire, ActionFails, PlanEnds, world, runner
<1>2. QuietProcs /\ QuietStarts /\ QuietResults
  BY <1>1, LeftAlone
<1>3. QuietWorld /\ QuietSets
  BY <1>1, AtRest DEF QuietWorld, QuietSets, interpreter, started, loop, Visits
<1> QED BY <1>2, <1>3, QuietKeeps DEF Quiet

LEMMA ShellRunsKeeps ==
  ASSUME ProceduresSafe, Counted, NEW t \in ShellPrograms, ShellRuns(t)
  PROVE  ProceduresSafe'
<1>0. next < MaxProcedures
  BY ProceduresAssumption DEF Counted, ShellRuns, MaxProcedures
<1>1. /\ next < MaxProcedures /\ next' = next + 1
      /\ running' = running \cup {next + 1} /\ known' = known \cup {next + 1}
      /\ UNCHANGED <<failures, results, loop, world, runner, hist, mixed>>
      /\ phase = "messages"
  BY <1>0 DEF ShellRuns
<1>2. /\ DOMAIN proc' = Procs
      /\ \A p \in Procs : proc'[p] = IF p = next + 1 THEN Fresh(t) ELSE proc[p]
  BY AtRest DEF ShellRuns
<1>3. QuietProcs
  <2>1. next + 1 > next
    BY NextIsNumber
  <2> QED BY <1>2, <2>1 DEF QuietProcs, Calm, New
<1>4. QuietStarts
  BY <1>1, NextIsNumber, AtRest DEF QuietStarts, runner
<1>5. QuietResults
  BY <1>1 DEF QuietResults
<1>6. QuietWorld
  BY <1>1, AtRest DEF QuietWorld, world, loop
<1>7. QuietSets
  BY <1>1, NextIsNumber, AtRest DEF QuietSets, loop, Visits
<1> QED BY <1>3, <1>4, <1>5, <1>6, <1>7, QuietKeeps DEF Quiet

LEMMA EndRunKeeps == ASSUME ProceduresSafe, EndRun PROVE ProceduresSafe'
<1>1. /\ DOMAIN proc' = Procs
      /\ \A p \in Procs : proc'[p] = IF p \in known THEN Asked(proc[p]) ELSE proc[p]
  BY DEF EndRun, TakeResults
<1>2. QuietProcs
  BY <1>1 DEF QuietProcs, Calm
<1>3. \A p \in done : Finished(proc[p])
  BY DEF ProceduresSafe, EndedStay, Finished
<1>4. /\ known' = known \ {p \in known : Finished(proc[p])}
      /\ known \cup failures \cup results \subseteq known' \cup failures' \cup results'
  BY DEF EndRun, TakeResults
<1>5. /\ running' = running \ done /\ known' \subseteq running' /\ done' = {} /\ todo' = {}
      /\ phase' \in {"select", "messages"} /\ current = 0 /\ current' = 0
      /\ UNCHANGED <<next, schema, hist, mixed, planID, plans, pending>>
  BY <1>3, <1>4, AtRest DEF EndRun, world, runner, started
<1>6. QuietStarts
  BY <1>5, SameStarts
<1>7. QuietResults
  BY <1>4 DEF QuietResults
<1>8. QuietWorld /\ QuietSets
  BY <1>5, AtRest DEF QuietWorld, QuietSets
<1> QED BY <1>2, <1>6, <1>7, <1>8, QuietKeeps DEF Quiet

\* Visit goes on with a procedure that does not wait, or asks whether it is finished.
LEMMA VisitKeeps == ASSUME ProceduresSafe, NEW p \in Procs, Visit(p) PROVE ProceduresSafe'
<1>1. /\ current = 0 /\ p \in todo /\ phase \in Visits /\ todo' = todo \ {p}
      /\ UNCHANGED <<phase, running, known, failures, results, next, schema,
                     planID, plans, pending, hist, mixed>>
  BY DEF Visit, world, runner, started
<1>2. p \in running /\ p \notin done /\ p # 0
  BY <1>1, AtRest, Numbers
<1>3. CASE ~isReady(proc[p])
  <2>1. /\ proc' = [proc EXCEPT ![p] = Asked(@)] /\ current' = current
        /\ done' = IF Finished(proc[p]) THEN done \cup {p} ELSE done
    BY <1>3 DEF Visit
  <2>2. /\ DOMAIN proc' = Procs /\ proc'[p] = Asked(proc[p])
        /\ \A q \in Procs : q # p => proc'[q] = proc[q]
    BY <2>1, AtRest
  <2>3. \A q \in Procs : Calm(q)
    BY <2>2 DEF Calm
  <2>4. DOMAIN proc[p] = Fields
    BY DEF ProceduresSafe, Shapes
  <2>5. proc'[p].finished = Finished(proc[p])
    BY <2>2, <2>4 DEF Asked, Fields
  <2>6. Shapes' /\ Started'
    BY <1>1, <1>2, <2>1, <2>2, <2>3, CalmKeeps DEF ProceduresSafe, Shapes, Started
  <2>7. RunPhases'
    BY <1>1, <1>2, <2>1 DEF ProceduresSafe, RunPhases
  <2>8. EndedStay'
    <3>1. \A q \in done' : proc'[q].finished
      <4> SUFFICES ASSUME NEW q \in done' PROVE proc'[q].finished
        OBVIOUS
      <4>1. CASE q = p
        BY <1>2, <2>1, <2>5, <4>1
      <4>2. CASE q # p
        <5>1. q \in done /\ q \in 1 .. next
          BY <2>1, <4>2, AtRest
        <5>2. q \in Procs
          BY <5>1, NextIsNumber DEF Procs
        <5> QED BY <2>2, <4>2, <5>1, <5>2 DEF ProceduresSafe, EndedStay
      <4> QED BY <4>1, <4>2
    <3> QED BY <1>1, <2>1, <2>3, <3>1, CalmKeeps DEF EndedStay
  <2>9. Accounted'
    <3>1. \A q \in 1 .. next : q \in Procs
      BY NextIsNumber DEF Procs
    <3> QED BY <1>1, <2>3, <3>1, CalmKeeps DEF ProceduresSafe, Accounted
  <2>10. ASSUME NEW q \in Procs, Waiting(q)
         PROVE  /\ q \in running' \ done' /\ q # current'
                /\ proc'[q].begun /\ proc'[q].sent /\ ~proc'[q].finished
    <3>1. /\ q \in running \ done /\ q # current /\ proc[q].begun /\ proc[q].sent
          /\ ~Finished(proc[q])
      BY <2>10, WaitingStays
    <3> QED BY <1>1, <2>1, <2>3, <3>1, CalmKeeps
  <2> QED BY <1>1, <2>6, <2>7, <2>8, <2>9, <2>10, NoPlanKeeps DEF ProceduresSafe
<1>4. CASE isReady(proc[p])
  <2> DEFINE s == IF proc[p].inCompound
                  THEN moveOn([proc[p] EXCEPT !.inCompound = FALSE], isPlanFailed)
                  ELSE proc[p]
  <2>1. /\ proc' = [proc EXCEPT ![p] = s] /\ done' = done
        /\ current' = IF s.it = End THEN 0 ELSE p
    BY <1>4 DEF Visit
  <2>2. /\ DOMAIN proc[p] = Fields /\ proc[p].it # End /\ IsProgram(proc[p].prog)
        /\ ~proc[p].finished /\ proc[p].tree # "null"
    BY <1>4 DEF ProceduresSafe, Shapes, EndedStay, isReady
  <2>3. Keeps(proc[p], s)
    <3>1. Keeps(proc[p], [proc[p] EXCEPT !.inCompound = FALSE])
      BY <2>2 DEF Keeps, Fields
    <3> DEFINE q == [proc[p] EXCEPT !.inCompound = FALSE]
    <3> HIDE DEF q
    <3>2. Keeps(q, moveOn(q, isPlanFailed))
      BY <3>1, MoveOnKeeps DEF Keeps, q
    <3>3. Keeps(proc[p], moveOn(q, isPlanFailed))
      BY <3>1, <3>2 DEF Keeps, q
    <3>4. Keeps(proc[p], proc[p])
      BY <2>2 DEF Keeps
    <3> QED BY <3>3, <3>4 DEF q
  <2> HIDE DEF s
  <2>4. /\ DOMAIN proc' = Procs /\ proc'[p] = s
        /\ \A q \in Procs : q # p => proc'[q] = proc[q]
    BY <2>1, AtRest
  <2>5. Shapes'
    BY <1>1, <2>2, <2>3, <2>4 DEF ProceduresSafe, Shapes, Keeps
  <2>6. Started'
    BY <1>1, <2>1 DEF ProceduresSafe, Started
  <2>7. RunPhases'
    BY <1>1, <1>2, <2>1 DEF ProceduresSafe, RunPhases
  <2>8. EndedStay'
    <3>1. \A q \in done : q \in Procs /\ q # p
      BY <1>2, AtRest, Numbers
    <3>2. \A q \in done' : proc'[q].finished
      BY <2>1, <2>4, <3>1 DEF ProceduresSafe, EndedStay
    <3>3. ~s.finished /\ s.tree # "null"
      BY <2>2, <2>3 DEF Keeps
    <3> QED BY <2>1, <2>4, <3>2, <3>3 DEF ProceduresSafe, EndedStay
  <2>9. Accounted'
    <3>1. \A q \in 1 .. next : q \in Procs
      BY NextIsNumber DEF Procs
    <3> QED BY <1>1, <2>2, <2>4, <3>1 DEF ProceduresSafe, Accounted
  <2>10. ASSUME NEW q \in Procs, Waiting(q)
         PROVE  /\ q \in running' \ done' /\ q # current'
                /\ proc'[q].begun /\ proc'[q].sent /\ ~proc'[q].finished
    <3>1. /\ q \in running \ done /\ proc[q].begun /\ proc[q].sent /\ ~proc[q].finished
          /\ ~isReady(proc[q])
      BY <2>10, WaitingStays
    <3>2. q # p /\ q # 0
      BY <1>4, <3>1, ProceduresAssumption, MaxIsNumber DEF Procs
    <3> QED BY <1>1, <2>1, <2>4, <3>1, <3>2
  <2> QED BY <1>1, <2>5, <2>6, <2>7, <2>8, <2>9, <2>10, NoPlanKeeps DEF ProceduresSafe
<1> QED BY <1>3, <1>4

-----------------------------------------------------------------------------
(* Selecting                                                               *)

LEMMA StopIsCalm ==
  ASSUME NEW stops \in BOOLEAN, NEW p \in Procs
  PROVE  /\ Stop(stops)[p] \in {proc[p], Asked(proc[p]), Stopped(proc[p])}
         /\ stops /\ p = schema => Stop(stops)[p] = Stopped(proc[p])
BY DEF Stop, Stopped

LEMMA StoppedIsNull == ASSUME ProceduresSafe, NEW p \in Procs PROVE Stopped(proc[p]).tree = "null"
BY DEF Stopped, ProceduresSafe, Shapes, Fields

\* No procedure is started; the one selected before may be stopped.
LEMMA SelectKeeps ==
  ASSUME ProceduresSafe, NEW stops \in BOOLEAN, phase = "select", AfterSelect,
         proc' = Stop(stops), known' = IF stops THEN known \ {schema} ELSE known,
         todo' = running, UNCHANGED <<running, next, schema>>
  PROVE  ProceduresSafe'
<1>1. QuietProcs
  BY StopIsCalm DEF QuietProcs, Calm, Stop
<1>2. QuietStarts
  BY SameStarts
<1>3. QuietResults
  <2> SUFFICES ASSUME NEW p \in known \cup failures \cup results
               PROVE  p \in known' \cup failures' \cup results' \/ proc'[p].tree = "null"
    BY DEF QuietResults
  <2>1. CASE stops /\ p = schema /\ p \in known
    <3>1. p \in Procs
      BY <2>1, AtRest, NextIsNumber DEF Procs
    <3>2. proc'[p] = Stopped(proc[p])
      BY <2>1, <3>1, StopIsCalm
    <3> QED BY <3>1, <3>2, StoppedIsNull
  <2>2. CASE ~(stops /\ p = schema /\ p \in known)
    BY <2>2 DEF AfterSelect
  <2> QED BY <2>1, <2>2
<1>4. QuietWorld
  BY AtRest DEF QuietWorld, AfterSelect, world
<1>5. QuietSets
  BY AtRest DEF QuietSets, AfterSelect, Visits
<1> QED BY <1>1, <1>2, <1>3, <1>4, <1>5, QuietKeeps DEF Quiet

LEMMA SelectNothingKeeps == ASSUME ProceduresSafe, SelectNothing PROVE ProceduresSafe'
BY SelectKeeps DEF SelectNothing, Selects, started

LEMMA UnusableKeeps == ASSUME ProceduresSafe, runSchemaUnusable PROVE ProceduresSafe'
<1> DEFINE stops == executing /\ ~PIFinished(schema)
<1>1. stops \in BOOLEAN
  BY DEF PIFinished
<1>2. /\ phase = "select" /\ AfterSelect /\ todo' = running /\ UNCHANGED <<running, next, schema>>
      /\ known' = IF stops THEN known \ {schema} ELSE known
      /\ proc' = Stop(stops)
  BY DEF runSchemaUnusable, Selects, started
<1> HIDE DEF stops
<1> QED BY <1>1, <1>2, SelectKeeps

LEMMA RunSchemaKeeps ==
  ASSUME ProceduresSafe, Counted, NEW t \in Schemas, runSchema(t)
  PROVE  ProceduresSafe'
<1> DEFINE stops == executing /\ ~PIFinished(schema)
<1>1. stops \in BOOLEAN
  BY DEF PIFinished
<1>0. next < MaxProcedures
  BY ProceduresAssumption DEF Counted, runSchema, MaxProcedures
<1>2. /\ phase = "select" /\ AfterSelect /\ next < MaxProcedures /\ next' = next + 1
      /\ known' = (IF stops THEN known \ {schema} ELSE known) \cup {next + 1}
      /\ proc' = [Stop(stops) EXCEPT ![next + 1] = Fresh(t)]
      /\ running' = running \cup {next + 1} /\ todo' = running \cup {next + 1}
      /\ schema' = next + 1
  BY <1>0 DEF runSchema, Selects
<1> HIDE DEF stops
<1>3. /\ DOMAIN proc' = Procs
      /\ \A p \in Procs : proc'[p] = IF p = next + 1 THEN Fresh(t) ELSE Stop(stops)[p]
  BY <1>2 DEF Stop
<1>4. QuietProcs
  <2>1. next + 1 > next
    BY NextIsNumber
  <2>2. \A p \in Procs : p = next + 1 => New(p)
    BY <1>3, <2>1 DEF New
  <2>3. \A p \in Procs : p # next + 1 => Calm(p)
    BY <1>1, <1>3, StopIsCalm DEF Calm
  <2> QED BY <1>3, <2>2, <2>3 DEF QuietProcs
<1>5. QuietStarts
  BY <1>2, NextIsNumber DEF QuietStarts
<1>6. QuietResults
  <2> SUFFICES ASSUME NEW p \in known \cup failures \cup results
               PROVE  p \in known' \cup failures' \cup results' \/ proc'[p].tree = "null"
    BY DEF QuietResults
  <2>1. CASE stops /\ p = schema /\ p \in known
    <3>1. p \in Procs /\ p # next + 1
      BY <2>1, AtRest, Numbers
    <3>2. proc'[p] = Stopped(proc[p])
      BY <1>1, <1>3, <2>1, <3>1, StopIsCalm
    <3> QED BY <3>1, <3>2, StoppedIsNull
  <2>2. CASE ~(stops /\ p = schema /\ p \in known)
    BY <1>2, <2>2 DEF AfterSelect
  <2> QED BY <2>1, <2>2
<1>7. QuietWorld
  BY <1>2, AtRest DEF QuietWorld, AfterSelect, world
<1>8. QuietSets
  <2>1. running' \subseteq 1 .. next'
    BY <1>2, NextIsNumber, Numbers
  <2>2. phase' = "visit again" /\ done' = {} /\ done = {}
    BY <1>2, AtRest DEF AfterSelect
  <2>3. known' \subseteq running'
    BY <1>2, AtRest
  <2> QED BY <1>2, <2>1, <2>2, <2>3 DEF QuietSets, Visits
<1> QED BY <1>4, <1>5, <1>6, <1>7, <1>8, QuietKeeps DEF Quiet

-----------------------------------------------------------------------------
(* Theorems                                                                *)

LEMMA InitIsSafe == ASSUME Init PROVE ProceduresSafe
<1>1. DOMAIN Fresh(<< >>) = Fields /\ IsProgram(Fresh(<< >>).prog)
  BY DEF Fresh, Fields, IsProgram
<1>2. Fresh(<< >>).tree = "program" /\ Fresh(<< >>).finished = FALSE
  BY DEF Fresh
<1>3. Shapes
  <2>1. << >> \in Seq({})
    OBVIOUS
  <2>2. IsHistory(<< >>)
    BY <2>1 DEF IsHistory
  <2> QED BY <1>1, <2>2, ProceduresAssumption, MaxIsNumber DEF Init, Shapes
<1>4. Started /\ RunPhases /\ Accounted
  BY DEF Init, Started, RunPhases, Accounted
<1>5. EndedStay
  BY <1>2 DEF Init, EndedStay
<1>6. WaitsForLast /\ PlansDiffer
  BY DEF Init, WaitsForLast, PlansDiffer
<1> QED BY <1>3, <1>4, <1>5, <1>6 DEF ProceduresSafe

LEMMA StepIsSafe == ASSUME ProceduresSafe, Counted, [Next]_vars PROVE ProceduresSafe'
<1>1. CASE UNCHANGED <<interpreter, loop, world, runner, hist, mixed>>
  <2> USE <1>1 DEF interpreter, started, loop, world, runner, ProceduresSafe
  <2>1. Shapes' /\ Started'
    BY DEF Shapes, Started
  <2>2. RunPhases' /\ EndedStay' /\ Accounted'
    BY DEF RunPhases, EndedStay, Accounted
  <2>3. WaitsForLast' /\ PlansDiffer'
    BY DEF WaitsForLast, PlansDiffer, Waits, Planned
  <2> QED BY <2>1, <2>2, <2>3
<1>2. CASE Next /\ ~execSeqRunsOver
  BY <1>2, CycleKeeps, StartRunKeeps, VisitKeeps, EndRunKeeps, SelectNothingKeeps,
    RunSchemaKeeps, UnusableKeeps, ExpireKeeps, ShellRunsKeeps DEF Next, Round
<1>3. CASE execSeqRunsOver
  <2>1. UNCHANGED <<interpreter, loop, world, runner, hist, mixed>>
    BY <1>3 DEF execSeqRunsOver, NoPlan, LoopStays, interpreter, loop
  <2> QED BY <1>1, <2>1
<1>4. CASE UNCHANGED vars
  BY <1>1, <1>4 DEF vars
<1> QED BY <1>2, <1>3, <1>4

\* Only the RuleEngine and the shell start procedures.
LEMMA StepCounts == ASSUME Counted, [Next]_vars PROVE Counted'
<1>1. CASE UNCHANGED started
  BY <1>1 DEF Counted, started
<1>2. ASSUME NEW t \in Schemas, runSchema(t) PROVE Counted'
  BY <1>2, ProceduresAssumption DEF Counted, runSchema
<1>3. ASSUME NEW t \in ShellPrograms, ShellRuns(t) PROVE Counted'
  BY <1>3, ProceduresAssumption DEF Counted, ShellRuns
<1>4. CASE UNCHANGED vars
  BY <1>1, <1>4 DEF vars, interpreter
<1>5. ASSUME cycle PROVE UNCHANGED started
  BY <1>5 DEF cycle, action_while, abortSequence, action_action_if, action_boolean_if,
    boolean_while, action_success, action_failure, return_success, repeat_n,
    procedure_call, Expression, builtin_action, execSeqRunsOver, RestOfLoop, LoopStays
<1>6. ASSUME StartRun \/ (\E p \in Procs : Visit(p)) \/ EndRun \/ SelectNothing
             \/ runSchemaUnusable \/ Expire \/ \E i \in pending : ActionFails(i) \/ PlanEnds(i)
      PROVE  UNCHANGED started
  BY <1>6 DEF StartRun, Visit, EndRun, SelectNothing, runSchemaUnusable, Expire,
    ActionFails, PlanEnds, interpreter
<1> QED BY <1>1, <1>2, <1>3, <1>4, <1>5, <1>6 DEF Next, Round

LEMMA AlwaysCounted == ProceduresSpec => []Counted
<1>1. Init => Counted
  BY ProceduresAssumption DEF Init, Counted
<1> QED BY <1>1, StepCounts, PTL DEF ProceduresSpec

\* The inductive invariant: a procedure that waits for the world is the last that sent
\* a plan, or another one took its place in the wrapper; one that was started is known,
\* has a result or was stopped (ComboInterpreter::run, ProcedureInterpreter::run).
THEOREM ProceduresAlwaysSafe == ProceduresSpec => []ProceduresSafe
BY InitIsSafe, StepIsSafe, AlwaysCounted, PTL DEF ProceduresSpec

LEMMA SafeHasResult == ASSUME ProceduresSafe PROVE ResultIsThere
<1> SUFFICES ASSUME schema # 0, PIFinished(schema), proc[schema].tree # "null"
             PROVE  PIFailed(schema) \/ PIHasResult(schema)
  BY DEF ResultIsThere, ResultAsserted, NotesResult
<1>1. schema \in 1 .. next
  BY Numbers
<1>2. schema \in known \cup failures \cup results
  BY <1>1 DEF ProceduresSafe, Accounted
<1> QED BY <1>2 DEF PIFailed, PIHasResult

\* Whatever the programs are and however the world answers, the result of a schema
\* that is finished is there when SchemaRunner asks for it, unless it was stopped
\* (ProcedureInterpreter::getResult, SchemaRunner::updateSchemaExecutionStatus).
THEOREM ResultIsAlwaysThere == ProceduresSpec => []ResultIsThere
BY ProceduresAlwaysSafe, SafeHasResult, PTL

\* The OPC ends only where return_success asserts that nothing has failed before, where
\* execSeq runs over the end of its sequence because an argument is the null object, or
\* where the result of a schema is asked for that was stopped.
EndsKnown ==
  alive /\ ~alive' =>
    return_success \/ execSeqRunsOver \/ (schema # 0 /\ proc[schema].tree = "null")

\* The OPC does not end in any other way: getResult's assertions hold for every schema
\* that was not stopped (ProcedureInterpreter::getResult), whatever the programs are, in
\* whatever order procedures are visited and plans answered.
THEOREM OnlyKnownEnds == ProceduresSpec => [][EndsKnown]_vars
<1>1. ProceduresSafe /\ [Next]_vars => [EndsKnown]_vars
  <2> SUFFICES ASSUME ProceduresSafe, Next, alive, ~alive', ~return_success, ~execSeqRunsOver
               PROVE  schema # 0 /\ proc[schema].tree = "null"
    BY DEF EndsKnown
  <2>1. CASE SelectNothing
    <3>1. alive' = ResultAsserted
      BY <2>1 DEF SelectNothing
    <3>2. ~ResultAsserted
      BY <3>1
    <3> QED BY <3>2, SafeHasResult DEF ResultIsThere
  <2>2. CASE ~SelectNothing
    <3>1. alive' = alive
      BY <2>2 DEF Next, Round, cycle, action_while, abortSequence, action_action_if,
        action_boolean_if, boolean_while, action_success, action_failure, repeat_n,
        procedure_call, Expression, builtin_action, RestOfLoop, StartRun, Visit, EndRun,
        runSchema, runSchemaUnusable, Expire, ShellRuns, ActionFails, PlanEnds
    <3> QED BY <3>1
  <2> QED BY <2>1, <2>2
<1> QED BY <1>1, ProceduresAlwaysSafe, PTL DEF ProceduresSpec

LEMMA SafeHasOnePlan == ASSUME ProceduresSafe PROVE OnePlanAtATime
<1> SUFFICES ASSUME NEW p \in Procs \ mixed
             PROVE  Cardinality({k \in DOMAIN hist[p] : hist[p][k].plan \in pending}) <= 1
  BY DEF OnePlanAtATime
<1>0. {k \in DOMAIN hist[p] : hist[p][k].plan \in pending} = {k \in DOMAIN hist[p] : Waits(p, k)}
  BY DEF ProceduresSafe, Shapes, Waits, Planned
<1> DEFINE W == {k \in DOMAIN hist[p] : Waits(p, k)}
<1>1. \A j, k \in W : j = k
  BY DEF ProceduresSafe, WaitsForLast, PlansDiffer, Waits, Planned
<1> HIDE DEF W
<1>2. Cardinality(W) <= 1
  <2>1. CASE W = {}
    BY <2>1, FS_EmptySet
  <2>2. CASE W # {}
    <3>1. PICK k \in W : TRUE
      BY <2>2
    <3>2. W = {k}
      BY <1>1, <3>1
    <3>3. Cardinality(W) = 1
      BY <3>2, FS_Singleton
    <3> QED BY <3>3
  <2> QED BY <2>1, <2>2
<1> QED BY <1>0, <1>2 DEF W

\* A procedure has at most one plan in the world that is not answered, unless another
\* one's plan took the place of its own (RunningComboProcedure::isReady,
\* PAIWorldWrapper::isPlanFinished).
THEOREM AlwaysOnePlan == ProceduresSpec => []OnePlanAtATime
BY ProceduresAlwaysSafe, SafeHasOnePlan, PTL
=============================================================================
