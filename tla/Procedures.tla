------------------------------ MODULE Procedures ------------------------------
(***************************************************************************)
(* How an operational pet controller executes procedures.  The             *)
(* RuleEngine's SchemaRunner gives the ProcedureInterpreter one schema     *)
(* after another and stops one that takes too long; the combo shell may    *)
(* have others run beside it.  A combo program is a tree of actions; the   *)
(* ComboInterpreter walks it, sends an action plan to the virtual world    *)
(* and goes on when the world has answered, which may take for ever.  All  *)
(* procedures share one PAIWorldWrapper, which knows only the last plan.   *)
(* What the actions do, and what perceptions say, is left open.            *)
(***************************************************************************)
EXTENDS Naturals, Sequences, FiniteSets

CONSTANTS
  Schemas,        \* programs the RuleEngine may select
  ShellPrograms,  \* programs the combo shell may send
  AllowWalkingCancelation,
  Unusable,       \* the RuleEngine may select an action that cannot be run
  MaxSchemas, MaxShells, \* bounds: procedures started by the RuleEngine and the shell
  MaxPlans,       \* bound: plans sent
  MaxEvents       \* bound: what a procedure meets in the world

\* A program is the sequence of its nodes in preorder; the root is node 1.  An
\* "atomic" or "compound" node is a builtin action, "call" a procedure call that
\* cannot be expanded (the others are taken as expanded) and "expr" an
\* expression without actions; mishaps are what may go wrong with an action before
\* it is sent (see Outcomes): its argument is the "null" object, it cannot be built
\* ("unbuilt"), the router is away ("refused") or the way there is not found but the
\* rest of its plan is sent ("unwalked": heel, follow and nudge_to).
Ops == {"and", "if", "boolif", "while", "boolwhile", "repeat", "not", "success",
        "failure", "return", "atomic", "compound", "call", "expr"}
IsProgram(t) ==
  \A n \in DOMAIN t :
    /\ t[n].op \in Ops
    /\ t[n].times \in Nat
    /\ t[n].mishaps \subseteq {"unbuilt", "refused", "null", "unwalked"}
    /\ t[n].kids \in Seq(n + 1 .. Len(t))

ASSUME ProceduresAssumption ==
  /\ \A t \in Schemas \cup ShellPrograms : t # << >> /\ IsProgram(t)
  /\ AllowWalkingCancelation \in BOOLEAN /\ Unusable \in BOOLEAN
  /\ MaxSchemas \in Nat /\ MaxShells \in Nat /\ MaxPlans \in Nat /\ MaxEvents \in Nat

VARIABLES
  alive,       \* the OPC runs; an assertion that fails ends it
  phase,       \* which part of the server loop runs
  todo,        \* procedures the ComboInterpreter still visits in this run
  done,        \* those it found finished in this run
  current,     \* the procedure whose cycle() runs, or 0
  proc,        \* [procedure -> its RunningComboProcedure]
  running,     \* the ComboInterpreter's _map
  known,       \* the ProcedureInterpreter's _map
  failures, results, \* its _failed and _resultMap
  next, shells, \* procedures started, and how many of them by the shell
  planID, hasPlanFailed, \* the PAIWorldWrapper
  plans,       \* plans sent
  pending, failedPlans, \* the PAI's maps of the plans sent
  executing, schema, expired, \* the SchemaRunner: executingSchema, its ID and timeout
  reported,    \* [procedure -> what the RuleEngine noted as its result, or "none"]
  hist,        \* [procedure -> what it met in the world, in order]
  mixed        \* procedures that were running when another one sent a plan

started == <<next, shells>>
interpreter == <<proc, running, known, failures, results, started>>
loop == <<phase, todo, done, current>>
world == <<planID, hasPlanFailed, plans, pending, failedPlans>>
runner == <<executing, schema, expired, reported>>
vars == <<alive, interpreter, loop, world, runner, hist, mixed>>

MaxProcedures == MaxSchemas + MaxShells
Procs == 1 .. MaxProcedures
End == 0
\* The planID of the plans that are created and not sent.  Such a plan stays in the
\* PAI's map of plans in progress.
Unsent == MaxPlans + 1

\* A RunningComboProcedure that has not begun.  tree is "program", or the one
\* vertex that replaced it; broken are the nodes that became action_failure.
Fresh(t) == [prog |-> t, tree |-> "program", it |-> 1, begun |-> FALSE,
             sent |-> FALSE, failed |-> "ask", inCompound |-> FALSE,
             stack |-> << >>, broken |-> {}, finished |-> FALSE]

Init ==
  /\ alive = TRUE
  /\ phase = "messages" /\ todo = {} /\ done = {} /\ current = 0
  /\ proc = [p \in Procs |-> Fresh(<< >>)]
  /\ running = {} /\ known = {} /\ failures = {} /\ results = {}
  /\ next = 0 /\ shells = 0
  /\ planID = 0 /\ hasPlanFailed = FALSE /\ plans = 0
  /\ pending = {} /\ failedPlans = {}
  /\ executing = FALSE /\ schema = 0 /\ expired = FALSE
  /\ reported = [p \in Procs |-> "none"]
  /\ hist = [p \in Procs |-> << >>]
  /\ mixed = {}

-----------------------------------------------------------------------------
(* What the interpreter asks the PAI about its procedures. *)

isPlanFinished == planID # Unsent /\ planID \notin pending
isPlanFailed == hasPlanFailed \/ planID \in failedPlans

\* Mutant: a procedure does not wait for its plan.
isReadyAlways(r) == r.it # End
isReady(r) == r.it # End /\ (r.begun => isPlanFinished)
Finished(r) == r.finished \/ (r.it = End /\ (r.begun => ~r.sent \/ isPlanFinished))
\* isFailed with the wrapper's answer given
FailedIf(r, answer) == r.failed = "yes" \/ (r.failed = "ask" /\ r.begun /\ answer)
isFailed(r) == FailedIf(r, isPlanFailed)
\* isFinished remembers that it has been true.
Asked(r) == [r EXCEPT !.finished = Finished(r)]

-----------------------------------------------------------------------------
(* Walking the tree. *)

Op(r, n) == IF n \in r.broken THEN "failure" ELSE r.prog[n].op
Kids(r, n) == r.prog[n].kids
Kid(r, n, k) == Kids(r, n)[k]
LastKid(r, n) == Kid(r, n, Len(Kids(r, n)))
Parents(r, n) == {m \in DOMAIN r.prog : \E k \in DOMAIN Kids(r, m) : Kid(r, m, k) = n}
Parent(r, n) == IF Parents(r, n) = {} THEN End ELSE CHOOSE m \in Parents(r, n) : TRUE
Position(r, n) == CHOOSE k \in DOMAIN Kids(r, Parent(r, n)) : Kid(r, Parent(r, n), k) = n
InAnd(r, n) == Parent(r, n) # End /\ Op(r, Parent(r, n)) = "and"

Ancestors(r, n) ==  \* with n itself
  LET up[m \in 0 .. n] == IF m = End THEN {} ELSE {m} \cup up[Parent(r, m)] IN up[n]

\* Climbing from node n ends there: its parent says what is executed next.
Halts(r, n) ==
  LET par == Parent(r, n)
  IN  \/ par = End
      \/ Op(r, par) \in {"while", "boolwhile", "repeat"}
      \/ Op(r, par) = "and" /\ n # LastKid(r, par)
      \/ Op(r, par) = "if" /\ n = Kid(r, par, 1)

\* moveOn, when isPlanFailed would be answer: climbs from a node that has been
\* executed to the next one to execute.  Each action_not it leaves turns the result.
moveOn(r, answer) ==
  LET path == Ancestors(r, r.it)
      halts == {m \in path : Halts(r, m)}
      top == CHOOSE m \in halts : \A k \in halts : k <= m
      par == Parent(r, top)
      nots == Cardinality({m \in path : m > top /\ Op(r, Parent(r, m)) = "not"})
      fails == FailedIf(r, answer) # (nots % 2 = 1)
      s == [r EXCEPT !.it = par,
                     !.failed = IF nots = 0 THEN @ ELSE IF fails THEN "yes" ELSE "no"]
  IN  IF par = End \/ Op(r, par) \in {"while", "boolwhile"} THEN s ELSE
      CASE Op(r, par) = "and" -> [s EXCEPT !.it = Kid(r, par, Position(r, top) + 1)]
        [] Op(r, par) = "if" -> [s EXCEPT !.it = Kid(r, par, IF fails THEN 3 ELSE 2)]
        [] OTHER -> [s EXCEPT !.stack[1][2] = @ - 1]  \* repeat_n

\* The tree is replaced by one of its vertices, which has then been executed.
Becomes(r, vertex) == [r EXCEPT !.tree = vertex, !.it = End]
Fails(r) == [r EXCEPT !.failed = "yes", !.it = End]

-----------------------------------------------------------------------------
(* One iteration of the loop of cycle(), for the procedure it is running. *)

r == proc[current]
Event(e) == [e |-> e, plan |-> 0, upto |-> 0]
Meets(e) == /\ Len(hist[current]) < MaxEvents
            /\ hist' = [hist EXCEPT ![current] = Append(@, e)]

\* The loop goes on while there is a node to execute; some paths return.
Continue(s) == /\ proc' = [proc EXCEPT ![current] = s]
               /\ current' = IF s.it = End THEN 0 ELSE current
Return(s) == proc' = [proc EXCEPT ![current] = s] /\ current' = 0

Iterates(op) == alive /\ current # 0 /\ Op(r, r.it) = op
\* A failed plan aborts the sequence its node is in; only action_while goes first.
Proceeds(op) == Iterates(op) /\ ~(InAnd(r, r.it) /\ isFailed(r))
LoopStays == UNCHANGED <<phase, todo, done, running, known, failures, results, started,
                         runner>>
RestOfLoop == UNCHANGED alive /\ LoopStays
NoPlan == UNCHANGED <<world, mixed>>

action_while ==
  /\ Iterates("while")
  /\ Continue(IF isFailed(r) THEN moveOn([r EXCEPT !.failed = "no"], isPlanFailed)
                             ELSE [r EXCEPT !.it = Kid(r, r.it, 1)])
  /\ UNCHANGED hist /\ NoPlan /\ RestOfLoop

abortSequence ==
  /\ alive /\ current # 0 /\ Op(r, r.it) # "while" /\ InAnd(r, r.it) /\ isFailed(r)
  /\ Continue(moveOn([r EXCEPT !.it = LastKid(r, Parent(r, r.it))], isPlanFailed))
  /\ UNCHANGED hist /\ NoPlan /\ RestOfLoop

action_action_if ==
  /\ Proceeds("if") \/ Proceeds("not")
  /\ Continue([r EXCEPT !.it = Kid(r, r.it, 1)])
  /\ UNCHANGED hist /\ NoPlan /\ RestOfLoop

Perceptions == {"true", "false", "error"}

action_boolean_if ==
  /\ Proceeds("boolif")
  /\ \E v \in Perceptions :
       /\ Meets(Event(v))
       /\ IF v = "error" THEN Return(Fails(r))
          ELSE Continue([r EXCEPT !.it = Kid(r, r.it, IF v = "true" THEN 2 ELSE 3)])
  /\ NoPlan /\ RestOfLoop

boolean_while ==
  /\ Proceeds("boolwhile")
  /\ \/ /\ isFailed(r)
        /\ Continue(moveOn(r, isPlanFailed)) /\ UNCHANGED hist
     \/ /\ ~isFailed(r)
        /\ \E v \in Perceptions :
             /\ Meets(Event(v))
             /\ CASE v = "true" -> Continue([r EXCEPT !.it = Kid(r, r.it, 2)])
                  [] v = "false" -> Return(moveOn(r, isPlanFailed))
                  [] v = "error" -> Return(Fails(r))
  /\ NoPlan /\ RestOfLoop

action_success ==
  /\ Proceeds("success")
  /\ Continue(Becomes(r, "success"))
  /\ UNCHANGED hist /\ NoPlan /\ RestOfLoop

action_failure ==
  /\ Proceeds("failure")
  /\ Continue(Becomes([r EXCEPT !.failed = "yes"], "failure"))
  /\ IF r.it \in r.broken THEN Meets(Event("fail")) ELSE UNCHANGED hist
  /\ NoPlan /\ RestOfLoop

return_success ==
  /\ Proceeds("return")
  /\ alive' = (r.failed # "yes")
  /\ Return([r EXCEPT !.it = End])
  /\ UNCHANGED hist /\ NoPlan /\ LoopStays

\* The count is evaluated when the loop is entered, and kept on the stack.
repeat_n ==
  /\ Proceeds("repeat")
  /\ LET entered == r.stack # << >> /\ Head(r.stack)[1] = r.it
         s == IF entered THEN r
              ELSE [r EXCEPT !.stack = <<<<r.it, r.prog[r.it].times>>>> \o @]
     IN  Continue(IF Head(s.stack)[2] >= 1 THEN [s EXCEPT !.it = LastKid(s, s.it)]
                  ELSE moveOn([s EXCEPT !.stack = Tail(@)], isPlanFailed))
  /\ UNCHANGED hist /\ NoPlan /\ RestOfLoop

procedure_call ==
  /\ Proceeds("call")
  /\ Return(Fails(r))
  /\ UNCHANGED hist /\ NoPlan /\ RestOfLoop

\* Only a program without any action can be an expression; it becomes its value, which
\* is a boolean or something else.
Values == {"true", "false", "other"}

Expression ==
  /\ Proceeds("expr")
  /\ \/ r.begun /\ Return(Fails(r)) /\ UNCHANGED hist
     \/ ~r.begun /\ \E v \in Values : Continue(Becomes(r, v)) /\ Meets(Event(v))
  /\ NoPlan /\ RestOfLoop

-----------------------------------------------------------------------------
(* Sending a plan. *)

Mishaps(m) == r.prog[m].mishaps

\* A plan is sent as it should be; "cut", without the actions from the first on that
\* cannot be built; or "unwalked".
Sent == {"sent", "cut", "unwalked"}
\* isPlanFailed once a plan has been dealt with
FailedAfter(outcome) == outcome \in {"unbuilt", "unwalked"}

\* Mutant: the failure of an earlier plan is not forgotten.
sendSequential_andKeepsFailure(outcome) ==
  /\ hasPlanFailed' = (hasPlanFailed \/ FailedAfter(outcome))
  /\ IF outcome \in Sent
     THEN /\ plans < MaxPlans /\ plans' = plans + 1
          /\ planID' = plans + 1 /\ pending' = pending \cup {plans + 1}
     ELSE planID' = Unsent /\ UNCHANGED <<plans, pending>>
  /\ UNCHANGED failedPlans
  /\ mixed' = mixed \cup {q \in running \ {current} : proc[q].begun}
\* The wrapper forgets the plan before.
sendSequential_and(outcome) ==
  /\ hasPlanFailed' = FailedAfter(outcome)
  /\ IF outcome \in Sent
     THEN /\ plans < MaxPlans /\ plans' = plans + 1
          /\ planID' = plans + 1 /\ pending' = pending \cup {plans + 1}
     ELSE planID' = Unsent /\ UNCHANGED <<plans, pending>>
  /\ UNCHANGED failedPlans
  /\ mixed' = mixed \cup {q \in running \ {current} : proc[q].begun}

\* What the procedure meets: a plan stands for the actions up to node last, although
\* a "cut" one has not all of them.
PlanEvent(outcome, last) ==
  CASE outcome \in Sent -> [e |-> outcome, plan |-> plans + 1, upto |-> last]
    [] outcome = "unneeded" -> Event("ok")
    [] OTHER -> Event("fail")

\* beginCompound, and what cycle() makes of its answer; m is the compound action,
\* which is "unneeded" when the pet is where it should go.
Compound(m) ==
  \/ /\ "null" \in Mishaps(m)
     /\ Continue(moveOn([r EXCEPT !.it = m, !.failed = "yes"], isPlanFailed))
     /\ Meets(Event("fail")) /\ NoPlan
  \/ \E outcome \in {"sent", "unneeded"} \cup (Mishaps(m) \ {"null"}) :
       LET s == [r EXCEPT !.it = m, !.begun = TRUE, !.sent = (outcome \in Sent),
                          !.failed = IF outcome = "refused" THEN "yes" ELSE @]
       IN  /\ sendSequential_and(outcome) /\ Meets(PlanEvent(outcome, m))
           /\ CASE outcome \in Sent -> Return([s EXCEPT !.inCompound = TRUE])
                [] outcome \notin Sent /\ FailedIf(s, FailedAfter(outcome)) -> Return(s)
                [] OTHER -> Continue(moveOn(s, FailedAfter(outcome)))

\* The atomic actions that go into one plan: those from m on in its sequence.
Group(m) ==
  IF ~InAnd(r, m) THEN <<m>>
  ELSE LET kids == SubSeq(Kids(r, Parent(r, m)), Position(r, m), Len(Kids(r, Parent(r, m))))
           stops == {k \in DOMAIN kids : Op(r, kids[k]) # "atomic"}
           first == CHOOSE k \in stops : \A j \in stops : k <= j
       IN  IF stops = {} THEN kids ELSE SubSeq(kids, 1, first - 1)

\* A later action of the group may meet this mishap.
Later(g, mishap) == \E k \in 2 .. Len(g) : mishap \in Mishaps(g[k])

\* Without its first action a plan is empty, and fails.
Outcomes(g) == {"sent"} \cup (Mishaps(g[1]) \cap {"unbuilt", "refused"})
                        \cup (IF Later(g, "unbuilt") THEN {"cut"} ELSE {})

\* The first action becomes action_failure when its argument is the null object.  A
\* plan that is refused, or an action outside a sequence that cannot be built, is tried
\* again at once, for the last of the actions: the procedure has not met anything.
execSeq(g) ==
  LET s == [r EXCEPT !.begun = TRUE, !.failed = "ask"]
      last == g[Len(g)]
  IN  \/ /\ "null" \in Mishaps(g[1])
         /\ Continue([s EXCEPT !.it = g[1], !.broken = @ \cup {g[1]}])
         /\ UNCHANGED hist /\ NoPlan
      \/ \E outcome \in Outcomes(g) :
           LET t == [s EXCEPT !.it = last, !.sent = (outcome \in Sent)]
           IN  /\ sendSequential_and(outcome)
               /\ IF outcome = "refused" \/ (outcome = "unbuilt" /\ ~InAnd(r, last))
                  THEN UNCHANGED hist ELSE Meets(PlanEvent(outcome, last))
               /\ IF outcome \in Sent THEN Return(moveOn(t, FALSE)) ELSE Continue(t)

\* The action that is executed: an and_seq begins with its first child.
ToExecute == IF Op(r, r.it) = "and" THEN Kid(r, r.it, 1) ELSE r.it
EmptySequence == Op(r, r.it) = "and" /\ Kids(r, r.it) = << >>

builtin_action ==
  /\ Proceeds("and") \/ Proceeds("atomic") \/ Proceeds("compound")
  /\ IF EmptySequence
     THEN Return(moveOn(r, isPlanFailed)) /\ UNCHANGED hist /\ NoPlan
     ELSE CASE Op(r, ToExecute) = "compound" -> Compound(ToExecute)
            [] Op(r, ToExecute) = "atomic" -> execSeq(Group(ToExecute))
            [] OTHER -> Continue([r EXCEPT !.it = ToExecute]) /\ UNCHANGED hist /\ NoPlan
  /\ RestOfLoop

\* execSeq, when the argument of a later action of the group is the null object: the
\* end of the group is moved back behind the loop over it, which dereferences NULL.
execSeqRunsOver ==
  /\ Proceeds("and") \/ Proceeds("atomic")
  /\ ~EmptySequence /\ Op(r, ToExecute) = "atomic" /\ Later(Group(ToExecute), "null")
  /\ alive' = FALSE
  /\ UNCHANGED <<proc, current, hist>> /\ NoPlan /\ LoopStays

cycle == action_while \/ abortSequence \/ action_action_if \/ action_boolean_if
         \/ boolean_while \/ action_success \/ action_failure \/ return_success
         \/ repeat_n \/ procedure_call \/ Expression \/ builtin_action \/ execSeqRunsOver

-----------------------------------------------------------------------------
(* ComboInterpreter::run and ProcedureInterpreter::run; the interpreter's     *)
(* agent runs before and after the one that selects actions.                  *)

Visits == {"visit", "visit again"}

StartRun ==
  /\ alive /\ phase = "messages"
  /\ phase' = "visit" /\ todo' = running
  /\ UNCHANGED <<alive, done, current, interpreter, world, runner, hist, mixed>>

\* The order in which procedures are visited is left open (std::partition).  A
\* cycle first ends the compound action whose plan has been executed.
Visit(p) ==
  /\ alive /\ phase \in Visits /\ current = 0 /\ p \in todo
  /\ todo' = todo \ {p}
  /\ IF isReady(proc[p])
     THEN LET s == IF proc[p].inCompound
                   THEN moveOn([proc[p] EXCEPT !.inCompound = FALSE], isPlanFailed)
                   ELSE proc[p]
          IN  /\ proc' = [proc EXCEPT ![p] = s]
              /\ current' = IF s.it = End THEN 0 ELSE p
              /\ UNCHANGED done
     ELSE /\ proc' = [proc EXCEPT ![p] = Asked(@)]
          /\ done' = IF Finished(proc[p]) THEN done \cup {p} ELSE done
          /\ UNCHANGED current
  /\ UNCHANGED <<alive, phase, running, known, failures, results, started, world, runner,
                 hist, mixed>>

\* Mutant: only the procedures removed now hand over their results.
EndRunOnlyDone ==
  /\ alive /\ phase \in Visits /\ current = 0 /\ todo = {}
  /\ LET ended == {p \in known : Finished(proc[p])}
         bad == {p \in ended : isFailed(proc[p])}
     IN  /\ known' = known \ ended
         /\ failures' = failures \cup (bad \cap done)
         /\ results' = results \cup ((ended \ bad) \cap done)
         /\ proc' = [p \in Procs |-> IF p \in known THEN Asked(proc[p]) ELSE proc[p]]
  /\ running' = running \ done
  /\ done' = {}
  /\ phase' = IF phase = "visit" THEN "select" ELSE "messages"
  /\ UNCHANGED <<alive, todo, current, started, world, runner, hist, mixed>>
\* ProcedureInterpreter::run takes the results of all procedures finished now.
TakeResults ==
  LET ended == {p \in known : Finished(proc[p])}
      bad == {p \in ended : isFailed(proc[p])}
  IN  /\ known' = known \ ended
      /\ failures' = failures \cup bad
      /\ results' = results \cup (ended \ bad)
      /\ proc' = [p \in Procs |-> IF p \in known THEN Asked(proc[p]) ELSE proc[p]]

\* The procedures found finished are removed, before their results are taken.
EndRun ==
  /\ alive /\ phase \in Visits /\ current = 0 /\ todo = {}
  /\ TakeResults
  /\ running' = running \ done
  /\ done' = {}
  /\ phase' = IF phase = "visit" THEN "select" ELSE "messages"
  /\ UNCHANGED <<alive, todo, current, started, world, runner, hist, mixed>>

-----------------------------------------------------------------------------
(* The SchemaRunner, as the ActionSelectionAgent calls it.                    *)

\* ProcedureInterpreter::isFinished and isFailed
PIFinished(p) == p \notin known \/ Finished(proc[p])
PIFailed(p) == IF p \in known THEN Finished(proc[p]) /\ isFailed(proc[p]) ELSE p \in failures
PIHasResult(p) == p \in known \/ p \in results

\* updateSchemaExecutionStatus: the result of a schema that is finished is noted;
\* getResult asserts that there is one.
NotesResult == schema # 0 /\ PIFinished(schema)
ResultAsserted == NotesResult => PIFailed(schema) \/ PIHasResult(schema)
\* getResult of a procedure that has not failed, as the RuleEngine takes it: a value
\* other than an action's result and a boolean is not noted.
Verdict(q) ==
  CASE q.begun \/ q.tree \in {"success", "true"} -> "success"
    [] ~q.begun /\ q.tree = "false" -> "failure"
    [] ~q.begun /\ q.tree = "program" /\ Len(q.prog) > 1 -> "success"
    [] OTHER -> "none"
Note ==
  reported' = IF NotesResult /\ ResultAsserted
              THEN [reported EXCEPT ![schema] =
                      IF PIFailed(schema) THEN "failure" ELSE Verdict(proc[schema])]
              ELSE reported

\* Mutant: a schema that takes too long is waited for.
OverIfFinished == PIFinished(schema)
\* The schema that was executing is no longer waited for: it is finished, or it
\* takes too long and is stopped.
Over == PIFinished(schema) \/ expired

\* stopProcedure for the schema that executes; else isFinished has been asked.
Stop(stops) ==
  [p \in Procs |-> CASE p # schema -> proc[p]
                   [] p = schema /\ stops -> [proc[p] EXCEPT !.tree = "null", !.it = End]
                   [] OTHER -> Asked(proc[p])]

Selects == alive /\ phase = "select"
AfterSelect == /\ phase' = "visit again"
               /\ UNCHANGED <<done, current, failures, results, world, hist, mixed>>

\* No action is selected, the last one still executes, or there is no map yet and
\* runSchema returns at once.
SelectNothing ==
  /\ Selects
  /\ alive' = ResultAsserted /\ Note
  /\ proc' = Stop(FALSE)
  /\ todo' = running
  /\ UNCHANGED <<running, known, started, executing, schema, expired>> /\ AfterSelect

\* runSchema stops a walk that has to be planned again, and a schema that takes
\* too long, before it starts the next one ...
runSchema(t) ==
  /\ Selects /\ ResultAsserted /\ Note /\ UNCHANGED alive
  /\ executing => Over \/ AllowWalkingCancelation
  /\ next - shells < MaxSchemas
  /\ LET stops == executing /\ ~PIFinished(schema)
         new == next + 1
     IN  /\ next' = new /\ UNCHANGED shells
         /\ known' = (IF stops THEN known \ {schema} ELSE known) \cup {new}
         /\ proc' = [Stop(stops) EXCEPT ![new] = Fresh(t)]
         /\ running' = running \cup {new} /\ todo' = running \cup {new}
         /\ schema' = new /\ executing' = TRUE /\ expired' = FALSE
  /\ AfterSelect

\* ... and then may find that it cannot be started: there is no such schema or
\* rule, or the number of arguments is wrong.
runSchemaUnusable ==
  /\ Selects /\ ResultAsserted /\ Note /\ UNCHANGED alive
  /\ Unusable
  /\ executing => Over \/ AllowWalkingCancelation
  /\ LET stops == executing /\ ~PIFinished(schema)
     IN  /\ known' = IF stops THEN known \ {schema} ELSE known
         /\ proc' = Stop(stops)
  /\ executing' = (executing /\ ~Over)
  /\ todo' = running
  /\ UNCHANGED <<running, started, schema, expired>> /\ AfterSelect

Expire ==
  /\ alive /\ phase = "messages" /\ executing /\ ~expired
  /\ expired' = TRUE
  /\ UNCHANGED <<alive, interpreter, loop, world, executing, schema, reported, hist, mixed>>

-----------------------------------------------------------------------------
(* Messages, which the OPC processes between two rounds of its agents. *)

ShellRuns(t) ==
  /\ alive /\ phase = "messages" /\ shells < MaxShells
  /\ next' = next + 1 /\ shells' = shells + 1
  /\ proc' = [proc EXCEPT ![next + 1] = Fresh(t)]
  /\ running' = running \cup {next + 1} /\ known' = known \cup {next + 1}
  /\ UNCHANGED <<alive, failures, results, loop, world, runner, hist, mixed>>

\* The world says that an action of a plan failed, and that all are done or failed.
ActionFails(i) ==
  /\ alive /\ phase = "messages" /\ i \in pending
  /\ failedPlans' = failedPlans \cup {i}
  /\ UNCHANGED <<alive, interpreter, loop, planID, hasPlanFailed, plans, pending,
                 runner, hist, mixed>>

PlanEnds(i) ==
  /\ alive /\ phase = "messages" /\ i \in pending
  /\ pending' = pending \ {i}
  /\ UNCHANGED <<alive, interpreter, loop, planID, hasPlanFailed, plans, failedPlans,
                 runner, hist, mixed>>

Round == cycle \/ StartRun \/ (\E p \in Procs : Visit(p)) \/ EndRun \/ SelectNothing

Next ==
  \/ Round
  \/ (\E t \in Schemas : runSchema(t)) \/ runSchemaUnusable \/ Expire
  \/ \E t \in ShellPrograms : ShellRuns(t)
  \/ \E i \in pending : ActionFails(i) \/ PlanEnds(i)

\* The server's loop goes on: weak fairness of Round, which is enabled as long as
\* the OPC runs and the bounds are not reached (written out, as evaluating ENABLED for
\* it takes TLC very long).
LoopGoesOn == ([]<>~alive) \/ []<><<Round>>_vars

\* The RuleEngine selects an action again and again and time passes; the world need
\* not answer.
Fairness ==
  LoopGoesOn /\ SF_vars(\E t \in Schemas : runSchema(t)) /\ SF_vars(Expire)

ProceduresSpec == Init /\ [][Next]_vars /\ Fairness

-----------------------------------------------------------------------------
(* Properties. *)

\* A procedure has at most one plan the world has not answered: it waits for the
\* answer before it sends the next one (unless another procedure's plan took the
\* place of its own in the wrapper).
OnePlanAtATime ==
  \A p \in Procs \ mixed :
    Cardinality({k \in DOMAIN hist[p] : hist[p][k].plan \in pending}) <= 1

\* When a schema is said to be finished, its result is there: getResult's assertions
\* do not fail (the OPC ends where return_success asserts that nothing has failed, or
\* in execSeq).  The exception is a schema that was stopped when the next one then could
\* not be started: it counts as finished, without a result.
ResultIsThere == ResultAsserted \/ (schema # 0 /\ proc[schema].tree = "null")

\* Every schema is followed by another one: it finishes, or it is stopped when it takes
\* too long, even when the world never answers, a goto cannot be planned or another
\* procedure's plan is waited for.  The exception is a call of cycle() that never returns:
\* the router stays away and an atomic plan is sent again and again, an action outside a
\* sequence cannot be built, or boolean_while repeats a goto that is not needed.
SchemasEnd ==
  []<>(current = 0) =>
    \A n \in 1 .. MaxSchemas - 1 :
      (executing /\ next - shells = n) ~> (next - shells > n \/ ~alive)

=============================================================================
