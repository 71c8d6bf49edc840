--------------------------- MODULE ProcedureMeaning ---------------------------
(***************************************************************************)
(* What the programs of Procedures mean, by recursion over their nodes,    *)
(* and that the result the RuleEngine notes is that meaning.               *)
(***************************************************************************)
EXTENDS Procedures

-----------------------------------------------------------------------------
(* What a program means, given what it met in the world: the events left and  *)
(* "ok", "fail", or "end ok" and "end fail" when the whole program is over.   *)

Resolved(h) == [k \in DOMAIN h |->
  IF h[k].plan = 0 THEN h[k] ELSE
  [h[k] EXCEPT !.e = IF @ = "unwalked" \/ h[k].plan \in failedPlans THEN "fail" ELSE "ok"]]

Value(v, rest) == [v |-> v, rest |-> rest]

RECURSIVE Meaning(_, _, _), MeaningFrom(_, _, _, _), Repeated(_, _, _, _)
\* The meaning of node n
Meaning(t, n, h) ==
  LET kids == t[n].kids
      more == h # << >>
      first(k) == Meaning(t, kids[k], h)
  IN
  CASE t[n].op = "and" -> MeaningFrom(t, kids, 1, h)
    [] t[n].op \in {"atomic", "compound"} ->
         IF more THEN Value(Head(h).e, Tail(h)) ELSE Value("end fail", << >>)
    [] t[n].op = "if" ->
         IF first(1).v \in {"ok", "fail"}
         THEN Meaning(t, kids[IF first(1).v = "ok" THEN 2 ELSE 3], first(1).rest)
         ELSE first(1)
    [] t[n].op = "boolif" ->
         IF ~more \/ Head(h).e = "error" THEN Value("end fail", IF more THEN Tail(h) ELSE h)
         ELSE Meaning(t, kids[IF Head(h).e = "true" THEN 2 ELSE 3], Tail(h))
    [] t[n].op = "not" ->
         IF first(1).v \in {"ok", "fail"}
         THEN Value(IF first(1).v = "ok" THEN "fail" ELSE "ok", first(1).rest)
         ELSE first(1)
    [] t[n].op = "while" ->
         CASE first(1).v = "fail" -> Value("ok", first(1).rest)
           [] first(1).v = "ok" -> Meaning(t, n, first(1).rest)
           [] OTHER -> first(1)
    [] t[n].op = "boolwhile" ->
         IF ~more \/ Head(h).e = "error" THEN Value("end fail", IF more THEN Tail(h) ELSE h)
         ELSE IF Head(h).e = "false" THEN Value("ok", Tail(h))
         ELSE LET body == Meaning(t, kids[2], Tail(h))
              IN  IF body.v = "ok" THEN Meaning(t, n, body.rest) ELSE body
    [] t[n].op = "repeat" -> Repeated(t, kids[Len(kids)], t[n].times, Value("ok", h))
    [] t[n].op = "expr" ->
         IF more THEN Value(IF Head(h).e = "true" THEN "end ok" ELSE "end fail", Tail(h))
         ELSE Value("end fail", h)
    [] t[n].op = "success" -> Value("ok", h)
    [] t[n].op = "failure" -> Value("fail", h)
    [] t[n].op = "return" -> Value("end ok", h)
    [] t[n].op = "call" -> Value("end fail", h)
\* The meaning of a sequence from its k-th node on: a plan stands for several actions.
MeaningFrom(t, kids, k, h) ==
  IF k > Len(kids) THEN Value("ok", h) ELSE
  LET one == Meaning(t, kids[k], h)
      after == IF t[kids[k]].op = "atomic" /\ h # << >> /\ Head(h).plan # 0
               THEN CHOOSE j \in DOMAIN kids : kids[j] = Head(h).upto ELSE k
  IN  IF one.v = "ok" THEN MeaningFrom(t, kids, after + 1, one.rest) ELSE one
Repeated(t, n, times, before) ==
  IF times = 0 \/ before.v \in {"end ok", "end fail"} THEN before
  ELSE Repeated(t, n, times - 1, Meaning(t, n, before.rest))

-----------------------------------------------------------------------------
\* What the RuleEngine notes about a schema is what the program means, given how the
\* world answered its own plans, and the program did just what it means: although
\* earlier schemas were stopped, their answers come late and other plans fail.  A plan
\* counts for all the actions of its group: that some could not be built, or were left
\* out when the router was away, is not noticed.  The exception are schemas that ran
\* while another procedure sent a plan: they share one wrapper
\* (PAIWorldWrapper::_planID).
ResultIsMeaning ==
  \A p \in Procs :
    (reported[p] # "none" /\ p \notin mixed) =>
      LET m == Meaning(proc[p].prog, 1, Resolved(hist[p]))
      IN  /\ m.rest = << >>
          /\ (reported[p] = "success") = (m.v \in {"ok", "end ok"})

=============================================================================
