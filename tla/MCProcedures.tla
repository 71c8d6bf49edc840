---------------------------- MODULE MCProcedures ----------------------------
(***************************************************************************)
(* Programs for the procedures of an OPC, for TLC.                         *)
(***************************************************************************)
EXTENDS ProcedureMeaning

Node(op, kids) == [op |-> op, kids |-> kids, times |-> 0, mishaps |-> {}]
Leaf(op) == Node(op, << >>)
Act(op, mishaps) == [Leaf(op) EXCEPT !.mishaps = mishaps]
Loop(times, kids) == [Node("repeat", kids) EXCEPT !.times = times]

\* and_seq(a b follow and_seq() action_success)
Sequence == <<Node("and", <<2, 3, 4, 5, 6>>), Act("atomic", {"unbuilt", "null"}),
              Act("atomic", {"unbuilt", "null"}), Act("compound", {"unwalked", "null"}),
              Node("and", << >>), Leaf("success")>>
\* action_action_if(goto a action_not(goto))
Conditional == <<Node("if", <<2, 3, 4>>), Act("compound", {"unbuilt"}),
                 Act("atomic", {"unbuilt"}), Node("not", <<5>>), Act("compound", {"refused"})>>
\* action_boolean_if(perception and_seq(a b) boolean_while(perception goto))
Perceiving == <<Node("boolif", <<2, 3, 6>>), Leaf("expr"), Node("and", <<4, 5>>),
                Act("atomic", {"refused"}), Act("atomic", {"refused"}),
                Node("boolwhile", <<7, 8>>), Leaf("expr"), Leaf("compound")>>
\* and_seq(repeat_n(2 goto) action_while(and_seq(a))
\*         action_boolean_if(perception return_success call))
Looping == <<Node("and", <<2, 5, 8>>), Loop(2, <<3, 4>>), Leaf("expr"), Leaf("compound"),
             Node("while", <<6>>), Node("and", <<7>>), Leaf("atomic"),
             Node("boolif", <<9, 10, 11>>), Leaf("expr"), Leaf("return"), Leaf("call")>>

MCSchemas == {Sequence, Conditional, Perceiving, Looping, <<Leaf("expr")>>}
MCShell == {<<Leaf("atomic")>>}
=============================================================================
