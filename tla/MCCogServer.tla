---------------------------- MODULE MCCogServer ----------------------------
(***************************************************************************)
(* Instances of the CogServer for TLC: one client enters shells and sends  *)
(* data, the other one works with agents and modules.  The class k1 has an *)
(* agent at the start, k2 has none, and no module registers k3.            *)
(***************************************************************************)
EXTENDS CogServer, TLC

CONSTANTS c1, c2, k1, k2, k3, m1, m2

MCRegisters == m1 :> k1 @@ m2 :> k2
MCFrequency == [k \in Kinds |-> 1]
MCInitially == <<k1>>

Plain(cmds) == cmds \X {None}
Administration == Plain({"blank", "agents-step-all", "agents-stop-loop", "exit", "shutdown"})
                  \cup {<<"agents-start", k2>>, <<"agents-start", k3>>, <<"agents-stop", k1>>,
                        <<"agents-step", k1>>, <<"agents-step", k2>>, <<"agents-step", k3>>,
                        <<"loadmodule", m1>>, <<"unloadmodule", m1>>}
ShellAndData == c1 :> <<Plain({"scm", "data", "eot"}), Plain({"eot"})>> @@
                c2 :> <<Administration>>
=============================================================================
