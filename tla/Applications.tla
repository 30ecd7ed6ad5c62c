----------------------------- MODULE Applications -----------------------------
(***************************************************************************)
(* What is built on the libraries: the clients of the ledger, and the command*)
(* line tools.  They run in processes of their own and share nothing, so that*)
(* a behaviour is an application or a tool.                                 *)
(***************************************************************************)
EXTENDS Clients, Tooling

vars == <<clientVars, toolVars>>

Init ==
    /\ \/ app \in Apps /\ NoTool
       \/ app = "none" /\ ToolingInit
    /\ ClientsInit

Next ==
    \/ ClientsNext /\ UNCHANGED toolVars
    \/ ToolingNext /\ UNCHANGED clientVars

Spec == Init /\ [][Next]_vars
=============================================================================
