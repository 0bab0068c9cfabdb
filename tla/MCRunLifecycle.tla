--------------------------- MODULE MCRunLifecycle ---------------------------
(***************************************************************************)
(* Instances of RunLifecycle for TLC.                                      *)
(***************************************************************************)
EXTENDS RunLifecycle

CONSTANTS r1, r2, i1

MCItemOf == [r \in Run |-> i1]

\* Every run builds, plans or manages a rollout.
MCBuild  == [r \in Run |-> "build"]
MCPlan   == [r \in Run |-> "plan"]
MCManage == [r \in Run |-> "manage"]
=============================================================================
