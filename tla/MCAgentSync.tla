---------------------------- MODULE MCAgentSync -----------------------------
(***************************************************************************)
(* Directives and workers for AgentSync.                                   *)
(***************************************************************************)
EXTENDS AgentSync, TLC

MCPushers == 1 .. MaxPods + MaxFaults
MCDirectives == [kind : {"DESIRED_STATE", "DESIRED_DELTA"}, gen : 1 .. MaxGen]
=============================================================================
