----------------------------- MODULE MCAgentLoop -----------------------------
(***************************************************************************)
(* AgentLoop with one reference in scope, one out of it and a malformed    *)
(* one, at most three calls, and replies of at most two.                   *)
(***************************************************************************)
EXTENDS AgentLoop
CONSTANTS api, cdn, broken
=============================================================================
