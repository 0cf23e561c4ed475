------------------------------ MODULE MCWebJobs ------------------------------
(***************************************************************************)
(* WebJobs with three jobs, one of them with the agent option, and one     *)
(* browser whose requests come one after the other.                        *)
(***************************************************************************)
EXTENDS WebJobs
CONSTANTS j1, j2, j3, v1
=============================================================================
