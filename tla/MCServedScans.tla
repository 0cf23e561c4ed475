---------------------------- MODULE MCServedScans ----------------------------
(* Two jobs, one with the agent layer, and a scan from the command line. *)
EXTENDS ServedScans

NoViewers == {}
=============================================================================
