---------------------------- MODULE MCCommandLine ----------------------------
(* Three runs with the agent layer, of at most two requests for each proxy. *)
EXTENDS CommandLine

AllReasons == {"converged", "budget_exhausted", "killswitch"}
=============================================================================
