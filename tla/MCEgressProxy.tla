---------------------------- MODULE MCEgressProxy ----------------------------
(***************************************************************************)
(* EgressProxy with three tools' connections sharing one policy: two       *)
(* places, three requests of budget, two tokens of burst.                  *)
(***************************************************************************)
EXTENDS EgressProxy

CONSTANTS c1, c2, c3

=============================================================================
