---------------------------- MODULE AdmissionGate ----------------------------
(***************************************************************************)
(* What reconnaissance/adapters/egress.py promises, with nothing about     *)
(* handlers, sockets or tokens: upstream connections are opened only       *)
(* against admissions, admissions stop at the kill-switch, and only so     *)
(* many connections are open at once.                                      *)
(***************************************************************************)
EXTENDS Integers, FiniteSets

CONSTANTS Conns, MaxRequests, MaxConcurrency

VARIABLES
    admitted,  \* requests let through so far
    dialled,   \* upstream connections opened so far
    active     \* the connections that occupy a place now

gateVars == <<admitted, dialled, active>>

Init == admitted = 0 /\ dialled = 0 /\ active = {}

Admit ==
    /\ admitted < MaxRequests
    /\ admitted' = admitted + 1
    /\ UNCHANGED <<dialled, active>>

\* A connection takes a place and opens its upstream, against one admission.
Dial(c) ==
    /\ c \notin active
    /\ dialled < admitted
    /\ Cardinality(active) < MaxConcurrency
    /\ dialled' = dialled + 1
    /\ active' = active \union {c}
    /\ UNCHANGED admitted

HangUp(c) ==
    /\ c \in active
    /\ active' = active \ {c}
    /\ UNCHANGED <<admitted, dialled>>

Next == Admit \/ \E c \in Conns : Dial(c) \/ HangUp(c)

Spec == Init /\ [][Next]_gateVars
=============================================================================
