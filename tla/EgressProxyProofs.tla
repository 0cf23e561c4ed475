-------------------------- MODULE EgressProxyProofs --------------------------
(***************************************************************************)
(* What the egress proxy guarantees for any number of connections, any     *)
(* limits and every interleaving of its handler threads.                   *)
(*                                                                         *)
(* OnlyPolicyTraffic speaks of the handlers inside the slot block only; it *)
(* is inductive once the same is known of the handlers on their way there. *)
(* SlotsAccounted and DialsPaidFor count handlers: a step moves one of     *)
(* them, and the lemmas of the first part say what that does to a count.   *)
(***************************************************************************)
EXTENDS EgressProxy, FiniteSetTheorems, TLAPS

\* A handler that was admitted, and one whose verb has been looked at: a CONNECT
\* by its own handler method, the others by method_allowed.
AdmittedStates == {"method", "body", "waiting"} \union Holding
CheckedStates == {"body", "waiting"} \union Holding

PolicyAhead ==
    \A c \in Conns :
        /\ pc[c] \in AdmittedStates => InScope(req[c].host)
        /\ pc[c] \in CheckedStates =>
              (req[c].method \notin SafeMethods \union {"CONNECT"} => AllowDestructive)

ProxyInv == TypeOK /\ SlotsAccounted /\ DialsPaidFor /\ PolicyAhead
-----------------------------------------------------------------------------
(* Counting handlers. *)

Bit(b) == IF b THEN 1 ELSE 0
In(S) == {c \in Conns : pc[c] \in S}
PendingStates == {"method", "body", "waiting"}

LEMMA Names == Holders = In(Holding) /\ Pending = In(PendingStates)
BY DEF Holders, Pending, In, PendingStates

\* Any set of handlers is finite.
LEMMA InFinite ==
    ASSUME NEW S
    PROVE  IsFiniteSet(In(S)) /\ Cardinality(In(S)) \in Nat
<1>1. IsFiniteSet(In(S))
  BY ProxyAssumption, FS_Subset DEF ProxyAssumption, In
<1> QED
  BY <1>1, FS_CardinalityType

\* A handler that goes from one place to another leaves the one count and joins
\* the other.
LEMMA Move ==
    ASSUME TypeOK, NEW S, NEW c \in Conns, NEW to, pc' = [pc EXCEPT ![c] = to]
    PROVE  Cardinality(In(S)') = Cardinality(In(S)) + Bit(to \in S) - Bit(pc[c] \in S)
<1>1. /\ to \in S => In(S)' = In(S) \cup {c}
      /\ to \notin S => In(S)' = In(S) \ {c}
      /\ c \in In(S) <=> pc[c] \in S
  BY DEF TypeOK, In
<1>2. /\ Cardinality(In(S) \cup {c}) =
            IF c \in In(S) THEN Cardinality(In(S)) ELSE Cardinality(In(S)) + 1
      /\ Cardinality(In(S) \ {c}) =
            IF c \in In(S) THEN Cardinality(In(S)) - 1 ELSE Cardinality(In(S))
  BY InFinite, FS_AddElement, FS_RemoveElement
<1>3. Cardinality(In(S)) \in Nat
  BY InFinite
<1>4. CASE to \in S
  <2>1. Cardinality(In(S)') = Cardinality(In(S) \cup {c})
    BY <1>1, <1>4
  <2> QED
    BY <1>1, <1>2, <1>3, <1>4, <2>1 DEF Bit
<1>5. CASE to \notin S
  <2>1. Cardinality(In(S)') = Cardinality(In(S) \ {c})
    BY <1>1, <1>5
  <2> QED
    BY <1>1, <1>2, <1>3, <1>5, <2>1 DEF Bit
<1> QED
  BY <1>4, <1>5

\* A place somebody is in has a count above zero.
LEMMA Occupied ==
    ASSUME NEW S, NEW c \in Conns, pc[c] \in S
    PROVE  Cardinality(In(S)) >= 1
<1>1. c \in In(S)
  BY DEF In
<1> QED
  BY <1>1, InFinite, FS_EmptySet
-----------------------------------------------------------------------------
(* What a step does to the counters.  There are six kinds of steps. *)

\* A handler goes on without touching a counter; it may enter or leave neither
\* the slot block nor, except to close, the way to it.
Quiet(c) ==
    \/ ClientCloses(c) \/ BodyRead(c) \/ BodyFails(c) \/ MethodRefused(c) \/ MethodPasses(c)
    \/ Connected(c) \/ ClientStalls(c) \/ ClientResumes(c) \/ Accept(c)
    \/ \E r \in Requests : Refuse(c, r) \/ RefuseByRate(c, r)

\* A handler leaves the slot block.
Leaves(c) == ConnectFails(c) \/ RelayEnds(c) \/ RelayTimesOut(c) \/ RelayBreaks(c)

LEMMA QuietMoves ==
    ASSUME TypeOK, NEW c \in Conns, Quiet(c)
    PROVE  /\ \E to \in States :
                 /\ pc' = [pc EXCEPT ![c] = to]
                 /\ to \in Holding <=> pc[c] \in Holding
                 /\ to \in PendingStates => pc[c] \in PendingStates
           /\ UNCHANGED <<count, slots, dialled>>
           /\ serving' \in BOOLEAN
           /\ req' \in [Conns -> Requests]
<1>0. NoRequest \in Requests
  BY DEF NoRequest, Requests, Methods, Hosts
<1> QED
  BY <1>0 DEF TypeOK, Quiet, ClientCloses, BodyRead, BodyFails, MethodRefused, MethodPasses,
              Connected, ClientStalls, ClientResumes, Accept, Refuse, RefuseByRate, Close, Goto,
              States, Holding, PendingStates

LEMMA LeavesMoves ==
    ASSUME TypeOK, NEW c \in Conns, Leaves(c)
    PROVE  /\ \E to \in {"closed", "reading"} : pc' = [pc EXCEPT ![c] = to]
           /\ pc[c] \in Holding
           /\ slots' = slots + 1
           /\ UNCHANGED <<count, dialled, serving>>
           /\ req' = [req EXCEPT ![c] = NoRequest]
BY DEF TypeOK, Leaves, ConnectFails, RelayEnds, RelayTimesOut, RelayBreaks, Close, Goto, Holding

LEMMA AdmitMoves ==
    ASSUME TypeOK, NEW c \in Conns, NEW r \in Requests, Admit(c, r)
    PROVE  /\ pc[c] = "reading"
           /\ \E to \in {"waiting", "method"} :
                 /\ pc' = [pc EXCEPT ![c] = to]
                 /\ to = "waiting" => r.method = "CONNECT"
           /\ req' = [req EXCEPT ![c] = r]
           /\ InScope(r.host)
           /\ count < MaxRequests /\ count' = count + 1
           /\ UNCHANGED <<slots, dialled, serving>>
BY DEF Admit, AdmitTo, Goto

LEMMA AcquireMoves ==
    ASSUME TypeOK, NEW c \in Conns, AcquireSlot(c)
    PROVE  /\ pc[c] = "waiting" /\ pc' = [pc EXCEPT ![c] = "connecting"]
           /\ slots > 0 /\ slots' = slots - 1
           /\ dialled' = dialled + 1
           /\ UNCHANGED <<req, count, serving>>
BY DEF AcquireSlot, Goto

\* Every step is of one of the kinds, or moves no handler.
LEMMA Kinds ==
    ASSUME [Next]_vars
    PROVE  \/ \E c \in Conns : Quiet(c) \/ Leaves(c) \/ AcquireSlot(c)
                                \/ \E r \in Requests : Admit(c, r)
           \/ UNCHANGED <<pc, req, count, slots, dialled>> /\ serving' \in {serving, FALSE}
<1>1. ASSUME NEW c \in Conns, Accept(c) \/ Handler(c)
      PROVE  \/ Quiet(c) \/ Leaves(c) \/ AcquireSlot(c)
             \/ \E r \in Requests : Admit(c, r)
  BY <1>1 DEF Handler, Quiet, Leaves
<1> QED
  BY <1>1 DEF Next, Stop, Tick, vars
-----------------------------------------------------------------------------
(* The invariant. *)

LEMMA ProxyInit == Init => ProxyInv
<1> SUFFICES ASSUME Init PROVE ProxyInv
  OBVIOUS
<1>1. Holders = {} /\ Pending = {}
  BY DEF Init, Holders, Holding, Pending
<1>2. SlotsAccounted /\ DialsPaidFor
  BY <1>1, FS_EmptySet, ProxyAssumption DEF Init, SlotsAccounted, DialsPaidFor, ProxyAssumption
<1>3. TypeOK
  BY ProxyAssumption
  DEF Init, TypeOK, ProxyAssumption, States, NoRequest, Requests, Methods, Hosts
<1>4. PolicyAhead
  BY DEF Init, PolicyAhead, AdmittedStates, CheckedStates, Holding
<1> QED
  BY <1>2, <1>3, <1>4 DEF ProxyInv

\* The counts of a state in which the invariant holds are natural numbers that
\* leave room for the counters.
LEMMA CountsBounded ==
    ASSUME ProxyInv
    PROVE  /\ Cardinality(In(Holding)) \in Nat
           /\ Cardinality(In(PendingStates)) \in Nat
           /\ slots + Cardinality(In(Holding)) = MaxConcurrency
           /\ dialled + Cardinality(In(PendingStates)) <= count
           /\ count \in Nat /\ slots \in Nat /\ dialled \in Nat
           /\ count <= MaxRequests
           /\ MaxRequests \in Nat /\ MaxConcurrency \in Nat
BY ProxyAssumption, InFinite, Names
DEF ProxyInv, TypeOK, SlotsAccounted, DialsPaidFor, ProxyAssumption

\* The accounts balance after every step.
LEMMA CountersStep ==
    ASSUME ProxyInv, [Next]_vars
    PROVE  /\ SlotsAccounted' /\ DialsPaidFor'
           /\ slots' \in 0 .. MaxConcurrency /\ count' \in 0 .. MaxRequests /\ dialled' \in Nat
<1> DEFINE h == Cardinality(In(Holding))
           p == Cardinality(In(PendingStates))
           h2 == Cardinality(In(Holding)')
           p2 == Cardinality(In(PendingStates)')
<1>1. SUFFICES /\ slots' + h2 = MaxConcurrency
               /\ dialled' + p2 <= count' /\ count' <= MaxRequests
               /\ slots' \in 0 .. MaxConcurrency /\ count' \in Nat /\ dialled' \in Nat
  <2>1. Cardinality(Holders)' = h2 /\ Cardinality(Pending)' = p2
    BY Names DEF In, Holders, Pending, PendingStates
  <2> QED
    BY <2>1, CountsBounded DEF SlotsAccounted, DialsPaidFor
<1>2. /\ h \in Nat /\ p \in Nat /\ slots + h = MaxConcurrency /\ dialled + p <= count
      /\ count \in Nat /\ slots \in Nat /\ dialled \in Nat /\ count <= MaxRequests
      /\ MaxRequests \in Nat /\ MaxConcurrency \in Nat
  BY CountsBounded
<1>3. TypeOK
  BY DEF ProxyInv
<1>4. ASSUME NEW c \in Conns, NEW to, pc' = [pc EXCEPT ![c] = to]
      PROVE  /\ h2 = h + Bit(to \in Holding) - Bit(pc[c] \in Holding)
             /\ p2 = p + Bit(to \in PendingStates) - Bit(pc[c] \in PendingStates)
  BY <1>3, <1>4, Move
<1> HIDE DEF h, p, h2, p2
<1>5. ASSUME NEW c \in Conns, Quiet(c)
      PROVE  /\ slots' + h2 = MaxConcurrency
             /\ dialled' + p2 <= count' /\ count' <= MaxRequests
             /\ slots' \in 0 .. MaxConcurrency /\ count' \in Nat /\ dialled' \in Nat
  <2>1. PICK to \in States : /\ pc' = [pc EXCEPT ![c] = to]
                             /\ to \in Holding <=> pc[c] \in Holding
                             /\ to \in PendingStates => pc[c] \in PendingStates
    BY <1>3, <1>5, QuietMoves
  <2>2. count' = count /\ slots' = slots /\ dialled' = dialled
    BY <1>3, <1>5, QuietMoves
  <2>3. /\ h2 = h + Bit(to \in Holding) - Bit(pc[c] \in Holding)
        /\ p2 = p + Bit(to \in PendingStates) - Bit(pc[c] \in PendingStates)
    BY <1>4, <2>1
  <2>4. h2 = h /\ p2 <= p /\ p2 \in Int
    BY <1>2, <2>1, <2>3 DEF Bit
  <2> QED
    BY <1>2, <2>2, <2>4
<1>6. ASSUME NEW c \in Conns, Leaves(c)
      PROVE  /\ slots' + h2 = MaxConcurrency
             /\ dialled' + p2 <= count' /\ count' <= MaxRequests
             /\ slots' \in 0 .. MaxConcurrency /\ count' \in Nat /\ dialled' \in Nat
  <2>1. PICK to \in {"closed", "reading"} : pc' = [pc EXCEPT ![c] = to]
    BY <1>3, <1>6, LeavesMoves
  <2>2. pc[c] \in Holding /\ slots' = slots + 1 /\ count' = count /\ dialled' = dialled
    BY <1>3, <1>6, LeavesMoves
  <2>3. h >= 1
    BY <2>2, Occupied DEF h
  <2>4. /\ to \notin Holding /\ to \notin PendingStates /\ pc[c] \notin PendingStates
    BY <2>1, <2>2 DEF Holding, PendingStates
  <2>5. /\ h2 = h + Bit(to \in Holding) - Bit(pc[c] \in Holding)
        /\ p2 = p + Bit(to \in PendingStates) - Bit(pc[c] \in PendingStates)
    BY <1>4, <2>1
  <2>6. h2 = h - 1 /\ p2 = p
    BY <1>2, <2>2, <2>4, <2>5 DEF Bit
  <2> QED
    BY <1>2, <2>2, <2>3, <2>6
<1>7. ASSUME NEW c \in Conns, AcquireSlot(c)
      PROVE  /\ slots' + h2 = MaxConcurrency
             /\ dialled' + p2 <= count' /\ count' <= MaxRequests
             /\ slots' \in 0 .. MaxConcurrency /\ count' \in Nat /\ dialled' \in Nat
  <2>1. /\ pc[c] = "waiting" /\ pc' = [pc EXCEPT ![c] = "connecting"]
        /\ slots > 0 /\ slots' = slots - 1 /\ dialled' = dialled + 1 /\ count' = count
    BY <1>3, <1>7, AcquireMoves
  <2>2. /\ h2 = h + Bit("connecting" \in Holding) - Bit(pc[c] \in Holding)
        /\ p2 = p + Bit("connecting" \in PendingStates) - Bit(pc[c] \in PendingStates)
    BY <1>4, <2>1
  <2>3. h2 = h + 1 /\ p2 = p - 1
    BY <1>2, <2>1, <2>2 DEF Bit, Holding, PendingStates
  <2> QED
    BY <1>2, <2>1, <2>3
<1>8. ASSUME NEW c \in Conns, NEW r \in Requests, Admit(c, r)
      PROVE  /\ slots' + h2 = MaxConcurrency
             /\ dialled' + p2 <= count' /\ count' <= MaxRequests
             /\ slots' \in 0 .. MaxConcurrency /\ count' \in Nat /\ dialled' \in Nat
  <2>1. PICK to \in {"waiting", "method"} : pc' = [pc EXCEPT ![c] = to]
    BY <1>3, <1>8, AdmitMoves
  <2>2. /\ pc[c] = "reading" /\ count < MaxRequests /\ count' = count + 1
        /\ slots' = slots /\ dialled' = dialled
    BY <1>3, <1>8, AdmitMoves
  <2>3. /\ to \notin Holding /\ to \in PendingStates
        /\ pc[c] \notin Holding /\ pc[c] \notin PendingStates
    BY <2>1, <2>2 DEF Holding, PendingStates
  <2>4. /\ h2 = h + Bit(to \in Holding) - Bit(pc[c] \in Holding)
        /\ p2 = p + Bit(to \in PendingStates) - Bit(pc[c] \in PendingStates)
    BY <1>4, <2>1
  <2>5. h2 = h /\ p2 = p + 1
    BY <1>2, <2>3, <2>4 DEF Bit
  <2> QED
    BY <1>2, <2>2, <2>5
<1>9. ASSUME UNCHANGED <<pc, req, count, slots, dialled>>
      PROVE  /\ slots' + h2 = MaxConcurrency
             /\ dialled' + p2 <= count' /\ count' <= MaxRequests
             /\ slots' \in 0 .. MaxConcurrency /\ count' \in Nat /\ dialled' \in Nat
  <2>1. h2 = h /\ p2 = p
    BY <1>9 DEF h, p, h2, p2, In
  <2> QED
    BY <1>2, <1>9, <2>1
<1> QED
  BY <1>5, <1>6, <1>7, <1>8, <1>9, Kinds

\* Every variable keeps its type.
LEMMA TypeStep ==
    ASSUME ProxyInv, [Next]_vars
    PROVE  TypeOK'
<1>1. slots' \in 0 .. MaxConcurrency /\ count' \in 0 .. MaxRequests /\ dialled' \in Nat
  BY CountersStep
<1>2. TypeOK
  BY DEF ProxyInv
<1>3. NoRequest \in Requests
  BY DEF NoRequest, Requests, Methods, Hosts
<1>4. ASSUME NEW c \in Conns, Quiet(c)
      PROVE  pc' \in [Conns -> States] /\ req' \in [Conns -> Requests] /\ serving' \in BOOLEAN
  BY <1>2, <1>4, QuietMoves DEF TypeOK
<1>5. ASSUME NEW c \in Conns, Leaves(c)
      PROVE  pc' \in [Conns -> States] /\ req' \in [Conns -> Requests] /\ serving' \in BOOLEAN
  BY <1>2, <1>3, <1>5, LeavesMoves DEF TypeOK, States
<1>6. ASSUME NEW c \in Conns, AcquireSlot(c)
      PROVE  pc' \in [Conns -> States] /\ req' \in [Conns -> Requests] /\ serving' \in BOOLEAN
  BY <1>2, <1>6, AcquireMoves DEF TypeOK, States
<1>7. ASSUME NEW c \in Conns, NEW r \in Requests, Admit(c, r)
      PROVE  pc' \in [Conns -> States] /\ req' \in [Conns -> Requests] /\ serving' \in BOOLEAN
  BY <1>2, <1>7, AdmitMoves DEF TypeOK, States
<1>8. pc' \in [Conns -> States] /\ req' \in [Conns -> Requests] /\ serving' \in BOOLEAN
  BY <1>2, <1>4, <1>5, <1>6, <1>7, Kinds DEF TypeOK
<1> QED
  BY <1>1, <1>8 DEF TypeOK

\* A handler gets ahead only with a request that the policy has let through.
LEMMA PolicyStep ==
    ASSUME ProxyInv, [Next]_vars
    PROVE  PolicyAhead'
<1>1. TypeOK /\ PolicyAhead
  BY DEF ProxyInv
<1> USE DEF PolicyAhead, AdmittedStates, CheckedStates, Holding
<1>2. ASSUME NEW c \in Conns, Quiet(c)
      PROVE  PolicyAhead'
  <2>1. CASE ClientCloses(c) \/ BodyFails(c) \/ MethodRefused(c)
    BY <1>1, <2>1 DEF TypeOK, ClientCloses, BodyFails, MethodRefused, Close, Goto
  <2>2. CASE \E r \in Requests : Refuse(c, r) \/ RefuseByRate(c, r)
    BY <1>1, <2>2 DEF TypeOK, Refuse, RefuseByRate, Close, Goto
  <2>3. CASE Accept(c)
    BY <1>1, <2>3 DEF TypeOK, Accept, Goto
  <2>4. CASE MethodPasses(c)
    BY <1>1, <2>4 DEF TypeOK, MethodPasses, MethodAllowed, Goto
  <2>5. CASE BodyRead(c) \/ Connected(c) \/ ClientStalls(c) \/ ClientResumes(c)
    BY <1>1, <2>5 DEF TypeOK, BodyRead, Connected, ClientStalls, ClientResumes, Goto
  <2> QED
    BY <1>2, <2>1, <2>2, <2>3, <2>4, <2>5 DEF Quiet
<1>3. ASSUME NEW c \in Conns, Leaves(c)
      PROVE  PolicyAhead'
  BY <1>1, <1>3, LeavesMoves DEF TypeOK
<1>4. ASSUME NEW c \in Conns, AcquireSlot(c)
      PROVE  PolicyAhead'
  BY <1>1, <1>4, AcquireMoves DEF TypeOK
<1>5. ASSUME NEW c \in Conns, NEW r \in Requests, Admit(c, r)
      PROVE  PolicyAhead'
  BY <1>1, <1>5, AdmitMoves DEF TypeOK, InScope
<1>6. ASSUME UNCHANGED <<pc, req>>
      PROVE  PolicyAhead'
  BY <1>1, <1>6
<1> QED
  BY <1>2, <1>3, <1>4, <1>5, <1>6, Kinds

\* The proxy's invariant: the types, both accounts, and the policy.
THEOREM ProxyInvariant == Spec => []ProxyInv
<1>1. ProxyInv /\ [Next]_vars => ProxyInv'
  BY CountersStep, TypeStep, PolicyStep DEF ProxyInv
<1> QED
  BY ProxyInit, <1>1, PTL DEF Spec

\* The variables keep their types: the semaphore stays between empty and full,
\* and the count within the kill-switch.
THEOREM ProxyTypes == Spec => []TypeOK
BY ProxyInvariant, PTL DEF ProxyInv

\* slot() of ProxyPolicy: free places and handlers inside always add up.
THEOREM NoSlotLeaks == Spec => []SlotsAccounted
BY ProxyInvariant, PTL DEF ProxyInv

\* check() of ProxyPolicy: the kill-switch bounds what leaves the proxy.
THEOREM KillswitchBoundsDials == Spec => []DialsPaidFor
BY ProxyInvariant, PTL DEF ProxyInv

\* The scope and the method allowlist hold of everything inside a slot.
THEOREM TrafficWithinPolicy == Spec => []OnlyPolicyTraffic
<1>1. ProxyInv => OnlyPolicyTraffic
  BY DEF ProxyInv, PolicyAhead, AdmittedStates, CheckedStates, OnlyPolicyTraffic, Holders
<1> QED
  BY <1>1, ProxyInvariant, PTL
-----------------------------------------------------------------------------
(* The proxy implements the gate. *)

\* A step of the proxy is a step of the gate or changes nothing of it.
LEMMA GateStep ==
    ASSUME ProxyInv, [Next]_vars
    PROVE  [Gate!Next]_(Gate!gateVars)
<1>1. TypeOK
  BY DEF ProxyInv
<1>2. ASSUME NEW c \in Conns, Quiet(c)
      PROVE  UNCHANGED Gate!gateVars
  <2>1. PICK to \in States : pc' = [pc EXCEPT ![c] = to] /\ (to \in Holding <=> pc[c] \in Holding)
    BY <1>1, <1>2, QuietMoves
  <2>2. Holders' = Holders
    BY <1>1, <2>1 DEF Holders, TypeOK
  <2> QED
    BY <1>1, <1>2, <2>2, QuietMoves DEF Gate!gateVars
<1>3. ASSUME NEW c \in Conns, Leaves(c)
      PROVE  Gate!HangUp(c)
  <2>1. PICK to \in {"closed", "reading"} : pc' = [pc EXCEPT ![c] = to]
    BY <1>1, <1>3, LeavesMoves
  <2>2. pc[c] \in Holding /\ count' = count /\ dialled' = dialled
    BY <1>1, <1>3, LeavesMoves
  <2>3. c \in Holders /\ Holders' = Holders \ {c}
    BY <1>1, <2>1, <2>2 DEF Holders, TypeOK, Holding
  <2> QED
    BY <2>2, <2>3 DEF Gate!HangUp
<1>4. ASSUME NEW c \in Conns, AcquireSlot(c)
      PROVE  Gate!Dial(c)
  <2>1. /\ pc[c] = "waiting" /\ pc' = [pc EXCEPT ![c] = "connecting"]
        /\ slots > 0 /\ dialled' = dialled + 1 /\ count' = count
    BY <1>1, <1>4, AcquireMoves
  <2>2. c \notin Holders /\ Holders' = Holders \cup {c}
    BY <1>1, <2>1 DEF Holders, TypeOK, Holding
  <2>3. dialled < count
    <3>1. Cardinality(In(PendingStates)) >= 1
      BY <2>1, Occupied DEF PendingStates
    <3> QED
      BY <3>1, CountsBounded
  <2>4. Cardinality(Holders) < MaxConcurrency
    BY <2>1, CountsBounded, Names
  <2> QED
    BY <2>1, <2>2, <2>3, <2>4 DEF Gate!Dial, Gate!Cardinality, Cardinality
<1>5. ASSUME NEW c \in Conns, NEW r \in Requests, Admit(c, r)
      PROVE  Gate!Admit
  <2>1. PICK to \in {"waiting", "method"} : pc' = [pc EXCEPT ![c] = to]
    BY <1>1, <1>5, AdmitMoves
  <2>2. pc[c] = "reading" /\ count < MaxRequests /\ count' = count + 1 /\ dialled' = dialled
    BY <1>1, <1>5, AdmitMoves
  <2>3. Holders' = Holders
    BY <1>1, <2>1, <2>2 DEF Holders, TypeOK, Holding
  <2> QED
    BY <2>2, <2>3 DEF Gate!Admit
<1>6. ASSUME UNCHANGED <<pc, req, count, slots, dialled>>
      PROVE  UNCHANGED Gate!gateVars
  BY <1>6 DEF Gate!gateVars, Holders
<1> QED
  BY <1>2, <1>3, <1>4, <1>5, <1>6, Kinds DEF Gate!Next

\* Whatever the interleaving, upstream connections are opened only against
\* admissions, and no more at once than the semaphore was made for.
THEOREM ProxyImplementsGate == Spec => GateSpec
<1>1. Init => Gate!Init
  BY DEF Init, Gate!Init, Holders, Holding
<1> QED
  BY <1>1, ProxyInvariant, GateStep, PTL DEF Spec, GateSpec, Gate!Spec
-----------------------------------------------------------------------------
(* The proxy's threads are callers of the limiter like any other. *)

LEMMA LimiterStep == [Next]_vars => [Limiter!Next]_(Limiter!vars)
<1> SUFFICES ASSUME [Next]_vars PROVE [Limiter!Next]_(Limiter!vars)
  OBVIOUS
<1>1. ASSUME NEW c \in Conns, Accept(c) \/ Handler(c)
      PROVE  Limiter!Grant \/ Limiter!Deny \/ UNCHANGED limiterVars
  <2>1. ASSUME NEW r \in Requests, Refuse(c, r) \/ RefuseByRate(c, r) \/ Admit(c, r)
        PROVE  Limiter!Grant \/ Limiter!Deny \/ UNCHANGED limiterVars
    BY <2>1 DEF Refuse, RefuseByRate, Admit
  <2> QED
    BY <1>1, <2>1 DEF Accept, Handler, ClientCloses, MethodRefused, MethodPasses, BodyRead,
           BodyFails, AcquireSlot, ConnectFails, Connected, ClientStalls, ClientResumes,
           RelayEnds, RelayTimesOut, RelayBreaks
<1> QED
  BY <1>1 DEF Next, Stop, Tick, vars, limiterVars, Limiter!Next, Limiter!vars

\* Admissions, seen from the bucket, are grants of the limiter.
THEOREM ProxyUsesLimiter == Spec => LimiterSpec
<1>1. Init => Limiter!Init
  BY DEF Init
<1> QED
  BY <1>1, LimiterStep, PTL DEF Spec, LimiterSpec, Limiter!Spec

\* What is proved of the limiter on its own, for the limiter inside the proxy.
Bucket == INSTANCE RateLimiterProofs

\* The rate ceiling holds of the proxy's admissions: in any window no more of
\* them than a full bucket and what has flowed in since the window began.
THEOREM AdmissionsRateBounded == Limiter!LimiterAssumption => (Spec => []Limiter!WindowBound)
<1> SUFFICES ASSUME Limiter!LimiterAssumption PROVE Spec => []Limiter!WindowBound
  OBVIOUS
<1>1. Limiter!Init => Bucket!Init
  BY DEF Limiter!Init, Bucket!Init, Limiter!Capacity, Bucket!Capacity
<1>2. [Limiter!Next]_(Limiter!vars) => [Bucket!Next]_(Bucket!vars)
  BY DEF Limiter!Next, Limiter!Tick, Limiter!Grant, Limiter!Deny, Limiter!Refilled,
         Limiter!Capacity, Limiter!Credit, Limiter!vars,
         Bucket!Next, Bucket!Tick, Bucket!Grant, Bucket!Deny, Bucket!Refilled,
         Bucket!Capacity, Bucket!Credit, Bucket!vars
<1>3. Bucket!WindowBound => Limiter!WindowBound
  BY DEF Limiter!WindowBound, Bucket!WindowBound, Limiter!Capacity, Bucket!Capacity,
         Limiter!Credit, Bucket!Credit
<1>4. Bucket!Spec => []Bucket!WindowBound
  BY Bucket!BurstBounded DEF Limiter!LimiterAssumption, Bucket!LimiterAssumption
<1> QED
  BY <1>1, <1>2, <1>3, <1>4, ProxyUsesLimiter, PTL DEF LimiterSpec, Limiter!Spec, Bucket!Spec
=============================================================================
