----------------------------- MODULE EgressProxy -----------------------------
(***************************************************************************)
(* The forward proxy of reconnaissance/adapters/egress.py: ProxyPolicy     *)
(* (scope, kill-switch, rate limit, concurrency slots) and the handler     *)
(* threads of EgressProxy, one per client connection, which share it.      *)
(*                                                                         *)
(* A connection c is a tool's TCP connection; pc[c] is where its handler   *)
(* thread stands.  Every step between two points at which another thread   *)
(* can be scheduled is an action of its own: the policy check (one lock),  *)
(* the method check, the body, the semaphore, the dial, the relay.         *)
(***************************************************************************)
EXTENDS Integers, Sequences, FiniteSets

CONSTANTS
    Conns,            \* client connections, one handler thread each
    TargetHost,       \* Scope.target_host
    PassiveSources,   \* Scope.passive_sources
    OtherHosts,       \* hosts outside the scope that a request may name
    NoHost,           \* the empty host of a malformed request
    AllowDestructive, \* ProxyPolicy(allow_destructive=...)
    MaxRequests, MaxConcurrency,
    Token, RefillPerTick, TicksPerSecond, MaxClock

ASSUME ProxyAssumption ==
    /\ IsFiniteSet(Conns)
    /\ MaxRequests \in Nat
    /\ MaxConcurrency \in Nat \ {0}
    /\ AllowDestructive \in BOOLEAN
    /\ TargetHost # NoHost
    /\ NoHost \notin PassiveSources

VARIABLES
    pc,       \* where the handler thread of each connection stands
    req,      \* the request it is working on
    count,    \* ProxyPolicy._count
    slots,    \* free places of ProxyPolicy._slots
    serving,  \* the accept loop runs
    dialled,  \* history: upstream connections attempted so far
    tokens, last, now, grants  \* the limiter's (RateLimiter)

limiterVars == <<tokens, last, now, grants>>
vars == <<pc, req, count, slots, serving, dialled, limiterVars>>

Limiter == INSTANCE RateLimiter

-----------------------------------------------------------------------------
(* Requests: a method of each class the code tells apart, and a host. *)
Methods == {"CONNECT", "GET", "POST"}
SafeMethods == {"GET"}
Hosts == {TargetHost, NoHost} \union PassiveSources \union OtherHosts
Requests == [method : Methods, host : Hosts]
NoRequest == [method |-> "GET", host |-> NoHost]

States == {"none", "reading", "method", "body", "waiting",
           "connecting", "relaying", "stalled", "closed"}

\* Inside the `with slot()` block.
Holding == {"connecting", "relaying", "stalled"}
Holders == {c \in Conns : pc[c] \in Holding}

InScope(host) == host = TargetHost \/ host \in PassiveSources

\* A slip: every verb the handler has a do_ method for is let through.
MethodImplemented(m) == m \in Methods

\* method_allowed
MethodAllowed(m) == m \in SafeMethods \/ AllowDestructive

Goto(c, from, to) == pc[c] = from /\ pc' = [pc EXCEPT ![c] = to]

Init ==
    /\ pc = [c \in Conns |-> "none"]
    /\ req = [c \in Conns |-> NoRequest]
    /\ count = 0
    /\ slots = MaxConcurrency
    /\ serving = TRUE
    /\ dialled = 0
    /\ Limiter!Init

-----------------------------------------------------------------------------
(* The server thread. *)

\* serve_forever accepts a connection and starts its daemon thread.
Accept(c) ==
    /\ serving
    /\ Goto(c, "none", "reading")
    /\ UNCHANGED <<req, count, slots, serving, dialled, limiterVars>>

\* stop(): the accept loop ends and the listening socket closes.  Handler
\* threads are daemons that nobody joins: they go on.
Stop ==
    /\ serving
    /\ serving' = FALSE
    /\ UNCHANGED <<pc, req, count, slots, dialled, limiterVars>>

Tick == Limiter!Tick /\ UNCHANGED <<pc, req, count, slots, serving, dialled>>

-----------------------------------------------------------------------------
(* A handler thread. *)

\* send_error, or an exception that ends the handler: the connection closes.
Close(c, from) ==
    /\ Goto(c, from, "closed")
    /\ req' = [req EXCEPT ![c] = NoRequest]

\* The client hangs up between two requests, or its request does not parse.
ClientCloses(c) ==
    /\ Close(c, "reading")
    /\ UNCHANGED <<count, slots, serving, dialled, limiterVars>>

\* do_CONNECT goes straight for a slot; the other verbs are still to be checked.
AdmitTo(c, r) ==
    /\ Goto(c, "reading", IF r.method = "CONNECT" THEN "waiting" ELSE "method")
    /\ req' = [req EXCEPT ![c] = r]
    /\ UNCHANGED <<slots, serving, dialled>>

\* check() refuses: no host, a host out of scope, or the kill-switch.
Refuse(c, r) ==
    /\ ~InScope(r.host) \/ count >= MaxRequests
    /\ Close(c, "reading")
    /\ UNCHANGED <<count, slots, serving, dialled, limiterVars>>

\* check() refuses: the limiter has no token.
RefuseByRate(c, r) ==
    /\ InScope(r.host)
    /\ count < MaxRequests
    /\ Limiter!Deny
    /\ Close(c, "reading")
    /\ UNCHANGED <<count, slots, serving, dialled>>

\* Slips in check(): a tunnel not counted, and the limiter's answer not looked at.
AdmitTunnelUncounted(c, r) ==
    /\ InScope(r.host)
    /\ count < MaxRequests
    /\ Limiter!Grant
    /\ count' = IF r.method = "CONNECT" THEN count ELSE count + 1
    /\ AdmitTo(c, r)
AdmitWithoutToken(c, r) ==
    /\ InScope(r.host)
    /\ count < MaxRequests
    /\ grants' = Append(grants, now)
    /\ UNCHANGED <<tokens, last, now>>
    /\ count' = count + 1
    /\ AdmitTo(c, r)

\* check() admits: one unit of the kill-switch and one token, under one lock.
Admit(c, r) ==
    /\ InScope(r.host)
    /\ count < MaxRequests
    /\ Limiter!Grant
    /\ count' = count + 1
    /\ AdmitTo(c, r)

\* _forward_simple looks at the verb after the request has been counted.
MethodRefused(c) ==
    /\ ~MethodAllowed(req[c].method)
    /\ Close(c, "method")
    /\ UNCHANGED <<count, slots, serving, dialled, limiterVars>>

MethodPasses(c) ==
    /\ MethodAllowed(req[c].method)
    /\ Goto(c, "method", "body")
    /\ UNCHANGED <<req, count, slots, serving, dialled, limiterVars>>

\* The body has arrived, or there is none.
BodyRead(c) ==
    /\ Goto(c, "body", "waiting")
    /\ UNCHANGED <<req, count, slots, serving, dialled, limiterVars>>

\* A port or a Content-Length that does not parse, or a client that is gone:
\* an exception ends the handler before it holds a slot.
BodyFails(c) ==
    /\ Close(c, "body")
    /\ UNCHANGED <<count, slots, serving, dialled, limiterVars>>

\* A slip: the semaphore lets one more in than it was made for.
AcquireSlotOneMore(c) ==
    /\ slots >= 0
    /\ Goto(c, "waiting", "connecting")
    /\ slots' = slots - 1
    /\ dialled' = dialled + 1
    /\ UNCHANGED <<req, count, serving, limiterVars>>

\* slot(): blocks until a place is free, then create_connection is called.
AcquireSlot(c) ==
    /\ slots > 0
    /\ Goto(c, "waiting", "connecting")
    /\ slots' = slots - 1
    /\ dialled' = dialled + 1
    /\ UNCHANGED <<req, count, serving, limiterVars>>

\* A slip: the 502 path returns without giving the place back.
ConnectFailsKeepingSlot(c) ==
    /\ Close(c, "connecting")
    /\ UNCHANGED <<count, slots, serving, dialled, limiterVars>>

\* The dial fails within its timeout (502), or raises: the `finally` of slot()
\* gives the place back either way.
ConnectFails(c) ==
    /\ Close(c, "connecting")
    /\ slots' = slots + 1
    /\ UNCHANGED <<count, serving, dialled, limiterVars>>

Connected(c) ==
    /\ Goto(c, "connecting", "relaying")
    /\ UNCHANGED <<req, count, slots, serving, dialled, limiterVars>>

\* The client stops reading: sendall to it blocks, and no timeout is set on
\* the client's socket.
ClientStalls(c) ==
    /\ Goto(c, "relaying", "stalled")
    /\ UNCHANGED <<req, count, slots, serving, dialled, limiterVars>>

ClientResumes(c) ==
    /\ Goto(c, "stalled", "relaying")
    /\ UNCHANGED <<req, count, slots, serving, dialled, limiterVars>>

\* One side ends the exchange.  The handler returns, and a kept-alive client
\* may send its next request on the same connection.
RelayEnds(c) ==
    /\ Goto(c, "relaying", "reading")
    /\ req' = [req EXCEPT ![c] = NoRequest]
    /\ slots' = slots + 1
    /\ UNCHANGED <<count, serving, dialled, limiterVars>>

\* A slip: only the tunnel has an idle timeout, a cleartext upstream may be
\* silent for ever.
RelayTimesOutInTunnel(c) ==
    /\ req[c].method = "CONNECT"
    /\ Goto(c, "relaying", "reading")
    /\ req' = [req EXCEPT ![c] = NoRequest]
    /\ slots' = slots + 1
    /\ UNCHANGED <<count, serving, dialled, limiterVars>>

\* Silence: a tunnel that is idle for _TUNNEL_IDLE_TIMEOUT returns to its client;
\* a cleartext upstream that is silent for the connect timeout, which stays set
\* on its socket, raises, and the connection closes.
RelayTimesOut(c) ==
    /\ Goto(c, "relaying", IF req[c].method = "CONNECT" THEN "reading" ELSE "closed")
    /\ req' = [req EXCEPT ![c] = NoRequest]
    /\ slots' = slots + 1
    /\ UNCHANGED <<count, serving, dialled, limiterVars>>

\* The client is gone in the middle of an exchange: sendall raises.
RelayBreaks(c) ==
    /\ \E from \in {"relaying", "stalled"} : Close(c, from)
    /\ slots' = slots + 1
    /\ UNCHANGED <<count, serving, dialled, limiterVars>>

-----------------------------------------------------------------------------
Handler(c) ==
    \/ ClientCloses(c)
    \/ \E r \in Requests : Refuse(c, r) \/ RefuseByRate(c, r) \/ Admit(c, r)
    \/ MethodRefused(c) \/ MethodPasses(c)
    \/ BodyRead(c) \/ BodyFails(c)
    \/ AcquireSlot(c)
    \/ ConnectFails(c) \/ Connected(c)
    \/ ClientStalls(c) \/ ClientResumes(c)
    \/ RelayEnds(c) \/ RelayTimesOut(c) \/ RelayBreaks(c)

Next == Stop \/ Tick \/ \E c \in Conns : Accept(c) \/ Handler(c)

Spec == Init /\ [][Next]_vars

\* A runnable thread is scheduled, a dial ends within its timeout, and a silent
\* relay is cut off; one that keeps moving data is taken to end too, which the idle
\* timeouts do not see to.  Nothing else is assumed of clients or the accept loop.
Fairness ==
    \A c \in Conns :
        /\ WF_vars(MethodRefused(c) \/ MethodPasses(c))
        /\ WF_vars(AcquireSlot(c))
        /\ WF_vars(ConnectFails(c) \/ Connected(c))
        /\ WF_vars(RelayTimesOut(c))

FairSpec == Spec /\ Fairness

-----------------------------------------------------------------------------
TypeOK ==
    /\ pc \in [Conns -> States]
    /\ req \in [Conns -> Requests]
    /\ count \in 0 .. MaxRequests
    /\ slots \in 0 .. MaxConcurrency
    /\ serving \in BOOLEAN
    /\ dialled \in Nat

\* The semaphore's free places and the handlers inside its block add up on
\* every path out of the block, so the BoundedSemaphore neither leaks a place
\* nor is released once too often.
SlotsAccounted == slots + Cardinality(Holders) = MaxConcurrency

\* Requests that are counted and have not been dialled yet.
Pending == {c \in Conns : pc[c] \in {"method", "body", "waiting"}}

\* Every dial was paid for by a unit of the kill-switch of its own, the units
\* of the handlers still on their way to a slot included: however the threads
\* interleave, the kill-switch bounds what leaves the proxy.
DialsPaidFor == dialled + Cardinality(Pending) <= count /\ count <= MaxRequests

\* Whatever is dialled or relayed is for a host of the scope, and in cleartext
\* a state-changing verb leaves only a scan that opted in.
OnlyPolicyTraffic ==
    \A c \in Holders :
        /\ InScope(req[c].host)
        /\ req[c].method \notin SafeMethods \union {"CONNECT"} => AllowDestructive

\* The proxy keeps the promise of AdmissionGate.
Gate == INSTANCE AdmissionGate WITH admitted <- count, active <- Holders
GateSpec == Gate!Spec

\* Seen from the limiter, the proxy's threads are callers like any other: what
\* is proved of RateLimiter holds of the requests the proxy admits.
LimiterSpec == Limiter!Spec

\* A handler that waits for a place gets one, provided every exchange is finite,
\* so that clients stall in it finitely often: the timeouts free the places of
\* peers that fall silent.
ExchangesFinite == \A c \in Conns : <>[](pc[c] # "stalled")
WaitersServed == ExchangesFinite => \A c \in Conns : (pc[c] = "waiting") ~> (pc[c] # "waiting")
=============================================================================
