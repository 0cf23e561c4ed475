------------------------------ MODULE AgentLoop ------------------------------
(***************************************************************************)
(* The optional agent layer: enrich, drive and the toolbox of              *)
(* reconnaissance/agent.py, with the conversation that the turn function   *)
(* of reconnaissance/adapters/llm.py keeps.                                *)
(*                                                                         *)
(* The model is the environment: a reply is any short sequence of calls,   *)
(* of either tool or of one that does not exist, with any argument, and    *)
(* the stop reason need not agree with it (max_tokens may cut a reply off  *)
(* after a call).                                                          *)
(***************************************************************************)
EXTENDS Integers, Sequences, FiniteSets

CONSTANTS
    Refs,          \* arguments the model gives: URLs and paths
    InScopeRefs,   \* those that resolve to a URL in scope
    MalformedRefs, \* those on which urlsplit raises ValueError
    MaxCalls,      \* MAX_TOOL_CALLS
    MaxBatch       \* bound: calls in one reply

ASSUME AgentAssumption ==
    /\ InScopeRefs \subseteq Refs /\ MalformedRefs \subseteq Refs
    /\ InScopeRefs \intersect MalformedRefs = {}
    /\ MaxCalls \in Nat /\ MaxBatch \in Nat

VARIABLES
    pc,        \* idle, asking, calling, leaving, or how the layer ended
    proxyUp,   \* the layer's own egress proxy
    messages,  \* the conversation: who speaks, and the ids of the calls or answers
    batch,     \* the calls of the last reply that are still to run
    done,      \* reply.done of the last reply
    results,   \* the ids of the calls answered since
    calls,     \* toolbox.calls
    recorded,  \* toolbox.recorded
    inventory, \* the agent's rows in the store
    fetched    \* history: the arguments that were fetched from the target

vars == <<pc, proxyUp, messages, batch, done, results, calls, recorded, inventory, fetched>>

-----------------------------------------------------------------------------
Tools == {"fetch_js", "record_endpoint", "unknown"}
Batches == UNION {[1 .. n -> Tools \X Refs] : n \in 0 .. MaxBatch}

\* Ids are the model's: every call of the conversation has one of its own.
NewIds(n) == [i \in 1 .. n |-> <<Len(messages), i>>]

Init ==
    /\ pc = "idle"
    /\ proxyUp = FALSE
    /\ messages = <<>>
    /\ batch = <<>> /\ done = FALSE /\ results = <<>>
    /\ calls = 0
    /\ recorded = {} /\ inventory = {} /\ fetched = {}

\* enrich: the proxy is up, and the first message names the assets.
Start ==
    /\ pc = "idle"
    /\ pc' = "asking"
    /\ proxyUp' = TRUE
    /\ messages' = <<[by |-> "user", ids |-> <<>>]>>
    /\ UNCHANGED <<batch, done, results, calls, recorded, inventory, fetched>>

\* The SDK is not installed.
Skip ==
    /\ pc = "idle"
    /\ pc' = "skipped"
    /\ UNCHANGED <<proxyUp, messages, batch, done, results, calls, recorded, inventory, fetched>>

-----------------------------------------------------------------------------
\* turn: the results, if any, are the next user message; then the model replies.
Converse(answers, reply) ==
    messages' = messages
                \o (IF answers = <<>> THEN <<>> ELSE <<[by |-> "user", ids |-> answers]>>)
                \o <<[by |-> "assistant", ids |-> NewIds(Len(reply))]>>

\* Slips in the loop's head: the results are kept from turn to turn, and the cap
\* is looked at only between the calls of a reply.
TurnKeepingResults ==
    /\ pc = "asking" /\ calls < MaxCalls
    /\ \E reply \in Batches, d \in BOOLEAN :
        /\ Converse(results, reply)
        /\ batch' = [i \in DOMAIN reply |-> <<NewIds(Len(reply))[i], reply[i]>>]
        /\ done' = d
        /\ pc' = IF reply = <<>> THEN "leaving" ELSE "calling"
    /\ UNCHANGED <<proxyUp, results, calls, recorded, inventory, fetched>>
TurnUncapped ==
    /\ pc = "asking"
    /\ \E reply \in Batches, d \in BOOLEAN :
        /\ Converse(results, reply)
        /\ batch' = [i \in DOMAIN reply |-> <<NewIds(Len(reply))[i], reply[i]>>]
        /\ done' = d
        /\ pc' = IF reply = <<>> THEN "leaving" ELSE "calling"
        /\ results' = IF reply = <<>> THEN results ELSE <<>>
    /\ UNCHANGED <<proxyUp, calls, recorded, inventory, fetched>>

Turn ==
    /\ pc = "asking" /\ calls < MaxCalls
    /\ \E reply \in Batches, d \in BOOLEAN :
        /\ Converse(results, reply)
        /\ batch' = [i \in DOMAIN reply |-> <<NewIds(Len(reply))[i], reply[i]>>]
        /\ done' = d
        /\ pc' = IF reply = <<>> THEN "leaving" ELSE "calling"
        /\ results' = IF reply = <<>> THEN results ELSE <<>>
    /\ UNCHANGED <<proxyUp, calls, recorded, inventory, fetched>>

\* The next call of the reply, which is dispatched to a tool.
Dispatch(tool, ref) ==
    /\ pc = "calling" /\ calls < MaxCalls /\ batch # <<>>
    /\ Head(batch)[2] = <<tool, ref>>
    /\ calls' = calls + 1
Answer ==
    /\ results' = Append(results, Head(batch)[1])
    /\ batch' = Tail(batch)
    /\ UNCHANGED <<pc, proxyUp, messages, done>>

\* A slip: fetch_js leaves the scope to the proxy.
FetchUnchecked(ref) ==
    /\ Dispatch("fetch_js", ref)
    /\ ref \notin MalformedRefs
    /\ fetched' = fetched \union {ref}
    /\ Answer
    /\ UNCHANGED <<recorded, inventory>>

\* fetch_js answers with the body, or with an error if the URL is out of scope.
Fetch(ref) ==
    /\ Dispatch("fetch_js", ref)
    /\ ref \notin MalformedRefs
    /\ fetched' = IF ref \in InScopeRefs THEN fetched \union {ref} ELSE fetched
    /\ Answer
    /\ UNCHANGED <<recorded, inventory>>

\* record_endpoint stores the endpoint, or answers that it is rejected.
Record(ref) ==
    /\ Dispatch("record_endpoint", ref)
    /\ ref \notin MalformedRefs
    /\ recorded' = recorded \union ({ref} \intersect InScopeRefs)
    /\ inventory' = inventory \union ({ref} \intersect InScopeRefs)
    /\ Answer
    /\ UNCHANGED fetched

UnknownTool(ref) ==
    /\ Dispatch("unknown", ref)
    /\ Answer
    /\ UNCHANGED <<recorded, inventory, fetched>>

\* The ValueError of a malformed argument leaves the tool, and the loop.
CallRaises(ref) ==
    /\ \E tool \in {"fetch_js", "record_endpoint"} : Dispatch(tool, ref)
    /\ ref \in MalformedRefs
    /\ pc' = "raising"
    /\ UNCHANGED <<proxyUp, messages, batch, done, results, recorded, inventory, fetched>>

\* All calls have run, or the cap is reached.
BatchEnds ==
    /\ pc = "calling"
    /\ batch = <<>> \/ calls >= MaxCalls
    /\ pc' = IF done THEN "leaving" ELSE "asking"
    /\ UNCHANGED <<proxyUp, messages, batch, done, results, calls, recorded, inventory, fetched>>

CapReached ==
    /\ pc = "asking" /\ calls >= MaxCalls
    /\ pc' = "leaving"
    /\ UNCHANGED <<proxyUp, messages, batch, done, results, calls, recorded, inventory, fetched>>

\* The API call, or the store, raises.
Raise ==
    /\ pc \in {"asking", "calling"}
    /\ pc' = "raising"
    /\ UNCHANGED <<proxyUp, messages, batch, done, results, calls, recorded, inventory, fetched>>

\* A slip: the proxy is stopped only after a loop that has ended by itself.
LeaveWithoutFinally ==
    /\ pc \in {"leaving", "raising"}
    /\ pc' = IF pc = "leaving" THEN "finished" ELSE "failed"
    /\ proxyUp' = (pc = "raising")
    /\ UNCHANGED <<messages, batch, done, results, calls, recorded, inventory, fetched>>

\* The `with` block of enrich ends and stops the proxy.
Leave ==
    /\ pc \in {"leaving", "raising"}
    /\ pc' = IF pc = "leaving" THEN "finished" ELSE "failed"
    /\ proxyUp' = FALSE
    /\ UNCHANGED <<messages, batch, done, results, calls, recorded, inventory, fetched>>

-----------------------------------------------------------------------------
Layer ==
    \/ Start \/ Skip \/ Turn \/ BatchEnds \/ CapReached \/ Leave
    \/ \E ref \in Refs : Fetch(ref) \/ Record(ref) \/ UnknownTool(ref) \/ CallRaises(ref)

Next == Layer \/ Raise

\* The model answers or its call raises; the layer's thread goes on.
FairSpec == Init /\ [][Next]_vars /\ WF_vars(Layer)

-----------------------------------------------------------------------------
\* What the API demands of a conversation with tools: user and assistant take
\* turns, and a user message answers every call of the reply before it, in
\* order and once, although the cap may cut a reply's calls off half-way.
ConversationLegal ==
    \A i \in DOMAIN messages :
        /\ messages[i].by = (IF i % 2 = 1 THEN "user" ELSE "assistant")
        /\ i > 1 /\ messages[i].by = "user" => messages[i].ids = messages[i - 1].ids

\* The replies in the conversation.
Replies == {i \in DOMAIN messages : messages[i].by = "assistant"}

\* "A hard cap on tool calls bounds cost": the replies paid for are no more than
\* the calls allowed, whatever the model asks for.
CostBounded == calls <= MaxCalls /\ Cardinality(Replies) <= MaxCalls

\* No argument steers the layer off the target: what it fetches and what it adds
\* to the inventory is in scope, and it reports exactly what it added.
NeverOffTarget ==
    fetched \subseteq InScopeRefs /\ recorded \subseteq InScopeRefs /\ inventory = recorded

\* The layer ends, however long the model would go on, and leaves no proxy.
EndsWithoutProxy == <>[](pc \in {"skipped", "finished", "failed"} /\ ~proxyUp)
=============================================================================
