--------------------------- MODULE AgentLoopProofs ---------------------------
(***************************************************************************)
(* The agent layer for every cap, every size of a reply and any arguments. *)
(*                                                                         *)
(* ConversationLegal says nothing of the answers that are still being      *)
(* gathered, and CostBounded nothing of the calls of a reply that are      *)
(* still to run.  Gathering and Paid do: while a reply's calls run, the    *)
(* answers so far and the calls left are together that reply's ids; and    *)
(* each reply but the last, which has at least one call to run, has been   *)
(* paid for by a call.                                                     *)
(***************************************************************************)
EXTENDS AgentLoop, FiniteSetTheorems, TLAPS

Ids == Nat \X Nat
Message == [by : {"user", "assistant"}, ids : Seq(Ids)]

AgentTypes ==
    /\ pc \in {"idle", "skipped", "asking", "calling", "leaving", "raising", "finished", "failed"}
    /\ messages \in Seq(Message)
    /\ batch \in Seq(Ids \X (Tools \X Refs))
    /\ results \in Seq(Ids)
    /\ calls \in 0 .. MaxCalls

\* The ids of the last message are those answered and those of the calls left.
Answering ==
    LET ids == messages[Len(messages)].ids IN
    /\ Len(results) + Len(batch) = Len(ids)
    /\ \A i \in 1 .. Len(results) : results[i] = ids[i]
    /\ \A i \in 1 .. Len(batch) : batch[i][1] = ids[Len(results) + i]

Gathering ==
    /\ pc = "idle" => messages = <<>> /\ results = <<>> /\ batch = <<>> /\ calls = 0
    /\ pc = "asking" /\ calls < MaxCalls =>
          \/ Len(messages) = 1 /\ results = <<>>
          \/ Len(messages) > 1 /\ Len(messages) % 2 = 0 /\ results # <<>> /\ batch = <<>> /\ Answering
    /\ pc = "calling" =>
          /\ Len(messages) > 1 /\ Len(messages) % 2 = 0
          /\ Answering
          /\ results = <<>> => batch # <<>> /\ calls < MaxCalls

Paid ==
    /\ Cardinality(Replies) <= MaxCalls
    /\ pc \in {"idle", "asking"} => Cardinality(Replies) <= calls
    /\ pc = "calling" => Cardinality(Replies) <= (IF results = <<>> THEN calls + 1 ELSE calls)

AgentInv == AgentTypes /\ ConversationLegal /\ Gathering /\ Paid /\ NeverOffTarget

-----------------------------------------------------------------------------
\* What Append makes of a sequence.
LEMMA Appended ==
    ASSUME NEW S, NEW s \in Seq(S), NEW e \in S
    PROVE  /\ Append(s, e) \in Seq(S) /\ Len(Append(s, e)) = Len(s) + 1
           /\ \A i \in 1 .. Len(s) : Append(s, e)[i] = s[i]
           /\ Append(s, e)[Len(s) + 1] = e
OBVIOUS

\* Two sequences of the same length and the same elements are one.
LEMMA SameSequence ==
    ASSUME NEW S, NEW s \in Seq(S), NEW t \in Seq(S),
           Len(s) = Len(t), \A i \in 1 .. Len(s) : s[i] = t[i]
    PROVE  s = t
OBVIOUS

\* Odd and even numbers take turns.
LEMMA Parity ==
    ASSUME NEW n \in Nat
    PROVE  /\ n % 2 = 0 => (n + 1) % 2 = 1
           /\ n % 2 = 1 => (n + 1) % 2 = 0
           /\ n + 1 \in Nat
OBVIOUS

\* The replies of a conversation can be counted.
LEMMA RepliesFinite ==
    ASSUME AgentTypes
    PROVE  IsFiniteSet(Replies) /\ Cardinality(Replies) \in Nat
<1>1. Replies \subseteq 1 .. Len(messages) BY DEF Replies, AgentTypes
<1>2. IsFiniteSet(1 .. Len(messages)) BY FS_Interval DEF AgentTypes
<1> QED BY <1>1, <1>2, FS_Subset, FS_CardinalityType

LEMMA InitAgentInv == Init => AgentInv
<1> SUFFICES ASSUME Init PROVE AgentInv OBVIOUS
<1>1. Replies = {} BY DEF Replies, Init
<1>2. Cardinality(Replies) = 0 BY <1>1, FS_EmptySet
<1> QED
  BY <1>2, AgentAssumption DEF Init, AgentInv, AgentTypes, ConversationLegal, Gathering, Paid,
     NeverOffTarget

\* Steps that leave the conversation, the answers and the calls alone.
LEMMA QuietAgentSteps ==
    ASSUME AgentInv, Skip \/ BatchEnds \/ CapReached \/ Raise \/ Leave \/ UNCHANGED vars
    PROVE  AgentInv'
<1>1. UNCHANGED <<messages, batch, results, calls, recorded, inventory, fetched>>
      BY DEF Skip, BatchEnds, CapReached, Raise, Leave, vars
<1>2. Replies' = Replies BY <1>1 DEF Replies
<1>3. Cardinality(Replies) \in Nat /\ calls \in Nat /\ MaxCalls \in Nat
      BY RepliesFinite, AgentAssumption DEF AgentInv, AgentTypes
<1>4. AgentTypes' /\ ConversationLegal' /\ NeverOffTarget'
      BY <1>1 DEF AgentInv, AgentTypes, ConversationLegal, NeverOffTarget, Skip, BatchEnds,
         CapReached, Raise, Leave, vars
<1>5. Paid'
      BY <1>1, <1>2, <1>3 DEF AgentInv, Paid, Gathering, Skip, BatchEnds, CapReached, Raise,
         Leave, vars
<1>6. Answering' = Answering BY <1>1 DEF Answering
<1>7. Gathering'
      BY <1>1, <1>3, <1>6 DEF AgentInv, Gathering, Skip, BatchEnds, CapReached, Raise, Leave, vars
<1> QED BY <1>4, <1>5, <1>7 DEF AgentInv

\* The conversation begins with a message of the user.
LEMMA StartStep ==
    ASSUME AgentInv, Start
    PROVE  AgentInv'
<1> USE DEF AgentInv, Start
<1>1. messages' = <<[by |-> "user", ids |-> <<>>]>> OBVIOUS
<1>2. Replies' = {} BY <1>1 DEF Replies
<1>3. Cardinality(Replies') = 0 BY <1>2, FS_EmptySet
<1>4. calls' = 0 /\ results' = <<>> /\ MaxCalls \in Nat
      BY AgentAssumption DEF Gathering
<1>5. AgentTypes'
  <2>1. messages' \in Seq(Message) BY <1>1 DEF Message
  <2> QED BY <2>1 DEF AgentTypes
<1>6. ConversationLegal' BY <1>1 DEF ConversationLegal
<1>7. Gathering' BY <1>1, <1>4 DEF Gathering
<1>8. Paid' BY <1>3, <1>4 DEF Paid
<1>9. NeverOffTarget' BY DEF NeverOffTarget
<1> QED BY <1>5, <1>6, <1>7, <1>8, <1>9

\* A call is dispatched and answered: its id moves from the batch to the results.
LEMMA CallStep ==
    ASSUME AgentInv, NEW ref \in Refs, Fetch(ref) \/ Record(ref) \/ UnknownTool(ref)
    PROVE  AgentInv'
<1> USE DEF AgentInv
<1>1. /\ pc = "calling" /\ calls < MaxCalls /\ batch # <<>>
      /\ calls' = calls + 1
      /\ Answer
      BY DEF Fetch, Record, UnknownTool, Dispatch
<1>2. /\ UNCHANGED <<pc, messages>>
      /\ results' = Append(results, Head(batch)[1]) /\ batch' = Tail(batch)
      BY <1>1 DEF Answer
<1>3. Replies' = Replies BY <1>2 DEF Replies
<1>4. Cardinality(Replies) \in Nat /\ calls \in Nat /\ MaxCalls \in Nat
      BY RepliesFinite, AgentAssumption DEF AgentTypes
<1>5. /\ batch' \in Seq(Ids \X (Tools \X Refs)) /\ Len(batch') = Len(batch) - 1
      /\ \A i \in 1 .. Len(batch') : batch'[i] = batch[i + 1]
      /\ batch[1] \in Ids \X (Tools \X Refs) /\ Head(batch) = batch[1]
      BY <1>1, <1>2 DEF AgentTypes
<1>6. /\ results' \in Seq(Ids) /\ Len(results') = Len(results) + 1 /\ results' # <<>>
      /\ \A i \in 1 .. Len(results) : results'[i] = results[i]
      /\ results'[Len(results) + 1] = batch[1][1]
  <2>1. batch[1][1] \in Ids BY <1>5
  <2>2. results \in Seq(Ids) /\ results' = Append(results, batch[1][1])
        BY <1>2, <1>5 DEF AgentTypes
  <2> QED BY <2>1, <2>2, Appended
<1>7. AgentTypes' BY <1>1, <1>2, <1>4, <1>5, <1>6 DEF AgentTypes
<1>8. ConversationLegal' BY <1>2 DEF ConversationLegal
<1>9. Gathering'
  <2> DEFINE ids == messages[Len(messages)].ids
  <2>1. Answering /\ Len(results) \in Nat /\ Len(batch) \in Nat /\ Len(batch) > 0
        BY <1>1 DEF Gathering, AgentTypes
  <2>2. Len(results') + Len(batch') = Len(ids)
    <3>1. Len(results) + Len(batch) = Len(ids) BY <2>1 DEF Answering
    <3>2. Len(results') = Len(results) + 1 /\ Len(batch') = Len(batch) - 1 BY <1>5, <1>6
    <3> HIDE DEF ids
    <3> QED BY <2>1, <3>1, <3>2
  <2>3. \A i \in 1 .. Len(results') : results'[i] = ids[i]
        BY <2>1, <1>6 DEF Answering
  <2>4. \A i \in 1 .. Len(batch') : batch'[i][1] = ids[Len(results') + i]
    <3>1. SUFFICES ASSUME NEW i \in 1 .. Len(batch')
                   PROVE  batch'[i][1] = ids[Len(results') + i]
          OBVIOUS
    <3>2. i + 1 \in 1 .. Len(batch) /\ i \in Nat BY <1>5, <2>1
    <3>3. batch'[i] = batch[i + 1] BY <1>5
    <3>4. batch[i + 1][1] = ids[Len(results) + (i + 1)] BY <2>1, <3>2 DEF Answering
    <3>5. Len(results) + (i + 1) = Len(results') + i BY <1>6, <2>1, <3>2
    <3> QED BY <3>3, <3>4, <3>5
  <2>5. Answering' BY <1>2, <2>2, <2>3, <2>4 DEF Answering
  <2> QED BY <1>1, <1>2, <1>6, <2>5 DEF Gathering
<1>10. Paid' BY <1>1, <1>2, <1>3, <1>4, <1>6 DEF Paid
<1>11. NeverOffTarget'
  BY DEF NeverOffTarget, Fetch, Record, UnknownTool
<1> QED BY <1>7, <1>8, <1>9, <1>10, <1>11

\* A call that raises is counted, and ends the loop.
LEMMA CallRaisesStep ==
    ASSUME AgentInv, NEW ref \in Refs, CallRaises(ref)
    PROVE  AgentInv'
<1> USE DEF AgentInv
<1>1. /\ pc = "calling" /\ calls < MaxCalls /\ calls' = calls + 1 /\ pc' = "raising"
      /\ UNCHANGED <<messages, batch, results, recorded, inventory, fetched>>
      BY DEF CallRaises, Dispatch
<1>2. Replies' = Replies BY <1>1 DEF Replies
<1>3. calls \in Nat /\ MaxCalls \in Nat BY AgentAssumption DEF AgentTypes
<1> QED
  BY <1>1, <1>2, <1>3 DEF AgentTypes, ConversationLegal, Gathering, Paid, NeverOffTarget

\* The answers of the last reply, all of them, become a message of the user, and
\* the model replies.
LEMMA TurnStep ==
    ASSUME AgentInv, Turn
    PROVE  AgentInv'
<1> USE DEF AgentInv
<1>1. PICK reply \in Batches :
        /\ Converse(results, reply)
        /\ batch' = [i \in DOMAIN reply |-> <<NewIds(Len(reply))[i], reply[i]>>]
        /\ pc' = IF reply = <<>> THEN "leaving" ELSE "calling"
        /\ results' = IF reply = <<>> THEN results ELSE <<>>
      BY DEF Turn
<1>2. pc = "asking" /\ calls < MaxCalls
      /\ UNCHANGED <<calls, recorded, inventory, fetched>>
      BY DEF Turn
<1>3. reply \in Seq(Tools \X Refs) /\ DOMAIN reply = 1 .. Len(reply) /\ Len(reply) \in Nat
      BY AgentAssumption DEF Batches
<1> DEFINE ids == NewIds(Len(reply))
           answer == [by |-> "user", ids |-> results]
           said == [by |-> "assistant", ids |-> ids]
           answered == IF results = <<>> THEN messages ELSE Append(messages, answer)
<1>4. messages \in Seq(Message) /\ results \in Seq(Ids) /\ Len(messages) \in Nat
      BY DEF AgentTypes
<1>5. ids \in Seq(Ids) /\ Len(ids) = Len(reply) BY <1>3, <1>4 DEF NewIds, Ids
<1>6. answer \in Message /\ said \in Message BY <1>4, <1>5 DEF Message
<1>7. messages' = Append(answered, said)
  <2>1. messages' = messages \o (IF results = <<>> THEN <<>> ELSE <<answer>>) \o <<said>>
        BY <1>1 DEF Converse
  <2> HIDE DEF answer, said
  <2>2. CASE results = <<>> BY <1>4, <1>6, <2>1, <2>2
  <2>3. CASE results # <<>>
    <3>1. messages \o <<answer>> = Append(messages, answer) BY <1>4, <1>6
    <3>2. answered = Append(messages, answer) BY <2>3
    <3>3. answered \in Seq(Message) BY <1>4, <1>6, <3>2, Appended
    <3> HIDE DEF answered
    <3>4. answered \o <<said>> = Append(answered, said) BY <1>6, <3>3
    <3> QED BY <2>1, <2>3, <3>1, <3>2, <3>4
  <2> QED BY <2>2, <2>3
<1>8. \/ Len(messages) = 1 /\ results = <<>>
      \/ Len(messages) > 1 /\ Len(messages) % 2 = 0 /\ results # <<>>
         /\ messages[Len(messages)].ids = results
  <2>1. CASE Len(messages) = 1 /\ results = <<>> BY <2>1
  <2>2. CASE /\ Len(messages) > 1 /\ Len(messages) % 2 = 0 /\ results # <<>>
             /\ batch = <<>> /\ Answering
    <3>1. messages[Len(messages)] \in Message BY <1>4, <2>2
    <3>2. messages[Len(messages)].ids \in Seq(Ids) BY <3>1 DEF Message
    <3>3. Len(batch) = 0 /\ Len(results) \in Nat BY <1>4, <2>2
    <3>4. Len(results) + Len(batch) = Len(messages[Len(messages)].ids)
          /\ \A i \in 1 .. Len(results) : results[i] = messages[Len(messages)].ids[i]
          BY <2>2 DEF Answering
    <3>5. Len(results) = Len(messages[Len(messages)].ids) BY <3>3, <3>4
    <3>6. results = messages[Len(messages)].ids BY <1>4, <3>2, <3>4, <3>5, SameSequence
    <3> QED BY <2>2, <3>6
  <2> QED BY <1>2, <2>1, <2>2 DEF Gathering
<1> HIDE DEF answer, said, ids, answered
\* Either nothing was to be answered, or the answers are a message of their own.
<1>9. /\ answered \in Seq(Message) /\ Len(answered) \in Nat /\ Len(answered) % 2 = 1
      /\ \A i \in 1 .. Len(messages) : answered[i] = messages[i]
      /\ \/ Len(answered) = Len(messages)
         \/ /\ Len(answered) = Len(messages) + 1 /\ Len(messages) > 1
            /\ messages[Len(messages)].ids = results
            /\ answered[Len(answered)] = answer
  <2>1. CASE Len(messages) = 1 /\ results = <<>>
    <3>1. answered = messages BY <2>1 DEF answered
    <3>2. 1 % 2 = 1 OBVIOUS
    <3> QED BY <1>4, <2>1, <3>1, <3>2
  <2>2. CASE Len(messages) > 1 /\ Len(messages) % 2 = 0 /\ results # <<>>
             /\ messages[Len(messages)].ids = results
    <3>1. answered = Append(messages, answer) BY <2>2 DEF answered
    <3>2. /\ answered \in Seq(Message) /\ Len(answered) = Len(messages) + 1
          /\ \A i \in 1 .. Len(messages) : answered[i] = messages[i]
          /\ answered[Len(messages) + 1] = answer
          BY <1>4, <1>6, <3>1, Appended
    <3>3. Len(answered) \in Nat /\ Len(answered) % 2 = 1 BY <1>4, <2>2, <3>2, Parity
    <3> QED BY <2>2, <3>2, <3>3
  <2> QED BY <1>8, <2>1, <2>2
<1>10. /\ messages' \in Seq(Message) /\ Len(messages') = Len(answered) + 1
       /\ \A i \in 1 .. Len(answered) : messages'[i] = answered[i]
       /\ messages'[Len(answered) + 1] = said
  BY <1>6, <1>7, <1>9, Appended
<1>11. AgentTypes'
  <2>1. batch' \in Seq(Ids \X (Tools \X Refs)) BY <1>1, <1>3, <1>5 DEF ids
  <2>2. results' \in Seq(Ids) BY <1>1, <1>4
  <2> QED BY <1>1, <1>2, <1>10, <2>1, <2>2 DEF AgentTypes
<1>12. Len(answered) + 1 \in Nat /\ (Len(answered) + 1) % 2 = 0 BY <1>9, Parity
<1>13. \A i \in 1 .. Len(messages) : messages'[i] = messages[i]
  BY <1>4, <1>9, <1>10
<1>14. ConversationLegal'
  <2>1. SUFFICES ASSUME NEW i \in 1 .. Len(messages')
                 PROVE  /\ messages'[i].by = (IF i % 2 = 1 THEN "user" ELSE "assistant")
                        /\ i > 1 /\ messages'[i].by = "user" => messages'[i].ids = messages'[i - 1].ids
        BY <1>10 DEF ConversationLegal
  <2>2. CASE i \in 1 .. Len(messages)
    <3>1. messages'[i] = messages[i] BY <1>13, <2>2
    <3>2. i > 1 => i - 1 \in 1 .. Len(messages) BY <1>4, <2>2
    <3>3. i > 1 => messages'[i - 1] = messages[i - 1] BY <1>13, <3>2
    <3>4. i \in DOMAIN messages BY <1>4, <2>2
    <3>5. /\ messages[i].by = (IF i % 2 = 1 THEN "user" ELSE "assistant")
          /\ i > 1 /\ messages[i].by = "user" => messages[i].ids = messages[i - 1].ids
          BY <3>4 DEF ConversationLegal
    <3> QED BY <3>1, <3>3, <3>5
  <2>3. CASE i = Len(answered) /\ Len(answered) = Len(messages) + 1
    <3>1. messages'[i] = answer /\ messages[Len(messages)].ids = results
          BY <1>4, <1>9, <1>10, <2>3
    <3>2. i % 2 = 1 BY <1>9, <2>3
    <3>3. i - 1 = Len(messages) /\ (i > 1 => Len(messages) \in 1 .. Len(messages))
          BY <1>4, <2>3
    <3>4. i > 1 => messages'[i - 1] = messages[Len(messages)] BY <1>13, <3>3
    <3>5. answer.by = "user" /\ answer.ids = results BY DEF answer
    <3> QED BY <3>1, <3>2, <3>4, <3>5
  <2>4. CASE i = Len(answered) + 1
    <3>1. messages'[i] = said /\ i % 2 = 0 BY <1>10, <1>12, <2>4
    <3>2. said.by = "assistant" BY DEF said
    <3> QED BY <3>1, <3>2
  <2>5. \/ i \in 1 .. Len(messages)
        \/ i = Len(answered) /\ Len(answered) = Len(messages) + 1
        \/ i = Len(answered) + 1
        BY <1>4, <1>9, <1>10
  <2> QED BY <2>2, <2>3, <2>4, <2>5
<1>15. Gathering'
  <2>1. CASE reply = <<>> BY <1>1, <2>1 DEF Gathering
  <2>2. CASE reply # <<>>
    <3>1. pc' = "calling" /\ results' = <<>> BY <1>1, <2>2
    <3>2. Len(messages') > 1 /\ Len(messages') % 2 = 0
      <4>1. Len(answered) >= 1 BY <1>8, <1>9, <1>4
      <4> QED BY <4>1, <1>9, <1>10, <1>12
    <3>3. Len(batch') = Len(ids) /\ \A i \in 1 .. Len(batch') : batch'[i][1] = ids[i]
          BY <1>1, <1>3, <1>5 DEF ids
    <3>4. messages'[Len(messages')].ids = ids BY <1>10 DEF said
    <3>5. Answering' BY <1>5, <3>1, <3>3, <3>4 DEF Answering
    <3>6. batch' # <<>> BY <1>3, <1>5, <2>2, <3>3
    <3> QED BY <1>2, <3>1, <3>2, <3>5, <3>6 DEF Gathering
  <2> QED BY <2>1, <2>2
<1>16. Paid'
  <2> DEFINE last == Len(answered) + 1
  <2>1. /\ DOMAIN messages' = 1 .. Len(messages') /\ DOMAIN messages = 1 .. Len(messages)
        /\ said.by = "assistant" /\ answer.by = "user"
        BY <1>4, <1>10 DEF said, answer
  <2>2. \A i \in 1 .. Len(messages') :
           messages'[i].by = "assistant" <=> (i \in Replies \/ i = last)
    <3>1. SUFFICES ASSUME NEW i \in 1 .. Len(messages')
                   PROVE  messages'[i].by = "assistant" <=> (i \in Replies \/ i = last)
          OBVIOUS
    <3>2. CASE i \in 1 .. Len(messages)
      <4>1. messages'[i] = messages[i] BY <1>13, <3>2
      <4>2. i # last BY <1>4, <1>9, <3>2
      <4> QED BY <2>1, <3>2, <4>1, <4>2 DEF Replies
    <3>3. CASE i = Len(answered) /\ Len(answered) = Len(messages) + 1
      <4>1. messages'[i] = answer BY <1>4, <1>9, <1>10, <3>3
      <4>2. i # last /\ i \notin 1 .. Len(messages) BY <1>4, <1>9, <3>3
      <4> QED BY <2>1, <4>1, <4>2 DEF Replies
    <3>4. CASE i = last BY <1>10, <2>1, <3>4
    <3>5. \/ i \in 1 .. Len(messages)
          \/ i = Len(answered) /\ Len(answered) = Len(messages) + 1
          \/ i = last
          BY <1>4, <1>9, <1>10
    <3> QED BY <3>2, <3>3, <3>4, <3>5
  <2>3. 1 .. Len(messages) \subseteq 1 .. Len(messages') /\ last \in 1 .. Len(messages')
        /\ last \notin 1 .. Len(messages)
        BY <1>4, <1>9, <1>10
  <2>4. Replies \subseteq 1 .. Len(messages) BY <2>1 DEF Replies
  <2>5. Replies' = {i \in 1 .. Len(messages') : messages'[i].by = "assistant"}
        BY <2>1 DEF Replies
  <2>6. Replies' = Replies \union {last} /\ last \notin Replies
    <3> HIDE DEF last
    <3> QED BY <2>2, <2>3, <2>4, <2>5
  <2>7. Cardinality(Replies') = Cardinality(Replies) + 1 /\ Cardinality(Replies) \in Nat
        BY <2>6, RepliesFinite, FS_AddElement
  <2>8. calls \in Nat /\ MaxCalls \in Nat BY AgentAssumption DEF AgentTypes
  <2> QED BY <1>1, <1>2, <2>7, <2>8 DEF Paid
<1>17. NeverOffTarget' BY <1>2 DEF NeverOffTarget
<1> QED BY <1>11, <1>14, <1>15, <1>16, <1>17

\* Every step keeps the invariant.
LEMMA NextAgentInv == AgentInv /\ [Next]_vars => AgentInv'
BY QuietAgentSteps, StartStep, CallStep, CallRaisesStep, TurnStep DEF Next, Layer

-----------------------------------------------------------------------------
\* The inductive invariant holds of the layer, whatever the model replies.
THEOREM AgentInvariant == FairSpec => []AgentInv
BY InitAgentInv, NextAgentInv, PTL DEF FairSpec

\* User and assistant take turns, and every call is answered once and in order in
\* the next message (drive and the turn function).
THEOREM ConversationIsLegal == FairSpec => []ConversationLegal
<1>1. AgentInv => ConversationLegal BY DEF AgentInv
<1> QED BY <1>1, AgentInvariant, PTL

\* The cap on tool calls bounds the replies that are paid for (drive).
THEOREM CapBoundsCost == FairSpec => []CostBounded
<1>1. AgentInv => CostBounded BY AgentAssumption DEF AgentInv, AgentTypes, Paid, CostBounded
<1> QED BY <1>1, AgentInvariant, PTL

\* No argument takes the layer off the target (AgentToolbox).
THEOREM ArgumentsStayOnTarget == FairSpec => []NeverOffTarget
<1>1. AgentInv => NeverOffTarget BY DEF AgentInv
<1> QED BY <1>1, AgentInvariant, PTL

-----------------------------------------------------------------------------
(* What EndsWithoutProxy rests on *)

\* How many steps are left at most: three for every call that may still be run,
\* one of which is its own, and those of the stage the layer is in.
StepsLeft ==
    3 * (MaxCalls - calls) +
    (IF pc = "idle" THEN 6
     ELSE IF pc = "asking" THEN (IF calls < MaxCalls THEN 4 ELSE 2)
     ELSE IF pc = "calling" THEN (IF batch = <<>> THEN 5 ELSE 3)
     ELSE IF pc \in {"leaving", "raising"} THEN 1 ELSE 0)

\* The layer has ended; before it starts and after it has ended it has no proxy.
Ended == pc \in {"skipped", "finished", "failed"}
Alone == pc = "idle" \/ Ended => ~proxyUp

\* Every step of the layer shortens what is left (drive): a call by the cap,
\* a reply by its calls, of which there is one at least when it is run.
LEMMA EveryStepNears ==
    ASSUME AgentInv, AgentInv', Next
    PROVE  StepsLeft' < StepsLeft
<1>1. calls \in Nat /\ MaxCalls \in Nat /\ calls <= MaxCalls
  BY AgentAssumption DEF AgentInv, AgentTypes
<1>2. CASE Start \/ Skip
  BY <1>1, <1>2 DEF Start, Skip, StepsLeft
<1>3. CASE Turn
  <2>1. /\ pc = "asking" /\ calls < MaxCalls /\ calls' = calls
        /\ \/ pc' = "leaving"
           \/ pc' = "calling" /\ results' = <<>>
    BY <1>3 DEF Turn
  <2>2. pc' = "calling" /\ results' = <<>> => batch' # <<>> BY DEF AgentInv, Gathering
  <2> QED BY <1>1, <2>1, <2>2 DEF StepsLeft
<1>4. CASE \E ref \in Refs : Fetch(ref) \/ Record(ref) \/ UnknownTool(ref) \/ CallRaises(ref)
  <2>1. /\ pc = "calling" /\ calls < MaxCalls /\ batch # <<>> /\ calls' = calls + 1
        /\ pc' \in {"calling", "raising"}
    BY <1>4 DEF Fetch, Record, UnknownTool, CallRaises, Dispatch, Answer
  <2> QED BY <1>1, <2>1 DEF StepsLeft
<1>5. CASE BatchEnds
  <2>1. /\ pc = "calling" /\ calls' = calls
        /\ batch = <<>> \/ calls >= MaxCalls
        /\ pc' \in {"asking", "leaving"}
    BY <1>5 DEF BatchEnds
  <2> QED BY <1>1, <2>1 DEF StepsLeft
<1>6. CASE CapReached
  <2>1. calls >= MaxCalls /\ calls' = calls /\ pc' = "leaving" /\ pc \in {"asking", "calling"}
    BY <1>6 DEF CapReached
  <2> QED BY <1>1, <2>1 DEF StepsLeft
<1>7. CASE Raise \/ Leave
  BY <1>1, <1>7 DEF Raise, Leave, StepsLeft
<1> QED BY <1>2, <1>3, <1>4, <1>5, <1>6, <1>7 DEF Next, Layer

\* A conversation takes at most 3 * MaxCalls + 6 steps, however long the model
\* would go on, and when it has ended the proxy is down, whether the layer ran,
\* failed or was skipped (drive, enrich).  EndsWithoutProxy rests on this and on
\* the fairness of the layer.
THEOREM ConversationNearsItsEnd ==
    FairSpec => /\ [](StepsLeft \in 0 .. 3 * MaxCalls + 6) /\ [][StepsLeft' < StepsLeft]_vars
                /\ [](Ended => ~proxyUp)
<1>1. AgentInv => StepsLeft \in 0 .. 3 * MaxCalls + 6
  BY AgentAssumption DEF AgentInv, AgentTypes, StepsLeft
<1>2. AgentInv /\ AgentInv' /\ [Next]_vars => [StepsLeft' < StepsLeft]_vars
  BY EveryStepNears
<1>3. Init => Alone BY DEF Init, Alone
<1>4. Alone /\ [Next]_vars => Alone'
  <2> SUFFICES ASSUME Alone, [Next]_vars PROVE Alone' OBVIOUS
  <2>1. CASE UNCHANGED vars BY <2>1 DEF vars, Alone, Ended
  <2>2. CASE Start \/ Skip \/ Leave BY <2>2 DEF Start, Skip, Leave, Alone, Ended
  <2>3. CASE Turn \/ BatchEnds \/ CapReached \/ Raise
    BY <2>3 DEF Turn, BatchEnds, CapReached, Raise, Alone, Ended
  <2>4. CASE \E ref \in Refs : Fetch(ref) \/ Record(ref) \/ UnknownTool(ref) \/ CallRaises(ref)
    BY <2>4 DEF Fetch, Record, UnknownTool, CallRaises, Dispatch, Answer, Alone, Ended
  <2> QED BY <2>1, <2>2, <2>3, <2>4 DEF Next, Layer
<1>5. Alone => (Ended => ~proxyUp) BY DEF Alone
<1> QED BY <1>1, <1>2, <1>3, <1>4, <1>5, AgentInvariant, PTL DEF FairSpec
=============================================================================
