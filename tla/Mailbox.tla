------------------------------- MODULE Mailbox -------------------------------
(***************************************************************************)
(* What an agent's message queues promise their senders, without turns,    *)
(* modes or files: a message that was accepted is delivered to the         *)
(* conversation exactly once, with all that are pending or some of them,   *)
(* and a message of a kind that wakes the agent is delivered eventually.   *)
(* agentPool.js states the promise for "any inbound message".              *)
(***************************************************************************)
EXTENDS Naturals

CONSTANTS Msgs,       \* the messages that may be sent
          Waking      \* those that make an idle agent active

VARIABLES pending,    \* accepted and not delivered
          delivered   \* how often each message was put into the conversation

mailbox == <<pending, delivered>>

Init == pending = {} /\ delivered = [m \in Msgs |-> 0]

Accept(m) ==
  /\ m \notin pending /\ delivered[m] = 0
  /\ pending' = pending \cup {m}
  /\ UNCHANGED delivered

Deliver(batch) ==
  /\ batch # {} /\ batch \subseteq pending
  /\ pending' = pending \ batch
  /\ delivered' = [m \in Msgs |-> delivered[m] + (IF m \in batch THEN 1 ELSE 0)]

Next ==
  \/ \E m \in Msgs : Accept(m)
  \/ \E batch \in SUBSET Msgs : Deliver(batch)

Fairness ==
  \A m \in Waking :
    WF_mailbox(\E batch \in SUBSET Msgs : m \in batch /\ Deliver(batch))

Spec == Init /\ [][Next]_mailbox /\ Fairness
=============================================================================
