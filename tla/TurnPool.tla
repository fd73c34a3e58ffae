------------------------------ MODULE TurnPool ------------------------------
(***************************************************************************)
(* What the agent scheduler promises, without its locks, its cycle or its  *)
(* launch order: a pool of at most MaxConcurrent turns, at most one per    *)
(* agent, each of which ends.  src/src/core/agentScheduler.js states the   *)
(* promise in two comments: "prevent the same agent from being processed   *)
(* concurrently across overlapping cycles" and "total in-flight never      *)
(* exceeds MAX_CONCURRENT_AGENTS".                                         *)
(***************************************************************************)
EXTENDS Naturals, FiniteSets

CONSTANTS Agents,          \* the agents the pool may ever hold
          MaxConcurrent    \* SCHEDULER_CONFIG.MAX_CONCURRENT_AGENTS

VARIABLE running           \* the agents that have a turn in progress

Init == running = {}

(* A batch of turns starts: none of the agents already has one. *)
Begin(batch) ==
  /\ batch \cap running = {}
  /\ Cardinality(running \cup batch) <= MaxConcurrent
  /\ running' = running \cup batch

(* Turns end, one or, when the scheduler is stopped, all. *)
End(batch) ==
  /\ batch \subseteq running
  /\ running' = running \ batch

Next == \E batch \in SUBSET Agents : Begin(batch) \/ End(batch)

Spec ==
  /\ Init /\ [][Next]_running
  /\ \A a \in Agents : WF_running(\E batch \in SUBSET Agents : a \in batch /\ End(batch))
=============================================================================
