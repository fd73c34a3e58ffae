--------------------------- MODULE SchedulerCycle ---------------------------
(***************************************************************************)
(* The fleet scheduler of src/src/core/agentScheduler.js: one timer fires  *)
(* processingCycle, which picks agents that want to run, and launches a    *)
(* turn (processAgent) for each without waiting for it.  A turn holds the  *)
(* agent's entry in agentProcessingLocks until its finally clause.         *)
(*                                                                         *)
(* JavaScript runs one task at a time.  processingCycle only awaits values *)
(* that are already there, so the cycle, the taking of the locks and the   *)
(* early returns of processAgent are one task, hence one action; the rest  *)
(* of a turn (file writes, the model call) leaves the task, and everything *)
(* else may happen before it ends.  What happens inside a turn is the      *)
(* subject of AgentTurn; here an agent "is due" when shouldAgentBeActive   *)
(* would say so, and its environment may change that at any time.          *)
(***************************************************************************)
EXTENDS Naturals, Sequences, FiniteSets, SequencesExt

CONSTANTS Agents,          \* the agents the pool may ever hold
          Turns,           \* identities of the turns that can be in flight at once (a bound)
          NoAgent,         \* the value of a turn identity that is not in use
          MaxConcurrent    \* SCHEDULER_CONFIG.MAX_CONCURRENT_AGENTS

ASSUME AgentsAssumption == IsFiniteSet(Agents) /\ NoAgent \notin Agents
ASSUME TurnsAssumption == IsFiniteSet(Turns)
ASSUME MaxConcurrentAssumption == MaxConcurrent \in Nat \ {0}

VARIABLES
  isRunning,      \* the interval timer is set
  pool,           \* AgentPool.agents: a Map, so its order is that of insertion
  due,            \* the agents for which shouldAgentBeActive holds
  locks,          \* keys of agentProcessingLocks
  inFlight,       \* inFlight[t]: the agent turn t works on, NoAgent when t is unused
  lastLaunched,   \* _lastLaunchedAgentIds
  deleted,        \* history only: ids deleted with their files, which never come back
  orphan          \* history only: the turns in flight whose lock somebody else removed

vars == <<isRunning, pool, due, locks, inFlight, lastLaunched, deleted, orphan>>

InPool == {pool[i] : i \in DOMAIN pool}
ActiveTurns == {t \in Turns : inFlight[t] # NoAgent}
TurnsOf(a) == {t \in Turns : inFlight[t] = a}
Owners == ActiveTurns \ orphan    \* the turns that still hold their agent's lock
-----------------------------------------------------------------------------
TypeOK ==
  /\ isRunning \in BOOLEAN
  /\ pool \in Seq(Agents) /\ IsInjective(pool)
  /\ due \in SUBSET Agents
  /\ locks \in SUBSET Agents
  /\ inFlight \in [Turns -> Agents \cup {NoAgent}]
  /\ lastLaunched \in SUBSET Agents
  /\ deleted \in SUBSET Agents
  /\ orphan \in SUBSET ActiveTurns

Init ==
  /\ isRunning = FALSE
  /\ pool = << >>
  /\ due = {}
  /\ locks = {}
  /\ inFlight = [t \in Turns |-> NoAgent]
  /\ lastLaunched = {}
  /\ deleted = {}
  /\ orphan = {}
-----------------------------------------------------------------------------
(* LoxiaSystem.start calls AgentScheduler.start once the services are up. *)
Start ==
  /\ ~isRunning
  /\ isRunning' = TRUE
  /\ UNCHANGED <<pool, due, locks, inFlight, lastLaunched, deleted, orphan>>

(* AgentScheduler.stop forgets every lock, whether or not a turn holds it. *)
Stop ==
  /\ isRunning
  /\ isRunning' = FALSE
  /\ locks' = {}
  /\ orphan' = ActiveTurns
  /\ UNCHANGED <<pool, due, inFlight, lastLaunched, deleted>>

(* createAgent or the import of an archived agent: Map.set on a new key    *)
(* puts the agent at the end of the iteration order.                       *)
Load(a) ==
  /\ a \notin InPool \cup deleted
  /\ pool' = Append(pool, a)
  /\ UNCHANGED <<isRunning, due, locks, inFlight, lastLaunched, deleted, orphan>>

(* addAgent, called for every queued message and every switch to AGENT     *)
(* mode: the agent becomes due, and the timer is set if it was not.        *)
AddAgent(a) ==
  /\ a \in InPool
  /\ due' = due \cup {a}
  /\ isRunning' = TRUE
  /\ UNCHANGED <<pool, locks, inFlight, lastLaunched, deleted, orphan>>

(* The agent stops being due on its own: delayed, paused, out of tasks. *)
Settle(a) ==
  /\ a \in due
  /\ due' = due \ {a}
  /\ UNCHANGED <<isRunning, pool, locks, inFlight, lastLaunched, deleted, orphan>>

-----------------------------------------------------------------------------
(* The stable sort of processingCycle: agents of the previous launch go    *)
(* last, and the pool's order decides among equals.                        *)
Earlier(a, b) == \E i, j \in DOMAIN pool : i < j /\ pool[i] = a /\ pool[j] = b

Before(a, b) ==
  \/ a \notin lastLaunched /\ b \in lastLaunched
  \/ (a \in lastLaunched <=> b \in lastLaunched) /\ Earlier(a, b)

\* mutant of Candidates: agents in flight from an earlier cycle are not skipped
CandidatesLockedToo == due \cap InPool

\* mutant of Candidates: agents of the previous launch are skipped, not put last
CandidatesNotRepeated == ((due \cap InPool) \ locks) \ lastLaunched

Candidates == (due \cap InPool) \ locks

\* mutant of SlotsAvailable: turns of earlier cycles are not counted
SlotsPerCycle == MaxConcurrent

SlotsAvailable ==
  IF Cardinality(locks) < MaxConcurrent THEN MaxConcurrent - Cardinality(locks) ELSE 0

(* agentsToLaunch: the first slotsAvailable candidates of that order. *)
IsLaunchable(batch) ==
  /\ batch # {}
  /\ Cardinality(batch) <= SlotsAvailable
  /\ batch # Candidates => Cardinality(batch) = SlotsAvailable
  /\ \A a \in batch, b \in Candidates \ batch : Before(a, b)

(* processingCycle and, in the same task, processAgent for each agent      *)
(* launched up to its first real wait.  A turn that shouldSkipIteration,   *)
(* the duplicate-state check or stopRequested sends home has given its     *)
(* lock back by then; the others, `working', keep it.                      *)
ProcessingCycle ==
  /\ isRunning
  /\ \E batch \in SUBSET Candidates :
       /\ IsLaunchable(batch)
       /\ lastLaunched' = batch
       /\ \E working \in SUBSET batch, fresh \in SUBSET (Turns \ ActiveTurns) :
            \E start \in Bijection(fresh, working) :
              /\ locks' = locks \cup working
              /\ inFlight' = [t \in Turns |->
                                IF t \in fresh THEN start[t] ELSE inFlight[t]]
  /\ UNCHANGED <<isRunning, pool, due, deleted, orphan>>

\* mutant of FinishTurn: a turn that fails leaves its lock behind
FinishTurnLeak(t) ==
  LET a == inFlight[t] IN
  /\ t \in ActiveTurns
  /\ inFlight' = [inFlight EXCEPT ![t] = NoAgent]
  /\ locks' \in {locks, locks \ {a}}
  /\ orphan' = (orphan \cup TurnsOf(a)) \ {t}
  /\ due' \in {due, due \ {a}}
  /\ UNCHANGED <<isRunning, pool, lastLaunched, deleted>>

(* The finally clause of processAgent deletes the lock under the agent's   *)
(* id, whichever turn that lock belongs to by now.  The agent stays due if *)
(* it has more to do.                                                      *)
FinishTurn(t) ==
  LET a == inFlight[t] IN
  /\ t \in ActiveTurns
  /\ inFlight' = [inFlight EXCEPT ![t] = NoAgent]
  /\ locks' = locks \ {a}
  /\ orphan' = (orphan \cup TurnsOf(a)) \ {t}
  /\ due' \in {due, due \ {a}}
  /\ UNCHANGED <<isRunning, pool, lastLaunched, deleted>>

(* removeAgent as stopAgentExecution and updateAgent (AGENT to CHAT) call  *)
(* it: the lock goes, the turn in flight does not.                         *)
RemoveAgent(a) ==
  /\ a \in InPool
  /\ locks' = locks \ {a}
  /\ orphan' = orphan \cup TurnsOf(a)
  /\ due' \in {due, due \ {a}}
  /\ UNCHANGED <<isRunning, pool, inFlight, lastLaunched, deleted>>

Removed(a) ==
  \E i \in DOMAIN pool : pool[i] = a /\ pool' = RemoveAt(pool, i)

(* unloadAgent: out of the pool, and removeAgent for the scheduler. *)
UnloadAgent(a) ==
  /\ Removed(a)
  /\ due' = due \ {a}
  /\ locks' = locks \ {a}
  /\ orphan' = orphan \cup TurnsOf(a)
  /\ UNCHANGED <<isRunning, inFlight, lastLaunched, deleted>>

(* deleteAgent: out of the pool; the scheduler is not told. *)
DeleteAgent(a) ==
  /\ Removed(a)
  /\ deleted' = deleted \cup {a}
  /\ due' = due \ {a}
  /\ UNCHANGED <<isRunning, locks, inFlight, lastLaunched, orphan>>
-----------------------------------------------------------------------------
Next ==
  \/ Start
  \/ Stop
  \/ ProcessingCycle
  \/ \E t \in Turns : FinishTurn(t)
  \/ \E a \in Agents : Load(a) \/ AddAgent(a) \/ Settle(a)
  \/ \E a \in Agents : RemoveAgent(a) \/ UnloadAgent(a) \/ DeleteAgent(a)

(* The timer keeps firing while it is set, and every wait of a turn ends:  *)
(* file writes complete, and the provider answers, fails or closes the     *)
(* connection in the end (the watchdog cannot make it, see AgentTurn).     *)
Fairness ==
  /\ WF_vars(ProcessingCycle)
  /\ \A t \in Turns : WF_vars(FinishTurn(t))

Spec == Init /\ [][Next]_vars /\ Fairness
-----------------------------------------------------------------------------
(* Two turns of one agent never both hold its lock: whatever stops,        *)
(* unloads and restarts the agent, a turn can only overlap with one whose  *)
(* lock was taken away from outside (agentScheduler.js:94-97).             *)
OneOwnerPerAgent ==
  \A t, u \in Owners : inFlight[t] = inFlight[u] => t = u

(* "don't leave stale locks" (agentScheduler.js:768): every lock belongs   *)
(* to a turn that will delete it, so no early return, deletion or unload   *)
(* wedges an agent for good.                                               *)
NoStaleLock ==
  \A a \in locks : \E t \in Owners : inFlight[t] = a

(* The turns that still hold their lock respect MAX_CONCURRENT_AGENTS,     *)
(* over all cycles and not per cycle.                                      *)
OwnersWithinCap == Cardinality(Owners) <= MaxConcurrent

(* The inductive invariant: a turn that owns a lock has it, every lock has *)
(* its owner, and the locks, which the cycle counts, are within the cap.   *)
OwnersHoldTheirLock == \A t \in Owners : inFlight[t] \in locks
LocksWithinCap == Cardinality(locks) <= MaxConcurrent
IInv ==
  /\ TypeOK
  /\ OwnersHoldTheirLock
  /\ NoStaleLock
  /\ OneOwnerPerAgent
  /\ LocksWithinCap

(* The comment on agentProcessingLocks: no agent is ever processed by two  *)
(* turns at once.                                                          *)
NoOverlap ==
  \A t, u \in ActiveTurns : inFlight[t] = inFlight[u] => t = u

(* "Cap new launches so total in-flight never exceeds                      *)
(* MAX_CONCURRENT_AGENTS" (agentScheduler.js:697).                         *)
InFlightWithinCap == Cardinality(ActiveTurns) <= MaxConcurrent

(* Round robin (agentScheduler.js:99-101: "agents that were skipped due to *)
(* concurrency cap get priority in the next cycle"): when all agents stay  *)
(* due and the scheduler stays up, each is launched again and again.       *)
AllStayDue == <>[](isRunning /\ due = Agents)
RoundRobin == AllStayDue => \A a \in Agents : []<>(a \in lastLaunched)

(* What the round robin does give: an agent that stays due, while those    *)
(* due and those with a lock fit into the slots, is launched again and     *)
(* again, whatever else stops, ends, comes and goes.                       *)
HasRoom(a) ==
  isRunning /\ a \in due \cap InPool /\ Cardinality(locks \cup (due \cap InPool)) <= MaxConcurrent
Launches(a) == ProcessingCycle /\ a \in lastLaunched'
NoneIsPassedOver == \A a \in Agents : <>[]HasRoom(a) => []<><<Launches(a)>>_vars

(* The turns that hold their lock are a TurnPool: to take the lock of a    *)
(* turn away from outside is to end it, though it is still in flight.      *)
Pool == INSTANCE TurnPool WITH running <- {inFlight[t] : t \in Owners}
PoolSpec == Pool!Spec
=============================================================================
