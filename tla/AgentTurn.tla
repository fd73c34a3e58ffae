----------------------------- MODULE AgentTurn -----------------------------
(***************************************************************************)
(* One agent of src/src/core/agentScheduler.js: the turns that drain its   *)
(* queues into the conversation, call the model and start tools, and       *)
(* everything that happens to the agent meanwhile.                         *)
(*                                                                         *)
(* An action is the code between two waits for a file, the model or a      *)
(* tool; an await of a value that is there does not let anybody in.  The   *)
(* agent object is replaced by every updateAgent; the one that was         *)
(* captured before then is stale, which matters to stopAgentExecution.     *)
(* Left out: the conversation's text and its compaction, task priorities,  *)
(* sessions, broadcasts; which answers are repetitive is TurnGuards.       *)
(***************************************************************************)
EXTENDS Naturals, FiniteSets

CONSTANTS UserMsgs, InterMsgs,   \* messages users and other agents may send
          Results,               \* tool results and error reports (a bound)
          Turns,                 \* identities of turns in flight (a bound)
          FirstMode,             \* the mode the agent is created in
          Events                 \* what this instance lets happen

Msgs == UserMsgs \cup InterMsgs \cup Results
MaxSeen == 2      \* a failing disk repeats a message at most this often (a bound)
AllEvents == {"toggle", "stop", "jobDone", "giveUp", "manage", "sync", "pause", "ask",
              "report", "hardFailure", "softFailure", "tokenLimit", "timeout",
              "noRequest", "diskFailure", "loop", "stall", "crowd"}

ASSUME ModeAssumption == FirstMode \in {"chat", "agent"}
ASSUME EventsAssumption == Events \subseteq AllEvents
ASSUME MsgsAssumption ==
  UserMsgs \cap InterMsgs = {} /\ (UserMsgs \cup InterMsgs) \cap Results = {}

VARIABLES
  agent,     \* the scalars of the agent object in the pool
  waiting,   \* is the end of the latest delay or pause still ahead?
  queue,     \* agent.messageQueues, the three kinds together
  arriving,  \* messages whose sender resumes the paused agent, and on which object
  seen,      \* how often each message is in the conversation
  turn,      \* turn[t]: where the turn stands, and the messages it works on
  lock,      \* the agent's entry in agentProcessingLocks
  stopping,  \* stopAgentExecution: "no", or waiting with a "current" or "stale" object
  leaving,   \* an updateAgent to CHAT mode has yet to remove the lock
  tool,      \* tool[r]: the execution whose result is r
  aborted    \* turns whose request's AbortController was aborted

vars ==
  <<agent, waiting, queue, arriving, seen, turn, lock, stopping, leaving, tool, aborted>>

Phases == {"idle", "tasks", "tracking", "clearing", "ready", "calling", "reporting",
           "resuming", "spending"}
Objects == {"no", "current", "stale"}   \* no object, the pool's, or one it replaced
Idle == [pc |-> "idle", batch |-> {}]
Running(t) == turn[t].pc # "idle"
Unread(m) == m \notin queue /\ seen[m] = 0
Held(m) ==       \* a turn will append it to the conversation, or queue it
  \E t \in Turns : turn[t].pc \in {"tasks", "reporting", "resuming"} /\ m \in turn[t].batch
Fresh(m) == Unread(m) /\ arriving[m] = "no" /\ ~Held(m)
New(msgs) == msgs \ Results
-----------------------------------------------------------------------------
TypeOK ==
  /\ agent \in [mode : {"chat", "agent"}, paused : BOOLEAN, delayed : BOOLEAN,
                awaiting : BOOLEAN, stopRequested : BOOLEAN, ttl : 0..1,
                tasks : {"none", "open", "done"}, workComplete : BOOLEAN]
  /\ waiting \in BOOLEAN
  /\ queue \in SUBSET Msgs
  /\ arriving \in [Msgs -> Objects]
  /\ seen \in [Msgs -> Nat]
  /\ turn \in [Turns -> [pc : Phases, batch : SUBSET Msgs]]
  /\ lock \in BOOLEAN
  /\ stopping \in Objects
  /\ leaving \in BOOLEAN
  /\ tool \in [Results -> {"unused", "running", "asking", "askingStale",
                         "reporting", "reported"}]
  /\ aborted \in SUBSET Turns

(* createAgent *)
Init ==
  /\ agent = [mode |-> FirstMode, paused |-> FALSE, delayed |-> FALSE,
              awaiting |-> FALSE, stopRequested |-> FALSE, ttl |-> 0,
              tasks |-> "none", workComplete |-> FALSE]
  /\ waiting = FALSE
  /\ queue = {}
  /\ arriving = [m \in Msgs |-> "no"]
  /\ seen = [m \in Msgs |-> 0]
  /\ turn = [t \in Turns |-> Idle]
  /\ lock = FALSE
  /\ stopping = "no"
  /\ leaving = FALSE
  /\ tool = [r \in Results |-> "unused"]
  /\ aborted = {}
-----------------------------------------------------------------------------
(* shouldAgentBeActive, in the order of its checks.  Queued work overrides *)
(* a delay; a pause has changed the status, which is checked before; and   *)
(* nothing overrides a question to the user.                               *)
Wants(a) ==
  IF a.mode = "agent" THEN a.tasks = "open" ELSE New(queue) # {}

Active(a) ==
  /\ ~a.paused
  /\ ~(a.delayed /\ waiting /\ queue = {})
  /\ ~a.awaiting
  /\ ~a.stopRequested
  /\ a.ttl > 0 \/ Wants(a)

(* getAllAgents ends pauses that have expired. *)
Refreshed(a) == [a EXCEPT !.paused = @ /\ waiting]

(* The agent as resumeAgent leaves it, and then _wakeAgentForMessage. *)
Resumed(a) == [a EXCEPT !.paused = FALSE]
Awake(a) == [a EXCEPT !.delayed = @ /\ ~waiting]

\* mutant of Spent: the counter is not checked before it is decremented
SpentBelowZero(a) == [a EXCEPT !.ttl = @ - 1]

(* The TTL is spent at the end of a turn that did not throw. *)
Spent(a) == [a EXCEPT !.ttl = IF @ > 0 THEN @ - 1 ELSE 0]

At(t, pc, batch) == turn' = [turn EXCEPT ![t] = [pc |-> pc, batch |-> batch]]

(* The agent as processAgent leaves a lock: over, whoever holds it by now. *)
Release(t) ==
  /\ turn' = [turn EXCEPT ![t] = Idle]
  /\ aborted' = aborted \ {t}
  /\ lock' = FALSE

(* ... and a TTL that was spent is written before the lock is given back.  *)
EndTurn(t) ==
  IF agent.ttl > 0
    THEN At(t, "spending", {}) /\ UNCHANGED <<lock, aborted>>
    ELSE Release(t)

Conversation == {m \in Msgs : seen[m] > 0}
Consolidated(batch) == [m \in Msgs |-> seen[m] + (IF m \in batch THEN 1 ELSE 0)]
-----------------------------------------------------------------------------
\* mutant of AppendBatch: the queues keep what was appended
AppendKeepsQueue(t, batch, stale) ==
  /\ seen' = Consolidated(batch \cup stale)
  /\ queue' = queue \ stale
  /\ At(t, IF batch \cap InterMsgs # {} THEN "tracking" ELSE "clearing", batch)

(* The consolidated message enters the conversation.  Messages of other    *)
(* agents are then tracked, which waits for the disk with the queues still *)
(* full; otherwise all queues are emptied before anything else happens.    *)
AppendBatch(t, batch, stale) ==
  /\ seen' = Consolidated(batch \cup stale)
  /\ IF batch \cap InterMsgs # {}
       THEN queue' = queue \ stale /\ At(t, "tracking", batch)
       ELSE queue' = {} /\ At(t, "clearing", batch)

\* mutant of ProcessAgentQueues: results of a finished job are thrown away
ProcessQueuesDropsStale(a, t) ==
  LET boundary == a.workComplete /\ New(queue) # {}
      stale == IF boundary THEN queue \cap Results ELSE {}
      batch == queue \ stale
  IN /\ agent' = [a EXCEPT !.workComplete = @ /\ ~boundary, !.tasks = "open"]
     /\ queue' = batch
     /\ At(t, "tasks", batch)
     /\ UNCHANGED seen

(* processAgentQueues.  Results of a finished job that meet new messages   *)
(* are drained on their own first.  In AGENT mode new messages get a task, *)
(* whose persistence is waited for before the snapshot is consolidated.    *)
ProcessAgentQueues(a, t) ==
  LET boundary == a.workComplete /\ New(queue) # {}
      stale == IF boundary THEN queue \cap Results ELSE {}
      batch == queue \ stale
      b == [a EXCEPT !.workComplete = @ /\ ~boundary]
  IN IF a.mode = "agent" /\ New(queue) # {}
       THEN /\ agent' = [b EXCEPT !.tasks = "open"]
            /\ seen' = Consolidated(stale)
            /\ queue' = batch
            /\ At(t, "tasks", batch)
       ELSE agent' = b /\ AppendBatch(t, batch, stale)

(* No queued messages: autoCreateInitialTaskIfNeeded, then the autonomous  *)
(* turn.  In CHAT mode, where only a TTL can have launched the turn, it is *)
(* spent at once.                                                          *)
ProcessAutonomously(a, t) ==
  /\ UNCHANGED <<queue, seen>>
  /\ lock' = TRUE
  /\ IF a.mode = "agent"
       THEN /\ agent' = [a EXCEPT !.tasks =
                           IF @ = "none" /\ ~a.workComplete /\ Conversation # {}
                             THEN "open" ELSE @]
            /\ At(t, "ready", {})
       ELSE agent' = Spent(a) /\ At(t, "spending", {})

(* A cycle launches a turn.  It goes home at once, in CHAT mode, when the  *)
(* loop detector fires; and without a trace when it is a duplicate and     *)
(* nothing is queued.                                                      *)
StartTurn(t) ==
  LET a == Refreshed(agent) IN
  /\ ~Running(t) /\ ~lock
  /\ Active(a)
  /\ \/ /\ queue # {}
        /\ ProcessAgentQueues(a, t)
        /\ lock' = TRUE
     \/ /\ queue = {}
        /\ ProcessAutonomously(a, t)
     \/ /\ "loop" \in Events
        /\ agent' = [a EXCEPT !.mode = "chat"]
        /\ UNCHANGED <<queue, seen, turn, lock>>
  /\ UNCHANGED <<waiting, arriving, stopping, leaving, tool, aborted>>

(* autoCreateTasksForMessages has returned, with its errors caught. *)
TasksPersisted(t) ==
  /\ turn[t].pc = "tasks"
  /\ AppendBatch(t, turn[t].batch, {})
  /\ UNCHANGED <<agent, waiting, arriving, lock, stopping, leaving, tool, aborted>>

(* "Clear all processed queues": whatever is in them by now. *)
TrackingPersisted(t) ==
  /\ turn[t].pc = "tracking"
  /\ queue' = {}
  /\ At(t, "clearing", turn[t].batch)
  /\ UNCHANGED <<agent, waiting, arriving, seen, lock, stopping, leaving, tool, aborted>>

\* mutant of ClearingPersisted: the queues are emptied after the write, not before
ClearAfterWrite(t) ==
  /\ turn[t].pc = "clearing"
  /\ queue' = {}
  /\ At(t, "ready", {})
  /\ UNCHANGED <<agent, waiting, arriving, seen, lock, stopping, leaving, tool, aborted>>

\* mutant of ClearingPersisted: the number of processed messages is taken from
\* the emptied queues, so that an agent in CHAT mode makes no request
ClearedCountIsZero(t) ==
  /\ turn[t].pc = "clearing"
  /\ IF agent.mode = "agent"
       THEN At(t, "ready", {}) /\ UNCHANGED <<lock, aborted>>
       ELSE Release(t)
  /\ UNCHANGED <<agent, waiting, queue, arriving, seen, stopping, leaving, tool>>

ClearingPersisted(t) ==
  /\ turn[t].pc = "clearing"
  /\ At(t, "ready", {})
  /\ UNCHANGED <<agent, waiting, queue, arriving, seen, lock, stopping, leaving, tool, aborted>>

(* persistAgentState throws: the turn ends in its finally clause, as it    *)
(* does after the write of a spent TTL, failed or not.                     *)
DiskFails(t) ==
  /\ "diskFailure" \in Events
  /\ turn[t].pc \in {"tracking", "clearing"}
  /\ \A m \in Msgs : seen[m] < MaxSeen
  /\ Release(t)
  /\ UNCHANGED <<agent, waiting, queue, arriving, seen, stopping, leaving, tool>>

(* The TTL is written: the finally clause gives the lock back. *)
TtlPersisted(t) ==
  /\ turn[t].pc = "spending"
  /\ Release(t)
  /\ UNCHANGED <<agent, waiting, queue, arriving, seen, stopping, leaving, tool>>

(* The messages are read and the request goes out: stopRequested and the   *)
(* mode are not looked at again.                                           *)
StartCall(t) ==
  /\ turn[t].pc = "ready"
  /\ At(t, "calling", Conversation)
  /\ UNCHANGED <<agent, waiting, queue, arriving, seen, lock, stopping, leaving, tool, aborted>>

(* ... or getAgentAIResponse returns without one, since there is no        *)
(* session to resolve keys with, or no model; the queues are empty by now. *)
NoRequest(t) ==
  /\ "noRequest" \in Events
  /\ turn[t].pc = "ready"
  /\ agent' = Spent(agent)
  /\ EndTurn(t)
  /\ UNCHANGED <<waiting, queue, arriving, seen, stopping, leaving, tool>>
-----------------------------------------------------------------------------
Unused(r) == tool[r] = "unused" /\ Fresh(r)

(* The answer carries a tool call, which is executed without being waited  *)
(* for; a tool with a builtinDelay delays the agent.                       *)
AnswerWithTool ==
  \E r \in Results :
    /\ Unused(r)
    /\ tool' = [tool EXCEPT ![r] = "running"]
    /\ UNCHANGED queue
    /\ \/ agent' = Spent(agent) /\ UNCHANGED waiting
       \/ /\ "pause" \in Events
          /\ agent' = [Spent(agent) EXCEPT !.delayed = TRUE]
          /\ waiting' = TRUE

(* The answer is text; in AGENT mode a reminder may be queued. *)
AnswerWithText ==
  /\ agent' = Spent(agent)
  /\ UNCHANGED waiting
  /\ \/ UNCHANGED <<queue, tool>>
     \/ \E r \in Results :
          /\ agent.mode = "agent" /\ Unused(r)
          /\ queue' = queue \cup {r}
          /\ tool' = [tool EXCEPT ![r] = "reported"]

(* One empty answer too many: _handleEmptyResponseStall. *)
AnswerStalls ==
  /\ "stall" \in Events
  /\ agent' = [Spent(agent) EXCEPT !.mode = "chat"]
  /\ UNCHANGED <<waiting, queue, tool>>

(* processAIResponse and the end of processAgent. *)
ModelAnswers(t) ==
  /\ turn[t].pc = "calling"
  /\ AnswerWithTool \/ AnswerWithText \/ AnswerStalls
  /\ EndTurn(t)
  /\ UNCHANGED <<arriving, seen, stopping, leaving>>

(* handleAIServiceFailure, but for the errors that are also reported. *)
ModelFails(t) ==
  /\ turn[t].pc = "calling"
  /\ \/ /\ "timeout" \in Events
        /\ agent' = [Spent(agent) EXCEPT !.mode = "chat"]
        /\ UNCHANGED waiting
     \/ /\ "softFailure" \in Events
        /\ agent' = [Spent(agent) EXCEPT !.delayed = TRUE]
        /\ waiting' = TRUE
     \/ /\ "tokenLimit" \in Events
        /\ agent' = Spent(agent)
        /\ UNCHANGED waiting
  /\ EndTurn(t)
  /\ UNCHANGED <<queue, arriving, seen, stopping, leaving, tool>>

(* A missing API key or an unknown error: the agent is delayed, and the    *)
(* state written, before the error is queued as a tool result.             *)
ModelFailsHard(t) ==
  /\ "hardFailure" \in Events
  /\ turn[t].pc = "calling"
  /\ agent' = [agent EXCEPT !.delayed = TRUE]
  /\ waiting' = TRUE
  /\ \E r \in Results :
       /\ Unused(r)
       /\ tool' = [tool EXCEPT ![r] = "reported"]
       /\ At(t, "reporting", {r})
  /\ UNCHANGED <<queue, arriving, seen, lock, stopping, leaving, aborted>>

(* ... through addToolResult, which wakes the agent: a pause that began    *)
(* meanwhile is ended, and that written, before the report is queued.      *)
ResumeToReport(t) ==
  /\ turn[t].pc = "reporting" /\ agent.paused
  /\ agent' = Resumed(agent)
  /\ At(t, "resuming", turn[t].batch)
  /\ UNCHANGED <<waiting, queue, arriving, seen, lock, stopping, leaving, tool, aborted>>

ReportFailure(t) ==
  /\ \/ turn[t].pc = "reporting" /\ ~agent.paused
     \/ turn[t].pc = "resuming"
  /\ agent' = Spent(Awake(agent))
  /\ queue' = queue \cup turn[t].batch
  /\ EndTurn(t)
  /\ UNCHANGED <<waiting, arriving, seen, stopping, leaving, tool>>

(* No chunk for AI_PRESTREAM_TIMEOUT_MS: abortRequest, which sets a signal *)
(* that no provider is given.                                              *)
Watchdog(t) ==
  /\ turn[t].pc = "calling"
  /\ aborted' = aborted \cup {t}
  /\ UNCHANGED <<agent, waiting, queue, arriving, seen, turn, lock, stopping, leaving, tool>>
-----------------------------------------------------------------------------
(* What tools do to their agent.  jobDone refuses success while tasks are  *)
(* open, and clears them all when the agent gives up.                      *)
JobDone(a) ==
  /\ \/ "jobDone" \in Events /\ a.tasks # "open"
     \/ "giveUp" \in Events
  /\ agent' = [a EXCEPT !.tasks = "none", !.workComplete = TRUE]
  /\ UNCHANGED waiting

(* TaskManager: the open tasks the model knows of, or none and one more    *)
(* turn to react.  Only sync, which replaces the list, can close the task  *)
(* of a message that is still queued.                                      *)
ManageTasks(a) ==
  /\ \/ "manage" \in Events /\ agent' = [a EXCEPT !.tasks = "open"]
     \/ /\ \/ "manage" \in Events /\ New(queue) = {}
           \/ "sync" \in Events
        /\ agent' = [a EXCEPT !.tasks = "done", !.ttl = 1]
  /\ UNCHANGED waiting

AgentDelay(a) ==
  /\ "pause" \in Events
  /\ agent' = [a EXCEPT !.paused = TRUE, !.delayed = TRUE]
  /\ waiting' = TRUE

ToolRuns(r) ==
  /\ tool[r] = "running"
  /\ tool' = [tool EXCEPT ![r] = "reporting"]
  /\ \/ UNCHANGED <<agent, waiting>>
     \/ JobDone(agent)
     \/ ManageTasks(agent)
     \/ AgentDelay(agent)
  /\ UNCHANGED <<queue, arriving, seen, turn, lock, stopping, leaving, aborted>>

(* A prompt or a request for credentials: awaitingUserInput is set, and    *)
(* the tool waits for an answer, a cancellation or its timeout.            *)
AskUser(r) ==
  /\ "ask" \in Events
  /\ tool[r] = "running"
  /\ agent' = [agent EXCEPT !.awaiting = TRUE]
  /\ tool' = [tool EXCEPT ![r] = "asking"]
  /\ UNCHANGED <<waiting, queue, arriving, seen, turn, lock, stopping, leaving, aborted>>

(* ... and deletes awaitingUserInput from the object it had put it on.  An *)
(* answer to an agent in CHAT mode is queued too: that is an AddMessage.   *)
AskEnds(r) ==
  /\ tool[r] \in {"asking", "askingStale"}
  /\ agent' = [agent EXCEPT !.awaiting = @ /\ tool[r] = "askingStale"]
  /\ tool' = [tool EXCEPT ![r] = "reporting"]
  /\ UNCHANGED <<waiting, queue, arriving, seen, turn, lock, stopping, leaving, aborted>>

(* _executeToolsAsync pushes the result without waking the agent, or is    *)
(* left with none when the execution threw.                                *)
ToolReports(r) ==
  /\ tool[r] = "reporting"
  /\ tool' = [tool EXCEPT ![r] = "reported"]
  /\ queue' \in {queue, queue \cup {r}}
  /\ UNCHANGED <<agent, waiting, arriving, seen, turn, lock, stopping, leaving, aborted>>

\* mutant of Queued: no task is made for the message
QueuedNoTask(m) ==
  /\ queue' = queue \cup {m}
  /\ agent' = Awake(agent)

(* The end of an arrival: in AGENT mode a task is made for a message. *)
Queued(m) ==
  /\ queue' = queue \cup {m}
  /\ agent' = [Awake(agent) EXCEPT !.tasks =
                  IF m \notin Results /\ agent.mode = "agent" THEN "open" ELSE @]

(* Its beginning, _wakeAgentForMessage: a paused agent is resumed, which   *)
(* waits for the disk; without a pause nothing is waited for.              *)
Arrive(m) ==
  \/ /\ agent.paused
     /\ agent' = Resumed(agent)
     /\ arriving' = [arriving EXCEPT ![m] = "current"]
     /\ UNCHANGED queue
  \/ ~agent.paused /\ Queued(m) /\ UNCHANGED arriving

(* addToolResult: asynchronous work of another service has finished. *)
AddToolResult(r) ==
  /\ "report" \in Events
  /\ Unused(r)
  /\ Arrive(r)
  /\ tool' = [tool EXCEPT ![r] = "reported"]
  /\ UNCHANGED <<waiting, seen, turn, lock, stopping, leaving, aborted>>

(* addUserMessage and addInterAgentMessage *)
AddMessage(m) ==
  /\ m \in New(Msgs) /\ Fresh(m)
  /\ Arrive(m)
  /\ UNCHANGED <<waiting, seen, turn, lock, stopping, leaving, tool, aborted>>

(* The agent is resumed, and the message queued.  The queues and the task  *)
(* list of a replaced object are those of its copy; its mode is not.       *)
AgentResumed(m) ==
  /\ arriving[m] # "no"
  /\ arriving' = [arriving EXCEPT ![m] = "no"]
  /\ \/ arriving[m] = "current" /\ Queued(m)
     \/ /\ arriving[m] = "stale"
        /\ queue' = queue \cup {m}
        /\ \/ UNCHANGED agent
           \/ m \notin Results /\ agent' = [agent EXCEPT !.tasks = "open"]
  /\ UNCHANGED <<waiting, seen, turn, lock, stopping, leaving, tool, aborted>>
-----------------------------------------------------------------------------
(* updateAgent with a mode: a copy takes the place of the agent object.    *)
(* After the write of a change to CHAT mode the lock is removed; only one  *)
(* such change is under way at a time (a bound).                           *)
Replaced(object) == IF object = "current" THEN "stale" ELSE object

SetMode(mode) ==
  /\ "toggle" \in Events
  /\ ~leaving
  /\ agent' = [agent EXCEPT !.mode = mode]
  /\ leaving' = (agent.mode = "agent" /\ mode = "chat")
  /\ stopping' = Replaced(stopping)
  /\ arriving' = [m \in Msgs |-> Replaced(arriving[m])]
  /\ tool' = [r \in Results |-> IF tool[r] = "asking" THEN "askingStale" ELSE tool[r]]
  /\ UNCHANGED <<waiting, queue, seen, turn, lock, aborted>>

LeftAgentMode ==
  /\ leaving
  /\ lock' = FALSE
  /\ leaving' = FALSE
  /\ UNCHANGED <<agent, waiting, queue, arriving, seen, turn, stopping, tool, aborted>>

(* abortRequest(agentId) reaches the request in flight, if there is one. *)
AbortRequest ==
  LET calling == {t \in Turns : turn[t].pc = "calling"} IN
  IF calling = {} THEN UNCHANGED aborted
  ELSE \E t \in calling : aborted' = aborted \cup {t}

(* stopAgentExecution up to the write of _transitionMode, and after it.    *)
(* An agent in CHAT mode needs no transition, so nothing is waited for.    *)
StopBegin ==
  /\ "stop" \in Events
  /\ stopping = "no" /\ agent.mode = "agent"
  /\ agent' = [agent EXCEPT !.stopRequested = TRUE, !.delayed = FALSE, !.mode = "chat"]
  /\ stopping' = "current"
  /\ AbortRequest
  /\ UNCHANGED <<waiting, queue, arriving, seen, turn, lock, leaving, tool>>

\* mutant of StopEnd: the flag is not cleared
StopEndKeepsFlag ==
  /\ stopping # "no"
  /\ lock' = FALSE
  /\ stopping' = "no"
  /\ UNCHANGED <<agent, waiting, queue, arriving, seen, turn, leaving, tool, aborted>>

StopEnd ==
  /\ stopping # "no"
  /\ agent' = [agent EXCEPT !.stopRequested = @ /\ stopping = "stale"]
  /\ lock' = FALSE
  /\ stopping' = "no"
  /\ UNCHANGED <<waiting, queue, arriving, seen, turn, leaving, tool, aborted>>

StopInChat ==
  /\ "stop" \in Events
  /\ agent.mode = "chat"
  /\ agent' = [agent EXCEPT !.stopRequested = FALSE, !.delayed = FALSE]
  /\ lock' = FALSE
  /\ AbortRequest
  /\ UNCHANGED <<waiting, queue, arriving, seen, turn, stopping, leaving, tool>>

(* The end of the latest delay or pause is reached. *)
ClockReaches ==
  /\ waiting
  /\ waiting' = FALSE
  /\ UNCHANGED <<agent, queue, arriving, seen, turn, lock, stopping, leaving, tool, aborted>>
-----------------------------------------------------------------------------
Proceeds(t) ==
  TasksPersisted(t) \/ TrackingPersisted(t) \/ ClearingPersisted(t) \/ TtlPersisted(t)
    \/ StartCall(t) \/ NoRequest(t) \/ ResumeToReport(t) \/ ReportFailure(t)
Works(r) == ToolRuns(r) \/ AskUser(r) \/ AskEnds(r) \/ ToolReports(r)
Settles(t) == ModelAnswers(t) \/ ModelFails(t) \/ ModelFailsHard(t)

Next ==
  \/ \E t \in Turns : StartTurn(t)
  \/ \E t \in Turns : Proceeds(t) \/ Settles(t) \/ DiskFails(t) \/ Watchdog(t)
  \/ \E r \in Results : Works(r) \/ AddToolResult(r)
  \/ \E m \in UserMsgs \cup InterMsgs : AddMessage(m)
  \/ \E m \in Msgs : AgentResumed(m)
  \/ \E mode \in {"chat", "agent"} : SetMode(mode)
  \/ LeftAgentMode
  \/ StopBegin \/ StopEnd \/ StopInChat
  \/ ClockReaches

(* The scheduler cycles, awaits of the disk and of tools return, questions *)
(* time out, and time passes.  A cycle with nothing queued may be skipped  *)
(* as a duplicate, so only those with something queued are sure to launch  *)
(* a turn; and when more agents are due than there are slots, the event    *)
(* "crowd", the round robin of the cycle may pass this one over for ever.  *)
(* That it does not otherwise is NoneIsPassedOver of SchedulerCycle.       *)
CodeFairness ==
  /\ WF_vars("crowd" \notin Events /\ queue # {} /\ \E t \in Turns : StartTurn(t))
  /\ \A t \in Turns : WF_vars(Proceeds(t))
  /\ \A r \in Results : WF_vars(Works(r))
  /\ \A t \in Turns : WF_vars(Watchdog(t))
  /\ WF_vars(StopEnd)
  /\ WF_vars(ClockReaches)

SpecSilent == Init /\ [][Next]_vars /\ CodeFairness

(* In Spec the provider answers, fails or closes the connection in the     *)
(* end, which the code relies on.                                          *)
Spec == SpecSilent /\ \A t \in Turns : WF_vars(Settles(t))
-----------------------------------------------------------------------------
(* A message is in a queue and in the conversation only while the turn     *)
(* that appended it waits for its tracking to be written: at no other      *)
(* moment could a second turn take it again.                               *)
QueuedIsUnread ==
  \A m \in queue :
    seen[m] > 0 => \E t \in Turns : turn[t].pc = "tracking" /\ m \in turn[t].batch

(* Whatever happens, with disks that fail and turns that overlap: only     *)
(* what arrived while a turn was between its snapshot and its clear can    *)
(* leave a queue unread; what the turn itself took never does.             *)
OnlyLateArrivalsAreDropped ==
  [][\A m \in Msgs :
       m \in queue /\ m \notin queue' /\ seen'[m] = 0 =>
         \E t \in Turns : turn[t].pc \in {"tasks", "tracking"} /\ m \notin turn[t].batch]_vars

(* "Clear all processed queues" (agentScheduler.js:1173): what leaves a    *)
(* queue has been put into the conversation.                               *)
NothingIsDropped ==
  [][\A m \in Msgs : m \in queue /\ m \notin queue' => seen'[m] > 0]_vars

(* An agent with a queued user message is launched in the end: whatever    *)
(* mode, delay, pause, question or failure it meets, the message leaves    *)
(* the queue.                                                              *)
QueuedIsDrained == \A m \in UserMsgs : m \in queue ~> m \notin queue

(* ... and, if the agent has a session and a model, a request that carries *)
(* it goes out.                                                            *)
Asked(m) == \E t \in Turns : turn[t].pc = "calling" /\ m \in turn[t].batch
QueuedIsAsked == \A m \in UserMsgs : m \in queue ~> Asked(m)

(* For its senders, an agent in CHAT mode is a mailbox.                    *)
Box == INSTANCE Mailbox WITH Waking <- UserMsgs, pending <- queue, delivered <- seen
MailboxSpec == Box!Spec

(* "Clear stop request flag after mode is set (it has been honored)"       *)
(* (agentScheduler.js:583): no agent keeps the flag, which shuts it out.   *)
StopIsHonored == agent.stopRequested ~> ~agent.stopRequested

(* "This immediately stops the HTTP connection and prevents further chunk  *)
(* processing" (agentScheduler.js:568): an aborted request has no answer.  *)
AbortedStartsNoTool ==
  [][\A t \in aborted, r \in Results :
       tool[r] = "unused" /\ tool'[r] = "running" => turn'[t] = turn[t]]_vars

(* "Without this, a hung model call wedges the per-agent processing lock   *)
(* indefinitely" (constants.js:731): with it, the lock is given back.      *)
LockIsReleased == lock ~> ~lock

(* "we still refuse to sideline an agent that has work to do"              *)
(* (agentActivityService.js:141): a pause yields to queued messages.       *)
PauseYieldsToMessages ==
  agent.mode = "chat" /\ New(queue) # {} /\ ~agent.stopRequested /\ ~agent.awaiting =>
    Active(Refreshed(agent))

(* "This allows the agent to call job-done or create new tasks before      *)
(* becoming idle" (taskManagerTool.js:549): the result that says that no   *)
(* task is left is read.                                                   *)
ResultsAreRead == \A r \in Results : r \in queue ~> r \notin queue
=============================================================================
