----------------------------- MODULE TurnGuards -----------------------------
(***************************************************************************)
(* What keeps one agent from running for ever on a model that has stopped  *)
(* making progress (src/src/core/agentScheduler.js): the window of state   *)
(* hashes, the skip of a state that was just processed, the reminder after *)
(* messages without tools, and the ring of empty answers.                  *)
(*                                                                         *)
(* The hash is taken over the last three assistant messages, before the    *)
(* turn; here it is those messages, so hash collisions are left out.  The  *)
(* agent has open tasks whenever it is in AGENT mode.                      *)
(***************************************************************************)
EXTENDS Naturals, Sequences, FiniteSets

CONSTANTS Answers,           \* contents the model may give
          KindOf,            \* KindOf[c]: "text", "tool", "markup" or "empty"
          Scripts,           \* sequences of answers a stuck model repeats
          Window,            \* STATE_HASH_WINDOW_SIZE
          Threshold,         \* REPETITION_THRESHOLD
          NoToolThreshold,   \* CONSECUTIVE_NO_TOOL_THRESHOLD
          EmptyThreshold,    \* EMPTY_RESPONSE_STALL_THRESHOLD
          MaxFree,           \* answers before the model gets stuck (a bound)
          MaxRunning,        \* tools running at once (a bound)
          Stoppable,         \* the scripts a fresh agent must be stopped on
          TalkOnly           \* ... unless it has called a tool before

Kinds == {"text", "tool", "markup", "empty"}
ASSUME KindAssumption == KindOf \in [Answers -> Kinds]
ASSUME ScriptAssumption ==
  Scripts \subseteq Seq(Answers) \ {<< >>} /\ Stoppable \cup TalkOnly \subseteq Scripts
ASSUME BoundAssumption ==
  {Window, Threshold, NoToolThreshold, EmptyThreshold, MaxRunning} \subseteq Nat \ {0}
    /\ MaxFree \in Nat

VARIABLES
  mode,       \* agent.mode
  messages,   \* is a user message queued?
  results,    \* is a tool result queued?
  running,    \* how many tools are executing
  asking,     \* is a turn waiting for its answer?
  tail,       \* the last three assistant messages
  history,    \* stateHashHistory
  noTool,     \* consecutiveNoToolMessages
  empties,    \* _emptyResponseTracker: its count, and has its window elapsed?
  script,     \* what a stuck model still has to say, << >> before it is stuck
  stuck,      \* the script it repeats
  free,       \* answers given before it got stuck
  said,       \* history only: how often each content was said since a reset
  fresh       \* history only: has nobody set the agent back to AGENT mode?

vars == <<mode, messages, results, running, asking, tail, history, noTool, empties,
          script, stuck, free, said, fresh>>

None == [count |-> 0, elapsed |-> FALSE]
LastOf(s, n) == IF Len(s) <= n THEN s ELSE SubSeq(s, Len(s) - n + 1, Len(s))
Least(m, n) == IF m <= n THEN m ELSE n
-----------------------------------------------------------------------------
TypeOK ==
  /\ mode \in {"chat", "agent"}
  /\ {messages, results, asking} \subseteq BOOLEAN
  /\ running \in 0..MaxRunning
  /\ tail \in Seq(Answers) /\ Len(tail) <= 3
  /\ history \in Seq(Seq(Answers)) /\ Len(history) <= 2 * Window
  /\ noTool \in 0..NoToolThreshold
  /\ empties \in [count : 0..EmptyThreshold, elapsed : BOOLEAN]
  /\ script \in Seq(Answers) /\ stuck \in Seq(Answers) /\ free \in 0..MaxFree
  /\ (script = << >>) = (stuck = << >>)
  /\ said \in [Answers -> 0..Threshold] /\ fresh \in BOOLEAN

Init ==
  /\ mode = "agent"
  /\ messages = TRUE /\ results = FALSE
  /\ running = 0 /\ asking = FALSE
  /\ tail = << >> /\ history = << >>
  /\ noTool = 0 /\ empties = None
  /\ script = << >> /\ stuck = << >> /\ free = 0
  /\ said = [c \in Answers |-> 0]
  /\ fresh = TRUE
-----------------------------------------------------------------------------
(* detectRepetitiveLoop, on the history as it is before the turn. *)
Occurrences ==
  LET window == LastOf(history, Window)
  IN Cardinality({i \in DOMAIN window : window[i] = tail})

IsLoop == Occurrences >= Threshold
IsImmediateDuplicate == history # << >> /\ history[Len(history)] = tail

\* mutant of IsDue: the skip does not look at what is queued
IsDueUnlessDuplicate ==
  /\ mode = "agent" \/ messages
  /\ ~IsImmediateDuplicate

(* A turn goes on to the model: the agent is active, and its state is new  *)
(* or something is queued for it.                                          *)
IsDue ==
  /\ mode = "agent" \/ messages
  /\ ~IsImmediateDuplicate \/ messages \/ results

Forgotten ==
  /\ history' = << >>
  /\ noTool' = 0
  /\ empties' = None
  /\ said' = [c \in Answers |-> 0]

(* handleRepetitiveLoop. *)
LoopDetected ==
  /\ ~asking
  /\ mode = "agent" \/ messages
  /\ IsLoop
  /\ mode' = "chat"
  /\ Forgotten
  /\ UNCHANGED <<messages, results, running, asking, tail, script, stuck, free, fresh>>

(* A turn drains the queues and asks the model.  Its state hash is that of *)
(* the messages so far, which do not change while it waits.                *)
Ask ==
  /\ ~asking /\ ~IsLoop /\ IsDue
  /\ asking' = TRUE
  /\ messages' = FALSE /\ results' = FALSE
  /\ UNCHANGED <<mode, running, tail, history, noTool, empties, script, stuck,
                 free, said, fresh>>

(* What the model says next: anything, or its script over and over. *)
Says(c) ==
  IF stuck = << >>
    THEN /\ free < MaxFree
         /\ free' = free + 1
         /\ UNCHANGED script
    ELSE /\ c = Head(script)
         /\ script' = IF Len(script) = 1 THEN stuck ELSE Tail(script)
         /\ UNCHANGED free

\* mutant of Recorded: cycles without progress are recorded too
RecordedAlways(c) == LastOf(Append(history, tail), 2 * Window)

\* mutant of Recorded: the history keeps too few entries for the window
RecordedShort(c) == LastOf(Append(history, tail), Window \div 2)

(* recordStateHash of the hash taken before the turn, if the turn advanced *)
(* the conversation.                                                       *)
Recorded(c) ==
  IF KindOf[c] = "empty" THEN history ELSE LastOf(Append(history, tail), 2 * Window)

(* addMessageToConversation drops an empty message. *)
AppendAnswer(c) ==
  IF KindOf[c] = "empty" THEN UNCHANGED <<tail, said>>
  ELSE /\ tail' = LastOf(Append(tail, c), 3)
       /\ said' = [said EXCEPT ![c] = Least(@ + 1, Threshold)]

(* In AGENT mode an answer without tool markup is counted, and from the    *)
(* threshold on each is followed by a queued reminder.                     *)
Uncalled(c) == mode = "agent" /\ KindOf[c] \in {"text", "empty"}


Remind(c) ==
  results' = (results \/ (Uncalled(c) /\ noTool + 1 >= NoToolThreshold))
CountNoTool(c) ==
  noTool' = IF Uncalled(c) THEN Least(noTool + 1, NoToolThreshold) ELSE noTool

(* _trackEmptyResponse: enough empty answers over a long enough time. *)
Stalls(c) ==
  KindOf[c] = "empty" /\ empties.count + 1 >= EmptyThreshold /\ empties.elapsed

(* _executeToolsAsync finds a tool to run, or no tool in the markup. *)
RunTool(c) ==
  IF KindOf[c] = "tool" THEN running < MaxRunning /\ running' = running + 1
  ELSE UNCHANGED running

(* processAIResponse and the bookkeeping after it. *)
Answer(c) ==
  /\ asking /\ asking' = FALSE
  /\ Says(c) /\ ~Stalls(c)
  /\ AppendAnswer(c)
  /\ RunTool(c)
  /\ CountNoTool(c) /\ Remind(c)
  /\ history' = Recorded(c)
  /\ empties' = IF KindOf[c] = "empty"
                  THEN [empties EXCEPT !.count = Least(@ + 1, EmptyThreshold)] ELSE None
  /\ UNCHANGED <<mode, messages, stuck, fresh>>

(* The same, ended by _handleEmptyResponseStall. *)
StallingAnswer(c) ==
  /\ asking /\ asking' = FALSE
  /\ Says(c) /\ Stalls(c)
  /\ Remind(c)
  /\ mode' = "chat"
  /\ Forgotten
  /\ UNCHANGED <<messages, running, tail, stuck, fresh>>

(* A tool is done: its result is queued, the no-tool counter is reset. *)
ToolReports ==
  /\ running > 0
  /\ running' = running - 1
  /\ results' = TRUE
  /\ noTool' = 0
  /\ UNCHANGED <<mode, messages, asking, tail, history, empties, script, stuck,
                 free, said, fresh>>

ClockPasses ==
  /\ empties.count > 0 /\ ~empties.elapsed
  /\ empties' = [empties EXCEPT !.elapsed = TRUE]
  /\ UNCHANGED <<mode, messages, results, running, asking, tail, history, noTool,
                 script, stuck, free, said, fresh>>

(* The user writes, or sets the agent back to AGENT mode. *)
AddUserMessage ==
  /\ messages' = TRUE
  /\ UNCHANGED <<mode, results, running, asking, tail, history, noTool, empties,
                 script, stuck, free, said, fresh>>

SetAgentMode ==
  /\ mode = "chat"
  /\ mode' = "agent"
  /\ fresh' = FALSE
  /\ UNCHANGED <<messages, results, running, asking, tail, history, noTool, empties,
                 script, stuck, free, said>>

(* From here on the model repeats s. *)
GetsStuck(s) ==
  /\ stuck = << >>
  /\ stuck' = s /\ script' = s
  /\ UNCHANGED <<mode, messages, results, running, asking, tail, history, noTool,
                 empties, free, said, fresh>>
-----------------------------------------------------------------------------
Next ==
  \/ LoopDetected \/ Ask
  \/ \E c \in Answers : Answer(c) \/ StallingAnswer(c)
  \/ ToolReports
  \/ ClockPasses
  \/ AddUserMessage
  \/ SetAgentMode
  \/ \E s \in Scripts : GetsStuck(s)

(* The scheduler keeps cycling, models answer, tools finish, time passes. *)
Fairness ==
  /\ WF_vars(LoopDetected \/ Ask)
  /\ WF_vars(\E c \in Answers : Answer(c) \/ StallingAnswer(c))
  /\ WF_vars(ToolReports)
  /\ WF_vars(ClockPasses)

Spec == Init /\ [][Next]_vars /\ Fairness
-----------------------------------------------------------------------------
(* Nothing moves the agent but a user: its state is that of the last turn, *)
(* so that the next one is skipped, and nothing will be queued.            *)
Skipped == ~asking /\ running = 0 /\ ~messages /\ ~results /\ IsImmediateDuplicate
HasCalled == \E c \in Answers : KindOf[c] = "tool" /\ said[c] > 0


(* "Without this guard, an agent that finishes a turn, gets tool results   *)
(* back, and then matches the prior hash stalls forever"                   *)
(* (agentScheduler.js:833): queued results are always read.                *)
ResultsAreProcessed == results /\ mode = "agent" /\ stuck # << >> ~> ~results \/ mode = "chat"

(* "phantom duplicates that detectRepetitiveLoop misreads as progress      *)
(* toward a loop" (agentScheduler.js:910): the detector only fires on an   *)
(* output that was given again and again.                                  *)
LoopsAreRepetitions ==
  [][LoopDetected => \E c \in Answers : said[c] >= Threshold]_vars

(* "we keep retrying -- the next cycle may produce a real message"         *)
(* (agentScheduler.js:920).                                                *)
EmptyAnswersAreRetried == empties.count = 1 ~> empties.count # 1
=============================================================================
