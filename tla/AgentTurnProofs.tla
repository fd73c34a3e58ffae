--------------------------- MODULE AgentTurnProofs ---------------------------
(***************************************************************************)
(* Proofs about AgentTurn, for every set of messages, results and turns,   *)
(* both modes and every set of events: the types, which messages a queue   *)
(* can lose, that a queue holds what was not read, and that an agent in    *)
(* CHAT mode is a mailbox for its senders.                                 *)
(***************************************************************************)
EXTENDS AgentTurn, TLAPS

AgentType == [mode : {"chat", "agent"}, paused : BOOLEAN, delayed : BOOLEAN,
              awaiting : BOOLEAN, stopRequested : BOOLEAN, ttl : 0..1,
              tasks : {"none", "open", "done"}, workComplete : BOOLEAN]

ToolStates == {"unused", "running", "asking", "askingStale", "reporting", "reported"}

(* A result is queued once: until it is reported, it is in no queue, no    *)
(* conversation and no turn that will append it, and not on its way.       *)
UnreportedAreFresh == \A r \in Results : tool[r] # "reported" => Fresh(r)

(* ... and so is the report of a failure, until its turn queues it.        *)
ReportsAreFresh ==
  \A t \in Turns : turn[t].pc \in {"reporting", "resuming"} =>
    \A m \in turn[t].batch :
      /\ m \in Results /\ tool[m] = "reported" /\ Unread(m) /\ arriving[m] = "no"
      /\ \A u \in Turns \ {t} :
           turn[u].pc \in {"tasks", "reporting", "resuming"} => m \notin turn[u].batch

(* ... and what waits for a paused agent to be resumed.                    *)
ArrivalsAreUnread ==
  \A m \in Msgs : arriving[m] # "no" =>
    /\ Unread(m) /\ ~Held(m)
    /\ m \in Results => tool[m] = "reported"

(* What a turn has tracked it has appended.                                *)
TrackedAreSeen ==
  \A t \in Turns : turn[t].pc = "tracking" => \A m \in turn[t].batch : seen[m] > 0

Sound == UnreportedAreFresh /\ ReportsAreFresh /\ ArrivalsAreUnread /\ TrackedAreSeen

IInv == TypeOK /\ Sound
-----------------------------------------------------------------------------
LEMMA MsgFacts ==
  /\ UserMsgs \subseteq Msgs /\ InterMsgs \subseteq Msgs /\ Results \subseteq Msgs
  /\ \A m \in UserMsgs \cup InterMsgs : m \notin Results
BY MsgsAssumption DEF Msgs

LEMMA AgentTypes ==
  ASSUME NEW a \in AgentType, waiting \in BOOLEAN
  PROVE  /\ Refreshed(a) \in AgentType /\ Awake(a) \in AgentType /\ Spent(a) \in AgentType
         /\ Resumed(a) \in AgentType
         /\ \A b \in BOOLEAN : /\ [a EXCEPT !.delayed = b] \in AgentType
                               /\ [a EXCEPT !.workComplete = b] \in AgentType
         /\ \A mode \in {"chat", "agent"} : [a EXCEPT !.mode = mode] \in AgentType
         /\ \A tasks \in {"none", "open", "done"} : [a EXCEPT !.tasks = tasks] \in AgentType
<1>1. /\ a.paused \in BOOLEAN /\ a.delayed \in BOOLEAN /\ a.ttl \in 0..1
      /\ FALSE \in BOOLEAN /\ (a.paused /\ waiting) \in BOOLEAN /\ (a.delayed /\ ~waiting) \in BOOLEAN
  BY DEF AgentType
<1>2. Refreshed(a) \in AgentType /\ Awake(a) \in AgentType /\ Resumed(a) \in AgentType
  BY <1>1 DEF Refreshed, Awake, Resumed, AgentType
<1>3. Spent(a) \in AgentType
  BY <1>1 DEF Spent, AgentType
<1>4. QED
  BY <1>2, <1>3 DEF AgentType

LEMMA TypesOfAgent ==
  ASSUME IInv
  PROVE  /\ agent \in AgentType /\ waiting \in BOOLEAN
         /\ Refreshed(agent) \in AgentType /\ Awake(agent) \in AgentType
         /\ Spent(agent) \in AgentType /\ Resumed(agent) \in AgentType
<1>1. agent \in AgentType /\ waiting \in BOOLEAN
  BY DEF IInv, TypeOK, AgentType
<1>2. QED
  BY <1>1, AgentTypes

(* The turns after one of them moved. *)
LEMMA AtFacts ==
  ASSUME TypeOK, NEW t \in Turns, NEW pc \in Phases, NEW batch \in SUBSET Msgs,
         At(t, pc, batch)
  PROVE  /\ turn' \in [Turns -> [pc : Phases, batch : SUBSET Msgs]]
         /\ turn'[t].pc = pc /\ turn'[t].batch = batch
         /\ \A u \in Turns \ {t} : turn'[u] = turn[u]
BY DEF TypeOK, At

LEMMA ReleaseFacts ==
  ASSUME TypeOK, NEW t \in Turns, Release(t)
  PROVE  /\ turn' \in [Turns -> [pc : Phases, batch : SUBSET Msgs]]
         /\ turn'[t].pc = "idle"
         /\ \A u \in Turns \ {t} : turn'[u] = turn[u]
         /\ lock' \in BOOLEAN /\ aborted' \in SUBSET Turns
BY DEF TypeOK, Release, Idle, Phases

LEMMA EndTurnFacts ==
  ASSUME TypeOK, NEW t \in Turns, EndTurn(t)
  PROVE  /\ turn' \in [Turns -> [pc : Phases, batch : SUBSET Msgs]]
         /\ turn'[t].pc \in {"idle", "spending"}
         /\ \A u \in Turns \ {t} : turn'[u] = turn[u]
         /\ lock' \in BOOLEAN /\ aborted' \in SUBSET Turns
<1>1. CASE Release(t)
  BY <1>1, ReleaseFacts
<1>2. CASE At(t, "spending", {}) /\ UNCHANGED <<lock, aborted>>
  BY <1>2, AtFacts DEF Phases, TypeOK
<1>3. QED
  BY <1>1, <1>2 DEF EndTurn

LEMMA ConsolidatedFacts ==
  ASSUME TypeOK, NEW batch \in SUBSET Msgs
  PROVE  /\ Consolidated(batch) \in [Msgs -> Nat]
         /\ \A m \in Msgs : Consolidated(batch)[m] >= seen[m]
         /\ \A m \in batch : Consolidated(batch)[m] > 0
         /\ \A m \in Msgs \ batch : Consolidated(batch)[m] = seen[m]
BY DEF TypeOK, Consolidated

(* What a step may do without disturbing the invariant: messages arrive,   *)
(* results among them that were not reported before, or set out to         *)
(* arrive, while turns move to places where they hold nothing.             *)
LEMMA Arrival ==
  ASSUME IInv, seen' = seen, NEW new \in SUBSET Msgs, queue' \subseteq queue \cup new,
         \A r \in Results : tool'[r] # "reported" =>
           tool[r] # "reported" /\ r \notin new /\ arriving'[r] = "no",
         \A t \in Turns : turn'[t].pc \in {"tasks", "tracking", "reporting", "resuming"} =>
           turn'[t] = turn[t],
         \A t \in Turns : turn'[t].pc \in {"reporting", "resuming"} =>
           \A m \in turn[t].batch : m \notin new /\ arriving'[m] = "no",
         \A m \in Msgs : arriving'[m] # "no" =>
           m \notin new /\ (arriving[m] # "no" \/ (Unread(m) /\ ~Held(m)))
  PROVE  queue' \in SUBSET Msgs /\ Sound'
<1>1. queue' \in SUBSET Msgs
  BY DEF IInv, TypeOK
<1>2. \A m : Held(m)' => Held(m)
  BY DEF Held
<1>3. \A m : Unread(m) /\ m \notin new => Unread(m)'
  BY DEF Unread
<1>4. UnreportedAreFresh'
  <2>1. ASSUME NEW r \in Results, tool'[r] # "reported"
        PROVE  Unread(r)' /\ arriving'[r] = "no" /\ ~Held(r)'
    <3>1. tool[r] # "reported" /\ r \notin new /\ arriving'[r] = "no"
      BY <2>1
    <3>2. Unread(r) /\ ~Held(r)
      BY <3>1 DEF IInv, Sound, UnreportedAreFresh, Fresh
    <3>3. QED
      BY <3>1, <3>2, <1>2, <1>3
  <2>2. QED
    BY <2>1 DEF UnreportedAreFresh, Fresh
<1>5. ReportsAreFresh'
  <2>1. ASSUME NEW t \in Turns, turn'[t].pc \in {"reporting", "resuming"}, NEW m \in turn'[t].batch
        PROVE  m \in Results /\ tool'[m] = "reported" /\ Unread(m)' /\ arriving'[m] = "no"
    <3>1. turn'[t] = turn[t] /\ m \notin new /\ arriving'[m] = "no"
      BY <2>1
    <3>2. m \in Results /\ tool[m] = "reported" /\ Unread(m)
      BY <2>1, <3>1 DEF IInv, Sound, ReportsAreFresh
    <3>3. QED
      BY <3>1, <3>2, <1>3
  <2>2. ASSUME NEW t \in Turns, turn'[t].pc \in {"reporting", "resuming"}, NEW m \in turn'[t].batch,
               NEW u \in Turns \ {t}, turn'[u].pc \in {"tasks", "reporting", "resuming"}
        PROVE  m \notin turn'[u].batch
    <3>1. turn'[t] = turn[t] /\ turn'[u] = turn[u]
      BY <2>2
    <3>2. QED
      BY <2>2, <3>1 DEF IInv, Sound, ReportsAreFresh
  <2>3. QED
    BY <2>1, <2>2 DEF ReportsAreFresh
<1>6. ArrivalsAreUnread'
  <2>1. ASSUME NEW m \in Msgs, arriving'[m] # "no"
        PROVE  Unread(m)' /\ ~Held(m)' /\ (m \in Results => tool'[m] = "reported")
    <3>1. m \notin new /\ Unread(m) /\ ~Held(m)
      BY <2>1 DEF IInv, Sound, ArrivalsAreUnread
    <3>2. QED
      BY <2>1, <3>1, <1>2, <1>3
  <2>2. QED
    BY <2>1 DEF ArrivalsAreUnread
<1>7. TrackedAreSeen'
  BY DEF IInv, Sound, TrackedAreSeen
<1>8. QED
  BY <1>1, <1>4, <1>5, <1>6, <1>7 DEF Sound

(* ... in particular, one turn moves, and messages leave the queues.       *)
LEMMA TurnsMove ==
  ASSUME IInv, tool' = tool, seen' = seen, arriving' = arriving,
         NEW t \in Turns, \A u \in Turns \ {t} : turn'[u] = turn[u],
         turn'[t].pc \notin {"tasks", "tracking", "reporting", "resuming"},
         queue' \subseteq queue
  PROVE  Sound'
<1>1. \A u \in Turns : turn'[u].pc \in {"tasks", "tracking", "reporting", "resuming"} =>
        turn'[u] = turn[u]
  OBVIOUS
<1>2. \A r \in Results : tool'[r] # "reported" => arriving'[r] = "no"
  BY DEF IInv, Sound, UnreportedAreFresh, Fresh
<1>3. \A u \in Turns : turn'[u].pc \in {"reporting", "resuming"} =>
        \A m \in turn[u].batch : arriving'[m] = "no"
  BY <1>1 DEF IInv, Sound, ReportsAreFresh
<1>4. {} \in SUBSET Msgs /\ queue' \subseteq queue \cup {}
  OBVIOUS
<1>5. QED
  BY <1>1, <1>2, <1>3, <1>4, Arrival

LEMMA AppendBatchKeeps ==
  ASSUME IInv, NEW t \in Turns, NEW batch \in SUBSET Msgs, NEW stale \in SUBSET queue,
         AppendBatch(t, batch, stale), tool' = tool, arriving' = arriving,
         turn[t].pc = "tasks" \/ turn[t].pc = "idle",
         batch \subseteq queue \/ (turn[t].pc = "tasks" /\ batch = turn[t].batch)
  PROVE  /\ seen' \in [Msgs -> Nat] /\ queue' \in SUBSET Msgs
         /\ turn' \in [Turns -> [pc : Phases, batch : SUBSET Msgs]]
         /\ Sound'
<1>1. queue \subseteq Msgs /\ batch \cup stale \in SUBSET Msgs /\ queue' \subseteq queue
  BY DEF IInv, TypeOK, AppendBatch
<1>2. PICK pc \in {"tracking", "clearing"} : At(t, pc, batch)
  BY DEF AppendBatch
<1>3. /\ turn' \in [Turns -> [pc : Phases, batch : SUBSET Msgs]]
      /\ turn'[t].pc \in {"tracking", "clearing"} /\ turn'[t].batch = batch
      /\ \A u \in Turns \ {t} : turn'[u] = turn[u]
  BY <1>2, AtFacts DEF IInv, Phases
<1>4. /\ seen' \in [Msgs -> Nat]
      /\ \A m \in Msgs : seen[m] \in Nat /\ seen'[m] \in Nat /\ seen'[m] >= seen[m]
      /\ \A m \in batch : seen'[m] > 0
      /\ \A m \in Msgs \ (batch \cup stale) : seen'[m] = seen[m]
  BY <1>1, ConsolidatedFacts DEF IInv, AppendBatch, TypeOK
<1>5. \A u \in Turns : turn'[u].pc \in {"tasks", "reporting", "resuming"} => u # t /\ turn'[u] = turn[u]
  BY <1>3
<1>6. \A m \in Msgs : Unread(m) /\ m \notin batch \cup stale => Unread(m)'
  BY <1>1, <1>4 DEF Unread
<1>7. \A m : Held(m)' => Held(m)
  BY <1>5 DEF Held
<1>8. \A m : Unread(m) /\ ~Held(m) => m \notin batch \cup stale
  BY DEF Unread, Held
<1>9. UnreportedAreFresh'
  <2>1. ASSUME NEW m \in Results, tool'[m] # "reported" PROVE Fresh(m)'
    <3>1. Fresh(m) /\ m \in Msgs
      BY <2>1, MsgFacts DEF IInv, Sound, UnreportedAreFresh
    <3>2. QED
      BY <3>1, <1>6, <1>7, <1>8 DEF Fresh
  <2>2. QED
    BY <2>1 DEF UnreportedAreFresh
<1>10. ReportsAreFresh'
  <2>1. ASSUME NEW u \in Turns, turn'[u].pc \in {"reporting", "resuming"}, NEW m \in turn'[u].batch
        PROVE  /\ m \in Results /\ tool'[m] = "reported" /\ Unread(m)' /\ arriving'[m] = "no"
               /\ \A w \in Turns \ {u} :
                    turn'[w].pc \in {"tasks", "reporting", "resuming"} => m \notin turn'[w].batch
    <3>1. u # t /\ turn'[u] = turn[u]
      BY <2>1, <1>5
    <3>2. /\ m \in Results /\ tool[m] = "reported" /\ Unread(m) /\ arriving[m] = "no"
          /\ \A w \in Turns \ {u} :
               turn[w].pc \in {"tasks", "reporting", "resuming"} => m \notin turn[w].batch
      BY <2>1, <3>1 DEF IInv, Sound, ReportsAreFresh
    <3>3. m \notin batch \cup stale
      BY <3>1, <3>2 DEF Unread
    <3>4. QED
      BY <3>2, <3>3, <1>5, <1>6, MsgFacts
  <2>2. QED
    BY <2>1 DEF ReportsAreFresh
<1>11. ArrivalsAreUnread'
  <2>1. ASSUME NEW m \in Msgs, arriving'[m] # "no"
        PROVE  Unread(m)' /\ ~Held(m)' /\ (m \in Results => tool'[m] = "reported")
    <3>1. Unread(m) /\ ~Held(m) /\ (m \in Results => tool[m] = "reported")
      BY <2>1 DEF IInv, Sound, ArrivalsAreUnread
    <3>2. QED
      BY <3>1, <1>6, <1>7, <1>8
  <2>2. QED
    BY <2>1 DEF ArrivalsAreUnread
<1>12. TrackedAreSeen'
  <2>1. SUFFICES ASSUME NEW u \in Turns, turn'[u].pc = "tracking", NEW m \in turn'[u].batch
                 PROVE  seen'[m] > 0
    BY DEF TrackedAreSeen
  <2>2. CASE u = t
    BY <2>1, <2>2, <1>3, <1>4
  <2>3. CASE u # t
    <3>1. turn'[u] = turn[u] /\ m \in Msgs /\ seen[m] > 0
      BY <2>1, <2>3, <1>3 DEF IInv, Sound, TypeOK, TrackedAreSeen
    <3>2. QED
      BY <3>1, <1>4
  <2>4. QED
    BY <2>2, <2>3
<1>13. QED
  BY <1>1, <1>3, <1>4, <1>9, <1>10, <1>11, <1>12 DEF Sound
-----------------------------------------------------------------------------
MessagesKept == UNCHANGED <<queue, arriving, seen, turn, tool>>

LEMMA KeptMessages ==
  ASSUME IInv, MessagesKept
  PROVE  Sound'
BY DEF IInv, MessagesKept, Sound, UnreportedAreFresh, ReportsAreFresh, ArrivalsAreUnread,
       TrackedAreSeen, Fresh, Unread, Held

LEMMA ProcessAgentQueuesKeeps ==
  ASSUME IInv, NEW a \in AgentType, NEW t \in Turns, turn[t].pc = "idle",
         ProcessAgentQueues(a, t), tool' = tool, arriving' = arriving
  PROVE  /\ agent' \in AgentType
         /\ seen' \in [Msgs -> Nat] /\ queue' \in SUBSET Msgs
         /\ turn' \in [Turns -> [pc : Phases, batch : SUBSET Msgs]]
         /\ Sound'
<1> DEFINE boundary == a.workComplete /\ New(queue) # {}
           stale == IF boundary THEN queue \cap Results ELSE {}
           batch == queue \ stale
           b == [a EXCEPT !.workComplete = @ /\ ~boundary]
<1>1. queue \in SUBSET Msgs /\ stale \in SUBSET queue /\ batch \in SUBSET queue
  BY DEF IInv, TypeOK
<1>2. b \in AgentType /\ [b EXCEPT !.tasks = "open"] \in AgentType
  <2>1. a.workComplete \in BOOLEAN /\ boundary \in BOOLEAN
    BY DEF AgentType
  <2> HIDE DEF boundary
  <2>2. b \in AgentType
    BY <2>1 DEF AgentType
  <2> HIDE DEF b
  <2>3. QED
    BY <2>2 DEF AgentType
<1>3. CASE a.mode = "agent" /\ New(queue) # {}
  <2>1. /\ agent' = [b EXCEPT !.tasks = "open"]
        /\ seen' = Consolidated(stale) /\ queue' = batch /\ At(t, "tasks", batch)
    BY <1>3 DEF ProcessAgentQueues
  <2> HIDE DEF boundary, stale, batch, b
  <2>2. batch \in SUBSET Msgs /\ stale \in SUBSET Msgs /\ "tasks" \in Phases
    BY <1>1 DEF Phases
  <2>3. /\ turn' \in [Turns -> [pc : Phases, batch : SUBSET Msgs]]
        /\ turn'[t].pc = "tasks" /\ turn'[t].batch = batch
        /\ \A u \in Turns \ {t} : turn'[u] = turn[u]
    BY <2>1, <2>2, AtFacts DEF IInv
  <2>4. /\ seen' \in [Msgs -> Nat]
        /\ \A m \in Msgs : seen[m] \in Nat /\ seen'[m] \in Nat /\ seen'[m] >= seen[m]
        /\ \A m \in Msgs \ stale : seen'[m] = seen[m]
    BY <2>1, <2>2, ConsolidatedFacts DEF IInv, TypeOK
  <2>5. \A m \in Msgs : Unread(m) => Unread(m)' /\ m \notin batch
    BY <1>1, <2>1, <2>4 DEF Unread
  <2>6. \A m \in Msgs : Held(m)' => Held(m) \/ m \in batch
    BY <2>3 DEF Held
  <2>7. UnreportedAreFresh'
    <3>1. ASSUME NEW m \in Results, tool'[m] # "reported" PROVE Fresh(m)'
      <4>1. Fresh(m) /\ m \in Msgs
        BY <3>1, MsgFacts DEF IInv, Sound, UnreportedAreFresh
      <4>2. QED
        BY <4>1, <2>5, <2>6 DEF Fresh
    <3>2. QED
      BY <3>1 DEF UnreportedAreFresh
  <2>8. ReportsAreFresh'
    <3>1. ASSUME NEW u \in Turns, turn'[u].pc \in {"reporting", "resuming"}, NEW m \in turn'[u].batch
          PROVE  /\ m \in Results /\ tool'[m] = "reported" /\ Unread(m)' /\ arriving'[m] = "no"
                 /\ \A w \in Turns \ {u} :
                      turn'[w].pc \in {"tasks", "reporting", "resuming"} => m \notin turn'[w].batch
      <4>1. u # t /\ turn'[u] = turn[u]
        BY <3>1, <2>3
      <4>2. /\ m \in Results /\ tool[m] = "reported" /\ Unread(m) /\ arriving[m] = "no"
            /\ \A w \in Turns \ {u} :
                 turn[w].pc \in {"tasks", "reporting", "resuming"} => m \notin turn[w].batch
        BY <3>1, <4>1 DEF IInv, Sound, ReportsAreFresh
      <4>3. Unread(m)' /\ m \notin batch
        BY <4>2, <2>5, MsgFacts
      <4>4. QED
        BY <4>2, <4>3, <2>3
    <3>2. QED
      BY <3>1 DEF ReportsAreFresh
  <2>9. ArrivalsAreUnread'
    <3>1. ASSUME NEW m \in Msgs, arriving'[m] # "no"
          PROVE  Unread(m)' /\ ~Held(m)' /\ (m \in Results => tool'[m] = "reported")
      <4>1. Unread(m) /\ ~Held(m) /\ (m \in Results => tool[m] = "reported")
        BY <3>1 DEF IInv, Sound, ArrivalsAreUnread
      <4>2. QED
        BY <4>1, <2>5, <2>6
    <3>2. QED
      BY <3>1 DEF ArrivalsAreUnread
  <2>10. TrackedAreSeen'
    <3>1. SUFFICES ASSUME NEW u \in Turns, turn'[u].pc = "tracking", NEW m \in turn'[u].batch
                   PROVE  seen'[m] > 0
      BY DEF TrackedAreSeen
    <3>2. u # t /\ turn'[u] = turn[u] /\ m \in Msgs /\ seen[m] > 0
      BY <2>3, <3>1 DEF IInv, Sound, TypeOK, TrackedAreSeen
    <3>3. QED
      BY <3>2, <2>4
  <2>11. QED
    BY <1>1, <1>2, <2>1, <2>2, <2>3, <2>4, <2>7, <2>8, <2>9, <2>10 DEF Sound
<1>4. CASE ~(a.mode = "agent" /\ New(queue) # {})
  <2>1. agent' = b /\ AppendBatch(t, batch, stale)
    BY <1>4 DEF ProcessAgentQueues
  <2> HIDE DEF boundary, stale, batch, b
  <2>2. batch \in SUBSET Msgs /\ batch \subseteq queue
    BY <1>1
  <2>3. QED
    BY <1>1, <1>2, <2>1, <2>2, AppendBatchKeeps
<1>5. QED
  BY <1>3, <1>4

LEMMA ProcessAutonomouslyKeeps ==
  ASSUME IInv, NEW a \in AgentType, NEW t \in Turns,
         ProcessAutonomously(a, t), tool' = tool, arriving' = arriving
  PROVE  /\ agent' \in AgentType /\ lock' \in BOOLEAN
         /\ seen' \in [Msgs -> Nat] /\ queue' \in SUBSET Msgs
         /\ turn' \in [Turns -> [pc : Phases, batch : SUBSET Msgs]]
         /\ Sound'
<1>1. queue' = queue /\ seen' = seen /\ lock' = TRUE
  BY DEF ProcessAutonomously
<1>2. agent' \in AgentType
  <2>1. CASE a.mode = "agent"
    <3>1. agent' = [a EXCEPT !.tasks = IF @ = "none" /\ ~a.workComplete /\ Conversation # {}
                                         THEN "open" ELSE @]
      BY <2>1 DEF ProcessAutonomously
    <3>2. QED
      BY <3>1 DEF AgentType
  <2>2. CASE a.mode # "agent"
    <3>1. agent' = Spent(a)
      BY <2>2 DEF ProcessAutonomously
    <3>2. QED
      BY <3>1, AgentTypes DEF IInv, TypeOK
  <2>3. QED
    BY <2>1, <2>2
<1>3. PICK pc \in {"ready", "spending"} : At(t, pc, {})
  BY DEF ProcessAutonomously
<1>4. /\ turn' \in [Turns -> [pc : Phases, batch : SUBSET Msgs]]
      /\ turn'[t].pc \in {"ready", "spending"}
      /\ \A u \in Turns \ {t} : turn'[u] = turn[u]
  BY <1>3, AtFacts DEF IInv, Phases
<1>5. Sound'
  BY <1>1, <1>4, TurnsMove
<1>6. QED
  BY <1>1, <1>2, <1>4, <1>5 DEF IInv, TypeOK

LEMMA StartTurnKeeps == ASSUME IInv, NEW t \in Turns, StartTurn(t) PROVE IInv'
<1> DEFINE a == Refreshed(agent)
<1>1. a \in AgentType
  BY TypesOfAgent
<1>2. turn[t].pc = "idle" /\ UNCHANGED <<waiting, arriving, stopping, leaving, tool, aborted>>
  BY DEF StartTurn, Running
<1> HIDE DEF a
<1>3. CASE queue # {} /\ ProcessAgentQueues(a, t) /\ lock' = TRUE
  <2>1. /\ agent' \in AgentType
        /\ seen' \in [Msgs -> Nat] /\ queue' \in SUBSET Msgs
        /\ turn' \in [Turns -> [pc : Phases, batch : SUBSET Msgs]]
        /\ Sound'
    BY <1>1, <1>2, <1>3, ProcessAgentQueuesKeeps
  <2>2. QED
    BY <1>2, <1>3, <2>1 DEF IInv, TypeOK, AgentType
<1>4. CASE queue = {} /\ ProcessAutonomously(a, t)
  <2>1. /\ agent' \in AgentType /\ lock' \in BOOLEAN
        /\ seen' \in [Msgs -> Nat] /\ queue' \in SUBSET Msgs
        /\ turn' \in [Turns -> [pc : Phases, batch : SUBSET Msgs]]
        /\ Sound'
    BY <1>1, <1>2, <1>4, ProcessAutonomouslyKeeps
  <2>2. QED
    BY <1>2, <2>1 DEF IInv, TypeOK, AgentType
<1>5. CASE agent' = [a EXCEPT !.mode = "chat"] /\ UNCHANGED <<queue, seen, turn, lock>>
  <2>1. agent' \in AgentType
    BY <1>1, <1>5, AgentTypes DEF IInv, TypeOK
  <2>2. Sound'
    BY <1>2, <1>5, KeptMessages DEF MessagesKept
  <2>3. QED
    BY <1>2, <1>5, <2>1, <2>2 DEF IInv, TypeOK, AgentType
<1>6. QED
  BY <1>3, <1>4, <1>5 DEF StartTurn, a
-----------------------------------------------------------------------------
LEMMA TasksPersistedKeeps == ASSUME IInv, NEW t \in Turns, TasksPersisted(t) PROVE IInv'
<1>1. /\ turn[t].pc = "tasks" /\ AppendBatch(t, turn[t].batch, {})
      /\ UNCHANGED <<agent, waiting, arriving, lock, stopping, leaving, tool, aborted>>
      /\ turn[t].batch \in SUBSET Msgs
  BY DEF TasksPersisted, IInv, TypeOK
<1>2. PICK batch \in SUBSET Msgs : batch = turn[t].batch
  BY <1>1
<1>3. /\ seen' \in [Msgs -> Nat] /\ queue' \in SUBSET Msgs
      /\ turn' \in [Turns -> [pc : Phases, batch : SUBSET Msgs]]
      /\ Sound'
  BY <1>1, <1>2, AppendBatchKeeps
<1>4. QED
  BY <1>1, <1>3 DEF IInv, TypeOK

LEMMA TrackingPersistedKeeps == ASSUME IInv, NEW t \in Turns, TrackingPersisted(t) PROVE IInv'
<1>1. /\ queue' = {} /\ At(t, "clearing", turn[t].batch) /\ turn[t].batch \in SUBSET Msgs
      /\ UNCHANGED <<agent, waiting, arriving, seen, lock, stopping, leaving, tool, aborted>>
  BY DEF TrackingPersisted, IInv, TypeOK
<1>2. PICK batch \in SUBSET Msgs : batch = turn[t].batch
  BY <1>1
<1>3. /\ turn' \in [Turns -> [pc : Phases, batch : SUBSET Msgs]]
      /\ turn'[t].pc = "clearing" /\ \A u \in Turns \ {t} : turn'[u] = turn[u]
  BY <1>1, <1>2, AtFacts DEF IInv, Phases
<1>4. Sound'
  BY <1>1, <1>3, TurnsMove
<1>5. QED
  BY <1>1, <1>3, <1>4 DEF IInv, TypeOK

LEMMA ClearingPersistedKeeps == ASSUME IInv, NEW t \in Turns, ClearingPersisted(t) PROVE IInv'
<1>1. /\ At(t, "ready", {})
      /\ UNCHANGED <<agent, waiting, queue, arriving, seen, lock, stopping, leaving, tool, aborted>>
  BY DEF ClearingPersisted
<1>2. /\ turn' \in [Turns -> [pc : Phases, batch : SUBSET Msgs]]
      /\ turn'[t].pc = "ready" /\ \A u \in Turns \ {t} : turn'[u] = turn[u]
  BY <1>1, AtFacts DEF IInv, Phases
<1>3. Sound'
  BY <1>1, <1>2, TurnsMove
<1>4. QED
  BY <1>1, <1>2, <1>3 DEF IInv, TypeOK

LEMMA StartCallKeeps == ASSUME IInv, NEW t \in Turns, StartCall(t) PROVE IInv'
<1>1. PICK batch \in SUBSET Msgs : At(t, "calling", batch)
  BY DEF StartCall, Conversation
<1>2. UNCHANGED <<agent, waiting, queue, arriving, seen, lock, stopping, leaving, tool, aborted>>
  BY DEF StartCall
<1>3. /\ turn' \in [Turns -> [pc : Phases, batch : SUBSET Msgs]]
      /\ turn'[t].pc = "calling" /\ \A u \in Turns \ {t} : turn'[u] = turn[u]
  BY <1>1, AtFacts DEF IInv, Phases
<1>4. Sound'
  BY <1>2, <1>3, TurnsMove
<1>5. QED
  BY <1>2, <1>3, <1>4 DEF IInv, TypeOK

LEMMA TtlPersistedKeeps == ASSUME IInv, NEW t \in Turns, TtlPersisted(t) PROVE IInv'
<1>1. Release(t) /\ UNCHANGED <<agent, waiting, queue, arriving, seen, stopping, leaving, tool>>
  BY DEF TtlPersisted
<1>2. /\ turn' \in [Turns -> [pc : Phases, batch : SUBSET Msgs]]
      /\ turn'[t].pc = "idle" /\ \A u \in Turns \ {t} : turn'[u] = turn[u]
      /\ lock' \in BOOLEAN /\ aborted' \in SUBSET Turns
  BY <1>1, ReleaseFacts DEF IInv
<1>3. Sound'
  BY <1>1, <1>2, TurnsMove
<1>4. QED
  BY <1>1, <1>2, <1>3 DEF IInv, TypeOK

LEMMA NoRequestKeeps == ASSUME IInv, NEW t \in Turns, NoRequest(t) PROVE IInv'
<1>1. /\ agent' = Spent(agent) /\ EndTurn(t)
      /\ UNCHANGED <<waiting, queue, arriving, seen, stopping, leaving, tool>>
  BY DEF NoRequest
<1>2. /\ turn' \in [Turns -> [pc : Phases, batch : SUBSET Msgs]]
      /\ turn'[t].pc \in {"idle", "spending"} /\ \A u \in Turns \ {t} : turn'[u] = turn[u]
      /\ lock' \in BOOLEAN /\ aborted' \in SUBSET Turns
  BY <1>1, EndTurnFacts DEF IInv
<1>3. agent' \in AgentType
  BY <1>1, TypesOfAgent
<1>4. Sound'
  BY <1>1, <1>2, TurnsMove
<1>5. QED
  BY <1>1, <1>2, <1>3, <1>4 DEF IInv, TypeOK, AgentType

LEMMA DiskFailsKeeps == ASSUME IInv, NEW t \in Turns, DiskFails(t) PROVE IInv'
<1>1. Release(t) /\ UNCHANGED <<agent, waiting, queue, arriving, seen, stopping, leaving, tool>>
  BY DEF DiskFails
<1>2. /\ turn' \in [Turns -> [pc : Phases, batch : SUBSET Msgs]]
      /\ turn'[t].pc = "idle" /\ \A u \in Turns \ {t} : turn'[u] = turn[u]
      /\ lock' \in BOOLEAN /\ aborted' \in SUBSET Turns
  BY <1>1, ReleaseFacts DEF IInv
<1>3. Sound'
  BY <1>1, <1>2, TurnsMove
<1>4. QED
  BY <1>1, <1>2, <1>3 DEF IInv, TypeOK
-----------------------------------------------------------------------------
(* One result gets further; it may be queued.                              *)
LEMMA ResultMoves ==
  ASSUME IInv, NEW r \in Results, tool[r] # "reported", seen' = seen, arriving' = arriving,
         NEW where \in ToolStates, tool' = [tool EXCEPT ![r] = where],
         queue' = queue \/ (where = "reported" /\ queue' = queue \cup {r}),
         \A t \in Turns : turn'[t].pc \in {"tasks", "tracking", "reporting", "resuming"} =>
           turn'[t] = turn[t]
  PROVE  tool' \in [Results -> ToolStates] /\ queue' \in SUBSET Msgs /\ Sound'
<1>1. tool' \in [Results -> ToolStates]
  BY DEF IInv, TypeOK, ToolStates
<1>2. /\ tool'[r] = where /\ \A s \in Results \ {r} : tool'[s] = tool[s]
  BY DEF IInv, TypeOK
<1>3. PICK new \in SUBSET Msgs : /\ queue' \subseteq queue \cup new /\ new \subseteq {r}
                                 /\ where # "reported" => new = {}
  <2>1. {r} \in SUBSET Msgs /\ {} \in SUBSET Msgs
    BY MsgFacts
  <2>2. CASE queue' = queue
    <3>1. queue' \subseteq queue \cup {} /\ {} \subseteq {r}
      BY <2>2
    <3>2. QED
      BY <2>1, <3>1
  <2>3. CASE where = "reported" /\ queue' = queue \cup {r}
    BY <2>1, <2>3
  <2>4. QED
    BY <2>2, <2>3
<1>4. \A s \in Results : tool'[s] # "reported" =>
        tool[s] # "reported" /\ s \notin new /\ arriving'[s] = "no"
  BY <1>2, <1>3 DEF IInv, Sound, UnreportedAreFresh, Fresh
<1>5. \A t \in Turns : turn'[t].pc \in {"reporting", "resuming"} =>
        \A m \in turn[t].batch : m \notin new /\ arriving'[m] = "no"
  BY <1>3 DEF IInv, Sound, ReportsAreFresh
<1>6. \A m \in Msgs : arriving'[m] # "no" => m \notin new /\ arriving[m] # "no"
  BY <1>3 DEF IInv, Sound, UnreportedAreFresh, Fresh
<1>7. QED
  BY <1>1, <1>3, <1>4, <1>5, <1>6, Arrival

LEMMA ModelAnswersKeeps == ASSUME IInv, NEW t \in Turns, ModelAnswers(t) PROVE IInv'
<1>1. EndTurn(t) /\ UNCHANGED <<arriving, seen, stopping, leaving>>
  BY DEF ModelAnswers
<1>2. /\ turn' \in [Turns -> [pc : Phases, batch : SUBSET Msgs]]
      /\ turn'[t].pc \in {"idle", "spending"} /\ \A u \in Turns \ {t} : turn'[u] = turn[u]
      /\ lock' \in BOOLEAN /\ aborted' \in SUBSET Turns
  BY <1>1, EndTurnFacts DEF IInv
<1>3. Spent(agent) \in AgentType /\ waiting \in BOOLEAN /\ agent \in AgentType
  <2>1. waiting \in BOOLEAN /\ agent \in AgentType
    BY DEF IInv, TypeOK, AgentType
  <2>2. QED
    BY <2>1, AgentTypes
<1>4. CASE AnswerWithTool
  <2>1. PICK r \in Results : /\ Unused(r) /\ tool' = [tool EXCEPT ![r] = "running"]
                             /\ UNCHANGED queue
                             /\ \/ agent' = Spent(agent) /\ UNCHANGED waiting
                                \/ /\ agent' = [Spent(agent) EXCEPT !.delayed = TRUE]
                                   /\ waiting' = TRUE
    BY <1>4 DEF AnswerWithTool
  <2>2. agent' \in AgentType /\ waiting' \in BOOLEAN
    <3>1. CASE agent' = Spent(agent) /\ UNCHANGED waiting
      BY <1>3, <3>1
    <3>2. CASE agent' = [Spent(agent) EXCEPT !.delayed = TRUE] /\ waiting' = TRUE
      BY <1>3, <3>2 DEF AgentType
    <3>3. QED
      BY <2>1, <3>1, <3>2
  <2>3. /\ tool' \in [Results -> ToolStates]
        /\ queue' \in SUBSET Msgs
        /\ Sound'
    BY <1>1, <1>2, <2>1, ResultMoves DEF Unused, ToolStates
  <2>4. QED
    BY <1>1, <1>2, <2>2, <2>3 DEF IInv, TypeOK, AgentType, ToolStates
<1>5. CASE AnswerWithText
  <2>1. agent' = Spent(agent) /\ UNCHANGED waiting
    BY <1>5 DEF AnswerWithText
  <2>2. CASE UNCHANGED <<queue, tool>>
    <3>1. Sound'
      BY <1>1, <1>2, <2>2, TurnsMove
    <3>2. QED
      BY <1>1, <1>2, <1>3, <2>1, <2>2, <3>1 DEF IInv, TypeOK, AgentType, ToolStates
  <2>3. CASE \E r \in Results : /\ Unused(r) /\ queue' = queue \cup {r}
                                /\ tool' = [tool EXCEPT ![r] = "reported"]
    <3>1. /\ tool' \in [Results -> ToolStates]
          /\ queue' \in SUBSET Msgs
          /\ Sound'
      BY <1>1, <1>2, <2>3, ResultMoves DEF Unused, ToolStates
    <3>2. QED
      BY <1>1, <1>2, <1>3, <2>1, <3>1 DEF IInv, TypeOK, AgentType, ToolStates
  <2>4. QED
    BY <1>5, <2>2, <2>3 DEF AnswerWithText
<1>6. CASE AnswerStalls
  <2>1. /\ agent' = [Spent(agent) EXCEPT !.mode = "chat"]
        /\ UNCHANGED <<waiting, queue, tool>>
    BY <1>6 DEF AnswerStalls
  <2>2. agent' \in AgentType
    BY <1>3, <2>1 DEF AgentType
  <2>3. Sound'
    BY <1>1, <1>2, <2>1, TurnsMove
  <2>4. QED
    BY <1>1, <1>2, <2>1, <2>2, <2>3 DEF IInv, TypeOK, AgentType, ToolStates
<1>7. QED
  BY <1>4, <1>5, <1>6 DEF ModelAnswers

LEMMA ModelFailsKeeps == ASSUME IInv, NEW t \in Turns, ModelFails(t) PROVE IInv'
<1>1. EndTurn(t) /\ UNCHANGED <<queue, arriving, seen, stopping, leaving, tool>>
  BY DEF ModelFails
<1>2. /\ turn' \in [Turns -> [pc : Phases, batch : SUBSET Msgs]]
      /\ turn'[t].pc \in {"idle", "spending"} /\ \A u \in Turns \ {t} : turn'[u] = turn[u]
      /\ lock' \in BOOLEAN /\ aborted' \in SUBSET Turns
  BY <1>1, EndTurnFacts DEF IInv
<1>3. Spent(agent) \in AgentType /\ waiting \in BOOLEAN
  BY TypesOfAgent
<1>4. agent' \in AgentType /\ waiting' \in BOOLEAN
  <2>1. CASE agent' = [Spent(agent) EXCEPT !.mode = "chat"] /\ UNCHANGED waiting
    BY <1>3, <2>1 DEF AgentType
  <2>2. CASE agent' = [Spent(agent) EXCEPT !.delayed = TRUE] /\ waiting' = TRUE
    BY <1>3, <2>2 DEF AgentType
  <2>3. CASE agent' = Spent(agent) /\ UNCHANGED waiting
    BY <1>3, <2>3
  <2>4. QED
    BY <2>1, <2>2, <2>3 DEF ModelFails
<1>5. Sound'
  BY <1>1, <1>2, TurnsMove
<1>6. QED
  BY <1>1, <1>2, <1>4, <1>5 DEF IInv, TypeOK, AgentType

LEMMA ModelFailsHardKeeps == ASSUME IInv, NEW t \in Turns, ModelFailsHard(t) PROVE IInv'
<1>1. PICK r \in Results : Unused(r) /\ tool' = [tool EXCEPT ![r] = "reported"]
                           /\ At(t, "reporting", {r})
  BY DEF ModelFailsHard
<1>2. /\ agent' = [agent EXCEPT !.delayed = TRUE] /\ waiting' = TRUE
      /\ UNCHANGED <<queue, arriving, seen, lock, stopping, leaving, aborted>>
  BY DEF ModelFailsHard
<1>3. /\ turn' \in [Turns -> [pc : Phases, batch : SUBSET Msgs]]
      /\ turn'[t].pc = "reporting" /\ turn'[t].batch = {r}
      /\ \A u \in Turns \ {t} : turn'[u] = turn[u]
  BY <1>1, AtFacts, MsgFacts DEF IInv, Phases
<1>4. agent' \in AgentType
  BY <1>2 DEF IInv, TypeOK, AgentType
<1>5. /\ tool' \in [Results -> ToolStates]
      /\ tool'[r] = "reported" /\ \A s \in Results \ {r} : tool'[s] = tool[s]
  BY <1>1 DEF IInv, TypeOK, ToolStates
<1>6. Fresh(r)
  BY <1>1 DEF Unused
<1>7. \A m : (Unread(m) <=> Unread(m)') /\ (Held(m)' => Held(m) \/ m = r)
  BY <1>2, <1>3 DEF Unread, Held
<1>8. UnreportedAreFresh'
  <2>1. ASSUME NEW m \in Results, tool'[m] # "reported" PROVE Fresh(m)'
    <3>1. m # r /\ Fresh(m)
      BY <1>5, <2>1 DEF IInv, Sound, UnreportedAreFresh
    <3>2. QED
      BY <1>2, <1>7, <3>1 DEF Fresh
  <2>2. QED
    BY <2>1 DEF UnreportedAreFresh
<1>9. ReportsAreFresh'
  <2>1. ASSUME NEW u \in Turns, turn'[u].pc \in {"reporting", "resuming"}, NEW m \in turn'[u].batch,
               NEW w \in Turns \ {u}
        PROVE  turn'[w].pc \in {"tasks", "reporting", "resuming"} => m \notin turn'[w].batch
    <3>1. \A v \in Turns : turn[v].pc \in {"tasks", "reporting", "resuming"} => r \notin turn[v].batch
      BY <1>6 DEF Fresh, Held
    <3>2. CASE u = t
      BY <1>3, <2>1, <3>1, <3>2
    <3>3. CASE u # t /\ w = t
      BY <1>3, <2>1, <3>1, <3>3
    <3>4. CASE u # t /\ w # t
      BY <1>3, <2>1, <3>4 DEF IInv, Sound, ReportsAreFresh
    <3>5. QED
      BY <3>2, <3>3, <3>4
  <2>2. ASSUME NEW u \in Turns, turn'[u].pc \in {"reporting", "resuming"}, NEW m \in turn'[u].batch
        PROVE  m \in Results /\ tool'[m] = "reported" /\ Unread(m)' /\ arriving'[m] = "no"
    <3>1. CASE u = t
      BY <1>2, <1>3, <1>5, <1>6, <1>7, <2>2, <3>1 DEF Fresh
    <3>2. CASE u # t
      <4>1. m \in Results /\ tool[m] = "reported" /\ Unread(m) /\ arriving[m] = "no"
        BY <1>3, <2>2, <3>2 DEF IInv, Sound, ReportsAreFresh
      <4>2. QED
        BY <4>1, <1>2, <1>5, <1>7
    <3>3. QED
      BY <3>1, <3>2
  <2>3. QED
    BY <2>1, <2>2 DEF ReportsAreFresh
<1>10. ArrivalsAreUnread'
  <2>1. ASSUME NEW m \in Msgs, arriving'[m] # "no"
        PROVE  Unread(m)' /\ ~Held(m)' /\ (m \in Results => tool'[m] = "reported")
    <3>1. m # r /\ Unread(m) /\ ~Held(m) /\ (m \in Results => tool[m] = "reported")
      BY <1>2, <1>6, <2>1 DEF IInv, Sound, ArrivalsAreUnread, Fresh
    <3>2. QED
      BY <3>1, <1>5, <1>7
  <2>2. QED
    BY <2>1 DEF ArrivalsAreUnread
<1>11. TrackedAreSeen'
  BY <1>2, <1>3 DEF IInv, Sound, TrackedAreSeen
<1>12. QED
  BY <1>2, <1>3, <1>4, <1>5, <1>8, <1>9, <1>10, <1>11 DEF IInv, Sound, TypeOK, AgentType, ToolStates

LEMMA ResumeToReportKeeps == ASSUME IInv, NEW t \in Turns, ResumeToReport(t) PROVE IInv'
<1>1. /\ turn[t].pc = "reporting" /\ agent' = Resumed(agent) /\ At(t, "resuming", turn[t].batch)
      /\ UNCHANGED <<waiting, queue, arriving, seen, lock, stopping, leaving, tool, aborted>>
  BY DEF ResumeToReport
<1>2. PICK batch \in SUBSET Msgs : batch = turn[t].batch
  BY DEF IInv, TypeOK
<1>3. /\ turn' \in [Turns -> [pc : Phases, batch : SUBSET Msgs]]
      /\ turn'[t].pc = "resuming" /\ turn'[t].batch = turn[t].batch
      /\ \A u \in Turns \ {t} : turn'[u] = turn[u]
  BY <1>1, <1>2, AtFacts DEF IInv, Phases
<1>4. agent' \in AgentType
  BY <1>1, TypesOfAgent
<1>5. /\ \A u \in Turns : turn'[u].batch = turn[u].batch
      /\ \A u \in Turns : turn'[u].pc \in {"reporting", "resuming"} <=>
                           turn[u].pc \in {"reporting", "resuming"}
      /\ \A u \in Turns : turn'[u].pc \in {"tasks", "reporting", "resuming"} <=>
                           turn[u].pc \in {"tasks", "reporting", "resuming"}
      /\ \A u \in Turns : turn'[u].pc = "tracking" <=> turn[u].pc = "tracking"
  BY <1>1, <1>3
<1>6. \A m : (Unread(m)' <=> Unread(m)) /\ (Held(m)' <=> Held(m))
  BY <1>1, <1>5 DEF Unread, Held
<1>7. UnreportedAreFresh'
  BY <1>1, <1>6 DEF IInv, Sound, UnreportedAreFresh, Fresh
<1>8. ReportsAreFresh'
  BY <1>1, <1>5, <1>6 DEF IInv, Sound, ReportsAreFresh
<1>9. ArrivalsAreUnread'
  BY <1>1, <1>6 DEF IInv, Sound, ArrivalsAreUnread
<1>10. TrackedAreSeen'
  BY <1>1, <1>5 DEF IInv, Sound, TrackedAreSeen
<1>11. QED
  BY <1>1, <1>3, <1>4, <1>7, <1>8, <1>9, <1>10 DEF IInv, Sound, TypeOK, AgentType

LEMMA ReportFailureKeeps == ASSUME IInv, NEW t \in Turns, ReportFailure(t) PROVE IInv'
<1>1. /\ turn[t].pc \in {"reporting", "resuming"} /\ agent' = Spent(Awake(agent)) /\ EndTurn(t)
      /\ queue' = queue \cup turn[t].batch
      /\ UNCHANGED <<waiting, arriving, seen, stopping, leaving, tool>>
  BY DEF ReportFailure
<1>2. /\ turn' \in [Turns -> [pc : Phases, batch : SUBSET Msgs]]
      /\ turn'[t].pc \in {"idle", "spending"} /\ \A u \in Turns \ {t} : turn'[u] = turn[u]
      /\ lock' \in BOOLEAN /\ aborted' \in SUBSET Turns
  BY <1>1, EndTurnFacts DEF IInv
<1>3. agent' \in AgentType
  <2>1. Awake(agent) \in AgentType /\ waiting \in BOOLEAN
    BY TypesOfAgent
  <2>2. QED
    BY <1>1, <2>1, AgentTypes
<1>4. PICK new \in SUBSET Msgs : new = turn[t].batch
  BY DEF IInv, TypeOK
<1>5. \A r \in Results : tool'[r] # "reported" =>
        tool[r] # "reported" /\ r \notin new /\ arriving'[r] = "no"
  BY <1>1, <1>4 DEF IInv, Sound, UnreportedAreFresh, Fresh, ReportsAreFresh
<1>6. \A u \in Turns : turn'[u].pc \in {"reporting", "resuming"} =>
        \A m \in turn[u].batch : m \notin new /\ arriving'[m] = "no"
  BY <1>1, <1>2, <1>4 DEF IInv, Sound, ReportsAreFresh
<1>7. \A m \in Msgs : arriving'[m] # "no" => m \notin new /\ arriving[m] # "no"
  BY <1>1, <1>4 DEF IInv, Sound, ReportsAreFresh
<1>8. \A u \in Turns : turn'[u].pc \in {"tasks", "tracking", "reporting", "resuming"} =>
        turn'[u] = turn[u]
  BY <1>2
<1>9. queue' \in SUBSET Msgs /\ Sound'
  BY <1>1, <1>4, <1>5, <1>6, <1>7, <1>8, Arrival
<1>10. QED
  BY <1>1, <1>2, <1>3, <1>9 DEF IInv, TypeOK, AgentType
-----------------------------------------------------------------------------
LEMMA ToolRunsKeeps == ASSUME IInv, NEW r \in Results, ToolRuns(r) PROVE IInv'
<1>1. /\ tool[r] = "running" /\ tool' = [tool EXCEPT ![r] = "reporting"]
      /\ UNCHANGED <<queue, arriving, seen, turn, lock, stopping, leaving, aborted>>
  BY DEF ToolRuns
<1>2. agent' \in AgentType /\ waiting' \in BOOLEAN
  <2>1. agent \in AgentType /\ waiting \in BOOLEAN
    BY DEF IInv, TypeOK, AgentType
  <2>2. CASE UNCHANGED <<agent, waiting>>
    BY <2>1, <2>2
  <2>3. CASE JobDone(agent)
    BY <2>1, <2>3 DEF JobDone, AgentType
  <2>4. CASE ManageTasks(agent)
    <3>1. /\ \/ agent' = [agent EXCEPT !.tasks = "open"]
             \/ agent' = [agent EXCEPT !.tasks = "done", !.ttl = 1]
          /\ UNCHANGED waiting
      BY <2>4 DEF ManageTasks
    <3>2. [agent EXCEPT !.tasks = "open"] \in AgentType
      BY <2>1 DEF AgentType
    <3>3. [agent EXCEPT !.tasks = "done", !.ttl = 1] \in AgentType
      <4>1. 1 \in 0..1
        OBVIOUS
      <4>2. QED
        BY <2>1, <4>1, Zenon DEF AgentType
    <3>4. QED
      BY <2>1, <3>1, <3>2, <3>3
  <2>5. CASE AgentDelay(agent)
    BY <2>1, <2>5 DEF AgentDelay, AgentType
  <2>6. QED
    BY <2>2, <2>3, <2>4, <2>5 DEF ToolRuns
<1>3. /\ tool' \in [Results -> ToolStates]
      /\ Sound'
  BY <1>1, ResultMoves DEF ToolStates
<1>4. QED
  BY <1>1, <1>2, <1>3 DEF IInv, TypeOK, AgentType, ToolStates

LEMMA ToolReportsKeeps == ASSUME IInv, NEW r \in Results, ToolReports(r) PROVE IInv'
<1>1. /\ tool[r] = "reporting" /\ tool' = [tool EXCEPT ![r] = "reported"]
      /\ queue' = queue \/ queue' = queue \cup {r}
      /\ UNCHANGED <<agent, waiting, arriving, seen, turn, lock, stopping, leaving, aborted>>
  BY DEF ToolReports
<1>2. /\ tool' \in [Results -> ToolStates]
      /\ queue' \in SUBSET Msgs
      /\ Sound'
  BY <1>1, ResultMoves DEF ToolStates
<1>3. QED
  BY <1>1, <1>2 DEF IInv, TypeOK, ToolStates

LEMMA AsksKeep == ASSUME IInv, NEW r \in Results, AskUser(r) \/ AskEnds(r) PROVE IInv'
<1>1. PICK where \in {"asking", "reporting"} : tool' = [tool EXCEPT ![r] = where]
  BY DEF AskUser, AskEnds
<1>2. /\ tool[r] \in {"running", "asking", "askingStale"}
      /\ UNCHANGED <<waiting, queue, arriving, seen, turn, lock, stopping, leaving, aborted>>
  BY DEF AskUser, AskEnds
<1>3. PICK b \in BOOLEAN : agent' = [agent EXCEPT !.awaiting = b]
  <2>1. agent.awaiting \in BOOLEAN
    BY DEF IInv, TypeOK
  <2>2. CASE AskUser(r)
    BY <2>2 DEF AskUser
  <2>3. CASE AskEnds(r)
    BY <2>1, <2>3 DEF AskEnds
  <2>4. QED
    BY <2>2, <2>3
<1>4. agent' \in AgentType
  BY <1>3 DEF IInv, TypeOK, AgentType
<1>5. tool' \in [Results -> ToolStates] /\ Sound'
  BY <1>1, <1>2, ResultMoves DEF ToolStates
<1>6. QED
  BY <1>2, <1>4, <1>5 DEF IInv, TypeOK, AgentType, ToolStates

(* A message on its way, or in the queue: the agent is still one, and      *)
(* nothing else about the message changes.                                 *)
LEMMA QueuedTypes == ASSUME IInv, NEW m, Queued(m) PROVE agent' \in AgentType
<1> DEFINE a == Awake(agent)
<1>1. agent \in AgentType /\ waiting \in BOOLEAN
  BY DEF IInv, TypeOK, AgentType
<1>2. a \in AgentType
  BY <1>1, AgentTypes
<1>3. PICK tasks \in {"none", "open", "done"} : agent' = [a EXCEPT !.tasks = tasks]
  <2>1. agent' = [a EXCEPT !.tasks = IF m \notin Results /\ agent.mode = "agent" THEN "open" ELSE a.tasks]
    BY DEF Queued
  <2>2. a.tasks \in {"none", "open", "done"}
    BY <1>2 DEF AgentType
  <2>3. QED
    BY <2>1, <2>2
<1> HIDE DEF a
<1>4. QED
  BY <1>1, <1>2, <1>3, AgentTypes

LEMMA ArriveFacts ==
  ASSUME IInv, NEW m \in Msgs, Arrive(m)
  PROVE  /\ agent' \in AgentType /\ arriving' \in [Msgs -> Objects]
         /\ \/ queue' = queue /\ \A n \in Msgs \ {m} : arriving'[n] = arriving[n]
            \/ queue' = queue \cup {m} /\ arriving' = arriving
<1>1. CASE /\ agent' = Resumed(agent) /\ UNCHANGED queue
           /\ arriving' = [arriving EXCEPT ![m] = "current"]
  <2>1. agent' \in AgentType
    BY <1>1, TypesOfAgent
  <2>2. QED
    BY <1>1, <2>1 DEF IInv, TypeOK, Objects
<1>2. CASE Queued(m) /\ UNCHANGED arriving
  <2>1. agent' \in AgentType
    BY <1>2, QueuedTypes
  <2>2. QED
    BY <1>2, <2>1 DEF Queued, IInv, TypeOK
<1>3. QED
  BY <1>1, <1>2 DEF Arrive

(* What sets out fresh may arrive, at once or later.                       *)
LEMMA ArriveKeeps ==
  ASSUME IInv, NEW m \in Msgs, Arrive(m), Fresh(m), UNCHANGED <<seen, turn>>,
         \A r \in Results : tool'[r] # "reported" => tool[r] # "reported" /\ r # m
  PROVE  queue' \in SUBSET Msgs /\ Sound'
<1>1. \/ queue' = queue /\ \A n \in Msgs \ {m} : arriving'[n] = arriving[n]
      \/ queue' = queue \cup {m} /\ arriving' = arriving
  BY ArriveFacts
<1>2. Unread(m) /\ ~Held(m) /\ arriving[m] = "no"
  BY DEF Fresh
<1>3. PICK new \in SUBSET {m} : /\ queue' = queue \cup new
                                /\ \A n \in Msgs \ {m} : arriving'[n] = arriving[n]
                                /\ arriving'[m] # "no" => m \notin new
  <2>1. CASE queue' = queue /\ \A n \in Msgs \ {m} : arriving'[n] = arriving[n]
    <3>1. {} \in SUBSET {m} /\ queue' = queue \cup {} /\ m \notin {}
      BY <2>1
    <3>2. QED
      BY <2>1, <3>1
  <2>2. CASE queue' = queue \cup {m} /\ arriving' = arriving
    <3>1. {m} \in SUBSET {m} /\ queue' = queue \cup {m} /\ arriving'[m] = "no"
      BY <1>2, <2>2
    <3>2. QED
      BY <2>2, <3>1
  <2>3. QED
    BY <1>1, <2>1, <2>2
<1>4. new \in SUBSET Msgs /\ \A n \in new : n = m
  BY <1>3
<1>5. \A r \in Results : tool'[r] # "reported" =>
        tool[r] # "reported" /\ r \notin new /\ arriving'[r] = "no"
  <2>1. \A r \in Results : tool[r] # "reported" => arriving[r] = "no"
    BY DEF IInv, Sound, UnreportedAreFresh, Fresh
  <2>2. QED
    BY <1>3, <1>4, <2>1, MsgFacts
<1>6. \A t \in Turns : turn'[t].pc \in {"reporting", "resuming"} =>
        \A n \in turn[t].batch : n \notin new /\ arriving'[n] = "no"
  <2>1. \A t \in Turns : turn[t].pc \in {"reporting", "resuming"} =>
          \A n \in turn[t].batch : n # m /\ n \in Results /\ arriving[n] = "no"
    BY <1>2 DEF IInv, Sound, ReportsAreFresh, Held
  <2>2. QED
    BY <1>3, <1>4, <2>1, MsgFacts
<1>7. \A n \in Msgs : arriving'[n] # "no" =>
        n \notin new /\ (arriving[n] # "no" \/ (Unread(n) /\ ~Held(n)))
  BY <1>2, <1>3, <1>4
<1>8. QED
  BY <1>3, <1>4, <1>5, <1>6, <1>7, Arrival

LEMMA AddToolResultKeeps == ASSUME IInv, NEW r \in Results, AddToolResult(r) PROVE IInv'
<1>1. /\ tool[r] = "unused" /\ Fresh(r) /\ tool' = [tool EXCEPT ![r] = "reported"]
      /\ Arrive(r) /\ UNCHANGED <<waiting, seen, turn, lock, stopping, leaving, aborted>>
      /\ r \in Msgs
  BY MsgFacts DEF AddToolResult, Unused
<1>2. tool' \in [Results -> ToolStates] /\ tool'[r] = "reported"
      /\ \A s \in Results \ {r} : tool'[s] = tool[s]
  BY <1>1 DEF IInv, TypeOK, ToolStates
<1>3. queue' \in SUBSET Msgs /\ Sound'
  BY <1>1, <1>2, ArriveKeeps
<1>4. agent' \in AgentType /\ arriving' \in [Msgs -> Objects]
  BY <1>1, ArriveFacts
<1>5. QED
  BY <1>1, <1>2, <1>3, <1>4 DEF IInv, TypeOK, AgentType, ToolStates

LEMMA AddMessageKeeps ==
  ASSUME IInv, NEW m \in UserMsgs \cup InterMsgs, AddMessage(m) PROVE IInv'
<1>1. /\ Fresh(m) /\ Arrive(m) /\ m \in Msgs /\ m \notin Results
      /\ UNCHANGED <<waiting, seen, turn, lock, stopping, leaving, tool, aborted>>
  BY MsgFacts DEF AddMessage
<1>2. queue' \in SUBSET Msgs /\ Sound'
  BY <1>1, ArriveKeeps
<1>3. agent' \in AgentType /\ arriving' \in [Msgs -> Objects]
  BY <1>1, ArriveFacts
<1>4. QED
  BY <1>1, <1>2, <1>3 DEF IInv, TypeOK, AgentType

LEMMA AgentResumedKeeps == ASSUME IInv, NEW m \in Msgs, AgentResumed(m) PROVE IInv'
<1>1. /\ arriving[m] # "no" /\ arriving' = [arriving EXCEPT ![m] = "no"]
      /\ queue' = queue \cup {m}
      /\ UNCHANGED <<waiting, seen, turn, lock, stopping, leaving, tool, aborted>>
  BY DEF AgentResumed, Queued
<1>2. agent' \in AgentType
  <2>1. agent \in AgentType /\ waiting \in BOOLEAN
    BY DEF IInv, TypeOK, AgentType
  <2>2. CASE Queued(m)
    BY <2>2, QueuedTypes
  <2>3. CASE UNCHANGED agent
    BY <2>1, <2>3
  <2>4. CASE agent' = [agent EXCEPT !.tasks = "open"]
    BY <2>1, <2>4, AgentTypes
  <2>5. QED
    BY <2>2, <2>3, <2>4 DEF AgentResumed
<1>3. /\ arriving' \in [Msgs -> Objects] /\ arriving'[m] = "no"
      /\ \A n \in Msgs \ {m} : arriving'[n] = arriving[n]
  BY <1>1 DEF IInv, TypeOK, Objects
<1>4. Unread(m) /\ ~Held(m) /\ (m \in Results => tool[m] = "reported")
  BY <1>1 DEF IInv, Sound, ArrivalsAreUnread
<1>5. {m} \in SUBSET Msgs
  OBVIOUS
<1>6. \A r \in Results : tool'[r] # "reported" =>
        tool[r] # "reported" /\ r \notin {m} /\ arriving'[r] = "no"
  <2>1. \A r \in Results : tool[r] # "reported" => arriving[r] = "no" /\ r \in Msgs
    BY MsgFacts DEF IInv, Sound, UnreportedAreFresh, Fresh
  <2>2. QED
    BY <1>1, <1>3, <1>4, <2>1
<1>7. \A t \in Turns : turn'[t].pc \in {"reporting", "resuming"} =>
        \A n \in turn[t].batch : n \notin {m} /\ arriving'[n] = "no"
  <2>1. \A t \in Turns : turn[t].pc \in {"reporting", "resuming"} =>
          \A n \in turn[t].batch : n # m /\ n \in Msgs /\ arriving[n] = "no"
    BY <1>4, MsgFacts DEF IInv, Sound, ReportsAreFresh, Held
  <2>2. QED
    BY <1>1, <1>3, <2>1
<1>8. \A n \in Msgs : arriving'[n] # "no" => n \notin {m} /\ arriving[n] # "no"
  BY <1>3
<1>9. queue' \in SUBSET Msgs /\ Sound'
  BY <1>1, <1>5, <1>6, <1>7, <1>8, Arrival
<1>10. QED
  BY <1>1, <1>2, <1>3, <1>9 DEF IInv, TypeOK, AgentType
-----------------------------------------------------------------------------
(* updateAgent makes objects stale, and moves nothing.                     *)
LEMMA SetModeKeeps == ASSUME IInv, NEW mode \in {"chat", "agent"}, SetMode(mode) PROVE IInv'
<1>1. /\ agent' = [agent EXCEPT !.mode = mode]
      /\ leaving' = (agent.mode = "agent" /\ mode = "chat")
      /\ stopping' = Replaced(stopping)
      /\ arriving' = [m \in Msgs |-> Replaced(arriving[m])]
      /\ tool' = [r \in Results |-> IF tool[r] = "asking" THEN "askingStale" ELSE tool[r]]
      /\ UNCHANGED <<waiting, queue, seen, turn, lock, aborted>>
  BY DEF SetMode
<1>2. agent' \in AgentType
  <2>1. agent \in AgentType /\ waiting \in BOOLEAN
    BY DEF IInv, TypeOK, AgentType
  <2>2. QED
    BY <1>1, <2>1, AgentTypes
<1>3. stopping' \in Objects /\ leaving' \in BOOLEAN /\ arriving' \in [Msgs -> Objects]
  BY <1>1 DEF IInv, TypeOK, Objects, Replaced
<1>4. tool' \in [Results -> ToolStates]
  BY <1>1 DEF IInv, TypeOK, ToolStates
<1>5. /\ \A m \in Msgs : arriving'[m] = "no" <=> arriving[m] = "no"
      /\ \A r \in Results : tool'[r] = "reported" <=> tool[r] = "reported"
  BY <1>1 DEF Replaced
<1>6. \A m : (Unread(m)' <=> Unread(m)) /\ (Held(m)' <=> Held(m))
  BY <1>1 DEF Unread, Held
<1>7. UnreportedAreFresh'
  BY <1>5, <1>6, MsgFacts DEF IInv, Sound, UnreportedAreFresh, Fresh
<1>8. ReportsAreFresh'
  BY <1>1, <1>5, <1>6, MsgFacts DEF IInv, Sound, ReportsAreFresh
<1>9. ArrivalsAreUnread' /\ TrackedAreSeen'
  BY <1>1, <1>5, <1>6 DEF IInv, Sound, ArrivalsAreUnread, TrackedAreSeen
<1>10. QED
  BY <1>1, <1>2, <1>3, <1>4, <1>7, <1>8, <1>9 DEF IInv, Sound, TypeOK, AgentType, ToolStates

LEMMA ControlKeeps ==
  ASSUME IInv,
         \/ LeftAgentMode \/ StopBegin \/ StopEnd \/ StopInChat \/ ClockReaches
         \/ \E t \in Turns : Watchdog(t)
  PROVE  IInv'
<1>1. AbortRequest => aborted' \in SUBSET Turns
  BY DEF AbortRequest, IInv, TypeOK
<1>2. MessagesKept
  BY DEF MessagesKept, LeftAgentMode, StopBegin, StopEnd, StopInChat, ClockReaches, Watchdog
<1>3. Sound'
  BY <1>2, KeptMessages
<1>4. agent \in AgentType /\ waiting \in BOOLEAN /\ lock \in BOOLEAN /\ leaving \in BOOLEAN
      /\ stopping \in Objects /\ aborted \in SUBSET Turns
  BY DEF IInv, TypeOK, AgentType
<1>5. /\ agent' \in AgentType /\ waiting' \in BOOLEAN /\ lock' \in BOOLEAN /\ leaving' \in BOOLEAN
      /\ stopping' \in Objects /\ aborted' \in SUBSET Turns
  <2>1. CASE LeftAgentMode
    BY <1>4, <2>1 DEF LeftAgentMode
  <2>2. CASE StopBegin
    <3>1. agent' \in AgentType
      BY <1>4, <2>2 DEF StopBegin, AgentType
    <3>2. QED
      BY <1>1, <1>4, <2>2, <3>1 DEF StopBegin, Objects
  <2>3. CASE StopEnd
    <3>1. agent' \in AgentType
      BY <1>4, <2>3 DEF StopEnd, AgentType
    <3>2. QED
      BY <1>4, <2>3, <3>1 DEF StopEnd, Objects
  <2>4. CASE StopInChat
    <3>1. agent' \in AgentType
      BY <1>4, <2>4 DEF StopInChat, AgentType
    <3>2. QED
      BY <1>1, <1>4, <2>4, <3>1 DEF StopInChat
  <2>5. CASE ClockReaches
    BY <1>4, <2>5 DEF ClockReaches
  <2>6. CASE \E t \in Turns : Watchdog(t)
    BY <1>4, <2>6 DEF Watchdog
  <2>7. QED
    BY <2>1, <2>2, <2>3, <2>4, <2>5, <2>6
<1>6. QED
  BY <1>2, <1>3, <1>5 DEF IInv, TypeOK, AgentType, MessagesKept

LEMMA NextKeeps == IInv /\ [Next]_vars => IInv'
<1> SUFFICES ASSUME IInv, [Next]_vars PROVE IInv'
  OBVIOUS
<1>1. ASSUME NEW t \in Turns, StartTurn(t) PROVE IInv'
  BY <1>1, StartTurnKeeps
<1>2. ASSUME NEW t \in Turns, Proceeds(t) PROVE IInv'
  BY <1>2, TasksPersistedKeeps, TrackingPersistedKeeps, ClearingPersistedKeeps, TtlPersistedKeeps,
     StartCallKeeps, NoRequestKeeps, ResumeToReportKeeps, ReportFailureKeeps DEF Proceeds
<1>3. ASSUME NEW t \in Turns, Settles(t) PROVE IInv'
  BY <1>3, ModelAnswersKeeps, ModelFailsKeeps, ModelFailsHardKeeps DEF Settles
<1>4. ASSUME NEW t \in Turns, DiskFails(t) PROVE IInv'
  BY <1>4, DiskFailsKeeps
<1>5. ASSUME NEW r \in Results, Works(r) \/ AddToolResult(r) PROVE IInv'
  BY <1>5, ToolRunsKeeps, AsksKeep, ToolReportsKeeps, AddToolResultKeeps DEF Works
<1>6. ASSUME NEW m \in UserMsgs \cup InterMsgs, AddMessage(m) PROVE IInv'
  BY <1>6, AddMessageKeeps
<1>7. ASSUME NEW m \in Msgs, AgentResumed(m) PROVE IInv'
  BY <1>7, AgentResumedKeeps
<1>8. ASSUME NEW mode \in {"chat", "agent"}, SetMode(mode) PROVE IInv'
  BY <1>8, SetModeKeeps
<1>9. CASE \/ LeftAgentMode \/ StopBegin \/ StopEnd \/ StopInChat \/ ClockReaches
           \/ \E t \in Turns : Watchdog(t)
  BY <1>9, ControlKeeps
<1>10. CASE UNCHANGED vars
  <2>1. MessagesKept /\ UNCHANGED <<agent, waiting, lock, stopping, leaving, aborted>>
    BY <1>10 DEF vars, MessagesKept
  <2>2. Sound'
    BY <2>1, KeptMessages
  <2>3. QED
    BY <2>1, <2>2 DEF IInv, TypeOK, MessagesKept
<1>11. QED
  BY <1>1, <1>2, <1>3, <1>4, <1>5, <1>6, <1>7, <1>8, <1>9, <1>10 DEF Next

LEMMA InitIInv == Init => IInv
<1> SUFFICES ASSUME Init PROVE IInv
  OBVIOUS
<1>1. TypeOK
  <2>1. agent \in AgentType
    BY ModeAssumption DEF Init, AgentType
  <2>2. QED
    BY <2>1 DEF Init, TypeOK, AgentType, Idle, Phases, Objects
<1>2. Sound
  BY MsgFacts DEF Init, Idle, Sound, UnreportedAreFresh, ReportsAreFresh, ArrivalsAreUnread,
                  TrackedAreSeen, Fresh, Unread, Held
<1>3. QED
  BY <1>1, <1>2 DEF IInv
-----------------------------------------------------------------------------
(* The inductive invariant, whatever the provider and the disk do.         *)
THEOREM InvariantHolds == SpecSilent => []IInv
<1>1. Init => IInv
  BY InitIInv
<1>2. IInv /\ [Next]_vars => IInv'
  BY NextKeeps
<1>3. QED
  BY <1>1, <1>2, PTL DEF SpecSilent

(* The state of an agent is what the code's types say.                     *)
THEOREM TypesHold == SpecSilent => []TypeOK
<1>1. IInv => TypeOK
  BY DEF IInv
<1>2. QED
  BY <1>1, InvariantHolds, PTL
-----------------------------------------------------------------------------
(* What a turn does to the queue: it takes nothing it does not append,     *)
(* but for what came in after its snapshot.                                *)
DropsLateOnly ==
  \A m \in Msgs :
    m \in queue /\ m \notin queue' /\ seen'[m] = 0 =>
      \E t \in Turns : turn[t].pc \in {"tasks", "tracking"} /\ m \notin turn[t].batch

LEMMA StartTurnDropsNothing ==
  ASSUME IInv, NEW t \in Turns, StartTurn(t), NEW m \in queue, m \notin queue'
  PROVE  seen'[m] > 0
<1> DEFINE a == Refreshed(agent)
           boundary == a.workComplete /\ New(queue) # {}
           stale == IF boundary THEN queue \cap Results ELSE {}
           batch == queue \ stale
<1>1. ProcessAgentQueues(a, t)
  BY DEF StartTurn, ProcessAutonomously
<1>2. \/ seen' = Consolidated(stale) /\ queue' = batch
      \/ AppendBatch(t, batch, stale)
  BY <1>1 DEF ProcessAgentQueues
<1>3. \/ m \in stale /\ seen' = Consolidated(stale)
      \/ m \in batch \cup stale /\ seen' = Consolidated(batch \cup stale)
  BY <1>2 DEF AppendBatch
<1>4. stale \in SUBSET Msgs /\ batch \cup stale \in SUBSET Msgs
  BY DEF IInv, TypeOK
<1> HIDE DEF boundary, stale, batch
<1>5. QED
  BY <1>3, <1>4, ConsolidatedFacts DEF IInv

LEMMA NextDropsLateOnly == IInv /\ [Next]_vars => DropsLateOnly
<1> SUFFICES ASSUME IInv, [Next]_vars, NEW m \in Msgs,
                    m \in queue, m \notin queue', seen'[m] = 0
             PROVE  \E t \in Turns : turn[t].pc \in {"tasks", "tracking"} /\ m \notin turn[t].batch
  BY DEF DropsLateOnly
<1>1. CASE \E t \in Turns : StartTurn(t)
  BY <1>1, StartTurnDropsNothing
<1>2. CASE \E t \in Turns : TasksPersisted(t)
  <2>1. PICK t \in Turns : TasksPersisted(t)
    BY <1>2
  <2>2. turn[t].pc = "tasks" /\ seen' = Consolidated(turn[t].batch \cup {})
    BY <2>1 DEF TasksPersisted, AppendBatch
  <2>3. PICK batch \in SUBSET Msgs : batch = turn[t].batch \cup {}
    BY DEF IInv, TypeOK
  <2>4. m \notin batch
    BY <2>2, <2>3, ConsolidatedFacts DEF IInv
  <2>5. QED
    BY <2>2, <2>3, <2>4
<1>3. CASE \E t \in Turns : TrackingPersisted(t)
  BY <1>3 DEF TrackingPersisted, IInv, Sound, TrackedAreSeen
<1>4. CASE \E t \in Turns : ReportFailure(t)
  BY <1>4 DEF ReportFailure
<1>5. CASE \E t \in Turns : ModelAnswers(t)
  BY <1>5 DEF ModelAnswers, AnswerWithTool, AnswerWithText, AnswerStalls
<1>6. CASE \E r \in Results : Works(r) \/ AddToolResult(r)
  BY <1>6 DEF Works, ToolRuns, AskUser, AskEnds, ToolReports, AddToolResult, Arrive, Queued
<1>7. CASE \/ \E n \in UserMsgs \cup InterMsgs : AddMessage(n)
           \/ \E n \in Msgs : AgentResumed(n)
  BY <1>7 DEF AddMessage, AgentResumed, Arrive, Queued
<1>8. CASE UNCHANGED queue
  BY <1>8
<1>9. QED
  BY <1>1, <1>2, <1>3, <1>4, <1>5, <1>6, <1>7, <1>8
     DEF Next, Proceeds, Settles, ClearingPersisted, TtlPersisted, StartCall, NoRequest,
         ResumeToReport, ModelFails, ModelFailsHard, DiskFails, Watchdog, SetMode,
         LeftAgentMode, StopBegin, StopEnd, StopInChat, ClockReaches, vars

(* Only what arrives while a turn drains the queues can leave them unread; *)
(* what the turn itself took never does, with disks that fail, providers   *)
(* that are silent and turns that overlap.                                 *)
THEOREM OnlyLateArrivals == SpecSilent => OnlyLateArrivalsAreDropped
<1>1. IInv /\ [Next]_vars => DropsLateOnly
  BY NextDropsLateOnly
<1>2. QED
  BY <1>1, InvariantHolds, PTL DEF SpecSilent, OnlyLateArrivalsAreDropped, DropsLateOnly
-----------------------------------------------------------------------------
(* Messages come in unread, and turns that track go on tracking.           *)
LEMMA UnreadKept ==
  ASSUME QueuedIsUnread, seen' = seen, \A m \in queue' : m \in queue \/ seen[m] = 0,
         \A t \in Turns : turn[t].pc = "tracking" => turn'[t] = turn[t]
  PROVE  QueuedIsUnread'
<1> SUFFICES ASSUME NEW m \in queue', seen'[m] > 0
             PROVE  \E t \in Turns : turn'[t].pc = "tracking" /\ m \in turn'[t].batch
  BY DEF QueuedIsUnread
<1>1. m \in queue /\ seen[m] > 0
  OBVIOUS
<1>2. PICK t \in Turns : turn[t].pc = "tracking" /\ m \in turn[t].batch
  BY <1>1 DEF QueuedIsUnread
<1>3. QED
  BY <1>2

LEMMA AppendBatchUnread ==
  ASSUME IInv, QueuedIsUnread, NEW t \in Turns, turn[t].pc # "tracking",
         NEW batch \in SUBSET Msgs, NEW stale \in SUBSET Msgs, AppendBatch(t, batch, stale)
  PROVE  QueuedIsUnread'
<1> SUFFICES ASSUME NEW m \in queue', seen'[m] > 0
             PROVE  \E u \in Turns : turn'[u].pc = "tracking" /\ m \in turn'[u].batch
  BY DEF QueuedIsUnread
<1>1. queue' = queue \ stale /\ At(t, "tracking", batch) /\ m \in queue /\ m \notin stale
  BY DEF AppendBatch
<1>2. /\ turn'[t].pc = "tracking" /\ turn'[t].batch = batch
      /\ \A u \in Turns \ {t} : turn'[u] = turn[u]
  BY <1>1, AtFacts DEF IInv, Phases
<1>3. m \notin batch => seen'[m] = seen[m]
  <2>1. seen' = Consolidated(batch \cup stale) /\ batch \cup stale \in SUBSET Msgs /\ m \in Msgs
    BY <1>1 DEF AppendBatch, IInv, TypeOK
  <2>2. QED
    BY <1>1, <2>1, ConsolidatedFacts DEF IInv
<1>4. CASE m \in batch
  BY <1>2, <1>4
<1>5. CASE m \notin batch
  <2>1. PICK u \in Turns : turn[u].pc = "tracking" /\ m \in turn[u].batch
    BY <1>1, <1>3, <1>5 DEF QueuedIsUnread
  <2>2. QED
    BY <1>2, <2>1
<1>6. QED
  BY <1>4, <1>5

LEMMA StartTurnUnread ==
  ASSUME IInv, QueuedIsUnread, NEW t \in Turns, StartTurn(t)
  PROVE  QueuedIsUnread'
<1> DEFINE a == Refreshed(agent)
           boundary == a.workComplete /\ New(queue) # {}
           stale == IF boundary THEN queue \cap Results ELSE {}
           batch == queue \ stale
<1>1. stale \in SUBSET Msgs /\ batch \in SUBSET Msgs
  BY DEF IInv, TypeOK
<1>2. turn[t].pc # "tracking"
  BY DEF StartTurn, Running
<1>3. CASE ProcessAgentQueues(a, t)
  <2>1. \/ seen' = Consolidated(stale) /\ queue' = batch /\ At(t, "tasks", batch)
        \/ AppendBatch(t, batch, stale)
    BY <1>3 DEF ProcessAgentQueues
  <2>2. \A m \in batch : m \notin stale /\ m \in queue
    OBVIOUS
  <2> HIDE DEF boundary, stale, batch
  <2>3. CASE AppendBatch(t, batch, stale)
    BY <1>1, <1>2, <2>3, AppendBatchUnread
  <2>4. CASE seen' = Consolidated(stale) /\ queue' = batch /\ At(t, "tasks", batch)
    <3> SUFFICES ASSUME NEW m \in queue', seen'[m] > 0
                 PROVE  \E u \in Turns : turn'[u].pc = "tracking" /\ m \in turn'[u].batch
      BY DEF QueuedIsUnread
    <3>1. \A u \in Turns \ {t} : turn'[u] = turn[u]
      BY <1>1, <2>4, AtFacts DEF IInv, Phases
    <3>2. m \in queue /\ seen[m] > 0
      BY <1>1, <2>2, <2>4, ConsolidatedFacts DEF IInv
    <3>3. PICK u \in Turns : turn[u].pc = "tracking" /\ m \in turn[u].batch
      BY <3>2 DEF QueuedIsUnread
    <3>4. QED
      BY <1>2, <3>1, <3>3
  <2>5. QED
    BY <2>1, <2>3, <2>4
<1>4. CASE ProcessAutonomously(a, t)
  <2>1. queue' = queue /\ seen' = seen /\ (At(t, "spending", {}) \/ At(t, "ready", {}))
    BY <1>4 DEF ProcessAutonomously
  <2>2. \A u \in Turns \ {t} : turn'[u] = turn[u]
    BY <2>1, AtFacts DEF IInv, Phases
  <2>3. QED
    BY <1>2, <2>1, <2>2, UnreadKept
<1>5. CASE UNCHANGED <<queue, seen, turn>>
  BY <1>5, UnreadKept
<1>6. QED
  BY <1>3, <1>4, <1>5 DEF StartTurn

(* One turn that does not track moves, or one that tracks is done, when    *)
(* every queue is empty.                                                   *)
LEMMA ProceedsUnread ==
  ASSUME IInv, QueuedIsUnread, NEW t \in Turns, Proceeds(t)
  PROVE  QueuedIsUnread'
<1>1. CASE TasksPersisted(t)
  <2>1. turn[t].pc = "tasks" /\ AppendBatch(t, turn[t].batch, {})
    BY <1>1 DEF TasksPersisted
  <2>2. PICK batch \in SUBSET Msgs : batch = turn[t].batch
    BY DEF IInv, TypeOK
  <2>3. QED
    BY <2>1, <2>2, AppendBatchUnread
<1>2. CASE TrackingPersisted(t)
  BY <1>2 DEF TrackingPersisted, QueuedIsUnread
<1>3. CASE ClearingPersisted(t) \/ StartCall(t) \/ ResumeToReport(t)
  <2>1. queue' = queue /\ seen' = seen /\ turn[t].pc # "tracking"
    BY <1>3 DEF ClearingPersisted, StartCall, ResumeToReport
  <2>2. \A u \in Turns \ {t} : turn'[u] = turn[u]
    <3>1. turn[t].batch \in SUBSET Msgs
      BY DEF IInv, TypeOK
    <3>2. \E pc \in Phases, batch \in SUBSET Msgs : At(t, pc, batch)
      BY <1>3, <3>1 DEF ClearingPersisted, StartCall, ResumeToReport, Phases, Conversation
    <3>3. QED
      BY <3>2, AtFacts DEF IInv
  <2>3. QED
    BY <2>1, <2>2, UnreadKept
<1>4. CASE TtlPersisted(t) \/ NoRequest(t)
  <2>1. queue' = queue /\ seen' = seen /\ turn[t].pc # "tracking"
    BY <1>4 DEF TtlPersisted, NoRequest
  <2>2. \A u \in Turns \ {t} : turn'[u] = turn[u]
    BY <1>4, ReleaseFacts, EndTurnFacts DEF TtlPersisted, NoRequest, IInv
  <2>3. QED
    BY <2>1, <2>2, UnreadKept
<1>5. CASE ReportFailure(t)
  <2>1. /\ turn[t].pc \in {"reporting", "resuming"}
        /\ queue' = queue \cup turn[t].batch /\ seen' = seen
        /\ \A u \in Turns \ {t} : turn'[u] = turn[u]
    BY <1>5, EndTurnFacts DEF ReportFailure, IInv
  <2>2. \A m \in turn[t].batch : seen[m] = 0
    BY <2>1 DEF IInv, Sound, ReportsAreFresh, Unread
  <2>3. QED
    BY <2>1, <2>2, UnreadKept
<1>6. QED
  BY <1>1, <1>2, <1>3, <1>4, <1>5 DEF Proceeds

LEMMA SettlesUnread ==
  ASSUME IInv, QueuedIsUnread, NEW t \in Turns, Settles(t)
  PROVE  QueuedIsUnread'
<1>1. turn[t].pc = "calling" /\ seen' = seen
  BY DEF Settles, ModelAnswers, ModelFails, ModelFailsHard
<1>2. \A u \in Turns \ {t} : turn'[u] = turn[u]
  <2>1. CASE EndTurn(t)
    BY <2>1, EndTurnFacts DEF IInv
  <2>2. CASE \E r \in Results : At(t, "reporting", {r})
    BY <2>2, AtFacts, MsgFacts DEF IInv, Phases
  <2>3. QED
    BY <2>1, <2>2 DEF Settles, ModelAnswers, ModelFails, ModelFailsHard
<1>3. \A m \in queue' : m \in queue \/ seen[m] = 0
  BY DEF Settles, ModelAnswers, ModelFails, ModelFailsHard, AnswerWithTool, AnswerWithText,
         AnswerStalls, Unused, Fresh, Unread
<1>4. QED
  BY <1>1, <1>2, <1>3, UnreadKept

LEMMA NextUnread ==
  ASSUME "diskFailure" \notin Events, IInv, QueuedIsUnread, [Next]_vars
  PROVE  QueuedIsUnread'
<1>1. ASSUME NEW t \in Turns, StartTurn(t) PROVE QueuedIsUnread'
  BY <1>1, StartTurnUnread
<1>2. ASSUME NEW t \in Turns, Proceeds(t) \/ Settles(t) PROVE QueuedIsUnread'
  BY <1>2, ProceedsUnread, SettlesUnread
<1>3. ASSUME NEW r \in Results, Works(r) \/ AddToolResult(r) PROVE QueuedIsUnread'
  <2>1. UNCHANGED <<seen, turn>> /\ (queue' = queue \/ queue' = queue \cup {r})
        /\ (queue' # queue => tool[r] # "reported")
    BY <1>3 DEF Works, ToolRuns, AskUser, AskEnds, ToolReports, AddToolResult, Unused, Arrive, Queued
  <2>2. queue' # queue => seen[r] = 0
    BY <2>1 DEF IInv, Sound, UnreportedAreFresh, Fresh, Unread
  <2>3. QED
    BY <2>1, <2>2, UnreadKept
<1>4. ASSUME NEW m \in Msgs, AddMessage(m) \/ AgentResumed(m) PROVE QueuedIsUnread'
  <2>1. UNCHANGED <<seen, turn>> /\ queue' \subseteq queue \cup {m}
    BY <1>4 DEF AddMessage, AgentResumed, Arrive, Queued
  <2>2. seen[m] = 0
    BY <1>4 DEF AddMessage, AgentResumed, Fresh, Unread, IInv, Sound, ArrivalsAreUnread
  <2>3. QED
    BY <2>1, <2>2, UnreadKept
<1>5. CASE UNCHANGED <<queue, seen, turn>>
  BY <1>5, UnreadKept
<1>6. QED
  BY <1>1, <1>2, <1>3, <1>4, <1>5, MsgFacts
     DEF Next, DiskFails, Watchdog, SetMode, LeftAgentMode, StopBegin, StopEnd, StopInChat,
         ClockReaches, vars

(* While the disk works, a message is in a queue and in the conversation   *)
(* only while the turn that appended it waits for its tracking: the queues *)
(* never hand a read message to a second turn at any other moment.         *)
THEOREM QueuedStaysUnread ==
  ASSUME "diskFailure" \notin Events
  PROVE  SpecSilent => []QueuedIsUnread
<1>1. Init => QueuedIsUnread
  BY DEF Init, QueuedIsUnread
<1>2. IInv /\ QueuedIsUnread /\ [Next]_vars => QueuedIsUnread'
  BY NextUnread
<1>3. QED
  BY <1>1, <1>2, InvariantHolds, PTL DEF SpecSilent
-----------------------------------------------------------------------------
(* What makes an agent a mailbox: it stays in CHAT mode, and no other      *)
(* agent writes to it.                                                     *)
ChatOnly == FirstMode = "chat" /\ "toggle" \notin Events /\ InterMsgs = {}
InChat == /\ agent.mode = "chat"
          /\ \A t \in Turns : turn[t].pc \notin {"tasks", "tracking"}
          /\ \A t \in Turns : turn[t].pc \in {"reporting", "resuming"} =>
               \E r \in Results : turn[t].batch = {r}

LEMMA ModeKept ==
  \A a \in AgentType : /\ Refreshed(a).mode = a.mode /\ Awake(a).mode = a.mode
                       /\ Spent(a).mode = a.mode /\ Resumed(a).mode = a.mode
BY DEF AgentType, Refreshed, Awake, Spent, Resumed

LEMMA ChatDrains ==
  ASSUME ChatOnly, IInv, InChat, NEW t \in Turns, StartTurn(t)
  PROVE  /\ InChat'
         /\ \/ UNCHANGED <<queue, seen>>
            \/ queue # {} /\ queue' = {} /\ seen' = Consolidated(queue)
<1> DEFINE a == Refreshed(agent)
           boundary == a.workComplete /\ New(queue) # {}
           stale == IF boundary THEN queue \cap Results ELSE {}
           batch == queue \ stale
           b == [a EXCEPT !.workComplete = @ /\ ~boundary]
<1>1. a \in AgentType /\ a.mode = "chat"
  <2>1. agent \in AgentType /\ waiting \in BOOLEAN
    BY DEF IInv, TypeOK, AgentType
  <2>2. a \in AgentType
    BY <2>1, AgentTypes
  <2>3. a.mode = agent.mode
    BY <2>1, ModeKept
  <2>4. QED
    BY <2>2, <2>3 DEF InChat
<1>2. batch \cup stale = queue /\ batch \cap InterMsgs = {} /\ queue \in SUBSET Msgs
      /\ batch \in SUBSET Msgs
  BY DEF ChatOnly, IInv, TypeOK
<1>3. CASE queue # {} /\ ProcessAgentQueues(a, t)
  <2>1. agent' = b /\ AppendBatch(t, batch, stale)
    BY <1>1, <1>3 DEF ProcessAgentQueues
  <2>2. agent'.mode = "chat"
    <3> HIDE DEF boundary, a
    <3>1. QED
      BY <1>1, <2>1 DEF AgentType
  <2>3. queue' = {} /\ seen' = Consolidated(queue) /\ At(t, "clearing", batch)
    BY <1>2, <2>1 DEF AppendBatch
  <2> HIDE DEF boundary, stale, batch, b, a
  <2>4. /\ turn'[t].pc = "clearing" /\ \A u \in Turns \ {t} : turn'[u] = turn[u]
    BY <1>2, <2>3, AtFacts DEF IInv, Phases
  <2>5. QED
    BY <1>3, <2>2, <2>3, <2>4 DEF InChat
<1>4. CASE ProcessAutonomously(a, t)
  <2>1. agent' = Spent(a) /\ At(t, "spending", {}) /\ UNCHANGED <<queue, seen>>
    BY <1>1, <1>4 DEF ProcessAutonomously
  <2>2. turn'[t].pc = "spending" /\ \A u \in Turns \ {t} : turn'[u] = turn[u]
    BY <2>1, AtFacts DEF IInv, Phases
  <2>3. agent'.mode = "chat"
    BY <1>1, <2>1, ModeKept
  <2>4. QED
    BY <2>1, <2>2, <2>3 DEF InChat
<1>5. CASE agent' = [a EXCEPT !.mode = "chat"] /\ UNCHANGED <<queue, seen, turn, lock>>
  <2> HIDE DEF a
  <2>1. agent'.mode = "chat"
    BY <1>1, <1>5 DEF AgentType
  <2>2. QED
    BY <1>5, <2>1 DEF InChat
<1>6. QED
  BY <1>3, <1>4, <1>5 DEF StartTurn

LEMMA ChatStays ==
  ASSUME ChatOnly, IInv, InChat, [Next]_vars
  PROVE  InChat'
<1>1. agent \in AgentType /\ waiting \in BOOLEAN
  BY DEF IInv, TypeOK, AgentType
<1>2. ASSUME NEW t \in Turns, StartTurn(t) PROVE InChat'
  BY <1>2, ChatDrains
<1>3. ASSUME NEW t \in Turns, Proceeds(t) PROVE InChat'
  <2>1. /\ \A u \in Turns \ {t} : turn'[u] = turn[u]
        /\ \/ turn'[t].pc \in {"ready", "calling", "idle", "spending"}
           \/ turn'[t].pc = "resuming" /\ \E r \in Results : turn'[t].batch = {r}
    <3>1. CASE ClearingPersisted(t) \/ StartCall(t)
      <4>1. \E pc \in {"ready", "calling"}, batch \in SUBSET Msgs : At(t, pc, batch)
        BY <3>1 DEF ClearingPersisted, StartCall, Conversation
      <4>2. QED
        BY <4>1, AtFacts DEF IInv, Phases
    <3>2. CASE ReportFailure(t) \/ TtlPersisted(t) \/ NoRequest(t)
      BY <3>2, ReleaseFacts, EndTurnFacts DEF ReportFailure, TtlPersisted, NoRequest, IInv
    <3>3. CASE ResumeToReport(t)
      <4>1. turn[t].pc = "reporting" /\ At(t, "resuming", turn[t].batch)
        BY <3>3 DEF ResumeToReport
      <4>2. PICK batch \in SUBSET Msgs : batch = turn[t].batch
        BY DEF IInv, TypeOK
      <4>3. /\ turn'[t].pc = "resuming" /\ turn'[t].batch = turn[t].batch
            /\ \A u \in Turns \ {t} : turn'[u] = turn[u]
        BY <4>1, <4>2, AtFacts DEF IInv, Phases
      <4>4. QED
        BY <4>1, <4>3 DEF InChat
    <3>4. QED
      BY <1>3, <3>1, <3>2, <3>3 DEF Proceeds, TasksPersisted, TrackingPersisted, InChat
  <2>2. agent'.mode = "chat"
    <3>1. \/ agent' = agent \/ agent' = Spent(agent) \/ agent' = Resumed(agent)
          \/ agent' = Spent(Awake(agent))
      BY <1>3 DEF Proceeds, TasksPersisted, TrackingPersisted, ClearingPersisted, TtlPersisted,
                  StartCall, NoRequest, ResumeToReport, ReportFailure
    <3>2. Awake(agent) \in AgentType
      BY <1>1, AgentTypes
    <3>3. QED
      BY <1>1, <3>1, <3>2, ModeKept DEF InChat
  <2>3. QED
    BY <2>1, <2>2 DEF InChat
<1>4. ASSUME NEW t \in Turns, Settles(t) PROVE InChat'
  <2>1. /\ \A u \in Turns \ {t} : turn'[u] = turn[u]
        /\ \/ turn'[t].pc \in {"idle", "spending"}
           \/ turn'[t].pc = "reporting" /\ \E r \in Results : turn'[t].batch = {r}
    <3>1. CASE EndTurn(t)
      BY <3>1, EndTurnFacts DEF IInv
    <3>2. CASE \E r \in Results : At(t, "reporting", {r})
      BY <3>2, AtFacts, MsgFacts DEF IInv, Phases
    <3>3. QED
      BY <1>4, <3>1, <3>2 DEF Settles, ModelAnswers, ModelFails, ModelFailsHard
  <2>2. agent'.mode = "chat"
    <3>1. \/ agent' = Spent(agent) \/ agent' = [Spent(agent) EXCEPT !.delayed = TRUE]
          \/ agent' = [Spent(agent) EXCEPT !.mode = "chat"]
          \/ agent' = [agent EXCEPT !.delayed = TRUE]
      BY <1>4 DEF Settles, ModelAnswers, ModelFails, ModelFailsHard, AnswerWithTool,
                  AnswerWithText, AnswerStalls
    <3>2. Spent(agent) \in AgentType /\ Spent(agent).mode = "chat"
      BY <1>1, AgentTypes, ModeKept DEF InChat
    <3>3. QED
      BY <1>1, <3>1, <3>2 DEF AgentType, InChat
  <2>3. QED
    BY <2>1, <2>2 DEF InChat
<1>5. ASSUME NEW t \in Turns, DiskFails(t) PROVE InChat'
  BY <1>5, ReleaseFacts DEF DiskFails, IInv, InChat
<1>6. ASSUME NEW r \in Results, Works(r) PROVE InChat'
  <2>1. turn' = turn
    BY <1>6 DEF Works, ToolRuns, AskUser, AskEnds, ToolReports
  <2>2. agent'.mode = agent.mode
    <3>1. CASE ToolRuns(r)
      BY <1>1, <3>1 DEF ToolRuns, JobDone, ManageTasks, AgentDelay, AgentType
    <3>2. CASE AskUser(r)
      BY <1>1, <3>2 DEF AskUser, AgentType
    <3>3. CASE AskEnds(r)
      BY <1>1, <3>3 DEF AskEnds, AgentType
    <3>4. CASE ToolReports(r)
      BY <3>4 DEF ToolReports
    <3>5. QED
      BY <1>6, <3>1, <3>2, <3>3, <3>4 DEF Works
  <2>3. QED
    BY <2>1, <2>2 DEF InChat
<1>7. ASSUME NEW m \in Msgs, Queued(m), turn' = turn PROVE InChat'
  <2>1. Awake(agent) \in AgentType /\ Awake(agent).mode = "chat"
    BY <1>1, AgentTypes, ModeKept DEF InChat
  <2>2. QED
    BY <1>7, <2>1 DEF Queued, AgentType, InChat
<1>8. ASSUME NEW m \in Msgs, AddMessage(m) \/ AgentResumed(m) \/ AddToolResult(m) PROVE InChat'
  <2>1. turn' = turn
    BY <1>8 DEF AddMessage, AgentResumed, AddToolResult
  <2>2. CASE Queued(m)
    BY <1>7, <2>1, <2>2
  <2>3. CASE agent' = Resumed(agent) \/ agent' = agent \/ agent' = [agent EXCEPT !.tasks = "open"]
    BY <1>1, <2>1, <2>3, ModeKept DEF AgentType, InChat
  <2>4. QED
    BY <1>8, <2>2, <2>3 DEF AddMessage, AgentResumed, AddToolResult, Arrive
<1>9. CASE StopBegin \/ StopEnd \/ StopInChat
  <2>1. turn' = turn
    BY <1>9 DEF StopBegin, StopEnd, StopInChat
  <2>2. agent'.mode = "chat"
    BY <1>1, <1>9 DEF StopBegin, StopEnd, StopInChat, AgentType, InChat
  <2>3. QED
    BY <2>1, <2>2 DEF InChat
<1>10. CASE UNCHANGED <<agent, turn>>
  BY <1>10 DEF InChat
<1>11. ~\E mode \in {"chat", "agent"} : SetMode(mode)
  BY DEF ChatOnly, SetMode
<1>12. QED
  BY <1>2, <1>3, <1>4, <1>5, <1>6, <1>8, <1>9, <1>10, <1>11, MsgFacts
     DEF Next, LeftAgentMode, Watchdog, ClockReaches, vars

(* Each step of the agent is one of the mailbox, or none of its business.  *)
LEMMA ChatSteps ==
  ASSUME ChatOnly, IInv, InChat, [Next]_vars
  PROVE  [Box!Next]_<<queue, seen>>
<1>1. ASSUME NEW t \in Turns, StartTurn(t) PROVE [Box!Next]_<<queue, seen>>
  <2>1. CASE UNCHANGED <<queue, seen>>
    BY <2>1
  <2>2. CASE queue # {} /\ queue' = {} /\ seen' = Consolidated(queue)
    <3>1. queue \in SUBSET Msgs /\ queue' = queue \ queue
      BY <2>2 DEF IInv, TypeOK
    <3>2. Box!Deliver(queue)
      BY <2>2, <3>1 DEF Box!Deliver, Consolidated
    <3>3. QED
      BY <3>1, <3>2 DEF Box!Next
  <2>3. QED
    BY <1>1, <2>1, <2>2, ChatDrains
<1>2. ASSUME NEW m \in Msgs, Unread(m), queue' = queue \cup {m}, seen' = seen
      PROVE  [Box!Next]_<<queue, seen>>
  BY <1>2 DEF Box!Next, Box!Accept, Unread
<1>3. ASSUME NEW t \in Turns, ReportFailure(t) PROVE [Box!Next]_<<queue, seen>>
  <2>1. PICK r \in Results : turn[t].batch = {r}
    BY <1>3 DEF ReportFailure, InChat
  <2>2. Unread(r) /\ queue' = queue \cup {r} /\ seen' = seen
    BY <1>3, <2>1 DEF ReportFailure, IInv, Sound, ReportsAreFresh
  <2>3. QED
    BY <1>2, <2>2, MsgFacts
<1>4. ASSUME NEW t \in Turns, ModelAnswers(t) PROVE [Box!Next]_<<queue, seen>>
  <2>1. \/ UNCHANGED <<queue, seen>>
        \/ \E r \in Results : Unread(r) /\ queue' = queue \cup {r} /\ seen' = seen
    BY <1>4 DEF ModelAnswers, AnswerWithTool, AnswerWithText, AnswerStalls, Unused, Fresh
  <2>2. QED
    BY <1>2, <2>1, MsgFacts
<1>5. ASSUME NEW r \in Results, Works(r) PROVE [Box!Next]_<<queue, seen>>
  <2>1. \/ UNCHANGED <<queue, seen>>
        \/ Unread(r) /\ queue' = queue \cup {r} /\ seen' = seen
    BY <1>5 DEF Works, ToolRuns, AskUser, AskEnds, ToolReports, IInv, Sound, UnreportedAreFresh, Fresh
  <2>2. QED
    BY <1>2, <2>1, MsgFacts
<1>6. ASSUME NEW m \in Msgs, AddMessage(m) \/ AgentResumed(m) \/ AddToolResult(m)
      PROVE  [Box!Next]_<<queue, seen>>
  <2>1. UNCHANGED seen /\ (queue' = queue \/ queue' = queue \cup {m})
    BY <1>6 DEF AddMessage, AgentResumed, AddToolResult, Arrive, Queued
  <2>2. Unread(m)
    BY <1>6 DEF AddMessage, AgentResumed, AddToolResult, Unused, Fresh, IInv, Sound, ArrivalsAreUnread
  <2>3. QED
    BY <1>2, <2>1, <2>2
<1>7. CASE UNCHANGED <<queue, seen>>
  BY <1>7
<1>8. \A t \in Turns : ~TasksPersisted(t) /\ ~TrackingPersisted(t)
  BY DEF InChat, TasksPersisted, TrackingPersisted
<1>9. QED
  BY <1>1, <1>3, <1>4, <1>5, <1>6, <1>7, <1>8, MsgFacts
     DEF Next, Proceeds, Settles, ClearingPersisted, TtlPersisted, StartCall, NoRequest,
         ResumeToReport, ModelFails, ModelFailsHard, DiskFails, Watchdog, SetMode,
         LeftAgentMode, StopBegin, StopEnd, StopInChat, ClockReaches, vars

(* An agent in CHAT mode is a mailbox for its senders: what they send is   *)
(* accepted once, and delivered once, with all that is queued.  (That it   *)
(* is delivered in the end is a matter of fairness, left to TLC.)          *)
THEOREM RefinesMailbox ==
  ASSUME ChatOnly
  PROVE  SpecSilent => Box!Init /\ [][Box!Next]_<<queue, seen>>
<1>1. Init => InChat /\ Box!Init
  BY DEF Init, Idle, InChat, ChatOnly, Box!Init
<1>2. IInv /\ InChat /\ [Next]_vars => InChat'
  BY ChatStays
<1>3. IInv /\ InChat /\ [Next]_vars => [Box!Next]_<<queue, seen>>
  BY ChatSteps
<1>4. QED
  BY <1>1, <1>2, <1>3, InvariantHolds, PTL DEF SpecSilent
=============================================================================
