------------------------------ MODULE Compaction ------------------------------
(***************************************************************************)
(* The conversations of one agent, one per model, and their compaction     *)
(* (src/src/core/agentPool.js, agentScheduler.js,                          *)
(* src/src/services/conversationCompactionService.js): a list whose oldest *)
(* part is a summary, kept beside the messages and joined to them by a     *)
(* watermark, while turns overlap, models change, and conversations are    *)
(* cleared.                                                                *)
(*                                                                         *)
(* A message is a number, in the order of their arrival.  An item of a     *)
(* list is a message or, if it was oversized, one of the parts it was      *)
(* split into.  Token counts decide whether and how far to compact: here   *)
(* that is a choice.  Where the code awaits no input or output its steps   *)
(* are one action; the writes of the agent's file are left out.            *)
(***************************************************************************)
EXTENDS Naturals, Sequences, Functions

CONSTANTS Models,
          Window,       \* Window[m]: the context window of m (their order matters)
          Turns,        \* turns that may be under way at once (stops let them overlap)
          MaxMessages,  \* a bound
          Oversized,    \* the messages above OVERSIZED_MESSAGE_THRESHOLD
          ToolOnly,     \* the messages that are nothing but tool results
          MinMessages,  \* MIN_MESSAGES_FOR_COMPACTION
          MinEmergency, \* the least an emergency compaction accepts
          MaxPasses,    \* MAX_COMPACTION_PASSES
          MaxRetries,   \* MAX_TOKEN_LIMIT_RETRIES
          MaxEvents,    \* clears and changes of model (a bound)
          None, Aliased

Messages == 1..MaxMessages
Items == Messages \X (0..2)
Lists == [under : Seq(Items), tail : Seq(Items), summed : BOOLEAN]
ASSUME CompactionAssumption ==
  /\ Window \in [Models -> Nat]
  /\ MaxMessages \in Nat /\ Oversized \cup ToolOnly \subseteq Messages
  /\ {MinMessages, MinEmergency} \subseteq Nat \ {0, 1} /\ MaxPasses \in Nat \ {0}
  /\ {MaxRetries, MaxEvents} \subseteq Nat
  /\ None # Aliased /\ {None, Aliased} \cap Lists = {} /\ None \notin Models

VARIABLES
  conv,       \* agent.conversations, without "full"
  current,    \* agent.currentModel
  preferred,  \* agent.preferredModel
  turn,       \* the turns, and the agent object and conversation each has captured
  attempts,   \* tokenLimitRetryTracker
  last,       \* the latest message
  events,     \* counts clears and changes of model, for the bound
  cleared,    \* history only: the latest message at the last clear
  mishaps     \* history only: what happened that excuses a property

vars == <<conv, current, preferred, turn, attempts, last, events, cleared,
          mishaps>>

Size(list) == Len(list.tail) + (IF list.summed THEN 1 ELSE 0)
Plain(messages) == [under |-> << >>, tail |-> messages, summed |-> FALSE]
NoConversation == [exists |-> FALSE, messages |-> << >>, list |-> None, mark |-> 0,
                   dropped |-> {}]
Emptied == [NoConversation EXCEPT !.exists = TRUE]
Off == [pc |-> "off", target |-> None, fresh |-> TRUE, attached |-> TRUE,
        emergency |-> FALSE, asks |-> FALSE, input |-> Plain(<< >>), mark |-> 0,
        dropped |-> {}, switch |-> FALSE]
-----------------------------------------------------------------------------
IsList(list) == list \in Lists /\ (~list.summed => list.under = << >>)
Conversations == [exists : BOOLEAN, messages : Seq(Items), list : Lists \cup {None, Aliased},
                  mark : Nat, dropped : SUBSET Items]
TurnStates == [pc : {"off", "routing", "routed", "summarising", "ready", "asking"},
               target : Models \cup {None}, fresh : BOOLEAN, attached : BOOLEAN,
               emergency : BOOLEAN, asks : BOOLEAN, input : Lists, mark : Nat,
               dropped : SUBSET Items, switch : BOOLEAN]

TypeOK ==
  /\ conv \in [Models -> Conversations] /\ turn \in [Turns -> TurnStates]
  /\ \A m \in Models :
       /\ conv[m].list \notin {None, Aliased} => IsList(conv[m].list)
       /\ conv[m].list = None => conv[m].mark = 0 /\ conv[m].dropped = {}
       /\ ~conv[m].exists => conv[m] = NoConversation
  /\ {current, preferred} \subseteq Models /\ conv[preferred].exists
  /\ \A t \in Turns :
       /\ turn[t].pc = "off" <=> turn[t] = Off
       /\ turn[t].pc \in {"off", "routing"} <=> turn[t].target = None
       /\ IsList(turn[t].input)
       /\ turn[t].pc = "summarising" => Size(turn[t].input) > 0
  /\ attempts \in 0..MaxRetries
  /\ last \in 0..MaxMessages /\ cleared \in 0..last
  /\ events \in 0..MaxEvents
  /\ mishaps \subseteq {"clear", "switch", "skip"}

Init ==
  /\ preferred \in Models /\ current = preferred
  /\ conv = [m \in Models |-> IF m = preferred THEN Emptied ELSE NoConversation]
  /\ turn = [t \in Turns |-> Off]
  /\ attempts = 0 /\ last = 0
  /\ events = 0
  /\ cleared = 0 /\ mishaps = {}
-----------------------------------------------------------------------------
(* What conversation c would be after its pending messages were synced: a  *)
(* list that is the messages' own array grows with what is appended to it. *)
\* mutant of Synced: the watermark stays where it was
SyncedOnly(c) ==
  IF c.list = None \/ c.list = Aliased THEN c
  ELSE [c EXCEPT !.list.tail = @ \o SubSeq(c.messages, c.mark + 1, Len(c.messages))]

Synced(c) ==
  LET new == SubSeq(c.messages, c.mark + 1, Len(c.messages)) IN
  IF c.list = None \/ new = << >> THEN c
  ELSE IF c.list = Aliased
    THEN [c EXCEPT !.messages = @ \o new, !.mark = Len(c.messages)]
    ELSE [c EXCEPT !.list.tail = @ \o new, !.mark = Len(c.messages)]

ListOf(c) == IF c.list \in {None, Aliased} THEN Plain(c.messages) ELSE c.list
IsOversized(item) == item[1] \in Oversized /\ item[2] = 0

(* _splitOversizedMessages. *)
Parts(item) ==
  IF IsOversized(item) THEN << <<item[1], 1>>, <<item[1], 2>> >> ELSE <<item>>

(* The sequences that each item stands for, one after another. *)
Joined(items, of) ==
  LET Upto[n \in 0..Len(items)] ==
        IF n = 0 THEN << >> ELSE Upto[n - 1] \o of[items[n]]
  IN Upto[Len(items)]

Split(items) == Joined(items, [item \in Items |-> Parts(item)])
SplitList(list) == [list EXCEPT !.tail = Split(@)]

(* _findBestConversationForModelSwitch, among _gatherCompactedConversations. *)
Best(target, convs) ==
  LET candidates == {m \in Models : convs[m].exists /\ Size(ListOf(convs[m])) > 0}
      smaller == {m \in candidates : Window[m] < Window[target]}
  IN IF smaller # {}
       THEN {m \in smaller : \A n \in smaller : Window[n] <= Window[m]}
       ELSE {m \in candidates : \A n \in candidates :
               Size(ListOf(convs[m])) <= Size(ListOf(convs[n]))}

\* mutant of Compacted: the watermark is where the conversation is by now
CompactedByNow(c, list, mark, dropped) ==
  [c EXCEPT !.exists = TRUE, !.list = list, !.dropped = dropped,
            !.mark = Len(c.messages)]

(* updateCompactedMessages. *)
Compacted(c, list, mark, dropped) ==
  [c EXCEPT !.exists = TRUE, !.list = list, !.dropped = dropped,
            !.mark = IF mark = 0 THEN Len(c.messages) ELSE mark]

(* addMessageToConversation, for the model that is current. *)
Appended(convs, message) ==
  IF convs[current].exists
    THEN [convs EXCEPT ![current].messages = Append(@, <<message, 0>>)]
    ELSE convs
-----------------------------------------------------------------------------
(* A turn drains what is queued for the agent and asks for the model to    *)
(* use.                                                                    *)
StartTurn(t) ==
  /\ turn[t].pc = "off"
  /\ turn' = [turn EXCEPT ![t] = [Off EXCEPT !.pc = "routing"]]
  /\ last < MaxMessages
  /\ last' = last + 1
  /\ conv' = Appended(conv, last')
  /\ UNCHANGED <<current, preferred, attempts, events, cleared, mishaps>>

(* The router's answer goes to the agent object captured before.           *)
Routed(t, m) ==
  /\ turn[t].pc = "routing"
  /\ turn' = [turn EXCEPT ![t].pc = "routed", ![t].target = m, ![t].asks = TRUE]
  /\ current' = IF turn[t].fresh THEN m ELSE current
  /\ events' = IF m = current THEN events ELSE events + 1
  /\ events' <= MaxEvents
  /\ UNCHANGED <<conv, preferred, attempts, last, cleared, mishaps>>

(* After a compaction a turn goes on to its request, or has failed on the  *)
(* token limit and is over.                                                *)
Done(t) == IF turn[t].asks THEN [Off EXCEPT !.pc = "ready", !.target = turn[t].target,
                                            !.asks = TRUE]
           ELSE Off

(* checkAndPerformCompaction: nothing is to be done. *)
SkipCompaction(t) ==
  /\ turn[t].pc = "routed" /\ ~turn[t].emergency
  /\ conv' = [conv EXCEPT ![current] = Synced(@)]
  /\ turn' = [turn EXCEPT ![t] = Done(t)]
  /\ UNCHANGED <<current, preferred, attempts, last, events, cleared, mishaps>>

(* checkAndPerformCompaction: the current model's list is compacted, or a  *)
(* turn whose model is no longer current starts from another one's.        *)
StartCompaction(t) ==
  LET synced == [conv EXCEPT ![current] = Synced(@)]
      target == turn[t].target
      list == ListOf(synced[current])
      switch == current # target
  IN
  /\ turn[t].pc = "routed" /\ ~turn[t].emergency
  /\ conv[current].exists
  /\ \/ Size(list) >= MinMessages
     \/ \E i \in DOMAIN list.tail : IsOversized(list.tail[i])
  /\ Size(SplitList(list)) >= MinMessages
  /\ conv' = synced
  /\ \E m \in IF switch THEN Best(target, synced) ELSE {current} :
       turn' = [turn EXCEPT ![t] =
                  [@ EXCEPT !.pc = "summarising",
                            !.input = SplitList(ListOf(synced[m])),
                            !.mark = Len(synced[target].messages),
                            !.dropped = synced[m].dropped,
                            !.switch = switch]]
  /\ UNCHANGED <<current, preferred, attempts, last, events, cleared, mishaps>>

(* An oversized message is worth a compaction, but there is too little     *)
(* around it: compactConversation returns the array it was given, which is *)
(* stored as the compacted list.  (Of another model, here: a copy of it.)  *)
CompactTooLittle(t) ==
  LET synced == [conv EXCEPT ![current] = Synced(@)]
      target == turn[t].target
      from == synced[current]
      list == ListOf(from)
      same == current = target /\ from.list \in {None, Aliased}
  IN
  /\ turn[t].pc = "routed" /\ ~turn[t].emergency
  /\ conv[current].exists
  /\ Size(list) < MinMessages /\ Size(SplitList(list)) < MinMessages
  /\ \E i \in DOMAIN list.tail : IsOversized(list.tail[i])
  /\ conv' = [synced EXCEPT ![target] =
                Compacted(@, IF same THEN Aliased ELSE list,
                          Len(synced[target].messages), from.dropped)]
  /\ turn' = [turn EXCEPT ![t] = Done(t)]
  /\ mishaps' = mishaps \cup {"skip"}
                        \cup (IF current # target THEN {"switch"} ELSE {})
  /\ UNCHANGED <<current, preferred, attempts, last, events, cleared>>

(* performEmergencyCompaction, up to its first summary: it goes on with    *)
(* the conversation object it has found.                                   *)
StartEmergency(t) ==
  LET c == Synced(conv[turn[t].target])
      list == SplitList(ListOf(c))
  IN
  /\ turn[t].pc = "routed" /\ turn[t].emergency
  /\ conv' = [conv EXCEPT ![turn[t].target] = c]
  /\ turn' = [turn EXCEPT ![t] =
                IF c.exists /\ Size(list) >= MinEmergency
                THEN [@ EXCEPT !.pc = "summarising", !.input = list,
                               !.mark = Len(c.messages), !.dropped = c.dropped]
                ELSE Off]
  /\ UNCHANGED <<current, preferred, attempts, last, events, cleared, mishaps>>
-----------------------------------------------------------------------------
(* _executeSingleSummarizationPass: a summary of all but a tail; a message *)
(* that is alone is both.  (Of up to four the code always keeps one.)      *)
Summaries(list, dropped) ==
  LET Summary(k) == [under |-> list.under \o SubSeq(list.tail, 1, k),
                     tail |-> SubSeq(list.tail, k + 1, Len(list.tail)), summed |-> TRUE]
      cuts == IF list.summed THEN 0..(Len(list.tail) - 1) ELSE 1..(Len(list.tail) - 1)
  IN IF Size(list) = 1
       THEN {[list |-> [under |-> list.under \o list.tail, tail |-> list.tail,
                        summed |-> TRUE], dropped |-> dropped]}
       ELSE {[list |-> Summary(k), dropped |-> dropped] : k \in cuts}

WithoutTools(items) ==
  Joined(items, [item \in Items |-> IF item[1] \in ToolOnly THEN << >> ELSE <<item>>])

(* _performFallbackCompaction, when no model could summarise: older        *)
(* summaries and tool results are removed, the rest is counted and its     *)
(* tail kept.                                                              *)
Fallbacks(list, dropped) ==
  LET rest == WithoutTools(list.tail)
      n == Len(rest)
  IN {LET tail == SubSeq(rest, n - k + 1, n) IN
      [list |-> [under |-> << >>, tail |-> tail, summed |-> TRUE],
       dropped |-> dropped \cup Range(list.under) \cup (Range(list.tail) \ Range(tail))]
      : k \in IF n <= 1 THEN {n} ELSE 1..(n - 1)}

(* _compactWithMultiPassSummarization: a result above the threshold is     *)
(* summarised again.  The passes look at nothing but their own list.       *)
Results(list, dropped) ==
  LET Pass(r) == Summaries(r.list, r.dropped) \cup Fallbacks(r.list, r.dropped)
      After[n \in 0..MaxPasses] ==
        IF n = 0 THEN {[list |-> list, dropped |-> dropped]}
        ELSE UNION {Pass(r) : r \in After[n - 1]}
  IN UNION {After[n] : n \in 1..MaxPasses}

\* mutant of Stored: an emergency compaction looks its conversation up again
StoredAnyhow(t) == TRUE

(* Does the result reach the agent?  An emergency compaction keeps the     *)
(* object, which a clear has replaced.                                     *)
Stored(t) == turn[t].emergency => turn[t].attached

EndCompaction(t) ==
  /\ turn[t].pc = "summarising"
  /\ \E result \in Results(turn[t].input, turn[t].dropped) :
       conv' = IF Stored(t)
               THEN [conv EXCEPT ![turn[t].target] =
                       Compacted(@, result.list, turn[t].mark, result.dropped)]
               ELSE conv
  /\ turn' = [turn EXCEPT ![t] = Done(t)]
  /\ mishaps' = mishaps
       \cup (IF ~turn[t].attached /\ ~turn[t].emergency THEN {"clear"} ELSE {})
       \cup (IF turn[t].switch THEN {"switch"} ELSE {})
  /\ UNCHANGED <<current, preferred, attempts, last, events, cleared>>

(* getMessagesForAI, and the request with what it returns. *)
GetMessagesForAI(t) ==
  /\ turn[t].pc = "ready"
  /\ conv' = [conv EXCEPT ![turn[t].target] = Synced(@)]
  /\ turn' = [turn EXCEPT ![t].pc = "asking"]
  /\ UNCHANGED <<current, preferred, attempts, last, events, cleared, mishaps>>

(* The model's answer; the last one that the bound allows is empty. *)
Answer(t) ==
  /\ turn[t].pc = "asking"
  /\ turn' = [turn EXCEPT ![t] = Off]
  /\ attempts' = 0
  /\ IF last < MaxMessages
       THEN last' = last + 1 /\ conv' = Appended(conv, last')
       ELSE UNCHANGED <<conv, last>>
  /\ UNCHANGED <<current, preferred, events, cleared, mishaps>>

(* handleTokenLimitError: a compaction, then an emergency compaction, then *)
(* the agent is paused.                                                    *)
TokenLimit(t) ==
  /\ turn[t].pc = "asking"
  /\ attempts' = IF attempts = MaxRetries THEN 0 ELSE attempts + 1
  /\ turn' = [turn EXCEPT ![t] =
                IF attempts = MaxRetries THEN Off
                ELSE [Off EXCEPT !.pc = "routed", !.target = current,
                                 !.emergency = attempts >= 1]]
  /\ UNCHANGED <<conv, current, preferred, last, events, cleared, mishaps>>
-----------------------------------------------------------------------------
\* mutant of ClearConversation: the messages are cleared, the list is not
ClearMessages ==
  /\ events < MaxEvents /\ events' = events + 1
  /\ conv' = [m \in Models |-> [conv[m] EXCEPT !.messages = << >>]]
  /\ turn' = [t \in Turns |-> [turn[t] EXCEPT !.attached = turn[t].pc # "summarising"]]
  /\ cleared' = last
  /\ UNCHANGED <<current, preferred, attempts, last, mishaps>>

(* clearConversation, by a user or by a flow's node. *)
ClearConversation ==
  /\ events < MaxEvents /\ events' = events + 1
  /\ conv' = [m \in Models |-> IF conv[m].exists THEN Emptied ELSE conv[m]]
  /\ turn' = [t \in Turns |-> [turn[t] EXCEPT !.attached = turn[t].pc # "summarising"]]
  /\ cleared' = last
  /\ UNCHANGED <<current, preferred, attempts, last, mishaps>>

\* mutant of SwitchModel: a conversation is only made when there is something to copy
SwitchModelLazily(m) ==
  /\ events < MaxEvents /\ events' = events + 1
  /\ m # preferred
  /\ preferred' = m /\ current' = m
  /\ conv' = IF conv[preferred].messages = << >> THEN conv
             ELSE [conv EXCEPT ![m] = conv[preferred]]
  /\ UNCHANGED <<turn, attempts, last, cleared, mishaps>>

(* updateAgent with another preferredModel: the history goes with it, if   *)
(* the new model has none, and the compacted list, if there is one.        *)
SwitchModel(m) ==
  LET old == conv[preferred]
      from == IF old.list = None THEN conv[m] ELSE old
      copied == IF conv[m].messages = << >> /\ old.messages # << >>
                THEN [from EXCEPT !.exists = TRUE, !.messages = old.messages,
                                  !.list = IF @ = Aliased THEN Plain(from.messages) ELSE @]
                ELSE [conv[m] EXCEPT !.exists = TRUE]
  IN
  /\ events < MaxEvents /\ events' = events + 1
  /\ m # preferred
  /\ preferred' = m /\ current' = m
  /\ conv' = [conv EXCEPT ![m] = copied]
  /\ turn' = [t \in Turns |-> IF turn[t].pc = "routing" THEN [turn[t] EXCEPT !.fresh = FALSE]
                              ELSE turn[t]]
  /\ UNCHANGED <<attempts, last, cleared, mishaps>>
-----------------------------------------------------------------------------
Proceeds(t) ==
  \/ \E m \in Models : Routed(t, m)
  \/ SkipCompaction(t) \/ StartCompaction(t) \/ CompactTooLittle(t) \/ StartEmergency(t)
  \/ EndCompaction(t)
  \/ GetMessagesForAI(t) \/ Answer(t) \/ TokenLimit(t)

Next ==
  \/ \E t \in Turns : StartTurn(t) \/ Proceeds(t)
  \/ ClearConversation
  \/ \E m \in Models : SwitchModel(m)

Spec == Init /\ [][Next]_vars
-----------------------------------------------------------------------------
(* What a request shows: in full, or under a summary. *)
Shown(c) == Split(ListOf(c).under \o ListOf(c).tail)

Below(a, b) == a[1] < b[1] \/ (a[1] = b[1] /\ a[2] < b[2])

(* "This prevents messages added DURING compaction from being silently     *)
(* lost" (agentPool.js:1919): each message of the conversation is in every *)
(* request to its model, verbatim or under a summary, unless the           *)
(* structural fallback dropped it, however turns and compactions overlap.  *)
(* A clear or a change of model that meets a compaction excuses it.        *)
EverythingIsShown ==
  [][\A t \in Turns : GetMessagesForAI(t) /\ {"clear", "switch"} \cap mishaps = {} =>
       LET c == conv'[turn[t].target]
       IN Range(Split(c.messages)) \subseteq Range(Shown(c)) \cup c.dropped]_vars

(* No request shows a message twice, in part or under a summary as well,   *)
(* nor out of order, until a compaction of too little makes the compacted  *)
(* list and the messages one array, or a single message was compacted for  *)
(* another model.                                                          *)
ShownInOrder ==
  [][\A t \in Turns : GetMessagesForAI(t) /\ {"skip", "switch"} \cap mishaps = {} =>
       LET shown == Shown(conv'[turn[t].target])
       IN \A i \in 1..(Len(shown) - 1) : Below(shown[i], shown[i + 1])]_vars

(* "Resets the agent to a fresh state" (agentPool.js:975): what was        *)
(* cleared is not shown again, unless the clear met a compaction.          *)
ClearedIsForgotten ==
  [][\A t \in Turns : GetMessagesForAI(t) /\ "clear" \notin mishaps =>
       LET shown == Shown(conv'[turn[t].target])
       IN \A i \in DOMAIN shown : shown[i][1] > cleared]_vars
=============================================================================
