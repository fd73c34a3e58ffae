---------------------------- MODULE FlowExecutor ----------------------------
(***************************************************************************)
(* One run of a flow (src/src/core/flowExecutor.js, flowRetry.js,          *)
(* flowCheckpointStore.js): the loop of executeFlow and of each resumeFlow *)
(* over the sorted nodes, the attempts of a node with their time-outs,     *)
(* re-prompts and retries, the two ways a completion is noticed, the stop  *)
(* request, and a crash with what it leaves on disk.                       *)
(*                                                                         *)
(* Only agent nodes are modelled: input and output nodes run at once and   *)
(* touch nothing shared.  Every node has an agent of its own, which does   *)
(* nothing but what the flow asks of it, so an agent is named by its node. *)
(* Field mappings and templates are left out.                              *)
(***************************************************************************)
EXTENDS Naturals, Sequences, FiniteSets

CONSTANTS Nodes,          \* the flow's agent nodes, in the order of its definition
          Declaring,      \* the nodes that declare outputs
          Flows,          \* the edge sets the flow may have (validated: no cycle)
          Loops,          \* 1..n: the execution and n - 1 resumes (a bound)
          MaxRetries,     \* maxRetries of a node's execution config
          MaxReprompts,   \* MAX_REPROMPTS_PER_ATTEMPT
          Overlaps,       \* may a run be resumed while a stopped loop still waits?
          MaxMishaps,     \* stops, edits, crashes, failed writes in a run (a bound)
          None

NodeSet == {Nodes[i] : i \in DOMAIN Nodes}
ASSUME FlowAssumption ==
  /\ Nodes \in Seq(NodeSet) /\ Nodes # << >> /\ Cardinality(NodeSet) = Len(Nodes)
  /\ Declaring \subseteq NodeSet
  /\ Flows \subseteq SUBSET (NodeSet \X NodeSet) /\ Flows # {}
ASSUME BoundAssumption ==
  /\ Loops \in Nat \ {0} /\ {MaxReprompts, MaxMishaps} \subseteq Nat
  /\ MaxRetries \in [NodeSet -> Nat] /\ Overlaps \in BOOLEAN

VARIABLES
  edges,      \* the stored definition
  status,     \* the run record's status
  saved,      \* the checkpoint files: a result per node
  active,     \* activeExecutions' status for the run
  loop,       \* the loops over the nodes
  att,        \* the attempts of a loop at a node; a timed-out one goes on running
  listener,   \* completionListeners, per agent: the attempt it resolves, if any
  contract,   \* activeContracts has the agent
  stopping,   \* is a stop request about to write the record?
  unread,     \* is a prompt queued for the agent?
  working,    \* is the agent at work on what it has read?
  flag,       \* autonomousWorkComplete: the completion it stands for, None if unset
  telling,    \* a job-done between setting the flag and notifying the executor
  made,       \* history only: how many results a node has given
  mishaps     \* history only: what happened to the run that excuses a property

disk == <<edges, status, saved>>
tool == <<unread, working, telling>>
vars == <<edges, status, saved, active, loop, att, listener, contract, stopping,
          unread, working, flag, telling, made, mishaps>>

LoopIds == 1..Loops
Tries == UNION {0..MaxRetries[n] : n \in NodeSet}
Attempts == LoopIds \X NodeSet \X Tries
Kinds == {"past", "ours"}    \* was the job-done before the run, or in it?
Completion == [of : Kinds, full : BOOLEAN]
Result == [of : Kinds, gen : 1..Loops, from : [NodeSet -> 0..Loops]]
Keeping == {"mark", "note", "blame"}
Writing == Keeping \cup {"open", "completed", "failed", "stopped"}
Statuses == {"pending", "running", "completed", "failed", "stopped"}
ASSUME NoneAssumption ==
  /\ None \notin Statuses \cup Kinds /\ None \notin Nat \X NodeSet \X Nat
  /\ None \notin [of : Kinds, full : BOOLEAN]
  /\ None \notin [of : Kinds, gen : Nat, from : [NodeSet -> Nat]]

Idle == [pc |-> "new", todo |-> << >>, edges |-> {}, try |-> 0, copy |-> None,
         outputs |-> [n \in NodeSet |-> None]]
NoAttempt == [pc |-> "off", left |-> MaxReprompts]

Before(n, es) == {e[1] : e \in {d \in es : d[2] = n}}
NodeOf(l) == Head(loop[l].todo)
Tried(l) == <<l, NodeOf(l), loop[l].try>>
Awaited(k) == loop[k[1]].pc = "trying" /\ Tried(k[1]) = k
(* Each kind of mishap comes at most once, MaxMishaps kinds in a behaviour. *)
Happens(kind) ==
  /\ kind \notin mishaps
  /\ Cardinality(mishaps \ {"overlap"}) < MaxMishaps
  /\ mishaps' = mishaps \cup {kind}

Running == {l \in LoopIds : loop[l].pc \notin {"new", "ended"}}
-----------------------------------------------------------------------------
TypeOK ==
  /\ edges \in Flows
  /\ status \in Statuses \cup {None}
  /\ saved \in [NodeSet -> Result \cup {None}]
  /\ active \in {"none", "running", "stopped"}
  /\ \A l \in LoopIds :
       /\ loop[l].pc \in Writing \cup {"new", "check", "trying", "backoff", "store", "ended"}
       /\ loop[l].try \in Tries
       /\ loop[l].pc \in {"mark", "trying", "backoff", "note", "store", "blame"}
             => loop[l].todo # << >>
       /\ loop[l].outputs \in [NodeSet -> Result \cup {None}]
       /\ loop[l].copy # None => loop[l].pc \in Keeping
  /\ \A k \in Attempts :
       /\ att[k].pc \in {"off", "resetting", "waiting"}
       /\ att[k].left \in 0..MaxReprompts
  /\ listener \in [NodeSet -> Attempts \cup {None}]
  /\ contract \in [NodeSet -> BOOLEAN]
  /\ stopping \in BOOLEAN
  /\ {unread, working} \subseteq [NodeSet -> BOOLEAN]
  /\ flag \in [NodeSet -> Kinds \cup {None}]
  /\ telling \in [NodeSet -> Completion \cup {None}]
  /\ made \in [NodeSet -> 0..Loops]

(* Every agent has completed some work before the run. *)
Init ==
  /\ edges \in Flows
  /\ status = None /\ saved = [n \in NodeSet |-> None]
  /\ active = "none"
  /\ loop = [l \in LoopIds |-> Idle]
  /\ att = [k \in Attempts |-> NoAttempt]
  /\ listener = [n \in NodeSet |-> None]
  /\ contract = [n \in NodeSet |-> FALSE]
  /\ stopping = FALSE
  /\ unread = [n \in NodeSet |-> FALSE]
  /\ working = [n \in NodeSet |-> FALSE]
  /\ flag = [n \in NodeSet |-> "past"]
  /\ telling = [n \in NodeSet |-> None]
  /\ made = [n \in NodeSet |-> 0]
  /\ mishaps = {}
-----------------------------------------------------------------------------
(* topologicalSort, with its queue of nodes whose sources are all sorted.  *)
(* The edges are taken in the order of their targets.                      *)
Chosen(nodes, set) ==
  LET Upto[k \in 0..Len(nodes)] ==
        IF k = 0 THEN << >>
        ELSE IF nodes[k] \in set THEN Append(Upto[k - 1], nodes[k]) ELSE Upto[k - 1]
  IN Upto[Len(nodes)]

ReadyAfter(nodes, n, done, es) ==
  Chosen(nodes, {e[2] : e \in {d \in es : d[1] = n /\ Before(d[2], es) \subseteq done}})

Round(nodes, es, s) ==
  LET n == Head(s.queue)
      sorted == Append(s.sorted, n)
      done == {sorted[i] : i \in DOMAIN sorted}
  IN IF s.queue = << >> THEN s
     ELSE [queue |-> Tail(s.queue) \o ReadyAfter(nodes, n, done, es), sorted |-> sorted]

TopologicalSort(nodes, es) ==
  LET Kahn[k \in 0..Len(nodes)] ==
        IF k = 0
        THEN [queue |-> Chosen(nodes, {nodes[i] : i \in DOMAIN nodes} \ {e[2] : e \in es}),
              sorted |-> << >>]
        ELSE Round(nodes, es, Kahn[k - 1])
  IN Kahn[Len(nodes)].sorted
-----------------------------------------------------------------------------
(* executeFlow of a valid definition: the record is created, the execution *)
(* noted, and the record is about to be opened.                            *)
ExecuteFlow ==
  /\ loop[1].pc = "new"
  /\ status' = "pending"
  /\ active' = "running"
  /\ loop' = [loop EXCEPT ![1].pc = "open", ![1].todo = TopologicalSort(Nodes, edges),
                          ![1].edges = edges]
  /\ UNCHANGED <<edges, saved, att, listener, contract, stopping, tool, flag, made, mishaps>>

\* mutant of Completed: resumeFlow goes by the record, which knows no node
CompletedNothing(n) == FALSE

Completed(n) == saved[n] # None

(* resumeFlow: the user resumes a run that failed or was stopped, or one   *)
(* that a crash has left open.  The code does not look for a loop that is  *)
(* still at work; without Overlaps the user waits for it.                  *)
ResumeFlow(l) ==
  /\ loop[l].pc = "new" /\ l > 1 /\ loop[l - 1].pc # "new"
  /\ status # "completed"
  /\ Running = {} \/ (Overlaps /\ status \in {"failed", "stopped"})
  /\ ~stopping
  /\ active' = "running"
  /\ loop' = [loop EXCEPT
       ![l].pc = "open",
       ![l].todo = TopologicalSort(Nodes, edges),
       ![l].edges = edges,
       ![l].outputs = [n \in NodeSet |-> IF Completed(n) THEN saved[n] ELSE None]]
  /\ mishaps' = mishaps \cup (IF Running = {} THEN {} ELSE {"overlap"})
  /\ UNCHANGED <<disk, att, listener, contract, stopping, tool, flag, made>>

(* updateFlowRun reads the index, then writes it.  When the update sets no *)
(* status, the one that was read is written back.                          *)
Load(l) ==
  /\ loop[l].pc \in Keeping /\ loop[l].copy = None
  /\ loop' = [loop EXCEPT ![l].copy = status]
  /\ UNCHANGED <<disk, active, att, listener, contract, stopping, tool, flag, made, mishaps>>

Written(l) ==
  CASE loop[l].pc = "open" -> "running"
    [] loop[l].pc \in Keeping -> loop[l].copy
    [] OTHER -> loop[l].pc

\* mutant of After: a failed node ends the loop before the run is closed
AfterSilent(l) ==
  CASE loop[l].pc = "open" -> "check"
    [] loop[l].pc = "mark" -> "trying"
    [] loop[l].pc = "note" -> "store"
    [] OTHER -> "ended"

\* mutant of After: a failed node does not end the loop
AfterOnward(l) ==
  CASE loop[l].pc = "open" -> "check"
    [] loop[l].pc = "mark" -> "trying"
    [] loop[l].pc \in {"note", "blame"} -> "store"
    [] OTHER -> "ended"

After(l) ==
  CASE loop[l].pc = "open" -> "check"
    [] loop[l].pc = "mark" -> "trying"
    [] loop[l].pc = "note" -> "store"
    [] loop[l].pc = "blame" -> "failed"
    [] OTHER -> "ended"

\* mutant of StartsAttempt: the agent's completion is not reset
StartsAttemptDirty(l, try) ==
  LET n == NodeOf(l) IN
  /\ contract' = [contract EXCEPT ![n] = @ \/ n \in Declaring]
  /\ flag' = flag
  /\ att' = [att EXCEPT ![<<l, n, try>>] = [NoAttempt EXCEPT !.pc = "resetting"]]

(* attemptOnce begins: the contract is registered, the agent's completion  *)
(* is forgotten, and its state is about to be saved.                       *)
StartsAttempt(l, try) ==
  LET n == NodeOf(l) IN
  /\ contract' = [contract EXCEPT ![n] = @ \/ n \in Declaring]
  /\ flag' = [flag EXCEPT ![n] = None]
  /\ att' = [att EXCEPT ![<<l, n, try>>] = [NoAttempt EXCEPT !.pc = "resetting"]]

(* The write of a node's "running" state starts its first attempt; when    *)
(* the record is open, the agents are loaded, which may fail; the write of *)
(* a final status ends the loop and, unless the run was stopped, forgets   *)
(* the execution.                                                          *)
Save(l) ==
  /\ loop[l].pc \in Writing
  /\ loop[l].pc \in Keeping => loop[l].copy # None
  /\ status' = Written(l)
  /\ \E next \in {After(l)} \cup (IF loop[l].pc = "open" THEN {"failed"} ELSE {}) :
       loop' = [loop EXCEPT ![l].pc = next, ![l].copy = None, ![l].try = 0]
  /\ active' = IF loop[l].pc \in {"completed", "failed"} THEN "none" ELSE active
  /\ \/ loop[l].pc = "mark" /\ StartsAttempt(l, 0)
     \/ loop[l].pc # "mark" /\ UNCHANGED <<contract, flag, att>>
  /\ UNCHANGED <<edges, saved, listener, stopping, tool, made, mishaps>>

(* The head of the loop: the only place where a stop is looked for.  A     *)
(* node whose checkpoint was loaded is skipped.                            *)
Check(l) ==
  /\ loop[l].pc = "check"
  /\ \/ /\ loop[l].todo = << >>
        /\ loop' = [loop EXCEPT ![l].pc = "completed"]
     \/ /\ loop[l].todo # << >> /\ active # "running"
        /\ loop' = [loop EXCEPT ![l].pc = "stopped"]
     \/ /\ loop[l].todo # << >> /\ active = "running"
        /\ loop' = IF loop[l].outputs[NodeOf(l)] = None
                   THEN [loop EXCEPT ![l].pc = "mark"]
                   ELSE [loop EXCEPT ![l].todo = Tail(@)]
  /\ UNCHANGED <<disk, active, att, listener, contract, stopping, tool, flag, made, mishaps>>
-----------------------------------------------------------------------------
(* An attempt registers its listener, over that of an earlier attempt of   *)
(* the same run and agent, and queues its message.                         *)
Post(k) ==
  /\ att[k].pc = "resetting"
  /\ att' = [att EXCEPT ![k].pc = "waiting"]
  /\ listener' = [listener EXCEPT ![k[2]] = k]
  /\ unread' = [unread EXCEPT ![k[2]] = TRUE]
  /\ UNCHANGED <<disk, active, loop, contract, stopping, working, telling, flag, made, mishaps>>

\* mutant of GiveUpAttempt: one retry too many
GiveUpAttemptLate(l) ==
  IF loop[l].try <= MaxRetries[NodeOf(l)]
  THEN loop' = [loop EXCEPT ![l].pc = "backoff"] /\ UNCHANGED contract
  ELSE /\ loop' = [loop EXCEPT ![l].pc = "blame"]
       /\ contract' = [contract EXCEPT ![NodeOf(l)] = FALSE]

(* A failed attempt is followed by another one, if there is one left and   *)
(* retryOn has the kind of its error, or ends the node.                    *)
GiveUpAttempt(l) ==
  \/ /\ loop[l].try < MaxRetries[NodeOf(l)]
     /\ loop' = [loop EXCEPT ![l].pc = "backoff"]
     /\ UNCHANGED contract
  \/ /\ loop' = [loop EXCEPT ![l].pc = "blame"]
     /\ contract' = [contract EXCEPT ![NodeOf(l)] = FALSE]

(* Which results of its sources a node's result is computed from. *)
Sources(l) ==
  [m \in NodeSet |->
     IF m \in Before(NodeOf(l), loop[l].edges) /\ loop[l].outputs[m] # None
     THEN loop[l].outputs[m].gen ELSE 0]

Taken(l, got) ==
  [loop EXCEPT ![l].pc = "note",
               ![l].outputs[NodeOf(l)] =
                  [of |-> got.of, gen |-> made[NodeOf(l)] + 1, from |-> Sources(l)]]

\* mutant of TakeResult: the contract is cleared on failure only
TakeResultBound(l, got) ==
  LET n == NodeOf(l) IN
  /\ loop' = Taken(l, got)
  /\ made' = [made EXCEPT ![n] = @ + 1]
  /\ UNCHANGED contract

(* runWithRetry has the attempt's completion: the loop takes it. *)
TakeResult(l, got) ==
  LET n == NodeOf(l) IN
  /\ loop' = Taken(l, got)
  /\ made' = [made EXCEPT ![n] = @ + 1]
  /\ contract' = [contract EXCEPT ![n] = FALSE]

(* An attempt gets a completion.  It is the node's result, unless outputs  *)
(* are missing: then it asks again or gives up.  The loop no longer looks  *)
(* at an attempt that timed out.                                           *)
Resolve(k, got) ==
  LET l == k[1] IN
  \/ /\ got.full
     /\ att' = [att EXCEPT ![k] = NoAttempt]
     /\ IF Awaited(k) THEN TakeResult(l, got) ELSE UNCHANGED <<loop, made, contract>>
     /\ UNCHANGED flag
  \/ /\ ~got.full /\ att[k].left > 0
     /\ att' = [att EXCEPT ![k].pc = "resetting", ![k].left = @ - 1]
     /\ flag' = [flag EXCEPT ![k[2]] = None]
     /\ UNCHANGED <<loop, made, contract>>
  \/ /\ ~got.full /\ att[k].left = 0
     /\ att' = [att EXCEPT ![k] = NoAttempt]
     /\ IF Awaited(k) THEN GiveUpAttempt(l) ELSE UNCHANGED <<loop, contract>>
     /\ UNCHANGED <<made, flag>>

(* The polling fallback: the flag is set.  What the tool was given as      *)
(* outputs is not in it.  onComplete drops the listener of that run and    *)
(* agent, whoever's it is by now.  Polling may also just end.              *)
PollSees(k) ==
  /\ att[k].pc = "waiting" /\ flag[k[2]] # None
  /\ listener' = [listener EXCEPT ![k[2]] = None]
  /\ Resolve(k, [of |-> flag[k[2]], full |-> k[2] \notin Declaring])
  /\ UNCHANGED <<disk, active, stopping, tool, mishaps>>

\* mutant of TimeOut: the last attempt is left to end by itself
TimeOutFirst(l) ==
  /\ loop[l].pc = "trying" /\ loop[l].try < MaxRetries[NodeOf(l)]
  /\ GiveUpAttempt(l)
  /\ UNCHANGED <<disk, active, att, listener, stopping, tool, flag, made, mishaps>>

(* The race is lost, and the attempt goes on by itself, or it failed. *)
TimeOut(l) ==
  /\ loop[l].pc = "trying"
  /\ GiveUpAttempt(l)
  /\ UNCHANGED <<disk, active, att, listener, stopping, tool, flag, made, mishaps>>

\* mutant of Retry: the attempts are not counted
RetryUncounted(l) ==
  /\ loop[l].pc = "backoff"
  /\ loop' = [loop EXCEPT ![l].pc = "trying"]
  /\ StartsAttempt(l, loop[l].try)
  /\ UNCHANGED <<disk, active, listener, stopping, tool, made, mishaps>>

Retry(l) ==
  /\ loop[l].pc = "backoff"
  /\ loop' = [loop EXCEPT ![l].pc = "trying", ![l].try = @ + 1]
  /\ StartsAttempt(l, loop[l].try + 1)
  /\ UNCHANGED <<disk, active, listener, stopping, tool, made, mishaps>>

\* mutant of Checkpoint: only structured outputs are saved
CheckpointStructured(l) ==
  /\ loop[l].pc = "store"
  /\ loop' = [loop EXCEPT ![l].pc = "check", ![l].todo = Tail(@)]
  /\ saved' = IF NodeOf(l) \in Declaring
              THEN [saved EXCEPT ![NodeOf(l)] = loop[l].outputs[NodeOf(l)]] ELSE saved
  /\ UNCHANGED <<edges, status, active, att, listener, contract, stopping, tool, flag, made, mishaps>>

(* saveNodeResult, whose failure is only logged. *)
Checkpoint(l) ==
  /\ loop[l].pc = "store"
  /\ loop' = [loop EXCEPT ![l].pc = "check", ![l].todo = Tail(@)]
  /\ \/ saved' = [saved EXCEPT ![NodeOf(l)] = loop[l].outputs[NodeOf(l)]] /\ UNCHANGED mishaps
     \/ Happens("disk") /\ UNCHANGED saved
  /\ UNCHANGED <<edges, status, active, att, listener, contract, stopping, tool, flag, made>>
-----------------------------------------------------------------------------
(* The agent reads its queue and starts a turn; a set flag is cleared. *)
Read(n) ==
  /\ unread[n] /\ ~working[n]
  /\ unread' = [unread EXCEPT ![n] = FALSE]
  /\ working' = [working EXCEPT ![n] = TRUE]
  /\ flag' = [flag EXCEPT ![n] = None]
  /\ UNCHANGED <<disk, active, loop, att, listener, contract, stopping, telling, made, mishaps>>

(* The job-done tool: refused when outputs of a registered contract are    *)
(* missing; otherwise the flag is set, the agent saved and then the        *)
(* executor notified, which resolves the listener of that agent.           *)
JobDone(n, full) ==
  /\ working[n] /\ telling[n] = None
  /\ contract[n] => full
  /\ flag' = [flag EXCEPT ![n] = "ours"]
  /\ telling' = [telling EXCEPT ![n] = [of |-> "ours", full |-> full \/ n \notin Declaring]]
  /\ UNCHANGED <<disk, active, loop, att, listener, contract, stopping, unread, working, made, mishaps>>

Notify(n) ==
  /\ telling[n] # None
  /\ IF listener[n] = None THEN UNCHANGED <<att, loop, made, contract, flag>>
                           ELSE Resolve(listener[n], telling[n])
  /\ listener' = [listener EXCEPT ![n] = None]
  /\ telling' = [telling EXCEPT ![n] = None]
  /\ working' = [working EXCEPT ![n] = FALSE]
  /\ UNCHANGED <<disk, active, stopping, unread, mishaps>>
-----------------------------------------------------------------------------
(* The stop request: it marks the execution, then updates the record. *)
Stop ==
  /\ Happens("stop")
  /\ status = "running"
  /\ active' = IF active = "none" THEN "none" ELSE "stopped"
  /\ stopping' = TRUE
  /\ UNCHANGED <<disk, loop, att, listener, contract, tool, flag, made>>

StopSaves ==
  /\ stopping
  /\ stopping' = FALSE
  /\ status' = "stopped"
  /\ UNCHANGED <<edges, saved, active, loop, att, listener, contract, tool, flag, made, mishaps>>

(* A loop keeps the definition it began with: an edit matters to a resume. *)
EditFlow ==
  /\ status # None /\ Running = {}
  /\ Happens("edit")
  /\ edges' \in Flows \ {edges}
  /\ UNCHANGED <<status, saved, active, loop, att, listener, contract, stopping, tool, flag, made>>

(* What is in memory is lost; the agents' queues may have been saved. *)
Crash ==
  /\ Running # {} /\ Happens("crash")
  /\ active' = "none" /\ stopping' = FALSE
  /\ loop' = [l \in LoopIds |-> IF l \in Running THEN [Idle EXCEPT !.pc = "ended"] ELSE loop[l]]
  /\ att' = [k \in Attempts |-> NoAttempt]
  /\ listener' = [n \in NodeSet |-> None]
  /\ contract' = [n \in NodeSet |-> FALSE]
  /\ telling' = [n \in NodeSet |-> None]
  /\ working' = [n \in NodeSet |-> FALSE]
  /\ unread' \in {unread, [n \in NodeSet |-> FALSE]}
  /\ UNCHANGED <<disk, flag, made>>

Advance(l) ==
  Load(l) \/ Save(l) \/ Check(l) \/ TimeOut(l) \/ Retry(l) \/ Checkpoint(l)

AttemptStep == \E k \in Attempts : Post(k) \/ PollSees(k)
AgentStep == \E n \in NodeSet : Read(n) \/ Notify(n) \/ \E full \in BOOLEAN : JobDone(n, full)

Next ==
  \/ ExecuteFlow
  \/ \E l \in LoopIds : ResumeFlow(l) \/ Advance(l)
  \/ AttemptStep \/ AgentStep
  \/ Stop \/ StopSaves
  \/ EditFlow \/ Crash

(* Timers fire and files get written; an agent need never answer. *)
Spec == Init /\ [][Next]_vars /\ \A l \in LoopIds : WF_vars(Advance(l))
-----------------------------------------------------------------------------
AtNode(l) == loop[l].pc \in {"mark", "trying", "backoff", "note", "store", "blame"}

(* A node is worked on only with the outputs of all its sources at hand,   *)
(* in an execution and in a resume after the definition was edited.        *)
InputsFirst ==
  \A l \in LoopIds : AtNode(l) =>
    \A m \in Before(NodeOf(l), loop[l].edges) : loop[l].outputs[m] # None

(* What a loop takes for a node's result is about that node: never the     *)
(* completion of earlier work that the flag or a listener still shows.     *)
ResultsAreFresh ==
  \A l \in LoopIds, n \in NodeSet :
    loop[l].outputs[n] # None => loop[l].outputs[n].of = "ours"

(* Across failures, crashes and resumes every result a loop holds was      *)
(* computed from the very results it holds of the node's sources, if every *)
(* checkpoint was written, the flow was not edited and no two loops ran.   *)
ResultsFitTogether ==
  mishaps \cap {"disk", "edit", "overlap"} = {} =>
    \A l \in LoopIds : \A e \in loop[l].edges :
      loop[l].outputs[e[1]] # None /\ loop[l].outputs[e[2]] # None
        => loop[l].outputs[e[2]].from[e[1]] = loop[l].outputs[e[1]].gen

(* "completed work isn't repeated": a node with a checkpoint is not begun  *)
(* again, unless a run was resumed while a stopped loop still ran.         *)
NotRunAgain ==
  [][\A l \in LoopIds :
       "overlap" \notin mishaps /\ loop[l].pc = "check" /\ loop'[l].pc = "mark"
         => saved[NodeOf(l)] = None]_vars

(* While a declaring node waits for its agent a partial job-done is        *)
(* refused, and no agent is bound by a contract the run is done with.      *)
ContractsHold ==
  "overlap" \notin mishaps =>
    \A n \in Declaring : contract[n] <=>
      \E l \in LoopIds : loop[l].pc \in {"trying", "backoff"} /\ NodeOf(l) = n

(* When no loop runs and no stop request is under way, the record says how *)
(* the run ended: late writes of a stale copy do not reopen it.            *)
EndedRunsAreClosed ==
  loop[1].pc # "new" /\ Running = {} /\ ~stopping /\ "crash" \notin mishaps
    => status \in {"completed", "failed", "stopped"}

(* The work a loop has left: its nodes, then how far it is with the node   *)
(* at the head, the retries that node has left, and a read of the index.   *)
Stage == [open |-> 7, check |-> 6, mark |-> 5, trying |-> 4, backoff |-> 4, note |-> 3,
          blame |-> 3, store |-> 2, completed |-> 1, failed |-> 1, stopped |-> 1, ended |-> 0]
RetriesLeft(r) ==
  CASE r.pc = "trying"  -> 2 * (MaxRetries[Head(r.todo)] - r.try)
    [] r.pc = "backoff" -> 2 * (MaxRetries[Head(r.todo)] - r.try) - 1
    [] OTHER -> 0
Work(r) == <<Len(r.todo), Stage[r.pc], RetriesLeft(r), IF r.copy = None THEN 1 ELSE 0>>
Less(v, w) ==
  /\ \A i \in 1..4 : v[i] \in Nat
  /\ \E i \in 1..4 : v[i] < w[i] /\ \A j \in 1..4 : j < i => v[j] = w[j]

(* Whatever moves a running loop -- a timer, a write, an answer that comes *)
(* in time or too late, a stop, a crash -- leaves it less work: no         *)
(* sequence of failures, time-outs, re-prompts and retries goes round.     *)
LoopsWearDown ==
  [][\A l \in Running :
       loop'[l] # loop[l] => Less(Work(loop'[l]), Work(loop[l]))]_vars

(* The loops end, whether the agents answer or not. *)
LoopsEnd == Running # {} ~> Running = {}
=============================================================================
