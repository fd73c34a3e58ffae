------------------------------ MODULE FlowStore ------------------------------
(***************************************************************************)
(* Flow definitions (src/src/interfaces/webServer.js,                      *)
(* src/src/core/stateManager.js, flowSchema.js, flowVersionStore.js,       *)
(* src/src/tools/platformControlTool.js): all flows live in one index file *)
(* that every change reads, awaits and writes whole; a change made over    *)
(* HTTP is validated first, and leaves a numbered snapshot whose number is *)
(* then stamped on the flow, for the runs to carry.                        *)
(*                                                                         *)
(* A definition is its nodes and edges.  Names, variables, typed inputs    *)
(* and outputs and the agents of nodes are left out; so are duplicate node *)
(* ids and edges without ends, which the validator rejects one by one.     *)
(***************************************************************************)
EXTENDS Naturals, Sequences, FiniteSets

CONSTANTS NodeOrder,    \* node ids, in the order in which a flow lists them
          Flows,
          Patches,      \* the bodies of requests: nodes and edges, None where absent
          Ops,          \* requests under way at once (a bound)
          MaxRequests,  \* requests and ends of the process (a bound)
          MaxCrashes,   \* ends of the process (a bound)
          None, Torn

NodeIds == {NodeOrder[i] : i \in DOMAIN NodeOrder}
Edges == NodeIds \X NodeIds
Definitions == [nodes : SUBSET NodeIds, edges : SUBSET Edges]
Stored == [def : Definitions, version : Nat]
Bodies == [nodes : {None} \cup SUBSET NodeIds, edges : {None} \cup SUBSET Edges]
ASSUME FlowStoreAssumption ==
  /\ NodeOrder \in Seq(NodeIds)
  /\ \A i, j \in DOMAIN NodeOrder : NodeOrder[i] = NodeOrder[j] => i = j
  /\ Patches \subseteq Bodies
  /\ None \notin Flows \cup Bodies \cup Stored /\ Torn \notin [Flows -> {None} \cup Stored]
  /\ (\A nodes \in SUBSET NodeIds : nodes # None) /\ (\A edges \in SUBSET Edges : edges # None)
  /\ {MaxRequests, MaxCrashes} \subseteq Nat

VARIABLES
  index,      \* flow-index.json: the flows, or Torn
  snapshots,  \* the files v-<N>.json of each flow
  op,         \* the requests under way
  made,       \* the flow ids in use or used: an id holds the time of its creation
  crashes,    \* counts the ends of the process, for the bound
  requests,   \* counts the requests and ends of the process, for the bound
  crossed,    \* history only: requests that met another one about the same flow
  stale,      \* history only: requests that met another one between its read and
              \* its write of the index
  unchecked,  \* history only: flows written by the tool or by requests
              \* that were crossed or stale
  unstamped,  \* history only: flows with a change that set no version, or that
              \* collided or failed
  latest,     \* history only: what was last written to each flow
  orderly     \* history only: no request was stale, and no end of the process
              \* tore the index

past == <<crossed, stale, unchecked, unstamped, latest, orderly>>
vars == <<index, snapshots, op, made, crashes, requests, past>>

Indexes == [Flows -> {None} \cup Stored]
Empty == [f \in Flows |-> None]
Kinds == {"off", "create", "put", "delete", "rollback", "toolCreate", "toolUpdate"}
Pcs == {"off", "load", "write", "writeEnd", "record", "snapshot", "stamp", "restamp", "restampEnd"}
Requests == [kind : Kinds, flow : Flows \cup {None}, pc : Pcs, patch : {None} \cup Bodies,
             copy : Indexes, version : Nat]
Off == [kind |-> "off", flow |-> None, pc |-> "off", patch |-> None, copy |-> Empty,
        version |-> 0]
-----------------------------------------------------------------------------
(* A set of nodes, in the order in which the flow lists them. *)
InOrder(set) ==
  LET Upto[k \in 0..Len(NodeOrder)] ==
        IF k = 0 THEN << >>
        ELSE IF NodeOrder[k] \in set THEN Append(Upto[k - 1], NodeOrder[k]) ELSE Upto[k - 1]
  IN Upto[Len(NodeOrder)]

Neighbors(edges, n) == InOrder({m \in NodeIds : <<n, m>> \in edges})

(* validateFlowDefinition: its depth-first search, one round of the loop   *)
(* per step.                                                               *)
Push(s, n) == [s EXCEPT !.color[n] = "gray", !.stack = Append(@, [node |-> n, next |-> 1])]

Visit(s, edges) ==
  LET frame == s.stack[Len(s.stack)]
      targets == Neighbors(edges, frame.node)
      target == targets[frame.next]
      moved == [s EXCEPT !.stack[Len(s.stack)].next = @ + 1]
  IN IF frame.next > Len(targets)
       THEN [s EXCEPT !.color[frame.node] = "black", !.stack = SubSeq(@, 1, Len(@) - 1)]
     ELSE IF s.color[target] = "gray" THEN [moved EXCEPT !.cycle = TRUE]
     ELSE IF s.color[target] = "white" THEN Push(moved, target)
     ELSE moved

SearchOn(nodes, edges, s) ==
  LET white == InOrder({n \in nodes : s.color[n] = "white"}) IN
  IF s.cycle THEN s
  ELSE IF s.stack # << >> THEN Visit(s, edges)
  ELSE IF white # << >> THEN Push(s, white[1]) ELSE s

HasCycle(nodes, edges) ==
  LET rounds == 2 * Cardinality(nodes) + Cardinality(edges)
      Search[k \in 0..rounds] ==
        IF k = 0 THEN [color |-> [n \in nodes |-> "white"], stack |-> << >>, cycle |-> FALSE]
        ELSE SearchOn(nodes, edges, Search[k - 1])
  IN Search[rounds].cycle

Validates(def) ==
  /\ \A e \in def.edges : e[1] # e[2] /\ {e[1], e[2]} \subseteq def.nodes
  /\ ~HasCycle(def.nodes, {e \in def.edges : e[1] # e[2] /\ {e[1], e[2]} \subseteq def.nodes})

Accepted == {def \in Definitions : Validates(def)}

(* The spread of a patch over a flow, in the route and in updateFlow.      *)
Patched(def, patch) ==
  [nodes |-> IF patch.nodes = None THEN def.nodes ELSE patch.nodes,
   edges |-> IF patch.edges = None THEN def.edges ELSE patch.edges]
NoNodes == [nodes |-> {}, edges |-> {}]
-----------------------------------------------------------------------------
TypeOK ==
  /\ index = Torn \/ index \in Indexes
  /\ snapshots \in [Flows -> Seq(Definitions)]
  /\ op \in [Ops -> Requests]
  /\ \A o \in Ops :
       /\ op[o].pc = "off" <=> op[o] = Off
       /\ op[o].pc = "snapshot" => op[o].version \in 1..(Len(snapshots[op[o].flow]) + 1)
  /\ made \subseteq Flows /\ \A f \in Flows \ made : snapshots[f] = << >>
  /\ requests \in 0..MaxRequests /\ crashes \in 0..MaxCrashes
  /\ crossed \subseteq Ops /\ stale \subseteq Ops /\ unchecked \cup unstamped \subseteq Flows
  /\ latest \in [Flows -> {None} \cup Definitions] /\ orderly \in BOOLEAN

(* The process starts with the flows that were made before. *)
Init ==
  /\ latest \in [Flows -> {None} \cup ({Patched(NoNodes, p) : p \in Patches} \cap Accepted)]
  /\ index = [f \in Flows |-> IF latest[f] = None THEN None
                              ELSE [def |-> latest[f], version |-> 1]]
  /\ snapshots = [f \in Flows |-> IF latest[f] = None THEN << >> ELSE <<latest[f]>>]
  /\ op = [o \in Ops |-> Off] /\ made = {f \in Flows : latest[f] # None}
  /\ crashes = 0 /\ requests = 0
  /\ crossed = {} /\ stale = {} /\ unchecked = {} /\ unstamped = {} /\ orderly = TRUE
-----------------------------------------------------------------------------
Becomes(o, r) == op' = [op EXCEPT ![o] = r]
Goes(o, pc) == op' = [op EXCEPT ![o].pc = pc]
Ended(o) == Becomes(o, Off)
Starts(o, kind, f, patch, pc, copy) ==
  /\ requests' = requests + 1
  /\ Becomes(o, [kind |-> kind, flow |-> f, pc |-> pc, patch |-> patch, copy |-> copy,
                 version |-> 0])
  /\ UNCHANGED <<index, snapshots, crashes>>

(* loadFlowIndex: an index that cannot be read has no flows. *)
Loaded == IF index = Torn THEN Empty ELSE index

(* POST /api/flows, and the tool's create-flow, which validates nothing. *)
Create(o, f, p, kind) ==
  LET def == Patched(NoNodes, p) IN
  /\ f \notin made /\ made' = made \cup {f}
  /\ kind = "create" => def \in Accepted
  /\ kind = "toolCreate" => def.nodes # {}
  /\ Starts(o, kind, f, p, "write", [Loaded EXCEPT ![f] = [def |-> def, version |-> 0]])

\* mutant of Put: the patch is validated by itself
PutPatchOnly(o, f, p) ==
  /\ Loaded[f] # None
  /\ p.nodes # None /\ p.edges # None => Patched(NoNodes, p) \in Accepted
  /\ Starts(o, "put", f, p, "load", Empty)
  /\ UNCHANGED made

(* PUT /api/flows/:flowId: the flow with the patch is validated. *)
Put(o, f, p) ==
  /\ Loaded[f] # None /\ Patched(Loaded[f].def, p) \in Accepted
  /\ Starts(o, "put", f, p, "load", Empty)
  /\ UNCHANGED made

(* The tool's update-flow. *)
ToolUpdate(o, f, p) ==
  /\ Loaded[f] # None
  /\ Starts(o, "toolUpdate", f, p, "load", Empty)
  /\ UNCHANGED made

(* POST /api/flows/:flowId/rollback. *)
Rollback(o, f, n) ==
  /\ n \in 1..Len(snapshots[f]) /\ snapshots[f][n] \in Accepted
  /\ Starts(o, "rollback", f, snapshots[f][n], "load", Empty)
  /\ UNCHANGED made

(* DELETE /api/flows/:flowId: the snapshots stay. *)
Delete(o, f) ==
  /\ Loaded[f] # None
  /\ Starts(o, "delete", f, None, "write", [Loaded EXCEPT ![f] = None])
  /\ UNCHANGED made

(* updateFlow. *)
LoadToUpdate(o) ==
  /\ op[o].pc = "load"
  /\ LET f == op[o].flow IN
       IF Loaded[f] = None THEN Ended(o)
       ELSE Becomes(o, [op[o] EXCEPT !.pc = "write", !.patch = None,
              !.copy = [Loaded EXCEPT ![f].def = Patched(@, op[o].patch)]])
  /\ UNCHANGED <<index, snapshots, made, crashes, requests>>

(* saveFlowIndex: the file is emptied, and then written. *)
WriteIndex(o) ==
  /\ op[o].pc \in {"write", "restamp"}
  /\ index' = Torn
  /\ Goes(o, IF op[o].pc = "write" THEN "writeEnd" ELSE "restampEnd")
  /\ UNCHANGED <<snapshots, made, crashes, requests>>

\* mutant of IndexWritten: a PUT leaves no snapshot
IndexWrittenNoPut(o) ==
  /\ op[o].pc \in {"writeEnd", "restampEnd"}
  /\ index' \in (IF index = Torn THEN {op[o].copy} ELSE {op[o].copy, Torn})
  /\ IF op[o].pc = "writeEnd" /\ op[o].kind \in {"create", "rollback"}
     THEN Becomes(o, [op[o] EXCEPT !.pc = "record", !.patch = None,
            !.copy = [f \in Flows |-> IF f = op[o].flow THEN @[f] ELSE None]])
     ELSE Ended(o)
  /\ UNCHANGED <<snapshots, made, crashes, requests>>

IndexWritten(o) ==
  /\ op[o].pc \in {"writeEnd", "restampEnd"}
  /\ index' \in (IF index = Torn THEN {op[o].copy} ELSE {op[o].copy, Torn})
  /\ IF op[o].pc = "writeEnd" /\ op[o].kind \in {"create", "put", "rollback"}
     THEN Becomes(o, [op[o] EXCEPT !.pc = "record", !.patch = None,
            !.copy = [f \in Flows |-> IF f = op[o].flow THEN @[f] ELSE None]])
     ELSE Ended(o)
  /\ UNCHANGED <<snapshots, made, crashes, requests>>

\* mutant of NextVersion: the largest number itself
NextVersionMax(o) ==
  /\ op[o].pc = "record"
  /\ Becomes(o, [op[o] EXCEPT !.pc = "snapshot", !.version = Len(snapshots[op[o].flow])])
  /\ UNCHANGED <<index, snapshots, made, crashes, requests>>

(* recordVersion: _nextVersion reads the directory, the snapshot is renamed *)
(* into it.                                                                 *)
NextVersion(o) ==
  /\ op[o].pc = "record"
  /\ Becomes(o, [op[o] EXCEPT !.pc = "snapshot", !.version = Len(snapshots[op[o].flow]) + 1])
  /\ UNCHANGED <<index, snapshots, made, crashes, requests>>

RecordSnapshot(o) ==
  /\ op[o].pc = "snapshot"
  /\ LET f == op[o].flow  n == op[o].version IN
       snapshots' = [snapshots EXCEPT ![f] = [i \in 1..(IF n > Len(@) THEN n ELSE Len(@)) |->
                                               IF i = n THEN op[o].copy[f].def ELSE @[i]]]
  /\ IF op[o].kind = "rollback" THEN Ended(o) ELSE Goes(o, "stamp")
  /\ UNCHANGED <<index, made, crashes, requests>>

\* mutant of Stamp: the flow is written as it was recorded, not only its version
StampWhole(o) ==
  /\ op[o].pc = "stamp"
  /\ LET f == op[o].flow IN
       IF Loaded[f] = None THEN Ended(o)
       ELSE Becomes(o, [op[o] EXCEPT !.pc = "restamp", !.version = 0,
              !.copy = [Loaded EXCEPT ![f] = [def |-> op[o].copy[f].def, version |-> op[o].version]]])
  /\ UNCHANGED <<index, snapshots, made, crashes, requests>>

(* The number of the snapshot becomes the flow's version; an error is only *)
(* logged.                                                                 *)
Stamp(o) ==
  /\ op[o].pc = "stamp"
  /\ LET f == op[o].flow IN
       IF Loaded[f] = None THEN Ended(o)
       ELSE Becomes(o, [op[o] EXCEPT !.pc = "restamp", !.version = 0,
              !.copy = [Loaded EXCEPT ![f].version = op[o].version]])
  /\ UNCHANGED <<index, snapshots, made, crashes, requests>>

Crash ==
  /\ crashes < MaxCrashes /\ crashes' = crashes + 1
  /\ requests < MaxRequests /\ requests' = requests + 1
  /\ op' = [o \in Ops |-> Off]
  /\ UNCHANGED <<index, snapshots, made>>

Step(o) ==
  \/ LoadToUpdate(o) \/ WriteIndex(o) \/ IndexWritten(o)
  \/ NextVersion(o) \/ RecordSnapshot(o) \/ Stamp(o)
Request(o, f) ==
  /\ op[o] = Off /\ requests < MaxRequests
  /\ \/ \E p \in Patches : \/ Create(o, f, p, "create") \/ Create(o, f, p, "toolCreate")
                           \/ Put(o, f, p) \/ ToolUpdate(o, f, p)
     \/ \E n \in 1..Len(snapshots[f]) : Rollback(o, f, n)
     \/ Delete(o, f)
-----------------------------------------------------------------------------
(* What the properties remember of the steps. *)
Meet(r, s) == r.flow = s.flow /\ r.flow # None
UsesIndex(r) == r.pc \in {"write", "writeEnd", "restamp", "restampEnd"}
BothUseIndex(r, s) == UsesIndex(r) /\ UsesIndex(s)
Collided(before, Clash(_, _)) ==
  {o \in Ops : /\ op'[o] # Off
               /\ (o \in before \/ \E p \in Ops \ {o} : Clash(op'[o], op'[p]))}

Crashes == crashes' # crashes
Leaves(o, pc) == ~Crashes /\ op[o].pc = pc /\ op'[o].pc # pc
Writes(o) == Leaves(o, "writeEnd") \/ Leaves(o, "restampEnd")
Written(f) == {o \in Ops : Writes(o) /\ op[o].flow = f}
FailsToStamp(o) == Leaves(o, "stamp") /\ op'[o] = Off

Remember ==
  /\ crossed' = Collided(crossed, Meet)
  /\ stale' = Collided(stale, BothUseIndex)
  /\ unchecked' = unchecked \cup
       {f \in Flows : \/ \E o \in stale : Writes(o)
                      \/ \E o \in Written(f) : \/ o \in crossed
                                              \/ op[o].kind \in {"toolCreate", "toolUpdate"}}
  /\ unstamped' = {f \in Flows :
       \/ \E o \in stale : Writes(o)
       \/ \E o \in Written(f) : o \in crossed \/ op[o].kind \in {"toolUpdate", "rollback"}
       \/ \E o \in Ops : op[o].flow = f /\ (Crashes \/ FailsToStamp(o))
       \/ f \in unstamped /\ \A o \in Written(f) : op[o].pc # "restampEnd"}
  /\ latest' = [f \in Flows |->
       IF \E o \in Written(f) : op[o].pc = "writeEnd"
         THEN LET o == CHOOSE o \in Written(f) : TRUE
              IN IF op[o].copy[f] = None THEN None ELSE op[o].copy[f].def
       ELSE latest[f]]
  /\ orderly' = (orderly /\ stale' = {} /\ (Crashes => index # Torn))

Next ==
  /\ \/ \E o \in Ops : Step(o) \/ \E f \in Flows : Request(o, f)
     \/ Crash
  /\ Remember

Spec == Init /\ [][Next]_vars
-----------------------------------------------------------------------------
(* What a run needs of a flow: its edges join its nodes, and the nodes can *)
(* be put into an order that every edge follows.                           *)
Executable(def) ==
  /\ def.edges \subseteq def.nodes \X def.nodes
  /\ \E rank \in [def.nodes -> 1..Cardinality(def.nodes)] :
       \A e \in def.edges : rank[e[1]] < rank[e[2]]

(* A stored flow can be executed, although a patch is validated against a  *)
(* flow read earlier: unless the tool wrote it, or requests overlapped     *)
(* that were about the flow or wrote the index.                            *)
StoredFlowsAreValid ==
  index # Torn => \A f \in Flows \ unchecked : index[f] # None => Executable(index[f].def)

(* The version of a flow, which its runs carry, is the number of the       *)
(* snapshot of what they execute, unless the flow was rolled back or       *)
(* updated by the tool since, or a change of it collided or failed.        *)
VersionTellsDefinition ==
  index # Torn =>
    \A f \in Flows \ unstamped :
      (index[f] # None /\ index[f].version # 0 /\ \A o \in Ops : op[o].flow # f)
        => index[f].version \in DOMAIN snapshots[f] /\ snapshots[f][index[f].version] = index[f].def

(* What was last written to each flow is what the index holds, whatever     *)
(* other requests wrote to it, unless one wrote between the other's read   *)
(* and write or the process ended during a write.                          *)
EditsLast ==
  orderly /\ index # Torn =>
    \A f \in Flows : latest[f] = IF index[f] = None THEN None ELSE index[f].def

(* No step changes a snapshot or its number, unless two requests about the *)
(* flow are under way.                                                     *)
SnapshotsStay ==
  \A f \in Flows : \/ \E o \in crossed : op[o].flow = f
                  \/ /\ Len(snapshots[f]) <= Len(snapshots'[f])
                     /\ \A n \in DOMAIN snapshots[f] : snapshots'[f][n] = snapshots[f][n]
SnapshotsNeverChange == [][SnapshotsStay]_vars
=============================================================================
