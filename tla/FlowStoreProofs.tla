-------------------------- MODULE FlowStoreProofs --------------------------
(***************************************************************************)
(* Proofs about FlowStore, for every set of flows, of nodes, of requests   *)
(* under way and of bodies, and any number of crashes, in this order:      *)
(*   - the types, and that the snapshots of a flow never change            *)
(*     (TypesHold, SnapshotsHold);                                         *)
(*   - the steps as the other properties see them (Moves);                 *)
(*   - that the last edit of a flow stays (LastEditStays);                 *)
(*   - that a flow's version tells its definition (VersionTells);          *)
(*   - that the validator's depth-first search is right                   *)
(*     (ValidatorIsRight);                                                 *)
(*   - that what is stored was accepted, and so can be executed            *)
(*     (StoredFlows).                                                      *)
(***************************************************************************)
EXTENDS FlowStore, SequenceTheorems, FiniteSetTheorems, WellFoundedInduction, TLAPS

(* What holds of a request between its steps, with the flows made and the  *)
(* snapshots as they are.                                                  *)
Fits(r, m, s) ==
  /\ r \in Requests
  /\ r.pc = "off" <=> r = Off
  /\ r.pc # "off" => r.flow \in m
  /\ r.pc = "load" => r.patch # None
  /\ r.pc \notin {"off", "load"} /\ r.kind # "delete" => r.copy[r.flow] # None
  /\ r.pc \in {"record", "snapshot", "stamp"} => r.kind # "delete"
  /\ \A f \in Flows : r.copy[f] # None => f \in m
  /\ r.pc = "snapshot" => r.version \in 1..(Len(s[r.flow]) + 1)

(* Requests that met no other about their flow are the only ones about it, *)
(* and the number they took is the next one.                               *)
Apart == \A o \in Ops \ crossed : \A p \in Ops \ {o} : ~Meet(op[o], op[p])
NumberIsNext ==
  \A o \in Ops \ crossed :
    op[o].pc = "snapshot" => op[o].version = Len(snapshots[op[o].flow]) + 1

IInv ==
  /\ TypeOK
  /\ \A o \in Ops : Fits(op[o], made, snapshots)
  /\ \A f \in Flows : Loaded[f] # None => f \in made
  /\ Apart
  /\ NumberIsNext
-----------------------------------------------------------------------------
LEMMA ConstantFacts ==
  /\ Patches \subseteq Bodies /\ None \notin Flows /\ None \notin Bodies /\ None \notin Stored
  /\ MaxRequests \in Nat /\ MaxCrashes \in Nat
  /\ Definitions \subseteq Bodies
  /\ Empty \in Indexes /\ \A f \in Flows : Empty[f] = None
  /\ Off \in Requests
<1>1. /\ Patches \subseteq Bodies /\ None \notin Flows /\ None \notin Bodies /\ None \notin Stored
      /\ MaxRequests \in Nat /\ MaxCrashes \in Nat
  BY FlowStoreAssumption
<1>2. Definitions \subseteq Bodies
  BY DEF Definitions, Bodies
<1>3. Empty \in Indexes /\ \A f \in Flows : Empty[f] = None
  BY DEF Empty, Indexes
<1>4. Off \in Requests
  BY <1>3 DEF Off, Requests, Kinds, Pcs
<1>5. QED
  BY <1>1, <1>2, <1>3, <1>4

LEMMA PatchedIsDefinition ==
  ASSUME NEW def \in Definitions, NEW patch \in Bodies
  PROVE  Patched(def, patch) \in Definitions
BY DEF Definitions, Bodies, Patched

LEMMA LoadedIsIndex == TypeOK => Loaded \in Indexes
BY ConstantFacts DEF TypeOK, Loaded

LEMMA OffFits == ASSUME NEW m, NEW s PROVE Fits(Off, m, s)
BY ConstantFacts DEF Fits, Off

(* A request goes on to fit when flows are made and snapshots are added.   *)
LEMMA FitsOn ==
  ASSUME NEW m \in SUBSET Flows, NEW s \in [Flows -> Seq(Definitions)],
         NEW m2 \in SUBSET Flows, NEW s2 \in [Flows -> Seq(Definitions)],
         m \subseteq m2, \A f \in Flows : Len(s[f]) <= Len(s2[f]),
         NEW r, Fits(r, m, s)
  PROVE  Fits(r, m2, s2)
<1>1. r.pc = "snapshot" => r.version \in 1..(Len(s2[r.flow]) + 1)
  <2> SUFFICES ASSUME r.pc = "snapshot" PROVE r.version \in 1..(Len(s2[r.flow]) + 1)
    OBVIOUS
  <2>1. r.flow \in Flows /\ r.version \in 1..(Len(s[r.flow]) + 1)
    BY DEF Fits
  <2>2. Len(s[r.flow]) \in Nat /\ Len(s2[r.flow]) \in Nat /\ Len(s[r.flow]) <= Len(s2[r.flow])
    BY <2>1
  <2>3. QED
    BY <2>1, <2>2
<1>2. QED
  BY <1>1 DEF Fits

(* What a step of one request owes to the invariant. *)
StepFits(o) ==
  /\ \E r : op' = [op EXCEPT ![o] = r] /\ Fits(r, made', snapshots')
  /\ index' = Torn \/ index' \in Indexes
  /\ \A f \in Flows : Loaded'[f] # None => f \in made'
  /\ snapshots' \in [Flows -> Seq(Definitions)]
  /\ \A f \in Flows : Len(snapshots[f]) <= Len(snapshots'[f])
  /\ made \subseteq made' /\ made' \subseteq Flows
  /\ \A f \in Flows \ made' : snapshots'[f] = << >>
  /\ requests' \in 0..MaxRequests /\ crashes' \in 0..MaxCrashes

LEMMA StartsFits ==
  ASSUME IInv, NEW o \in Ops, NEW f \in Flows, NEW kind \in Kinds, NEW pc \in Pcs,
         NEW patch \in {None} \cup Bodies, NEW copy \in Indexes,
         Starts(o, kind, f, patch, pc, copy), requests < MaxRequests,
         kind # "off", pc \in {"load", "write"},
         pc = "load" => patch # None,
         pc = "write" /\ kind # "delete" => copy[f] # None,
         made \subseteq made', made' \subseteq Flows, f \in made',
         \A g \in Flows : copy[g] # None => g \in made'
  PROVE  StepFits(o)
<1> DEFINE r == [kind |-> kind, flow |-> f, pc |-> pc, patch |-> patch, copy |-> copy,
                 version |-> 0]
<1>1. /\ r.kind = kind /\ r.flow = f /\ r.pc = pc /\ r.patch = patch /\ r.copy = copy
      /\ f \in Flows \cup {None}
  OBVIOUS
<1>2. r \in Requests
  BY <1>1 DEF Requests
<1> HIDE DEF r
<1>3. Fits(r, made', snapshots')
  <2>1. r.pc # "off" /\ r # Off /\ r.pc # "snapshot"
    BY <1>1 DEF Off
  <2>2. QED
    BY <1>1, <1>2, <2>1 DEF Fits
<1>4. op' = [op EXCEPT ![o] = r]
  BY DEF Starts, Becomes, r
<1>5. UNCHANGED <<index, snapshots, crashes>> /\ requests' = requests + 1
  BY DEF Starts
<1>6. \A g \in Flows : Loaded'[g] # None => g \in made'
  BY <1>5 DEF IInv, Loaded
<1>7. requests' \in 0..MaxRequests
  BY <1>5, ConstantFacts DEF IInv, TypeOK
<1>8. \E q : op' = [op EXCEPT ![o] = q] /\ Fits(q, made', snapshots')
  BY <1>3, <1>4
<1>9. /\ index' = Torn \/ index' \in Indexes
      /\ snapshots' \in [Flows -> Seq(Definitions)]
      /\ \A g \in Flows : Len(snapshots[g]) <= Len(snapshots'[g])
      /\ \A g \in Flows \ made' : snapshots'[g] = << >>
      /\ crashes' \in 0..MaxCrashes
  BY <1>5 DEF IInv, TypeOK
<1>10. QED
  BY <1>6, <1>7, <1>8, <1>9 DEF StepFits
-----------------------------------------------------------------------------
LEMMA CreateFits ==
  ASSUME IInv, NEW o \in Ops, NEW f \in Flows, NEW p \in Patches,
         NEW kind \in {"create", "toolCreate"}, requests < MaxRequests, Create(o, f, p, kind)
  PROVE  StepFits(o)
<1> DEFINE new == [def |-> Patched(NoNodes, p), version |-> 0]
           copy == [Loaded EXCEPT ![f] = new]
<1>1. NoNodes \in Definitions /\ p \in Bodies
  BY ConstantFacts DEF NoNodes, Definitions
<1>2. new \in Stored
  BY <1>1, PatchedIsDefinition DEF Stored
<1>3. new # None
  BY <1>2, ConstantFacts
<1>4. copy \in Indexes /\ copy[f] = new
  BY <1>2, LoadedIsIndex DEF IInv, Indexes
<1>5. made \subseteq made' /\ made' \subseteq Flows /\ f \in made'
  BY DEF IInv, TypeOK, Create
<1>6. \A g \in Flows : copy[g] # None => g \in made'
  <2> SUFFICES ASSUME NEW g \in Flows, g # f, copy[g] # None PROVE g \in made'
    BY <1>5
  <2>1. copy[g] = Loaded[g]
    BY LoadedIsIndex DEF IInv, Indexes
  <2>2. QED
    BY <1>5, <2>1 DEF IInv
<1>7. Starts(o, kind, f, p, "write", copy)
  BY DEF Create
<1> HIDE DEF copy, new
<1>8. QED
  BY <1>1, <1>3, <1>4, <1>5, <1>6, <1>7, StartsFits DEF Kinds, Pcs

(* Requests that read the flow to be updated later. *)
LEMMA UpdateFits ==
  ASSUME IInv, NEW o \in Ops, NEW f \in Flows, NEW p \in Bodies,
         NEW kind \in {"put", "toolUpdate", "rollback"}, requests < MaxRequests,
         f \in made, UNCHANGED made, Starts(o, kind, f, p, "load", Empty)
  PROVE  StepFits(o)
<1>1. Empty \in Indexes /\ p # None /\ \A g \in Flows : Empty[g] # None => g \in made'
  BY ConstantFacts
<1>2. made \subseteq made' /\ made' \subseteq Flows /\ f \in made'
  BY DEF IInv, TypeOK
<1>3. kind \in Kinds /\ kind # "off" /\ "load" \in Pcs
  BY DEF Kinds, Pcs
<1>4. QED
  BY <1>1, <1>2, <1>3, StartsFits

LEMMA RollbackFits ==
  ASSUME IInv, NEW o \in Ops, NEW f \in Flows, NEW n \in 1..Len(snapshots[f]),
         requests < MaxRequests, Rollback(o, f, n)
  PROVE  StepFits(o)
<1>1. /\ snapshots[f] \in Seq(Definitions) /\ Len(snapshots[f]) \in Nat
      /\ snapshots[f] # << >>
  BY EmptySeq DEF IInv, TypeOK
<1>2. snapshots[f][n] \in Bodies
  BY <1>1, ElementOfSeq, ConstantFacts
<1>3. f \in made
  BY <1>1 DEF IInv, TypeOK
<1>4. QED
  BY <1>2, <1>3, UpdateFits DEF Rollback

LEMMA DeleteFits ==
  ASSUME IInv, NEW o \in Ops, NEW f \in Flows, requests < MaxRequests, Delete(o, f)
  PROVE  StepFits(o)
<1> DEFINE copy == [Loaded EXCEPT ![f] = None]
<1>1. Loaded \in Indexes /\ f \in made
  BY LoadedIsIndex DEF IInv, Delete
<1>2. copy \in Indexes /\ \A g \in Flows : copy[g] # None => Loaded[g] # None
  BY <1>1 DEF Indexes
<1>3. made \subseteq made' /\ made' \subseteq Flows /\ f \in made'
  BY <1>1 DEF IInv, TypeOK, Delete
<1>4. \A g \in Flows : copy[g] # None => g \in made'
  BY <1>2, <1>3 DEF IInv
<1>5. Starts(o, "delete", f, None, "write", copy)
  BY DEF Delete
<1> HIDE DEF copy
<1>6. QED
  BY <1>2, <1>3, <1>4, <1>5, StartsFits DEF Kinds, Pcs

LEMMA RequestFits ==
  ASSUME IInv, NEW o \in Ops, NEW f \in Flows, Request(o, f)
  PROVE  StepFits(o)
<1>1. requests < MaxRequests
  BY DEF Request
<1>2. ASSUME NEW p \in Patches, Put(o, f, p) \/ ToolUpdate(o, f, p) PROVE StepFits(o)
  <2>1. f \in made /\ p \in Bodies
    BY <1>2, ConstantFacts DEF IInv, Put, ToolUpdate
  <2>2. QED
    BY <1>1, <1>2, <2>1, UpdateFits DEF Put, ToolUpdate
<1>3. QED
  BY <1>1, <1>2, CreateFits, RollbackFits, DeleteFits DEF Request
-----------------------------------------------------------------------------
(* A step of a request that changes neither snapshots nor flows. *)
LEMMA MovesFits ==
  ASSUME IInv, NEW o \in Ops, NEW r, Becomes(o, r), Fits(r, made, snapshots),
         UNCHANGED <<snapshots, made, crashes, requests>>,
         index' = Torn \/ index' \in Indexes,
         index' # Torn => \A f \in Flows : index'[f] # None => f \in made
  PROVE  StepFits(o)
<1>1. \E q : op' = [op EXCEPT ![o] = q] /\ Fits(q, made', snapshots')
  BY DEF Becomes
<1>2. \A f \in Flows : Loaded'[f] # None => f \in made'
  BY ConstantFacts DEF Loaded
<1>3. /\ snapshots' \in [Flows -> Seq(Definitions)]
      /\ \A f \in Flows : Len(snapshots[f]) <= Len(snapshots'[f])
      /\ made \subseteq made' /\ made' \subseteq Flows
      /\ \A f \in Flows \ made' : snapshots'[f] = << >>
      /\ requests' \in 0..MaxRequests /\ crashes' \in 0..MaxCrashes
  BY DEF IInv, TypeOK
<1>4. QED
  BY <1>1, <1>2, <1>3 DEF StepFits

LEMMA IndexKept ==
  ASSUME IInv, UNCHANGED index
  PROVE  /\ index' = Torn \/ index' \in Indexes
         /\ index' # Torn => \A f \in Flows : index'[f] # None => f \in made
BY DEF IInv, TypeOK, Loaded

LEMMA LoadToUpdateFits ==
  ASSUME IInv, NEW o \in Ops, LoadToUpdate(o)
  PROVE  StepFits(o)
<1> DEFINE f == op[o].flow
<1>1. /\ op[o] \in Requests /\ op[o].pc = "load" /\ f \in Flows /\ f \in made
      /\ op[o].patch \in Bodies /\ Loaded \in Indexes
      /\ Fits(op[o], made, snapshots)
  BY LoadedIsIndex DEF IInv, TypeOK, Fits, LoadToUpdate, Requests
<1>2. CASE Loaded[f] = None
  <2>1. Becomes(o, Off) /\ UNCHANGED <<index, snapshots, made, crashes, requests>>
    BY <1>2 DEF LoadToUpdate, Ended
  <2>2. QED
    BY <2>1, OffFits, IndexKept, MovesFits
<1>3. CASE Loaded[f] # None
  <2> DEFINE new == [Loaded[f] EXCEPT !.def = Patched(@, op[o].patch)]
             copy == [Loaded EXCEPT ![f].def = Patched(@, op[o].patch)]
             r == [op[o] EXCEPT !.pc = "write", !.patch = None, !.copy = copy]
  <2>1. Loaded[f] \in Stored
    BY <1>1, <1>3 DEF Indexes
  <2>2. Patched(Loaded[f].def, op[o].patch) \in Definitions
    BY <1>1, <2>1, PatchedIsDefinition DEF Stored
  <2>3. new \in Stored /\ new # None
    BY <2>1, <2>2, ConstantFacts DEF Stored
  <2>4. copy = [Loaded EXCEPT ![f] = new]
    OBVIOUS
  <2> HIDE DEF new
  <2>5. copy \in Indexes /\ copy[f] # None
    BY <1>1, <2>3, <2>4 DEF Indexes
  <2>6. \A g \in Flows : copy[g] # None => g \in made
    BY <1>1, <2>4 DEF IInv, Indexes
  <2>7. Becomes(o, r) /\ UNCHANGED <<index, snapshots, made, crashes, requests>>
    BY <1>3 DEF LoadToUpdate
  <2> HIDE DEF copy
  <2>8. r \in Requests /\ r.pc = "write" /\ r.flow = f /\ r.copy = copy /\ r.kind = op[o].kind
    BY <1>1, <2>5 DEF Requests, Pcs
  <2> HIDE DEF r
  <2>9. Fits(r, made, snapshots)
    BY <1>1, <2>5, <2>6, <2>8 DEF Fits, Off
  <2>10. QED
    BY <2>7, <2>9, IndexKept, MovesFits
<1>4. QED
  BY <1>2, <1>3

LEMMA WriteIndexFits ==
  ASSUME IInv, NEW o \in Ops, WriteIndex(o)
  PROVE  StepFits(o)
<1> DEFINE pc == IF op[o].pc = "write" THEN "writeEnd" ELSE "restampEnd"
           r == [op[o] EXCEPT !.pc = pc]
<1>1. /\ op[o] \in Requests /\ op[o].pc \in {"write", "restamp"}
      /\ Fits(op[o], made, snapshots)
  BY DEF IInv, TypeOK, Fits, WriteIndex
<1>2. op' = [op EXCEPT ![o] = r]
  BY DEF WriteIndex, Goes
<1>3. /\ r \in Requests /\ r.pc \in {"writeEnd", "restampEnd"} /\ r.flow = op[o].flow
      /\ r.copy = op[o].copy /\ r.kind = op[o].kind
  BY <1>1 DEF Requests, Pcs
<1> HIDE DEF r
<1>4. Fits(r, made, snapshots)
  BY <1>1, <1>3 DEF Fits, Off
<1>5. index' = Torn /\ UNCHANGED <<snapshots, made, crashes, requests>>
  BY DEF WriteIndex
<1>6. QED
  BY <1>2, <1>4, <1>5, MovesFits DEF Becomes

LEMMA IndexWrittenFits ==
  ASSUME IInv, NEW o \in Ops, IndexWritten(o)
  PROVE  StepFits(o)
<1> DEFINE f == op[o].flow
           recorded == [op[o] EXCEPT !.pc = "record", !.patch = None,
                          !.copy = [g \in Flows |-> IF g = f THEN @[g] ELSE None]]
<1>1. /\ op[o] \in Requests /\ op[o].pc \in {"writeEnd", "restampEnd"} /\ f \in Flows
      /\ Fits(op[o], made, snapshots)
  BY DEF IInv, TypeOK, Fits, IndexWritten
<1>2. /\ op[o].copy \in Indexes /\ \A g \in Flows : op[o].copy[g] # None => g \in made
      /\ op[o].kind # "delete" => op[o].copy[f] # None
  BY <1>1 DEF Fits, Requests
<1>3. /\ index' = Torn \/ index' \in Indexes
      /\ index' # Torn => \A g \in Flows : index'[g] # None => g \in made
      /\ UNCHANGED <<snapshots, made, crashes, requests>>
  BY <1>2 DEF IndexWritten
<1>4. CASE op[o].pc = "writeEnd" /\ op[o].kind \in {"create", "put", "rollback"}
  <2>1. Becomes(o, recorded)
    BY <1>4 DEF IndexWritten
  <2> DEFINE copy == [g \in Flows |-> IF g = f THEN op[o].copy[g] ELSE None]
  <2>2. copy \in Indexes /\ copy[f] # None /\ \A g \in Flows : copy[g] # None => g \in made
    BY <1>1, <1>2, <1>4 DEF Indexes
  <2>3. recorded = [op[o] EXCEPT !.pc = "record", !.patch = None, !.copy = copy]
    OBVIOUS
  <2> HIDE DEF recorded, copy
  <2>4. /\ recorded \in Requests /\ recorded.pc = "record" /\ recorded.flow = f
        /\ recorded.copy = copy /\ recorded.kind = op[o].kind
    BY <1>1, <2>2, <2>3 DEF Requests, Pcs
  <2>5. Fits(recorded, made, snapshots)
    BY <1>1, <1>4, <2>2, <2>4 DEF Fits, Off
  <2>6. QED
    BY <1>3, <2>1, <2>5, MovesFits
<1>5. CASE ~(op[o].pc = "writeEnd" /\ op[o].kind \in {"create", "put", "rollback"})
  <2>1. Becomes(o, Off)
    BY <1>5 DEF IndexWritten, Ended
  <2>2. QED
    BY <1>3, <2>1, OffFits, MovesFits
<1>6. QED
  BY <1>4, <1>5

LEMMA NextVersionFits ==
  ASSUME IInv, NEW o \in Ops, NextVersion(o)
  PROVE  StepFits(o)
<1> DEFINE n == Len(snapshots[op[o].flow]) + 1
           r == [op[o] EXCEPT !.pc = "snapshot", !.version = n]
<1>1. /\ op[o] \in Requests /\ op[o].pc = "record" /\ Fits(op[o], made, snapshots)
      /\ op[o].flow \in Flows
  BY DEF IInv, TypeOK, Fits, NextVersion
<1>2. n \in Nat /\ n \in 1..(Len(snapshots[op[o].flow]) + 1)
  BY <1>1 DEF IInv, TypeOK
<1>3. Becomes(o, r) /\ UNCHANGED <<index, snapshots, made, crashes, requests>>
  BY DEF NextVersion
<1> HIDE DEF n
<1>4. /\ r \in Requests /\ r.pc = "snapshot" /\ r.flow = op[o].flow /\ r.version = n
      /\ r.copy = op[o].copy /\ r.kind = op[o].kind
  BY <1>1, <1>2 DEF Requests, Pcs
<1> HIDE DEF r
<1>5. Fits(r, made, snapshots)
  BY <1>1, <1>2, <1>4 DEF Fits, Off
<1>6. QED
  BY <1>3, <1>5, IndexKept, MovesFits

LEMMA StampFits ==
  ASSUME IInv, NEW o \in Ops, Stamp(o)
  PROVE  StepFits(o)
<1> DEFINE f == op[o].flow
<1>1. /\ op[o] \in Requests /\ op[o].pc = "stamp" /\ f \in Flows
      /\ Loaded \in Indexes /\ Fits(op[o], made, snapshots)
  BY LoadedIsIndex DEF IInv, TypeOK, Fits, Stamp
<1>2. CASE Loaded[f] = None
  <2>1. Becomes(o, Off) /\ UNCHANGED <<index, snapshots, made, crashes, requests>>
    BY <1>2 DEF Stamp, Ended
  <2>2. QED
    BY <2>1, OffFits, IndexKept, MovesFits
<1>3. CASE Loaded[f] # None
  <2> DEFINE new == [Loaded[f] EXCEPT !.version = op[o].version]
             copy == [Loaded EXCEPT ![f].version = op[o].version]
             r == [op[o] EXCEPT !.pc = "restamp", !.version = 0, !.copy = copy]
  <2>1. new \in Stored /\ new # None
    <3>1. Loaded[f] \in Stored /\ op[o].version \in Nat
      BY <1>1, <1>3 DEF Indexes, Requests
    <3>2. QED
      BY <3>1, ConstantFacts DEF Stored
  <2>2. copy = [Loaded EXCEPT ![f] = new]
    OBVIOUS
  <2> HIDE DEF new
  <2>3. copy \in Indexes /\ copy[f] # None
    BY <1>1, <2>1, <2>2 DEF Indexes
  <2>4. \A g \in Flows : copy[g] # None => g \in made
    BY <1>1, <1>3, <2>2 DEF IInv, Indexes
  <2>5. Becomes(o, r) /\ UNCHANGED <<index, snapshots, made, crashes, requests>>
    BY <1>3 DEF Stamp
  <2> HIDE DEF copy
  <2>6. r \in Requests /\ r.pc = "restamp" /\ r.flow = f /\ r.copy = copy
    BY <1>1, <2>3 DEF Requests, Pcs
  <2> HIDE DEF r
  <2>7. Fits(r, made, snapshots)
    BY <1>1, <2>3, <2>4, <2>6 DEF Fits, Off
  <2>8. QED
    BY <2>5, <2>7, IndexKept, MovesFits
<1>4. QED
  BY <1>2, <1>3
-----------------------------------------------------------------------------
(* The directory after a snapshot: its number is taken or the next one. *)
LEMMA SnapshotAdded ==
  ASSUME IInv, NEW o \in Ops, RecordSnapshot(o)
  PROVE  LET f == op[o].flow  n == op[o].version IN
         /\ f \in Flows /\ f \in made /\ n \in 1..(Len(snapshots[f]) + 1)
         /\ snapshots' \in [Flows -> Seq(Definitions)]
         /\ \A g \in Flows \ {f} : snapshots'[g] = snapshots[g]
         /\ Len(snapshots[f]) <= Len(snapshots'[f])
         /\ \A i \in 1..Len(snapshots[f]) : i # n => snapshots'[f][i] = snapshots[f][i]
<1> DEFINE f == op[o].flow
           n == op[o].version
           old == snapshots[f]
           len == IF n > Len(old) THEN n ELSE Len(old)
           def == op[o].copy[f].def
           new == [i \in 1..len |-> IF i = n THEN def ELSE old[i]]
<1>1. /\ op[o] \in Requests /\ op[o].pc = "snapshot" /\ f \in Flows /\ f \in made
      /\ op[o].copy \in Indexes /\ n \in 1..(Len(old) + 1)
      /\ old \in Seq(Definitions) /\ Len(old) \in Nat
  <2>1. op[o] \in Requests /\ op[o].pc = "snapshot" /\ snapshots \in [Flows -> Seq(Definitions)]
    BY DEF IInv, TypeOK, RecordSnapshot
  <2>2. Fits(op[o], made, snapshots) /\ made \subseteq Flows /\ op[o].copy \in Indexes
    BY <2>1 DEF IInv, TypeOK, Requests
  <2>3. /\ f \in Flows /\ f \in made /\ op[o].copy \in Indexes
        /\ n \in 1..(Len(snapshots[f]) + 1)
    BY <2>1, <2>2 DEF Fits
  <2>4. old \in Seq(Definitions)
    BY <2>1, <2>3
  <2>5. Len(old) \in Nat
    BY <2>4
  <2>6. QED
    BY <2>1, <2>3, <2>4, <2>5
<1>2. def \in Definitions
  <2>1. op[o].copy[f] # None
    <3>1. Fits(op[o], made, snapshots)
      BY DEF IInv
    <3>2. QED
      BY <1>1, <3>1 DEF Fits
  <2>2. QED
    BY <1>1, <2>1 DEF Indexes, Stored
<1>3. snapshots' = [snapshots EXCEPT ![f] = new]
  BY DEF RecordSnapshot
<1>4. len \in Nat /\ Len(old) <= len /\ len <= Len(old) + 1 /\ (len > Len(old) => n = len)
  BY <1>1
<1> HIDE DEF def, len
<1>5. new \in Seq(Definitions) /\ Len(new) = len
  <2>1. \A i \in 1..len : (IF i = n THEN def ELSE old[i]) \in Definitions
    BY <1>1, <1>2, <1>4, ElementOfSeq
  <2>2. QED
    BY <1>4, <2>1
<1>6. QED
  BY <1>1, <1>3, <1>4, <1>5 DEF IInv, TypeOK

LEMMA RecordSnapshotFits ==
  ASSUME IInv, NEW o \in Ops, RecordSnapshot(o)
  PROVE  StepFits(o)
<1> DEFINE f == op[o].flow
           r == IF op[o].kind = "rollback" THEN Off ELSE [op[o] EXCEPT !.pc = "stamp"]
<1>1. /\ f \in Flows /\ f \in made
      /\ snapshots' \in [Flows -> Seq(Definitions)]
      /\ \A g \in Flows \ {f} : snapshots'[g] = snapshots[g]
      /\ Len(snapshots[f]) <= Len(snapshots'[f])
  BY SnapshotAdded
<1>2. \A g \in Flows : Len(snapshots[g]) <= Len(snapshots'[g])
  <2>1. \A g \in Flows : Len(snapshots[g]) \in Nat
    BY DEF IInv, TypeOK
  <2>2. QED
    BY <1>1, <2>1
<1>3. /\ op' = [op EXCEPT ![o] = r] /\ UNCHANGED <<index, made, crashes, requests>>
  BY DEF RecordSnapshot, Ended, Goes, Becomes
<1>4. /\ op[o] \in Requests /\ op[o].pc = "snapshot" /\ Fits(op[o], made, snapshots)
  BY DEF IInv, TypeOK, RecordSnapshot
<1>5. Fits(r, made', snapshots')
  <2>1. CASE op[o].kind = "rollback"
    BY <2>1, OffFits
  <2>2. CASE op[o].kind # "rollback"
    <3>1. r = [op[o] EXCEPT !.pc = "stamp"]
      BY <2>2
    <3> HIDE DEF r
    <3>2. /\ r \in Requests /\ r.pc = "stamp" /\ r.flow = f
          /\ r.copy = op[o].copy /\ r.kind = op[o].kind
      BY <1>4, <3>1 DEF Requests, Pcs
    <3>3. QED
      BY <1>3, <1>4, <3>2 DEF Fits, Off
  <2>3. QED
    BY <2>1, <2>2
<1> HIDE DEF r
<1>6. /\ index' = Torn \/ index' \in Indexes
      /\ \A g \in Flows : Loaded'[g] # None => g \in made'
      /\ made \subseteq made' /\ made' \subseteq Flows
      /\ requests' \in 0..MaxRequests /\ crashes' \in 0..MaxCrashes
  BY <1>3 DEF IInv, TypeOK, Loaded
<1>7. \A g \in Flows \ made' : snapshots'[g] = << >>
  BY <1>1, <1>3 DEF IInv, TypeOK
<1>8. \E q : op' = [op EXCEPT ![o] = q] /\ Fits(q, made', snapshots')
  BY <1>3, <1>5
<1>9. QED
  BY <1>1, <1>2, <1>6, <1>7, <1>8 DEF StepFits

LEMMA StepOrRequestFits ==
  ASSUME IInv, NEW o \in Ops, Step(o) \/ \E f \in Flows : Request(o, f)
  PROVE  StepFits(o)
BY RequestFits, LoadToUpdateFits, WriteIndexFits, IndexWrittenFits, NextVersionFits,
   RecordSnapshotFits, StampFits DEF Step
-----------------------------------------------------------------------------
(* The histories keep their types. *)
LEMMA PastTypes ==
  ASSUME IInv, Remember
  PROVE  /\ crossed' \subseteq Ops /\ stale' \subseteq Ops
         /\ unchecked' \cup unstamped' \subseteq Flows
         /\ latest' \in [Flows -> {None} \cup Definitions]
         /\ orderly' \in BOOLEAN
<1>1. crossed' \subseteq Ops /\ stale' \subseteq Ops
  BY DEF Remember, Collided
<1>2. unchecked' \cup unstamped' \subseteq Flows
  BY DEF Remember, IInv, TypeOK
<1>3. orderly' \in BOOLEAN
  <2>1. orderly \in BOOLEAN
    BY DEF IInv, TypeOK
  <2>2. orderly' = (orderly /\ stale' = {} /\ (Crashes => index # Torn))
    BY DEF Remember
  <2>3. QED
    BY <2>1, <2>2, Zenon
<1>4. latest' \in [Flows -> {None} \cup Definitions]
  <2> DEFINE writer(f) == CHOOSE o \in Written(f) : TRUE
             kept(f) == IF op[writer(f)].copy[f] = None THEN None
                        ELSE op[writer(f)].copy[f].def
  <2>1. latest' = [f \in Flows |-> IF \E o \in Written(f) : op[o].pc = "writeEnd"
                                    THEN kept(f) ELSE latest[f]]
    BY DEF Remember
  <2>2. ASSUME NEW f \in Flows, \E o \in Written(f) : op[o].pc = "writeEnd"
        PROVE  kept(f) \in {None} \cup Definitions
    <3>1. writer(f) \in Written(f)
      BY <2>2
    <3>2. writer(f) \in Ops
      BY <3>1 DEF Written
    <3> HIDE DEF writer
    <3>3. op[writer(f)].copy \in Indexes
      BY <3>2 DEF IInv, TypeOK, Requests
    <3>4. op[writer(f)].copy[f] \in {None} \cup Stored
      BY <3>3 DEF Indexes
    <3>5. QED
      BY <3>4 DEF Stored
  <2>3. latest \in [Flows -> {None} \cup Definitions]
    BY DEF IInv, TypeOK
  <2> HIDE DEF kept
  <2>4. QED
    BY <2>1, <2>2, <2>3
<1>5. QED
  BY <1>1, <1>2, <1>3, <1>4

(* Requests about one flow are crossed from the step on in which they meet. *)
LEMMA ApartNext ==
  ASSUME IInv, Remember
  PROVE  /\ Apart'
         /\ \A o \in Ops \ crossed' : op'[o] # Off => o \notin crossed
<1>1. crossed' = {o \in Ops : /\ op'[o] # Off
                              /\ (o \in crossed \/ \E p \in Ops \ {o} : Meet(op'[o], op'[p]))}
  BY DEF Remember, Collided
<1>2. \A o, p \in Ops : op'[o] = Off => ~Meet(op'[o], op'[p])
  BY DEF Meet, Off
<1>3. QED
  BY <1>1, <1>2 DEF Apart

(* The number taken stays the next one while nobody else is about the flow. *)
LEMMA NumberNext ==
  ASSUME IInv, Remember, NEW o \in Ops, Step(o) \/ \E f \in Flows : Request(o, f)
  PROVE  NumberIsNext'
<1>1. \A p \in Ops \ {o} : op'[p] = op[p]
  BY StepOrRequestFits DEF StepFits, IInv, TypeOK
<1> SUFFICES ASSUME NEW p \in Ops \ crossed', op'[p].pc = "snapshot"
             PROVE  op'[p].version = Len(snapshots'[op'[p].flow]) + 1
  BY DEF NumberIsNext
<1>2. op'[p] # Off /\ p \notin crossed
  BY ApartNext DEF Off
<1>3. CASE p = o
  <2>1. CASE NextVersion(o)
    <3>1. /\ op'[o].version = Len(snapshots[op[o].flow]) + 1 /\ op'[o].flow = op[o].flow
          /\ UNCHANGED snapshots
      BY <2>1 DEF NextVersion, Becomes, IInv, TypeOK, Requests
    <3>2. QED
      BY <1>3, <3>1
  <2>2. CASE ~NextVersion(o)
    <3>1. op'[o].pc # "snapshot"
      <4>1. op \in [Ops -> Requests] /\ op[o] \in Requests
        BY DEF IInv, TypeOK
      <4>2. ASSUME NEW f \in Flows, Request(o, f) PROVE op'[o].pc # "snapshot"
        BY <4>1, <4>2 DEF Request, Create, Put, ToolUpdate, Rollback, Delete, Starts, Becomes
      <4>3. CASE LoadToUpdate(o)
        <5>1. \/ \E c : op'[o] = [op[o] EXCEPT !.pc = "write", !.patch = None, !.copy = c]
              \/ op'[o] = Off
          BY <4>1, <4>3 DEF LoadToUpdate, Ended, Becomes
        <5>2. ASSUME NEW c
              PROVE  [op[o] EXCEPT !.pc = "write", !.patch = None, !.copy = c].pc = "write"
          BY <4>1 DEF Requests
        <5>3. Off.pc = "off"
          BY DEF Off
        <5>4. QED
          BY <5>1, <5>2, <5>3
      <4>4. CASE WriteIndex(o)
        BY <4>1, <4>4 DEF WriteIndex, Goes, Requests
      <4>5. CASE IndexWritten(o)
        <5>1. \/ \E c : op'[o] = [op[o] EXCEPT !.pc = "record", !.patch = None, !.copy = c]
              \/ op'[o] = Off
          BY <4>1, <4>5 DEF IndexWritten, Ended, Becomes
        <5>2. ASSUME NEW c
              PROVE  [op[o] EXCEPT !.pc = "record", !.patch = None, !.copy = c].pc = "record"
          BY <4>1 DEF Requests
        <5>3. Off.pc = "off"
          BY DEF Off
        <5>4. QED
          BY <5>1, <5>2, <5>3
      <4>6. CASE RecordSnapshot(o)
        BY <4>1, <4>6 DEF RecordSnapshot, Ended, Becomes, Goes, Off, Requests
      <4>7. CASE Stamp(o)
        <5>1. \/ \E c : op'[o] = [op[o] EXCEPT !.pc = "restamp", !.version = 0, !.copy = c]
              \/ op'[o] = Off
          BY <4>1, <4>7 DEF Stamp, Ended, Becomes
        <5>2. ASSUME NEW c
              PROVE  [op[o] EXCEPT !.pc = "restamp", !.version = 0, !.copy = c].pc = "restamp"
          BY <4>1 DEF Requests
        <5>3. Off.pc = "off"
          BY DEF Off
        <5>4. QED
          BY <5>1, <5>2, <5>3
      <4>8. QED
        BY <2>2, <4>2, <4>3, <4>4, <4>5, <4>6, <4>7 DEF Step
    <3>2. QED
      BY <1>3, <3>1
  <2>3. QED
    BY <2>1, <2>2
<1>4. CASE p # o
  <2>1. op'[p] = op[p] /\ op[p].pc = "snapshot"
    BY <1>1, <1>4
  <2>2. op[p].version = Len(snapshots[op[p].flow]) + 1 /\ op[p].flow \in Flows
    BY <1>2, <2>1 DEF IInv, NumberIsNext, Fits, TypeOK
  <2>3. snapshots'[op[p].flow] = snapshots[op[p].flow]
    <3>1. CASE RecordSnapshot(o)
      <4>1. op[p].flow # op[o].flow
        BY <1>2, <1>4, <2>2, ConstantFacts DEF IInv, Apart, Meet
      <4>2. QED
        BY <2>2, <3>1, <4>1, SnapshotAdded
    <3>2. CASE ~RecordSnapshot(o)
      BY <3>2 DEF Step, Request, Create, Put, ToolUpdate, Rollback, Delete, Starts,
         LoadToUpdate, WriteIndex, IndexWritten, NextVersion, Stamp
    <3>3. QED
      BY <3>1, <3>2
  <2>4. QED
    BY <2>1, <2>2, <2>3
<1>5. QED
  BY <1>3, <1>4

(* A step of one request keeps the invariant. *)
LEMMA StepKeeps ==
  ASSUME IInv, Remember, NEW o \in Ops, Step(o) \/ \E f \in Flows : Request(o, f)
  PROVE  IInv'
<1>1. StepFits(o)
  BY StepOrRequestFits
<1>2. PICK r : op' = [op EXCEPT ![o] = r] /\ Fits(r, made', snapshots')
  BY <1>1 DEF StepFits
<1>3. \A p \in Ops : Fits(op'[p], made', snapshots')
  <2> SUFFICES ASSUME NEW p \in Ops PROVE Fits(op'[p], made', snapshots')
    OBVIOUS
  <2>1. CASE p = o
    BY <1>2, <2>1 DEF IInv, TypeOK
  <2>2. CASE p # o
    <3>1. op'[p] = op[p] /\ Fits(op[p], made, snapshots)
      BY <1>2, <2>2 DEF IInv, TypeOK
    <3>2. /\ made \in SUBSET Flows /\ snapshots \in [Flows -> Seq(Definitions)]
          /\ made' \in SUBSET Flows /\ snapshots' \in [Flows -> Seq(Definitions)]
          /\ made \subseteq made' /\ \A f \in Flows : Len(snapshots[f]) <= Len(snapshots'[f])
      BY <1>1 DEF StepFits, IInv, TypeOK
    <3>3. QED
      BY <3>1, <3>2, FitsOn
  <2>3. QED
    BY <2>1, <2>2
<1>4. op' \in [Ops -> Requests]
  BY <1>2 DEF Fits, IInv, TypeOK
<1>5. \A p \in Ops :
        /\ op'[p].pc = "off" <=> op'[p] = Off
        /\ op'[p].pc = "snapshot" => op'[p].version \in 1..(Len(snapshots'[op'[p].flow]) + 1)
  BY <1>3 DEF Fits
<1>6. TypeOK'
  BY <1>1, <1>4, <1>5, PastTypes DEF TypeOK, StepFits
<1>7. \A f \in Flows : Loaded'[f] # None => f \in made'
  BY <1>1 DEF StepFits
<1>8. QED
  BY <1>3, <1>6, <1>7, ApartNext, NumberNext DEF IInv

LEMMA CrashKeeps ==
  ASSUME IInv, Remember, Crash
  PROVE  IInv'
<1>1. op' = [o \in Ops |-> Off] /\ UNCHANGED <<index, snapshots, made>>
  BY DEF Crash
<1>2. /\ op' \in [Ops -> Requests] /\ \A o \in Ops : op'[o] = Off /\ op'[o].pc = "off"
      /\ \A o \in Ops : Fits(op'[o], made', snapshots')
  BY <1>1, ConstantFacts, OffFits DEF Off
<1>3. requests' \in 0..MaxRequests /\ crashes' \in 0..MaxCrashes
  BY ConstantFacts DEF Crash, IInv, TypeOK
<1>4. TypeOK'
  BY <1>1, <1>2, <1>3, PastTypes DEF IInv, TypeOK
<1>5. \A f \in Flows : Loaded'[f] # None => f \in made'
  BY <1>1 DEF IInv, Loaded
<1>6. NumberIsNext'
  BY <1>2 DEF NumberIsNext
<1>7. QED
  BY <1>2, <1>4, <1>5, <1>6, ApartNext DEF IInv

LEMMA StutterKeeps == ASSUME IInv, UNCHANGED vars PROVE IInv'
BY DEF IInv, TypeOK, Apart, NumberIsNext, Loaded, vars, past

LEMMA NextKeeps == IInv /\ [Next]_vars => IInv'
BY StepKeeps, CrashKeeps, StutterKeeps DEF Next

LEMMA InitIInv == Init => IInv
<1> SUFFICES ASSUME Init PROVE IInv
  OBVIOUS
<1>1. /\ latest \in [Flows -> {None} \cup Definitions]
      /\ \A f \in Flows : latest[f] # None => latest[f] \in Definitions
  BY DEF Init, Accepted
<1>2. index \in Indexes /\ \A f \in Flows : index[f] # None => f \in made
  BY <1>1 DEF Init, Indexes, Stored
<1>3. /\ snapshots \in [Flows -> Seq(Definitions)]
      /\ made \subseteq Flows /\ \A f \in Flows \ made : snapshots[f] = << >>
  BY <1>1 DEF Init
<1>4. /\ op \in [Ops -> Requests] /\ \A o \in Ops : op[o] = Off /\ op[o].pc = "off"
      /\ \A o \in Ops : Fits(op[o], made, snapshots)
  BY ConstantFacts, OffFits DEF Init, Off
<1>5. /\ requests \in 0..MaxRequests /\ crashes \in 0..MaxCrashes
      /\ crossed \subseteq Ops /\ stale \subseteq Ops
      /\ unchecked \cup unstamped \subseteq Flows /\ orderly \in BOOLEAN
  BY ConstantFacts DEF Init
<1>6. TypeOK
  BY <1>1, <1>2, <1>3, <1>4, <1>5 DEF TypeOK
<1>7. \A f \in Flows : Loaded[f] # None => f \in made
  BY <1>2, ConstantFacts DEF Loaded
<1>8. Apart /\ NumberIsNext
  BY <1>4 DEF Apart, NumberIsNext, Meet, Off
<1>9. QED
  BY <1>4, <1>6, <1>7, <1>8 DEF IInv

THEOREM InvariantHolds == Spec => []IInv
<1>1. QED
  BY InitIInv, NextKeeps, PTL DEF Spec

(* Type correctness of the index, the snapshots and the requests about     *)
(* them: among others, the snapshots of a flow are numbered without gaps,  *)
(* and a number is taken at most once more than it is used.                *)
THEOREM TypesHold == Spec => []TypeOK
<1>1. IInv => TypeOK
  BY DEF IInv
<1>2. QED
  BY <1>1, InvariantHolds, PTL

(* Snapshots are immutable (flowVersionStore.js): once written, neither    *)
(* its number nor its contents change, whatever is requested, deleted or   *)
(* interrupted, unless two requests about the flow are under way.          *)
THEOREM SnapshotsHold == Spec => SnapshotsNeverChange
<1>1. IInv /\ [Next]_vars => [SnapshotsStay]_vars
  <2> SUFFICES ASSUME IInv, [Next]_vars PROVE SnapshotsStay
    OBVIOUS
  <2>1. CASE \E o \in Ops : RecordSnapshot(o)
    <3>1. PICK o \in Ops : RecordSnapshot(o)
      BY <2>1
    <3> SUFFICES ASSUME NEW f \in Flows, ~\E q \in crossed : op[q].flow = f
                 PROVE  /\ Len(snapshots[f]) <= Len(snapshots'[f])
                        /\ \A n \in DOMAIN snapshots[f] : snapshots'[f][n] = snapshots[f][n]
      BY DEF SnapshotsStay
    <3>2. snapshots[f] \in Seq(Definitions) /\ Len(snapshots[f]) \in Nat
      BY DEF IInv, TypeOK
    <3>3. CASE f # op[o].flow
      BY <3>1, <3>2, <3>3, SnapshotAdded
    <3>4. CASE f = op[o].flow
      <4>1. o \notin crossed /\ op[o].pc = "snapshot"
        BY <3>1, <3>4 DEF RecordSnapshot
      <4>2. op[o].version = Len(snapshots[f]) + 1
        BY <3>4, <4>1 DEF IInv, NumberIsNext
      <4>3. /\ Len(snapshots[f]) <= Len(snapshots'[f])
            /\ \A i \in 1..Len(snapshots[f]) :
                 i # op[o].version => snapshots'[f][i] = snapshots[f][i]
        BY <3>1, <3>4, SnapshotAdded
      <4>4. DOMAIN snapshots[f] = 1..Len(snapshots[f])
        BY <3>2
      <4>5. \A i \in 1..Len(snapshots[f]) : i # Len(snapshots[f]) + 1
        BY <3>2
      <4>6. QED
        BY <4>2, <4>3, <4>4, <4>5
    <3>5. QED
      BY <3>3, <3>4
  <2>2. CASE ~\E o \in Ops : RecordSnapshot(o)
    <3>1. UNCHANGED snapshots
      <4>1. ASSUME NEW o \in Ops, Step(o) PROVE UNCHANGED snapshots
        BY <2>2, <4>1 DEF Step, LoadToUpdate, WriteIndex, IndexWritten, NextVersion, Stamp
      <4>2. ASSUME NEW o \in Ops, NEW f \in Flows, Request(o, f) PROVE UNCHANGED snapshots
        BY <4>2 DEF Request, Create, Put, ToolUpdate, Rollback, Delete, Starts
      <4>3. CASE Crash \/ UNCHANGED vars
        BY <4>3 DEF Crash, vars
      <4>4. QED
        BY <4>1, <4>2, <4>3 DEF Next
    <3>2. QED
      BY <3>1 DEF SnapshotsStay, IInv, TypeOK
  <2>3. QED
    BY <2>1, <2>2
<1>2. QED
  BY <1>1, InvariantHolds, PTL DEF Spec, SnapshotsNeverChange
-----------------------------------------------------------------------------
(* Requests that use the index beside no other are stale from the step on  *)
(* in which they do.                                                       *)
Alone == \A o \in Ops \ stale : \A p \in Ops \ {o} : ~BothUseIndex(op[o], op[p])

(* While all is orderly, the index holds what was last written, and so do  *)
(* the copies of it that will replace it.                                  *)
DefOf(v) == IF v = None THEN None ELSE v.def
Writing(r) == r.pc \in {"writeEnd", "restampEnd"}
Orderly ==
  orderly =>
    /\ stale = {}
    /\ index = Torn <=> \E o \in Ops : Writing(op[o])
    /\ index # Torn => \A f \in Flows : latest[f] = DefOf(index[f])
    /\ \A o \in Ops : UsesIndex(op[o]) =>
         \A f \in Flows : (f # op[o].flow \/ op[o].pc \in {"restamp", "restampEnd"})
                            => latest[f] = DefOf(op[o].copy[f])

(* The version of a flow tells its definition, or a request is about to    *)
(* give it one.                                                            *)
Tells(shots, f, n, def) == n \in DOMAIN shots[f] /\ shots[f][n] = def
Stamping(r) == r.pc \in {"record", "snapshot", "stamp", "restamp", "restampEnd"}
Sound(shots, reqs, f, v) ==
  \/ v = None \/ v.version = 0 \/ Tells(shots, f, v.version, v.def)
  \/ \E o \in Ops : reqs[o].flow = f /\ Stamping(reqs[o])
IndexSound ==
  index # Torn => \A f \in Flows \ unstamped : Sound(snapshots, op, f, index[f])
CopiesSound ==
  \A o \in Ops \ stale : UsesIndex(op[o]) =>
    \A f \in Flows \ unstamped : f # op[o].flow => Sound(snapshots, op, f, op[o].copy[f])

(* What a request that met no other wrote stays until it is stamped with   *)
(* the number of its snapshot.                                             *)
Has(v, def) == v = None \/ v.def = def
Recorded ==
  \A o \in Ops \ crossed : op[o].pc = "stamp"
    => Tells(snapshots, op[o].flow, op[o].version, op[o].copy[op[o].flow].def)
Current ==
  \A o \in Ops \ (crossed \cup stale) : op[o].pc \in {"record", "snapshot", "stamp"} =>
    LET f == op[o].flow  def == op[o].copy[f].def IN
    /\ index # Torn => Has(index[f], def)
    /\ \A p \in Ops \ {o} : UsesIndex(op[p]) => Has(op[p].copy[f], def)
Restamped ==
  \A o \in Ops \ (crossed \cup stale) : op[o].pc \in {"restamp", "restampEnd"} =>
    LET v == op[o].copy[op[o].flow] IN Tells(snapshots, op[o].flow, v.version, v.def)

(* Flows written by requests that set no version.                          *)
RolledBack ==
  \A o \in Ops : op[o].kind = "rollback" /\ op[o].pc \in {"record", "snapshot"}
    => op[o].flow \in unstamped
Unnumbered(r) ==
  LET v == r.copy[r.flow] IN
  /\ r.pc = "load" => r.kind \in {"put", "rollback", "toolUpdate"}
  /\ r.pc \in {"write", "writeEnd"} =>
       r.kind \in {"create", "put", "rollback", "toolUpdate"} \/ v = None \/ v.version = 0

Versions ==
  /\ IndexSound /\ CopiesSound /\ Recorded /\ Current /\ Restamped
  /\ RolledBack /\ \A o \in Ops : Unnumbered(op[o])
-----------------------------------------------------------------------------
(* The steps of a request, as the properties see them: what becomes of the *)
(* request, the index and the snapshots.                                   *)
StartMove(o, f) ==
  /\ op[o].pc = "off" /\ op'[o].flow = f
  /\ op'[o].pc \in {"load", "write"} /\ Unnumbered(op'[o])
  /\ op'[o].pc = "write" => \A g \in Flows : g # f => op'[o].copy[g] = Loaded[g]
  /\ UNCHANGED <<index, snapshots>>
LoadMove(o) ==
  /\ op[o].pc = "load"
  /\ \/ op'[o].pc = "off"
     \/ /\ op'[o].pc = "write" /\ op'[o].flow = op[o].flow /\ op'[o].kind = op[o].kind
        /\ \A g \in Flows : g # op[o].flow => op'[o].copy[g] = Loaded[g]
  /\ UNCHANGED <<index, snapshots>>
WriteMove(o) ==
  /\ \/ op[o].pc = "write" /\ op'[o].pc = "writeEnd"
     \/ op[o].pc = "restamp" /\ op'[o].pc = "restampEnd"
  /\ op'[o].flow = op[o].flow /\ op'[o].kind = op[o].kind /\ op'[o].copy = op[o].copy
  /\ index' = Torn /\ UNCHANGED snapshots
WrittenMove(o) ==
  /\ op[o].pc \in {"writeEnd", "restampEnd"}
  /\ index' \in {op[o].copy, Torn} /\ (index = Torn => index' = op[o].copy)
  /\ IF op[o].pc = "writeEnd" /\ op[o].kind \in {"create", "put", "rollback"}
     THEN /\ op'[o].pc = "record" /\ op'[o].flow = op[o].flow /\ op'[o].kind = op[o].kind
          /\ op'[o].copy[op[o].flow] = op[o].copy[op[o].flow]
     ELSE op'[o].pc = "off"
  /\ UNCHANGED snapshots
NumberMove(o) ==
  /\ op[o].pc = "record" /\ op'[o].pc = "snapshot"
  /\ op'[o].flow = op[o].flow /\ op'[o].kind = op[o].kind /\ op'[o].copy = op[o].copy
  /\ UNCHANGED <<index, snapshots>>
SnapshotMove(o) ==
  LET f == op[o].flow IN
  /\ op[o].pc = "snapshot"
  /\ IF op[o].kind = "rollback" THEN op'[o].pc = "off"
     ELSE /\ op'[o].pc = "stamp" /\ op'[o].flow = f /\ op'[o].kind = op[o].kind
          /\ op'[o].copy = op[o].copy /\ op'[o].version = op[o].version
  /\ \A g \in Flows : g # f => snapshots'[g] = snapshots[g]
  /\ op[o].version \in DOMAIN snapshots'[f] /\ snapshots'[f][op[o].version] = op[o].copy[f].def
  /\ UNCHANGED index
StampMove(o) ==
  LET f == op[o].flow IN
  /\ op[o].pc = "stamp"
  /\ \/ op'[o] = Off /\ op'[o].pc = "off"
     \/ /\ Loaded[f] # None /\ op'[o].pc = "restamp" /\ op'[o].flow = f
        /\ \A g \in Flows : g # f => op'[o].copy[g] = Loaded[g]
        /\ op'[o].copy[f] # None
        /\ op'[o].copy[f].def = Loaded[f].def /\ op'[o].copy[f].version = op[o].version
  /\ UNCHANGED <<index, snapshots>>

LEMMA StartMoves ==
  ASSUME IInv, NEW o \in Ops, NEW f \in Flows, Request(o, f)
  PROVE  StartMove(o, f)
<1>1. op[o].pc = "off" /\ Loaded \in Indexes /\ op \in [Ops -> Requests]
  BY LoadedIsIndex DEF IInv, TypeOK, Request
<1>2. ASSUME NEW kind, NEW p, NEW pc \in {"load", "write"}, NEW v,
             Starts(o, kind, f, p, pc, v),
             pc = "load" => kind \in {"put", "rollback", "toolUpdate"},
             pc = "write" => \/ kind \in {"create", "put", "rollback", "toolUpdate"}
                             \/ v[f] = None \/ v[f].version = 0,
             pc = "write" => \A g \in Flows : g # f => v[g] = Loaded[g]
      PROVE  StartMove(o, f)
  <2>1. /\ op'[o] = [kind |-> kind, flow |-> f, pc |-> pc, patch |-> p, copy |-> v, version |-> 0]
        /\ UNCHANGED <<index, snapshots>>
    BY <1>1, <1>2 DEF Starts, Becomes
  <2>2. op'[o].flow = f /\ op'[o].pc = pc /\ op'[o].copy = v /\ op'[o].kind = kind
    BY <2>1
  <2>3. Unnumbered(op'[o])
    BY <1>2, <2>2 DEF Unnumbered
  <2>4. QED
    BY <1>1, <1>2, <2>1, <2>2, <2>3 DEF StartMove
<1>3. ASSUME NEW v PROVE /\ \A g \in Flows : g # f => [Loaded EXCEPT ![f] = v][g] = Loaded[g]
                         /\ [Loaded EXCEPT ![f] = v][f] = v
  BY <1>1 DEF Indexes
<1>4. ASSUME NEW p \in Patches, NEW kind, Create(o, f, p, kind) PROVE StartMove(o, f)
  <2> DEFINE new == [def |-> Patched(NoNodes, p), version |-> 0]
  <2>1. new.version = 0
    OBVIOUS
  <2>2. Starts(o, kind, f, p, "write", [Loaded EXCEPT ![f] = new])
    BY <1>4 DEF Create
  <2> HIDE DEF new
  <2>3. QED
    BY <1>2, <1>3, <2>1, <2>2
<1>5. ASSUME NEW p \in Patches, Put(o, f, p) \/ ToolUpdate(o, f, p) PROVE StartMove(o, f)
  <2>1. PICK kind \in {"put", "toolUpdate"} : Starts(o, kind, f, p, "load", Empty)
    BY <1>5 DEF Put, ToolUpdate
  <2>2. QED
    BY <1>2, <2>1
<1>6. ASSUME NEW n, Rollback(o, f, n) PROVE StartMove(o, f)
  BY <1>2, <1>6 DEF Rollback
<1>7. CASE Delete(o, f)
  <2> DEFINE v == [Loaded EXCEPT ![f] = None]
  <2>1. Starts(o, "delete", f, None, "write", v) /\ UNCHANGED made
    BY <1>7 DEF Delete
  <2>2. (\A g \in Flows : g # f => v[g] = Loaded[g]) /\ v[f] = None
    BY <1>3
  <2> HIDE DEF v
  <2>3. QED
    BY <1>2, <2>1, <2>2
<1>8. QED
  BY <1>4, <1>5, <1>6, <1>7 DEF Request

LEMMA LoadMoves ==
  ASSUME IInv, NEW o \in Ops, LoadToUpdate(o)
  PROVE  LoadMove(o)
<1> DEFINE f == op[o].flow
           v == [Loaded EXCEPT ![f].def = Patched(@, op[o].patch)]
           r == [op[o] EXCEPT !.pc = "write", !.patch = None, !.copy = v]
<1>1. /\ Loaded \in Indexes /\ op \in [Ops -> Requests] /\ op[o] \in Requests
      /\ op[o].pc = "load" /\ UNCHANGED <<index, snapshots>>
  BY LoadedIsIndex DEF IInv, TypeOK, LoadToUpdate
<1>2. CASE Loaded[f] = None
  BY <1>1, <1>2 DEF LoadToUpdate, LoadMove, Ended, Becomes, Off
<1>3. CASE Loaded[f] # None
  <2>1. op'[o] = r
    BY <1>1, <1>3 DEF LoadToUpdate, Becomes
  <2>2. \A g \in Flows : g # f => v[g] = Loaded[g]
    BY <1>1 DEF Indexes
  <2> HIDE DEF v
  <2>3. r.pc = "write" /\ r.flow = f /\ r.copy = v /\ r.kind = op[o].kind
    BY <1>1 DEF Requests
  <2>4. QED
    BY <1>1, <2>1, <2>2, <2>3 DEF LoadMove
<1>4. QED
  BY <1>2, <1>3

LEMMA WriteMoves ==
  ASSUME IInv, NEW o \in Ops, WriteIndex(o)
  PROVE  WriteMove(o)
<1> DEFINE pc == IF op[o].pc = "write" THEN "writeEnd" ELSE "restampEnd"
           r == [op[o] EXCEPT !.pc = pc]
<1>1. op \in [Ops -> Requests] /\ op[o] \in Requests /\ op[o].pc \in {"write", "restamp"}
  BY DEF IInv, TypeOK, WriteIndex
<1>2. op'[o] = r /\ index' = Torn /\ UNCHANGED snapshots
  BY <1>1 DEF WriteIndex, Goes
<1>3. r.pc = pc /\ r.flow = op[o].flow /\ r.kind = op[o].kind /\ r.copy = op[o].copy
  BY <1>1 DEF Requests
<1> HIDE DEF r
<1>4. QED
  BY <1>1, <1>2, <1>3 DEF WriteMove

LEMMA WrittenMoves ==
  ASSUME IInv, NEW o \in Ops, IndexWritten(o)
  PROVE  WrittenMove(o)
<1> DEFINE f == op[o].flow
           v == [g \in Flows |-> IF g = f THEN op[o].copy[g] ELSE None]
           r == [op[o] EXCEPT !.pc = "record", !.patch = None, !.copy = v]
<1>1. /\ op \in [Ops -> Requests] /\ op[o] \in Requests /\ op[o].pc \in {"writeEnd", "restampEnd"}
      /\ Fits(op[o], made, snapshots) /\ UNCHANGED snapshots
  BY DEF IInv, TypeOK, IndexWritten
<1>2. f \in Flows
  BY <1>1 DEF IInv, TypeOK, Fits
<1>3. index' \in {op[o].copy, Torn} /\ (index = Torn => index' = op[o].copy)
  BY DEF IndexWritten
<1>4. CASE op[o].pc = "writeEnd" /\ op[o].kind \in {"create", "put", "rollback"}
  <2>1. r = [op[o] EXCEPT !.pc = "record", !.patch = None,
               !.copy = [g \in Flows |-> IF g = op[o].flow THEN @[g] ELSE None]]
    OBVIOUS
  <2>2. op'[o] = r
    BY <1>1, <1>4, <2>1 DEF IndexWritten, Becomes
  <2>3. v[f] = op[o].copy[f]
    BY <1>2
  <2> HIDE DEF v
  <2>4. r.pc = "record" /\ r.flow = f /\ r.kind = op[o].kind /\ r.copy = v
    BY <1>1 DEF Requests
  <2> HIDE DEF r
  <2>5. QED
    BY <1>1, <1>3, <1>4, <2>2, <2>3, <2>4 DEF WrittenMove
<1>5. CASE ~(op[o].pc = "writeEnd" /\ op[o].kind \in {"create", "put", "rollback"})
  <2>1. op'[o] = Off /\ Off.pc = "off"
    BY <1>1, <1>5 DEF IndexWritten, Ended, Becomes, Off
  <2>2. QED
    BY <1>1, <1>3, <1>5, <2>1 DEF WrittenMove
<1>6. QED
  BY <1>4, <1>5

LEMMA NumberMoves ==
  ASSUME IInv, NEW o \in Ops, NextVersion(o)
  PROVE  NumberMove(o)
<1> DEFINE r == [op[o] EXCEPT !.pc = "snapshot", !.version = Len(snapshots[op[o].flow]) + 1]
<1>1. op \in [Ops -> Requests] /\ op[o] \in Requests /\ op[o].pc = "record"
  BY DEF IInv, TypeOK, NextVersion
<1>2. op'[o] = r /\ UNCHANGED <<index, snapshots>>
  BY <1>1 DEF NextVersion, Becomes
<1>3. r.pc = "snapshot" /\ r.flow = op[o].flow /\ r.kind = op[o].kind /\ r.copy = op[o].copy
  BY <1>1 DEF Requests
<1> HIDE DEF r
<1>4. QED
  BY <1>1, <1>2, <1>3 DEF NumberMove

LEMMA SnapshotMoves ==
  ASSUME IInv, NEW o \in Ops, RecordSnapshot(o)
  PROVE  SnapshotMove(o)
<1> DEFINE f == op[o].flow
           n == op[o].version
           len == IF n > Len(snapshots[f]) THEN n ELSE Len(snapshots[f])
           new == [i \in 1..len |-> IF i = n THEN op[o].copy[f].def ELSE snapshots[f][i]]
           r == [op[o] EXCEPT !.pc = "stamp"]
<1>1. op \in [Ops -> Requests] /\ op[o] \in Requests /\ op[o].pc = "snapshot" /\ UNCHANGED index
  BY DEF IInv, TypeOK, RecordSnapshot
<1>2. /\ f \in Flows /\ n \in 1..(Len(snapshots[f]) + 1) /\ Len(snapshots[f]) \in Nat
      /\ \A g \in Flows : g # f => snapshots'[g] = snapshots[g]
  BY SnapshotAdded DEF IInv, TypeOK
<1>3. snapshots' = [snapshots EXCEPT ![f] = new]
  BY DEF RecordSnapshot
<1>4. snapshots'[f] = new
  BY <1>2, <1>3 DEF IInv, TypeOK
<1>5. n \in 1..len /\ DOMAIN new = 1..len /\ new[n] = op[o].copy[f].def
  BY <1>2
<1> HIDE DEF new, len
<1>6. n \in DOMAIN snapshots'[f] /\ snapshots'[f][n] = op[o].copy[f].def
  BY <1>4, <1>5
<1>7. CASE op[o].kind = "rollback"
  <2>1. op'[o].pc = "off"
    BY <1>1, <1>7 DEF RecordSnapshot, Ended, Becomes, Off
  <2>2. QED
    BY <1>1, <1>2, <1>6, <1>7, <2>1 DEF SnapshotMove
<1>8. CASE op[o].kind # "rollback"
  <2>1. op'[o] = r
    BY <1>1, <1>8 DEF RecordSnapshot, Goes
  <2>2. r.pc = "stamp" /\ r.flow = f /\ r.kind = op[o].kind /\ r.copy = op[o].copy /\ r.version = n
    BY <1>1 DEF Requests
  <2> HIDE DEF r
  <2>3. QED
    BY <1>1, <1>2, <1>6, <1>8, <2>1, <2>2 DEF SnapshotMove
<1>9. QED
  BY <1>7, <1>8

LEMMA StampMoves ==
  ASSUME IInv, NEW o \in Ops, Stamp(o)
  PROVE  StampMove(o)
<1> DEFINE f == op[o].flow
           v == [Loaded EXCEPT ![f].version = op[o].version]
           r == [op[o] EXCEPT !.pc = "restamp", !.version = 0, !.copy = v]
<1>1. /\ Loaded \in Indexes /\ op \in [Ops -> Requests] /\ op[o] \in Requests
      /\ op[o].pc = "stamp" /\ UNCHANGED <<index, snapshots>>
      /\ Fits(op[o], made, snapshots)
  BY LoadedIsIndex DEF IInv, TypeOK, Stamp
<1>2. f \in Flows
  BY <1>1 DEF IInv, TypeOK, Fits
<1>3. CASE Loaded[f] = None
  BY <1>1, <1>3 DEF Stamp, StampMove, Ended, Becomes, Off
<1>4. CASE Loaded[f] # None
  <2>1. op'[o] = r
    BY <1>1, <1>4 DEF Stamp, Becomes
  <2>2. Loaded[f] \in Stored
    BY <1>1, <1>2, <1>4 DEF Indexes
  <2>3. PICK new : new = [Loaded[f] EXCEPT !.version = op[o].version]
    OBVIOUS
  <2>4. /\ new \in Stored /\ new.def = Loaded[f].def /\ new.version = op[o].version
    BY <1>1, <2>2, <2>3 DEF Stored, Requests
  <2>5. v = [Loaded EXCEPT ![f] = new]
    BY <2>3
  <2>6. v[f] = new /\ new # None /\ \A g \in Flows : g # f => v[g] = Loaded[g]
    BY <1>1, <1>2, <2>4, <2>5, ConstantFacts DEF Indexes
  <2> HIDE DEF v
  <2>7. r.pc = "restamp" /\ r.flow = f /\ r.copy = v
    BY <1>1 DEF Requests
  <2> HIDE DEF r
  <2>8. QED
    BY <1>1, <1>4, <2>1, <2>4, <2>6, <2>7 DEF StampMove
<1>5. QED
  BY <1>3, <1>4

LEMMA Moves ==
  ASSUME IInv, NEW o \in Ops, Step(o) \/ \E f \in Flows : Request(o, f)
  PROVE  \/ \E f \in Flows : StartMove(o, f)
         \/ LoadMove(o) \/ WriteMove(o) \/ WrittenMove(o)
         \/ NumberMove(o) \/ SnapshotMove(o) \/ StampMove(o)
BY StartMoves, LoadMoves, WriteMoves, WrittenMoves, NumberMoves, SnapshotMoves, StampMoves DEF Step
-----------------------------------------------------------------------------
LEMMA TornIsNoIndex == Torn \notin Indexes
BY FlowStoreAssumption DEF Indexes

(* Only the request that steps changes, and only it can write.             *)
LEMMA OneSteps ==
  ASSUME IInv, NEW o \in Ops, Step(o) \/ \E f \in Flows : Request(o, f)
  PROVE  /\ \A p \in Ops \ {o} : op'[p] = op[p]
         /\ ~Crashes
         /\ \A f \in Flows : \A p \in Written(f) : p = o
<1>1. \A p \in Ops \ {o} : op'[p] = op[p]
  BY StepOrRequestFits DEF StepFits, IInv, TypeOK
<1>2. crashes' = crashes
  BY DEF Step, Request, Create, Put, ToolUpdate, Rollback, Delete, Starts,
         LoadToUpdate, WriteIndex, IndexWritten, NextVersion, RecordSnapshot, Stamp
<1>3. QED
  BY <1>1, <1>2 DEF Crashes, Written, Writes, Leaves

LEMMA LatestNext ==
  ASSUME IInv, Remember, NEW o \in Ops, Step(o) \/ \E f \in Flows : Request(o, f),
         NEW f \in Flows
  PROVE  latest'[f] = IF op[o].pc = "writeEnd" /\ op'[o].pc # "writeEnd" /\ op[o].flow = f
                      THEN DefOf(op[o].copy[f]) ELSE latest[f]
<1>1. /\ ~Crashes /\ \A p \in Written(f) : p = o
  BY OneSteps
<1>2. latest'[f] = IF \E p \in Written(f) : op[p].pc = "writeEnd"
                   THEN LET p == CHOOSE p \in Written(f) : TRUE
                        IN IF op[p].copy[f] = None THEN None ELSE op[p].copy[f].def
                   ELSE latest[f]
  BY DEF Remember
<1>3. CASE op[o].pc = "writeEnd" /\ op'[o].pc # "writeEnd" /\ op[o].flow = f
  <2>1. o \in Written(f)
    BY <1>1, <1>3 DEF Written, Writes, Leaves
  <2>2. (CHOOSE p \in Written(f) : TRUE) = o
    BY <1>1, <2>1
  <2>3. QED
    BY <1>2, <1>3, <2>1, <2>2 DEF DefOf
<1>4. CASE ~(op[o].pc = "writeEnd" /\ op'[o].pc # "writeEnd" /\ op[o].flow = f)
  <2>1. ~\E p \in Written(f) : op[p].pc = "writeEnd"
    BY <1>1, <1>4 DEF Written, Writes, Leaves
  <2>2. QED
    BY <1>2, <1>4, <2>1
<1>5. QED
  BY <1>3, <1>4

LEMMA OrderlyNext ==
  ASSUME IInv, Remember, orderly'
  PROVE  /\ orderly /\ stale' = {} /\ (Crashes => index # Torn)
         /\ \A o, p \in Ops : UsesIndex(op'[o]) /\ UsesIndex(op'[p]) => o = p
<1>1. orderly /\ stale' = {} /\ (Crashes => index # Torn)
  BY DEF Remember
<1>2. \A o, p \in Ops : UsesIndex(op'[o]) /\ UsesIndex(op'[p]) /\ o # p => o \in stale'
  <2>1. ~UsesIndex(Off)
    BY DEF UsesIndex, Off
  <2>2. QED
    BY <2>1 DEF Remember, Collided, BothUseIndex
<1>3. QED
  BY <1>1, <1>2

(* A request that has just read the index is alone with it, so it read it  *)
(* whole.                                                                  *)
LEMMA ReadWhole ==
  ASSUME IInv, Orderly, Remember, orderly', NEW o \in Ops,
         \A p \in Ops \ {o} : op'[p] = op[p], ~Writing(op[o]), UsesIndex(op'[o])
  PROVE  index # Torn /\ \A f \in Flows : latest[f] = DefOf(Loaded[f])
<1>1. ~\E p \in Ops : Writing(op[p])
  <2> SUFFICES ASSUME NEW p \in Ops, Writing(op[p]) PROVE FALSE
    OBVIOUS
  <2>1. p # o /\ UsesIndex(op'[p])
    BY DEF Writing, UsesIndex
  <2>2. QED
    BY <2>1, OrderlyNext
<1>2. QED
  BY <1>1, OrderlyNext DEF Orderly, Loaded

(* Reads: the copy differs from the index on the request's flow alone.     *)
LEMMA ReadingOrderly ==
  ASSUME IInv, Orderly, Remember, orderly', NEW o \in Ops,
         Step(o) \/ \E g \in Flows : Request(o, g),
         ~UsesIndex(op[o]), ~Writing(op'[o]), UNCHANGED index,
         UsesIndex(op'[o]) =>
           \A g \in Flows : (g # op'[o].flow \/ op'[o].pc = "restamp")
                              => DefOf(op'[o].copy[g]) = DefOf(Loaded[g])
  PROVE  Orderly'
<1>1. \A p \in Ops \ {o} : op'[p] = op[p]
  BY OneSteps
<1>2. \A g \in Flows : latest'[g] = latest[g]
  BY LatestNext DEF UsesIndex
<1>3. ~Writing(op[o])
  BY DEF UsesIndex, Writing
<1>4. UsesIndex(op'[o]) => \A g \in Flows : latest[g] = DefOf(Loaded[g])
  BY <1>1, <1>3, ReadWhole
<1>5. index = Torn <=> \E p \in Ops : Writing(op[p])
  BY OrderlyNext DEF Orderly
<1>6. index' = Torn <=> \E p \in Ops : Writing(op'[p])
  BY <1>1, <1>3, <1>5
<1>7. index' # Torn => \A g \in Flows : latest'[g] = DefOf(index'[g])
  BY <1>2, OrderlyNext DEF Orderly
<1>8. ASSUME NEW p \in Ops, UsesIndex(op'[p]), NEW g \in Flows,
             g # op'[p].flow \/ op'[p].pc \in {"restamp", "restampEnd"}
      PROVE  latest'[g] = DefOf(op'[p].copy[g])
  <2>1. CASE p = o
    <3>1. op'[o].pc # "restampEnd"
      BY DEF Writing
    <3>2. QED
      BY <1>2, <1>4, <1>8, <2>1, <3>1
  <2>2. CASE p # o
    BY <1>1, <1>2, <1>8, <2>2, OrderlyNext DEF Orderly
  <2>3. QED
    BY <2>1, <2>2
<1>9. QED
  BY <1>6, <1>7, <1>8, OrderlyNext DEF Orderly

LEMMA WriteOrderly ==
  ASSUME IInv, Orderly, Remember, orderly', NEW o \in Ops, WriteIndex(o), WriteMove(o)
  PROVE  Orderly'
<1>0. Step(o)
  BY DEF Step
<1>1. \A p \in Ops \ {o} : op'[p] = op[p]
  BY <1>0, OneSteps
<1>2. \A g \in Flows : latest'[g] = latest[g]
  BY <1>0, LatestNext DEF WriteMove
<1>3. index' = Torn /\ Writing(op'[o]) /\ UsesIndex(op'[o]) /\ UsesIndex(op[o])
  BY DEF WriteMove, Writing, UsesIndex
<1>4. \A p \in Ops : UsesIndex(op'[p]) => p = o
  BY <1>3, OrderlyNext
<1>5. ASSUME NEW g \in Flows, g # op'[o].flow \/ op'[o].pc \in {"restamp", "restampEnd"}
      PROVE  latest'[g] = DefOf(op'[o].copy[g])
  BY <1>2, <1>3, <1>5, OrderlyNext DEF Orderly, WriteMove
<1>6. QED
  BY <1>3, <1>4, <1>5, OrderlyNext DEF Orderly

LEMMA WrittenOrderly ==
  ASSUME IInv, Alone, Orderly, Remember, orderly', NEW o \in Ops, IndexWritten(o), WrittenMove(o)
  PROVE  Orderly'
<1>0. Step(o)
  BY DEF Step
<1>1. \A p \in Ops \ {o} : op'[p] = op[p]
  BY <1>0, OneSteps
<1>2. /\ index = Torn /\ stale = {} /\ UsesIndex(op[o]) /\ index' = op[o].copy
      /\ ~UsesIndex(op'[o]) /\ ~Writing(op'[o])
  BY OrderlyNext DEF Orderly, WrittenMove, Writing, UsesIndex
<1>3. \A p \in Ops : ~UsesIndex(op'[p]) /\ ~Writing(op'[p])
  BY <1>1, <1>2 DEF Alone, BothUseIndex, Writing, UsesIndex
<1>4. op[o].copy \in Indexes
  BY <1>2 DEF IInv, TypeOK, Requests
<1>5. ASSUME NEW f \in Flows PROVE latest'[f] = DefOf(index'[f])
  <2>1. CASE f = op[o].flow /\ op[o].pc = "writeEnd"
    <3>1. op'[o].pc # "writeEnd"
      BY <1>2 DEF UsesIndex
    <3>2. QED
      BY <1>0, <1>2, <2>1, <3>1, LatestNext
  <2>2. CASE ~(f = op[o].flow /\ op[o].pc = "writeEnd")
    <3>1. latest'[f] = latest[f]
      BY <1>0, <2>2, LatestNext
    <3>2. latest[f] = DefOf(op[o].copy[f])
      BY <1>2, <2>2, OrderlyNext DEF Orderly, WrittenMove
    <3>3. QED
      BY <1>2, <3>1, <3>2
  <2>3. QED
    BY <2>1, <2>2
<1>6. index' # Torn
  BY <1>2, <1>4, TornIsNoIndex
<1>7. QED
  BY <1>3, <1>5, <1>6, OrderlyNext DEF Orderly

LEMMA StepOrderly ==
  ASSUME IInv, Alone, Orderly, Remember, orderly', NEW o \in Ops,
         Step(o) \/ \E f \in Flows : Request(o, f)
  PROVE  Orderly'
<1>1. Loaded \in Indexes
  BY LoadedIsIndex DEF IInv
<1>2. ASSUME NEW f \in Flows, Request(o, f) PROVE Orderly'
  <2>1. StartMove(o, f)
    BY <1>2, StartMoves
  <2>2. ~UsesIndex(op[o]) /\ ~Writing(op'[o]) /\ UNCHANGED index
    BY <2>1 DEF StartMove, UsesIndex, Writing
  <2>3. ASSUME UsesIndex(op'[o]), NEW g \in Flows, g # op'[o].flow \/ op'[o].pc = "restamp"
        PROVE  DefOf(op'[o].copy[g]) = DefOf(Loaded[g])
    BY <2>1, <2>3 DEF StartMove, UsesIndex
  <2>4. QED
    BY <1>2, <2>2, <2>3, ReadingOrderly
<1>3. CASE LoadToUpdate(o)
  <2>1. LoadMove(o) /\ Step(o)
    BY <1>3, LoadMoves DEF Step
  <2>2. QED
    BY <2>1, ReadingOrderly DEF LoadMove, UsesIndex, Writing
<1>4. CASE WriteIndex(o)
  BY <1>4, WriteMoves, WriteOrderly
<1>5. CASE IndexWritten(o)
  BY <1>5, WrittenMoves, WrittenOrderly
<1>6. CASE NextVersion(o)
  <2>1. NumberMove(o) /\ Step(o)
    BY <1>6, NumberMoves DEF Step
  <2>2. QED
    BY <2>1, ReadingOrderly DEF NumberMove, UsesIndex, Writing
<1>7. CASE RecordSnapshot(o)
  <2>1. SnapshotMove(o) /\ Step(o)
    BY <1>7, SnapshotMoves DEF Step
  <2>2. QED
    BY <2>1, ReadingOrderly DEF SnapshotMove, UsesIndex, Writing
<1>8. CASE Stamp(o)
  <2>1. StampMove(o) /\ Step(o)
    BY <1>8, StampMoves DEF Step
  <2>2. ASSUME op'[o].pc = "restamp", NEW g \in Flows
        PROVE  DefOf(op'[o].copy[g]) = DefOf(Loaded[g])
    BY <2>1, <2>2 DEF StampMove, DefOf, Off
  <2>3. ~UsesIndex(op[o]) /\ ~Writing(op'[o]) /\ UNCHANGED index
        /\ (UsesIndex(op'[o]) => op'[o].pc = "restamp")
    BY <2>1 DEF StampMove, UsesIndex, Writing
  <2>4. QED
    BY <2>1, <2>2, <2>3, ReadingOrderly
<1>9. QED
  BY <1>2, <1>3, <1>4, <1>5, <1>6, <1>7, <1>8 DEF Step

LEMMA CrashOrderly ==
  ASSUME IInv, Orderly, Remember, orderly', Crash
  PROVE  Orderly'
<1>1. op' = [p \in Ops |-> Off] /\ UNCHANGED index /\ crashes' = crashes + 1 /\ crashes \in Nat
  BY ConstantFacts DEF Crash, IInv, TypeOK
<1>2. Crashes
  BY <1>1 DEF Crashes
<1>3. \A f \in Flows : Written(f) = {}
  BY <1>2 DEF Written, Writes, Leaves
<1>4. \A f \in Flows : latest'[f] = latest[f]
  BY <1>3 DEF Remember
<1>5. index # Torn
  BY <1>2, OrderlyNext
<1>6. \A p \in Ops : ~UsesIndex(op'[p]) /\ ~Writing(op'[p])
  BY <1>1 DEF UsesIndex, Writing, Off
<1>7. QED
  BY <1>1, <1>4, <1>5, <1>6, OrderlyNext DEF Orderly

LEMMA AloneNext ==
  ASSUME Remember
  PROVE  /\ Alone'
         /\ \A o \in Ops \ stale' : op'[o] # Off => o \notin stale
<1>1. stale' = {o \in Ops : /\ op'[o] # Off
                            /\ (o \in stale \/ \E p \in Ops \ {o} : BothUseIndex(op'[o], op'[p]))}
  BY DEF Remember, Collided
<1>2. \A o, p \in Ops : op'[o] = Off => ~BothUseIndex(op'[o], op'[p])
  BY DEF BothUseIndex, UsesIndex, Off
<1>3. QED
  BY <1>1, <1>2 DEF Alone

LEMMA NextOrderly ==
  ASSUME IInv, Alone, Orderly, [Next]_vars
  PROVE  Alone' /\ Orderly'
<1>1. CASE Next
  <2>1. Remember
    BY <1>1 DEF Next
  <2>2. Alone'
    BY <2>1, AloneNext
  <2>3. CASE orderly'
    BY <1>1, <2>1, <2>2, <2>3, StepOrderly, CrashOrderly DEF Next
  <2>4. CASE ~orderly'
    BY <2>2, <2>4 DEF Orderly
  <2>5. QED
    BY <2>2, <2>3, <2>4
<1>2. CASE UNCHANGED vars
  BY <1>2 DEF vars, past, Alone, Orderly
<1>3. QED
  BY <1>1, <1>2

LEMMA InitOrderly == Init => Alone /\ Orderly
<1> SUFFICES ASSUME Init PROVE Alone /\ Orderly
  OBVIOUS
<1>1. None \notin Stored /\ latest \in [Flows -> {None} \cup Definitions]
  BY ConstantFacts DEF Init, Accepted
<1>2. index # Torn
  BY InitIInv, TornIsNoIndex, <1>1 DEF Init, Indexes, Stored
<1>3. \A f \in Flows : latest[f] = DefOf(index[f])
  <2> SUFFICES ASSUME NEW f \in Flows PROVE latest[f] = DefOf(index[f])
    OBVIOUS
  <2>1. CASE latest[f] = None
    BY <2>1 DEF Init, DefOf
  <2>2. CASE latest[f] # None
    <3>1. index[f] = [def |-> latest[f], version |-> 1]
      BY <2>2 DEF Init
    <3>2. index[f] # None
      BY <1>1, <2>2, <3>1 DEF Stored
    <3>3. QED
      BY <3>1, <3>2 DEF DefOf
  <2>3. QED
    BY <2>1, <2>2
<1>4. \A o \in Ops : ~UsesIndex(op[o]) /\ ~Writing(op[o])
  BY DEF Init, Off, UsesIndex, Writing
<1>5. QED
  BY <1>2, <1>3, <1>4 DEF Init, Alone, Orderly, BothUseIndex

(* What was last written to each flow is what the index holds, whatever    *)
(* other requests wrote to it (updateFlow, saveFlowIndex).                 *)
THEOREM LastEditStays == Spec => []EditsLast
<1>1. Init => Alone /\ Orderly
  BY InitOrderly
<1>2. IInv /\ Alone /\ Orderly /\ [Next]_vars => Alone' /\ Orderly'
  BY NextOrderly
<1>3. Orderly => EditsLast
  BY DEF Orderly, EditsLast, DefOf
<1>4. QED
  BY <1>1, <1>2, <1>3, InvariantHolds, PTL DEF Spec
-----------------------------------------------------------------------------
(* A flow that is not unstamped after a step.                              *)
LEMMA StampedNext ==
  ASSUME IInv, Remember, NEW o \in Ops, Step(o) \/ \E f \in Flows : Request(o, f),
         NEW f \in Flows \ unstamped'
  PROVE  /\ Writes(o) => o \notin stale
         /\ Writes(o) /\ op[o].flow = f
              => o \notin crossed /\ op[o].kind \notin {"toolUpdate", "rollback"}
         /\ op[o].flow = f => ~FailsToStamp(o)
         /\ f \in unstamped => Writes(o) /\ op[o].flow = f /\ op[o].pc = "restampEnd"
<1>1. unstamped' = {g \in Flows :
       \/ \E p \in stale : Writes(p)
       \/ \E p \in Written(g) : p \in crossed \/ op[p].kind \in {"toolUpdate", "rollback"}
       \/ \E p \in Ops : op[p].flow = g /\ (Crashes \/ FailsToStamp(p))
       \/ g \in unstamped /\ \A p \in Written(g) : op[p].pc # "restampEnd"}
  BY DEF Remember
<1>2. \A p \in Written(f) : p = o /\ Writes(p) /\ op[p].flow = f
  BY OneSteps DEF Written
<1>3. Writes(o) /\ op[o].flow = f => o \in Written(f)
  BY DEF Written
<1>4. QED
  BY <1>1, <1>2, <1>3

(* Writes are what WrittenMove describes.                                  *)
LEMMA WritesFacts ==
  ASSUME IInv, NEW o \in Ops, Step(o) \/ \E f \in Flows : Request(o, f)
  PROVE  /\ WrittenMove(o) => Writes(o)
         /\ Writes(o) => WrittenMove(o)
<1>1. ~Crashes
  BY OneSteps
<1>2. QED
  BY <1>1, Moves DEF Writes, Leaves, StartMove, LoadMove, WriteMove, WrittenMove, NumberMove,
     SnapshotMove, StampMove

LEMMA SoundKept ==
  ASSUME IInv, Versions, Remember, NEW o \in Ops, Step(o) \/ \E f \in Flows : Request(o, f),
         NEW f \in Flows \ unstamped', f \notin unstamped,
         ~(op[o].pc = "restampEnd" /\ WrittenMove(o) /\ op[o].flow = f),
         NEW v, Sound(snapshots, op, f, v)
  PROVE  Sound(snapshots', op', f, v)
<1>1. \A p \in Ops \ {o} : op'[p] = op[p]
  BY OneSteps
<1>2. ASSUME op[o].flow = f, Stamping(op[o]) PROVE op'[o].flow = f /\ Stamping(op'[o])
  <2>1. CASE WriteMove(o)
    BY <1>2, <2>1 DEF WriteMove, Stamping
  <2>2. CASE WrittenMove(o)
    BY <1>2, <2>2 DEF WrittenMove, Stamping
  <2>3. CASE NumberMove(o)
    BY <1>2, <2>3 DEF NumberMove, Stamping
  <2>4. CASE SnapshotMove(o)
    <3>1. op[o].kind # "rollback"
      BY <1>2, <2>4 DEF Versions, RolledBack, SnapshotMove
    <3>2. QED
      BY <1>2, <2>4, <3>1 DEF SnapshotMove, Stamping
  <2>5. CASE StampMove(o)
    <3>1. ~FailsToStamp(o) /\ ~Crashes
      BY <1>2, StampedNext, OneSteps
    <3>2. op'[o] # Off
      BY <2>5, <3>1 DEF FailsToStamp, Leaves, StampMove
    <3>3. QED
      BY <1>2, <2>5, <3>2 DEF StampMove, Stamping
  <2>6. QED
    BY <1>2, <2>1, <2>2, <2>3, <2>4, <2>5, Moves DEF StartMove, LoadMove, Stamping
<1>3. ASSUME NEW p \in Ops, op[p].flow = f, Stamping(op[p])
      PROVE  Sound(snapshots', op', f, v)
  BY <1>1, <1>2, <1>3 DEF Sound
<1>4. CASE snapshots'[f] = snapshots[f]
  BY <1>3, <1>4 DEF Sound, Tells
<1>5. CASE snapshots'[f] # snapshots[f]
  <2>1. SnapshotMove(o) /\ op[o].flow = f
    BY <1>5, Moves DEF StartMove, LoadMove, WriteMove, WrittenMove, NumberMove,
       SnapshotMove, StampMove
  <2>2. Stamping(op[o])
    BY <2>1 DEF SnapshotMove, Stamping
  <2>3. QED
    BY <1>3, <2>1, <2>2
<1>6. QED
  BY <1>4, <1>5

LEMMA IndexSoundNext ==
  ASSUME IInv, Alone, Versions, Remember,
         NEW o \in Ops, Step(o) \/ \E f \in Flows : Request(o, f)
  PROVE  IndexSound'
<1> SUFFICES ASSUME index' # Torn, NEW f \in Flows \ unstamped'
             PROVE  Sound(snapshots', op', f, index'[f])
  BY DEF IndexSound
<1>1. CASE WrittenMove(o)
  <2>1. o \notin stale /\ Writes(o) /\ UsesIndex(op[o]) /\ index' = op[o].copy
    BY <1>1, WritesFacts, StampedNext DEF WrittenMove, UsesIndex
  <2>2. CASE f # op[o].flow
    <3>1. f \notin unstamped
      BY <2>2, StampedNext
    <3>2. Sound(snapshots, op, f, op[o].copy[f])
      BY <2>1, <2>2, <3>1 DEF Versions, CopiesSound
    <3>3. QED
      BY <2>1, <2>2, <3>1, <3>2, SoundKept
  <2>3. CASE f = op[o].flow /\ op[o].pc = "restampEnd"
    <3>1. o \notin crossed
      BY <2>1, <2>3, StampedNext
    <3>2. Tells(snapshots, f, op[o].copy[f].version, op[o].copy[f].def)
      BY <2>1, <2>3, <3>1 DEF Versions, Restamped
    <3>3. QED
      BY <1>1, <2>1, <3>2 DEF Sound, Tells, WrittenMove
  <2>4. CASE f = op[o].flow /\ op[o].pc = "writeEnd"
    <3>1. op[o].kind \notin {"toolUpdate", "rollback"}
      BY <2>1, <2>4, StampedNext
    <3>2. CASE op[o].kind \in {"create", "put"}
      <4>1. op'[o].pc = "record" /\ op'[o].flow = f
        BY <1>1, <2>4, <3>2 DEF WrittenMove
      <4>2. QED
        BY <4>1 DEF Sound, Stamping
    <3>3. CASE op[o].kind \notin {"create", "put"}
      <4>1. op[o].copy[f] = None \/ op[o].copy[f].version = 0
        BY <2>4, <3>1, <3>3 DEF Versions, Unnumbered
      <4>2. QED
        BY <2>1, <4>1 DEF Sound
    <3>4. QED
      BY <3>2, <3>3
  <2>5. QED
    BY <1>1, <2>2, <2>3, <2>4 DEF WrittenMove
<1>2. CASE ~WrittenMove(o)
  <2>1. index' = index
    BY <1>2, Moves DEF StartMove, LoadMove, WriteMove, NumberMove, SnapshotMove, StampMove
  <2>2. f \notin unstamped
    BY <1>2, WritesFacts, StampedNext
  <2>3. Sound(snapshots, op, f, index[f])
    BY <2>1, <2>2 DEF Versions, IndexSound
  <2>4. QED
    BY <1>2, <2>1, <2>2, <2>3, SoundKept
<1>3. QED
  BY <1>1, <1>2
-----------------------------------------------------------------------------
(* What a request takes from the index as it reads it.                     *)
Reads(o) ==
  /\ UNCHANGED <<index, snapshots>>
  /\ \A g \in Flows : g # op'[o].flow => op'[o].copy[g] = Loaded[g]
LEMMA ReadMoves ==
  ASSUME IInv, NEW o \in Ops, Step(o) \/ \E f \in Flows : Request(o, f), UsesIndex(op'[o])
  PROVE  WriteMove(o) \/ Reads(o)
BY Moves DEF StartMove, LoadMove, WriteMove, WrittenMove, NumberMove, SnapshotMove, StampMove,
   Reads, UsesIndex

(* A request that is apart after a step was so before.                     *)
LEMMA WasApart ==
  ASSUME IInv, Remember, NEW p \in Ops, op'[p].pc # "off"
  PROVE  /\ p \notin crossed' => p \notin crossed
         /\ p \notin stale' => p \notin stale
<1>1. op'[p] # Off
  BY DEF Off
<1>2. QED
  BY <1>1, ApartNext, AloneNext

LEMMA CopiesSoundNext ==
  ASSUME IInv, Alone, Versions, Remember,
         NEW o \in Ops, Step(o) \/ \E f \in Flows : Request(o, f)
  PROVE  CopiesSound'
<1> SUFFICES ASSUME NEW p \in Ops, p \notin stale', UsesIndex(op'[p]),
                    NEW f \in Flows \ unstamped', f # op'[p].flow
             PROVE  Sound(snapshots', op', f, op'[p].copy[f])
  BY DEF CopiesSound
<1>1. p \notin stale
  BY WasApart DEF UsesIndex
<1>2. \A q \in Ops \ {o} : op'[q] = op[q]
  BY OneSteps
<1>3. ~WrittenMove(o)
  <2> SUFFICES ASSUME WrittenMove(o) PROVE FALSE
    OBVIOUS
  <2>1. UsesIndex(op[o]) /\ ~UsesIndex(op'[o])
    BY DEF WrittenMove, UsesIndex
  <2>2. p # o /\ UsesIndex(op[p])
    BY <1>2, <2>1
  <2>3. QED
    BY <1>1, <2>1, <2>2 DEF Alone, BothUseIndex
<1>4. f \notin unstamped
  BY <1>3, WritesFacts, StampedNext
<1>5. Sound(snapshots, op, f, op'[p].copy[f])
  <2>1. CASE p # o
    BY <1>1, <1>2, <1>4, <2>1 DEF Versions, CopiesSound
  <2>2. CASE p = o /\ WriteMove(o)
    <3>1. UsesIndex(op[o]) /\ op'[o].copy = op[o].copy /\ op'[o].flow = op[o].flow
      BY <2>2 DEF WriteMove, UsesIndex
    <3>2. QED
      BY <1>1, <1>4, <2>2, <3>1 DEF Versions, CopiesSound
  <2>3. CASE p = o /\ Reads(o)
    <3>1. op'[o].copy[f] = Loaded[f]
      BY <2>3 DEF Reads
    <3>2. CASE index = Torn
      BY <2>3, <3>1, <3>2, ConstantFacts DEF Loaded, Sound
    <3>3. CASE index # Torn
      BY <1>4, <2>3, <3>1, <3>3 DEF Loaded, Versions, IndexSound
    <3>4. QED
      BY <3>2, <3>3
  <2>4. QED
    BY <2>1, <2>2, <2>3, ReadMoves
<1>6. QED
  BY <1>3, <1>4, <1>5, SoundKept

(* The snapshots of a flow with a request that met no other about it are   *)
(* changed by that request alone.                                          *)
LEMMA OthersSnapshots ==
  ASSUME IInv, NEW o \in Ops, Step(o) \/ \E f \in Flows : Request(o, f),
         NEW p \in Ops \ crossed, p # o, op[p].pc # "off"
  PROVE  snapshots'[op[p].flow] = snapshots[op[p].flow]
<1>1. op[p].flow \in Flows
  BY DEF IInv, TypeOK, Fits
<1>2. op[p].flow # op[o].flow
  BY <1>1, ConstantFacts DEF IInv, Apart, Meet
<1>3. QED
  BY <1>1, <1>2, Moves DEF StartMove, LoadMove, WriteMove, WrittenMove, NumberMove, SnapshotMove,
     StampMove

LEMMA RecordedNext ==
  ASSUME IInv, Versions, Remember, NEW o \in Ops, Step(o) \/ \E f \in Flows : Request(o, f)
  PROVE  Recorded'
<1> SUFFICES ASSUME NEW p \in Ops, p \notin crossed', op'[p].pc = "stamp"
             PROVE  Tells(snapshots', op'[p].flow, op'[p].version, op'[p].copy[op'[p].flow].def)
  BY DEF Recorded
<1>1. p \notin crossed
  BY WasApart
<1>2. CASE p # o
  <2>1. op'[p] = op[p]
    BY <1>2, OneSteps
  <2>2. snapshots'[op[p].flow] = snapshots[op[p].flow]
    BY <1>1, <1>2, <2>1, OthersSnapshots
  <2>3. QED
    BY <1>1, <2>1, <2>2 DEF Versions, Recorded, Tells
<1>3. CASE p = o
  <2>1. SnapshotMove(o) /\ op[o].kind # "rollback"
    BY <1>3, Moves DEF StartMove, LoadMove, WriteMove, WrittenMove, NumberMove, SnapshotMove,
       StampMove
  <2>2. QED
    BY <1>3, <2>1 DEF SnapshotMove, Tells
<1>4. QED
  BY <1>2, <1>3

LEMMA CurrentNext ==
  ASSUME IInv, Alone, Versions, Remember,
         NEW o \in Ops, Step(o) \/ \E f \in Flows : Request(o, f)
  PROVE  Current'
<1> SUFFICES ASSUME NEW p \in Ops, p \notin crossed', p \notin stale',
                    op'[p].pc \in {"record", "snapshot", "stamp"}
             PROVE  LET f == op'[p].flow  def == op'[p].copy[f].def IN
                    /\ index' # Torn => Has(index'[f], def)
                    /\ \A q \in Ops \ {p} : UsesIndex(op'[q]) => Has(op'[q].copy[f], def)
  BY DEF Current
<1> DEFINE f == op'[p].flow
           def == op'[p].copy[f].def
<1>1. p \notin crossed /\ p \notin stale
  BY WasApart
<1>2. \A q \in Ops \ {o} : op'[q] = op[q]
  BY OneSteps
<1>3. f \in Flows
  BY StepKeeps DEF IInv, TypeOK, Fits
<1>4. CASE p # o
  <2>1. op'[p] = op[p]
    BY <1>2, <1>4
  <2>2. /\ index # Torn => Has(index[f], def)
        /\ \A q \in Ops \ {p} : UsesIndex(op[q]) => Has(op[q].copy[f], def)
    BY <1>1, <2>1 DEF Versions, Current
  <2> HIDE DEF def
  <2>3. index' # Torn => Has(index'[f], def)
    <3>1. CASE WrittenMove(o)
      <4>1. UsesIndex(op[o]) /\ index' \in {op[o].copy, Torn}
        BY <3>1 DEF WrittenMove, UsesIndex
      <4>2. QED
        BY <1>4, <2>2, <4>1
    <3>2. CASE ~WrittenMove(o)
      <4>1. index' \in {index, Torn}
        BY <3>2, Moves DEF StartMove, LoadMove, WriteMove, NumberMove, SnapshotMove, StampMove
      <4>2. QED
        BY <2>2, <4>1
    <3>3. QED
      BY <3>1, <3>2
  <2>4. ASSUME NEW q \in Ops \ {p}, UsesIndex(op'[q]) PROVE Has(op'[q].copy[f], def)
    <3>1. CASE q # o
      BY <1>2, <2>2, <2>4, <3>1
    <3>2. CASE q = o /\ WriteMove(o)
      <4>1. UsesIndex(op[o]) /\ op'[o].copy = op[o].copy
        BY <3>2 DEF WriteMove, UsesIndex
      <4>2. QED
        BY <1>4, <2>2, <3>2, <4>1
    <3>3. CASE q = o /\ Reads(o)
      <4>1. f # op'[o].flow
        BY <1>3, <1>4, ApartNext, ConstantFacts DEF Apart, Meet
      <4>2. op'[o].copy[f] = Loaded[f]
        BY <1>3, <3>3, <4>1 DEF Reads
      <4>3. QED
        BY <1>3, <2>2, <3>3, <4>2, ConstantFacts DEF Loaded, Has
    <3>4. QED
      BY <2>4, <3>1, <3>2, <3>3, ReadMoves
  <2>5. QED
    BY <2>3, <2>4 DEF def
<1>5. CASE p = o /\ WrittenMove(o)
  <2>1. /\ index' \in {op[o].copy, Torn} /\ UsesIndex(op[o])
        /\ f = op[o].flow /\ def = op[o].copy[f].def
    BY <1>5 DEF WrittenMove, UsesIndex
  <2>2. \A q \in Ops \ {o} : ~UsesIndex(op'[q])
    BY <1>1, <1>2, <1>5, <2>1 DEF Alone, BothUseIndex
  <2>3. QED
    BY <1>5, <2>1, <2>2 DEF Has
<1>6. CASE p = o /\ (NumberMove(o) \/ SnapshotMove(o))
  <2>1. /\ op[o].pc \in {"record", "snapshot", "stamp"} /\ UNCHANGED index
        /\ f = op[o].flow /\ def = op[o].copy[f].def
    BY <1>6 DEF NumberMove, SnapshotMove
  <2>2. QED
    BY <1>1, <1>2, <1>6, <2>1 DEF Versions, Current
<1>7. QED
  BY <1>4, <1>5, <1>6, Moves DEF StartMove, LoadMove, WriteMove, StampMove

LEMMA RestampedNext ==
  ASSUME IInv, Versions, Remember, NEW o \in Ops, Step(o) \/ \E f \in Flows : Request(o, f)
  PROVE  Restamped'
<1> SUFFICES ASSUME NEW p \in Ops, p \notin crossed', p \notin stale',
                    op'[p].pc \in {"restamp", "restampEnd"}
             PROVE  LET v == op'[p].copy[op'[p].flow] IN
                    Tells(snapshots', op'[p].flow, v.version, v.def)
  BY DEF Restamped
<1>1. p \notin crossed /\ p \notin stale
  BY WasApart
<1>2. CASE p # o
  <2>1. op'[p] = op[p]
    BY <1>2, OneSteps
  <2>2. snapshots'[op[p].flow] = snapshots[op[p].flow]
    BY <1>1, <1>2, <2>1, OthersSnapshots
  <2>3. QED
    BY <1>1, <2>1, <2>2 DEF Versions, Restamped, Tells
<1>3. CASE p = o /\ WriteMove(o)
  <2>1. /\ op[o].pc = "restamp" /\ op'[o].flow = op[o].flow /\ op'[o].copy = op[o].copy
        /\ UNCHANGED snapshots
    BY <1>3 DEF WriteMove
  <2>2. QED
    BY <1>1, <1>3, <2>1 DEF Versions, Restamped, Tells
<1>4. CASE p = o /\ StampMove(o)
  <2> DEFINE f == op[o].flow
  <2>1. /\ op[o].pc = "stamp" /\ op'[o].flow = f /\ Loaded[f] # None
        /\ op'[o].copy[f].def = Loaded[f].def /\ op'[o].copy[f].version = op[o].version
        /\ UNCHANGED snapshots
    BY <1>4 DEF StampMove
  <2>2. f \in Flows
    BY <2>1 DEF IInv, TypeOK, Fits
  <2>3. index # Torn /\ Loaded = index
    BY <2>1, <2>2, ConstantFacts DEF Loaded
  <2>4. index[f].def = op[o].copy[f].def
    BY <1>1, <1>4, <2>1, <2>3 DEF Versions, Current, Has
  <2>5. Tells(snapshots, f, op[o].version, op[o].copy[f].def)
    BY <1>1, <1>4, <2>1 DEF Versions, Recorded
  <2>6. QED
    BY <1>4, <2>1, <2>3, <2>4, <2>5 DEF Tells
<1>5. QED
  BY <1>2, <1>3, <1>4, Moves DEF StartMove, LoadMove, WrittenMove, NumberMove, SnapshotMove

LEMMA RolledBackNext ==
  ASSUME IInv, Versions, Remember, NEW o \in Ops, Step(o) \/ \E f \in Flows : Request(o, f)
  PROVE  RolledBack'
<1> SUFFICES ASSUME NEW p \in Ops, op'[p].kind = "rollback", op'[p].pc \in {"record", "snapshot"},
                    op'[p].flow \notin unstamped'
             PROVE  FALSE
  BY DEF RolledBack
<1>1. op'[p].flow \in Flows
  BY StepKeeps DEF IInv, TypeOK, Fits
<1>2. CASE p # o
  <2>1. op'[p] = op[p] /\ op[p].flow \in unstamped
    BY <1>2, OneSteps DEF Versions, RolledBack
  <2>2. Writes(o) /\ op[o].flow = op[p].flow
    BY <1>1, <2>1, StampedNext
  <2>3. o \notin crossed
    BY <1>1, <2>1, <2>2, StampedNext
  <2>4. QED
    BY <1>1, <1>2, <2>1, <2>2, <2>3, ConstantFacts DEF IInv, Apart, Meet
<1>3. CASE p = o /\ WrittenMove(o)
  <2>1. Writes(o) /\ op[o].flow = op'[o].flow /\ op[o].kind = "rollback"
    BY <1>3, WritesFacts DEF WrittenMove
  <2>2. QED
    BY <1>1, <1>3, <2>1, StampedNext
<1>4. CASE p = o /\ NumberMove(o)
  <2>1. op[o].flow \in unstamped /\ op'[o].flow = op[o].flow /\ ~WrittenMove(o)
    BY <1>4 DEF NumberMove, WrittenMove, Versions, RolledBack
  <2>2. QED
    BY <1>1, <1>4, <2>1, WritesFacts, StampedNext
<1>5. QED
  BY <1>2, <1>3, <1>4, Moves DEF StartMove, LoadMove, WriteMove, SnapshotMove, StampMove

LEMMA UnnumberedNext ==
  ASSUME IInv, Versions, NEW o \in Ops, Step(o) \/ \E f \in Flows : Request(o, f)
  PROVE  \A p \in Ops : Unnumbered(op'[p])
<1> SUFFICES ASSUME NEW p \in Ops PROVE Unnumbered(op'[p])
  OBVIOUS
<1>1. CASE p # o
  BY <1>1, OneSteps DEF Versions
<1>2. CASE p = o
  <2>1. Unnumbered(op[o])
    BY DEF Versions
  <2>2. CASE \E f \in Flows : StartMove(o, f)
    BY <1>2, <2>2 DEF StartMove
  <2>3. CASE LoadMove(o)
    BY <1>2, <2>1, <2>3 DEF LoadMove, Unnumbered
  <2>4. CASE WriteMove(o)
    BY <1>2, <2>1, <2>4 DEF WriteMove, Unnumbered
  <2>5. CASE op'[o].pc \notin {"load", "write", "writeEnd"}
    BY <1>2, <2>5 DEF Unnumbered
  <2>6. QED
    BY <2>2, <2>3, <2>4, <2>5, Moves DEF WrittenMove, NumberMove, SnapshotMove, StampMove
<1>3. QED
  BY <1>1, <1>2

LEMMA CrashVersions ==
  ASSUME IInv, Versions, Remember, Crash
  PROVE  Versions'
<1>1. /\ op' = [p \in Ops |-> Off] /\ UNCHANGED <<index, snapshots>>
      /\ crashes' = crashes + 1 /\ crashes \in Nat
  BY ConstantFacts DEF Crash, IInv, TypeOK
<1>2. Crashes
  BY <1>1 DEF Crashes
<1>3. \A p \in Ops : op'[p].pc = "off"
  BY <1>1 DEF Off
<1>4. ASSUME NEW f \in Flows \ unstamped', index # Torn
      PROVE  Sound(snapshots', op', f, index'[f])
  <2>1. Written(f) = {}
    BY <1>2 DEF Written, Writes, Leaves
  <2>2. f \notin unstamped /\ \A p \in Ops : op[p].flow # f
    BY <1>2, <2>1 DEF Remember
  <2>3. Sound(snapshots, op, f, index[f])
    BY <1>4, <2>2 DEF Versions, IndexSound
  <2>4. QED
    BY <1>1, <2>2, <2>3 DEF Sound
<1>5. IndexSound'
  BY <1>1, <1>4 DEF IndexSound
<1>6. QED
  BY <1>3, <1>5 DEF Versions, CopiesSound, Recorded, Current, Restamped, RolledBack, Unnumbered,
     UsesIndex

LEMMA NextVersions ==
  ASSUME IInv, Alone, Versions, [Next]_vars
  PROVE  Versions'
<1>1. CASE \E o \in Ops : Step(o) \/ \E f \in Flows : Request(o, f)
  <2>1. PICK o \in Ops : Step(o) \/ \E f \in Flows : Request(o, f)
    BY <1>1
  <2>2. CASE Remember
    BY <2>1, <2>2, IndexSoundNext, CopiesSoundNext, RecordedNext, CurrentNext, RestampedNext,
       RolledBackNext, UnnumberedNext DEF Versions
  <2>3. CASE UNCHANGED vars
    BY <2>3 DEF vars, past, Versions, IndexSound, CopiesSound, Recorded, Current, Restamped,
       RolledBack
  <2>4. QED
    BY <2>2, <2>3 DEF Next
<1>2. CASE Crash /\ Remember
  BY <1>2, CrashVersions
<1>3. CASE UNCHANGED vars
  BY <1>3 DEF vars, past, Versions, IndexSound, CopiesSound, Recorded, Current, Restamped,
     RolledBack
<1>4. QED
  BY <1>1, <1>2, <1>3 DEF Next

LEMMA InitVersions == Init => Versions
<1> SUFFICES ASSUME Init PROVE Versions
  OBVIOUS
<1>1. \A o \in Ops : op[o].pc = "off"
  BY DEF Init, Off
<1>2. ASSUME NEW f \in Flows PROVE Sound(snapshots, op, f, index[f])
  <2>1. CASE latest[f] = None
    BY <2>1 DEF Init, Sound
  <2>2. CASE latest[f] # None
    <3>1. index[f] = [def |-> latest[f], version |-> 1] /\ snapshots[f] = <<latest[f]>>
      BY <2>2 DEF Init
    <3>2. Tells(snapshots, f, 1, latest[f])
      BY <3>1 DEF Tells
    <3>3. QED
      BY <3>1, <3>2 DEF Sound
  <2>3. QED
    BY <2>1, <2>2
<1>3. QED
  BY <1>1, <1>2 DEF Versions, IndexSound, CopiesSound, Recorded, Current, Restamped, RolledBack,
     Unnumbered, UsesIndex

(* A flow's version is the number of the snapshot of its definition, when  *)
(* no request about it is under way, unless it was rolled back or updated  *)
(* by the tool since, or a change of it collided or failed (recordVersion, *)
(* and the stamp that follows it).                                         *)
THEOREM VersionTells == Spec => []VersionTellsDefinition
<1>1. Init => Alone /\ Versions
  BY InitOrderly, InitVersions
<1>2. IInv /\ Alone /\ Orderly /\ Versions /\ [Next]_vars => Alone' /\ Orderly' /\ Versions'
  BY NextOrderly, NextVersions
<1>3. Versions => VersionTellsDefinition
  BY DEF Versions, IndexSound, Sound, Tells, VersionTellsDefinition
<1>4. QED
  BY <1>1, <1>2, <1>3, InitOrderly, InvariantHolds, PTL DEF Spec
-----------------------------------------------------------------------------
(* A set with 0 and the successors of its numbers has them all.            *)
LEMMA NumbersInduction ==
  ASSUME NEW S, 0 \in S, \A n \in Nat : n \in S => n + 1 \in S
  PROVE  \A n \in Nat : n \in S
<1> SUFFICES ASSUME Nat \ S # {} PROVE FALSE
  OBVIOUS
<1> DEFINE R == OpToRel(<, Nat)
<1>1. IsWellFoundedOn(R, Nat)
  BY NatLessThanWellFounded
<1>2. \E x \in Nat \ S : \A y \in Nat \ S : <<y, x>> \notin R
  <2> HIDE DEF R
  <2>1. Nat \ S \subseteq Nat
    OBVIOUS
  <2>2. QED
    BY <1>1, <2>1, WFMin
<1>3. PICK x \in Nat \ S : \A y \in Nat \ S : <<y, x>> \notin R
  BY <1>2
<1>4. \A a, b \in Nat : a < b => <<a, b>> \in R
  BY DEF OpToRel
<1>5. x - 1 \in Nat /\ x - 1 < x /\ x - 1 + 1 = x
  OBVIOUS
<1>6. x - 1 \notin Nat \ S
  BY <1>3, <1>4, <1>5
<1>7. QED
  BY <1>5, <1>6

LEMMA UptoInduction ==
  ASSUME NEW n \in Nat, NEW S, 0 \in S, \A k \in 1..n : k - 1 \in S => k \in S
  PROVE  \A k \in 0..n : k \in S
<1> DEFINE T == {k \in Nat : k <= n => k \in S}
<1>1. 0 \in T
  OBVIOUS
<1>2. ASSUME NEW k \in Nat, k \in T PROVE k + 1 \in T
  <2>1. CASE k + 1 \in 1..n
    <3>1. (k + 1) - 1 = k /\ k \in S
      BY <1>2, <2>1
    <3>2. QED
      BY <2>1, <3>1
  <2>2. CASE k + 1 \notin 1..n
    BY <2>2
  <2>3. QED
    BY <2>1, <2>2
<1> HIDE DEF T
<1>3. \A k \in Nat : k \in T
  BY <1>1, <1>2, NumbersInduction
<1>4. QED
  BY <1>3 DEF T

(* A function defined by recursion exists when there are a first value and *)
(* a next one after each.                                                  *)
Follows(g, n, a, F) == g[0] = a /\ \A k \in 1..n : g[k] = F[<<k, g[k - 1]>>]

LEMMA Recursion ==
  ASSUME NEW n \in Nat, NEW A, NEW a \in A, NEW F \in [(1..n) \X A -> A]
  PROVE  \E g \in [0..n -> A] : Follows(g, n, a, F)
<1> DEFINE Good(m, g) == g \in [0..m -> A] /\ g[0] = a /\ \A k \in 1..m : g[k] = F[<<k, g[k - 1]>>]
           S == {m \in 0..n : \E g : Good(m, g)}
<1>1. 0 \in S
  <2> DEFINE g == [k \in 0..0 |-> a]
  <2>1. g \in [0..0 -> A] /\ g[0] = a /\ \A k \in 1..0 : g[k] = F[<<k, g[k - 1]>>]
    OBVIOUS
  <2> HIDE DEF g
  <2>2. \E h : Good(0, h)
    BY <2>1
  <2>3. QED
    BY <2>2
<1>2. ASSUME NEW m \in 1..n, m - 1 \in S PROVE m \in S
  <2>1. PICK g : Good(m - 1, g)
    BY <1>2
  <2> DEFINE h == [k \in 0..m |-> IF k = m THEN F[<<m, g[m - 1]>>] ELSE g[k]]
  <2>2. m - 1 \in 0..(m - 1) /\ g[m - 1] \in A /\ <<m, g[m - 1]>> \in (1..n) \X A
    BY <2>1
  <2>3. h \in [0..m -> A]
    BY <2>1, <2>2
  <2>4. h[0] = a
    BY <2>1
  <2>5. ASSUME NEW k \in 1..m PROVE h[k] = F[<<k, h[k - 1]>>]
    <3>1. k - 1 \in 0..(m - 1) /\ h[k - 1] = g[k - 1]
      OBVIOUS
    <3>2. CASE k = m
      BY <3>1, <3>2
    <3>3. CASE k # m
      BY <2>1, <3>1, <3>3
    <3>4. QED
      BY <3>2, <3>3
  <2> HIDE DEF h
  <2>6. Good(m, h)
    BY <2>3, <2>4, <2>5
  <2>7. QED
    BY <2>6
<1>3. n \in S
  <2> HIDE DEF S
  <2>1. \A k \in 1..n : k - 1 \in S => k \in S
    BY <1>2
  <2>2. QED
    BY <1>1, <2>1, UptoInduction
<1>4. QED
  BY <1>3 DEF Follows
-----------------------------------------------------------------------------
(* A sequence without repetitions, and what is in it.                      *)
Distinct(s) == \A i, j \in DOMAIN s : s[i] = s[j] => i = j
Elements(s) == {s[i] : i \in DOMAIN s}

LEMMA InOrderFacts ==
  ASSUME NEW set
  PROVE  /\ InOrder(set) \in Seq(NodeIds)
         /\ Elements(InOrder(set)) = NodeIds \cap set
         /\ Distinct(InOrder(set))
<1> DEFINE S == NodeIds
           nodes == NodeOrder
           n == Len(nodes)
           Grown(k, t) == IF nodes[k] \in set THEN Append(t, nodes[k]) ELSE t
           Is(g) == g = [k \in 0..n |-> IF k = 0 THEN << >>
                           ELSE IF nodes[k] \in set THEN Append(g[k - 1], nodes[k]) ELSE g[k - 1]]
           G == CHOOSE g : Is(g)
<1>1. n \in Nat /\ DOMAIN nodes = 1..n /\ \A k \in 1..n : nodes[k] \in S
  BY FlowStoreAssumption
<1>2. InOrder(set) = G[n]
  BY DEF InOrder
<1>0. Distinct(nodes)
  BY FlowStoreAssumption DEF Distinct
<1> HIDE DEF nodes, S
<1>3. \E g : Is(g)
  <2> DEFINE F == [p \in (1..n) \X Seq(S) |-> Grown(p[1], p[2])]
  <2>1. F \in [(1..n) \X Seq(S) -> Seq(S)]
    BY <1>1
  <2>2. << >> \in Seq(S)
    OBVIOUS
  <2> HIDE DEF F, n
  <2>3. PICK g \in [0..n -> Seq(S)] : Follows(g, n, << >>, F)
    BY <1>1, <2>1, <2>2, Recursion
  <2>4. ASSUME NEW k \in 1..n PROVE g[k] = Grown(k, g[k - 1])
    <3>1. k - 1 \in 0..n /\ <<k, g[k - 1]>> \in (1..n) \X Seq(S)
      BY <1>1
    <3>2. QED
      BY <2>3, <3>1 DEF F, Follows
  <2> HIDE DEF Grown
  <2>5. \A k \in 0..n : g[k] = IF k = 0 THEN << >> ELSE Grown(k, g[k - 1])
    BY <1>1, <2>3, <2>4 DEF Follows
  <2>6. g = [k \in 0..n |-> IF k = 0 THEN << >> ELSE Grown(k, g[k - 1])]
    BY <2>3, <2>5
  <2>7. QED
    BY <2>6 DEF Grown
<1> HIDE DEF Is
<1>4. Is(G)
  BY <1>3
<1> HIDE DEF G
<1>5. G[0] = << >> /\ \A k \in 1..n : G[k] = Grown(k, G[k - 1])
  <2> HIDE DEF Grown, n
  <2>1. G = [k \in 0..n |-> IF k = 0 THEN << >> ELSE Grown(k, G[k - 1])]
    BY <1>4 DEF Is, Grown
  <2>2. 0 \in 0..n /\ \A k \in 1..n : k \in 0..n /\ k # 0
    BY <1>1
  <2>3. QED
    BY <2>1, <2>2
<1> DEFINE Upto(k) == {nodes[i] : i \in 1..k}
           Good(k) == /\ G[k] \in Seq(S) /\ Elements(G[k]) = Upto(k) \cap set
                      /\ Distinct(nodes) => Distinct(G[k])
           Fine == {k \in 0..n : Good(k)}
<1>6. 0 \in Fine
  <2>1. G[0] = << >> /\ Upto(0) = {} /\ Elements(<< >>) = {} /\ Distinct(<< >>)
    BY <1>5 DEF Elements, Distinct
  <2>2. Good(0) /\ 0 \in 0..n
    BY <1>1, <2>1
  <2>3. QED
    BY <2>2
<1>7. ASSUME NEW k \in 1..n, k - 1 \in Fine PROVE k \in Fine
  <2>1. /\ G[k - 1] \in Seq(S) /\ Elements(G[k - 1]) = Upto(k - 1) \cap set
        /\ Distinct(nodes) => Distinct(G[k - 1])
    BY <1>7
  <2>2. G[k] = Grown(k, G[k - 1]) /\ nodes[k] \in S
    BY <1>1, <1>5
  <2>3. Upto(k) = Upto(k - 1) \cup {nodes[k]}
    BY <1>1
  <2>4. CASE nodes[k] \in set
    <3> DEFINE t == Append(G[k - 1], nodes[k])
    <3>1. G[k] = t
      BY <2>2, <2>4
    <3>2. /\ t \in Seq(S) /\ Len(t) = Len(G[k - 1]) + 1
          /\ \A i \in 1..Len(G[k - 1]) : t[i] = G[k - 1][i]
          /\ t[Len(G[k - 1]) + 1] = nodes[k]
      BY <2>1, <2>2
    <3>3. Elements(t) = Elements(G[k - 1]) \cup {nodes[k]}
      <4> DEFINE g == G[k - 1]  m == Len(g)
      <4>1. /\ m \in Nat /\ DOMAIN g = 1..m /\ DOMAIN t = 1..(m + 1)
            /\ (\A i \in 1..m : t[i] = g[i]) /\ t[m + 1] = nodes[k]
        BY <2>1, <3>2
      <4> HIDE DEF t, g, m
      <4>2. DOMAIN t = (DOMAIN g) \cup {m + 1} /\ \A i \in DOMAIN g : t[i] = g[i]
        BY <4>1
      <4>3. {t[i] : i \in DOMAIN t} = {g[i] : i \in DOMAIN g} \cup {nodes[k]}
        BY <4>1, <4>2
      <4>4. QED
        BY <4>3 DEF Elements, g, m
    <3>4. ASSUME Distinct(nodes) PROVE Distinct(t)
      <4>1. nodes[k] \notin Elements(G[k - 1])
        BY <1>1, <2>1, <3>4 DEF Distinct
      <4>2. QED
        BY <2>1, <3>2, <3>4, <4>1 DEF Distinct, Elements
    <3>5. Good(k) /\ k \in 0..n
      BY <1>1, <2>1, <2>3, <2>4, <3>1, <3>2, <3>3, <3>4
    <3>6. QED
      BY <3>5
  <2>5. CASE nodes[k] \notin set
    BY <2>1, <2>2, <2>3, <2>5
  <2>6. QED
    BY <2>4, <2>5
<1>8. n \in Fine
  <2> HIDE DEF Fine, n
  <2>1. \A k \in 0..n : k \in Fine
    BY <1>1, <1>6, <1>7, UptoInduction
  <2>2. QED
    BY <1>1, <2>1
<1>9. Upto(n) = NodeIds
  BY <1>1 DEF NodeIds, nodes
<1>10. QED
  BY <1>0, <1>2, <1>8, <1>9 DEF S

LEMMA AppendFacts ==
  ASSUME NEW S, NEW s \in Seq(S), NEW x \in S
  PROVE  /\ Append(s, x) \in Seq(S) /\ Len(Append(s, x)) = Len(s) + 1
         /\ \A i \in 1..Len(s) : Append(s, x)[i] = s[i]
         /\ Append(s, x)[Len(s) + 1] = x
         /\ Elements(Append(s, x)) = Elements(s) \cup {x}
         /\ Distinct(s) /\ x \notin Elements(s) => Distinct(Append(s, x))
<1>1. /\ Append(s, x) \in Seq(S) /\ Len(s) \in Nat /\ Len(Append(s, x)) = Len(s) + 1
      /\ \A i \in 1..Len(s) : Append(s, x)[i] = s[i]
      /\ Append(s, x)[Len(s) + 1] = x
      /\ DOMAIN s = 1..Len(s) /\ DOMAIN Append(s, x) = 1..(Len(s) + 1)
  OBVIOUS
<1>2. \A i \in 1..(Len(s) + 1) : i \in 1..Len(s) \/ i = Len(s) + 1
  BY <1>1
<1>3. Elements(Append(s, x)) = Elements(s) \cup {x}
  BY <1>1, <1>2 DEF Elements
<1>4. ASSUME Distinct(s), x \notin Elements(s) PROVE Distinct(Append(s, x))
  BY <1>1, <1>2, <1>4 DEF Distinct, Elements
<1>5. QED
  BY <1>1, <1>3, <1>4
-----------------------------------------------------------------------------
(* The depth-first search of the validator, over the nodes V and edges E.  *)
Frames(V) == [node : V, next : Nat \ {0}]
Searches(V) == [color : [V -> {"white", "gray", "black"}], stack : Seq(Frames(V)),
                cycle : BOOLEAN]
Colored(V, s, c) == {n \in V : s.color[n] = c}
Top(s) == s.stack[Len(s.stack)]

LEMMA TargetsFacts ==
  ASSUME NEW V \in SUBSET NodeIds, NEW E \in SUBSET (V \X V), NEW n \in V
  PROVE  LET t == Neighbors(E, n) IN
           /\ t \in Seq(V) /\ Distinct(t) /\ Len(t) \in Nat /\ DOMAIN t = 1..Len(t)
           /\ \A m : <<n, m>> \in E <=> \E j \in DOMAIN t : t[j] = m
<1> DEFINE set == {m \in NodeIds : <<n, m>> \in E}
           t == Neighbors(E, n)
<1>1. t = InOrder(set)
  BY DEF Neighbors
<1>2. t \in Seq(NodeIds) /\ Elements(t) = NodeIds \cap set /\ Distinct(t)
  <2> HIDE DEF set, t
  <2>1. QED
    BY <1>1, InOrderFacts
<1>3. \A m : <<n, m>> \in E <=> m \in NodeIds \cap set
  OBVIOUS
<1> HIDE DEF set, t
<1>4. \A m : <<n, m>> \in E <=> \E j \in DOMAIN t : t[j] = m
  BY <1>2, <1>3 DEF Elements
<1>5. Len(t) \in Nat /\ DOMAIN t = 1..Len(t)
  BY <1>2
<1>6. \A j \in 1..Len(t) : t[j] \in V
  BY <1>4, <1>5
<1>7. t \in Seq(V)
  BY <1>2, <1>5, <1>6
<1>8. QED
  BY <1>2, <1>4, <1>5, <1>7 DEF t

(* The rounds of the search.                                               *)
Roots(V, s, r) ==
  \E n \in Colored(V, s, "white") :
    /\ r.color = [s.color EXCEPT ![n] = "gray"] /\ ~r.cycle
    /\ r.stack = <<[node |-> n, next |-> 1]>>
Pops(s, r) ==
  /\ r.color = [s.color EXCEPT ![Top(s).node] = "black"] /\ ~r.cycle
  /\ Len(r.stack) = Len(s.stack) - 1
  /\ \A i \in 1..(Len(s.stack) - 1) : r.stack[i] = s.stack[i]
Moved(s, r) ==
  /\ \A i \in 1..(Len(s.stack) - 1) : r.stack[i] = s.stack[i]
  /\ r.stack[Len(s.stack)] = [node |-> Top(s).node, next |-> Top(s).next + 1]
Skips(s, r) == Moved(s, r) /\ Len(r.stack) = Len(s.stack) /\ r.color = s.color /\ ~r.cycle
Pushes(s, r, m) ==
  /\ Moved(s, r) /\ Len(r.stack) = Len(s.stack) + 1
  /\ r.stack[Len(s.stack) + 1] = [node |-> m, next |-> 1]
  /\ r.color = [s.color EXCEPT ![m] = "gray"] /\ ~r.cycle
RoundOf(V, E, s, r) ==
  \/ s.cycle /\ r = s
  \/ ~s.cycle /\ s.stack = << >> /\ Colored(V, s, "white") = {} /\ r = s
  \/ ~s.cycle /\ s.stack = << >> /\ Roots(V, s, r)
  \/ /\ ~s.cycle /\ s.stack # << >>
     /\ LET t == Neighbors(E, Top(s).node)  m == t[Top(s).next] IN
        \/ Top(s).next \notin DOMAIN t /\ Pops(s, r)
        \/ Top(s).next \in DOMAIN t /\ s.color[m] = "gray" /\ r.cycle
        \/ Top(s).next \in DOMAIN t /\ s.color[m] = "white" /\ Pushes(s, r, m)
        \/ Top(s).next \in DOMAIN t /\ s.color[m] = "black" /\ Skips(s, r)

LEMMA PushFacts ==
  ASSUME NEW V, NEW s \in Searches(V), NEW n \in V
  PROVE  LET r == Push(s, n) IN
           /\ r \in Searches(V) /\ r.color = [s.color EXCEPT ![n] = "gray"]
           /\ r.cycle = s.cycle /\ r.stack = Append(s.stack, [node |-> n, next |-> 1])
<1> DEFINE color == [s.color EXCEPT ![n] = "gray"]
           stack == Append(s.stack, [node |-> n, next |-> 1])
<1>1. color \in [V -> {"white", "gray", "black"}] /\ stack \in Seq(Frames(V))
  BY DEF Searches, Frames
<1>2. Push(s, n) = [s EXCEPT !.color = color, !.stack = stack]
  BY DEF Push, Searches
<1> HIDE DEF color, stack
<1>3. QED
  BY <1>1, <1>2 DEF Searches, color, stack

LEMMA VisitFacts ==
  ASSUME NEW V \in SUBSET NodeIds, NEW E \in SUBSET (V \X V), NEW s \in Searches(V),
         ~s.cycle, s.stack # << >>
  PROVE  Visit(s, E) \in Searches(V) /\ RoundOf(V, E, s, Visit(s, E))
<1> DEFINE len == Len(s.stack)
           frame == s.stack[len]
           t == Neighbors(E, frame.node)
           m == t[frame.next]
           next == [node |-> frame.node, next |-> frame.next + 1]
           tail == [s.stack EXCEPT ![len] = next]
           moved == [s EXCEPT !.stack = tail]
<1>1. /\ s.stack \in Seq(Frames(V)) /\ len \in Nat \ {0} /\ DOMAIN s.stack = 1..len
      /\ len \in 1..len /\ s.color \in [V -> {"white", "gray", "black"}]
  BY DEF Searches
<1>2. frame \in Frames(V)
  BY <1>1
<1>3. frame.node \in V /\ frame.next \in Nat \ {0} /\ next \in Frames(V) /\ frame = Top(s)
  BY <1>2 DEF Frames, Top
<1>4. t \in Seq(V) /\ DOMAIN t = 1..Len(t) /\ Len(t) \in Nat
  <2> PICK n \in V : n = frame.node
    BY <1>3
  <2>1. t = Neighbors(E, n)
    OBVIOUS
  <2> HIDE DEF t
  <2>2. QED
    BY <2>1, TargetsFacts
<1>5. frame.next > Len(t) <=> frame.next \notin DOMAIN t
  BY <1>3, <1>4
<1>6. /\ tail \in Seq(Frames(V)) /\ Len(tail) = len /\ tail[len] = next
      /\ \A i \in 1..(len - 1) : tail[i] = s.stack[i]
  <2> HIDE DEF next, len
  <2>1. QED
    BY <1>1, <1>3
<1>7. [s EXCEPT !.stack[Len(s.stack)].next = @ + 1] = moved
  <2>1. [frame EXCEPT !.next = @ + 1] = next
    BY <1>2 DEF Frames
  <2>2. QED
    BY <2>1
<1>8. Visit(s, E) =
        IF frame.next > Len(t)
          THEN [s EXCEPT !.color[frame.node] = "black", !.stack = SubSeq(@, 1, Len(@) - 1)]
        ELSE IF s.color[m] = "gray" THEN [moved EXCEPT !.cycle = TRUE]
        ELSE IF s.color[m] = "white" THEN Push(moved, m)
        ELSE moved
  BY <1>7 DEF Visit
<1> HIDE DEF frame, t, m, next, tail
<1>9. moved \in Searches(V) /\ moved.stack = tail /\ moved.color = s.color /\ moved.cycle = s.cycle
  BY <1>6 DEF Searches
<1>10. Moved(s, moved)
  BY <1>3, <1>6, <1>9 DEF Moved, next
<1> HIDE DEF moved
<1>11. CASE frame.next > Len(t)
  <2> DEFINE color == [s.color EXCEPT ![frame.node] = "black"]
             stack == SubSeq(s.stack, 1, len - 1)
             r == [s EXCEPT !.color = color, !.stack = stack]
  <2>1. Visit(s, E) = r
    BY <1>8, <1>11
  <2>2. color \in [V -> {"white", "gray", "black"}]
    BY <1>1, <1>3
  <2>3. stack \in Seq(Frames(V)) /\ Len(stack) = len - 1 /\ \A i \in 1..(len - 1) : stack[i] = s.stack[i]
    BY <1>1
  <2> HIDE DEF color, stack
  <2>4. r \in Searches(V) /\ r.color = color /\ r.stack = stack /\ r.cycle = s.cycle
    BY <2>2, <2>3 DEF Searches
  <2> HIDE DEF r
  <2>5. Pops(s, r)
    BY <1>3, <2>3, <2>4 DEF Pops, color
  <2>6. QED
    BY <1>3, <1>5, <1>11, <2>1, <2>4, <2>5 DEF RoundOf, t
<1>12. CASE ~(frame.next > Len(t))
  <2>1. m \in V /\ frame.next \in DOMAIN t /\ s.color[m] \in {"white", "gray", "black"}
    BY <1>1, <1>4, <1>5, <1>12 DEF m
  <2>2. CASE s.color[m] = "gray"
    <3>1. Visit(s, E) = [moved EXCEPT !.cycle = TRUE]
      BY <1>8, <1>12, <2>2
    <3>2. Visit(s, E) \in Searches(V) /\ Visit(s, E).cycle
      BY <1>9, <3>1 DEF Searches
    <3>3. QED
      BY <1>3, <2>1, <2>2, <3>2 DEF RoundOf, t, m
  <2>3. CASE s.color[m] = "white"
    <3>1. Visit(s, E) = Push(moved, m)
      BY <1>8, <1>12, <2>3
    <3>2. PICK r : r = Push(moved, m)
      OBVIOUS
    <3>3. /\ r \in Searches(V) /\ r.color = [s.color EXCEPT ![m] = "gray"]
          /\ ~r.cycle /\ r.stack = Append(tail, [node |-> m, next |-> 1])
      BY <1>9, <2>1, <3>2, PushFacts
    <3>4. [node |-> m, next |-> 1] \in Frames(V)
      BY <2>1 DEF Frames
    <3>5. /\ Len(r.stack) = len + 1 /\ r.stack[len + 1] = [node |-> m, next |-> 1]
          /\ \A i \in 1..len : r.stack[i] = tail[i]
      BY <1>6, <3>3, <3>4, AppendFacts
    <3>6. Moved(s, r)
      BY <1>1, <1>9, <1>10, <3>5 DEF Moved
    <3>7. Pushes(s, r, m)
      BY <3>3, <3>5, <3>6 DEF Pushes
    <3>8. QED
      BY <1>3, <2>1, <2>3, <3>1, <3>2, <3>3, <3>7 DEF RoundOf, t, m
  <2>4. CASE s.color[m] = "black"
    <3>1. Visit(s, E) = moved
      BY <1>8, <1>12, <2>4
    <3>2. Skips(s, moved)
      BY <1>6, <1>9, <1>10 DEF Skips
    <3>3. QED
      BY <1>3, <1>9, <2>1, <2>4, <3>1, <3>2 DEF RoundOf, t, m
  <2>5. QED
    BY <2>1, <2>2, <2>3, <2>4
<1>13. QED
  BY <1>11, <1>12

LEMMA RoundFacts ==
  ASSUME NEW V \in SUBSET NodeIds, NEW E \in SUBSET (V \X V), NEW s \in Searches(V)
  PROVE  SearchOn(V, E, s) \in Searches(V) /\ RoundOf(V, E, s, SearchOn(V, E, s))
<1> DEFINE white == InOrder({n \in V : s.color[n] = "white"})
<1>1. white \in Seq(NodeIds) /\ Elements(white) = Colored(V, s, "white")
  BY InOrderFacts DEF Colored
<1>2. SearchOn(V, E, s) = IF s.cycle THEN s
                          ELSE IF s.stack # << >> THEN Visit(s, E)
                          ELSE IF white # << >> THEN Push(s, white[1]) ELSE s
  BY DEF SearchOn
<1> HIDE DEF white
<1>3. CASE s.cycle
  BY <1>2, <1>3 DEF RoundOf
<1>4. CASE ~s.cycle /\ s.stack # << >>
  BY <1>2, <1>4, VisitFacts
<1>5. CASE ~s.cycle /\ s.stack = << >> /\ white = << >>
  <2>1. Colored(V, s, "white") = {}
    BY <1>1, <1>5 DEF Elements
  <2>2. QED
    BY <1>2, <1>5, <2>1 DEF RoundOf
<1>6. CASE ~s.cycle /\ s.stack = << >> /\ white # << >>
  <2>1. 1 \in DOMAIN white
    BY <1>1, <1>6
  <2>2. white[1] \in Colored(V, s, "white") /\ white[1] \in V
    BY <1>1, <2>1 DEF Elements, Colored
  <2>3. PICK r : r = Push(s, white[1])
    OBVIOUS
  <2>4. /\ r \in Searches(V) /\ r.color = [s.color EXCEPT ![white[1]] = "gray"]
        /\ ~r.cycle /\ r.stack = Append(<< >>, [node |-> white[1], next |-> 1])
    BY <1>6, <2>2, <2>3, PushFacts
  <2>5. r.stack = <<[node |-> white[1], next |-> 1]>>
    BY <2>4
  <2>6. Roots(V, s, r)
    BY <2>2, <2>4, <2>5 DEF Roots
  <2>7. QED
    BY <1>2, <1>6, <2>3, <2>4, <2>6 DEF RoundOf
<1>7. QED
  BY <1>3, <1>4, <1>5, <1>6
-----------------------------------------------------------------------------
(* The nodes on the stack are the gray ones, each once.                    *)
Once(s) == \A i, j \in DOMAIN s.stack : s.stack[i].node = s.stack[j].node => i = j
GrayOnStack(V, s) ==
  \A n \in V : s.color[n] = "gray" <=> \E i \in DOMAIN s.stack : s.stack[i].node = n
(* The targets a frame has looked at are black, or the node above it.      *)
Looked(E, s) ==
  \A i \in DOMAIN s.stack :
    LET t == Neighbors(E, s.stack[i].node) IN
    /\ s.stack[i].next <= Len(t) + 1
    /\ \A j \in 1..(s.stack[i].next - 1) :
         s.color[t[j]] = "black" \/ (i < Len(s.stack) /\ t[j] = s.stack[i + 1].node)
(* The edges of black nodes lead to black ones, and follow an order.       *)
Closed(E, s) == \A e \in E : s.color[e[1]] = "black" => s.color[e[2]] = "black"
Ranks(E, B) ==
  \E rank \in [B -> 1..Cardinality(B)] : \A e \in E : e[1] \in B => rank[e[1]] < rank[e[2]]
Ordered(V, E, s) == Ranks(E, Colored(V, s, "black"))
(* Every order that all edges follow goes up the stack.                    *)
Follow(V, E, rank) == rank \in [V -> Nat] /\ \A e \in E : rank[e[1]] < rank[e[2]]
Climbs(V, E, s) ==
  \A rank : Follow(V, E, rank) =>
    \A i, j \in DOMAIN s.stack : i < j => rank[s.stack[i].node] < rank[s.stack[j].node]

Searching(V, E, s) ==
  /\ s \in Searches(V)
  /\ s.cycle => ~\E rank : Follow(V, E, rank)
  /\ ~s.cycle => /\ Once(s) /\ GrayOnStack(V, s) /\ Looked(E, s)
                 /\ Closed(E, s) /\ Ordered(V, E, s) /\ Climbs(V, E, s)

(* What the search has done: nodes and edges it met, nodes it left.        *)
Passed(E, s) ==
  {e \in E : \/ s.color[e[1]] = "black"
             \/ \E i \in DOMAIN s.stack :
                  /\ s.stack[i].node = e[1]
                  /\ \E j \in 1..(s.stack[i].next - 1) : Neighbors(E, e[1])[j] = e[2]}
Done(V, E, s) ==
  ({"met"} \X {n \in V : s.color[n] # "white"}) \cup ({"left"} \X Colored(V, s, "black"))
  \cup ({"passed"} \X Passed(E, s))
Grows(V, E, s, r) == Done(V, E, s) \subseteq Done(V, E, r) /\ Done(V, E, r) \ Done(V, E, s) # {}

LEMMA SearchFacts ==
  ASSUME NEW V \in SUBSET NodeIds, NEW s \in Searches(V)
  PROVE  /\ s.color \in [V -> {"white", "gray", "black"}] /\ s.stack \in Seq(Frames(V))
         /\ Len(s.stack) \in Nat /\ DOMAIN s.stack = 1..Len(s.stack)
         /\ \A i \in DOMAIN s.stack : /\ s.stack[i] \in Frames(V) /\ s.stack[i].node \in V
                                      /\ s.stack[i].next \in Nat \ {0}
         /\ s.stack # << >> => Len(s.stack) # 0 /\ Len(s.stack) \in DOMAIN s.stack
                               /\ Top(s) = s.stack[Len(s.stack)]
         /\ s.stack = << >> => Len(s.stack) = 0 /\ DOMAIN s.stack = {}
<1>1. /\ s.color \in [V -> {"white", "gray", "black"}] /\ s.stack \in Seq(Frames(V))
      /\ Len(s.stack) \in Nat /\ DOMAIN s.stack = 1..Len(s.stack)
  BY DEF Searches
<1>2. ASSUME NEW i \in DOMAIN s.stack
      PROVE  s.stack[i] \in Frames(V) /\ s.stack[i].node \in V /\ s.stack[i].next \in Nat \ {0}
  <2>1. s.stack[i] \in Frames(V)
    BY <1>1
  <2>2. QED
    BY <2>1 DEF Frames
<1>3. s.stack # << >> => Len(s.stack) # 0 /\ Len(s.stack) \in DOMAIN s.stack
                         /\ Top(s) = s.stack[Len(s.stack)]
  BY <1>1 DEF Top
<1>4. s.stack = << >> => Len(s.stack) = 0 /\ DOMAIN s.stack = {}
  OBVIOUS
<1>5. QED
  BY <1>1, <1>2, <1>3, <1>4

LEMMA RootKeeps ==
  ASSUME NEW V \in SUBSET NodeIds, NEW E \in SUBSET (V \X V), NEW s, NEW r \in Searches(V),
         Searching(V, E, s), ~s.cycle, s.stack = << >>, Roots(V, s, r)
  PROVE  Searching(V, E, r) /\ Grows(V, E, s, r)
<1>1. s \in Searches(V)
  BY DEF Searching
<1>2. PICK n \in Colored(V, s, "white") :
        /\ r.color = [s.color EXCEPT ![n] = "gray"] /\ ~r.cycle
        /\ r.stack = <<[node |-> n, next |-> 1]>>
  BY DEF Roots
<1>3. s.color \in [V -> {"white", "gray", "black"}] /\ DOMAIN s.stack = {} /\ n \in V /\ s.color[n] = "white"
  BY <1>1, <1>2, SearchFacts DEF Colored
<1>4. DOMAIN r.stack = {1} /\ r.stack[1].node = n /\ r.stack[1].next = 1
  BY <1>2
<1>5. \A m \in V : r.color[m] = IF m = n THEN "gray" ELSE s.color[m]
  BY <1>2, <1>3
<1>6. Colored(V, r, "black") = Colored(V, s, "black")
  BY <1>3, <1>5 DEF Colored
<1>7. \A e \in E : e[1] \in V /\ e[2] \in V
  OBVIOUS
<1>8. Once(r) /\ GrayOnStack(V, r)
  BY <1>3, <1>4, <1>5 DEF Once, GrayOnStack, Searching
<1>9. Looked(E, r)
  <2>1. Len(Neighbors(E, n)) \in Nat
    BY <1>3, TargetsFacts
  <2>2. QED
    BY <1>4, <2>1 DEF Looked
<1>10. Closed(E, r)
  BY <1>3, <1>5, <1>7 DEF Closed, Searching
<1>11. Ordered(V, E, r) /\ Climbs(V, E, r)
  BY <1>4, <1>6 DEF Ordered, Climbs, Searching
<1>12. Passed(E, s) \subseteq Passed(E, r)
  BY <1>3, <1>5, <1>7 DEF Passed
<1>13. /\ {m \in V : s.color[m] # "white"} \subseteq {m \in V : r.color[m] # "white"}
       /\ n \in {m \in V : r.color[m] # "white"} /\ n \notin {m \in V : s.color[m] # "white"}
  BY <1>3, <1>5
<1>14. <<"met", n>> \in Done(V, E, r) /\ <<"met", n>> \notin Done(V, E, s)
  BY <1>13 DEF Done
<1>15. Grows(V, E, s, r)
  <2>1. Done(V, E, s) \subseteq Done(V, E, r)
    BY <1>6, <1>12, <1>13 DEF Done
  <2>2. QED
    BY <1>14, <2>1 DEF Grows
<1>16. QED
  BY <1>2, <1>8, <1>9, <1>10, <1>11, <1>15 DEF Searching
-----------------------------------------------------------------------------
(* A leaf of the order has the number 1, and the others move up.           *)
LEMMA Lowered ==
  ASSUME NEW E, NEW B, IsFiniteSet(B), NEW n, n \notin B,
         \A e \in E : e[1] \in B \cup {n} => e[2] \in B, Ranks(E, B)
  PROVE  Ranks(E, B \cup {n})
<1>0. PICK rank \in [B -> 1..Cardinality(B)] : \A e \in E : e[1] \in B => rank[e[1]] < rank[e[2]]
  BY DEF Ranks
<1> DEFINE up == [m \in B \cup {n} |-> IF m = n THEN 1 ELSE rank[m] + 1]
<1>1. Cardinality(B) \in Nat /\ Cardinality(B \cup {n}) = Cardinality(B) + 1
  BY FS_CardinalityType, FS_AddElement
<1> DEFINE c == Cardinality(B)
<1>2. c \in Nat /\ Cardinality(B \cup {n}) = c + 1 /\ rank \in [B -> 1..c]
  BY <1>0, <1>1
<1> HIDE DEF c
<1>3. up \in [B \cup {n} -> 1..(c + 1)]
  BY <1>2
<1>4. ASSUME NEW e \in E, e[1] \in B \cup {n} PROVE up[e[1]] < up[e[2]]
  <2>1. e[2] \in B /\ e[2] # n /\ up[e[2]] = rank[e[2]] + 1 /\ rank[e[2]] \in 1..c
    BY <1>2, <1>4
  <2>2. CASE e[1] = n
    BY <1>2, <2>1, <2>2
  <2>3. CASE e[1] # n
    <3>1. e[1] \in B /\ up[e[1]] = rank[e[1]] + 1 /\ rank[e[1]] \in 1..c /\ rank[e[1]] < rank[e[2]]
      BY <1>0, <1>2, <1>4, <2>3
    <3>2. QED
      BY <1>2, <2>1, <3>1
  <2>4. QED
    BY <2>2, <2>3
<1> HIDE DEF up
<1>5. QED
  BY <1>2, <1>3, <1>4 DEF Ranks

LEMMA PopKeeps ==
  ASSUME NEW V \in SUBSET NodeIds, IsFiniteSet(V), NEW E \in SUBSET (V \X V), NEW s,
         NEW r \in Searches(V), Searching(V, E, s), ~s.cycle, s.stack # << >>,
         Top(s).next \notin DOMAIN Neighbors(E, Top(s).node), Pops(s, r)
  PROVE  Searching(V, E, r) /\ Grows(V, E, s, r)
<1> DEFINE len == Len(s.stack)
           n == s.stack[len].node
           t == Neighbors(E, n)
<1>1. s \in Searches(V)
  BY DEF Searching
<1>2. /\ s.color \in [V -> {"white", "gray", "black"}] /\ len \in Nat \ {0}
      /\ DOMAIN s.stack = 1..len /\ len \in DOMAIN s.stack /\ n \in V
      /\ s.stack[len].next \in Nat \ {0} /\ Top(s) = s.stack[len]
      /\ \A i \in DOMAIN s.stack : s.stack[i].node \in V /\ s.stack[i].next \in Nat \ {0}
  BY <1>1, SearchFacts
<1>3. /\ Len(t) \in Nat /\ DOMAIN t = 1..Len(t)
      /\ \A m : <<n, m>> \in E <=> \E j \in DOMAIN t : t[j] = m
  <2> PICK k \in V : k = n
    BY <1>2
  <2>1. t = Neighbors(E, k)
    OBVIOUS
  <2> HIDE DEF t, n
  <2>2. QED
    BY <2>1, TargetsFacts
<1>4. /\ Once(s) /\ GrayOnStack(V, s) /\ Looked(E, s) /\ Closed(E, s) /\ Ordered(V, E, s)
      /\ Climbs(V, E, s)
  BY DEF Searching
<1>a. /\ s.stack[len].next <= Len(t) + 1
      /\ \A j \in 1..(s.stack[len].next - 1) : s.color[t[j]] = "black"
  <2>1. len \in DOMAIN s.stack /\ ~(len < Len(s.stack)) /\ t = Neighbors(E, s.stack[len].node)
    BY <1>2
  <2> HIDE DEF len, t, n
  <2>2. QED
    BY <1>4, <2>1 DEF Looked
<1>5. s.stack[len].next = Len(t) + 1
  <2> DEFINE next == s.stack[len].next
  <2>1. /\ next \in Nat \ {0} /\ Len(t) \in Nat /\ next \notin DOMAIN t /\ DOMAIN t = 1..Len(t)
        /\ next <= Len(t) + 1
    BY <1>2, <1>3, <1>a
  <2> HIDE DEF t, n, len, next
  <2>2. next = Len(t) + 1
    BY <2>1
  <2>3. QED
    BY <2>2 DEF next
<1>6. \A j \in DOMAIN t : s.color[t[j]] = "black"
  <2> DEFINE next == s.stack[len].next  color == s.color
  <2>1. /\ Len(t) \in Nat /\ DOMAIN t = 1..Len(t) /\ next = Len(t) + 1
        /\ \A j \in 1..(next - 1) : color[t[j]] = "black"
    BY <1>3, <1>5, <1>a
  <2> HIDE DEF t, n, len, next, color
  <2>2. 1..(next - 1) = DOMAIN t
    BY <2>1
  <2>3. \A j \in DOMAIN t : color[t[j]] = "black"
    BY <2>1, <2>2
  <2>4. QED
    BY <2>3 DEF color
<1>7. /\ r.color = [s.color EXCEPT ![n] = "black"] /\ ~r.cycle /\ Len(r.stack) = len - 1
      /\ \A i \in 1..(len - 1) : r.stack[i] = s.stack[i]
  BY <1>2 DEF Pops
<1>8. DOMAIN r.stack = 1..(len - 1)
  BY <1>7, SearchFacts
<1>9. \A m \in V : r.color[m] = IF m = n THEN "black" ELSE s.color[m]
  BY <1>2, <1>7
<1>10. s.color[n] = "gray"
  BY <1>2, <1>4 DEF GrayOnStack
<1>11. \A i \in 1..(len - 1) : s.stack[i].node # n /\ i \in DOMAIN s.stack /\ i < len
  BY <1>2, <1>4 DEF Once
<1> DEFINE black == Colored(V, s, "black")
<1>12. Colored(V, r, "black") = black \cup {n} /\ n \in V \ black /\ black \in SUBSET V
  BY <1>2, <1>9, <1>10 DEF Colored
<1>13. \A e \in E : e[1] \in black \cup {n} => e[2] \in black
  <2>1. ASSUME NEW e \in E, e[1] = n PROVE e[2] \in black
    <3>1. <<n, e[2]>> \in E /\ e[2] \in V
      BY <2>1
    <3>2. QED
      BY <1>3, <1>6, <3>1 DEF Colored
  <2>2. ASSUME NEW e \in E, e[1] \in black PROVE e[2] \in black
    BY <1>4, <2>2 DEF Closed, Colored
  <2>3. QED
    BY <2>1, <2>2
<1>14. Once(r)
  BY <1>4, <1>7, <1>8, <1>11 DEF Once
<1>15. GrayOnStack(V, r)
  <2>1. ASSUME NEW m \in V
        PROVE  r.color[m] = "gray" <=> \E i \in DOMAIN r.stack : r.stack[i].node = m
    <3>1. CASE m = n
      BY <1>7, <1>8, <1>9, <1>11, <3>1
    <3>2. CASE m # n
      <4>1. r.color[m] = "gray" <=> \E i \in DOMAIN s.stack : s.stack[i].node = m
        BY <1>4, <1>9, <3>2 DEF GrayOnStack
      <4>2. \A i \in DOMAIN s.stack : s.stack[i].node = m => i \in 1..(len - 1)
        BY <1>2, <3>2
      <4>3. QED
        BY <1>7, <1>8, <1>11, <4>1, <4>2
    <3>3. QED
      BY <3>1, <3>2
  <2>2. QED
    BY <2>1 DEF GrayOnStack
<1>16. \A i \in DOMAIN r.stack : \A j \in 1..(r.stack[i].next - 1) : Neighbors(E, r.stack[i].node)[j] \in V
  <2>1. ASSUME NEW i \in DOMAIN r.stack, NEW j \in 1..(r.stack[i].next - 1)
        PROVE  Neighbors(E, r.stack[i].node)[j] \in V
    <3>1. PICK k \in V : k = r.stack[i].node
      BY <1>2, <1>7, <1>8, <1>11
    <3>2. r.stack[i].next <= Len(Neighbors(E, k)) + 1 /\ r.stack[i].next \in Nat
      BY <1>2, <1>4, <1>7, <1>8, <1>11, <3>1 DEF Looked
    <3>3. Neighbors(E, k) \in Seq(V) /\ DOMAIN Neighbors(E, k) = 1..Len(Neighbors(E, k))
          /\ Len(Neighbors(E, k)) \in Nat
      BY TargetsFacts
    <3>4. j \in DOMAIN Neighbors(E, k)
      BY <3>2, <3>3
    <3>5. QED
      BY <3>1, <3>3, <3>4
  <2>2. QED
    BY <2>1
<1>17. Looked(E, r)
  <2>1. ASSUME NEW i \in DOMAIN r.stack
        PROVE  LET u == Neighbors(E, r.stack[i].node) IN
               /\ r.stack[i].next <= Len(u) + 1
               /\ \A j \in 1..(r.stack[i].next - 1) :
                    r.color[u[j]] = "black" \/ (i < Len(r.stack) /\ u[j] = r.stack[i + 1].node)
    <3> DEFINE u == Neighbors(E, r.stack[i].node)
    <3>1. r.stack[i] = s.stack[i] /\ i \in DOMAIN s.stack /\ i < len
      BY <1>7, <1>8, <1>11
    <3>2. r.stack[i].next <= Len(u) + 1
      BY <1>4, <3>1 DEF Looked
    <3>3. ASSUME NEW j \in 1..(r.stack[i].next - 1)
          PROVE  r.color[u[j]] = "black" \/ (i < Len(r.stack) /\ u[j] = r.stack[i + 1].node)
      <4>1. s.color[u[j]] = "black" \/ u[j] = s.stack[i + 1].node
        BY <1>4, <3>1 DEF Looked
      <4>2. u[j] \in V
        BY <1>16
      <4> HIDE DEF u
      <4>3. CASE i < len - 1
        <5>1. i + 1 \in 1..(len - 1) /\ i < Len(r.stack)
          BY <1>2, <1>7, <1>8, <4>3
        <5>2. QED
          BY <1>7, <1>9, <4>1, <4>2, <5>1
      <4>4. CASE i = len - 1
        <5>1. s.stack[i + 1].node = n
          BY <1>2, <4>4
        <5>2. QED
          BY <1>9, <4>1, <4>2, <5>1
      <4>5. QED
        BY <1>2, <1>8, <4>3, <4>4
    <3>4. QED
      BY <3>2, <3>3
  <2>2. QED
    BY <2>1 DEF Looked
<1>18. Closed(E, r)
  <2>1. ASSUME NEW e \in E, r.color[e[1]] = "black" PROVE r.color[e[2]] = "black"
    <3>1. e[1] \in V /\ e[2] \in V
      OBVIOUS
    <3>2. e[1] \in black \cup {n}
      BY <1>9, <2>1, <3>1 DEF Colored
    <3>3. e[2] \in black
      BY <1>13, <3>2
    <3>4. QED
      BY <1>9, <3>3 DEF Colored
  <2>2. QED
    BY <2>1 DEF Closed
<1>19. Ordered(V, E, r)
  <2>1. IsFiniteSet(black) /\ Ranks(E, black)
    BY <1>4, <1>12, FS_Subset DEF Ordered
  <2> HIDE DEF black, n
  <2>2. Ranks(E, black \cup {n})
    BY <1>12, <1>13, <2>1, Lowered
  <2>3. QED
    BY <1>12, <2>2 DEF Ordered
<1>20. Climbs(V, E, r)
  <2> SUFFICES ASSUME NEW rank, Follow(V, E, rank), NEW i \in DOMAIN r.stack,
                      NEW j \in DOMAIN r.stack, i < j
               PROVE  rank[r.stack[i].node] < rank[r.stack[j].node]
    BY DEF Climbs
  <2>1. /\ r.stack[i] = s.stack[i] /\ r.stack[j] = s.stack[j]
        /\ i \in DOMAIN s.stack /\ j \in DOMAIN s.stack
    BY <1>7, <1>8, <1>11
  <2>2. QED
    BY <1>4, <2>1 DEF Climbs
<1>21. Passed(E, s) \subseteq Passed(E, r)
  <2>1. ASSUME NEW e \in Passed(E, s) PROVE e \in Passed(E, r)
    <3>1. e \in E /\ e[1] \in V
      BY DEF Passed
    <3>2. CASE s.color[e[1]] = "black" \/ e[1] = n
      BY <1>9, <3>1, <3>2 DEF Passed
    <3>3. CASE s.color[e[1]] # "black" /\ e[1] # n
      <4>1. PICK i \in DOMAIN s.stack : /\ s.stack[i].node = e[1]
               /\ \E j \in 1..(s.stack[i].next - 1) : Neighbors(E, e[1])[j] = e[2]
        BY <3>3 DEF Passed
      <4>2. i \in 1..(len - 1)
        BY <1>2, <3>3, <4>1
      <4>3. i \in DOMAIN r.stack /\ r.stack[i] = s.stack[i]
        BY <1>7, <1>8, <4>2
      <4>4. QED
        BY <3>1, <4>1, <4>3 DEF Passed
    <3>4. QED
      BY <3>2, <3>3
  <2>2. QED
    BY <2>1
<1>22. {m \in V : s.color[m] # "white"} \subseteq {m \in V : r.color[m] # "white"}
  BY <1>9
<1>23. Grows(V, E, s, r)
  <2>1. Done(V, E, s) \subseteq Done(V, E, r)
    BY <1>12, <1>21, <1>22 DEF Done
  <2>2. <<"left", n>> \in Done(V, E, r) /\ <<"left", n>> \notin Done(V, E, s)
    BY <1>12 DEF Done
  <2>3. QED
    BY <2>1, <2>2 DEF Grows
<1>24. QED
  BY <1>7, <1>14, <1>15, <1>17, <1>18, <1>19, <1>20, <1>23 DEF Searching
-----------------------------------------------------------------------------
LEMMA NeighborsFacts ==
  ASSUME NEW V \in SUBSET NodeIds, NEW E \in SUBSET (V \X V)
  PROVE  \A n \in V : /\ Len(Neighbors(E, n)) \in Nat
                       /\ DOMAIN Neighbors(E, n) = 1..Len(Neighbors(E, n))
                       /\ \A j \in DOMAIN Neighbors(E, n) : Neighbors(E, n)[j] \in V
<1>1. SUFFICES ASSUME NEW n \in V
               PROVE  /\ Len(Neighbors(E, n)) \in Nat
                      /\ DOMAIN Neighbors(E, n) = 1..Len(Neighbors(E, n))
                      /\ \A j \in DOMAIN Neighbors(E, n) : Neighbors(E, n)[j] \in V
  OBVIOUS
<1> DEFINE t == Neighbors(E, n)
<1>0. t = Neighbors(E, n)
  OBVIOUS
<1> HIDE DEF t
<1>2. t \in Seq(V) /\ Len(t) \in Nat /\ DOMAIN t = 1..Len(t)
  BY <1>0, TargetsFacts
<1>3. \A j \in DOMAIN t : t[j] \in V
  BY <1>2
<1>4. QED
  BY <1>2, <1>3 DEF t

(* The top frame has a target to look at: its edge is one not yet passed.  *)
Targeting(V, E, s, n, m) ==
  /\ n = Top(s).node /\ m = Neighbors(E, n)[Top(s).next]
  /\ n \in V /\ m \in V /\ <<n, m>> \in E /\ <<n, m>> \notin Passed(E, s)
  /\ s.color[n] = "gray" /\ Top(s).next + 1 <= Len(Neighbors(E, n)) + 1
  /\ \A j \in 1..(Top(s).next - 1) : s.color[Neighbors(E, n)[j]] = "black"

LEMMA TopFacts ==
  ASSUME NEW V \in SUBSET NodeIds, NEW E \in SUBSET (V \X V), NEW s,
         Searching(V, E, s), ~s.cycle, s.stack # << >>,
         Top(s).next \in DOMAIN Neighbors(E, Top(s).node)
  PROVE  Targeting(V, E, s, Top(s).node, Neighbors(E, Top(s).node)[Top(s).next])
<1> DEFINE len == Len(s.stack)
           n == s.stack[len].node
           t == Neighbors(E, n)
           k == s.stack[len].next
           m == t[k]
<1>1. s \in Searches(V)
  BY DEF Searching
<1>2. /\ len \in Nat \ {0} /\ DOMAIN s.stack = 1..len /\ len \in DOMAIN s.stack /\ n \in V
      /\ k \in Nat \ {0} /\ Top(s) = s.stack[len]
  BY <1>1, SearchFacts
<1>3. /\ t \in Seq(V) /\ Len(t) \in Nat /\ DOMAIN t = 1..Len(t) /\ Distinct(t)
      /\ \A x : <<n, x>> \in E <=> \E j \in DOMAIN t : t[j] = x
  <2> PICK x \in V : x = n
    BY <1>2
  <2>1. t = Neighbors(E, x)
    OBVIOUS
  <2> HIDE DEF t, n
  <2>2. QED
    BY <2>1, TargetsFacts
<1>4. Once(s) /\ GrayOnStack(V, s) /\ Looked(E, s)
  BY DEF Searching
<1>5. k \in DOMAIN t
  BY <1>2
<1>6. m \in V /\ <<n, m>> \in E /\ k + 1 <= Len(t) + 1
  BY <1>2, <1>3, <1>5
<1>7. s.color[n] = "gray"
  BY <1>2, <1>4 DEF GrayOnStack
<1>8. \A j \in 1..(k - 1) : s.color[t[j]] = "black"
  BY <1>2, <1>4 DEF Looked
<1>9. <<n, m>> \notin Passed(E, s)
  <2>1. SUFFICES ASSUME <<n, m>> \in Passed(E, s) PROVE FALSE
    OBVIOUS
  <2>2. <<n, m>>[1] = n /\ <<n, m>>[2] = m
    OBVIOUS
  <2> HIDE DEF t, m, k
  <2>3. PICK i \in DOMAIN s.stack :
          s.stack[i].node = n /\ \E j \in 1..(s.stack[i].next - 1) : Neighbors(E, n)[j] = m
    BY <1>7, <2>1, <2>2 DEF Passed
  <2>4. i = len
    BY <1>2, <1>4, <2>3 DEF Once
  <2>5. PICK j \in 1..(k - 1) : t[j] = m
    BY <2>3, <2>4 DEF t, k
  <2>6. j \in DOMAIN t /\ j # k
    BY <1>2, <1>3, <1>5
  <2>7. QED
    BY <1>3, <1>5, <2>5, <2>6 DEF Distinct, m
<1>10. QED
  BY <1>2, <1>6, <1>7, <1>8, <1>9 DEF Targeting

LEMMA CycleKeeps ==
  ASSUME NEW V \in SUBSET NodeIds, NEW E \in SUBSET (V \X V), NEW s,
         NEW r \in Searches(V), Searching(V, E, s), ~s.cycle, s.stack # << >>,
         Top(s).next \in DOMAIN Neighbors(E, Top(s).node),
         s.color[Neighbors(E, Top(s).node)[Top(s).next]] = "gray", r.cycle
  PROVE  Searching(V, E, r)
<1> DEFINE len == Len(s.stack)
           n == Top(s).node
           m == Neighbors(E, n)[Top(s).next]
<1>0. Targeting(V, E, s, n, m)
  BY TopFacts
<1>1. m \in V /\ <<n, m>> \in E /\ s.color[m] = "gray"
  BY <1>0 DEF Targeting
<1>2. GrayOnStack(V, s) /\ Climbs(V, E, s) /\ s \in Searches(V)
  BY DEF Searching
<1>3. /\ len \in Nat \ {0} /\ DOMAIN s.stack = 1..len /\ len \in DOMAIN s.stack
      /\ n = s.stack[len].node /\ \A i \in DOMAIN s.stack : s.stack[i].node \in V
  BY <1>2, SearchFacts
<1> HIDE DEF n, m, len
<1>4. PICK i \in DOMAIN s.stack : s.stack[i].node = m
  BY <1>1, <1>2 DEF GrayOnStack
<1>5. ASSUME NEW rank, Follow(V, E, rank) PROVE FALSE
  <2>1. rank[n] \in Nat /\ rank[m] \in Nat /\ rank[n] < rank[m]
    BY <1>1, <1>3, <1>5 DEF Follow
  <2>2. i < len => rank[m] < rank[n]
    BY <1>2, <1>3, <1>4, <1>5 DEF Climbs
  <2>3. i = len => rank[m] = rank[n]
    BY <1>3, <1>4
  <2>4. QED
    BY <1>3, <2>1, <2>2, <2>3
<1>6. QED
  BY <1>5 DEF Searching

LEMMA SkipKeeps ==
  ASSUME NEW V \in SUBSET NodeIds, NEW E \in SUBSET (V \X V), NEW s,
         NEW r \in Searches(V), Searching(V, E, s), ~s.cycle, s.stack # << >>,
         Top(s).next \in DOMAIN Neighbors(E, Top(s).node),
         s.color[Neighbors(E, Top(s).node)[Top(s).next]] = "black", Skips(s, r)
  PROVE  Searching(V, E, r) /\ Grows(V, E, s, r)
<1> DEFINE len == Len(s.stack)
           n == Top(s).node
           k == Top(s).next
           t == Neighbors(E, n)
           m == t[k]
<1>1. /\ n \in V /\ m \in V /\ <<n, m>> \in E /\ <<n, m>> \notin Passed(E, s)
      /\ k + 1 <= Len(t) + 1 /\ \A j \in 1..(k - 1) : s.color[t[j]] = "black"
      /\ s.color[m] = "black"
  <2>1. Targeting(V, E, s, n, m)
    BY TopFacts
  <2>2. QED
    BY <2>1 DEF Targeting
<1>2. /\ Once(s) /\ GrayOnStack(V, s) /\ Looked(E, s) /\ Closed(E, s) /\ Ordered(V, E, s)
      /\ Climbs(V, E, s) /\ s \in Searches(V)
  BY DEF Searching
<1>3. /\ len \in Nat \ {0} /\ DOMAIN s.stack = 1..len /\ len \in DOMAIN s.stack
      /\ s.stack[len].node = n /\ s.stack[len].next = k /\ k \in Nat \ {0}
      /\ \A i \in DOMAIN s.stack : s.stack[i].node \in V /\ s.stack[i].next \in Nat \ {0}
  BY <1>2, SearchFacts
<1>4. /\ r.color = s.color /\ ~r.cycle /\ DOMAIN r.stack = 1..len /\ Len(r.stack) = len
      /\ \A i \in 1..(len - 1) : r.stack[i] = s.stack[i]
      /\ r.stack[len].node = n /\ r.stack[len].next = k + 1
  BY SearchFacts DEF Skips, Moved
<1> HIDE DEF len, n, k, m, t
<1>5. \A i \in 1..len : /\ r.stack[i].node = s.stack[i].node
                        /\ i # len => r.stack[i].next = s.stack[i].next
  BY <1>3, <1>4
<1>6. Once(r) /\ GrayOnStack(V, r) /\ Closed(E, r)
  BY <1>2, <1>3, <1>4, <1>5 DEF Once, GrayOnStack, Closed
<1>7. Ordered(V, E, r)
  BY <1>2, <1>4 DEF Ordered, Colored
<1>8. Climbs(V, E, r)
  <2> SUFFICES ASSUME NEW rank, Follow(V, E, rank), NEW i \in 1..len, NEW j \in 1..len, i < j
               PROVE  rank[r.stack[i].node] < rank[r.stack[j].node]
    BY <1>4 DEF Climbs
  <2>1. QED
    BY <1>2, <1>3, <1>5 DEF Climbs
<1>9. Looked(E, r)
  <2>1. ASSUME NEW i \in 1..len
        PROVE  LET u == Neighbors(E, r.stack[i].node) IN
               /\ r.stack[i].next <= Len(u) + 1
               /\ \A j \in 1..(r.stack[i].next - 1) :
                    r.color[u[j]] = "black" \/ (i < Len(r.stack) /\ u[j] = r.stack[i + 1].node)
    <3>1. CASE i = len
      <4>1. \A j \in 1..k : s.color[t[j]] = "black"
        <5>1. \A j \in 1..k : j = k \/ j \in 1..(k - 1)
          BY <1>3
        <5>2. QED
          BY <1>1, <5>1 DEF m
      <4>2. /\ r.stack[i].node = n /\ r.stack[i].next = k + 1 /\ k + 1 - 1 = k
            /\ \A j \in 1..k : r.color[t[j]] = "black"
        BY <1>3, <1>4, <3>1, <4>1
      <4>3. t = Neighbors(E, r.stack[i].node)
        BY <4>2 DEF t
      <4>4. r.stack[i].next <= Len(t) + 1
        BY <1>1, <4>2
      <4>5. \A j \in 1..(r.stack[i].next - 1) : r.color[t[j]] = "black"
        <5>1. r.stack[i].next - 1 = k
          BY <1>3, <4>2
        <5>2. QED
          BY <4>2, <5>1
      <4>6. QED
        BY <4>3, <4>4, <4>5
    <3>2. CASE i # len
      <4>1. i < len /\ i + 1 \in 1..len /\ r.stack[i + 1].node = s.stack[i + 1].node
        BY <1>3, <1>5, <3>2
      <4>2. /\ r.stack[i].node = s.stack[i].node /\ r.stack[i].next = s.stack[i].next
            /\ i \in DOMAIN s.stack /\ r.color = s.color /\ i < Len(r.stack)
        BY <1>3, <1>4, <1>5, <3>2, <4>1
      <4> DEFINE u == Neighbors(E, s.stack[i].node)
      <4>3. /\ s.stack[i].next <= Len(u) + 1
            /\ \A j \in 1..(s.stack[i].next - 1) :
                 s.color[u[j]] = "black" \/ (i < len /\ u[j] = s.stack[i + 1].node)
        BY <1>2, <4>2 DEF Looked, len
      <4>4. u = Neighbors(E, r.stack[i].node)
        BY <4>2
      <4> HIDE DEF u
      <4>5. \A j \in 1..(r.stack[i].next - 1) :
                 r.color[u[j]] = "black" \/ (i < Len(r.stack) /\ u[j] = r.stack[i + 1].node)
        BY <4>1, <4>2, <4>3
      <4>6. r.stack[i].next <= Len(u) + 1
        BY <4>2, <4>3
      <4>7. QED
        BY <4>4, <4>5, <4>6
    <3>3. QED
      BY <3>1, <3>2
  <2>2. QED
    BY <1>4, <2>1 DEF Looked
<1>10. \A i \in 1..len : 1..(s.stack[i].next - 1) \subseteq 1..(r.stack[i].next - 1)
  BY <1>3, <1>4, <1>5
<1>11. Passed(E, s) \subseteq Passed(E, r)
  BY <1>3, <1>4, <1>5, <1>10 DEF Passed
<1>12. <<n, m>> \in Passed(E, r)
  <2>1. <<n, m>>[1] = n /\ <<n, m>>[2] = m /\ Neighbors(E, n)[k] = m
    BY DEF t, m
  <2>2. len \in DOMAIN r.stack /\ k \in 1..(r.stack[len].next - 1)
    BY <1>3, <1>4
  <2>3. QED
    BY <1>1, <1>4, <2>1, <2>2 DEF Passed
<1>13. Grows(V, E, s, r)
  <2>1. Done(V, E, s) \subseteq Done(V, E, r)
    BY <1>4, <1>11 DEF Done, Colored
  <2>2. <<"passed", <<n, m>> >> \in Done(V, E, r) /\ <<"passed", <<n, m>> >> \notin Done(V, E, s)
    BY <1>1, <1>12 DEF Done
  <2>3. QED
    BY <2>1, <2>2 DEF Grows
<1>14. QED
  BY <1>4, <1>6, <1>7, <1>8, <1>9, <1>13 DEF Searching

LEMMA PushKeeps ==
  ASSUME NEW V \in SUBSET NodeIds, NEW E \in SUBSET (V \X V), NEW s,
         NEW r \in Searches(V), Searching(V, E, s), ~s.cycle, s.stack # << >>,
         Top(s).next \in DOMAIN Neighbors(E, Top(s).node),
         s.color[Neighbors(E, Top(s).node)[Top(s).next]] = "white",
         Pushes(s, r, Neighbors(E, Top(s).node)[Top(s).next])
  PROVE  Searching(V, E, r) /\ Grows(V, E, s, r)
<1> DEFINE len == Len(s.stack)
           n == Top(s).node
           k == Top(s).next
           t == Neighbors(E, n)
           m == t[k]
<1>1. /\ n \in V /\ m \in V /\ <<n, m>> \in E /\ s.color[m] = "white"
      /\ k + 1 <= Len(t) + 1 /\ \A j \in 1..(k - 1) : s.color[t[j]] = "black"
  <2>1. Targeting(V, E, s, n, m)
    BY TopFacts
  <2>2. QED
    BY <2>1 DEF Targeting
<1>2. /\ Once(s) /\ GrayOnStack(V, s) /\ Looked(E, s) /\ Closed(E, s) /\ Ordered(V, E, s)
      /\ Climbs(V, E, s) /\ s \in Searches(V)
  BY DEF Searching
<1>3. /\ len \in Nat \ {0} /\ DOMAIN s.stack = 1..len /\ len \in DOMAIN s.stack
      /\ s.stack[len].node = n /\ s.stack[len].next = k /\ k \in Nat \ {0}
      /\ \A i \in DOMAIN s.stack : s.stack[i].node \in V /\ s.stack[i].next \in Nat \ {0}
      /\ s.color \in [V -> {"white", "gray", "black"}]
  BY <1>2, SearchFacts
<1>4. /\ r.color = [s.color EXCEPT ![m] = "gray"] /\ ~r.cycle
      /\ DOMAIN r.stack = 1..(len + 1) /\ Len(r.stack) = len + 1
      /\ \A i \in 1..(len - 1) : r.stack[i] = s.stack[i]
      /\ r.stack[len].node = n /\ r.stack[len].next = k + 1
      /\ r.stack[len + 1].node = m /\ r.stack[len + 1].next = 1
  BY SearchFacts DEF Pushes, Moved
<1>5. \A x \in V : r.color[x] = IF x = m THEN "gray" ELSE s.color[x]
  BY <1>1, <1>3, <1>4
<1>6. /\ Len(Neighbors(E, m)) \in Nat
      /\ \A x \in V : \A j \in DOMAIN Neighbors(E, x) : Neighbors(E, x)[j] \in V
  <2>1. \A x \in V : /\ Len(Neighbors(E, x)) \in Nat
                     /\ \A j \in DOMAIN Neighbors(E, x) : Neighbors(E, x)[j] \in V
    BY NeighborsFacts
  <2>2. QED
    BY <1>1, <2>1
<1> HIDE DEF len, n, k, m, t
<1>7. \A i \in 1..len : /\ r.stack[i].node = s.stack[i].node /\ i \in 1..(len + 1)
                        /\ i # len => r.stack[i].next = s.stack[i].next
  BY <1>3, <1>4
<1>8. \A i \in 1..(len + 1) : i # len + 1 => i \in 1..len
  BY <1>3
<1>9. len + 1 \in 1..(len + 1) /\ len + 1 \notin 1..len /\ len \in 1..len
  BY <1>3
<1>10. \A i \in 1..len : s.stack[i].node # m
  BY <1>1, <1>2, <1>3 DEF GrayOnStack
<1>11. Once(r)
  <2> SUFFICES ASSUME NEW i \in 1..(len + 1), NEW j \in 1..(len + 1),
                      r.stack[i].node = r.stack[j].node
               PROVE  i = j
    BY <1>4 DEF Once
  <2>1. CASE i \in 1..len /\ j \in 1..len
    BY <1>2, <1>3, <1>7, <2>1 DEF Once
  <2>2. CASE i = len + 1 \/ j = len + 1
    BY <1>4, <1>7, <1>8, <1>10, <2>2
  <2>3. QED
    BY <1>8, <2>1, <2>2
<1>12. GrayOnStack(V, r)
  <2> SUFFICES ASSUME NEW x \in V
               PROVE  r.color[x] = "gray" <=> \E i \in 1..(len + 1) : r.stack[i].node = x
    BY <1>4 DEF GrayOnStack
  <2>1. s.color[x] = "gray" <=> \E i \in 1..len : s.stack[i].node = x
    BY <1>2, <1>3 DEF GrayOnStack
  <2>2. CASE x = m
    BY <1>4, <1>5, <1>9, <2>2
  <2>3. CASE x # m
    BY <1>4, <1>5, <1>7, <1>8, <2>1, <2>3
  <2>4. QED
    BY <2>2, <2>3
<1>13. Colored(V, r, "black") = Colored(V, s, "black")
  BY <1>1, <1>5 DEF Colored
<1>14. Ordered(V, E, r)
  BY <1>2, <1>13 DEF Ordered
<1>15. Closed(E, r)
  <2>1. \A e \in E : e[1] \in V /\ e[2] \in V
    OBVIOUS
  <2>2. QED
    BY <1>1, <1>2, <1>5, <2>1 DEF Closed
<1>16. Climbs(V, E, r)
  <2> SUFFICES ASSUME NEW rank, Follow(V, E, rank), NEW i \in 1..(len + 1),
                      NEW j \in 1..(len + 1), i < j
               PROVE  rank[r.stack[i].node] < rank[r.stack[j].node]
    BY <1>4 DEF Climbs
  <2>1. rank[n] < rank[m] /\ \A x \in V : rank[x] \in Nat
    BY <1>1 DEF Follow
  <2>2. \A a, b \in 1..len : a < b => rank[s.stack[a].node] < rank[s.stack[b].node]
    BY <1>2, <1>3 DEF Climbs
  <2>3. i \in 1..len /\ s.stack[i].node \in V
    BY <1>3
  <2>4. CASE j \in 1..len
    BY <1>7, <2>2, <2>3, <2>4
  <2>5. CASE j = len + 1
    <3>1. rank[s.stack[i].node] \in Nat /\ rank[n] \in Nat /\ rank[m] \in Nat
      BY <1>1, <2>1, <2>3
    <3>2. CASE i = len
      BY <1>3, <1>4, <1>7, <2>1, <2>5, <3>2
    <3>3. CASE i # len
      <4>1. i < len
        BY <1>3, <2>3, <3>3
      <4>2. rank[s.stack[i].node] < rank[n]
        BY <1>3, <1>9, <2>2, <2>3, <4>1
      <4>3. r.stack[i].node = s.stack[i].node /\ r.stack[j].node = m
        BY <1>4, <1>7, <2>3, <2>5
      <4> DEFINE a == rank[s.stack[i].node]
                 b == rank[n]
                 c == rank[m]
      <4>4. a \in Nat /\ b \in Nat /\ c \in Nat /\ a < b /\ b < c
        BY <2>1, <3>1, <4>2
      <4> HIDE DEF a, b, c
      <4>5. a < c
        BY <4>4
      <4>6. QED
        BY <4>3, <4>5 DEF a, c
    <3>4. QED
      BY <3>2, <3>3
  <2>6. QED
    BY <1>8, <2>4, <2>5
<1>17. Looked(E, r)
  <2>1. ASSUME NEW i \in 1..(len + 1)
        PROVE  LET u == Neighbors(E, r.stack[i].node) IN
               /\ r.stack[i].next <= Len(u) + 1
               /\ \A j \in 1..(r.stack[i].next - 1) :
                    r.color[u[j]] = "black" \/ (i < Len(r.stack) /\ u[j] = r.stack[i + 1].node)
    <3> DEFINE u == Neighbors(E, r.stack[i].node)
    <3>1. CASE i = len + 1
      BY <1>4, <1>6, <3>1
    <3>2. CASE i = len
      <4>1. k + 1 - 1 = k /\ \A j \in 1..k : j = k \/ j \in 1..(k - 1)
        BY <1>3
      <4>2. \A j \in 1..(k - 1) : r.color[t[j]] = "black"
        <5>1. \A j \in 1..(k - 1) : t[j] \in V
          <6>1. \A j \in 1..(k - 1) : j \in 1..Len(t)
            <7>1. Len(t) \in Nat
              BY <1>1, NeighborsFacts DEF t
            <7>2. QED
              BY <1>1, <1>3, <7>1
          <6>2. DOMAIN t = 1..Len(t)
            BY <1>1, NeighborsFacts DEF t
          <6>3. QED
            BY <1>1, <1>6, <6>1, <6>2 DEF t
        <5>2. QED
          BY <1>1, <1>5, <5>1
      <4>3. t[k] = m
        BY DEF m
      <4>4. u = t /\ r.stack[i].next = k + 1 /\ r.stack[i + 1].node = m /\ i < Len(r.stack)
        BY <1>3, <1>4, <3>2 DEF t
      <4> HIDE DEF u
      <4>5. \A j \in 1..k :
              r.color[t[j]] = "black" \/ (i < Len(r.stack) /\ t[j] = r.stack[i + 1].node)
        BY <4>1, <4>2, <4>3, <4>4
      <4>6. r.stack[i].next <= Len(t) + 1 /\ t = Neighbors(E, r.stack[i].node)
        BY <1>1, <4>4 DEF u
      <4>7. \A j \in 1..(r.stack[i].next - 1) :
              r.color[t[j]] = "black" \/ (i < Len(r.stack) /\ t[j] = r.stack[i + 1].node)
        <5>1. r.stack[i].next - 1 = k
          BY <1>3, <4>4
        <5>2. QED
          BY <4>5, <5>1
      <4>8. QED
        BY <4>6, <4>7
    <3>3. CASE i \in 1..len /\ i # len
      <4>1. /\ r.stack[i] = s.stack[i] /\ i \in DOMAIN s.stack /\ i < len /\ i + 1 \in 1..len
            /\ r.stack[i + 1].node = s.stack[i + 1].node /\ i < Len(r.stack)
        BY <1>3, <1>4, <1>7, <3>3
      <4>2. /\ r.stack[i].next <= Len(u) + 1
            /\ \A j \in 1..(r.stack[i].next - 1) :
                 s.color[u[j]] = "black" \/ u[j] = r.stack[i + 1].node
        BY <1>2, <4>1 DEF Looked
      <4>3. \A j \in 1..(r.stack[i].next - 1) : u[j] \in V
        <5>1. r.stack[i].node \in V /\ r.stack[i].next \in Nat
          BY <1>3, <4>1
        <5>2. Len(u) \in Nat /\ DOMAIN u = 1..Len(u)
          BY <5>1, NeighborsFacts
        <5>3. \A j \in 1..(r.stack[i].next - 1) : j \in DOMAIN u
          BY <4>2, <5>1, <5>2
        <5>4. QED
          BY <1>6, <5>1, <5>3
      <4> HIDE DEF u
      <4>4. \A j \in 1..(r.stack[i].next - 1) :
              s.color[u[j]] = "black" => r.color[u[j]] = "black"
        BY <1>1, <1>5, <4>3
      <4>5. QED
        BY <4>1, <4>2, <4>4 DEF u
    <3>4. QED
      BY <1>8, <3>1, <3>2, <3>3
  <2>2. QED
    BY <1>4, <2>1 DEF Looked
<1>18. \A i \in 1..len : 1..(s.stack[i].next - 1) \subseteq 1..(r.stack[i].next - 1)
  BY <1>3, <1>4, <1>7
<1>19. Passed(E, s) \subseteq Passed(E, r)
  <2>1. ASSUME NEW e \in Passed(E, s) PROVE e \in Passed(E, r)
    <3>1. e \in E /\ e[1] \in V
      BY DEF Passed
    <3>2. CASE s.color[e[1]] = "black"
      BY <1>1, <1>5, <3>1, <3>2 DEF Passed
    <3>3. CASE s.color[e[1]] # "black"
      <4>1. PICK i \in 1..len : /\ s.stack[i].node = e[1]
               /\ \E j \in 1..(s.stack[i].next - 1) : Neighbors(E, e[1])[j] = e[2]
        BY <1>3, <3>3 DEF Passed
      <4>2. /\ i \in DOMAIN r.stack /\ r.stack[i].node = e[1]
            /\ \E j \in 1..(r.stack[i].next - 1) : Neighbors(E, e[1])[j] = e[2]
        BY <1>4, <1>7, <1>18, <4>1
      <4>3. QED
        BY <3>1, <4>2 DEF Passed
    <3>4. QED
      BY <3>2, <3>3
  <2>2. QED
    BY <2>1
<1>20. Grows(V, E, s, r)
  <2>1. /\ {x \in V : s.color[x] # "white"} \subseteq {x \in V : r.color[x] # "white"}
        /\ m \in {x \in V : r.color[x] # "white"} /\ m \notin {x \in V : s.color[x] # "white"}
    BY <1>1, <1>5
  <2>2. Done(V, E, s) \subseteq Done(V, E, r)
    BY <1>13, <1>19, <2>1 DEF Done
  <2>3. <<"met", m>> \in Done(V, E, r) /\ <<"met", m>> \notin Done(V, E, s)
    BY <2>1 DEF Done
  <2>4. QED
    BY <2>2, <2>3 DEF Grows
<1>21. QED
  BY <1>4, <1>11, <1>12, <1>14, <1>15, <1>16, <1>17, <1>20 DEF Searching
-----------------------------------------------------------------------------
LEMMA FiniteNodes == IsFiniteSet(NodeIds)
<1> DEFINE n == Len(NodeOrder)
<1>1. n \in Nat /\ DOMAIN NodeOrder = 1..n /\ NodeOrder \in [1..n -> NodeIds]
  BY FlowStoreAssumption
<1>2. NodeOrder \in Surjection(1..n, NodeIds)
  BY <1>1 DEF NodeIds, Surjection
<1>3. IsFiniteSet(1..n)
  BY <1>1, FS_Interval
<1> HIDE DEF n
<1>4. QED
  BY <1>2, <1>3, FS_Surjection

(* A round that neither finds a cycle nor ends the search does something.  *)
Over(V, s) == s.stack = << >> /\ Colored(V, s, "white") = {}
LEMMA RoundKeeps ==
  ASSUME NEW V \in SUBSET NodeIds, IsFiniteSet(V), NEW E \in SUBSET (V \X V), NEW s, NEW r,
         Searching(V, E, s), r = SearchOn(V, E, s)
  PROVE  /\ Searching(V, E, r)
         /\ s.cycle => r.cycle
         /\ r.cycle \/ Over(V, r) \/ (~s.cycle /\ ~Over(V, s) /\ Grows(V, E, s, r))
<1>1. s \in Searches(V)
  BY DEF Searching
<1>2. r \in Searches(V) /\ RoundOf(V, E, s, r)
  BY <1>1, RoundFacts
<1>3. CASE s.cycle /\ r = s
  BY <1>3
<1>4. CASE ~s.cycle /\ s.stack = << >> /\ Colored(V, s, "white") = {} /\ r = s
  BY <1>4 DEF Over
<1>5. CASE ~s.cycle /\ s.stack = << >> /\ Roots(V, s, r)
  <2>1. Searching(V, E, r) /\ Grows(V, E, s, r)
    BY <1>2, <1>5, RootKeeps
  <2>2. ~Over(V, s)
    BY <1>5 DEF Over, Roots
  <2>3. QED
    BY <1>5, <2>1, <2>2
<1>6. CASE ~s.cycle /\ s.stack # << >>
  <2> DEFINE t == Neighbors(E, Top(s).node)
             m == t[Top(s).next]
  <2>1. ~Over(V, s)
    BY <1>6 DEF Over
  <2>2. CASE Top(s).next \notin DOMAIN t /\ Pops(s, r)
    <3>1. Searching(V, E, r) /\ Grows(V, E, s, r)
      BY <1>2, <1>6, <2>2, PopKeeps
    <3>2. QED
      BY <1>6, <2>1, <3>1
  <2>3. CASE Top(s).next \in DOMAIN t /\ s.color[m] = "gray" /\ r.cycle
    <3>1. Searching(V, E, r)
      BY <1>2, <1>6, <2>3, CycleKeeps
    <3>2. QED
      BY <1>6, <2>3, <3>1
  <2>4. CASE Top(s).next \in DOMAIN t /\ s.color[m] = "white" /\ Pushes(s, r, m)
    <3>1. Searching(V, E, r) /\ Grows(V, E, s, r)
      BY <1>2, <1>6, <2>4, PushKeeps
    <3>2. QED
      BY <1>6, <2>1, <3>1
  <2>5. CASE Top(s).next \in DOMAIN t /\ s.color[m] = "black" /\ Skips(s, r)
    <3>1. Searching(V, E, r) /\ Grows(V, E, s, r)
      BY <1>2, <1>6, <2>5, SkipKeeps
    <3>2. QED
      BY <1>6, <2>1, <3>1
  <2>6. \/ Top(s).next \notin DOMAIN t /\ Pops(s, r)
        \/ Top(s).next \in DOMAIN t /\ s.color[m] = "gray" /\ r.cycle
        \/ Top(s).next \in DOMAIN t /\ s.color[m] = "white" /\ Pushes(s, r, m)
        \/ Top(s).next \in DOMAIN t /\ s.color[m] = "black" /\ Skips(s, r)
    BY <1>2, <1>6 DEF RoundOf
  <2> HIDE DEF t, m
  <2>7. QED
    BY <2>2, <2>3, <2>4, <2>5, <2>6
<1>7. QED
  BY <1>2, <1>3, <1>4, <1>5, <1>6 DEF RoundOf
-----------------------------------------------------------------------------
LEMMA FiniteEdges ==
  ASSUME NEW V, IsFiniteSet(V), NEW E \in SUBSET (V \X V)
  PROVE  IsFiniteSet(E) /\ Cardinality(V) \in Nat /\ Cardinality(E) \in Nat
<1>1. IsFiniteSet(V \X V)
  BY FS_Product
<1>2. IsFiniteSet(E)
  BY <1>1, FS_Subset
<1>3. QED
  BY <1>2, FS_CardinalityType

(* What there is to do: each node is met and left, each edge passed.       *)
LEMMA DoneFacts ==
  ASSUME NEW V \in SUBSET NodeIds, IsFiniteSet(V), NEW E \in SUBSET (V \X V),
         NEW s \in Searches(V)
  PROVE  /\ IsFiniteSet(Done(V, E, s)) /\ Cardinality(Done(V, E, s)) \in Nat
         /\ Cardinality(Done(V, E, s)) <= 2 * Cardinality(V) + Cardinality(E)
         /\ Cardinality(Done(V, E, s)) = 2 * Cardinality(V) + Cardinality(E)
              => Colored(V, s, "black") = V
<1> DEFINE A == {"met"} \X V
           B == {"left"} \X V
           C == {"passed"} \X E
           all == (A \cup B) \cup C
<1>1. IsFiniteSet(E) /\ Cardinality(V) \in Nat /\ Cardinality(E) \in Nat
  BY FiniteEdges
<1>2. \A x, S : IsFiniteSet(S) /\ Cardinality(S) \in Nat
        => IsFiniteSet({x} \X S) /\ Cardinality({x} \X S) = Cardinality(S)
  <2>1. SUFFICES ASSUME NEW x, NEW S, IsFiniteSet(S), Cardinality(S) \in Nat
                 PROVE  IsFiniteSet({x} \X S) /\ Cardinality({x} \X S) = Cardinality(S)
    OBVIOUS
  <2>2. IsFiniteSet({x}) /\ Cardinality({x}) = 1
    BY FS_Singleton
  <2>3. IsFiniteSet({x} \X S) /\ Cardinality({x} \X S) = Cardinality({x}) * Cardinality(S)
    BY <2>1, <2>2, FS_Product
  <2>4. QED
    BY <2>1, <2>2, <2>3
<1>3. /\ IsFiniteSet(A) /\ Cardinality(A) = Cardinality(V)
      /\ IsFiniteSet(B) /\ Cardinality(B) = Cardinality(V)
      /\ IsFiniteSet(C) /\ Cardinality(C) = Cardinality(E)
  BY <1>1, <1>2
<1>4. A \cap B = {} /\ (A \cup B) \cap C = {}
  OBVIOUS
<1>5. Done(V, E, s) \subseteq all
  BY DEF Done, Colored, Passed
<1>6. Colored(V, s, "black") # V => Done(V, E, s) # all
  <2>1. ASSUME Colored(V, s, "black") # V PROVE Done(V, E, s) # all
    <3>1. PICK n \in V : n \notin Colored(V, s, "black")
      BY <2>1 DEF Colored
    <3>2. <<"left", n>> \in all /\ <<"left", n>> \notin Done(V, E, s)
      BY <3>1 DEF Done
    <3>3. QED
      BY <3>2
  <2>2. QED
    BY <2>1
<1> HIDE DEF A, B, C
<1>7. /\ IsFiniteSet(A \cup B) /\ Cardinality(A \cup B) = 2 * Cardinality(V)
  <2>1. IsFiniteSet(A \cup B)
        /\ Cardinality(A \cup B) = Cardinality(A) + Cardinality(B) - Cardinality(A \cap B)
    BY <1>3, FS_Union
  <2>2. Cardinality(A \cap B) = 0
    BY <1>4, FS_EmptySet
  <2>3. QED
    BY <1>1, <1>3, <2>1, <2>2
<1>8. IsFiniteSet(all) /\ Cardinality(all) = 2 * Cardinality(V) + Cardinality(E)
  <2>1. IsFiniteSet(all)
        /\ Cardinality(all) = Cardinality(A \cup B) + Cardinality(C) - Cardinality((A \cup B) \cap C)
    BY <1>3, <1>7, FS_Union
  <2>2. Cardinality((A \cup B) \cap C) = 0
    BY <1>4, FS_EmptySet
  <2>3. QED
    BY <1>1, <1>3, <1>7, <2>1, <2>2
<1> HIDE DEF all
<1>9. /\ IsFiniteSet(Done(V, E, s)) /\ Cardinality(Done(V, E, s)) <= Cardinality(all)
      /\ Cardinality(all) = Cardinality(Done(V, E, s)) => all = Done(V, E, s)
  BY <1>5, <1>8, FS_Subset
<1>10. Cardinality(Done(V, E, s)) \in Nat
  BY <1>9, FS_CardinalityType
<1>11. QED
  BY <1>6, <1>8, <1>9, <1>10

LEMMA GrowsCounts ==
  ASSUME NEW V \in SUBSET NodeIds, IsFiniteSet(V), NEW E \in SUBSET (V \X V),
         NEW s \in Searches(V), NEW r \in Searches(V), Grows(V, E, s, r)
  PROVE  Cardinality(Done(V, E, r)) >= Cardinality(Done(V, E, s)) + 1
<1>1. /\ IsFiniteSet(Done(V, E, r)) /\ Cardinality(Done(V, E, r)) \in Nat
      /\ Cardinality(Done(V, E, s)) \in Nat
  BY DoneFacts
<1>2. Done(V, E, s) \subseteq Done(V, E, r) /\ Done(V, E, s) # Done(V, E, r)
  BY DEF Grows
<1>3. /\ Cardinality(Done(V, E, s)) <= Cardinality(Done(V, E, r))
      /\ Cardinality(Done(V, E, r)) = Cardinality(Done(V, E, s)) => Done(V, E, r) = Done(V, E, s)
  BY <1>1, <1>2, FS_Subset
<1>4. QED
  BY <1>1, <1>2, <1>3

(* The search ends within its rounds, and answers rightly.                 *)
StartOf(V) == [color |-> [n \in V |-> "white"], stack |-> << >>, cycle |-> FALSE]
Counted(V, E, s, k) ==
  Searching(V, E, s) /\ (s.cycle \/ Over(V, s) \/ Cardinality(Done(V, E, s)) >= k)

LEMMA StartCounted ==
  ASSUME NEW V \in SUBSET NodeIds, IsFiniteSet(V), NEW E \in SUBSET (V \X V)
  PROVE  StartOf(V) \in Searches(V) /\ Counted(V, E, StartOf(V), 0)
<1> DEFINE s == StartOf(V)
<1>1. /\ s.color = [n \in V |-> "white"] /\ s.stack = << >> /\ s.cycle = FALSE
      /\ s \in Searches(V)
  BY DEF StartOf, Searches
<1>2. DOMAIN s.stack = {} /\ \A n \in V : s.color[n] = "white"
  BY <1>1
<1> HIDE DEF s
<1>3. Once(s) /\ GrayOnStack(V, s) /\ Looked(E, s) /\ Climbs(V, E, s)
  BY <1>2 DEF Once, GrayOnStack, Looked, Climbs
<1>4. Closed(E, s)
  <2>1. \A e \in E : e[1] \in V
    OBVIOUS
  <2>2. QED
    BY <1>2, <2>1 DEF Closed
<1>5. Ordered(V, E, s)
  <2>1. Colored(V, s, "black") = {}
    BY <1>2 DEF Colored
  <2>2. Ranks(E, {})
    <3> DEFINE rank == [n \in {} |-> 1]
    <3>1. rank \in [{} -> 1..Cardinality({})] /\ \A e \in E : e[1] \in {} => rank[e[1]] < rank[e[2]]
      OBVIOUS
    <3> HIDE DEF rank
    <3>2. QED
      BY <3>1 DEF Ranks
  <2>3. QED
    BY <2>1, <2>2 DEF Ordered
<1>6. Searching(V, E, s)
  BY <1>1, <1>3, <1>4, <1>5 DEF Searching
<1>7. Cardinality(Done(V, E, s)) >= 0
  BY <1>1, DoneFacts
<1>8. QED
  BY <1>1, <1>6, <1>7 DEF Counted, s

LEMMA NextCounted ==
  ASSUME NEW V \in SUBSET NodeIds, IsFiniteSet(V), NEW E \in SUBSET (V \X V), NEW s,
         NEW k \in Nat, Counted(V, E, s, k)
  PROVE  SearchOn(V, E, s) \in Searches(V) /\ Counted(V, E, SearchOn(V, E, s), k + 1)
<1>1. PICK r : r = SearchOn(V, E, s)
  OBVIOUS
<1>2. Searching(V, E, s) /\ s \in Searches(V)
  BY DEF Counted, Searching
<1>3. /\ Searching(V, E, r) /\ s.cycle => r.cycle
      /\ r.cycle \/ Over(V, r) \/ (~s.cycle /\ ~Over(V, s) /\ Grows(V, E, s, r))
  BY <1>1, <1>2, RoundKeeps
<1>4. Searching(V, E, r)
  BY <1>1, <1>2, RoundKeeps
<1>5. r \in Searches(V)
  BY <1>4 DEF Searching
<1>6. CASE r.cycle \/ Over(V, r)
  BY <1>1, <1>4, <1>5, <1>6 DEF Counted
<1>7. CASE ~s.cycle /\ ~Over(V, s) /\ Grows(V, E, s, r)
  <2>1. Cardinality(Done(V, E, r)) >= Cardinality(Done(V, E, s)) + 1
    BY <1>2, <1>5, <1>7, GrowsCounts
  <2>2. Cardinality(Done(V, E, s)) >= k
    BY <1>7 DEF Counted
  <2>3. Cardinality(Done(V, E, s)) \in Nat /\ Cardinality(Done(V, E, r)) \in Nat
    BY <1>2, <1>5, DoneFacts
  <2>4. Cardinality(Done(V, E, r)) >= k + 1
    BY <2>1, <2>2, <2>3
  <2>5. QED
    BY <1>1, <1>4, <1>5, <2>4 DEF Counted
<1>8. QED
  BY <1>3, <1>6, <1>7

LEMMA EndAnswers ==
  ASSUME NEW V \in SUBSET NodeIds, IsFiniteSet(V), NEW E \in SUBSET (V \X V), NEW s,
         Counted(V, E, s, 2 * Cardinality(V) + Cardinality(E))
  PROVE  s.cycle <=> ~Ranks(E, V)
<1>1. Searching(V, E, s) /\ s \in Searches(V)
  BY DEF Counted, Searching
<1>2. CASE s.cycle
  <2>1. SUFFICES ASSUME Ranks(E, V) PROVE FALSE
    BY <1>2
  <2>2. PICK rank \in [V -> 1..Cardinality(V)] :
          \A e \in E : e[1] \in V => rank[e[1]] < rank[e[2]]
    BY <2>1 DEF Ranks
  <2>3. Follow(V, E, rank)
    <3>1. \A e \in E : e[1] \in V
      OBVIOUS
    <3>2. rank \in [V -> Nat]
      <4>1. Cardinality(V) \in Nat
        BY FS_CardinalityType
      <4>2. QED
        BY <2>2, <4>1
    <3>3. QED
      BY <2>2, <3>1, <3>2 DEF Follow
  <2>4. QED
    BY <1>1, <1>2, <2>3 DEF Searching
<1>3. CASE ~s.cycle
  <2>1. Colored(V, s, "black") = V
    <3>1. CASE Over(V, s)
      <4>1. DOMAIN s.stack = {}
        BY <3>1 DEF Over
      <4>2. \A n \in V : s.color[n] # "gray" /\ s.color[n] # "white"
        BY <1>1, <1>3, <3>1, <4>1 DEF Searching, GrayOnStack, Over, Colored
      <4>3. \A n \in V : s.color[n] \in {"white", "gray", "black"}
        BY <1>1, SearchFacts
      <4>4. QED
        BY <4>2, <4>3 DEF Colored
    <3>2. CASE ~Over(V, s)
      <4>1. Cardinality(Done(V, E, s)) >= 2 * Cardinality(V) + Cardinality(E)
        BY <1>3, <3>2 DEF Counted
      <4>2. Cardinality(V) \in Nat /\ Cardinality(E) \in Nat
        BY FiniteEdges
      <4>3. /\ Cardinality(Done(V, E, s)) \in Nat
            /\ Cardinality(Done(V, E, s)) <= 2 * Cardinality(V) + Cardinality(E)
            /\ Cardinality(Done(V, E, s)) = 2 * Cardinality(V) + Cardinality(E)
                 => Colored(V, s, "black") = V
        BY <1>1, DoneFacts
      <4>4. QED
        BY <4>1, <4>2, <4>3
    <3>3. QED
      BY <3>1, <3>2
  <2>2. Ranks(E, V)
    BY <1>1, <1>3, <2>1 DEF Searching, Ordered
  <2>3. QED
    BY <1>3, <2>2
<1>4. QED
  BY <1>2, <1>3

LEMMA HasCycleFacts ==
  ASSUME NEW V \in SUBSET NodeIds, NEW E \in SUBSET (V \X V)
  PROVE  HasCycle(V, E) <=> ~Ranks(E, V)
<1> DEFINE rounds == 2 * Cardinality(V) + Cardinality(E)
           Is(g) == g = [k \in 0..rounds |-> IF k = 0 THEN StartOf(V) ELSE SearchOn(V, E, g[k - 1])]
           G == CHOOSE g : Is(g)
<1>1. IsFiniteSet(V) /\ rounds \in Nat
  <2>1. IsFiniteSet(V)
    BY FiniteNodes, FS_Subset
  <2>2. Cardinality(V) \in Nat /\ Cardinality(E) \in Nat
    BY <2>1, FiniteEdges
  <2>3. QED
    BY <2>1, <2>2
<1>2. HasCycle(V, E) = G[rounds].cycle
  BY DEF HasCycle, StartOf
<1> HIDE DEF rounds
<1>3. \E g : Is(g)
  <2> DEFINE F == [p \in (1..rounds) \X Searches(V) |-> SearchOn(V, E, p[2])]
  <2>1. F \in [(1..rounds) \X Searches(V) -> Searches(V)]
    <3>1. \A s \in Searches(V) : SearchOn(V, E, s) \in Searches(V)
      BY RoundFacts
    <3>2. QED
      BY <3>1
  <2>2. StartOf(V) \in Searches(V)
    BY <1>1, StartCounted
  <2> HIDE DEF F
  <2>3. PICK g \in [0..rounds -> Searches(V)] : Follows(g, rounds, StartOf(V), F)
    BY <1>1, <2>1, <2>2, Recursion
  <2>4. ASSUME NEW k \in 1..rounds PROVE g[k] = SearchOn(V, E, g[k - 1])
    <3>1. k - 1 \in 0..rounds /\ <<k, g[k - 1]>> \in (1..rounds) \X Searches(V)
      BY <1>1
    <3>2. QED
      BY <2>3, <3>1 DEF F, Follows
  <2>5. \A k \in 0..rounds : g[k] = IF k = 0 THEN StartOf(V) ELSE SearchOn(V, E, g[k - 1])
    BY <1>1, <2>3, <2>4 DEF Follows
  <2>6. g = [k \in 0..rounds |-> IF k = 0 THEN StartOf(V) ELSE SearchOn(V, E, g[k - 1])]
    BY <2>3, <2>5
  <2>7. QED
    BY <2>6
<1> HIDE DEF Is
<1>4. Is(G)
  BY <1>3
<1> HIDE DEF G
<1>5. G[0] = StartOf(V) /\ \A k \in 1..rounds : G[k] = SearchOn(V, E, G[k - 1])
  <2>1. G = [k \in 0..rounds |-> IF k = 0 THEN StartOf(V) ELSE SearchOn(V, E, G[k - 1])]
    BY <1>4 DEF Is
  <2>2. 0 \in 0..rounds /\ \A k \in 1..rounds : k \in 0..rounds /\ k # 0
    BY <1>1
  <2>3. QED
    BY <2>1, <2>2
<1> DEFINE Fine == {k \in 0..rounds : Counted(V, E, G[k], k)}
<1>6. 0 \in Fine
  BY <1>1, <1>5, StartCounted
<1>7. ASSUME NEW k \in 1..rounds, k - 1 \in Fine PROVE k \in Fine
  <2>1. k - 1 \in Nat /\ Counted(V, E, G[k - 1], k - 1) /\ (k - 1) + 1 = k
    BY <1>1, <1>7
  <2>2. Counted(V, E, SearchOn(V, E, G[k - 1]), (k - 1) + 1)
    BY <1>1, <2>1, NextCounted
  <2>3. QED
    BY <1>1, <1>5, <2>1, <2>2
<1>8. rounds \in Fine
  <2> HIDE DEF Fine
  <2>1. \A k \in 0..rounds : k \in Fine
    BY <1>1, <1>6, <1>7, UptoInduction
  <2>2. QED
    BY <1>1, <2>1
<1>9. G[rounds].cycle <=> ~Ranks(E, V)
  BY <1>1, <1>8, EndAnswers DEF rounds
<1>10. QED
  BY <1>2, <1>9

(* The validator accepts exactly the definitions that can be executed: its *)
(* depth-first search ends and finds a cycle just where there is one       *)
(* (validateFlowDefinition), whatever the nodes and the edges are.         *)
THEOREM ValidatorIsRight == \A def \in Definitions : Validates(def) <=> Executable(def)
<1> SUFFICES ASSUME NEW def \in Definitions PROVE Validates(def) <=> Executable(def)
  OBVIOUS
<1> DEFINE V == def.nodes
           E == {e \in def.edges : e[1] # e[2] /\ {e[1], e[2]} \subseteq def.nodes}
<1>1. V \in SUBSET NodeIds /\ def.edges \in SUBSET Edges /\ \A e \in def.edges : e = <<e[1], e[2]>>
  BY DEF Definitions, Edges
<1>2. E \in SUBSET (V \X V)
  <2>1. ASSUME NEW e \in E PROVE e \in V \X V
    BY <1>1
  <2>2. QED
    BY <2>1
<1>3. HasCycle(V, E) <=> ~Ranks(E, V)
  <2> HIDE DEF V, E
  <2>1. QED
    BY <1>1, <1>2, HasCycleFacts
<1>4. (\A e \in def.edges : e[1] # e[2] /\ {e[1], e[2]} \subseteq V) <=> E = def.edges
  OBVIOUS
<1>5. Validates(def) <=> E = def.edges /\ Ranks(E, V)
  BY <1>3, <1>4 DEF Validates
<1>6. ASSUME E = def.edges, Ranks(E, V) PROVE Executable(def)
  <2>1. def.edges \subseteq V \X V
    BY <1>2, <1>6
  <2>2. PICK rank \in [V -> 1..Cardinality(V)] :
          \A e \in def.edges : e[1] \in V => rank[e[1]] < rank[e[2]]
    BY <1>6 DEF Ranks
  <2>3. \A e \in def.edges : rank[e[1]] < rank[e[2]]
    BY <2>1, <2>2
  <2>4. QED
    BY <2>1, <2>3 DEF Executable
<1>7. ASSUME Executable(def) PROVE E = def.edges /\ Ranks(E, V)
  <2>1. def.edges \subseteq V \X V
    BY <1>7 DEF Executable
  <2>2. PICK rank \in [V -> 1..Cardinality(V)] : \A e \in def.edges : rank[e[1]] < rank[e[2]]
    BY <1>7 DEF Executable
  <2>3. Cardinality(V) \in Nat
    BY <1>1, FiniteNodes, FS_Subset, FS_CardinalityType
  <2>4. \A e \in def.edges : e[1] \in V /\ e[2] \in V /\ e[1] # e[2]
    <3>1. SUFFICES ASSUME NEW e \in def.edges PROVE e[1] \in V /\ e[2] \in V /\ e[1] # e[2]
      OBVIOUS
    <3>2. e[1] \in V /\ e[2] \in V
      BY <2>1
    <3>3. rank[e[1]] \in Nat /\ rank[e[1]] < rank[e[2]]
      BY <2>2, <2>3, <3>2
    <3>4. QED
      BY <3>2, <3>3
  <2>5. E = def.edges
    BY <2>4
  <2>6. Ranks(def.edges, V)
    BY <2>2 DEF Ranks
  <2>7. QED
    BY <2>5, <2>6
<1>8. QED
  BY <1>5, <1>6, <1>7
-----------------------------------------------------------------------------
(* The copy of a request that is the only one to use the index is still    *)
(* what the index holds, up to its write.                                  *)
Fresh ==
  \A o \in Ops \ stale :
    /\ op[o].pc \in {"write", "restamp"} =>
         \A f \in Flows : f # op[o].flow => op[o].copy[f] = Loaded[f]
    /\ Writing(op[o]) => index = Torn

(* What is stored was accepted, and so was what is about to be.            *)
Admitted(v) == v = None \/ v.def \in Accepted
Checked(o) == op[o].kind \notin {"toolCreate", "toolUpdate"} /\ o \notin crossed
IndexAdmitted == index # Torn => \A f \in Flows \ unchecked : Admitted(index[f])
CopiesAdmitted ==
  \A o \in Ops \ stale : UsesIndex(op[o]) =>
    \A f \in Flows \ unchecked :
      (f # op[o].flow \/ op[o].pc \in {"restamp", "restampEnd"} \/ Checked(o))
        => Admitted(op[o].copy[f])

(* The patch of a request can still be put on what it will find.           *)
Suits(patch, v) == v = None \/ Patched(v.def, patch) \in Accepted
PatchesSuit ==
  \A o \in Ops \ crossed :
    op[o].pc = "load" /\ op[o].kind = "put" /\ op[o].flow \notin unchecked =>
      /\ index # Torn => Suits(op[o].patch, index[op[o].flow])
      /\ \A p \in Ops \ ({o} \cup stale) :
           UsesIndex(op[p]) => Suits(op[o].patch, op[p].copy[op[o].flow])
RollbacksAdmitted ==
  \A o \in Ops : op[o].pc = "load" /\ op[o].kind = "rollback" => op[o].patch \in Accepted

Validated == Fresh /\ IndexAdmitted /\ CopiesAdmitted /\ PatchesSuit /\ RollbacksAdmitted
-----------------------------------------------------------------------------
(* What the requests check as they start.                                  *)
Checks(o, f) ==
  LET r == op'[o] IN
  /\ r.pc = "write" => /\ r.kind \in {"create", "toolCreate", "delete"}
                       /\ r.kind # "toolCreate" => Admitted(r.copy[f])
  /\ r.pc = "load" /\ r.kind = "put" =>
       Loaded[f] # None /\ Patched(Loaded[f].def, r.patch) \in Accepted
  /\ r.pc = "load" /\ r.kind = "rollback" => r.patch \in Accepted

LEMMA StartChecks ==
  ASSUME IInv, NEW o \in Ops, NEW f \in Flows, Request(o, f)
  PROVE  Checks(o, f)
<1>1. Loaded \in Indexes /\ op \in [Ops -> Requests]
  BY LoadedIsIndex DEF IInv, TypeOK
<1>2. ASSUME NEW kind, NEW p, NEW pc \in {"load", "write"}, NEW v, Starts(o, kind, f, p, pc, v)
      PROVE  /\ op'[o].kind = kind /\ op'[o].patch = p /\ op'[o].pc = pc /\ op'[o].copy = v
  <2>1. op'[o] = [kind |-> kind, flow |-> f, pc |-> pc, patch |-> p, copy |-> v, version |-> 0]
    BY <1>1, <1>2 DEF Starts, Becomes
  <2>2. QED
    BY <2>1
<1>3. ASSUME NEW v PROVE [Loaded EXCEPT ![f] = v][f] = v
  BY <1>1 DEF Indexes
<1>4. ASSUME NEW p \in Patches, Create(o, f, p, "create") PROVE Checks(o, f)
  <2> DEFINE new == [def |-> Patched(NoNodes, p), version |-> 0]
  <2>1. new.def \in Accepted
    BY <1>4 DEF Create
  <2>2. Starts(o, "create", f, p, "write", [Loaded EXCEPT ![f] = new])
    BY <1>4 DEF Create
  <2> HIDE DEF new
  <2>3. /\ op'[o].kind = "create" /\ op'[o].pc = "write"
        /\ op'[o].copy = [Loaded EXCEPT ![f] = new]
    BY <1>2, <2>2
  <2>4. op'[o].copy[f] = new
    BY <1>3, <2>3
  <2>5. QED
    BY <2>1, <2>3, <2>4 DEF Checks, Admitted
<1>5. ASSUME NEW p \in Patches, Create(o, f, p, "toolCreate") PROVE Checks(o, f)
  <2>1. op'[o].kind = "toolCreate" /\ op'[o].pc = "write"
    BY <1>2, <1>5 DEF Create
  <2>2. QED
    BY <2>1 DEF Checks
<1>6. ASSUME NEW p \in Patches, Put(o, f, p) PROVE Checks(o, f)
  <2>1. op'[o].kind = "put" /\ op'[o].pc = "load" /\ op'[o].patch = p
    BY <1>2, <1>6 DEF Put
  <2>2. QED
    BY <1>6, <2>1 DEF Checks, Put
<1>7. ASSUME NEW p \in Patches, ToolUpdate(o, f, p) PROVE Checks(o, f)
  <2>1. op'[o].kind = "toolUpdate" /\ op'[o].pc = "load"
    BY <1>2, <1>7 DEF ToolUpdate
  <2>2. QED
    BY <2>1 DEF Checks
<1>8. ASSUME NEW n, Rollback(o, f, n) PROVE Checks(o, f)
  <2>1. op'[o].kind = "rollback" /\ op'[o].pc = "load" /\ op'[o].patch = snapshots[f][n]
    BY <1>2, <1>8 DEF Rollback
  <2>2. QED
    BY <1>8, <2>1 DEF Checks, Rollback
<1>9. ASSUME Delete(o, f) PROVE Checks(o, f)
  <2>1. Starts(o, "delete", f, None, "write", [Loaded EXCEPT ![f] = None])
    BY <1>9 DEF Delete
  <2> DEFINE v == [Loaded EXCEPT ![f] = None]
  <2>a. Starts(o, "delete", f, None, "write", v) /\ v[f] = None
    BY <1>3, <2>1
  <2> HIDE DEF v
  <2>2. op'[o].kind = "delete" /\ op'[o].pc = "write" /\ op'[o].copy[f] = None
    BY <1>2, <2>a
  <2>3. QED
    BY <2>2 DEF Checks, Admitted
<1>10. QED
  BY <1>4, <1>5, <1>6, <1>7, <1>8, <1>9 DEF Request

(* What updateFlow makes of the flow it finds.                             *)
LEMMA LoadPatches ==
  ASSUME IInv, NEW o \in Ops, LoadToUpdate(o), op'[o].pc = "write"
  PROVE  LET f == op[o].flow IN
         /\ Loaded[f] # None /\ op'[o].kind = op[o].kind
         /\ op'[o].copy[f].def = Patched(Loaded[f].def, op[o].patch)
<1> DEFINE f == op[o].flow
           v == [Loaded EXCEPT ![f].def = Patched(@, op[o].patch)]
           r == [op[o] EXCEPT !.pc = "write", !.patch = None, !.copy = v]
<1>1. /\ Loaded \in Indexes /\ op \in [Ops -> Requests] /\ op[o] \in Requests
      /\ op[o].pc = "load" /\ f \in Flows
  BY LoadedIsIndex DEF IInv, TypeOK, LoadToUpdate, Fits
<1>2. Loaded[f] # None
  BY <1>1 DEF LoadToUpdate, Ended, Becomes, Off
<1>3. op'[o] = r
  BY <1>1, <1>2 DEF LoadToUpdate, Becomes
<1>4. Loaded[f] \in Stored
  BY <1>1, <1>2 DEF Indexes
<1>5. PICK new : new = [Loaded[f] EXCEPT !.def = Patched(@, op[o].patch)]
  OBVIOUS
<1>6. new.def = Patched(Loaded[f].def, op[o].patch)
  BY <1>4, <1>5 DEF Stored
<1>7. v = [Loaded EXCEPT ![f] = new]
  BY <1>5
<1>8. v[f] = new
  BY <1>1, <1>7 DEF Indexes
<1> HIDE DEF v
<1>9. r.copy = v /\ r.kind = op[o].kind
  BY <1>1 DEF Requests
<1> HIDE DEF r
<1>10. QED
  BY <1>2, <1>3, <1>6, <1>8, <1>9

(* A whole definition as a patch leaves nothing of the flow.               *)
LEMMA WholePatch ==
  ASSUME NEW def \in Definitions, NEW patch \in Definitions
  PROVE  Patched(def, patch) = patch
<1>1. patch.nodes # None /\ patch.edges # None
  BY FlowStoreAssumption DEF Definitions
<1>2. QED
  BY <1>1 DEF Definitions, Patched

LEMMA UncheckedNext ==
  ASSUME IInv, Remember, NEW o \in Ops, Step(o) \/ \E f \in Flows : Request(o, f),
         NEW f \in Flows \ unchecked'
  PROVE  /\ f \notin unchecked
         /\ WrittenMove(o) => /\ o \notin stale
                              /\ op[o].flow = f => Checked(o)
<1>1. unchecked' = unchecked \cup
        {g \in Flows : \/ \E p \in stale : Writes(p)
                       \/ \E p \in Written(g) : \/ p \in crossed
                                               \/ op[p].kind \in {"toolCreate", "toolUpdate"}}
  BY DEF Remember
<1>2. WrittenMove(o) => Writes(o)
  BY WritesFacts
<1>3. Writes(o) /\ op[o].flow = f => o \in Written(f)
  BY DEF Written
<1>4. QED
  BY <1>1, <1>2, <1>3 DEF Checked
-----------------------------------------------------------------------------
LEMMA FreshNext ==
  ASSUME IInv, Alone, Fresh, Remember,
         NEW o \in Ops, Step(o) \/ \E f \in Flows : Request(o, f)
  PROVE  Fresh'
<1> SUFFICES ASSUME NEW p \in Ops, p \notin stale', UsesIndex(op'[p])
             PROVE  /\ op'[p].pc \in {"write", "restamp"} =>
                         \A f \in Flows : f # op'[p].flow => op'[p].copy[f] = Loaded'[f]
                    /\ Writing(op'[p]) => index' = Torn
  BY DEF Fresh, UsesIndex, Writing
<1>1. p \notin stale
  BY WasApart DEF UsesIndex
<1>2. \A q \in Ops \ {o} : op'[q] = op[q]
  BY OneSteps
<1>3. CASE p = o /\ WriteMove(o)
  BY <1>3 DEF WriteMove
<1>4. CASE p = o /\ ~WriteMove(o)
  <2>1. Reads(o) /\ op'[o].pc \in {"write", "restamp"}
    BY <1>4, Moves DEF StartMove, LoadMove, WrittenMove, NumberMove, SnapshotMove, StampMove,
       Reads, UsesIndex
  <2>2. Loaded' = Loaded
    BY <2>1 DEF Reads, Loaded
  <2>3. QED
    BY <1>4, <2>1, <2>2 DEF Reads, Writing
<1>5. CASE p # o
  <2>1. op'[p] = op[p]
    BY <1>2, <1>5
  <2>2. ~UsesIndex(op'[o]) /\ ~UsesIndex(op[o])
    <3>1. ~UsesIndex(op'[o])
      BY <1>5, AloneNext DEF Alone, BothUseIndex
    <3>2. ~UsesIndex(op[o])
      BY <1>1, <1>5, <2>1 DEF Alone, BothUseIndex
    <3>3. QED
      BY <3>1, <3>2
  <2>3. UNCHANGED index
    BY <2>2, Moves DEF StartMove, LoadMove, WriteMove, WrittenMove, NumberMove, SnapshotMove,
       StampMove, UsesIndex
  <2>4. QED
    BY <1>1, <2>1, <2>3 DEF Fresh, Loaded
<1>6. QED
  BY <1>3, <1>4, <1>5

LEMMA IndexAdmittedNext ==
  ASSUME IInv, Validated, Remember, NEW o \in Ops, Step(o) \/ \E f \in Flows : Request(o, f)
  PROVE  IndexAdmitted'
<1> SUFFICES ASSUME index' # Torn, NEW f \in Flows \ unchecked' PROVE Admitted(index'[f])
  BY DEF IndexAdmitted
<1>1. f \notin unchecked
  BY UncheckedNext
<1>2. CASE WrittenMove(o)
  <2>1. o \notin stale /\ (op[o].flow = f => Checked(o))
    BY <1>2, UncheckedNext
  <2>2. UsesIndex(op[o]) /\ index' = op[o].copy
    BY <1>2 DEF WrittenMove, UsesIndex
  <2>3. QED
    BY <1>1, <2>1, <2>2 DEF Validated, CopiesAdmitted
<1>3. CASE ~WrittenMove(o)
  <2>1. index' = index
    BY <1>3, Moves DEF StartMove, LoadMove, WriteMove, NumberMove, SnapshotMove, StampMove
  <2>2. QED
    BY <1>1, <2>1 DEF Validated, IndexAdmitted
<1>4. QED
  BY <1>2, <1>3

LEMMA CopiesAdmittedNext ==
  ASSUME IInv, Versions, Validated, Remember,
         NEW o \in Ops, Step(o) \/ \E f \in Flows : Request(o, f)
  PROVE  CopiesAdmitted'
<1> SUFFICES ASSUME NEW p \in Ops, p \notin stale', UsesIndex(op'[p]), NEW f \in Flows \ unchecked',
                    \/ f # op'[p].flow \/ op'[p].pc \in {"restamp", "restampEnd"}
                    \/ op'[p].kind \notin {"toolCreate", "toolUpdate"} /\ p \notin crossed'
             PROVE  Admitted(op'[p].copy[f])
  BY DEF CopiesAdmitted, Checked
<1>1. p \notin stale /\ (p \notin crossed' => p \notin crossed)
  BY WasApart DEF UsesIndex
<1>2. f \notin unchecked
  BY UncheckedNext
<1>3. Admitted(Loaded[f])
  BY <1>2, ConstantFacts DEF Loaded, Validated, IndexAdmitted, Admitted
<1>4. CASE p # o
  <2>1. op'[p] = op[p]
    BY <1>4, OneSteps
  <2>2. QED
    BY <1>1, <1>2, <2>1 DEF Validated, CopiesAdmitted, Checked
<1>5. CASE p = o /\ WriteMove(o)
  <2>1. /\ UsesIndex(op[o]) /\ op'[o].copy = op[o].copy /\ op'[o].flow = op[o].flow
        /\ op'[o].kind = op[o].kind
        /\ op'[o].pc \in {"restamp", "restampEnd"} => op[o].pc \in {"restamp", "restampEnd"}
    BY <1>5 DEF WriteMove, UsesIndex
  <2>2. QED
    BY <1>1, <1>2, <1>5, <2>1 DEF Validated, CopiesAdmitted, Checked
<1>6. CASE p = o /\ Reads(o) /\ f # op'[o].flow
  BY <1>3, <1>6 DEF Reads
<1>7. CASE p = o /\ ~WriteMove(o) /\ f = op'[o].flow
  <2>1. CASE \E g \in Flows : Request(o, g)
    <3>1. PICK g \in Flows : Request(o, g)
      BY <2>1
    <3>2. StartMove(o, g) /\ Checks(o, g)
      BY <3>1, StartMoves, StartChecks
    <3>3. g = f /\ op'[o].pc = "write" /\ op'[o].kind # "toolCreate"
      BY <1>7, <3>2 DEF StartMove, UsesIndex
    <3>4. QED
      BY <1>7, <3>2, <3>3 DEF Checks
  <2>2. CASE LoadToUpdate(o)
    <3>1. LoadMove(o) /\ op'[o].pc = "write" /\ op[o].flow = f /\ op[o].pc = "load"
      BY <1>7, <2>2, LoadMoves DEF LoadMove, UsesIndex
    <3>2. /\ Loaded[f] # None /\ op'[o].kind = op[o].kind
          /\ op'[o].copy[f].def = Patched(Loaded[f].def, op[o].patch)
      BY <2>2, <3>1, LoadPatches
    <3>3. op[o].kind \in {"put", "rollback"} /\ o \notin crossed
      BY <1>1, <1>7, <3>1, <3>2 DEF Versions, Unnumbered
    <3>4. CASE op[o].kind = "put"
      <4>1. index # Torn /\ Loaded = index
        BY <3>2, ConstantFacts DEF Loaded
      <4>2. Suits(op[o].patch, index[f])
        BY <1>2, <3>1, <3>3, <3>4, <4>1 DEF Validated, PatchesSuit
      <4>3. QED
        BY <1>7, <3>2, <4>1, <4>2 DEF Suits, Admitted
    <3>5. CASE op[o].kind = "rollback"
      <4>1. op[o].patch \in Accepted
        BY <3>1, <3>5 DEF Validated, RollbacksAdmitted
      <4>2. Loaded[f] \in Stored
        BY <3>2, LoadedIsIndex DEF IInv, Indexes
      <4>3. Patched(Loaded[f].def, op[o].patch) = op[o].patch
        BY <4>1, <4>2, WholePatch DEF Stored, Accepted
      <4>4. QED
        BY <1>7, <3>2, <4>1, <4>3 DEF Admitted
    <3>6. QED
      BY <3>3, <3>4, <3>5
  <2>3. CASE Stamp(o)
    <3>1. /\ op'[o].pc = "restamp" /\ op[o].flow = f /\ Loaded[f] # None
          /\ op'[o].copy[f].def = Loaded[f].def
      BY <1>7, <2>3, StampMoves DEF StampMove, UsesIndex
    <3>2. QED
      BY <1>3, <1>7, <3>1 DEF Admitted
  <2>4. QED
    BY <1>7, <2>1, <2>2, <2>3, WriteMoves, WrittenMoves, NumberMoves, SnapshotMoves
       DEF Step, WrittenMove, NumberMove, SnapshotMove, UsesIndex
<1>8. QED
  BY <1>4, <1>5, <1>6, <1>7, ReadMoves

LEMMA PatchesSuitNext ==
  ASSUME IInv, Alone, Validated, Remember,
         NEW o \in Ops, Step(o) \/ \E f \in Flows : Request(o, f)
  PROVE  PatchesSuit'
<1> SUFFICES ASSUME NEW p \in Ops, p \notin crossed', op'[p].pc = "load", op'[p].kind = "put",
                    op'[p].flow \notin unchecked'
             PROVE  /\ index' # Torn => Suits(op'[p].patch, index'[op'[p].flow])
                    /\ \A q \in Ops \ {p} : q \notin stale' /\ UsesIndex(op'[q])
                         => Suits(op'[p].patch, op'[q].copy[op'[p].flow])
  BY DEF PatchesSuit
<1> DEFINE f == op'[p].flow
           patch == op'[p].patch
<1>1. f \in Flows
  BY StepKeeps DEF IInv, TypeOK, Fits
<1>2. p \notin crossed
  BY WasApart
<1>3. \A q \in Ops \ {o} : op'[q] = op[q]
  BY OneSteps
<1>4. f \notin unchecked
  BY <1>1, UncheckedNext
<1>5. \A q \in Ops : q \notin stale' /\ UsesIndex(op'[q]) => q \notin stale
  BY WasApart DEF UsesIndex
<1>6. CASE p = o
  <2>1. PICK g \in Flows : Request(o, g)
    BY <1>6, LoadMoves, WriteMoves, WrittenMoves, NumberMoves, SnapshotMoves, StampMoves
       DEF Step, LoadMove, WriteMove, WrittenMove, NumberMove, SnapshotMove, StampMove
  <2>2. StartMove(o, g) /\ Checks(o, g)
    BY <2>1, StartMoves, StartChecks
  <2>3. g = f /\ UNCHANGED index /\ Loaded[f] # None /\ Patched(Loaded[f].def, patch) \in Accepted
    BY <1>6, <2>2 DEF StartMove, Checks
  <2>4. index # Torn /\ Loaded = index
    BY <1>1, <2>3, ConstantFacts DEF Loaded
  <2>5. ASSUME NEW q \in Ops \ {p}, q \notin stale', UsesIndex(op'[q])
        PROVE  Suits(patch, op'[q].copy[f])
    <3>1. op'[q] = op[q] /\ q \notin stale
      BY <1>3, <1>5, <1>6, <2>5
    <3>2. f # op[q].flow
      BY <1>1, <2>5, <3>1, ApartNext, ConstantFacts DEF Apart, Meet
    <3>3. op[q].copy[f] = Loaded[f]
      BY <1>1, <2>4, <2>5, <3>1, <3>2 DEF Validated, Fresh, UsesIndex, Writing
    <3>4. QED
      BY <2>3, <3>1, <3>3 DEF Suits
  <2>6. QED
    BY <2>3, <2>4, <2>5 DEF Suits
<1>7. CASE p # o
  <2>1. op'[p] = op[p]
    BY <1>3, <1>7
  <2>2. /\ index # Torn => Suits(patch, index[f])
        /\ \A q \in Ops \ {p} : q \notin stale /\ UsesIndex(op[q]) => Suits(patch, op[q].copy[f])
    BY <1>2, <1>4, <2>1 DEF Validated, PatchesSuit
  <2> HIDE DEF patch
  <2>3. index' # Torn => Suits(patch, index'[f])
    <3>1. CASE WrittenMove(o)
      <4>1. o \notin stale /\ UsesIndex(op[o]) /\ index' \in {op[o].copy, Torn}
        BY <1>1, <3>1, UncheckedNext DEF WrittenMove, UsesIndex
      <4>2. QED
        BY <1>7, <2>2, <4>1
    <3>2. CASE ~WrittenMove(o)
      <4>1. index' \in {index, Torn}
        BY <3>2, Moves DEF StartMove, LoadMove, WriteMove, NumberMove, SnapshotMove, StampMove
      <4>2. QED
        BY <2>2, <4>1
    <3>3. QED
      BY <3>1, <3>2
  <2>4. ASSUME NEW q \in Ops \ {p}, q \notin stale', UsesIndex(op'[q])
        PROVE  Suits(patch, op'[q].copy[f])
    <3>1. q \notin stale
      BY <1>5, <2>4
    <3>2. CASE q # o
      BY <1>3, <2>2, <2>4, <3>1, <3>2
    <3>3. CASE q = o /\ WriteMove(o)
      <4>1. UsesIndex(op[o]) /\ op'[o].copy = op[o].copy
        BY <3>3 DEF WriteMove, UsesIndex
      <4>2. QED
        BY <1>7, <2>2, <3>1, <3>3, <4>1
    <3>4. CASE q = o /\ Reads(o)
      <4>1. f # op'[o].flow
        BY <1>1, <1>7, ApartNext, ConstantFacts DEF Apart, Meet
      <4>2. op'[o].copy[f] = Loaded[f]
        BY <1>1, <3>4, <4>1 DEF Reads
      <4>3. QED
        BY <1>1, <2>2, <3>4, <4>2, ConstantFacts DEF Loaded, Suits
    <3>5. QED
      BY <2>4, <3>2, <3>3, <3>4, ReadMoves
  <2>5. QED
    BY <2>3, <2>4 DEF patch
<1>8. QED
  BY <1>6, <1>7

LEMMA RollbacksAdmittedNext ==
  ASSUME IInv, Validated, NEW o \in Ops, Step(o) \/ \E f \in Flows : Request(o, f)
  PROVE  RollbacksAdmitted'
<1> SUFFICES ASSUME NEW p \in Ops, op'[p].pc = "load", op'[p].kind = "rollback"
             PROVE  op'[p].patch \in Accepted
  BY DEF RollbacksAdmitted
<1>1. CASE p # o
  BY <1>1, OneSteps DEF Validated, RollbacksAdmitted
<1>2. CASE p = o
  <2>1. PICK f \in Flows : Request(o, f)
    BY <1>2, LoadMoves, WriteMoves, WrittenMoves, NumberMoves, SnapshotMoves, StampMoves
       DEF Step, LoadMove, WriteMove, WrittenMove, NumberMove, SnapshotMove, StampMove
  <2>2. QED
    BY <1>2, <2>1, StartChecks DEF Checks
<1>3. QED
  BY <1>1, <1>2

LEMMA NextValidated ==
  ASSUME IInv, Alone, Versions, Validated, [Next]_vars
  PROVE  Validated'
<1>1. CASE \E o \in Ops : Step(o) \/ \E f \in Flows : Request(o, f)
  <2>1. PICK o \in Ops : Step(o) \/ \E f \in Flows : Request(o, f)
    BY <1>1
  <2>2. CASE Remember
    <3>1. Fresh
      BY DEF Validated
    <3>2. QED
      BY <2>1, <2>2, <3>1, FreshNext, IndexAdmittedNext, CopiesAdmittedNext, PatchesSuitNext,
         RollbacksAdmittedNext DEF Validated
  <2>3. CASE UNCHANGED vars
    BY <2>3 DEF vars, past, Validated, Fresh, IndexAdmitted, CopiesAdmitted, PatchesSuit,
       RollbacksAdmitted, Checked, Loaded
  <2>4. QED
    BY <2>2, <2>3 DEF Next
<1>2. CASE Crash /\ Remember
  <2>1. op' = [p \in Ops |-> Off] /\ UNCHANGED index /\ unchecked \subseteq unchecked'
    BY <1>2 DEF Crash, Remember
  <2>2. \A p \in Ops : op'[p].pc = "off"
    BY <2>1 DEF Off
  <2>3. QED
    BY <2>1, <2>2 DEF Validated, Fresh, IndexAdmitted, CopiesAdmitted, PatchesSuit,
       RollbacksAdmitted, UsesIndex, Writing
<1>3. CASE UNCHANGED vars
  BY <1>3 DEF vars, past, Validated, Fresh, IndexAdmitted, CopiesAdmitted, PatchesSuit,
     RollbacksAdmitted, Checked, Loaded
<1>4. QED
  BY <1>1, <1>2, <1>3 DEF Next

LEMMA InitValidated == Init => Validated
<1> SUFFICES ASSUME Init PROVE Validated
  OBVIOUS
<1>1. \A o \in Ops : op[o].pc = "off"
  BY DEF Init, Off
<1>2. ASSUME NEW f \in Flows PROVE Admitted(index[f])
  <2>1. CASE latest[f] = None
    BY <2>1 DEF Init, Admitted
  <2>2. CASE latest[f] # None
    <3>1. index[f] = [def |-> latest[f], version |-> 1] /\ latest[f] \in Accepted
      BY <2>2 DEF Init
    <3>2. QED
      BY <3>1 DEF Admitted
  <2>3. QED
    BY <2>1, <2>2
<1>3. QED
  BY <1>1, <1>2 DEF Validated, Fresh, IndexAdmitted, CopiesAdmitted, PatchesSuit,
     RollbacksAdmitted, UsesIndex, Writing

(* A stored flow can be executed, although a patch is validated against a  *)
(* flow read earlier: unless the tool wrote it, or requests overlapped     *)
(* that were about the flow or wrote the index (the routes of              *)
(* webServer.js, updateFlow, validateFlowDefinition).                      *)
THEOREM StoredFlows == Spec => []StoredFlowsAreValid
<1>1. Init => Alone /\ Orderly /\ Versions /\ Validated
  BY InitOrderly, InitVersions, InitValidated
<1>2. IInv /\ Alone /\ Orderly /\ Versions /\ Validated /\ [Next]_vars
        => Alone' /\ Orderly' /\ Versions' /\ Validated'
  BY NextOrderly, NextVersions, NextValidated
<1>3. Validated => StoredFlowsAreValid
  BY ValidatorIsRight DEF Validated, IndexAdmitted, Admitted, Accepted, StoredFlowsAreValid
<1>4. QED
  BY <1>1, <1>2, <1>3, InvariantHolds, PTL DEF Spec
=============================================================================
