--------------------------- MODULE AgentStoreProofs ---------------------------
(***************************************************************************)
(* Proofs about AgentStore, for every set of agents, any number of         *)
(* requests under way, versions and crashes: the types, that a listing is  *)
(* complete, a deletion lasting, an import whole, and that one crash loses *)
(* no agent.                                                               *)
(***************************************************************************)
EXTENDS AgentStore, TLAPS

RequestType == [kind : Kinds, agent : Agents \cup {None}, pc : Pcs, state : Versions,
             talk : Versions, idx : SUBSET Ids, todo : SUBSET Agents, shown : SUBSET Agents]
Saves(r) == r.kind \in {"save", "unload"}

(* Where a request of each kind can be.                                    *)
Shape(r) ==
  /\ r \in RequestType /\ (r.pc = "off" <=> r = Off)
  /\ (r.kind = "off" <=> r = Off)
  /\ (r.kind \in {"off", "list"} <=> r.agent = None)
  /\ Saves(r) => r.pc \in {"state", "stateEnd", "talk", "talkEnd", "write", "writeEnd", "drop"}
  /\ r.kind = "delete" => r.pc \in {"forget", "unlinkState", "unlinkTalk", "write", "writeEnd"}
  /\ r.kind = "archived" => r.pc \in {"entry", "write", "writeEnd"}
  /\ r.kind = "import" =>
       r.pc \in {"state", "stateFix", "stateEnd", "talk", "talkFix", "talkEnd", "set",
                "write", "writeEnd"}
  /\ r.kind = "list" => r.pc \in {"dir", "scan", "write", "writeEnd"}
  /\ r.kind # "list" => r.todo = {} /\ r.shown = {}
  /\ r.pc \notin {"dir", "scan", "write", "writeEnd", "drop"} => r.idx = {}
  /\ Saves(r) /\ r.pc \in {"write", "writeEnd"} => r.agent \in r.idx

(* The types.                                                              *)
StoresOK ==
  /\ memory \in [Agents -> {None} \cup [state : Versions, talk : Versions]]
  /\ version \in [Agents -> Versions]
  /\ stateFile \in [Agents -> Contents] /\ talkFile \in [Agents -> Contents]
  /\ index = Torn \/ index \subseteq Ids
Shapes == op \in [Ops -> RequestType] /\ \A o \in Ops : Shape(op[o])

HistoryOK ==
  /\ crossed \subseteq Ops /\ stale \subseteq Ops
  /\ steady \in [Ops -> SUBSET Agents] /\ last \in [Agents -> Versions]
  /\ kept \cup gone \subseteq Agents /\ orderly \in BOOLEAN
CountsOK == crashes \in 0..MaxCrashes /\ requests \in Nat

(* An agent that is nowhere: not in memory, not on disk, in no request and *)
(* in nothing a request is about to write into the index.  So it is with   *)
(* the agents that were never created.                                     *)
Listed(r) == r.idx \cup r.todo \cup r.shown
Absence(a) ==
  /\ memory[a] = None /\ stateFile[a] = Absent /\ a \notin Entries
  /\ \A o \in Ops : op[o].agent # a /\ (UsesIndex(op[o]) => a \notin Listed(op[o]))
Known == \A a \in Agents : version[a] = 0 => Absence(a)

Typed == StoresOK /\ Shapes /\ HistoryOK /\ CountsOK /\ Known

(* Requests that met no other are alone with their agent, and with the     *)
(* index.                                                                  *)
Apart == \A o \in Ops \ crossed : \A p \in Ops \ {o} : ~Meet(op[o], op[p])
Alone == \A o \in Ops \ stale : \A p \in Ops \ {o} : ~BothUseIndex(op[o], op[p])

(* A listing has, or is about to scan, the files that stay whole.          *)
Listing ==
  \A o \in Ops : op[o].kind = "list" =>
    \A a \in steady[o] :
      /\ IsWhole(stateFile[a])
      /\ op[o].pc = "scan" => a \in op[o].todo \cup op[o].shown
      /\ op[o].pc \in {"write", "writeEnd"} => a \in op[o].shown

(* What requests that met no other about their agent find on disk.         *)
Saving(r) == Saves(r) =>
  /\ memory[r.agent] # None
  /\ r.pc = "stateEnd" => stateFile[r.agent] = Torn
  /\ r.pc \in {"talk", "talkEnd", "write", "writeEnd"} => stateFile[r.agent] = Whole(r.state)
  /\ r.pc = "talkEnd" => talkFile[r.agent] = Torn
  /\ r.pc \in {"write", "writeEnd"} => talkFile[r.agent] = Whole(r.talk)
Deleting(r) == r.kind = "delete" =>
  /\ version[r.agent] > 0 /\ (r.pc # "forget" => memory[r.agent] = None)
  /\ r.pc \notin {"forget", "unlinkState"} => stateFile[r.agent] = Absent
  /\ r.pc \in {"write", "writeEnd"} => talkFile[r.agent] = Absent /\ r.agent \notin r.idx
Importing(r) == r.kind = "import" =>
  /\ r.pc = "stateFix" => ~IsWhole(stateFile[r.agent])
  /\ r.pc = "stateEnd" => stateFile[r.agent] = Torn
  /\ r.pc = "talkEnd" => talkFile[r.agent] = Torn
Working == \A o \in Ops \ crossed : Saving(op[o]) /\ Deleting(op[o]) /\ Importing(op[o])

(* So it is, too, with the agents whose deletion met no other request.     *)
Forgotten == \A a \in gone : Absence(a) /\ talkFile[a] = Absent /\ version[a] > 0

(* The last save is on disk, and in what imports have read, unless another *)
(* save is under way.                                                      *)
Storing(r, a) == Saves(r) /\ r.agent = a /\ r.pc # "drop"
Clean(r, v) ==
  /\ r.pc \in {"state", "talk", "set", "write", "writeEnd"}
  /\ r.pc # "state" => r.state = v
  /\ r.pc \notin {"state", "talk"} => r.talk = v
Stored(a, v) ==
  /\ stateFile[a] = Whole(v) /\ talkFile[a] = Whole(v)
  /\ \A o \in Ops : op[o].kind = "import" /\ op[o].agent = a => Clean(op[o], v)
LastSaved ==
  \A a \in Agents : last[a] # 0 =>
    /\ \A o \in Ops : ~(op[o].kind = "delete" /\ op[o].agent = a)
    /\ (\E o \in Ops : Storing(op[o], a)) \/ Stored(a, last[a])

(* While requests are orderly, the agents that were saved are in the       *)
(* index, as it is or is being written; or else the process has ended      *)
(* while it was, and their files are whole.                                *)
Indexed ==
  \A a \in kept :
    /\ index # Torn => a \in index
    /\ index = Torn => \E o \in Ops : op[o].pc = "writeEnd"
    /\ \A o \in Ops : op[o].pc \in {"dir", "scan", "write", "writeEnd"} => a \in op[o].idx
OnDisk ==
  /\ crashes > 0
  /\ \A a \in kept :
       \/ IsWhole(stateFile[a])
       \/ \E o \in Ops : Saves(op[o]) /\ op[o].agent = a /\ op[o].pc = "stateEnd"
Safe ==
  orderly =>
    /\ crossed = {} /\ stale = {}
    /\ \A o \in Ops : op[o].pc = "writeEnd" => index = Torn
    /\ \A a \in kept : stateFile[a] = Torn \/ IsWhole(stateFile[a])
    /\ crashes <= 1 => Indexed \/ OnDisk
Undeleted == \A o \in Ops : op[o].kind = "delete" => op[o].agent \notin kept

IInv ==
  /\ Typed /\ Apart /\ Alone /\ Listing /\ Working
  /\ Forgotten /\ LastSaved /\ Undeleted /\ Safe
-----------------------------------------------------------------------------
LEMMA OffFacts ==
  /\ Off \in RequestType /\ Shape(Off)
  /\ Off.kind = "off" /\ Off.pc = "off" /\ Off.agent = None
  /\ Off.idx = {} /\ Off.todo = {} /\ Off.shown = {}
<1>1. Off \in RequestType
  BY AgentStoreAssumption DEF Off, RequestType, Kinds, Pcs, Versions
<1>2. QED
  BY <1>1 DEF Off, Shape, Saves

(* What a request becomes when some of its fields change.                  *)
Keeps(n, r) == /\ n \in RequestType /\ n.kind = r.kind /\ n.agent = r.agent
Lists(n, r) == n.idx = r.idx /\ n.todo = r.todo /\ n.shown = r.shown
LEMMA PcFacts ==
  ASSUME NEW r \in RequestType, NEW pc \in Pcs
  PROVE  LET n == [r EXCEPT !.pc = pc] IN
           /\ Keeps(n, r) /\ Lists(n, r)
           /\ n.pc = pc /\ n.state = r.state /\ n.talk = r.talk
BY DEF RequestType, Keeps, Lists

LEMMA EditFacts ==
  ASSUME NEW r \in RequestType, NEW v \in Versions
  PROVE  LET n == [r EXCEPT !.talk = v] IN
           /\ Keeps(n, r) /\ Lists(n, r)
           /\ n.pc = r.pc /\ n.state = r.state /\ n.talk = v
BY DEF RequestType, Keeps, Lists

LEMMA BecomesFacts ==
  ASSUME op \in [Ops -> RequestType], NEW o \in Ops, NEW n \in RequestType, Becomes(o, n)
  PROVE  op'[o] = n /\ op' = [op EXCEPT ![o] = op'[o]]
BY DEF Becomes

(* The request of o moves to pc and keeps what it is about; its versions,  *)
(* or what it lists, may change.                                           *)
Moves(o, pc) ==
  op' = [op EXCEPT ![o] = op'[o]] /\ Keeps(op'[o], op[o]) /\ op'[o].pc = pc
Carries(o) == op'[o].state = op[o].state /\ op'[o].talk = op[o].talk

LEMMA GoesFacts ==
  ASSUME op \in [Ops -> RequestType], NEW o \in Ops, NEW pc \in Pcs, Goes(o, pc)
  PROVE  Moves(o, pc) /\ Carries(o) /\ Lists(op'[o], op[o])
<1>1. op' = [op EXCEPT ![o] = [op[o] EXCEPT !.pc = pc]]
  BY DEF Goes
<1>2. op[o] \in RequestType /\ op'[o] = [op[o] EXCEPT !.pc = pc]
  BY <1>1
<1>3. QED
  BY <1>1, <1>2, PcFacts DEF Moves, Carries

LEMMA EndedFacts ==
  ASSUME op \in [Ops -> RequestType], NEW o \in Ops, Ended(o)
  PROVE  op'[o] = Off /\ op' = [op EXCEPT ![o] = op'[o]]
BY OffFacts, BecomesFacts DEF Ended

(* A request that goes on to write the index.                              *)
Writes(o, idx) ==
  /\ Moves(o, "write") /\ Carries(o)
  /\ op'[o].idx = idx /\ op'[o].todo = op[o].todo /\ op'[o].shown = op[o].shown
LEMMA WriteFacts ==
  ASSUME op \in [Ops -> RequestType], NEW o \in Ops, NEW idx \in SUBSET Ids,
         Becomes(o, [op[o] EXCEPT !.pc = "write", !.idx = idx])
  PROVE  Writes(o, idx)
<1> DEFINE n == [op[o] EXCEPT !.pc = "write", !.idx = idx]
<1>1. "write" \in Pcs /\ op[o] \in RequestType /\ Becomes(o, n)
  BY DEF Pcs
<1>2. /\ Keeps(n, op[o]) /\ n.idx = idx /\ n.todo = op[o].todo /\ n.shown = op[o].shown
      /\ n.pc = "write" /\ n.state = op[o].state /\ n.talk = op[o].talk
  BY <1>1 DEF RequestType, Keeps
<1> HIDE DEF n
<1>3. QED
  BY <1>1, <1>2, BecomesFacts DEF Keeps, Moves, Carries, Writes

LEMMA ReadIndexFacts ==
  ASSUME op \in [Ops -> RequestType], NEW o \in Ops, NEW entry \in Ids,
         ReadIndex(o, op[o], entry), index = Torn \/ index \subseteq Ids
  PROVE  Writes(o, Entries \cup {entry})
<1>1. PICK idx \in SUBSET Ids : idx = Entries \cup {entry}
  BY DEF Entries
<1>2. QED
  BY <1>1, WriteFacts DEF ReadIndex

LEMMA RecordFacts ==
  /\ Versions \subseteq Nat /\ 0 \in Versions /\ 1 \in Versions
  /\ \A v, w \in Versions : [state |-> v, talk |-> w] # None
  /\ \A v \in Versions : /\ Whole(v) \in Contents /\ Junk(v) \in Contents
                           /\ IsWhole(Whole(v)) /\ ~IsWhole(Junk(v)) /\ Whole(v) # Junk(v)
                           /\ Whole(v).v = v /\ {Whole(v), Junk(v)} \cap {Absent, Torn} = {}
  /\ \A v, w \in Versions : Whole(v) = Whole(w) => v = w
  /\ ~IsWhole(Absent) /\ ~IsWhole(Torn)
  /\ \A file \in Contents : IsWhole(file) => file.v \in Versions /\ file = Whole(file.v)
<1>1. Versions \subseteq Nat /\ 0 \in Versions /\ 1 \in Versions
  BY AgentStoreAssumption DEF Versions
<1>2. ASSUME NEW v \in Versions, NEW w \in Versions PROVE [state |-> v, talk |-> w] # None
  <2>1. [state |-> v, talk |-> w] \in [state : Nat, talk : Nat]
    BY <1>1
  <2>2. QED
    BY <2>1, AgentStoreAssumption
<1>3. ASSUME NEW v \in Versions
      PROVE  /\ Whole(v) \in Contents /\ Junk(v) \in Contents
             /\ IsWhole(Whole(v)) /\ ~IsWhole(Junk(v)) /\ Whole(v) # Junk(v)
             /\ Whole(v).v = v /\ {Whole(v), Junk(v)} \cap {Absent, Torn} = {}
  <2>1. /\ Whole(v) \in [v : Versions, junk : BOOLEAN] /\ Junk(v) \in [v : Versions, junk : BOOLEAN]
        /\ [v : Versions, junk : BOOLEAN] \subseteq [v : Nat, junk : BOOLEAN]
    BY <1>1, <1>3, Zenon DEF Whole, Junk
  <2>2. Whole(v).v = v /\ Whole(v).junk = FALSE /\ Junk(v).junk = TRUE
    BY DEF Whole, Junk
  <2>3. {Whole(v), Junk(v)} \cap {Absent, Torn} = {}
    BY <2>1, AgentStoreAssumption
  <2>4. QED
    BY <2>1, <2>2, <2>3 DEF Contents, IsWhole
<1>4. \A v, w \in Versions : Whole(v) = Whole(w) => v = w
  BY DEF Whole
<1>5. ASSUME NEW file \in Contents, IsWhole(file)
      PROVE  file.v \in Versions /\ file = Whole(file.v)
  <2>1. file \in [v : Versions, junk : BOOLEAN] /\ file.junk = FALSE
    BY <1>5 DEF Contents, IsWhole
  <2>2. QED
    BY <2>1 DEF Whole
<1>6. QED
  BY <1>1, <1>2, <1>3, <1>4, <1>5 DEF IsWhole

LEMMA RecoveredFacts ==
  ASSUME NEW file \in Contents
  PROVE  Recovered(file) \in Versions
BY AgentStoreAssumption DEF Contents, Recovered, Versions

LEMMA LoadStateFacts ==
  ASSUME StoresOK, Shapes, NEW o \in Ops, LoadState(o)
  PROVE  LET file == stateFile[op[o].agent] IN
           /\ op[o].agent \in Agents
           /\ Moves(o, IF IsWhole(file) THEN "talk" ELSE "stateFix") /\ Lists(op'[o], op[o])
           /\ op'[o].state = Recovered(file) /\ op'[o].talk = op[o].talk
<1> DEFINE r == op[o]  file == stateFile[r.agent]
           pc == IF IsWhole(file) THEN "talk" ELSE "stateFix"
           n == [r EXCEPT !.state = Recovered(file), !.pc = pc]
<1>1. r \in RequestType /\ r.agent \in Agents
  BY DEF Shapes, Shape, LoadState, RequestType
<1>2. Recovered(file) \in Versions /\ pc \in Pcs
  BY <1>1, RecoveredFacts DEF StoresOK, Pcs
<1>3. Becomes(o, n)
  BY DEF LoadState
<1>4. Keeps(n, r) /\ Lists(n, r) /\ n.pc = pc /\ n.state = Recovered(file) /\ n.talk = r.talk
  BY <1>1, <1>2 DEF RequestType, Keeps, Lists
<1> HIDE DEF n, pc
<1>5. op'[o] = n /\ op' = [op EXCEPT ![o] = op'[o]]
  BY <1>3, <1>4, BecomesFacts DEF Keeps, Shapes
<1>6. QED
  BY <1>1, <1>4, <1>5 DEF Moves, pc

LEMMA LoadTalkFacts ==
  ASSUME StoresOK, Shapes, NEW o \in Ops, LoadTalk(o)
  PROVE  LET file == talkFile[op[o].agent] IN
           /\ op[o].agent \in Agents
           /\ Moves(o, IF IsWhole(file) THEN "set" ELSE "talkFix") /\ Lists(op'[o], op[o])
           /\ op'[o].talk = Recovered(file) /\ op'[o].state = op[o].state
<1> DEFINE r == op[o]  file == talkFile[r.agent]
           pc == IF IsWhole(file) THEN "set" ELSE "talkFix"
           n == [r EXCEPT !.talk = Recovered(file), !.pc = pc]
<1>1. r \in RequestType /\ r.agent \in Agents
  BY DEF Shapes, Shape, LoadTalk, RequestType
<1>2. Recovered(file) \in Versions /\ pc \in Pcs
  BY <1>1, RecoveredFacts DEF StoresOK, Pcs
<1>3. Becomes(o, n)
  BY DEF LoadTalk
<1>4. Keeps(n, r) /\ Lists(n, r) /\ n.pc = pc /\ n.talk = Recovered(file) /\ n.state = r.state
  BY <1>1, <1>2 DEF RequestType, Keeps, Lists
<1> HIDE DEF n, pc
<1>5. op'[o] = n /\ op' = [op EXCEPT ![o] = op'[o]]
  BY <1>3, <1>4, BecomesFacts DEF Keeps, Shapes
<1>6. QED
  BY <1>1, <1>4, <1>5 DEF Moves, pc

LEMMA ReadDirFacts ==
  ASSUME Shapes, NEW o \in Ops, ReadDir(o)
  PROVE  /\ Moves(o, "scan") /\ Carries(o)
         /\ op'[o].todo = {a \in Agents : stateFile[a] # Absent} \ op[o].shown
         /\ op'[o].idx = op[o].idx /\ op'[o].shown = op[o].shown
<1> DEFINE r == op[o]  todo == {a \in Agents : stateFile[a] # Absent} \ r.shown
           n == [r EXCEPT !.pc = "scan", !.todo = todo]
<1>1. r \in RequestType /\ todo \in SUBSET Agents /\ "scan" \in Pcs /\ Becomes(o, n)
  BY DEF Shapes, ReadDir, Pcs
<1> HIDE DEF todo
<1>2. /\ Keeps(n, r) /\ n.pc = "scan" /\ n.todo = todo /\ n.idx = r.idx /\ n.shown = r.shown
      /\ n.state = r.state /\ n.talk = r.talk
  BY <1>1 DEF RequestType, Keeps
<1> HIDE DEF n
<1>3. op'[o] = n /\ op' = [op EXCEPT ![o] = op'[o]]
  BY <1>1, <1>2, BecomesFacts DEF Keeps, Shapes
<1>4. QED
  BY <1>2, <1>3 DEF Moves, Carries, todo

LEMMA ScanFileFacts ==
  ASSUME Shapes, NEW o \in Ops, NEW a \in Agents, ScanFile(o, a)
  PROVE  /\ Moves(o, "scan") /\ Carries(o)
         /\ op'[o].todo = op[o].todo \ {a} /\ op'[o].idx = op[o].idx
         /\ op'[o].shown = IF IsWhole(stateFile[a]) THEN op[o].shown \cup {a} ELSE op[o].shown
<1> DEFINE r == op[o]  todo == r.todo \ {a}
           shown == IF IsWhole(stateFile[a]) THEN r.shown \cup {a} ELSE r.shown
           n == [r EXCEPT !.todo = todo, !.shown = shown]
<1>1. r \in RequestType /\ Becomes(o, n)
  BY DEF Shapes, ScanFile
<1>2. todo \in SUBSET Agents /\ shown \in SUBSET Agents /\ r.pc = "scan"
  BY <1>1 DEF RequestType, ScanFile
<1> HIDE DEF todo, shown
<1>3. /\ Keeps(n, r) /\ n.pc = "scan" /\ n.todo = todo /\ n.idx = r.idx /\ n.shown = shown
      /\ n.state = r.state /\ n.talk = r.talk
  BY <1>1, <1>2 DEF RequestType, Keeps
<1> HIDE DEF n
<1>4. op'[o] = n /\ op' = [op EXCEPT ![o] = op'[o]]
  BY <1>1, <1>3, BecomesFacts DEF Keeps, Shapes
<1>5. QED
  BY <1>3, <1>4 DEF Moves, Carries, todo, shown

LEMMA ShapeFacts ==
  ASSUME NEW r, Shape(r)
  PROVE  /\ r.pc \in {"dir", "scan"} => r.kind = "list"
         /\ r.pc \in {"forget", "unlinkState", "unlinkTalk"} => r.kind = "delete"
         /\ r.pc = "entry" => r.kind = "archived"
         /\ r.pc \in {"set", "stateFix", "talkFix"} => r.kind = "import"
         /\ r.pc = "drop" => Saves(r)
         /\ r.pc \in {"state", "stateEnd", "talk", "talkEnd"} => Saves(r) \/ r.kind = "import"
         /\ r.kind \notin {"off", "list"} => r.agent \in Agents
BY DEF Shape, Saves, RequestType, Kinds

(* What the steps make of a request.                                       *)
Ends(o) == op'[o] = Off /\ op' = [op EXCEPT ![o] = op'[o]]
Passes(o, pc) == Moves(o, pc) /\ Carries(o) /\ Lists(op'[o], op[o])
Has(o) == op[o].agent \in Agents
LEMMA StepFacts ==
  ASSUME StoresOK, Shapes, NEW o \in Ops
  PROVE  /\ WriteState(o) => Has(o) /\ Passes(o, "stateEnd")
         /\ StateWritten(o) => Has(o) /\ Passes(o, "talk")
         /\ WriteTalk(o) => Has(o) /\ Passes(o, "talkEnd")
         /\ TalkWritten(o) => /\ Has(o)
                              /\ IF op[o].kind = "import" THEN Passes(o, "set")
                                 ELSE Writes(o, Entries \cup {op[o].agent})
         /\ WriteIndex(o) => Passes(o, "writeEnd")
         /\ IndexWritten(o) => IF op[o].kind = "unload" THEN Passes(o, "drop") ELSE Ends(o)
         /\ Drop(o) => Has(o) /\ Ends(o)
         /\ Forget(o) => Has(o) /\ Passes(o, "unlinkState")
         /\ UnlinkState(o) => Has(o) /\ Passes(o, "unlinkTalk")
         /\ AddPhantom(o) => Has(o) /\ Writes(o, Entries \cup {Phantom})
         /\ UnlinkTalk(o) => /\ Has(o)
                             /\ IF index = Torn THEN Ends(o)
                                ELSE Writes(o, index \ {op[o].agent})
         /\ SetAgent(o) => Has(o) /\ Writes(o, Entries \cup {op[o].agent})
         /\ Scanned(o) => IF op[o].shown \subseteq op[o].idx THEN Ends(o)
                          ELSE Writes(o, op[o].idx \cup op[o].shown)
<1> USE DEF Shapes
<1>1. /\ op[o] \in RequestType /\ Shape(op[o]) /\ Agents \subseteq Ids
      /\ index = Torn \/ index \subseteq Ids
  BY DEF Ids, StoresOK
<1>2. \A pc \in Pcs : Goes(o, pc) => Passes(o, pc)
  BY GoesFacts DEF Passes
<1>3. /\ {"stateEnd", "talk", "talkEnd", "set", "writeEnd", "drop",
        "unlinkState", "unlinkTalk"} \subseteq Pcs
      /\ Ended(o) => Ends(o)
  BY EndedFacts DEF Pcs, Ends
<1>4. op[o].kind \notin {"off", "list"} => Has(o)
  BY <1>1 DEF Shape, RequestType, Has
<1>5. ASSUME NEW entry \in Agents, ReadIndex(o, op[o], entry)
      PROVE  Writes(o, Entries \cup {entry})
  BY <1>1, <1>5, ReadIndexFacts
<1>6. WriteState(o) => Has(o) /\ Passes(o, "stateEnd")
  BY <1>1, <1>2, <1>3, <1>4 DEF WriteState, Shape
<1>7. StateWritten(o) => Has(o) /\ Passes(o, "talk")
  BY <1>1, <1>2, <1>3, <1>4 DEF StateWritten, Shape
<1>8. WriteTalk(o) => Has(o) /\ Passes(o, "talkEnd")
  BY <1>1, <1>2, <1>3, <1>4 DEF WriteTalk, Shape
<1>9. TalkWritten(o) => /\ Has(o)
                        /\ IF op[o].kind = "import" THEN Passes(o, "set")
                           ELSE Writes(o, Entries \cup {op[o].agent})
  <2>1. TalkWritten(o) => Has(o)
    BY <1>1, <1>4 DEF TalkWritten, Shape
  <2>2. QED
    BY <1>2, <1>3, <1>5, <2>1 DEF TalkWritten, Has
<1>10. WriteIndex(o) => Passes(o, "writeEnd")
  BY <1>2, <1>3 DEF WriteIndex
<1>11. IndexWritten(o) => IF op[o].kind = "unload" THEN Passes(o, "drop") ELSE Ends(o)
  BY <1>2, <1>3 DEF IndexWritten
<1>12. Drop(o) => Has(o) /\ Ends(o)
  BY <1>1, <1>3, <1>4 DEF Drop, Shape
<1>a. Forget(o) => Has(o) /\ Passes(o, "unlinkState")
  BY <1>1, <1>2, <1>3, <1>4 DEF Forget, Shape
<1>b. AddPhantom(o) => Has(o) /\ Writes(o, Entries \cup {Phantom})
  <2>1. Phantom \in Ids
    BY DEF Ids
  <2>2. QED
    BY <1>1, <1>4, <2>1, ReadIndexFacts DEF AddPhantom, Shape
<1>13. UnlinkState(o) => Has(o) /\ Passes(o, "unlinkTalk")
  BY <1>1, <1>2, <1>3, <1>4 DEF UnlinkState, Shape
<1>14. UnlinkTalk(o) => /\ Has(o)
                        /\ IF index = Torn THEN Ends(o) ELSE Writes(o, index \ {op[o].agent})
  <2>1. UnlinkTalk(o) => Has(o)
    BY <1>1, <1>4 DEF UnlinkTalk, Shape
  <2>2. ASSUME UnlinkTalk(o), index # Torn PROVE Writes(o, index \ {op[o].agent})
    <3>1. PICK idx \in SUBSET Ids : idx = index \ {op[o].agent}
      BY <1>1, <2>2
    <3>2. QED
      BY <2>2, <3>1, WriteFacts DEF UnlinkTalk
  <2>3. QED
    BY <1>3, <2>1, <2>2 DEF UnlinkTalk
<1>15. SetAgent(o) => Has(o) /\ Writes(o, Entries \cup {op[o].agent})
  <2>1. SetAgent(o) => Has(o)
    BY <1>1, <1>4 DEF SetAgent, Shape
  <2>2. QED
    BY <1>5, <2>1 DEF SetAgent, Has
<1>16. Scanned(o) => IF op[o].shown \subseteq op[o].idx THEN Ends(o)
                     ELSE Writes(o, op[o].idx \cup op[o].shown)
  <2>1. PICK idx \in SUBSET Ids : idx = op[o].idx \cup op[o].shown
    BY <1>1 DEF RequestType
  <2>2. [op[o] EXCEPT !.pc = "write", !.idx = @ \cup op[o].shown]
          = [op[o] EXCEPT !.pc = "write", !.idx = idx]
    BY <2>1
  <2>3. QED
    BY <1>3, <2>1, <2>2, WriteFacts DEF Scanned
<1>17. QED
  BY <1>6, <1>7, <1>8, <1>9, <1>10, <1>11, <1>12, <1>a, <1>b, <1>13, <1>14, <1>15, <1>16

(* What the requests begin as.                                             *)
Begins(o, kind, a, pc) ==
  /\ op' = [op EXCEPT ![o] = op'[o]] /\ op'[o] \in RequestType
  /\ op'[o].kind = kind /\ op'[o].agent = a /\ op'[o].pc = pc /\ op'[o].todo = {}
Blank(o) == op'[o].idx = {} /\ op'[o].shown = {}
NewSave(kind, a, v, w) ==
  [Off EXCEPT !.kind = kind, !.agent = a, !.pc = "state", !.state = v, !.talk = w]
LEMMA SaveFacts ==
  ASSUME Shapes, NEW o \in Ops, NEW a \in Agents, NEW kind \in {"save", "unload"},
         NEW v \in Versions, NEW w \in Versions,
         Starts(o, NewSave(kind, a, v, w))
  PROVE  Begins(o, kind, a, "state") /\ Blank(o) /\ op'[o].state = v /\ op'[o].talk = w
<1> DEFINE n == NewSave(kind, a, v, w)
<1>1. kind \in Kinds /\ "state" \in Pcs /\ Becomes(o, n)
  BY DEF Kinds, Pcs, Starts
<1>2. /\ n \in RequestType /\ n.kind = kind /\ n.agent = a /\ n.pc = "state"
      /\ n.state = v /\ n.talk = w /\ n.idx = {} /\ n.todo = {} /\ n.shown = {}
  BY <1>1, OffFacts DEF RequestType, NewSave
<1> HIDE DEF n
<1>3. op'[o] = n /\ op' = [op EXCEPT ![o] = op'[o]]
  BY <1>1, <1>2, BecomesFacts DEF Shapes
<1>4. QED
  BY <1>2, <1>3 DEF Begins, Blank

LEMMA PlainFacts ==
  ASSUME Shapes, NEW o \in Ops, NEW a \in Agents, NEW kind \in Kinds, NEW pc \in Pcs,
         Starts(o, [Off EXCEPT !.kind = kind, !.agent = a, !.pc = pc])
  PROVE  Begins(o, kind, a, pc) /\ Blank(o)
<1> DEFINE n == [Off EXCEPT !.kind = kind, !.agent = a, !.pc = pc]
<1>1. Becomes(o, n)
  BY DEF Starts
<1>2. /\ n \in RequestType /\ n.kind = kind /\ n.agent = a /\ n.pc = pc
      /\ n.idx = {} /\ n.todo = {} /\ n.shown = {}
  BY OffFacts DEF RequestType
<1> HIDE DEF n
<1>3. op'[o] = n /\ op' = [op EXCEPT ![o] = op'[o]]
  BY <1>1, <1>2, BecomesFacts DEF Shapes
<1>4. QED
  BY <1>2, <1>3 DEF Begins, Blank

LEMMA RequestFacts ==
  ASSUME StoresOK, Shapes, NEW o \in Ops
  PROVE  /\ \A a \in Agents :
              /\ CreateAgent(o, a) =>
                   /\ Begins(o, "save", a, "state") /\ Blank(o)
                   /\ op'[o].state = 1 /\ op'[o].talk = 1
              /\ \A kind \in {"save", "unload"} : Persist(o, a, kind) =>
                   /\ Begins(o, kind, a, "state") /\ Blank(o)
                   /\ op'[o].state = memory[a].state /\ op'[o].talk = memory[a].talk
              /\ DeleteAgent(o, a) => Begins(o, "delete", a, "forget") /\ Blank(o)
              /\ DeleteArchived(o, a) => Begins(o, "archived", a, "entry") /\ Blank(o)
              /\ Import(o, a) => Begins(o, "import", a, "state") /\ Blank(o)
         /\ List(o) => /\ Begins(o, "list", None, "dir")
                       /\ op'[o].idx = Entries /\ op'[o].shown = Entries \cap Agents
<1> USE DEF Shapes
<1>1. ASSUME NEW a \in Agents, CreateAgent(o, a)
      PROVE  /\ Begins(o, "save", a, "state") /\ Blank(o)
             /\ op'[o].state = 1 /\ op'[o].talk = 1
  <2>1. PICK v \in Versions : v = 1
    BY AgentStoreAssumption DEF Versions
  <2>2. Starts(o, NewSave("save", a, v, v))
    BY <1>1, <2>1 DEF CreateAgent, NewSave
  <2>3. QED
    BY <2>1, <2>2, SaveFacts
<1>2. ASSUME NEW a \in Agents, NEW kind \in {"save", "unload"}, Persist(o, a, kind)
      PROVE  /\ Begins(o, kind, a, "state") /\ Blank(o)
             /\ op'[o].state = memory[a].state /\ op'[o].talk = memory[a].talk
  <2>1. PICK v \in Versions, w \in Versions : v = memory[a].state /\ w = memory[a].talk
    BY <1>2 DEF Persist, StoresOK
  <2>2. Starts(o, NewSave(kind, a, v, w))
    BY <1>2, <2>1 DEF Persist, NewSave
  <2>3. QED
    BY <2>1, <2>2, SaveFacts
<1>3. ASSUME NEW a \in Agents, DeleteAgent(o, a)
      PROVE  Begins(o, "delete", a, "forget") /\ Blank(o)
  BY <1>3, PlainFacts DEF DeleteAgent, Kinds, Pcs
<1>4. ASSUME NEW a \in Agents, Import(o, a)
      PROVE  Begins(o, "import", a, "state") /\ Blank(o)
  BY <1>4, PlainFacts DEF Import, Kinds, Pcs
<1>5. ASSUME NEW a \in Agents, DeleteArchived(o, a)
      PROVE  Begins(o, "archived", a, "entry") /\ Blank(o)
  BY <1>5, PlainFacts DEF DeleteArchived, Kinds, Pcs
<1>6. ASSUME List(o)
      PROVE  /\ Begins(o, "list", None, "dir")
             /\ op'[o].idx = Entries /\ op'[o].shown = Entries \cap Agents
  <2> DEFINE idx == Entries  shown == Entries \cap Agents
             n == [Off EXCEPT !.kind = "list", !.pc = "dir", !.idx = idx, !.shown = shown]
  <2>1. Becomes(o, n) /\ idx \in SUBSET Ids /\ shown \in SUBSET Agents
    BY <1>6 DEF List, Starts, Entries, StoresOK
  <2> HIDE DEF idx, shown
  <2>2. /\ n \in RequestType /\ n.kind = "list" /\ n.agent = None /\ n.pc = "dir"
        /\ n.idx = idx /\ n.todo = {} /\ n.shown = shown
    BY <2>1, OffFacts DEF RequestType, Kinds, Pcs
  <2> HIDE DEF n
  <2>3. op'[o] = n /\ op' = [op EXCEPT ![o] = op'[o]]
    BY <2>1, <2>2, BecomesFacts
  <2>4. QED
    BY <2>2, <2>3 DEF Begins, idx, shown
<1>7. QED
  BY <1>1, <1>2, <1>3, <1>4, <1>5, <1>6

(* What a step or a request of o leaves alone: the other requests, and the *)
(* agents that are not its own.                                            *)
Elsewhere(o) ==
  \A a \in Agents : a \notin {op[o].agent, op'[o].agent} =>
    /\ memory'[a] = memory[a] /\ version'[a] = version[a]
    /\ stateFile'[a] = stateFile[a] /\ talkFile'[a] = talkFile[a]
Confined(o) ==
  /\ Shape(op'[o]) /\ op' = [op EXCEPT ![o] = op'[o]]
  /\ (op[o] # Off /\ op'[o] # Off) => op'[o].agent = op[o].agent /\ op'[o].kind = op[o].kind
  /\ crashes' = crashes /\ Elsewhere(o)

(* A step either ends its request or moves it on, to a stage that its kind *)
(* has.                                                                    *)
Continues(o) ==
  /\ op' = [op EXCEPT ![o] = op'[o]]
  /\ op'[o] = Off \/ (Keeps(op'[o], op[o]) /\ Shape(op'[o]))
LEMMA ContinuesConfined ==
  ASSUME NEW o \in Ops, Continues(o), crashes' = crashes, Elsewhere(o)
  PROVE  Confined(o)
<1>1. Shape(op'[o])
  BY OffFacts DEF Continues
<1>2. QED
  BY <1>1 DEF Confined, Keeps, Continues

Follows(r, pc) ==
  \/ /\ pc \in {"stateEnd", "talk", "talkEnd"} /\ (Saves(r) \/ r.kind = "import")
     /\ r.pc \in {"state", "stateFix", "stateEnd", "talk", "talkFix"}
  \/ pc = "set" /\ r.kind = "import" /\ r.pc \in {"talk", "talkEnd"}
  \/ pc = "writeEnd" /\ r.pc = "write"
  \/ pc = "drop" /\ r.kind = "unload"
  \/ pc = "unlinkState" /\ r.kind = "delete" /\ r.pc = "forget"
  \/ pc = "unlinkTalk" /\ r.kind = "delete" /\ r.pc = "unlinkState"
  \/ pc \in {"stateFix", "talkFix"} /\ r.kind = "import" /\ r.pc \in {"state", "talk"}
LEMMA FollowsFacts ==
  ASSUME NEW o \in Ops, NEW pc, Shape(op[o]), Moves(o, pc), Lists(op'[o], op[o]),
         Follows(op[o], pc)
  PROVE  Continues(o)
<1> DEFINE r == op[o]  n == op'[o]
<1>1. /\ Shape(r) /\ Follows(r, pc) /\ n.pc = pc /\ Lists(n, r)
      /\ n \in RequestType /\ n.kind = r.kind /\ n.agent = r.agent
      /\ op' = [op EXCEPT ![o] = n]
  BY DEF Moves, Keeps
<1> HIDE DEF r, n
<1>2. r # Off /\ n # Off /\ pc # "off"
  BY <1>1, OffFacts DEF Follows, Saves, Shape
<1>3. Shape(n)
  <2> USE <1>1, <1>2 DEF Shape, Lists, Saves
  <2>1. CASE pc \in {"stateEnd", "talk", "talkEnd"} /\ r.pc \in {"state", "stateFix", "stateEnd", "talk", "talkFix"}
             /\ (Saves(r) \/ r.kind = "import")
    BY <2>1
  <2>2. CASE pc = "set" /\ r.kind = "import" /\ r.pc \in {"talk", "talkEnd"}
    BY <2>2
  <2>3. CASE pc = "writeEnd" /\ r.pc = "write"
    BY <2>3
  <2>4. CASE pc = "drop" /\ r.kind = "unload"
    BY <2>4
  <2>5. CASE pc = "unlinkTalk" /\ r.kind = "delete" /\ r.pc = "unlinkState"
    BY <2>5
  <2>6. CASE pc = "unlinkState" /\ r.kind = "delete" /\ r.pc = "forget"
    BY <2>6
  <2>7. CASE pc \in {"stateFix", "talkFix"} /\ r.kind = "import" /\ r.pc \in {"state", "talk"}
    BY <2>7
  <2>8. QED
    BY <2>1, <2>2, <2>3, <2>4, <2>5, <2>6, <2>7 DEF Follows
<1>4. QED
  BY <1>1, <1>3 DEF Continues, Keeps, n, r

LEMMA WritesFollow ==
  ASSUME NEW o \in Ops, NEW idx, Shape(op[o]), Writes(o, idx), op[o] # Off,
         Saves(op[o]) => op[o].agent \in idx
  PROVE  Continues(o)
<1> DEFINE r == op[o]  n == op'[o]
<1>1. /\ Shape(r) /\ r # Off /\ (Saves(r) => r.agent \in idx)
      /\ n.pc = "write" /\ n.idx = idx /\ n.todo = r.todo /\ n.shown = r.shown
      /\ n \in RequestType /\ n.kind = r.kind /\ n.agent = r.agent
      /\ op' = [op EXCEPT ![o] = n]
  BY DEF Writes, Moves, Keeps
<1> HIDE DEF r, n
<1>2. n # Off
  BY <1>1, OffFacts
<1>3. Shape(n)
  BY <1>1, <1>2 DEF Shape, Saves
<1>4. QED
  BY <1>1, <1>3 DEF Continues, Keeps, n, r

LEMMA StepConfined ==
  ASSUME StoresOK, Shapes, NEW o \in Ops, Step(o)
  PROVE  Confined(o)
<1>1. /\ Shape(op[o]) /\ Off.pc = "off"
      /\ \A pc : Passes(o, pc) /\ Follows(op[o], pc) => Continues(o)
      /\ Ends(o) => Continues(o)
  BY FollowsFacts, OffFacts DEF Shapes, Passes, Ends, Continues
<1>2. ASSUME WriteState(o) PROVE Confined(o)
  <2>1. op[o].kind = "import" \/ Saves(op[o])
    BY <1>1, <1>2, ShapeFacts DEF WriteState, Saves
  <2>a. Continues(o)
    BY <1>1, <1>2, <2>1, StepFacts DEF WriteState, Follows
  <2>2. crashes' = crashes /\ Elsewhere(o)
    BY <1>2 DEF WriteState, Elsewhere, StoresOK
  <2>3. QED
    BY <2>a, <2>2, ContinuesConfined
<1>3. ASSUME StateWritten(o) PROVE Confined(o)
  <2>1. Continues(o)
    BY <1>1, <1>3, StepFacts, ShapeFacts DEF StateWritten, Follows
  <2>2. crashes' = crashes /\ Elsewhere(o)
    BY <1>3 DEF StateWritten, Elsewhere, StoresOK
  <2>3. QED
    BY <2>1, <2>2, ContinuesConfined
<1>4. ASSUME WriteTalk(o) PROVE Confined(o)
  <2>1. op[o].kind = "import" \/ Saves(op[o])
    BY <1>1, <1>4, ShapeFacts DEF WriteTalk, Saves
  <2>a. Continues(o)
    BY <1>1, <1>4, <2>1, StepFacts DEF WriteTalk, Follows
  <2>2. crashes' = crashes /\ Elsewhere(o)
    BY <1>4 DEF WriteTalk, Elsewhere, StoresOK
  <2>3. QED
    BY <2>a, <2>2, ContinuesConfined
<1>5. ASSUME TalkWritten(o) PROVE Confined(o)
  <2>1. op[o].pc = "talkEnd" /\ op[o] # Off
    BY <1>1, <1>5 DEF TalkWritten
  <2>2. ASSUME op[o].kind = "import" PROVE Continues(o)
    BY <1>1, <1>5, <2>1, <2>2, StepFacts DEF Follows
  <2>3. ASSUME op[o].kind # "import" PROVE Continues(o)
    <3>1. Writes(o, Entries \cup {op[o].agent})
      BY <1>5, <2>3, StepFacts
    <3>2. QED
      BY <1>1, <2>1, <3>1, WritesFollow
  <2>4. crashes' = crashes /\ Elsewhere(o)
    BY <1>5 DEF TalkWritten, Elsewhere, StoresOK
  <2>5. QED
    BY <2>2, <2>3, <2>4, ContinuesConfined
<1>6. ASSUME WriteIndex(o) PROVE Confined(o)
  <2>1. Continues(o)
    BY <1>1, <1>6, StepFacts DEF WriteIndex, Follows
  <2>2. crashes' = crashes /\ Elsewhere(o)
    BY <1>6 DEF WriteIndex, Elsewhere
  <2>3. QED
    BY <2>1, <2>2, ContinuesConfined
<1>7. ASSUME IndexWritten(o) PROVE Confined(o)
  <2>1. Continues(o)
    BY <1>1, <1>7, StepFacts DEF Follows
  <2>2. crashes' = crashes /\ Elsewhere(o)
    BY <1>7 DEF IndexWritten, Elsewhere
  <2>3. QED
    BY <2>1, <2>2, ContinuesConfined
<1>8. ASSUME Drop(o) PROVE Confined(o)
  <2>1. Continues(o)
    BY <1>1, <1>8, StepFacts
  <2>2. crashes' = crashes /\ Elsewhere(o)
    BY <1>8 DEF Drop, Elsewhere, StoresOK, files
  <2>3. QED
    BY <2>1, <2>2, ContinuesConfined
<1>a. ASSUME Forget(o) PROVE Confined(o)
  <2>1. Continues(o)
    BY <1>1, <1>a, StepFacts, ShapeFacts DEF Forget, Follows
  <2>2. crashes' = crashes /\ Elsewhere(o)
    BY <1>a DEF Forget, Elsewhere, StoresOK, files
  <2>3. QED
    BY <2>1, <2>2, ContinuesConfined
<1>b. ASSUME AddPhantom(o) PROVE Confined(o)
  <2>1. op[o] # Off /\ ~Saves(op[o]) /\ Writes(o, Entries \cup {Phantom})
    BY <1>1, <1>b, StepFacts, ShapeFacts DEF AddPhantom, Saves, Shape
  <2>2. Continues(o)
    BY <1>1, <2>1, WritesFollow
  <2>3. crashes' = crashes /\ Elsewhere(o)
    BY <1>b DEF AddPhantom, Elsewhere, files
  <2>4. QED
    BY <2>2, <2>3, ContinuesConfined
<1>9. ASSUME UnlinkState(o) PROVE Confined(o)
  <2>1. Continues(o)
    BY <1>1, <1>9, StepFacts, ShapeFacts DEF UnlinkState, Follows
  <2>2. crashes' = crashes /\ Elsewhere(o)
    BY <1>9 DEF UnlinkState, Elsewhere, StoresOK
  <2>3. QED
    BY <2>1, <2>2, ContinuesConfined
<1>10. ASSUME UnlinkTalk(o) PROVE Confined(o)
  <2>1. op[o] # Off /\ ~Saves(op[o])
    BY <1>1, <1>10, ShapeFacts DEF UnlinkTalk, Saves
  <2>2. Ends(o) \/ Writes(o, index \ {op[o].agent})
    BY <1>10, StepFacts
  <2>3. Continues(o)
    BY <1>1, <2>1, <2>2, WritesFollow
  <2>4. crashes' = crashes /\ Elsewhere(o)
    BY <1>10 DEF UnlinkTalk, Elsewhere, StoresOK
  <2>5. QED
    BY <2>3, <2>4, ContinuesConfined
<1>11. ASSUME LoadState(o) PROVE Confined(o)
  <2>1. PICK pc \in {"talk", "stateFix"} : Moves(o, pc) /\ Lists(op'[o], op[o])
    BY <1>11, LoadStateFacts
  <2>2. Follows(op[o], pc)
    BY <1>11, <2>1 DEF LoadState, Follows
  <2>3. Continues(o)
    BY <1>1, <2>1, <2>2, FollowsFacts
  <2>4. crashes' = crashes /\ Elsewhere(o)
    BY <1>11 DEF LoadState, Elsewhere, files
  <2>5. QED
    BY <2>3, <2>4, ContinuesConfined
<1>12. ASSUME LoadTalk(o) PROVE Confined(o)
  <2>1. PICK pc \in {"set", "talkFix"} : Moves(o, pc) /\ Lists(op'[o], op[o])
    BY <1>12, LoadTalkFacts
  <2>2. Follows(op[o], pc)
    BY <1>12, <2>1 DEF LoadTalk, Follows
  <2>3. Continues(o)
    BY <1>1, <2>1, <2>2, FollowsFacts
  <2>4. crashes' = crashes /\ Elsewhere(o)
    BY <1>12 DEF LoadTalk, Elsewhere, files
  <2>5. QED
    BY <2>3, <2>4, ContinuesConfined
<1>13. ASSUME SetAgent(o) PROVE Confined(o)
  <2>1. op[o] # Off /\ Writes(o, Entries \cup {op[o].agent})
    BY <1>1, <1>13, StepFacts DEF SetAgent
  <2>2. Continues(o)
    BY <1>1, <2>1, WritesFollow
  <2>3. crashes' = crashes /\ Elsewhere(o)
    BY <1>13 DEF SetAgent, Elsewhere, StoresOK, files
  <2>4. QED
    BY <2>2, <2>3, ContinuesConfined
<1>14. ASSUME ReadDir(o) PROVE Confined(o)
  <2>1. op[o].kind = "list" /\ op[o] # Off
    BY <1>1, <1>14, ShapeFacts DEF ReadDir
  <2>2. Moves(o, "scan")
    BY <1>14, ReadDirFacts
  <2>3. Continues(o)
    BY <1>1, <2>1, <2>2 DEF Moves, Keeps, Continues, Shape, Saves
  <2>4. crashes' = crashes /\ Elsewhere(o)
    BY <1>14 DEF ReadDir, Elsewhere, files
  <2>5. QED
    BY <2>3, <2>4, ContinuesConfined
<1>15. ASSUME Scanned(o) PROVE Confined(o)
  <2>1. op[o] # Off /\ ~Saves(op[o])
    BY <1>1, <1>15, ShapeFacts DEF Scanned, Saves
  <2>2. Ends(o) \/ Writes(o, op[o].idx \cup op[o].shown)
    BY <1>15, StepFacts
  <2>3. Continues(o)
    BY <1>1, <2>1, <2>2, WritesFollow
  <2>4. crashes' = crashes /\ Elsewhere(o)
    BY <1>15 DEF Scanned, Elsewhere, files
  <2>5. QED
    BY <2>3, <2>4, ContinuesConfined
<1>16. ASSUME NEW a \in Agents, ScanFile(o, a) PROVE Confined(o)
  <2>1. op[o].kind = "list" /\ op[o] # Off
    BY <1>1, <1>16, ShapeFacts DEF ScanFile
  <2>2. Moves(o, "scan")
    BY <1>16, ScanFileFacts
  <2>3. Continues(o)
    BY <1>1, <2>1, <2>2 DEF Moves, Keeps, Continues, Shape, Saves
  <2>4. crashes' = crashes /\ Elsewhere(o)
    BY <1>16 DEF ScanFile, Elsewhere, files
  <2>5. QED
    BY <2>3, <2>4, ContinuesConfined
<1>17. QED
  BY <1>2, <1>3, <1>4, <1>5, <1>6, <1>7, <1>8, <1>a, <1>b, <1>9, <1>10, <1>11, <1>12, <1>13,
     <1>14, <1>15, <1>16 DEF Step

(* A request begins in a stage that its kind has.                          *)
Starting(kind, pc) ==
  \/ kind \in {"save", "unload", "import"} /\ pc = "state"
  \/ kind = "delete" /\ pc = "forget"
  \/ kind = "archived" /\ pc = "entry"
LEMMA BlankConfined ==
  ASSUME NEW o \in Ops, NEW a \in Agents, NEW kind, NEW pc, op[o] = Off,
         Begins(o, kind, a, pc), Blank(o), Starting(kind, pc),
         crashes' = crashes, Elsewhere(o)
  PROVE  Confined(o)
<1> DEFINE n == op'[o]
<1>1. /\ n \in RequestType /\ n.kind = kind /\ n.agent = a /\ n.pc = pc
      /\ n.idx = {} /\ n.todo = {} /\ n.shown = {} /\ a # None
  BY AgentStoreAssumption DEF Begins, Blank
<1> HIDE DEF n
<1>2. n # Off
  BY <1>1, OffFacts DEF Starting
<1>3. Shape(n)
  BY <1>1, <1>2 DEF Shape, Saves, Starting
<1>4. QED
  BY <1>3 DEF Confined, Begins, n

LEMMA RequestConfined ==
  ASSUME StoresOK, Shapes, NEW o \in Ops, Request(o)
  PROVE  Confined(o)
<1>1. op[o] = Off /\ None \notin Agents
  BY AgentStoreAssumption DEF Request
<1>2. ASSUME List(o) PROVE Confined(o)
  <2> DEFINE n == op'[o]
  <2>1. /\ n \in RequestType /\ n.kind = "list" /\ n.agent = None /\ n.pc = "dir"
        /\ op' = [op EXCEPT ![o] = n]
    BY <1>2, RequestFacts DEF Begins
  <2>2. crashes' = crashes /\ Elsewhere(o)
    BY <1>2 DEF List, Elsewhere, files
  <2> HIDE DEF n
  <2>3. Shape(n)
    BY <2>1, OffFacts DEF Shape, Saves
  <2>4. QED
    BY <1>1, <2>1, <2>2, <2>3 DEF Confined, n
<1>3. ASSUME NEW a \in Agents, CreateAgent(o, a) PROVE Confined(o)
  <2>1. Begins(o, "save", a, "state") /\ Blank(o)
    BY <1>3, RequestFacts
  <2>2. crashes' = crashes /\ Elsewhere(o)
    BY <1>3, <2>1 DEF CreateAgent, Elsewhere, StoresOK, Begins, files
  <2>3. QED
    BY <1>1, <2>1, <2>2, BlankConfined DEF Starting
<1>4. ASSUME NEW a \in Agents, NEW kind \in {"save", "unload"}, Persist(o, a, kind)
      PROVE  Confined(o)
  <2>1. Begins(o, kind, a, "state") /\ Blank(o)
    BY <1>4, RequestFacts
  <2>2. crashes' = crashes /\ Elsewhere(o)
    BY <1>4 DEF Persist, Elsewhere, files
  <2>3. QED
    BY <1>1, <2>1, <2>2, BlankConfined DEF Starting
<1>5. ASSUME NEW a \in Agents, DeleteAgent(o, a) PROVE Confined(o)
  <2>1. Begins(o, "delete", a, "forget") /\ Blank(o)
    BY <1>5, RequestFacts
  <2>2. crashes' = crashes /\ Elsewhere(o)
    BY <1>5 DEF DeleteAgent, Elsewhere, files
  <2>3. QED
    BY <1>1, <2>1, <2>2, BlankConfined DEF Starting
<1>6. ASSUME NEW a \in Agents, DeleteArchived(o, a) PROVE Confined(o)
  <2>1. Begins(o, "archived", a, "entry") /\ Blank(o)
    BY <1>6, RequestFacts
  <2>2. crashes' = crashes /\ Elsewhere(o)
    BY <1>6 DEF DeleteArchived, Elsewhere, files
  <2>3. QED
    BY <1>1, <2>1, <2>2, BlankConfined DEF Starting
<1>7. ASSUME NEW a \in Agents, Import(o, a) PROVE Confined(o)
  <2>1. Begins(o, "import", a, "state") /\ Blank(o)
    BY <1>7, RequestFacts
  <2>2. crashes' = crashes /\ Elsewhere(o)
    BY <1>7 DEF Import, Elsewhere, files
  <2>3. QED
    BY <1>1, <2>1, <2>2, BlankConfined DEF Starting
<1>8. QED
  BY <1>2, <1>3, <1>4, <1>5, <1>6, <1>7 DEF Request

(* The stores keep their types.                                            *)
LEMMA LeftFacts ==
  ASSUME NEW file \in Contents, NEW v \in Versions
  PROVE  Left(file, v) \subseteq Contents
<1>1. Whole(v) \in [v : Versions, junk : BOOLEAN] /\ Junk(v) \in [v : Versions, junk : BOOLEAN]
  BY Zenon DEF Whole, Junk
<1>2. QED
  BY <1>1 DEF Left, Contents

LEMMA StoresStep ==
  ASSUME StoresOK, Shapes, NEW o \in Ops, Step(o)
  PROVE  StoresOK'
<1> USE DEF StoresOK, files
<1>1. /\ op[o] \in RequestType /\ op[o].idx \subseteq Ids
      /\ op[o].state \in Versions /\ op[o].talk \in Versions
      /\ {Torn, Absent} \subseteq Contents
  BY DEF Shapes, RequestType, Contents
<1>2. CASE WriteState(o) \/ WriteTalk(o) \/ UnlinkState(o) \/ UnlinkTalk(o)
  BY <1>1, <1>2 DEF WriteState, WriteTalk, UnlinkState, UnlinkTalk
<1>3. CASE StateWritten(o)
  <2>1. PICK file \in Contents : stateFile' = [stateFile EXCEPT ![op[o].agent] = file]
    BY <1>1, <1>3, StepFacts, LeftFacts DEF StateWritten, Has
  <2>2. QED
    BY <1>3, <2>1 DEF StateWritten
<1>4. CASE TalkWritten(o)
  <2>1. PICK file \in Contents : talkFile' = [talkFile EXCEPT ![op[o].agent] = file]
    BY <1>1, <1>4, StepFacts, LeftFacts DEF TalkWritten, Has
  <2>2. QED
    BY <1>4, <2>1 DEF TalkWritten
<1>5. CASE WriteIndex(o) \/ IndexWritten(o)
  BY <1>1, <1>5 DEF WriteIndex, IndexWritten, LeftIndex
<1>6. CASE Drop(o) \/ Forget(o)
  BY <1>6 DEF Drop, Forget
<1>7. CASE LoadState(o) \/ LoadTalk(o) \/ AddPhantom(o)
  BY <1>7 DEF LoadState, LoadTalk, AddPhantom
<1>8. CASE SetAgent(o)
  BY <1>1, <1>8 DEF SetAgent
<1>9. CASE ReadDir(o) \/ (\E a \in Agents : ScanFile(o, a)) \/ Scanned(o)
  BY <1>9 DEF ReadDir, ScanFile, Scanned
<1>10. QED
  BY <1>2, <1>3, <1>4, <1>5, <1>6, <1>7, <1>8, <1>9 DEF Step


LEMMA StoresRequest ==
  ASSUME StoresOK, Shapes, NEW o \in Ops, Request(o)
  PROVE  StoresOK' /\ UNCHANGED files
<1> USE DEF StoresOK, files
<1>1. 1 \in Versions
  BY AgentStoreAssumption DEF Versions
<1>2. ASSUME NEW a \in Agents, CreateAgent(o, a) PROVE StoresOK' /\ UNCHANGED files
  BY <1>1, <1>2 DEF CreateAgent
<1>3. ASSUME NEW a \in Agents, DeleteAgent(o, a) PROVE StoresOK' /\ UNCHANGED files
  BY <1>3 DEF DeleteAgent
<1>4. ASSUME List(o) \/ \E a \in Agents : \/ Persist(o, a, "save") \/ Persist(o, a, "unload")
                                          \/ DeleteArchived(o, a) \/ Import(o, a)
      PROVE StoresOK' /\ UNCHANGED files
  BY <1>4 DEF List, Persist, DeleteArchived, Import
<1>5. QED
  BY <1>2, <1>3, <1>4 DEF Request

LEMMA StepRuns ==
  ASSUME NEW o \in Ops, Step(o)
  PROVE  op[o].pc # "off" /\ op[o] # Off /\ UNCHANGED <<version, crashes, requests>>
BY OffFacts DEF Step, WriteState, StateWritten, WriteTalk, TalkWritten, WriteIndex, IndexWritten,
   Drop, Forget, AddPhantom, UnlinkState, UnlinkTalk, LoadState, LoadTalk, SetAgent, ReadDir,
   ScanFile, Scanned

LEMMA IndexStep ==
  ASSUME NEW o \in Ops, Step(o)
  PROVE  index' \in {index, Torn} \/ (IndexWritten(o) /\ index' = op[o].idx)
BY DEF Step, files, WriteState, StateWritten, WriteTalk, TalkWritten, WriteIndex, IndexWritten,
       LeftIndex, Drop, Forget, AddPhantom, UnlinkState, UnlinkTalk, LoadState, LoadTalk,
       SetAgent, ReadDir,
       ScanFile, Scanned

(* An agent that is in no file and in no list gets into none.              *)
LEMMA ListsStep ==
  ASSUME StoresOK, Shapes, NEW o \in Ops, Step(o), NEW a \in Agents,
         op[o].agent # a, stateFile[a] = Absent, a \notin Entries,
         UsesIndex(op[o]) => a \notin Listed(op[o])
  PROVE  UsesIndex(op'[o]) => a \notin Listed(op'[o])
<1> USE DEF Listed, UsesIndex
<1>1. Shape(op[o]) /\ (Ends(o) => op'[o].pc = "off")
  BY OffFacts DEF Shapes, Ends
<1>2. CASE WriteState(o) \/ StateWritten(o) \/ WriteTalk(o)
  <2>1. op'[o].pc \in {"stateEnd", "talk", "talkEnd"}
    BY <1>2, StepFacts DEF Passes, Moves
  <2>2. QED
    BY <2>1
<1>3. CASE UnlinkState(o)
  <2>1. op[o].idx = {} /\ op[o].todo = {} /\ op[o].shown = {}
    BY <1>1, <1>3, ShapeFacts DEF UnlinkState, Shape
  <2>2. op'[o].idx = {} /\ op'[o].todo = {} /\ op'[o].shown = {}
    BY <1>3, <2>1, StepFacts DEF Passes, Lists
  <2>3. QED
    BY <2>2
<1>4. CASE TalkWritten(o)
  <2>1. op[o].todo = {} /\ op[o].shown = {}
    BY <1>1, <1>4, ShapeFacts DEF TalkWritten, Shape, Saves
  <2>2. CASE op[o].kind = "import"
    BY <1>4, <2>2, StepFacts DEF Passes, Moves
  <2>3. CASE op[o].kind # "import"
    BY <1>4, <2>1, <2>3, StepFacts DEF Writes
  <2>4. QED
    BY <2>2, <2>3
<1>5. CASE WriteIndex(o)
  BY <1>5, StepFacts DEF WriteIndex, Passes, Lists
<1>6. CASE IndexWritten(o)
  BY <1>1, <1>6, StepFacts DEF Passes, Moves
<1>7. CASE Drop(o)
  BY <1>1, <1>7, StepFacts
<1>a. CASE Forget(o)
  BY <1>a, StepFacts DEF Passes, Moves
<1>b. CASE AddPhantom(o)
  <2>1. op[o].todo = {} /\ op[o].shown = {} /\ a # Phantom
    BY <1>1, <1>b, ShapeFacts, AgentStoreAssumption DEF AddPhantom, Shape
  <2>2. QED
    BY <1>b, <2>1, StepFacts DEF Writes
<1>8. CASE UnlinkTalk(o)
  <2>1. op[o].todo = {} /\ op[o].shown = {}
    BY <1>1, <1>8, ShapeFacts DEF UnlinkTalk, Shape
  <2>2. CASE index = Torn
    BY <1>1, <1>8, <2>2, StepFacts
  <2>3. CASE index # Torn
    BY <1>8, <2>1, <2>3, StepFacts DEF Writes, Entries
  <2>4. QED
    BY <2>2, <2>3
<1>9. CASE LoadState(o) \/ LoadTalk(o)
  <2>1. op'[o].pc \in {"stateFix", "talk", "talkFix", "set"}
    BY <1>9, LoadStateFacts, LoadTalkFacts DEF Moves
  <2>2. QED
    BY <2>1
<1>10. CASE SetAgent(o)
  <2>1. op[o].todo = {} /\ op[o].shown = {}
    BY <1>1, <1>10, ShapeFacts DEF SetAgent, Shape
  <2>2. QED
    BY <1>10, <2>1, StepFacts DEF Writes
<1>11. CASE ReadDir(o)
  BY <1>11, ReadDirFacts DEF ReadDir
<1>12. CASE \E b \in Agents : ScanFile(o, b)
  <2>1. PICK b \in Agents : ScanFile(o, b)
    BY <1>12
  <2>2. /\ op'[o].todo = op[o].todo \ {b} /\ op'[o].idx = op[o].idx
        /\ op'[o].shown \subseteq op[o].shown \cup {b}
        /\ b \in op[o].todo /\ op[o].pc = "scan"
    BY <2>1, ScanFileFacts DEF ScanFile
  <2>3. QED
    BY <2>2
<1>13. CASE Scanned(o)
  <2>1. CASE op[o].shown \subseteq op[o].idx
    BY <1>1, <1>13, <2>1, StepFacts
  <2>2. CASE ~(op[o].shown \subseteq op[o].idx)
    BY <1>13, <2>2, StepFacts DEF Scanned, Writes
  <2>3. QED
    BY <2>1, <2>2
<1>14. QED
  BY <1>2, <1>3, <1>4, <1>5, <1>6, <1>7, <1>a, <1>b, <1>8, <1>9, <1>10, <1>11, <1>12, <1>13
     DEF Step

LEMMA ListsRequest ==
  ASSUME StoresOK, Shapes, NEW o \in Ops, Request(o), NEW a \in Agents, a \notin Entries
  PROVE  a \notin Listed(op'[o]) /\ Entries' = Entries
<1>1. a # Phantom
  BY AgentStoreAssumption
<1>2. index' = index
  BY StoresRequest DEF files
<1>3. op'[o].todo = {} /\ op'[o].shown \subseteq Entries /\ op'[o].idx \subseteq Entries \cup {Phantom}
  BY RequestFacts DEF Request, Begins, Blank
<1>4. QED
  BY <1>1, <1>2, <1>3 DEF Listed, Entries

LEMMA EditedFacts ==
  ASSUME StoresOK, Shapes, NEW a \in Agents, Edit(a)
  PROVE  /\ StoresOK' /\ Shapes' /\ UNCHANGED <<files, crashes>>
         /\ version' = [version EXCEPT ![a] = version[a] + 1]
         /\ version[a] + 1 \in Versions /\ memory[a] # None /\ memory'[a] # None
         /\ \A b \in Agents \ {a} : memory'[b] = memory[b]
         /\ \A o \in Ops :
              /\ Keeps(op'[o], op[o]) /\ Lists(op'[o], op[o])
              /\ op'[o].pc = op[o].pc /\ op'[o].state = op[o].state
              /\ \/ op'[o] = op[o]
                 \/ /\ Saves(op[o]) /\ op[o].agent = a
                    /\ op[o].pc \in {"state", "stateEnd", "talk"}
<1> DEFINE v == version[a] + 1
<1>1. v \in Versions
  BY AgentStoreAssumption DEF Edit, StoresOK, Versions
<1>2. StoresOK' /\ UNCHANGED <<files, crashes>> /\ version' = [version EXCEPT ![a] = v]
  BY <1>1 DEF Edit, StoresOK, files
<1>3. memory[a] # None /\ memory'[a] # None
  BY <1>1, RecordFacts DEF Edit, StoresOK
<1>4. \A b \in Agents \ {a} : memory'[b] = memory[b]
  BY DEF Edit, StoresOK
<1>5. ASSUME NEW o \in Ops
      PROVE  /\ Keeps(op'[o], op[o]) /\ Lists(op'[o], op[o]) /\ Shape(op'[o])
             /\ op'[o].pc = op[o].pc /\ op'[o].state = op[o].state
             /\ \/ op'[o] = op[o]
                \/ /\ Saves(op[o]) /\ op[o].agent = a
                   /\ op[o].pc \in {"state", "stateEnd", "talk"}
  <2>1. op[o] \in RequestType /\ Shape(op[o])
    BY DEF Shapes
  <2>2. PICK n \in {[op[o] EXCEPT !.talk = v]} :
          /\ Keeps(n, op[o]) /\ Lists(n, op[o]) /\ n.pc = op[o].pc /\ n.state = op[o].state
    BY <1>1, <2>1, EditFacts
  <2>3. op'[o] = op[o] \/ (/\ op'[o] = n /\ Saves(op[o]) /\ op[o].agent = a
                           /\ op[o].pc \in {"state", "stateEnd", "talk"})
    BY <2>2 DEF Edit, Saves
  <2>4. CASE op'[o] = op[o]
    BY <2>1, <2>4 DEF Keeps, Lists
  <2>5. CASE op'[o] # op[o]
    BY <2>1, <2>2, <2>3, <2>5, OffFacts DEF Keeps, Lists, Shape, Saves
  <2>6. QED
    BY <2>4, <2>5
<1>6. op' \in [Ops -> RequestType]
  BY <1>5 DEF Edit, Keeps
<1>7. QED
  BY <1>1, <1>2, <1>3, <1>4, <1>5, <1>6 DEF Shapes, Edit

LEMMA CrashFacts ==
  ASSUME StoresOK, Shapes, Crash
  PROVE  /\ StoresOK' /\ Shapes' /\ UNCHANGED <<files, version>>
         /\ \A a \in Agents : memory'[a] = None
         /\ \A o \in Ops : op'[o] = Off
         /\ crashes' = crashes + 1 /\ crashes' # crashes
BY OffFacts, AgentStoreAssumption DEF Crash, StoresOK, Shapes, files

LEMMA ConfinedFacts ==
  ASSUME Shapes, NEW o \in Ops, Confined(o)
  PROVE  Shapes' /\ (\A p \in Ops \ {o} : op'[p] = op[p]) /\ Shape(op[o]) /\ Shape(op'[o])
BY DEF Shapes, Confined, Elsewhere, Shape

(* An agent that is nowhere stays nowhere until it is created.             *)
LEMMA AbsenceStep ==
  ASSUME StoresOK, Shapes, NEW a \in Agents, Absence(a), NEW o \in Ops, Step(o)
  PROVE  Absence(a)' /\ talkFile'[a] = talkFile[a]
<1>1. Confined(o) /\ Shapes' /\ a # None /\ op[o].agent # a
  BY StepConfined, ConfinedFacts, AgentStoreAssumption DEF Absence
<1>2. op'[o].agent # a
  BY <1>1, OffFacts, StepRuns DEF Confined, Elsewhere
<1>3. memory'[a] = None /\ stateFile'[a] = Absent /\ talkFile'[a] = talkFile[a]
  BY <1>1, <1>2 DEF Confined, Elsewhere, Absence
<1>4. UsesIndex(op'[o]) => a \notin Listed(op'[o])
  BY <1>1, ListsStep DEF Absence
<1>5. a \notin Entries'
  BY <1>1, IndexStep DEF Entries, Absence, Listed, IndexWritten, UsesIndex
<1>6. QED
  BY <1>1, <1>2, <1>3, <1>4, <1>5, ConfinedFacts DEF Absence, UsesIndex, Listed

LEMMA AbsenceRequest ==
  ASSUME StoresOK, Shapes, NEW a \in Agents, Absence(a), NEW o \in Ops, Request(o),
         ~CreateAgent(o, a)
  PROVE  Absence(a)' /\ talkFile'[a] = talkFile[a]
<1>1. Confined(o) /\ a # None /\ memory[a] = None /\ a \notin Entries
  BY RequestConfined, AgentStoreAssumption DEF Absence
<1>2. op'[o].agent # a
  <2> USE RequestFacts DEF Begins
  <2>1. CASE List(o)
    BY <1>1, <2>1
  <2>2. ASSUME NEW b \in Agents, CreateAgent(o, b) PROVE op'[o].agent # a
    BY <2>2
  <2>3. ASSUME NEW b \in Agents,
               Persist(o, b, "save") \/ Persist(o, b, "unload") \/ DeleteAgent(o, b)
        PROVE  op'[o].agent # a
    <3>1. b # a
      BY <1>1, <2>3 DEF Persist, DeleteAgent
    <3>2. op'[o].agent = b
      BY <2>3
    <3>3. QED
      BY <3>1, <3>2
  <2>4. ASSUME NEW b \in Agents, DeleteArchived(o, b) \/ Import(o, b)
        PROVE  op'[o].agent # a
    <3>1. b # a
      BY <1>1, <2>4 DEF DeleteArchived, Import
    <3>2. op'[o].agent = b
      BY <2>4
    <3>3. QED
      BY <3>1, <3>2
  <2>5. QED
    BY <2>1, <2>2, <2>3, <2>4 DEF Request
<1>3. a \notin Listed(op'[o]) /\ a \notin Entries'
  BY <1>1, ListsRequest
<1>4. op[o].agent = None
  BY OffFacts DEF Request
<1>5. memory'[a] = None /\ stateFile'[a] = Absent /\ talkFile'[a] = talkFile[a]
  BY <1>1, <1>2, <1>4 DEF Confined, Elsewhere, Absence
<1>6. QED
  BY <1>1, <1>2, <1>3, <1>5, ConfinedFacts DEF Absence, UsesIndex, Listed

LEMMA AbsenceKept ==
  ASSUME StoresOK, Shapes, NEW a \in Agents, Absence(a), \A o \in Ops : ~CreateAgent(o, a),
         \/ \E o \in Ops : Step(o) \/ Request(o)
         \/ \E b \in Agents : Edit(b)
         \/ Crash
  PROVE  Absence(a)' /\ talkFile'[a] = talkFile[a]
<1>1. ASSUME NEW b \in Agents, Edit(b) PROVE Absence(a)' /\ talkFile'[a] = talkFile[a]
  BY <1>1, EditedFacts DEF Absence, Keeps, Lists, Listed, files, Entries, UsesIndex
<1>2. ASSUME Crash PROVE Absence(a)' /\ talkFile'[a] = talkFile[a]
  BY <1>2, CrashFacts, OffFacts, AgentStoreAssumption DEF Absence, Listed, files, Entries, UsesIndex
<1>3. QED
  BY <1>1, <1>2, AbsenceStep, AbsenceRequest

(* No step or request takes a version back.                                *)
LEMMA VersionsGrow ==
  ASSUME StoresOK, Shapes, NEW a \in Agents,
         \/ \E o \in Ops : Step(o) \/ Request(o)
         \/ \E b \in Agents : Edit(b)
         \/ Crash
  PROVE  /\ version'[a] = 0 => version[a] = 0 /\ \A o \in Ops : ~CreateAgent(o, a)
         /\ version[a] > 0 => version'[a] > 0 /\ \A o \in Ops : ~CreateAgent(o, a)
<1>1. \A b \in Agents : version[b] \in Nat
  BY RecordFacts DEF StoresOK
<1>2. ASSUME NEW o \in Ops, NEW b \in Agents, CreateAgent(o, b)
      PROVE  version[b] = 0 /\ version' = [version EXCEPT ![b] = 1]
  BY <1>2 DEF CreateAgent
<1>3. ASSUME NEW b \in Agents, Edit(b)
      PROVE  version' = [version EXCEPT ![b] = version[b] + 1]
  BY <1>3, EditedFacts
<1>4. \/ version' = version
      \/ \E o \in Ops, b \in Agents : CreateAgent(o, b)
      \/ \E b \in Agents : Edit(b)
  BY StepRuns, CrashFacts DEF Request, List, Persist, DeleteAgent, DeleteArchived, Import
<1>5. version'[a] = version[a] \/ version'[a] > 0
  BY <1>1, <1>2, <1>3, <1>4 DEF StoresOK
<1>6. QED
  BY <1>1, <1>2, <1>5 DEF StoresOK

LEMMA KnownKept ==
  ASSUME StoresOK, Shapes, Known,
         \/ \E o \in Ops : Step(o) \/ Request(o)
         \/ \E b \in Agents : Edit(b)
         \/ Crash
  PROVE  Known'
<1> SUFFICES ASSUME NEW a \in Agents, version'[a] = 0 PROVE Absence(a)'
  BY DEF Known
<1>1. version[a] = 0 /\ \A o \in Ops : ~CreateAgent(o, a)
  BY VersionsGrow
<1>2. QED
  BY <1>1, AbsenceKept DEF Known
-----------------------------------------------------------------------------
(* What the history remembers.                                             *)
LEMMA Uncrossed ==
  ASSUME Remember, NEW o \in Ops \ crossed', op'[o] # Off
  PROVE  o \notin crossed /\ \A p \in Ops \ {o} : ~Meet(op'[o], op'[p])
BY DEF Remember, Collided

LEMMA Unstale ==
  ASSUME Remember, NEW o \in Ops \ stale', op'[o] # Off
  PROVE  o \notin stale /\ \A p \in Ops \ {o} : ~BothUseIndex(op'[o], op'[p])
BY DEF Remember, Collided

LEMMA ApartKept ==
  ASSUME Remember
  PROVE  Apart' /\ Alone'
<1>1. Off.agent = None /\ ~UsesIndex(Off)
  BY OffFacts DEF UsesIndex
<1>2. \A o \in Ops \ crossed' : op'[o] # Off => \A p \in Ops \ {o} : ~Meet(op'[o], op'[p])
  BY Uncrossed
<1>3. \A o \in Ops \ stale' : op'[o] # Off => \A p \in Ops \ {o} : ~BothUseIndex(op'[o], op'[p])
  BY Unstale
<1>4. QED
  BY <1>1, <1>2, <1>3 DEF Apart, Alone, Meet, BothUseIndex

LEMMA TypedIsTypeOK == Typed => TypeOK
<1> SUFFICES ASSUME Typed PROVE TypeOK
  OBVIOUS
<1>1. \A o \in Ops : /\ (op[o].pc = "off" <=> op[o] = Off)
                      /\ (op[o].kind \in {"off", "list"} <=> op[o].agent = None)
  BY DEF Typed, Shapes, Shape
<1>2. \A a \in Agents : memory[a] # None => version[a] > 0
  BY DEF Typed, StoresOK, Known, Absence, Versions
<1>3. QED
  BY <1>1, <1>2 DEF Typed, TypeOK, StoresOK, Shapes, HistoryOK, CountsOK, RequestType

LEMMA HistoryKept ==
  ASSUME StoresOK, Shapes, HistoryOK, Remember
  PROVE  HistoryOK'
<1> DEFINE Last(a) ==
       IF \/ crashes' # crashes /\ \E o \in Ops : op[o].agent = a
          \/ \E o \in Ops : Deletes(o, a)
          \/ \E o \in crossed : Saved(o, a)
         THEN 0
       ELSE IF \E o \in Ops : Saved(o, a)
         THEN LET o == CHOOSE o \in Ops : Saved(o, a)
              IN IF op[o].state = op[o].talk THEN op[o].state ELSE 0
       ELSE last[a]
<1>1. ASSUME NEW a \in Agents PROVE Last(a) \in Versions
  <2> DEFINE s == CHOOSE o \in Ops : Saved(o, a)
  <2>1. (\E o \in Ops : Saved(o, a)) => s \in Ops
    OBVIOUS
  <2>2. \A o \in Ops : op[o].state \in Versions
    BY DEF Shapes, RequestType
  <2>3. last[a] \in Versions /\ 0 \in Versions
    BY RecordFacts DEF HistoryOK
  <2> HIDE DEF s
  <2>4. Last(a) = IF \/ crashes' # crashes /\ \E o \in Ops : op[o].agent = a
                     \/ \E o \in Ops : Deletes(o, a)
                     \/ \E o \in crossed : Saved(o, a)
                    THEN 0
                  ELSE IF \E o \in Ops : Saved(o, a)
                    THEN IF op[s].state = op[s].talk THEN op[s].state ELSE 0
                  ELSE last[a]
    BY DEF s
  <2> HIDE DEF Last
  <2>5. QED
    BY <2>1, <2>2, <2>3, <2>4
<1>2. last' = [a \in Agents |-> Last(a)]
  BY DEF Remember
<1> HIDE DEF Last
<1>3. last' \in [Agents -> Versions]
  BY <1>1, <1>2
<1>4. crossed' \subseteq Ops /\ stale' \subseteq Ops
  BY DEF Remember, Collided
<1>5. steady' \in [Ops -> SUBSET Agents]
  BY DEF Remember, HistoryOK
<1>6. kept' \cup gone' \subseteq Agents
  BY DEF Remember, HistoryOK
<1>7. orderly' \in BOOLEAN
  BY DEF Remember
<1>8. QED
  BY <1>3, <1>4, <1>5, <1>6, <1>7 DEF HistoryOK
-----------------------------------------------------------------------------
(* A request that meets no other keeps what it relies on while another one *)
(* takes a step.                                                           *)
LEMMA Others ==
  ASSUME Shapes, Apart, Remember, NEW o \in Ops, Confined(o),
         NEW p \in Ops \ {o}, p \notin crossed', op'[p].agent # None
  PROVE  /\ p \notin crossed /\ op'[p] = op[p] /\ op[p].agent \in Agents
         /\ LET b == op[p].agent IN
              /\ memory'[b] = memory[b] /\ version'[b] = version[b]
              /\ stateFile'[b] = stateFile[b] /\ talkFile'[b] = talkFile[b]
<1>1. op'[p] = op[p] /\ op[p].agent \in Agents
  BY ConfinedFacts DEF Shapes, RequestType
<1>2. op'[p] # Off
  BY OffFacts
<1>3. p \notin crossed /\ ~Meet(op'[p], op'[o])
  BY <1>2, Uncrossed
<1>4. ~Meet(op[p], op[o])
  BY <1>3 DEF Apart
<1>5. op[o].agent # op[p].agent /\ op'[o].agent # op[p].agent
  BY <1>1, <1>3, <1>4 DEF Meet
<1>6. QED
  BY <1>1, <1>3, <1>5 DEF Confined, Elsewhere

LEMMA WorkingStep ==
  ASSUME StoresOK, Shapes, NEW o \in Ops, Step(o),
         Saving(op[o]) /\ Deleting(op[o]) /\ Importing(op[o])
  PROVE  Saving(op[o])' /\ Deleting(op[o])' /\ Importing(op[o])'
<1> USE StepFacts, OffFacts DEF Saves, Moves, Carries, Keeps, Passes, Writes, Ends, Has, files
<1>1. /\ op[o] \in RequestType /\ Shape(op[o]) /\ op[o].state \in Versions /\ op[o].talk \in Versions
  BY DEF Shapes, RequestType
<1>2. StoresOK
  OBVIOUS
<1> USE DEF Saving, Deleting, Importing
<1>3. CASE WriteState(o)
  <2>1. op[o].kind = "import" \/ Saves(op[o])
    BY <1>1, <1>3, ShapeFacts DEF WriteState
  <2>2. Passes(o, "stateEnd") /\ op[o].agent \in Agents /\ stateFile'[op[o].agent] = Torn
    BY <1>2, <1>3 DEF WriteState, StoresOK
  <2>3. UNCHANGED <<memory, talkFile, version>>
    BY <1>3 DEF WriteState
  <2>4. QED
    BY <2>1, <2>2, <2>3
<1>4. CASE StateWritten(o)
  <2>1. Passes(o, "talk") /\ op[o].agent \in Agents /\ (Saves(op[o]) \/ op[o].kind = "import")
    BY <1>1, <1>4, ShapeFacts DEF StateWritten
  <2>2. stateFile[op[o].agent] = Torn
    BY <1>4, <2>1 DEF StateWritten
  <2>3. stateFile' = [stateFile EXCEPT ![op[o].agent] = Whole(op[o].state)]
    BY <1>4, <2>2, AgentStoreAssumption DEF StateWritten, Left
  <2>4. UNCHANGED <<memory, talkFile, version>>
    BY <1>4 DEF StateWritten
  <2>5. QED
    BY <1>2, <2>1, <2>3, <2>4 DEF StoresOK
<1>5. CASE WriteTalk(o)
  <2>1. op[o].kind = "import" \/ Saves(op[o])
    BY <1>1, <1>5, ShapeFacts DEF WriteTalk
  <2>2. Passes(o, "talkEnd") /\ op[o].agent \in Agents /\ talkFile'[op[o].agent] = Torn
    BY <1>2, <1>5 DEF WriteTalk, StoresOK
  <2>3. UNCHANGED <<memory, stateFile, version>> /\ op[o].pc \in {"talk", "talkFix"}
    BY <1>5 DEF WriteTalk
  <2>4. Saves(op[o]) => op[o].pc = "talk"
    BY <1>1, <2>3 DEF Shape
  <2>5. QED
    BY <2>1, <2>2, <2>3, <2>4
<1>6. CASE TalkWritten(o)
  <2>1. op[o].agent \in Agents /\ (Saves(op[o]) \/ op[o].kind = "import")
    BY <1>1, <1>6, ShapeFacts DEF TalkWritten
  <2>2. talkFile[op[o].agent] = Torn
    BY <1>6, <2>1 DEF TalkWritten
  <2>3. talkFile' = [talkFile EXCEPT ![op[o].agent] = Whole(op[o].talk)]
    BY <1>6, <2>2, AgentStoreAssumption DEF TalkWritten, Left
  <2>4. UNCHANGED <<memory, stateFile, version>> /\ op[o].pc = "talkEnd"
    BY <1>6 DEF TalkWritten
  <2>5. Carries(o) /\ Keeps(op'[o], op[o]) /\ op'[o].pc \in {"set", "write"}
    BY <1>6
  <2>6. QED
    BY <1>2, <2>1, <2>3, <2>4, <2>5 DEF StoresOK
<1>7. CASE WriteIndex(o)
  BY <1>1, <1>7, ShapeFacts DEF WriteIndex, Lists
<1>8. CASE IndexWritten(o)
  BY <1>1, <1>8, ShapeFacts DEF IndexWritten
<1>9. CASE Drop(o)
  BY <1>9
<1>a. CASE Forget(o)
  <2>1. op[o].kind = "delete" /\ op[o].agent \in Agents /\ Passes(o, "unlinkState")
    BY <1>1, <1>a, ShapeFacts DEF Forget
  <2>2. memory'[op[o].agent] = None /\ UNCHANGED version
    BY <1>2, <1>a, <2>1 DEF Forget, StoresOK
  <2>3. QED
    BY <2>1, <2>2
<1>b. CASE AddPhantom(o)
  <2>1. op[o].kind = "archived" /\ Writes(o, Entries \cup {Phantom})
    BY <1>1, <1>b, ShapeFacts DEF AddPhantom
  <2>2. QED
    BY <2>1
<1>10. CASE UnlinkState(o)
  BY <1>1, <1>2, <1>10, ShapeFacts DEF UnlinkState, StoresOK
<1>11. CASE UnlinkTalk(o)
  <2>1. op[o].kind = "delete" /\ op[o].agent \in Agents
    BY <1>1, <1>11, ShapeFacts DEF UnlinkTalk
  <2>2. UNCHANGED <<memory, stateFile, version>> /\ talkFile'[op[o].agent] = Absent
    BY <1>2, <1>11, <2>1 DEF UnlinkTalk, StoresOK
  <2>3. /\ op[o].pc = "unlinkTalk"
        /\ \/ op'[o] = Off
           \/ Keeps(op'[o], op[o]) /\ op'[o].pc = "write" /\ op[o].agent \notin op'[o].idx
    BY <1>11 DEF UnlinkTalk
  <2>4. QED
    BY <2>1, <2>2, <2>3
<1>12. CASE LoadState(o)
  <2>1. /\ op[o].kind = "import" /\ op'[o].kind = "import" /\ UNCHANGED stateFile
        /\ op'[o].agent = op[o].agent
        /\ op'[o].pc = IF IsWhole(stateFile[op[o].agent]) THEN "talk" ELSE "stateFix"
    BY <1>2, <1>12, LoadStateFacts DEF LoadState
  <2>2. QED
    BY <2>1
<1>13. CASE LoadTalk(o)
  <2>1. op[o].kind = "import" /\ op'[o].kind = "import" /\ op'[o].pc \in {"set", "talkFix"}
    BY <1>2, <1>13, LoadTalkFacts DEF LoadTalk
  <2>2. QED
    BY <2>1
<1>14. CASE SetAgent(o)
  BY <1>1, <1>14, ShapeFacts DEF SetAgent, Shape
<1>15. CASE ReadDir(o) \/ Scanned(o)
  <2>1. op[o].kind = "list"
    BY <1>1, <1>15, ShapeFacts DEF ReadDir, Scanned
  <2>2. op'[o] = Off \/ Keeps(op'[o], op[o])
    BY <1>15, ReadDirFacts
  <2>3. QED
    BY <2>1, <2>2
<1>16. CASE \E a \in Agents : ScanFile(o, a)
  BY <1>1, <1>16, ShapeFacts, ScanFileFacts DEF ScanFile
<1>17. QED
  BY <1>3, <1>4, <1>5, <1>6, <1>7, <1>8, <1>9, <1>a, <1>b, <1>10, <1>11, <1>12, <1>13, <1>14,
     <1>15, <1>16 DEF Step

LEMMA WorkingRequest ==
  ASSUME StoresOK, Shapes, Known, NEW o \in Ops, Request(o)
  PROVE  Saving(op[o])' /\ Deleting(op[o])' /\ Importing(op[o])'
<1> DEFINE n == op'[o]
<1> USE DEF Saves, Saving, Deleting, Importing
<1>1. CASE List(o)
  <2>1. n.kind = "list"
    BY <1>1, RequestFacts DEF Begins
  <2>2. QED
    BY <2>1
<1>2. ASSUME NEW a \in Agents, CreateAgent(o, a)
      PROVE  Saving(op[o])' /\ Deleting(op[o])' /\ Importing(op[o])'
  <2> DEFINE new == [state |-> 1, talk |-> 1]
  <2>1. new \in [state : Nat, talk : Nat] /\ memory' = [memory EXCEPT ![a] = new]
    BY <1>2 DEF CreateAgent
  <2> HIDE DEF new
  <2>2. memory'[a] # None
    BY <2>1, AgentStoreAssumption DEF StoresOK
  <2>3. n.kind = "save" /\ n.agent = a /\ n.pc = "state"
    BY <1>2, RequestFacts DEF Begins
  <2>4. QED
    BY <2>2, <2>3
<1>3. ASSUME NEW a \in Agents, Persist(o, a, "save") \/ Persist(o, a, "unload")
      PROVE  Saving(op[o])' /\ Deleting(op[o])' /\ Importing(op[o])'
  <2>1. memory'[a] # None
    BY <1>3 DEF Persist
  <2>2. n.kind \in {"save", "unload"} /\ n.agent = a /\ n.pc = "state"
    BY <1>3, RequestFacts DEF Begins
  <2>3. QED
    BY <2>1, <2>2
<1>4. ASSUME NEW a \in Agents, DeleteAgent(o, a)
      PROVE  Saving(op[o])' /\ Deleting(op[o])' /\ Importing(op[o])'
  <2>1. version[a] \in Nat /\ version[a] # 0
    BY <1>4, RecordFacts DEF DeleteAgent, StoresOK, Known, Absence
  <2>2. version' = version
    BY <1>4 DEF DeleteAgent
  <2>3. n.kind = "delete" /\ n.agent = a /\ n.pc = "forget"
    BY <1>4, RequestFacts DEF Begins
  <2>4. QED
    BY <2>1, <2>2, <2>3
<1>5. ASSUME NEW a \in Agents, DeleteArchived(o, a) \/ Import(o, a)
      PROVE  Saving(op[o])' /\ Deleting(op[o])' /\ Importing(op[o])'
  <2>1. n.kind = "archived" \/ (n.kind = "import" /\ n.pc = "state")
    BY <1>5, RequestFacts DEF Begins
  <2>2. QED
    BY <2>1
<1>6. QED
  BY <1>1, <1>2, <1>3, <1>4, <1>5 DEF Request

LEMMA WorkingKept ==
  ASSUME Typed, Apart, Working, Remember,
         \/ \E o \in Ops : Step(o) \/ Request(o)
         \/ \E a \in Agents : Edit(a)
         \/ Crash
  PROVE  Working'
<1> USE DEF Typed
<1> SUFFICES ASSUME NEW p \in Ops, p \notin crossed', op'[p] # Off
             PROVE  Saving(op[p])' /\ Deleting(op[p])' /\ Importing(op[p])'
  BY OffFacts DEF Working, Saving, Deleting, Importing, Saves
<1>1. p \notin crossed /\ Saving(op[p]) /\ Deleting(op[p]) /\ Importing(op[p])
  BY Uncrossed DEF Working
<1>2. ASSUME NEW o \in Ops, Step(o) \/ Request(o)
      PROVE  Saving(op[p])' /\ Deleting(op[p])' /\ Importing(op[p])'
  <2>1. Confined(o)
    BY <1>2, StepConfined, RequestConfined
  <2>2. CASE p = o
    BY <1>1, <1>2, <2>2, WorkingStep, WorkingRequest
  <2>3. CASE p # o /\ op'[p].agent # None
    BY <1>1, <2>1, <2>3, Others DEF Saving, Deleting, Importing
  <2>4. CASE op'[p].agent = None
    <3>1. Shape(op'[p])
      BY <2>1, ConfinedFacts DEF Shapes
    <3>2. QED
      BY <2>4, <3>1 DEF Shape, Saving, Deleting, Importing, Saves
  <2>5. QED
    BY <2>2, <2>3, <2>4
<1>3. ASSUME NEW a \in Agents, Edit(a)
      PROVE  Saving(op[p])' /\ Deleting(op[p])' /\ Importing(op[p])'
  <2>1. /\ op'[p].kind = op[p].kind /\ op'[p].agent = op[p].agent /\ op'[p].idx = op[p].idx
        /\ op'[p].pc = op[p].pc /\ op'[p].state = op[p].state
        /\ op'[p] = op[p] \/ op[p].pc \notin {"write", "writeEnd"}
        /\ UNCHANGED <<stateFile, talkFile>> /\ memory[a] # None /\ memory'[a] # None
        /\ \A b \in Agents \ {a} : memory'[b] = memory[b]
    BY <1>3, EditedFacts DEF Keeps, Lists, files
  <2>2. \A b \in Agents : version[b] > 0 => version'[b] > 0
    <3>1. version' = [version EXCEPT ![a] = version[a] + 1]
      BY <1>3, EditedFacts
    <3>2. \A b \in Agents : version[b] \in Nat
      BY RecordFacts DEF StoresOK
    <3>3. QED
      BY <3>1, <3>2 DEF StoresOK
  <2>3. op[p].kind \notin {"off", "list"} => op[p].agent \in Agents
    BY ShapeFacts DEF Shapes
  <2>4. QED
    BY <1>1, <2>1, <2>2, <2>3 DEF Saving, Deleting, Importing, Saves
<1>4. ~Crash
  BY CrashFacts
<1>5. QED
  BY <1>2, <1>3, <1>4
-----------------------------------------------------------------------------
LEMMA ListingKept ==
  ASSUME Typed, Listing, Remember,
         \/ \E o \in Ops : Step(o) \/ Request(o)
         \/ \E a \in Agents : Edit(a)
         \/ Crash
  PROVE  Listing'
<1> USE DEF Typed
<1> SUFFICES ASSUME NEW p \in Ops, op'[p].kind = "list", NEW a \in steady'[p]
             PROVE  /\ IsWhole(stateFile'[a])
                    /\ op'[p].pc = "scan" => a \in op'[p].todo \cup op'[p].shown
                    /\ op'[p].pc \in {"write", "writeEnd"} => a \in op'[p].shown
  BY DEF Listing
<1> DEFINE Shows == /\ op'[p].pc = "scan" => a \in op'[p].todo \cup op'[p].shown
                    /\ op'[p].pc \in {"write", "writeEnd"} => a \in op'[p].shown
<1>1. /\ a \in Agents /\ IsWhole(stateFile[a]) /\ IsWhole(stateFile'[a])
      /\ op[p].kind = "list" => a \in steady[p]
  <2>1. steady'[p] = {b \in IF op[p].kind = "list" THEN steady[p] ELSE Agents :
                        IsWhole(stateFile[b]) /\ IsWhole(stateFile'[b])}
    BY DEF Remember
  <2>2. op[p].kind = "list" => steady[p] \subseteq Agents
    BY DEF HistoryOK
  <2>3. QED
    BY <2>1, <2>2
<1>2. op[p].kind = "list" => /\ op[p].pc = "scan" => a \in op[p].todo \cup op[p].shown
                             /\ op[p].pc \in {"write", "writeEnd"} => a \in op[p].shown
  BY <1>1 DEF Listing
<1>3. op[p] \in RequestType /\ Shape(op[p])
  BY DEF Shapes
<1>4. ASSUME Step(p) PROVE Shows
  <2> USE StepFacts, OffFacts DEF Moves, Keeps, Passes, Writes, Lists, Ends
  <2>1. op[p].kind = "list" /\ op[p].pc \in {"dir", "scan", "write", "writeEnd"}
    BY <1>3, <1>4, StepConfined, StepRuns, OffFacts DEF Confined, Elsewhere, Shape
  <2>2. CASE ReadDir(p)
    BY <1>1, <2>2, ReadDirFacts, RecordFacts
  <2>3. ASSUME NEW b \in Agents, ScanFile(p, b) PROVE Shows
    <3>1. /\ op'[p].pc = "scan" /\ op'[p].todo = op[p].todo \ {b} /\ op[p].pc = "scan"
          /\ op'[p].shown = IF IsWhole(stateFile[b]) THEN op[p].shown \cup {b} ELSE op[p].shown
      BY <2>3, ScanFileFacts DEF ScanFile
    <3>2. a \in op'[p].todo \cup op'[p].shown
      BY <1>1, <1>2, <2>1, <3>1
    <3>3. QED
      BY <3>1, <3>2
  <2>4. CASE Scanned(p)
    BY <1>2, <2>1, <2>4 DEF Scanned
  <2>5. CASE WriteIndex(p)
    BY <1>2, <2>1, <2>5 DEF WriteIndex
  <2>6. CASE IndexWritten(p)
    BY <2>1, <2>6 DEF IndexWritten
  <2>7. QED
    BY <1>3, <1>4, <2>1, <2>2, <2>3, <2>4, <2>5, <2>6, ShapeFacts DEF Saves, Step, WriteState,
       StateWritten, WriteTalk,
       TalkWritten, Drop, Forget, AddPhantom, UnlinkState, UnlinkTalk, LoadState, LoadTalk, SetAgent
<1>5. ASSUME Request(p) PROVE Shows
  BY <1>5, RequestFacts DEF Request, Begins
<1>6. ASSUME NEW o \in Ops \ {p}, Step(o) \/ Request(o) PROVE Shows
  BY <1>2, <1>6, StepConfined, RequestConfined, ConfinedFacts
<1>7. ASSUME NEW b \in Agents, Edit(b) PROVE Shows
  BY <1>2, <1>7, EditedFacts DEF Keeps, Lists
<1>8. ~Crash
  BY CrashFacts, OffFacts
<1>9. QED
  BY <1>1, <1>4, <1>5, <1>6, <1>7, <1>8
-----------------------------------------------------------------------------
(* The end of a deletion that met no other request.                        *)
LEMMA DeletionEnds ==
  ASSUME Typed, Apart, Alone, Working,
         NEW o \in Ops, Step(o), o \notin crossed \cup stale,
         op[o].kind = "delete", op'[o] = Off, NEW a \in Agents, op[o].agent = a
  PROVE  Absence(a)' /\ talkFile'[a] = Absent /\ version'[a] > 0
<1> USE DEF Typed
<1>1. /\ a # None /\ Confined(o) /\ UNCHANGED version
      /\ op[o].pc \in {"forget", "unlinkState", "unlinkTalk", "write", "writeEnd"}
  BY ShapeFacts, StepConfined, StepRuns, AgentStoreAssumption DEF Shapes, Shape
<1>2. /\ version[a] > 0 /\ (op[o].pc # "forget" => memory[a] = None)
      /\ op[o].pc \notin {"forget", "unlinkState"} => stateFile[a] = Absent
      /\ op[o].pc \in {"write", "writeEnd"} => talkFile[a] = Absent /\ a \notin op[o].idx
  BY DEF Working, Deleting
<1>3. IndexWritten(o) \/ (UnlinkTalk(o) /\ index = Torn)
  <2> USE StepFacts, OffFacts DEF Passes, Moves, Writes
  <2>1. CASE UnlinkState(o)
    BY <2>1
  <2>2. CASE WriteIndex(o)
    BY <2>2
  <2>3. CASE UnlinkTalk(o)
    BY <2>3
  <2>a. CASE Forget(o)
    BY <2>a
  <2>4. QED
    BY <1>1, <2>1, <2>2, <2>3, <2>a, ShapeFacts DEF Step, WriteState, StateWritten, WriteTalk,
       TalkWritten, Drop, AddPhantom, LoadState, LoadTalk, SetAgent, ReadDir, ScanFile, Scanned
<1>4. op[o].pc \in {"unlinkTalk", "writeEnd"}
  BY <1>3 DEF IndexWritten, UnlinkTalk
<1>5. /\ memory'[a] = None /\ stateFile'[a] = Absent /\ talkFile'[a] = Absent
      /\ a \notin Entries' /\ version'[a] > 0
  <2>1. CASE IndexWritten(o)
    BY <1>1, <1>2, <2>1 DEF IndexWritten, LeftIndex, Entries
  <2>2. CASE UnlinkTalk(o) /\ index = Torn
    BY <1>1, <1>2, <2>2 DEF UnlinkTalk, Entries, StoresOK
  <2>3. QED
    BY <1>3, <2>1, <2>2
<1>6. ASSUME NEW p \in Ops PROVE op'[p].agent # a /\ ~UsesIndex(op'[p])
  <2>1. CASE p = o
    BY <1>1, <2>1, OffFacts DEF UsesIndex
  <2>2. CASE p # o
    <3>1. ~Meet(op[o], op[p]) /\ ~BothUseIndex(op[o], op[p])
      BY <2>2 DEF Apart, Alone
    <3>2. op'[p] = op[p]
      BY <1>1, <2>2, ConfinedFacts
    <3>3. QED
      BY <1>1, <1>4, <3>1, <3>2 DEF Meet, BothUseIndex, UsesIndex
  <2>3. QED
    BY <2>1, <2>2
<1>7. QED
  BY <1>1, <1>5, <1>6 DEF Absence, UsesIndex, Listed

LEMMA ForgottenKept ==
  ASSUME Typed, Apart, Alone, Working, Forgotten, Remember,
         \/ \E o \in Ops : Step(o) \/ Request(o)
         \/ \E b \in Agents : Edit(b)
         \/ Crash
  PROVE  Forgotten'
<1> USE DEF Typed
<1> SUFFICES ASSUME NEW a \in gone'
             PROVE  Absence(a)' /\ talkFile'[a] = Absent /\ version'[a] > 0
  BY DEF Forgotten
<1>1. CASE a \in gone
  <2>1. a \in Agents /\ Absence(a) /\ talkFile[a] = Absent /\ version[a] > 0
    BY <1>1 DEF HistoryOK, Forgotten
  <2>2. version'[a] > 0 /\ \A o \in Ops : ~CreateAgent(o, a)
    BY <2>1, VersionsGrow
  <2>3. QED
    BY <2>1, <2>2, AbsenceKept
<1>2. CASE a \notin gone
  <2>1. PICK o \in Ops : /\ o \notin crossed \cup stale /\ a \in Agents
                         /\ crashes' = crashes /\ op[o] # Off /\ op'[o] = Off
                         /\ op[o].kind = "delete" /\ op[o].agent = a
    BY <1>2 DEF Remember, Deleted, Runs
  <2>2. Step(o)
    <3>1. \A p \in Ops : Step(p) \/ Request(p) => p = o
      BY <2>1, StepConfined, RequestConfined, ConfinedFacts
    <3>2. \A b \in Agents : ~Edit(b)
      BY <2>1, EditedFacts, OffFacts DEF Keeps
    <3>3. QED
      BY <2>1, <3>1, <3>2, CrashFacts DEF Request
  <2>3. QED
    BY <2>1, <2>2, DeletionEnds
<1>3. QED
  BY <1>1, <1>2
-----------------------------------------------------------------------------
(* The state file of an agent that is not being deleted.                   *)
LEMMA StateFileStep ==
  ASSUME StoresOK, Shapes, NEW o \in Ops, Step(o), Saving(op[o]), Importing(op[o]),
         NEW a \in Agents, ~(op[o].kind = "delete" /\ op[o].agent = a)
  PROVE  /\ stateFile[a] = Torn \/ IsWhole(stateFile[a])
              => stateFile'[a] = Torn \/ IsWhole(stateFile'[a])
         /\ IsWhole(stateFile[a])
              => \/ IsWhole(stateFile'[a])
                 \/ Saves(op'[o]) /\ op'[o].agent = a /\ op'[o].pc = "stateEnd"
         /\ Saves(op[o]) /\ op[o].agent = a /\ op[o].pc = "stateEnd" => IsWhole(stateFile'[a])
<1>1. /\ op[o].state \in Versions /\ Shape(op[o])
      /\ op[o].pc = "stateEnd" => Saves(op[o]) \/ op[o].kind = "import"
  BY ShapeFacts DEF Shapes, RequestType
<1>2. CASE WriteState(o)
  <2>1. /\ stateFile' = [stateFile EXCEPT ![op[o].agent] = Torn] /\ op[o].pc # "stateEnd"
        /\ op'[o].pc = "stateEnd" /\ op'[o].kind = op[o].kind /\ op'[o].agent = op[o].agent
    BY <1>2, StepFacts DEF WriteState, Passes, Moves, Keeps
  <2>2. Saves(op[o]) \/ (op[o].kind = "import" /\ ~IsWhole(stateFile[op[o].agent]))
    BY <1>1, <1>2, ShapeFacts DEF WriteState, Saves, Importing
  <2>3. QED
    BY <2>1, <2>2 DEF StoresOK, Saves
<1>3. CASE StateWritten(o)
  <2>1. stateFile[op[o].agent] = Torn
    BY <1>1, <1>3 DEF StateWritten, Saving, Importing
  <2>2. stateFile' = [stateFile EXCEPT ![op[o].agent] = Whole(op[o].state)]
    BY <1>3, <2>1, AgentStoreAssumption DEF StateWritten, Left
  <2>3. IsWhole(Whole(op[o].state))
    BY <1>1, RecordFacts
  <2>4. QED
    BY <2>2, <2>3 DEF StoresOK
<1>4. CASE UnlinkState(o)
  <2>1. op[o].kind = "delete" /\ op[o].pc = "unlinkState"
    BY <1>1, <1>4, ShapeFacts DEF UnlinkState
  <2>2. stateFile'[a] = stateFile[a]
    BY <1>4, <2>1 DEF UnlinkState, StoresOK
  <2>3. QED
    BY <2>1, <2>2
<1>6. CASE UNCHANGED stateFile /\ op[o].pc # "stateEnd"
  BY <1>6
<1>7. QED
  BY <1>2, <1>3, <1>4, <1>6 DEF Step, files, LoadState, WriteTalk, TalkWritten, WriteIndex,
     IndexWritten,
     Drop, Forget, AddPhantom, UnlinkTalk, LoadTalk, SetAgent, ReadDir, ScanFile, Scanned

(* The end of a save that met no other request.                            *)
LEMMA SaveEnds ==
  ASSUME Typed, Working, NEW s \in Ops, s \notin crossed, NEW a \in Agents, Saved(s, a),
         \/ \E o \in Ops : Step(o) \/ Request(o)
         \/ \E b \in Agents : Edit(b)
         \/ Crash
  PROVE  /\ Step(s) /\ IndexWritten(s) /\ UNCHANGED <<stateFile, talkFile>>
         /\ Saves(op[s]) /\ op[s].agent = a
         /\ stateFile[a] = Whole(op[s].state) /\ talkFile[a] = Whole(op[s].talk)
         /\ a \in op[s].idx
<1> USE DEF Typed
<1>1. /\ Saves(op[s]) /\ op[s].agent = a
      /\ op[s].pc = "writeEnd" /\ op'[s].pc # "writeEnd" /\ crashes' = crashes
  BY DEF Saved, Runs, Saves
<1>2. Step(s)
  <2>1. \A p \in Ops : Step(p) \/ Request(p) => p = s
    BY <1>1, StepConfined, RequestConfined, ConfinedFacts
  <2>2. \A b \in Agents : ~Edit(b)
    BY <1>1, EditedFacts
  <2>3. op[s] # Off
    BY <1>1, OffFacts
  <2>4. QED
    BY <1>1, <2>1, <2>2, <2>3, CrashFacts DEF Request
<1>3. IndexWritten(s)
  BY <1>1, <1>2 DEF Step, WriteState, StateWritten, WriteTalk, TalkWritten, WriteIndex,
     Drop, Forget, AddPhantom, UnlinkState, UnlinkTalk, LoadState, LoadTalk, SetAgent, ReadDir,
     ScanFile, Scanned
<1>4. stateFile[a] = Whole(op[s].state) /\ talkFile[a] = Whole(op[s].talk)
  BY <1>1 DEF Working, Saving
<1>5. a \in op[s].idx
  BY <1>1 DEF Shapes, Shape
<1>6. QED
  BY <1>1, <1>2, <1>3, <1>4, <1>5 DEF IndexWritten
-----------------------------------------------------------------------------
(* A save stays under way until it has written the index.                  *)
LEMMA StoringStep ==
  ASSUME StoresOK, Shapes, NEW o \in Ops, Step(o), NEW a \in Agents, Storing(op[o], a)
  PROVE  Storing(op'[o], a) \/ (IndexWritten(o) /\ op'[o].pc # "writeEnd")
<1> USE StepFacts, OffFacts DEF Storing, Saves, Passes, Moves, Keeps, Writes, Ends
<1>1. Shape(op[o])
  BY DEF Shapes
<1>2. CASE WriteState(o) \/ StateWritten(o) \/ WriteTalk(o) \/ WriteIndex(o)
  BY <1>2
<1>3. CASE TalkWritten(o)
  BY <1>3
<1>4. CASE IndexWritten(o)
  BY <1>4
<1>5. CASE Drop(o)
  BY <1>5 DEF Drop
<1>6. QED
  BY <1>1, <1>2, <1>3, <1>4, <1>5, ShapeFacts DEF Step, Forget, AddPhantom, UnlinkState,
     UnlinkTalk, LoadState,
     LoadTalk, SetAgent, ReadDir, ScanFile, Scanned

(* When nothing about an agent is saved or deleted, its files are only read. *)
LEMMA StoredStep ==
  ASSUME StoresOK, Shapes, NEW o \in Ops, Step(o), NEW a \in Agents, NEW v \in Versions,
         Stored(a, v), ~Storing(op[o], a), ~(op[o].kind = "delete" /\ op[o].agent = a)
  PROVE  Stored(a, v)'
<1>1. /\ Confined(o) /\ Shapes' /\ Shape(op[o]) /\ op[o] # Off
      /\ \A p \in Ops \ {o} : op'[p] = op[p]
  BY StepConfined, ConfinedFacts, StepRuns
<1>2. SUFFICES /\ stateFile'[a] = Whole(v) /\ talkFile'[a] = Whole(v)
               /\ op'[o].kind = "import" /\ op'[o].agent = a => Clean(op'[o], v)
  BY <1>1 DEF Stored, Clean
<1>3. CASE op[o].agent # a
  BY <1>1, <1>3, OffFacts, AgentStoreAssumption DEF Confined, Elsewhere, Stored
<1>4. CASE op[o].agent = a /\ op[o].kind = "import"
  <2>1. Clean(op[o], v) /\ stateFile[a] = Whole(v) /\ talkFile[a] = Whole(v)
    BY <1>4 DEF Stored
  <2> USE DEF Clean, Passes, Moves, Carries, Keeps, Writes, Ends
  <2>2. IsWhole(Whole(v)) /\ Recovered(Whole(v)) = v
    BY RecordFacts DEF Recovered
  <2>3. CASE LoadState(o)
    <3>1. /\ op[o].pc = "state" /\ op'[o].pc = "talk" /\ op'[o].state = v
          /\ op'[o].kind = op[o].kind /\ op'[o].agent = op[o].agent
      BY <1>4, <2>1, <2>2, <2>3, LoadStateFacts DEF LoadState
    <3>2. talkFile' = talkFile /\ stateFile'[a] = stateFile[a]
      BY <2>3 DEF LoadState, files
    <3>3. QED
      BY <2>1, <3>1, <3>2
  <2>4. CASE LoadTalk(o)
    <3>1. /\ op[o].pc = "talk" /\ op'[o].pc = "set" /\ op'[o].talk = v
          /\ op'[o].state = op[o].state
      BY <1>4, <2>1, <2>2, <2>4, LoadTalkFacts DEF LoadTalk
    <3>2. stateFile' = stateFile /\ talkFile'[a] = talkFile[a]
      BY <2>4 DEF LoadTalk, files
    <3>3. QED
      BY <2>1, <3>1, <3>2
  <2>5. CASE SetAgent(o)
    BY <1>4, <2>1, <2>5, StepFacts, OffFacts DEF SetAgent, files
  <2>6. CASE WriteIndex(o)
    BY <1>4, <2>1, <2>6, StepFacts, OffFacts DEF WriteIndex
  <2>7. CASE IndexWritten(o)
    BY <1>4, <2>1, <2>7, StepFacts, OffFacts DEF IndexWritten
  <2>8. QED
    BY <1>1, <1>4, <2>1, <2>3, <2>4, <2>5, <2>6, <2>7, ShapeFacts DEF Step, WriteState, WriteTalk,
       StateWritten, TalkWritten, Drop, Forget, AddPhantom, UnlinkState, UnlinkTalk, ReadDir,
       ScanFile, Scanned, Saves
<1>5. CASE op[o].agent = a /\ op[o].kind # "import"
  <2>1. op[o].kind = "archived" \/ (Saves(op[o]) /\ op[o].pc = "drop")
    BY <1>1, <1>5, AgentStoreAssumption DEF Storing, Shape, Saves, RequestType, Kinds
  <2>2. op[o].pc \in {"entry", "write", "writeEnd", "drop"}
    BY <1>1, <2>1 DEF Shape
  <2>3. UNCHANGED <<stateFile, talkFile>>
    BY <2>2 DEF Step, WriteState, StateWritten, WriteTalk, TalkWritten, WriteIndex, IndexWritten,
       Drop, Forget, AddPhantom, UnlinkState, UnlinkTalk, LoadState, LoadTalk, SetAgent,
       ReadDir, ScanFile, Scanned,
       files
  <2>4. op'[o].kind # "import"
    BY <1>1, <1>5, OffFacts DEF Confined, Elsewhere
  <2>5. QED
    BY <2>3, <2>4 DEF Stored
<1>6. QED
  BY <1>3, <1>4, <1>5

LEMMA StoredRequest ==
  ASSUME StoresOK, Shapes, NEW o \in Ops, Request(o), NEW a \in Agents, NEW v \in Versions,
         Stored(a, v)
  PROVE  Stored(a, v)'
<1>1. /\ Confined(o) /\ UNCHANGED files /\ op[o] = Off /\ \A p \in Ops \ {o} : op'[p] = op[p]
  BY RequestConfined, ConfinedFacts, StoresRequest DEF Request
<1>2. op'[o].kind = "import" => op'[o].pc = "state"
  BY RequestFacts DEF Request, Begins
<1>3. QED
  BY <1>1, <1>2 DEF Stored, Clean, files

LEMMA LastSavedKept ==
  ASSUME Typed, Apart, Working, LastSaved, Remember,
         \/ \E o \in Ops : Step(o) \/ Request(o)
         \/ \E b \in Agents : Edit(b)
         \/ Crash
  PROVE  LastSaved'
<1> USE DEF Typed
<1> SUFFICES ASSUME NEW a \in Agents, last'[a] # 0
             PROVE  /\ \A o \in Ops : ~(op'[o].kind = "delete" /\ op'[o].agent = a)
                    /\ (\E o \in Ops : Storing(op'[o], a)) \/ Stored(a, last[a])'
  BY DEF LastSaved
<1> DEFINE s == CHOOSE o \in Ops : Saved(o, a)
<1>1. last'[a] = IF \/ crashes' # crashes /\ \E o \in Ops : op[o].agent = a
                    \/ \E o \in Ops : Deletes(o, a)
                    \/ \E o \in crossed : Saved(o, a)
                   THEN 0
                 ELSE IF \E o \in Ops : Saved(o, a)
                   THEN IF op[s].state = op[s].talk THEN op[s].state ELSE 0
                 ELSE last[a]
  BY DEF Remember
<1>2. (\E o \in Ops : Saved(o, a)) => s \in Ops /\ Saved(s, a)
  OBVIOUS
<1> HIDE DEF s
<1>3. /\ \A o \in Ops : ~Deletes(o, a) /\ (Saved(o, a) => o \notin crossed)
      /\ crashes' # crashes => \A o \in Ops : op[o].agent # a
  BY <1>1 DEF HistoryOK
<1>4. \A o \in Ops : ~(op'[o].kind = "delete" /\ op'[o].agent = a)
  BY <1>3 DEF Deletes
<1>5. CASE \E o \in Ops : Saved(o, a)
  <2>1. s \in Ops /\ s \notin crossed /\ Saves(op[s]) /\ op[s].agent = a
    BY <1>2, <1>3, <1>5 DEF Saved, Saves
  <2>2. last'[a] = op[s].state /\ last'[a] = op[s].talk
    BY <1>1, <1>3, <1>5
  <2>3. Step(s) /\ UNCHANGED <<stateFile, talkFile>>
    BY <1>2, <1>5, <2>1, SaveEnds
  <2>4. stateFile[a] = Whole(op[s].state) /\ talkFile[a] = Whole(op[s].talk)
    BY <1>2, <1>5, <2>1, SaveEnds
  <2>6. ASSUME NEW p \in Ops PROVE ~(op'[p].kind = "import" /\ op'[p].agent = a)
    <3>1. CASE p = s
      BY <2>1, <2>3, <3>1, StepConfined, StepRuns, OffFacts DEF Confined, Elsewhere, Saves
    <3>2. CASE p # s
      <4>1. op'[p] = op[p]
        BY <2>1, <2>3, <3>2, StepConfined, ConfinedFacts
      <4>2. ~Meet(op[s], op[p])
        BY <2>1, <3>2 DEF Apart
      <4>3. QED
        BY <2>1, <4>1, <4>2, AgentStoreAssumption DEF Meet
    <3>3. QED
      BY <3>1, <3>2
  <2>7. QED
    BY <1>4, <2>2, <2>3, <2>4, <2>6 DEF Stored
<1>6. CASE \A o \in Ops : ~Saved(o, a)
  <2>1. last'[a] = last[a] /\ last[a] # 0 /\ last[a] \in Versions
    BY <1>1, <1>3, <1>6 DEF HistoryOK
  <2>2. PICK v \in Versions : v = last[a] /\ v = last'[a]
    BY <2>1
  <2>3. /\ \A o \in Ops : ~(op[o].kind = "delete" /\ op[o].agent = a)
        /\ (\E o \in Ops : Storing(op[o], a)) \/ Stored(a, v)
    BY <2>1, <2>2 DEF LastSaved
  <2>4. CASE \E o \in Ops : Storing(op[o], a)
    <3>1. PICK o \in Ops : Storing(op[o], a)
      BY <2>4
    <3>2. op[o].agent = a /\ Saves(op[o]) /\ op[o].pc # "drop" /\ crashes' = crashes /\ op[o] # Off
      BY <1>3, <3>1, OffFacts DEF Storing, Saves
    <3>3. CASE Step(o)
      <4>1. Storing(op'[o], a) \/ (IndexWritten(o) /\ op'[o].pc # "writeEnd")
        BY <3>1, <3>3, StoringStep
      <4>2. ~(IndexWritten(o) /\ op'[o].pc # "writeEnd")
        BY <1>6, <3>2 DEF Saved, Runs, Saves, IndexWritten
      <4>3. QED
        BY <1>4, <4>1, <4>2
    <3>4. CASE \E p \in Ops \ {o} : Step(p) \/ Request(p)
      BY <1>4, <3>1, <3>4, StepConfined, RequestConfined, ConfinedFacts
    <3>5. CASE \E b \in Agents : Edit(b)
      BY <1>4, <3>1, <3>5, EditedFacts DEF Storing, Saves, Keeps
    <3>6. QED
      BY <3>2, <3>3, <3>4, <3>5, CrashFacts DEF Request
  <2>5. CASE Stored(a, v) /\ ~\E o \in Ops : Storing(op[o], a)
    <3>1. Stored(a, v)'
      <4>1. ASSUME NEW o \in Ops, Step(o) PROVE Stored(a, v)'
        BY <2>3, <2>5, <4>1, StoredStep
      <4>2. ASSUME NEW o \in Ops, Request(o) PROVE Stored(a, v)'
        BY <2>5, <4>2, StoredRequest
      <4>3. ASSUME NEW b \in Agents, Edit(b) PROVE Stored(a, v)'
        <5>1. \A o \in Ops : op[o].kind = "import" => op'[o] = op[o]
          BY <4>3, EditedFacts DEF Saves
        <5>2. \A o \in Ops : op'[o].kind = op[o].kind
          BY <4>3, EditedFacts DEF Keeps
        <5>3. QED
          BY <2>5, <4>3, <5>1, <5>2, EditedFacts DEF Stored, Clean, files
      <4>4. ASSUME Crash PROVE Stored(a, v)'
        BY <2>5, <4>4, CrashFacts, OffFacts DEF Stored, files
      <4>5. QED
        BY <4>1, <4>2, <4>3, <4>4
    <3>2. QED
      BY <1>4, <2>2, <3>1 DEF Stored
  <2>6. QED
    BY <2>3, <2>4, <2>5
<1>7. QED
  BY <1>5, <1>6
-----------------------------------------------------------------------------
(* While requests are orderly, one of them at most uses the index.         *)
Orderly == orderly /\ crossed = {} /\ stale = {}
WrittenIsTorn == \A o \in Ops : op[o].pc = "writeEnd" => index = Torn

LEMMA OrderlyFacts ==
  ASSUME Alone, Safe, Remember, orderly'
  PROVE  /\ Orderly /\ Orderly' /\ WrittenIsTorn
         /\ \A o \in Ops : \A p \in Ops \ {o} :
              ~BothUseIndex(op[o], op[p]) /\ ~BothUseIndex(op'[o], op'[p])
<1>1. orderly /\ crossed' = {} /\ stale' = {}
  BY DEF Remember
<1>2. crossed = {} /\ stale = {} /\ WrittenIsTorn
  BY <1>1 DEF Safe, WrittenIsTorn
<1>3. Alone'
  BY ApartKept
<1>4. QED
  BY <1>1, <1>2, <1>3 DEF Orderly, Alone

LEMMA WrittenIsTornStep ==
  ASSUME StoresOK, Shapes, WrittenIsTorn, NEW o \in Ops, Step(o),
         \A p \in Ops \ {o} : ~BothUseIndex(op[o], op[p])
  PROVE  WrittenIsTorn'
<1> SUFFICES ASSUME NEW p \in Ops, op'[p].pc = "writeEnd" PROVE index' = Torn
  BY DEF WrittenIsTorn
<1>1. Confined(o)
  BY StepConfined
<1>2. CASE p = o
  <2>1. WriteIndex(o)
    BY <1>2, StepFacts, OffFacts, LoadStateFacts, LoadTalkFacts, ReadDirFacts, ScanFileFacts
       DEF Step, Passes, Moves, Writes, Ends
  <2>2. QED
    BY <2>1 DEF WriteIndex
<1>3. CASE p # o
  <2>1. op[p].pc = "writeEnd" /\ index = Torn
    BY <1>1, <1>3, ConfinedFacts DEF WrittenIsTorn
  <2>2. ~IndexWritten(o)
    BY <1>3, <2>1 DEF BothUseIndex, UsesIndex, IndexWritten
  <2>3. QED
    BY <2>1, <2>2, IndexStep
<1>4. QED
  BY <1>2, <1>3

LEMMA KeptFrom ==
  ASSUME Typed, Working, Remember, Orderly, NEW a \in kept',
         \/ \E o \in Ops : Step(o) \/ Request(o)
         \/ \E b \in Agents : Edit(b)
         \/ Crash
  PROVE  /\ a \in Agents
         /\ \/ a \in kept
            \/ \E s \in Ops : /\ Step(s) /\ IndexWritten(s) /\ a \in op[s].idx
                              /\ IsWhole(stateFile[a]) /\ IsWhole(stateFile'[a])
<1>1. a \in Agents /\ (a \in kept \/ \E s \in Ops : Saved(s, a))
  BY DEF Remember
<1>2. ASSUME NEW s \in Ops, Saved(s, a)
      PROVE  /\ Step(s) /\ IndexWritten(s) /\ a \in op[s].idx
             /\ IsWhole(stateFile[a]) /\ IsWhole(stateFile'[a])
  <2>1. /\ Step(s) /\ IndexWritten(s) /\ a \in op[s].idx /\ stateFile' = stateFile
        /\ stateFile[a] = Whole(op[s].state)
    BY <1>1, <1>2, SaveEnds DEF Orderly
  <2>2. PICK v \in Versions : v = op[s].state
    BY DEF Typed, Shapes, RequestType
  <2>3. QED
    BY <2>1, <2>2, RecordFacts
<1>3. QED
  BY <1>1, <1>2

LEMMA StepIsOne ==
  ASSUME StoresOK, Shapes, NEW o \in Ops, Step(o) \/ Request(o), NEW s \in Ops, Step(s)
  PROVE  s = o \/ op'[s] = op[s]
BY StepConfined, RequestConfined, ConfinedFacts

LEMMA WrittenMoves ==
  ASSUME StoresOK, Shapes, NEW s \in Ops, IndexWritten(s)
  PROVE  op[s].pc = "writeEnd" /\ op'[s].pc \in {"off", "drop"} /\ op'[s] # op[s]
BY StepFacts, OffFacts DEF IndexWritten, Passes, Moves, Ends

LEMMA IndexedStep ==
  ASSUME Typed, Working, Undeleted, Indexed, WrittenIsTorn, Remember, Orderly, NEW o \in Ops, Step(o),
         \A p \in Ops \ {o} : ~BothUseIndex(op[o], op[p]) /\ ~BothUseIndex(op'[o], op'[p])
  PROVE  Indexed'
<1> USE DEF Typed
<1> SUFFICES ASSUME NEW a \in kept'
             PROVE  /\ index' # Torn => a \in index'
                    /\ index' = Torn => \E p \in Ops : op'[p].pc = "writeEnd"
                    /\ \A p \in Ops : op'[p].pc \in {"dir", "scan", "write", "writeEnd"} => a \in op'[p].idx
  BY DEF Indexed
<1>1. /\ Confined(o) /\ Shape(op[o]) /\ \A p \in Ops \ {o} : op'[p] = op[p]
      /\ (index = Torn \/ index \subseteq Ids) /\ op[o] \in RequestType
  BY StepConfined, ConfinedFacts DEF Shapes, StoresOK
<1>2. a \in Agents /\ (a \in kept \/ (IndexWritten(o) /\ a \in op[o].idx))
  BY <1>1, KeptFrom, WrittenMoves
<1>3. CASE IndexWritten(o)
  <2>1. op[o].pc = "writeEnd" /\ op'[o].pc \in {"off", "drop"} /\ index = Torn
    BY <1>3, WrittenMoves DEF WrittenIsTorn
  <2>2. a \in op[o].idx /\ op[o].idx \subseteq Ids
    BY <1>1, <1>2, <2>1 DEF Indexed, RequestType
  <2>3. op[o].idx # Torn
    BY <2>2, AgentStoreAssumption DEF Ids
  <2>4. index' = op[o].idx
    BY <1>3, <2>1 DEF IndexWritten, LeftIndex
  <2>5. \A p \in Ops \ {o} : ~UsesIndex(op'[p])
    BY <1>1, <2>1 DEF BothUseIndex, UsesIndex
  <2>6. QED
    BY <2>1, <2>2, <2>3, <2>4, <2>5 DEF UsesIndex
<1>4. CASE ~IndexWritten(o)
  <2>1. a \in kept /\ op[o].pc # "writeEnd" /\ (op[o].kind = "delete" => op[o].agent # a)
    BY <1>1, <1>2, <1>4 DEF Undeleted, Step, WriteState, StateWritten, WriteTalk, TalkWritten,
       WriteIndex, Drop, Forget, AddPhantom, UnlinkState, UnlinkTalk, LoadState, LoadTalk, SetAgent, ReadDir, ScanFile,
       Scanned
  <2>2. /\ index # Torn => a \in index
        /\ index = Torn => \E p \in Ops : op[p].pc = "writeEnd"
        /\ \A p \in Ops : op[p].pc \in {"dir", "scan", "write", "writeEnd"} => a \in op[p].idx
    BY <2>1 DEF Indexed
  <2>3. index = Torn => /\ ~UsesIndex(op[o]) /\ ~UsesIndex(op'[o])
                        /\ \E p \in Ops \ {o} : op'[p].pc = "writeEnd"
    BY <1>1, <2>1, <2>2 DEF BothUseIndex, UsesIndex
  <2>4. \A p \in Ops \ {o} : op'[p].pc \in {"dir", "scan", "write", "writeEnd"} => a \in op'[p].idx
    BY <1>1, <2>2
  <2> USE StepFacts, OffFacts DEF Passes, Moves, Writes, Ends, Lists
  <2>5. CASE WriteIndex(o)
    BY <2>2, <2>4, <2>5 DEF WriteIndex
  <2>6. CASE TalkWritten(o) \/ SetAgent(o)
    <3>1. index' = index
      BY <2>6 DEF TalkWritten, SetAgent, files
    <3>2. op'[o].pc = "set" \/ (op'[o].pc = "write" /\ op'[o].idx = Entries \cup {op[o].agent})
      BY <2>6
    <3>3. op'[o].pc = "write" => index # Torn
      BY <2>3 DEF UsesIndex
    <3>4. QED
      BY <2>2, <2>3, <2>4, <3>1, <3>2, <3>3 DEF Entries
  <2>7. CASE UnlinkTalk(o)
    <3>1. index' = index /\ op[o].kind = "delete" /\ index # Torn
      BY <1>1, <2>3, <2>7, ShapeFacts DEF UnlinkTalk, UsesIndex
    <3>2. op'[o].idx = index \ {op[o].agent}
      BY <2>7, <3>1
    <3>3. QED
      BY <2>1, <2>2, <2>4, <3>1, <3>2
  <2>8. CASE ReadDir(o) \/ Scanned(o) \/ \E b \in Agents : ScanFile(o, b)
    <3>1. index' = index /\ op[o].pc \in {"dir", "scan"} /\ a \in op[o].idx
      BY <2>2, <2>8 DEF ReadDir, Scanned, ScanFile, files
    <3>2. index # Torn
      BY <2>3, <3>1 DEF UsesIndex
    <3>3. op'[o].pc = "off" \/ a \in op'[o].idx
      BY <2>8, <3>1, ReadDirFacts, ScanFileFacts
    <3>4. QED
      BY <2>2, <2>4, <3>1, <3>2, <3>3
  <2>a. CASE AddPhantom(o)
    <3>1. index' = index /\ op'[o].pc = "write" /\ op'[o].idx = Entries \cup {Phantom}
      BY <2>a DEF AddPhantom, files
    <3>2. index # Torn
      BY <2>3, <3>1 DEF UsesIndex
    <3>3. QED
      BY <2>2, <2>4, <3>1, <3>2 DEF Entries
  <2>9. CASE \/ WriteState(o) \/ StateWritten(o) \/ WriteTalk(o) \/ Drop(o) \/ Forget(o) \/ UnlinkState(o)
             \/ LoadState(o) \/ LoadTalk(o)
    <3>1. index' = index
      BY <2>9 DEF WriteState, StateWritten, WriteTalk, Drop, Forget, AddPhantom, UnlinkState,
         LoadState, LoadTalk, files
    <3>2. op'[o].pc \notin {"dir", "scan", "write", "writeEnd"}
      BY <2>9, LoadStateFacts, LoadTalkFacts
    <3>3. QED
      BY <2>2, <2>3, <2>4, <3>1, <3>2
  <2>10. QED
    BY <1>4, <2>5, <2>6, <2>7, <2>8, <2>a, <2>9 DEF Step
<1>5. QED
  BY <1>3, <1>4

LEMMA IndexedRequest ==
  ASSUME Typed, Working, Indexed, Remember, Orderly, NEW o \in Ops, Request(o),
         \A p \in Ops \ {o} : ~BothUseIndex(op'[o], op'[p])
  PROVE  Indexed'
<1> USE DEF Typed
<1> SUFFICES ASSUME NEW a \in kept'
             PROVE  /\ index' # Torn => a \in index'
                    /\ index' = Torn => \E p \in Ops : op'[p].pc = "writeEnd"
                    /\ \A p \in Ops : op'[p].pc \in {"dir", "scan", "write", "writeEnd"} => a \in op'[p].idx
  BY DEF Indexed
<1>1. /\ \A p \in Ops \ {o} : op'[p] = op[p]
      /\ op[o].pc = "off" /\ index' = index
  BY RequestConfined, ConfinedFacts, StoresRequest, OffFacts DEF Request, files
<1>2. a \in kept
  BY <1>1, KeptFrom, WrittenMoves
<1>3. /\ index # Torn => a \in index
      /\ index = Torn => \E p \in Ops : op[p].pc = "writeEnd"
      /\ \A p \in Ops : op[p].pc \in {"dir", "scan", "write", "writeEnd"} => a \in op[p].idx
  BY <1>2 DEF Indexed
<1>4. index = Torn => /\ ~UsesIndex(op'[o]) /\ \E p \in Ops \ {o} : op'[p].pc = "writeEnd"
  BY <1>1, <1>3 DEF BothUseIndex, UsesIndex
<1>5. op'[o].pc \in {"state", "forget", "entry"} \/ Entries \subseteq op'[o].idx
  BY RequestFacts DEF Request, Begins
<1>6. QED
  BY <1>1, <1>3, <1>4, <1>5 DEF Entries, UsesIndex

LEMMA IndexedEdit ==
  ASSUME Typed, Working, Indexed, Remember, Orderly, NEW b \in Agents, Edit(b)
  PROVE  Indexed'
<1> USE DEF Typed
<1>1. \A p \in Ops : op'[p].pc = op[p].pc /\ op'[p].idx = op[p].idx
  BY EditedFacts DEF Lists
<1>2. index' = index
  BY EditedFacts DEF files
<1>3. \A a \in kept' : a \in kept
  BY <1>1, KeptFrom, WrittenMoves
<1>4. QED
  BY <1>1, <1>2, <1>3 DEF Indexed

(* The state files of the agents that were saved.                          *)
LEMMA OnDiskKept ==
  ASSUME Typed, Working, Undeleted, Remember, Orderly,
         \/ \E o \in Ops : Step(o) \/ Request(o)
         \/ \E b \in Agents : Edit(b),
         \A a \in kept : stateFile[a] = Torn \/ IsWhole(stateFile[a])
  PROVE  /\ \A a \in kept' : stateFile'[a] = Torn \/ IsWhole(stateFile'[a])
         /\ OnDisk => OnDisk'
<1> USE DEF Typed
<1> DEFINE There(a) == \/ IsWhole(stateFile[a])
                       \/ \E o \in Ops : Saves(op[o]) /\ op[o].agent = a /\ op[o].pc = "stateEnd"
<1>1. crashes' = crashes /\ crashes \in Nat
  BY StepRuns, RequestConfined, EditedFacts DEF CountsOK, Confined, Elsewhere
<1>2. ASSUME NEW a \in kept'
      PROVE  /\ stateFile'[a] = Torn \/ IsWhole(stateFile'[a])
             /\ (a \in kept /\ There(a)) \/ a \notin kept => There(a)'
  <2>1. a \in Agents /\ (a \notin kept => IsWhole(stateFile'[a]))
    BY KeptFrom
  <2>2. CASE a \notin kept
    BY <2>1, <2>2
  <2>3. CASE a \in kept
    <3>1. stateFile[a] = Torn \/ IsWhole(stateFile[a])
      BY <2>3
    <3>2. ASSUME NEW o \in Ops, Step(o)
          PROVE  /\ stateFile'[a] = Torn \/ IsWhole(stateFile'[a])
                 /\ There(a) => There(a)'
      <4>1. /\ Saving(op[o]) /\ Importing(op[o]) /\ ~(op[o].kind = "delete" /\ op[o].agent = a)
            /\ \A p \in Ops \ {o} : op'[p] = op[p]
        BY <2>3, <3>2, StepConfined, ConfinedFacts DEF Working, Orderly, Undeleted
      <4>2. /\ stateFile'[a] = Torn \/ IsWhole(stateFile'[a])
            /\ IsWhole(stateFile[a])
                 => \/ IsWhole(stateFile'[a])
                    \/ Saves(op'[o]) /\ op'[o].agent = a /\ op'[o].pc = "stateEnd"
            /\ Saves(op[o]) /\ op[o].agent = a /\ op[o].pc = "stateEnd" => IsWhole(stateFile'[a])
        BY <2>1, <3>1, <3>2, <4>1, StateFileStep
      <4>3. QED
        BY <4>1, <4>2
    <3>3. ASSUME NEW o \in Ops, Request(o)
          PROVE  /\ stateFile'[a] = Torn \/ IsWhole(stateFile'[a])
                 /\ There(a) => There(a)'
      <4>1. /\ \A p \in Ops \ {o} : op'[p] = op[p]
            /\ op[o].pc = "off" /\ stateFile' = stateFile
        BY <3>3, RequestConfined, ConfinedFacts, StoresRequest, OffFacts DEF Request, files
      <4>2. QED
        BY <3>1, <4>1
    <3>4. ASSUME NEW b \in Agents, Edit(b)
          PROVE  /\ stateFile'[a] = Torn \/ IsWhole(stateFile'[a])
                 /\ There(a) => There(a)'
      BY <3>1, <3>4, EditedFacts DEF files, Keeps, Saves
    <3>5. QED
      BY <2>3, <3>2, <3>3, <3>4
  <2>4. QED
    BY <2>2, <2>3
<1>3. QED
  BY <1>1, <1>2 DEF OnDisk

(* The crash that may come while the index is written.                     *)
LEMMA SafeAfterCrash ==
  ASSUME Typed, Safe, Alone, Remember, Crash, orderly'
  PROVE  /\ \A a \in kept' : stateFile'[a] = Torn \/ IsWhole(stateFile'[a])
         /\ crashes' <= 1 => Indexed' \/ OnDisk'
<1> USE DEF Typed
<1>1. /\ UNCHANGED <<stateFile, index>> /\ \A o \in Ops : op'[o] = Off
      /\ crashes' = crashes + 1 /\ crashes \in Nat
  BY CrashFacts DEF files, CountsOK
<1>2. kept' \subseteq kept /\ kept \subseteq Agents
  <2>1. \A a \in Agents, o \in Ops : ~Saved(o, a)
    BY <1>1 DEF Saved, Runs
  <2>2. kept' = {a \in Agents : /\ \A o \in Ops : ~Deletes(o, a)
                               /\ (a \in kept \/ \E o \in Ops : Saved(o, a))}
    BY DEF Remember
  <2>3. kept \subseteq Agents
    BY DEF HistoryOK
  <2>4. QED
    BY <2>1, <2>2, <2>3
<1>3. orderly /\ (index # Torn \/ \A a \in Agents : stateFile[a] # Torn)
  <2>1. /\ orderly
        /\ crashes' # crashes => index # Torn \/ \A a \in Agents : stateFile[a] # Torn
    BY DEF Remember
  <2>2. crashes' # crashes
    BY <1>1
  <2>3. QED
    BY <2>1, <2>2
<1>4. \A a \in kept : stateFile[a] = Torn \/ IsWhole(stateFile[a])
  BY <1>3 DEF Safe
<1>5. ASSUME crashes' <= 1 PROVE Indexed' \/ OnDisk'
  <2>1. crashes = 0
    BY <1>1, <1>5
  <2>2. Indexed
    BY <1>3, <2>1 DEF Safe, OnDisk
  <2>3. CASE index # Torn
    <3>1. Indexed'
      BY <1>1, <1>2, <2>2, <2>3, OffFacts DEF Indexed
    <3>2. QED
      BY <3>1
  <2>4. CASE index = Torn
    <3>1. \A a \in kept' : IsWhole(stateFile'[a])
      BY <1>1, <1>2, <1>3, <1>4, <2>4
    <3>2. OnDisk'
      BY <1>1, <3>1 DEF OnDisk
    <3>3. QED
      BY <3>2
  <2>5. QED
    BY <2>3, <2>4
<1>6. QED
  BY <1>1, <1>2, <1>4, <1>5

LEMMA SafeKept ==
  ASSUME Typed, Alone, Working, Undeleted, Safe, Remember,
         \/ \E o \in Ops : Step(o) \/ Request(o)
         \/ \E b \in Agents : Edit(b)
         \/ Crash
  PROVE  Safe'
<1> SUFFICES ASSUME orderly'
             PROVE  /\ Orderly' /\ WrittenIsTorn'
                    /\ \A a \in kept' : stateFile'[a] = Torn \/ IsWhole(stateFile'[a])
                    /\ crashes' <= 1 => Indexed' \/ OnDisk'
  BY DEF Safe, Orderly, WrittenIsTorn
<1>1. /\ Orderly /\ Orderly' /\ WrittenIsTorn /\ StoresOK /\ Shapes /\ CountsOK
      /\ \A o \in Ops : \A p \in Ops \ {o} :
           ~BothUseIndex(op[o], op[p]) /\ ~BothUseIndex(op'[o], op'[p])
  BY OrderlyFacts DEF Typed
<1>2. /\ \A a \in kept : stateFile[a] = Torn \/ IsWhole(stateFile[a])
      /\ crashes <= 1 => Indexed \/ OnDisk
  BY <1>1 DEF Safe, Orderly
<1>3. CASE Crash
  <2>1. WrittenIsTorn'
    BY <1>1, <1>3, CrashFacts, OffFacts DEF WrittenIsTorn
  <2>2. QED
    BY <1>1, <1>3, <2>1, SafeAfterCrash
<1>4. CASE (\E o \in Ops : Step(o) \/ Request(o)) \/ \E b \in Agents : Edit(b)
  <2>1. /\ \A a \in kept' : stateFile'[a] = Torn \/ IsWhole(stateFile'[a])
        /\ OnDisk => OnDisk'
    BY <1>1, <1>2, <1>4, OnDiskKept
  <2>2. ASSUME NEW o \in Ops, Step(o)
        PROVE  WrittenIsTorn' /\ crashes' = crashes /\ (Indexed => Indexed')
    BY <1>1, <2>2, WrittenIsTornStep, IndexedStep, StepRuns
  <2>3. ASSUME NEW o \in Ops, Request(o)
        PROVE  WrittenIsTorn' /\ crashes' = crashes /\ (Indexed => Indexed')
    <3>1. /\ Confined(o) /\ index' = index /\ \A p \in Ops \ {o} : op'[p] = op[p]
      BY <1>1, <2>3, RequestConfined, ConfinedFacts, StoresRequest DEF files
    <3>2. op'[o].pc # "writeEnd"
      BY <1>1, <2>3, RequestFacts DEF Request, Begins
    <3>3. QED
      BY <1>1, <2>3, <3>1, <3>2, IndexedRequest DEF WrittenIsTorn, Confined, Elsewhere
  <2>4. ASSUME NEW b \in Agents, Edit(b)
        PROVE  WrittenIsTorn' /\ crashes' = crashes /\ (Indexed => Indexed')
    BY <1>1, <2>4, EditedFacts, IndexedEdit DEF WrittenIsTorn, files
  <2>5. QED
    BY <1>1, <1>2, <1>4, <2>1, <2>2, <2>3, <2>4
<1>5. QED
  BY <1>3, <1>4

LEMMA UndeletedKept ==
  ASSUME Remember
  PROVE  Undeleted'
BY DEF Remember, Deletes, Undeleted
-----------------------------------------------------------------------------
LEMMA TypedKept ==
  ASSUME Typed, Remember,
         \/ \E o \in Ops : Step(o) \/ Request(o)
         \/ \E b \in Agents : Edit(b)
         \/ Crash
  PROVE  Typed'
<1> USE DEF Typed
<1>1. HistoryOK' /\ Known'
  BY HistoryKept, KnownKept
<1>2. ASSUME NEW o \in Ops, Step(o) PROVE StoresOK' /\ Shapes' /\ CountsOK'
  BY <1>2, StepConfined, ConfinedFacts, StoresStep, StepRuns DEF CountsOK
<1>3. ASSUME NEW o \in Ops, Request(o) PROVE StoresOK' /\ Shapes' /\ CountsOK'
  <2>1. requests' = requests + 1 /\ crashes' = crashes
    BY <1>3 DEF Request, List, CreateAgent, Persist, DeleteAgent, DeleteArchived, Import, Starts
  <2>2. QED
    BY <1>3, <2>1, RequestConfined, ConfinedFacts, StoresRequest DEF CountsOK
<1>4. ASSUME NEW b \in Agents, Edit(b) PROVE StoresOK' /\ Shapes' /\ CountsOK'
  BY <1>4, EditedFacts DEF CountsOK, Edit
<1>5. ASSUME Crash PROVE StoresOK' /\ Shapes' /\ CountsOK'
  BY <1>5, CrashFacts, AgentStoreAssumption DEF CountsOK, Crash
<1>6. QED
  BY <1>1, <1>2, <1>3, <1>4, <1>5

LEMMA InitInv == Init => IInv
<1> SUFFICES ASSUME Init PROVE IInv
  OBVIOUS
<1>1. kept \subseteq Agents /\ \A o \in Ops : op[o] = Off
  BY DEF Init
<1>2. /\ StoresOK
      /\ \A a \in kept : stateFile[a] = Whole(1) /\ talkFile[a] = Whole(1) /\ version[a] = 1
      /\ \A a \in Agents \ kept : stateFile[a] = Absent /\ talkFile[a] = Absent /\ version[a] = 0
  <2>1. /\ Whole(1) \in Contents /\ Absent \in Contents
        /\ 0 \in Versions /\ 1 \in Versions /\ kept \subseteq Ids
    BY <1>1, RecordFacts DEF Contents, Ids
  <2>2. QED
    BY <1>1, <2>1 DEF Init, StoresOK
<1>3. Shapes
  BY OffFacts DEF Init, Shapes
<1>4. HistoryOK /\ CountsOK
  BY <1>1, <1>2, AgentStoreAssumption DEF Init, HistoryOK, CountsOK, StoresOK
<1>5. Known
  BY <1>1, <1>2, OffFacts, AgentStoreAssumption DEF Init, Known, Absence, Entries, UsesIndex
<1>6. Apart /\ Alone
  BY <1>1, OffFacts DEF Apart, Alone, Meet, BothUseIndex, UsesIndex
<1>7. Listing /\ Working /\ Undeleted
  BY <1>1, OffFacts DEF Listing, Working, Undeleted, Saving, Deleting, Importing, Saves
<1>8. Forgotten
  BY DEF Init, Forgotten
<1>9. LastSaved
  BY <1>1, <1>2, OffFacts DEF Init, LastSaved, Stored
<1>10. Safe
  <2>1. IsWhole(Whole(1)) /\ Indexed
    BY <1>1, RecordFacts, OffFacts, AgentStoreAssumption DEF Init, Indexed, Ids
  <2>2. QED
    BY <1>1, <1>2, <2>1, OffFacts DEF Init, Safe
<1>11. QED
  BY <1>2, <1>3, <1>4, <1>5, <1>6, <1>7, <1>8, <1>9, <1>10 DEF IInv, Typed

LEMMA NextKeeps == IInv /\ [Next]_vars => IInv'
<1> SUFFICES ASSUME IInv, [Next]_vars PROVE IInv'
  OBVIOUS
<1>1. CASE Next
  <2>1. /\ Remember
        /\ \/ \E o \in Ops : Step(o) \/ Request(o)
           \/ \E b \in Agents : Edit(b)
           \/ Crash
    BY <1>1 DEF Next
  <2>2. /\ Typed /\ StoresOK /\ Shapes /\ Apart /\ Alone /\ Listing /\ Working
        /\ Forgotten /\ LastSaved /\ Undeleted /\ Safe
    BY DEF IInv, Typed
  <2>3. Typed'
    BY <2>1, <2>2, TypedKept
  <2>4. Apart' /\ Alone' /\ Undeleted'
    BY <2>1, ApartKept, UndeletedKept
  <2>5. Listing'
    BY <2>1, <2>2, ListingKept
  <2>6. Working'
    BY <2>1, <2>2, WorkingKept
  <2>7. Forgotten'
    BY <2>1, <2>2, ForgottenKept
  <2>8. LastSaved'
    BY <2>1, <2>2, LastSavedKept
  <2>9. Safe'
    BY <2>1, <2>2, SafeKept
  <2>10. QED
    BY <2>3, <2>4, <2>5, <2>6, <2>7, <2>8, <2>9 DEF IInv
<1>2. CASE UNCHANGED vars
  BY <1>2 DEF vars, files, past, IInv, Typed, StoresOK, Shapes, HistoryOK, CountsOK, Known, Absence,
     Entries, Apart, Alone, Listing, Working, Saving, Deleting, Forgotten, LastSaved, Stored,
     Importing, Undeleted, Safe, Indexed, OnDisk
<1>3. QED
  BY <1>1, <1>2
-----------------------------------------------------------------------------
(* The invariant holds in every state.                                     *)
THEOREM InvariantHolds == Spec => []IInv
BY InitInv, NextKeeps, PTL DEF Spec

(* Every variable keeps its type, and only agents that were created are in *)
(* memory.                                                                 *)
THEOREM TypesHold == Spec => []TypeOK
<1>1. IInv => TypeOK
  BY TypedIsTypeOK DEF IInv
<1>2. QED
  BY <1>1, InvariantHolds, PTL

(* A listing shows every agent whose state file was whole from its         *)
(* beginning to its end, whatever else ran (getAllAvailableAgents).        *)
THEOREM ListingHolds == Spec => []ListingIsComplete
<1>1. IInv => ListingIsComplete
  <2> SUFFICES ASSUME IInv, NEW o \in Ops, op[o].kind = "list", op[o].pc # "dir", op[o].todo = {}
               PROVE  steady[o] \subseteq op[o].shown
    BY DEF ListingIsComplete
  <2>1. op[o].pc \in {"scan", "write", "writeEnd"}
    BY DEF IInv, Typed, Shapes, Shape
  <2>2. steady[o] \subseteq Agents
    BY DEF IInv, Typed, HistoryOK
  <2>3. QED
    BY <2>1, <2>2 DEF IInv, Listing
<1>2. QED
  BY <1>1, InvariantHolds, PTL

(* An agent whose deletion met no other request does not come back: not    *)
(* from the files, the index, a listing or an import (deleteAgent).        *)
THEOREM DeletionLasts == Spec => []DeletedStaysDeleted
<1>1. IInv => DeletedStaysDeleted
  BY DEF IInv, Forgotten, Absence, Entries, DeletedStaysDeleted
<1>2. QED
  BY <1>1, InvariantHolds, PTL

(* What an import that met no other request brings back is what the last   *)
(* save wrote, state and conversation of one version                       *)
(* (importArchivedAgent, persistAgentState).                               *)
THEOREM ImportIsLastSave == Spec => []ImportGivesLastSave
<1>1. IInv => ImportGivesLastSave
  <2> SUFFICES ASSUME IInv, NEW o \in Ops \ crossed, op[o].kind = "import", op[o].pc = "set",
                      last[op[o].agent] # 0
               PROVE  op[o].state = last[op[o].agent] /\ op[o].talk = last[op[o].agent]
    BY DEF ImportGivesLastSave
  <2>1. op[o].agent \in Agents /\ op[o].agent # None
    BY ShapeFacts, AgentStoreAssumption DEF IInv, Typed, Shapes
  <2>2. \A p \in Ops : ~Storing(op[p], op[o].agent)
    BY <2>1 DEF IInv, Apart, Meet, Storing, Saves
  <2>3. Stored(op[o].agent, last[op[o].agent])
    BY <2>1, <2>2 DEF IInv, LastSaved
  <2>4. QED
    BY <2>3 DEF Stored, Clean
<1>2. QED
  BY <1>1, InvariantHolds, PTL

(* One end of the process, at whatever moment, loses no agent that was     *)
(* saved, unless requests met or a state file and the index were both      *)
(* being written (saveJSON, updateAgentIndex, getAllAvailableAgents).      *)
THEOREM OneCrash == Spec => []OneCrashLosesNoAgent
<1>1. IInv => OneCrashLosesNoAgent
  <2> SUFFICES ASSUME IInv, orderly, crashes <= 1, NEW a \in kept
               PROVE  \/ memory[a] # None \/ IsWhole(stateFile[a]) \/ a \in Entries
                      \/ \E o \in Ops : op[o].pc = "writeEnd" /\ a \in op[o].idx
    BY DEF OneCrashLosesNoAgent
  <2>1. crossed = {} /\ (Indexed \/ OnDisk)
    BY DEF IInv, Safe
  <2>2. CASE Indexed
    BY <2>2 DEF Indexed, Entries
  <2>3. CASE OnDisk
    BY <2>1, <2>3 DEF OnDisk, IInv, Working, Saving
  <2>4. QED
    BY <2>1, <2>2, <2>3
<1>2. QED
  BY <1>1, InvariantHolds, PTL
=============================================================================
