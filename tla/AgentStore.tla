------------------------------ MODULE AgentStore ------------------------------
(***************************************************************************)
(* The agents on disk and in memory (src/src/core/stateManager.js,         *)
(* agentPool.js, src/src/interfaces/webServer.js): each agent has a state  *)
(* file and a conversations file, all share one index.  Saves, unloads,    *)
(* deletions, listings and imports run as they are requested, side by      *)
(* side; each awaits its reads and writes, a write first empties its file, *)
(* and the process may end at any moment.                                  *)
(*                                                                         *)
(* The content of an agent is a version number, 0 being the skeleton that  *)
(* replaces a file that cannot be read.  The end of the process stands for *)
(* an orderly shutdown as well, which saves nothing of an agent            *)
(* (orchestrator.js:215 passes ids where agents are expected).             *)
(***************************************************************************)
EXTENDS Naturals, FiniteSets

CONSTANTS Agents,
          Ops,          \* requests under way at once (a bound)
          MaxVersion,   \* versions of an agent (a bound)
          MaxCrashes,   \* ends of the process (a bound)
          MaxRequests,  \* requests and ends of the process (a bound)
          None, Absent, Torn,
          Phantom       \* the index entry "undefined"

ASSUME AgentStoreAssumption ==
  /\ MaxVersion \in Nat \ {0} /\ {MaxCrashes, MaxRequests} \subseteq Nat
  /\ Phantom \notin Agents /\ None \notin Agents
  /\ Absent # Torn /\ \A mark \in {Absent, Torn} : mark \notin [v : Nat, junk : BOOLEAN]
  /\ None \notin [state : Nat, talk : Nat]
  /\ \A ids \in SUBSET (Agents \cup {Phantom}) : ids # Torn

VARIABLES
  memory,     \* agentPool.agents: the versions of what an agent's two files hold
  stateFile,  \* agents/agent-<id>-state.json
  talkFile,   \* agents/agent-<id>-conversations.json
  index,      \* agent-index.json: its entries, or Torn
  op,         \* the requests under way
  version,    \* the latest version of each agent
  crashes,    \* counts the ends of the process, for the bound
  requests,   \* counts the requests and ends of the process, for the bound
  crossed,    \* history only: requests that met another one about the same agent
  stale,      \* history only: requests that met another one between its read and
              \* its write of the index
  steady,     \* history only: agents whose state file was whole since a request began
  last,       \* history only: the version of an agent's last save that met no other
  kept,       \* history only: agents that were saved and not deleted
  gone,       \* history only: agents whose deletion met no other request
  orderly     \* history only: no request was crossed or stale, and no end of the
              \* process tore both a state file and the index

files == <<stateFile, talkFile, index>>
past == <<crossed, stale, steady, last, kept, gone, orderly>>
vars == <<memory, files, op, version, crashes, requests, past>>

Versions == 0..MaxVersion
Ids == Agents \cup {Phantom}
Whole(v) == [v |-> v, junk |-> FALSE]
Junk(v) == [v |-> v, junk |-> TRUE]    \* the tail of a longer text follows
Contents == {Absent, Torn} \cup [v : Versions, junk : BOOLEAN]
IsWhole(file) == file \notin {Absent, Torn} /\ ~file.junk

Kinds == {"off", "save", "unload", "delete", "archived", "import", "list"}
Pcs == {"off", "state", "stateFix", "stateEnd", "talk", "talkFix", "talkEnd", "set",
        "drop", "forget", "unlinkState", "unlinkTalk", "entry", "dir", "scan", "write", "writeEnd"}
Off == [kind |-> "off", agent |-> None, pc |-> "off", state |-> 0, talk |-> 0,
        idx |-> {}, todo |-> {}, shown |-> {}]
-----------------------------------------------------------------------------
TypeOK ==
  /\ memory \in [Agents -> {None} \cup [state : Versions, talk : Versions]]
  /\ stateFile \in [Agents -> Contents] /\ talkFile \in [Agents -> Contents]
  /\ index = Torn \/ index \subseteq Ids
  /\ op \in [Ops -> [kind : Kinds, agent : Agents \cup {None}, pc : Pcs,
                     state : Versions, talk : Versions, idx : SUBSET Ids,
                     todo : SUBSET Agents, shown : SUBSET Agents]]
  /\ \A o \in Ops : /\ (op[o].pc = "off" <=> op[o] = Off)
                    /\ (op[o].kind \in {"off", "list"} <=> op[o].agent = None)
  /\ version \in [Agents -> Versions] /\ crashes \in 0..MaxCrashes /\ requests \in Nat
  /\ \A a \in Agents : memory[a] # None => version[a] > 0
  /\ crossed \subseteq Ops /\ stale \subseteq Ops
  /\ steady \in [Ops -> SUBSET Agents] /\ last \in [Agents -> Versions]
  /\ kept \cup gone \subseteq Agents /\ orderly \in BOOLEAN

(* The process starts with the agents that were saved before. *)
Init ==
  /\ memory = [a \in Agents |-> None]
  /\ kept \in SUBSET Agents
  /\ stateFile = [a \in Agents |-> IF a \in kept THEN Whole(1) ELSE Absent]
  /\ talkFile = stateFile
  /\ index = kept /\ op = [o \in Ops |-> Off]
  /\ version = [a \in Agents |-> IF a \in kept THEN 1 ELSE 0] /\ crashes = 0 /\ requests = 0
  /\ crossed = {} /\ stale = {} /\ steady = [o \in Ops |-> {}]
  /\ last = version /\ gone = {} /\ orderly = TRUE
-----------------------------------------------------------------------------
Becomes(o, r) == op' = [op EXCEPT ![o] = r]
Goes(o, pc) == op' = [op EXCEPT ![o].pc = pc]
Ended(o) == Becomes(o, Off)
Starts(o, r) ==
  /\ requests' = requests + 1 /\ Becomes(o, r)

(* saveJSON: a write that ends leaves its text, unless the file was deleted  *)
(* while it was open; the tail of another writer's longer text may follow.  *)
Left(file, v) == IF file = Absent THEN {Absent}
                 ELSE IF file = Torn THEN {Whole(v)} ELSE {Whole(v), Junk(v)}
LeftIndex(entries) == IF index = Torn THEN {entries} ELSE {entries, Torn}

(* loadJSONResilient: text that follows the object is cut off, a beginning *)
(* of an object is of no use.                                              *)
Recovered(file) == IF file \in {Absent, Torn} THEN 0 ELSE file.v

(* loadAgentIndex. *)
Entries == IF index = Torn THEN {} ELSE index
-----------------------------------------------------------------------------
(* createAgent, in memory at once. *)
CreateAgent(o, a) ==
  /\ version[a] = 0
  /\ memory' = [memory EXCEPT ![a] = [state |-> 1, talk |-> 1]]
  /\ version' = [version EXCEPT ![a] = 1]
  /\ Starts(o, [Off EXCEPT !.kind = "save", !.agent = a, !.pc = "state",
                            !.state = 1, !.talk = 1])
  /\ UNCHANGED <<files, crashes>>

(* A turn changes the agent: a save under way still writes the conversation *)
(* as it then is.                                                           *)
Edit(a) ==
  /\ memory[a] # None /\ version[a] < MaxVersion
  /\ LET v == version[a] + 1 IN
       /\ version' = [version EXCEPT ![a] = v]
       /\ memory' = [memory EXCEPT ![a] = [state |-> v, talk |-> v]]
       /\ op' = [o \in Ops |-> IF /\ op[o].kind \in {"save", "unload"} /\ op[o].agent = a
                                  /\ op[o].pc \in {"state", "stateEnd", "talk"}
                               THEN [op[o] EXCEPT !.talk = v] ELSE op[o]]
  /\ UNCHANGED <<files, crashes, requests>>

(* persistAgentState and unloadAgent, for an agent in memory. *)
Persist(o, a, kind) ==
  /\ memory[a] # None
  /\ Starts(o, [Off EXCEPT !.kind = kind, !.agent = a, !.pc = "state",
                            !.state = memory[a].state, !.talk = memory[a].talk])
  /\ UNCHANGED <<memory, files, version, crashes>>

WriteState(o) ==
  /\ \/ op[o].kind \in {"save", "unload"} /\ op[o].pc = "state"
     \/ op[o].pc = "stateFix"
  /\ stateFile' = [stateFile EXCEPT ![op[o].agent] = Torn]
  /\ Goes(o, "stateEnd")
  /\ UNCHANGED <<memory, talkFile, index, version, crashes, requests>>

StateWritten(o) ==
  /\ op[o].pc = "stateEnd"
  /\ \E file \in Left(stateFile[op[o].agent], op[o].state) :
       stateFile' = [stateFile EXCEPT ![op[o].agent] = file]
  /\ Goes(o, "talk")
  /\ UNCHANGED <<memory, talkFile, index, version, crashes, requests>>

\* mutant of WriteTalk: the write is not awaited, and is cut short
WriteTalkUnawaited(o) ==
  /\ \/ op[o].kind \in {"save", "unload"} /\ op[o].pc = "talk"
     \/ op[o].pc = "talkFix"
  /\ talkFile' = [talkFile EXCEPT ![op[o].agent] = Torn]
  /\ IF op[o].kind = "import" THEN Goes(o, "set")
     ELSE Becomes(o, [op[o] EXCEPT !.pc = "write", !.idx = Entries \cup {op[o].agent}])
  /\ UNCHANGED <<memory, stateFile, index, version, crashes, requests>>

WriteTalk(o) ==
  /\ \/ op[o].kind \in {"save", "unload"} /\ op[o].pc = "talk"
     \/ op[o].pc = "talkFix"
  /\ talkFile' = [talkFile EXCEPT ![op[o].agent] = Torn]
  /\ Goes(o, "talkEnd")
  /\ UNCHANGED <<memory, stateFile, index, version, crashes, requests>>

\* mutant of ReadIndex: the other entries are not read
ReadIndexNot(o, r, entry) == Becomes(o, [r EXCEPT !.pc = "write", !.idx = {entry}])

(* updateAgentIndex reads the index, awaits, and writes all of it. *)
ReadIndex(o, r, entry) ==
  Becomes(o, [r EXCEPT !.pc = "write", !.idx = Entries \cup {entry}])

TalkWritten(o) ==
  /\ op[o].pc = "talkEnd"
  /\ \E file \in Left(talkFile[op[o].agent], op[o].talk) :
       talkFile' = [talkFile EXCEPT ![op[o].agent] = file]
  /\ IF op[o].kind = "import" THEN Goes(o, "set") ELSE ReadIndex(o, op[o], op[o].agent)
  /\ UNCHANGED <<memory, stateFile, index, version, crashes, requests>>

WriteIndex(o) ==
  /\ op[o].pc = "write" /\ index' = Torn
  /\ Goes(o, "writeEnd")
  /\ UNCHANGED <<memory, stateFile, talkFile, version, crashes, requests>>

IndexWritten(o) ==
  /\ op[o].pc = "writeEnd"
  /\ index' \in LeftIndex(op[o].idx)
  /\ IF op[o].kind = "unload" THEN Goes(o, "drop") ELSE Ended(o)
  /\ UNCHANGED <<memory, stateFile, talkFile, version, crashes, requests>>

(* The end of unloadAgent, once the visual editor has stopped. *)
Drop(o) ==
  /\ op[o].pc = "drop"
  /\ memory' = [memory EXCEPT ![op[o].agent] = None]
  /\ Ended(o)
  /\ UNCHANGED <<files, version, crashes, requests>>
-----------------------------------------------------------------------------
(* deleteAgent stops what runs for the agent, forgets it, and then deletes *)
(* its files.                                                              *)
DeleteAgent(o, a) ==
  /\ memory[a] # None
  /\ Starts(o, [Off EXCEPT !.kind = "delete", !.agent = a, !.pc = "forget"])
  /\ UNCHANGED <<memory, files, version, crashes>>

Forget(o) ==
  /\ op[o].pc = "forget"
  /\ memory' = [memory EXCEPT ![op[o].agent] = None]
  /\ Goes(o, "unlinkState")
  /\ UNCHANGED <<files, version, crashes, requests>>

UnlinkState(o) ==
  /\ op[o].pc = "unlinkState"
  /\ stateFile' = [stateFile EXCEPT ![op[o].agent] = Absent]
  /\ Goes(o, "unlinkTalk")
  /\ UNCHANGED <<memory, talkFile, index, version, crashes, requests>>

\* mutant of UnlinkTalk: the index keeps the entry
UnlinkTalkOnly(o) ==
  /\ op[o].pc = "unlinkTalk"
  /\ talkFile' = [talkFile EXCEPT ![op[o].agent] = Absent]
  /\ Ended(o)
  /\ UNCHANGED <<memory, stateFile, index, version, crashes, requests>>

(* removeFromAgentIndex gives up when the index cannot be read. *)
UnlinkTalk(o) ==
  /\ op[o].pc = "unlinkTalk"
  /\ talkFile' = [talkFile EXCEPT ![op[o].agent] = Absent]
  /\ IF index = Torn THEN Ended(o)
     ELSE Becomes(o, [op[o] EXCEPT !.pc = "write", !.idx = index \ {op[o].agent}])
  /\ UNCHANGED <<memory, stateFile, index, version, crashes, requests>>

(* DELETE /api/agents/archived/:agentId: the files it unlinks have other   *)
(* names than those saved, and it calls updateAgentIndex with the project's *)
(* directory for an agent, which adds an entry "undefined" to the index as *)
(* it then is on disk.                                                     *)
DeleteArchived(o, a) ==
  /\ memory[a] = None /\ a \in Entries
  /\ Starts(o, [Off EXCEPT !.kind = "archived", !.agent = a, !.pc = "entry"])
  /\ UNCHANGED <<memory, files, version, crashes>>

AddPhantom(o) ==
  /\ op[o].pc = "entry"
  /\ ReadIndex(o, op[o], Phantom)
  /\ UNCHANGED <<memory, files, version, crashes, requests>>
-----------------------------------------------------------------------------
\* mutant of Import: the agent need not be in the index
ImportAny(o, a) ==
  /\ memory[a] = None
  /\ Starts(o, [Off EXCEPT !.kind = "import", !.agent = a, !.pc = "state"])
  /\ UNCHANGED <<memory, files, version, crashes>>

(* importArchivedAgent, for an agent not in memory at this moment. *)
Import(o, a) ==
  /\ memory[a] = None /\ a \in Entries
  /\ Starts(o, [Off EXCEPT !.kind = "import", !.agent = a, !.pc = "state"])
  /\ UNCHANGED <<memory, files, version, crashes>>

(* loadJSONResilient: what it repaired or made up is written back, after   *)
(* the text it found was copied to an archive.                             *)
LoadState(o) ==
  /\ op[o].kind = "import" /\ op[o].pc = "state"
  /\ LET file == stateFile[op[o].agent] IN
       Becomes(o, [op[o] EXCEPT !.state = Recovered(file),
                                !.pc = IF IsWhole(file) THEN "talk" ELSE "stateFix"])
  /\ UNCHANGED <<memory, files, version, crashes, requests>>

LoadTalk(o) ==
  /\ op[o].kind = "import" /\ op[o].pc = "talk"
  /\ LET file == talkFile[op[o].agent] IN
       Becomes(o, [op[o] EXCEPT !.talk = Recovered(file),
                                !.pc = IF IsWhole(file) THEN "set" ELSE "talkFix"])
  /\ UNCHANGED <<memory, files, version, crashes, requests>>

(* Nothing is checked again: an agent imported meanwhile is replaced. *)
SetAgent(o) ==
  /\ op[o].pc = "set"
  /\ memory' = [memory EXCEPT ![op[o].agent] = [state |-> op[o].state, talk |-> op[o].talk]]
  /\ ReadIndex(o, op[o], op[o].agent)
  /\ UNCHANGED <<files, version, crashes, requests>>
-----------------------------------------------------------------------------
(* getAllAvailableAgents: the entries of the index, and the agents of the  *)
(* state files it lacks.                                                   *)
List(o) ==
  /\ Starts(o, [Off EXCEPT !.kind = "list", !.pc = "dir", !.idx = Entries,
                            !.shown = Entries \cap Agents])
  /\ UNCHANGED <<memory, files, version, crashes>>

\* mutant of ReadDir: the files are looked at when there is no index only
ReadDirIfEmpty(o) ==
  /\ op[o].pc = "dir"
  /\ Becomes(o, [op[o] EXCEPT !.pc = "scan",
       !.todo = {a \in Agents : op[o].idx = {} /\ stateFile[a] # Absent}])
  /\ UNCHANGED <<memory, files, version, crashes, requests>>

ReadDir(o) ==
  /\ op[o].pc = "dir"
  /\ Becomes(o, [op[o] EXCEPT !.pc = "scan",
       !.todo = {a \in Agents : stateFile[a] # Absent} \ op[o].shown])
  /\ UNCHANGED <<memory, files, version, crashes, requests>>

ScanFile(o, a) ==
  /\ op[o].pc = "scan" /\ a \in op[o].todo
  /\ Becomes(o, [op[o] EXCEPT !.todo = @ \ {a},
                    !.shown = IF IsWhole(stateFile[a]) THEN @ \cup {a} ELSE @])
  /\ UNCHANGED <<memory, files, version, crashes, requests>>

(* The index is saved if the scan added to it. *)
Scanned(o) ==
  /\ op[o].pc = "scan" /\ op[o].todo = {}
  /\ IF op[o].shown \subseteq op[o].idx THEN Ended(o)
     ELSE Becomes(o, [op[o] EXCEPT !.pc = "write", !.idx = @ \cup op[o].shown])
  /\ UNCHANGED <<memory, files, version, crashes, requests>>
-----------------------------------------------------------------------------
Crash ==
  /\ crashes < MaxCrashes /\ crashes' = crashes + 1
  /\ requests < MaxRequests /\ requests' = requests + 1
  /\ memory' = [a \in Agents |-> None]
  /\ op' = [o \in Ops |-> Off]
  /\ UNCHANGED <<files, version>>

Step(o) ==
  \/ WriteState(o) \/ StateWritten(o) \/ WriteTalk(o) \/ TalkWritten(o)
  \/ WriteIndex(o) \/ IndexWritten(o) \/ Drop(o)
  \/ Forget(o) \/ UnlinkState(o) \/ UnlinkTalk(o) \/ AddPhantom(o)
  \/ LoadState(o) \/ LoadTalk(o) \/ SetAgent(o)
  \/ ReadDir(o) \/ (\E a \in Agents : ScanFile(o, a)) \/ Scanned(o)

Request(o) ==
  /\ op[o] = Off /\ requests < MaxRequests
  /\ \/ List(o)
     \/ \E a \in Agents :
          \/ CreateAgent(o, a) \/ Persist(o, a, "save") \/ Persist(o, a, "unload")
          \/ DeleteAgent(o, a) \/ DeleteArchived(o, a) \/ Import(o, a)
-----------------------------------------------------------------------------
(* What the properties remember of the steps. *)
Meet(r, s) == r.agent = s.agent /\ r.agent # None
UsesIndex(r) == \/ r.pc \in {"dir", "scan", "write", "writeEnd"}
                \/ r.pc = "unlinkTalk"
Collided(before, Clash(_, _)) ==
  {o \in Ops : /\ op'[o] # Off
               /\ (o \in before \/ \E p \in Ops \ {o} : Clash(op'[o], op'[p]))}
BothUseIndex(r, s) == UsesIndex(r) /\ UsesIndex(s)

Runs(o) == crashes' = crashes /\ op[o] # Off
Saved(o, a) == /\ Runs(o) /\ op[o].kind \in {"save", "unload"} /\ op[o].agent = a
               /\ op[o].pc = "writeEnd" /\ op'[o].pc # "writeEnd"
Deletes(o, a) == op'[o].kind = "delete" /\ op'[o].agent = a
Deleted(o, a) == Runs(o) /\ op'[o] = Off /\ op[o].kind = "delete" /\ op[o].agent = a

Remember ==
  /\ crossed' = Collided(crossed, Meet)
  /\ stale' = Collided(stale, BothUseIndex)
  /\ steady' = [o \in Ops |->
       IF op'[o].kind # "list" THEN {}
       ELSE {a \in IF op[o].kind = "list" THEN steady[o] ELSE Agents :
               IsWhole(stateFile[a]) /\ IsWhole(stateFile'[a])}]
  /\ last' = [a \in Agents |->
       IF \/ crashes' # crashes /\ \E o \in Ops : op[o].agent = a
          \/ \E o \in Ops : Deletes(o, a)
          \/ \E o \in crossed : Saved(o, a)
         THEN 0
       ELSE IF \E o \in Ops : Saved(o, a)
         THEN LET o == CHOOSE o \in Ops : Saved(o, a)
              IN IF op[o].state = op[o].talk THEN op[o].state ELSE 0
       ELSE last[a]]
  /\ kept' = {a \in Agents : /\ \A o \in Ops : ~Deletes(o, a)
                            /\ (a \in kept \/ \E o \in Ops : Saved(o, a))}
  /\ gone' = gone \cup {a \in Agents : \E o \in Ops \ (crossed \cup stale) : Deleted(o, a)}
  /\ orderly' = (/\ orderly /\ crossed' = {} /\ stale' = {}
                 /\ crashes' # crashes => index # Torn \/ \A a \in Agents : stateFile[a] # Torn)

Next ==
  /\ \/ \E o \in Ops : Step(o) \/ Request(o)
     \/ \E a \in Agents : Edit(a)
     \/ Crash
  /\ Remember

Spec == Init /\ [][Next]_vars
-----------------------------------------------------------------------------
(* A listing shows every agent whose state file was whole from its         *)
(* beginning to its end, whatever the index holds and whoever writes it.   *)
ListingIsComplete ==
  \A o \in Ops : (op[o].kind = "list" /\ op[o].pc \notin {"dir"} /\ op[o].todo = {})
                  => steady[o] \subseteq op[o].shown

(* An agent whose deletion met no other request about it, and none between *)
(* its read and its write of the index, does not come back: not from the   *)
(* files, the index, a later listing or an import.                         *)
DeletedStaysDeleted ==
  \A a \in gone : /\ memory[a] = None
                  /\ stateFile[a] = Absent /\ talkFile[a] = Absent
                  /\ index = Torn \/ a \notin index

(* What an import brings back is what the agent's last save wrote, state   *)
(* and conversation of one version, if neither met another request about   *)
(* the agent and no turn changed the agent during the save.                *)
ImportGivesLastSave ==
  \A o \in Ops \ crossed :
    (op[o].kind = "import" /\ op[o].pc = "set" /\ last[op[o].agent] # 0)
      => op[o].state = last[op[o].agent] /\ op[o].talk = last[op[o].agent]

(* The end of the process, at whatever moment, loses no agent that was     *)
(* once saved: it can still be listed, from its file or from the index,    *)
(* unless requests collided or both were being written.                    *)
OneCrashLosesNoAgent ==
  (orderly /\ crashes <= 1) =>
    \A a \in kept : \/ memory[a] # None \/ IsWhole(stateFile[a]) \/ a \in Entries
                    \/ \E o \in Ops : op[o].pc = "writeEnd" /\ a \in op[o].idx
=============================================================================
