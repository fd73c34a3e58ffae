------------------------ MODULE SchedulerCycleProofs ------------------------
(***************************************************************************)
(* Proofs about SchedulerCycle, for every finite set of agents and turns   *)
(* and every cap: the inductive invariant IInv, the three safety           *)
(* properties it implies, and the refinement of TurnPool.                  *)
(***************************************************************************)
EXTENDS SchedulerCycle, FiniteSetTheorems, SequenceTheorems, TLAPS

(* The facts about the constants and the finite sets made from them that   *)
(* the steps below share.                                                  *)
LEMMA ConstantFacts ==
  /\ NoAgent \notin Agents
  /\ MaxConcurrent \in Nat
  /\ MaxConcurrent >= 1
  /\ \A S \in SUBSET Agents : IsFiniteSet(S) /\ Cardinality(S) \in Nat
  /\ \A S \in SUBSET Agents : \A R \in SUBSET S : Cardinality(R) <= Cardinality(S)
<1>1. \A S \in SUBSET Agents : IsFiniteSet(S)
  BY FS_Subset, AgentsAssumption
<1>2. \A S \in SUBSET Agents : Cardinality(S) \in Nat
  BY <1>1, FS_CardinalityType
<1>3. \A S \in SUBSET Agents : \A R \in SUBSET S : Cardinality(R) <= Cardinality(S)
  BY <1>1, FS_Subset
<1>4. QED
  BY <1>1, <1>2, <1>3, AgentsAssumption, MaxConcurrentAssumption

(* Map.delete keeps the keys unique and in order. *)
LEMMA RemoveAtKeepsKeys ==
  ASSUME NEW S, NEW s \in Seq(S), IsInjective(s), NEW i \in DOMAIN s
  PROVE  RemoveAt(s, i) \in Seq(S) /\ IsInjective(RemoveAt(s, i))
<1> DEFINE r == RemoveAt(s, i)
           left == SubSeq(s, 1, i - 1)
           right == SubSeq(s, i + 1, Len(s))
<1>0. Len(s) \in Nat /\ i \in 1..Len(s)
  OBVIOUS
<1>a. /\ left \in Seq(S) /\ Len(left) = i - 1
      /\ \A j \in 1..(i - 1) : left[j] = s[j]
  BY <1>0, SubSeqProperties
<1>b. /\ right \in Seq(S) /\ Len(right) = Len(s) - i
      /\ \A j \in 1..(Len(s) - i) : right[j] = s[j + i]
  BY <1>0, SubSeqProperties
<1>1. r = left \o right
  BY DEF RemoveAt
<1> HIDE DEF r, left, right
<1>c. r \in Seq(S) /\ Len(r) = Len(s) - 1
  BY <1>0, <1>a, <1>b, <1>1, ConcatProperties
<1>d. \A j \in 1..Len(r) : r[j] = IF j < i THEN s[j] ELSE s[j + 1]
  <2> SUFFICES ASSUME NEW j \in 1..Len(r)
               PROVE  r[j] = IF j < i THEN s[j] ELSE s[j + 1]
    OBVIOUS
  <2>1. j \in 1..(Len(left) + Len(right))
    BY <1>0, <1>a, <1>b, <1>c
  <2>2. r[j] = IF j <= Len(left) THEN left[j] ELSE right[j - Len(left)]
    BY <1>a, <1>b, <1>1, <2>1, ConcatProperties
  <2>3. CASE j < i
    BY <1>0, <1>a, <2>2, <2>3
  <2>4. CASE j >= i
    <3>1. j - (i - 1) \in 1..(Len(s) - i) /\ j - (i - 1) + i = j + 1
      BY <1>0, <1>c, <2>4
    <3>2. r[j] = right[j - (i - 1)]
      BY <1>0, <1>a, <1>c, <2>2, <2>4
    <3>3. right[j - (i - 1)] = s[j - (i - 1) + i]
      BY <1>b, <3>1
    <3>4. r[j] = s[j + 1]
      BY <3>1, <3>2, <3>3
    <3>5. QED
      BY <1>0, <2>4, <3>4
  <2>5. QED
    BY <1>0, <2>3, <2>4
<1>2. ASSUME NEW j \in DOMAIN r, NEW k \in DOMAIN r, r[j] = r[k]
      PROVE  j = k
  <2> DEFINE Old(m) == IF m < i THEN m ELSE m + 1
  <2>1. /\ j \in 1..Len(r) /\ k \in 1..Len(r)
        /\ i \in 1..Len(s) /\ Len(s) \in Nat
    BY <1>0, <1>c
  <2>2. /\ Old(j) \in DOMAIN s /\ r[j] = s[Old(j)]
        /\ Old(k) \in DOMAIN s /\ r[k] = s[Old(k)]
    BY <1>c, <1>d, <2>1
  <2>3. Old(j) = Old(k)
    BY <1>2, <2>2 DEF IsInjective
  <2>4. QED
    BY <2>1, <2>3
<1>3. QED
  BY <1>c, <1>2 DEF IsInjective, r

(* The initial state satisfies the invariant. *)
LEMMA InitIInv == Init => IInv
<1> SUFFICES ASSUME Init PROVE IInv
  OBVIOUS
<1> USE DEF Init, ActiveTurns, Owners
<1>1. TypeOK
  <2>1. pool \in Seq(Agents) /\ IsInjective(pool)
    BY DEF IsInjective
  <2>2. QED
    BY <2>1 DEF TypeOK
<1>2. LocksWithinCap
  BY ConstantFacts, FS_EmptySet DEF LocksWithinCap
<1>3. QED
  BY <1>1, <1>2 DEF IInv, OwnersHoldTheirLock, NoStaleLock, OneOwnerPerAgent
-----------------------------------------------------------------------------
(* Giving locks back cannot exceed the cap. *)
LEMMA FewerLocks ==
  ASSUME IInv, locks' \subseteq locks
  PROVE  LocksWithinCap'
<1>1. locks \in SUBSET Agents /\ Cardinality(locks) <= MaxConcurrent
  BY DEF IInv, TypeOK, LocksWithinCap
<1>2. Cardinality(locks') <= Cardinality(locks)
  BY <1>1, ConstantFacts
<1>3. Cardinality(locks') \in Nat /\ Cardinality(locks) \in Nat
  BY <1>1, ConstantFacts
<1>4. QED
  BY <1>1, <1>2, <1>3, ConstantFacts DEF LocksWithinCap

(* Steps that touch neither locks nor turns. *)
LEMMA LocksUntouched ==
  ASSUME IInv, TypeOK', UNCHANGED <<locks, inFlight, orphan>>
  PROVE  IInv'
BY DEF IInv, OwnersHoldTheirLock, NoStaleLock, OneOwnerPerAgent, LocksWithinCap,
       Owners, ActiveTurns

(* The pool stays a sequence of distinct agents. *)
LEMMA PoolAppend ==
  ASSUME TypeOK, NEW a \in Agents, a \notin InPool
  PROVE  Append(pool, a) \in Seq(Agents) /\ IsInjective(Append(pool, a))
<1>1. pool \in Seq(Agents) /\ IsInjective(pool) /\ Len(pool) \in Nat
  BY DEF TypeOK
<1>2. /\ Append(pool, a) \in Seq(Agents)
      /\ Len(Append(pool, a)) = Len(pool) + 1
      /\ \A i \in 1..Len(pool) : Append(pool, a)[i] = pool[i]
      /\ Append(pool, a)[Len(pool) + 1] = a
  BY <1>1, AppendProperties
<1>3. \A i \in 1..Len(pool) : pool[i] # a
  BY <1>1 DEF InPool
<1>4. \A i, j \in 1..Len(pool) : pool[i] = pool[j] => i = j
  BY <1>1 DEF IsInjective
<1> DEFINE q == Append(pool, a)
<1> HIDE DEF q
<1>5. DOMAIN q = 1..(Len(pool) + 1)
  BY <1>1, <1>2 DEF q
<1>6. \A i, j \in DOMAIN q : q[i] = q[j] => i = j
  <2> SUFFICES ASSUME NEW i \in DOMAIN q, NEW j \in DOMAIN q, q[i] = q[j]
               PROVE  i = j
    OBVIOUS
  <2>1. \A k \in DOMAIN q : k = Len(pool) + 1 \/ k \in 1..Len(pool)
    BY <1>1, <1>5
  <2>2. \A k \in 1..Len(pool) : q[k] = pool[k] /\ q[k] # a
    BY <1>2, <1>3 DEF q
  <2>3. q[Len(pool) + 1] = a
    BY <1>2 DEF q
  <2>4. QED
    BY <1>4, <2>1, <2>2, <2>3
<1>7. QED
  BY <1>2, <1>6 DEF q, IsInjective

LEMMA PoolRemoved ==
  ASSUME TypeOK, NEW a \in Agents, Removed(a)
  PROVE  pool' \in Seq(Agents) /\ IsInjective(pool')
BY RemoveAtKeepsKeys DEF TypeOK, Removed

(* A turn ends: its own lock goes, and any other turn of the same agent    *)
(* no longer counts as an owner.                                           *)
LEMMA FinishTurnIInv ==
  ASSUME IInv, NEW t \in Turns, FinishTurn(t)
  PROVE  IInv'
<1> DEFINE a == inFlight[t]
<1>1. /\ a \in Agents /\ a # NoAgent
      /\ inFlight' = [inFlight EXCEPT ![t] = NoAgent]
      /\ locks' = locks \ {a}
      /\ orphan' = (orphan \cup TurnsOf(a)) \ {t}
      /\ inFlight \in [Turns -> Agents \cup {NoAgent}]
  BY DEF FinishTurn, IInv, TypeOK, ActiveTurns
<1>2. /\ ActiveTurns' = ActiveTurns \ {t}
      /\ TurnsOf(a) \subseteq ActiveTurns
      /\ orphan' \subseteq ActiveTurns'
      /\ inFlight' \in [Turns -> Agents \cup {NoAgent}]
  BY <1>1 DEF ActiveTurns, TurnsOf, IInv, TypeOK
<1>3. /\ Owners' = {u \in Owners : inFlight[u] # a}
      /\ \A u \in Owners' : inFlight'[u] = inFlight[u]
  BY <1>1, <1>2 DEF Owners, ActiveTurns, TurnsOf
<1>4. TypeOK'
  <2>1. due' \in SUBSET Agents /\ locks' \in SUBSET Agents
    BY <1>1 DEF FinishTurn, IInv, TypeOK
  <2>2. UNCHANGED <<isRunning, pool, lastLaunched, deleted>>
    BY DEF FinishTurn
  <2>3. QED
    BY <1>2, <2>1, <2>2 DEF IInv, TypeOK
<1>5. OwnersHoldTheirLock'
  BY <1>1, <1>3 DEF IInv, OwnersHoldTheirLock
<1>6. NoStaleLock'
  BY <1>1, <1>3 DEF IInv, NoStaleLock
<1>7. OneOwnerPerAgent'
  BY <1>3 DEF IInv, OneOwnerPerAgent
<1>8. LocksWithinCap'
  BY <1>1, FewerLocks
<1>9. QED
  BY <1>4, <1>5, <1>6, <1>7, <1>8 DEF IInv

(* The lock of one agent is taken away from outside, the turns stay. *)
LEMMA LockRemoved ==
  ASSUME IInv, TypeOK', NEW a \in Agents, inFlight' = inFlight,
         locks' = locks \ {a}, orphan' = orphan \cup TurnsOf(a)
  PROVE  IInv'
<1>1. /\ Owners' = {u \in Owners : inFlight[u] # a}
      /\ \A u \in Owners' : inFlight'[u] = inFlight[u]
  BY DEF Owners, ActiveTurns, TurnsOf
<1>2. OwnersHoldTheirLock'
  BY <1>1 DEF IInv, OwnersHoldTheirLock
<1>3. NoStaleLock'
  BY <1>1 DEF IInv, NoStaleLock
<1>4. OneOwnerPerAgent'
  BY <1>1 DEF IInv, OneOwnerPerAgent
<1>5. LocksWithinCap'
  BY FewerLocks
<1>6. QED
  BY <1>2, <1>3, <1>4, <1>5 DEF IInv

(* The scheduler stops: no locks, no owners. *)
LEMMA StopIInv ==
  ASSUME IInv, Stop
  PROVE  IInv'
<1>1. locks' = {} /\ inFlight' = inFlight /\ orphan' = ActiveTurns
  BY DEF Stop
<1>2. Owners' = {}
  BY <1>1 DEF Owners, ActiveTurns
<1>3. TypeOK'
  BY DEF IInv, TypeOK, Stop, ActiveTurns
<1>4. LocksWithinCap'
  BY <1>1, FewerLocks
<1>5. QED
  BY <1>1, <1>2, <1>3, <1>4
  DEF IInv, OwnersHoldTheirLock, NoStaleLock, OneOwnerPerAgent

(* Launching the candidates that fit keeps the locks within the cap. *)
LEMMA BatchFits ==
  ASSUME IInv, NEW batch \in SUBSET Candidates, IsLaunchable(batch),
         NEW working \in SUBSET batch
  PROVE  Cardinality(locks \cup working) <= MaxConcurrent
<1>1. locks \in SUBSET Agents /\ batch \in SUBSET Agents /\ working \in SUBSET Agents
  BY DEF IInv, TypeOK, Candidates
<1>2. /\ Cardinality(locks) \in Nat /\ Cardinality(working) \in Nat
      /\ Cardinality(batch) \in Nat /\ Cardinality(locks \cap working) \in Nat
      /\ MaxConcurrent \in Nat
  BY <1>1, ConstantFacts
<1>3. Cardinality(working) <= SlotsAvailable
  <2>1. Cardinality(working) <= Cardinality(batch)
    BY <1>1, ConstantFacts
  <2>2. Cardinality(batch) <= SlotsAvailable
    BY DEF IsLaunchable
  <2>3. SlotsAvailable \in Int
    BY <1>2 DEF SlotsAvailable
  <2>4. QED
    BY <1>2, <2>1, <2>2, <2>3
<1>4. Cardinality(locks \cup working)
        = Cardinality(locks) + Cardinality(working) - Cardinality(locks \cap working)
  BY <1>1, ConstantFacts, FS_Union
<1>5. Cardinality(locks) <= MaxConcurrent
  BY DEF IInv, LocksWithinCap
<1>6. Cardinality(locks) + SlotsAvailable <= MaxConcurrent
  BY <1>2, <1>5 DEF SlotsAvailable
<1>7. SlotsAvailable \in Int
  BY <1>2 DEF SlotsAvailable
<1>8. QED
  BY <1>2, <1>3, <1>4, <1>6, <1>7

(* A cycle: the new turns are of distinct agents that had no lock, so they *)
(* own the locks they take and share them with no earlier owner.           *)
LEMMA ProcessingCycleIInv ==
  ASSUME IInv, ProcessingCycle
  PROVE  IInv'
<1>1. PICK batch \in SUBSET Candidates :
        /\ IsLaunchable(batch)
        /\ lastLaunched' = batch
        /\ \E working \in SUBSET batch, fresh \in SUBSET (Turns \ ActiveTurns) :
             \E start \in Bijection(fresh, working) :
               /\ locks' = locks \cup working
               /\ inFlight' = [t \in Turns |->
                                 IF t \in fresh THEN start[t] ELSE inFlight[t]]
  BY DEF ProcessingCycle
<1>2. PICK working \in SUBSET batch, fresh \in SUBSET (Turns \ ActiveTurns) :
        \E start \in Bijection(fresh, working) :
          /\ locks' = locks \cup working
          /\ inFlight' = [t \in Turns |->
                            IF t \in fresh THEN start[t] ELSE inFlight[t]]
  BY <1>1
<1>3. PICK start \in Bijection(fresh, working) :
        /\ locks' = locks \cup working
        /\ inFlight' = [t \in Turns |->
                          IF t \in fresh THEN start[t] ELSE inFlight[t]]
  BY <1>2
<1>4. orphan' = orphan /\ UNCHANGED <<isRunning, pool, due, deleted>>
  BY DEF ProcessingCycle
<1>5. /\ start \in [fresh -> working]
      /\ \A t, u \in fresh : start[t] = start[u] => t = u
      /\ \A a \in working : \E t \in fresh : start[t] = a
  BY DEF Bijection, Injection, Surjection, IsInjective
<1>6. batch \subseteq Agents /\ working \subseteq Agents /\ working \cap locks = {}
  BY DEF Candidates, IInv, TypeOK
<1>7. fresh \cap ActiveTurns = {} /\ orphan \subseteq ActiveTurns
  BY DEF IInv, TypeOK
<1>8. NoAgent \notin working
  BY <1>6, ConstantFacts
<1>9. inFlight \in [Turns -> Agents \cup {NoAgent}] /\ fresh \subseteq Turns
  BY DEF IInv, TypeOK
<1>10. \A t \in Turns : inFlight'[t] = IF t \in fresh THEN start[t] ELSE inFlight[t]
  BY <1>3
<1>11. ActiveTurns' = ActiveTurns \cup fresh
  BY <1>5, <1>8, <1>9, <1>10 DEF ActiveTurns
<1>12. Owners' = Owners \cup fresh /\ fresh \cap Owners = {} /\ Owners \subseteq Turns
  BY <1>4, <1>7, <1>11, <1>9 DEF Owners, ActiveTurns
<1>13. /\ \A t \in fresh : inFlight'[t] = start[t] /\ start[t] \in working
       /\ \A t \in Owners : inFlight'[t] = inFlight[t] /\ inFlight[t] \in locks
  BY <1>5, <1>9, <1>10, <1>12 DEF IInv, OwnersHoldTheirLock
<1>14. TypeOK'
  <2>1. inFlight' \in [Turns -> Agents \cup {NoAgent}]
    BY <1>3, <1>5, <1>6, <1>9
  <2>2. locks' \in SUBSET Agents /\ lastLaunched' \in SUBSET Agents
    BY <1>1, <1>3, <1>6 DEF IInv, TypeOK
  <2>3. orphan' \in SUBSET ActiveTurns'
    BY <1>4, <1>7, <1>11
  <2>4. QED
    BY <1>4, <2>1, <2>2, <2>3 DEF IInv, TypeOK
<1>15. OwnersHoldTheirLock'
  BY <1>3, <1>12, <1>13 DEF OwnersHoldTheirLock
<1>16. NoStaleLock'
  <2>1. \A a \in working : \E t \in Owners' : inFlight'[t] = a
    BY <1>5, <1>12, <1>13
  <2>2. \A a \in locks : \E t \in Owners' : inFlight'[t] = a
    BY <1>12, <1>13 DEF IInv, NoStaleLock
  <2>3. QED
    BY <1>3, <2>1, <2>2 DEF NoStaleLock
<1>17. OneOwnerPerAgent'
  <2> SUFFICES ASSUME NEW t \in Owners', NEW u \in Owners', inFlight'[t] = inFlight'[u]
               PROVE  t = u
    BY DEF OneOwnerPerAgent
  <2>1. CASE t \in fresh /\ u \in fresh
    BY <1>5, <1>13, <2>1
  <2>2. CASE t \in Owners /\ u \in Owners
    BY <1>13, <2>2 DEF IInv, OneOwnerPerAgent
  <2>3. CASE (t \in fresh /\ u \in Owners) \/ (t \in Owners /\ u \in fresh)
    BY <1>6, <1>13, <2>3
  <2>4. QED
    BY <1>12, <2>1, <2>2, <2>3
<1>18. LocksWithinCap'
  BY <1>1, <1>3, BatchFits DEF LocksWithinCap
<1>19. QED
  BY <1>14, <1>15, <1>16, <1>17, <1>18 DEF IInv
(* No step breaks the invariant. *)
LEMMA NextIInv == IInv /\ [Next]_vars => IInv'
<1> SUFFICES ASSUME IInv, [Next]_vars PROVE IInv'
  OBVIOUS
<1>0. TypeOK
  BY DEF IInv
<1>1. CASE Start
  <2>1. TypeOK'
    BY <1>0, <1>1 DEF Start, TypeOK, ActiveTurns
  <2>2. QED
    BY <1>1, <2>1, LocksUntouched DEF Start
<1>2. CASE Stop
  BY <1>2, StopIInv
<1>3. CASE ProcessingCycle
  BY <1>3, ProcessingCycleIInv
<1>4. ASSUME NEW t \in Turns, FinishTurn(t) PROVE IInv'
  BY <1>4, FinishTurnIInv
<1>5. ASSUME NEW a \in Agents, Load(a) PROVE IInv'
  <2>1. pool' \in Seq(Agents) /\ IsInjective(pool')
    BY <1>0, <1>5, PoolAppend DEF Load
  <2>2. TypeOK'
    BY <1>0, <1>5, <2>1 DEF Load, TypeOK, ActiveTurns
  <2>3. QED
    BY <1>5, <2>2, LocksUntouched DEF Load
<1>6. ASSUME NEW a \in Agents, AddAgent(a) PROVE IInv'
  <2>1. TypeOK'
    BY <1>0, <1>6 DEF AddAgent, TypeOK, ActiveTurns
  <2>2. QED
    BY <1>6, <2>1, LocksUntouched DEF AddAgent
<1>7. ASSUME NEW a \in Agents, Settle(a) PROVE IInv'
  <2>1. TypeOK'
    BY <1>0, <1>7 DEF Settle, TypeOK, ActiveTurns
  <2>2. QED
    BY <1>7, <2>1, LocksUntouched DEF Settle
<1>8. ASSUME NEW a \in Agents, RemoveAgent(a) PROVE IInv'
  <2>0. TurnsOf(a) \subseteq ActiveTurns
    BY ConstantFacts DEF TurnsOf, ActiveTurns
  <2>1. TypeOK'
    BY <1>0, <1>8, <2>0 DEF RemoveAgent, TypeOK, ActiveTurns
  <2>2. QED
    BY <1>8, <2>1, LockRemoved DEF RemoveAgent
<1>9. ASSUME NEW a \in Agents, UnloadAgent(a) PROVE IInv'
  <2>1. pool' \in Seq(Agents) /\ IsInjective(pool')
    BY <1>0, <1>9, PoolRemoved DEF UnloadAgent
  <2>0. TurnsOf(a) \subseteq ActiveTurns
    BY ConstantFacts DEF TurnsOf, ActiveTurns
  <2>2. TypeOK'
    BY <1>0, <1>9, <2>0, <2>1 DEF UnloadAgent, TypeOK, ActiveTurns
  <2>3. QED
    BY <1>9, <2>2, LockRemoved DEF UnloadAgent
<1>10. ASSUME NEW a \in Agents, DeleteAgent(a) PROVE IInv'
  <2>1. pool' \in Seq(Agents) /\ IsInjective(pool')
    BY <1>0, <1>10, PoolRemoved DEF DeleteAgent
  <2>2. TypeOK'
    BY <1>0, <1>10, <2>1 DEF DeleteAgent, TypeOK, ActiveTurns
  <2>3. QED
    BY <1>10, <2>2, LocksUntouched DEF DeleteAgent
<1>11. CASE UNCHANGED vars
  <2>1. TypeOK'
    BY <1>0, <1>11 DEF vars, TypeOK, ActiveTurns
  <2>2. QED
    BY <1>11, <2>1, LocksUntouched DEF vars
<1>12. QED
  BY <1>1, <1>2, <1>3, <1>4, <1>5, <1>6, <1>7, <1>8, <1>9, <1>10, <1>11 DEF Next

(* The turns that own a lock are at most as many as the locks. *)
LEMMA OwnersCounted == IInv => OwnersWithinCap
<1> SUFFICES ASSUME IInv PROVE OwnersWithinCap
  OBVIOUS
<1>1. locks \in SUBSET Agents /\ IsFiniteSet(locks)
  BY ConstantFacts DEF IInv, TypeOK
<1> DEFINE owned == [t \in Owners |-> inFlight[t]]
<1>2. owned \in Injection(Owners, locks)
  BY DEF IInv, OwnersHoldTheirLock, OneOwnerPerAgent, Injection, IsInjective
<1> HIDE DEF owned
<1>3. IsFiniteSet(Owners) /\ Cardinality(Owners) <= Cardinality(locks)
  BY <1>1, <1>2, FS_Injection
<1>4. /\ Cardinality(Owners) \in Nat /\ Cardinality(locks) \in Nat
      /\ MaxConcurrent \in Nat
  BY <1>1, <1>3, FS_CardinalityType, ConstantFacts
<1>5. QED
  BY <1>3, <1>4 DEF IInv, LocksWithinCap, OwnersWithinCap
-----------------------------------------------------------------------------
(* Every reachable state satisfies the inductive invariant: owners have    *)
(* their lock, locks have their owner, and there are at most MaxConcurrent *)
(* of them, whatever is stopped, unloaded or deleted in mid-turn.          *)
THEOREM InvariantHolds == Spec => []IInv
BY InitIInv, NextIInv, PTL DEF Spec

(* The scheduler's structures keep their types. *)
THEOREM TypesHold == Spec => []TypeOK
<1>1. IInv => TypeOK
  BY DEF IInv
<1>2. QED
  BY <1>1, InvariantHolds, PTL

(* No two turns of one agent hold its lock at once. *)
THEOREM OneOwner == Spec => []OneOwnerPerAgent
<1>1. IInv => OneOwnerPerAgent
  BY DEF IInv
<1>2. QED
  BY <1>1, InvariantHolds, PTL

(* No early return, stop, unload or deletion leaves a lock that no turn    *)
(* will give back.                                                         *)
THEOREM NoLockIsStale == Spec => []NoStaleLock
<1>1. IInv => NoStaleLock
  BY DEF IInv
<1>2. QED
  BY <1>1, InvariantHolds, PTL

(* The turns that hold their lock never exceed MAX_CONCURRENT_AGENTS. *)
THEOREM CapHolds == Spec => []OwnersWithinCap
BY OwnersCounted, InvariantHolds, PTL
-----------------------------------------------------------------------------
Running == {inFlight[t] : t \in Owners}

(* The turns that own a lock are known by the locks. *)
LEMMA RunningIsLocks == IInv => Running = locks
<1> SUFFICES ASSUME IInv PROVE Running = locks
  OBVIOUS
<1>1. \A t \in Owners : inFlight[t] \in locks
  BY DEF IInv, OwnersHoldTheirLock
<1>2. \A a \in locks : \E t \in Owners : inFlight[t] = a
  BY DEF IInv, NoStaleLock
<1>3. QED
  BY <1>1, <1>2 DEF Running

(* One step of the scheduler is a step of the pool of turns, or none.      *)
LEMMA StepRefinesPool ==
  ASSUME IInv, IInv', [Next]_vars
  PROVE  [Pool!Next]_Running
<1>1. Running = locks
  BY RunningIsLocks
<1>2. Running' = locks'
  BY DEF Running, NoStaleLock, OwnersHoldTheirLock, IInv
<1>3. /\ locks \in SUBSET Agents /\ locks' \in SUBSET Agents
      /\ Cardinality(locks') <= MaxConcurrent
  BY DEF IInv, TypeOK, LocksWithinCap
<1>4. CASE ProcessingCycle
  <2>1. PICK working \in SUBSET Candidates : locks' = locks \cup working
    BY <1>4 DEF ProcessingCycle
  <2>2. working \in SUBSET Agents /\ working \cap locks = {}
    BY <2>1 DEF Candidates, IInv, TypeOK
  <2>3. Pool!Begin(working)
    BY <1>1, <1>2, <1>3, <2>1, <2>2 DEF Pool!Begin, Running, Pool!Cardinality, Cardinality
  <2>4. QED
    BY <2>2, <2>3 DEF Pool!Next
<1>5. ASSUME locks' \subseteq locks PROVE Pool!Next
  <2>1. PICK batch \in SUBSET Agents : batch \subseteq locks /\ locks' = locks \ batch
    <3>1. /\ locks \ locks' \in SUBSET Agents
          /\ locks \ locks' \subseteq locks /\ locks' = locks \ (locks \ locks')
      BY <1>3, <1>5
    <3>2. QED
      BY <3>1
  <2>2. Pool!End(batch)
    BY <1>1, <1>2, <2>1 DEF Pool!End, Running
  <2>3. QED
    BY <2>2 DEF Pool!Next
<1>6. CASE Start \/ Stop \/ UNCHANGED vars
  BY <1>5, <1>6 DEF Start, Stop, vars
<1>7. ASSUME NEW t \in Turns, FinishTurn(t) PROVE Pool!Next
  BY <1>5, <1>7 DEF FinishTurn
<1>8. ASSUME NEW a \in Agents,
             \/ Load(a) \/ AddAgent(a) \/ Settle(a)
             \/ RemoveAgent(a) \/ UnloadAgent(a) \/ DeleteAgent(a)
      PROVE  Pool!Next
  BY <1>5, <1>8 DEF Load, AddAgent, Settle, RemoveAgent, UnloadAgent, DeleteAgent
<1>9. QED
  BY <1>4, <1>6, <1>7, <1>8 DEF Next

(* The safety half of PoolSpec: whatever users stop, unload or delete, the *)
(* turns that hold their lock are a pool of at most MAX_CONCURRENT_AGENTS  *)
(* turns, one per agent.                                                   *)
THEOREM RefinesPool == Spec => Pool!Init /\ [][Pool!Next]_Running
<1>1. Init => Pool!Init
  BY DEF Init, Pool!Init, ActiveTurns, Owners
<1>2. IInv /\ IInv' /\ [Next]_vars => [Pool!Next]_Running
  BY StepRefinesPool
<1>3. QED
  BY <1>1, <1>2, InvariantHolds, PTL DEF Spec

(* Only a turn whose lock was taken away from outside can overlap with     *)
(* another turn of its agent, or be one too many.                          *)
THEOREM OnlyOrphansOverlap ==
  Spec => [](orphan = {} => NoOverlap /\ InFlightWithinCap)
<1>1. ASSUME IInv, OwnersWithinCap, orphan = {}
      PROVE  NoOverlap /\ InFlightWithinCap
  <2>1. Owners = ActiveTurns
    BY <1>1 DEF Owners
  <2>2. QED
    BY <1>1, <2>1 DEF IInv, OneOwnerPerAgent, OwnersWithinCap, NoOverlap, InFlightWithinCap
<1>2. QED
  BY <1>1, InvariantHolds, CapHolds, PTL
=============================================================================
