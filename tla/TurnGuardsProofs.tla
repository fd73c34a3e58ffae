-------------------------- MODULE TurnGuardsProofs --------------------------
(***************************************************************************)
(* Proofs about TurnGuards, for every set of answers, every script and     *)
(* every threshold: the types, and that the loop detector only fires on an *)
(* output that was given again and again.                                  *)
(***************************************************************************)
EXTENDS TurnGuards, FiniteSetTheorems, SequenceTheorems, TLAPS

(* How often a window holds a state. *)
Count(s, t) == Cardinality({i \in DOMAIN s : s[i] = t})

LEMMA CountIsNat ==
  ASSUME NEW S, NEW s \in Seq(S), NEW t
  PROVE  /\ IsFiniteSet({i \in DOMAIN s : s[i] = t})
         /\ Count(s, t) \in Nat
<1>1. IsFiniteSet(1..Len(s))
  BY FS_Interval
<1>2. {i \in DOMAIN s : s[i] = t} \in SUBSET (1..Len(s))
  OBVIOUS
<1>3. IsFiniteSet({i \in DOMAIN s : s[i] = t})
  BY <1>1, <1>2, FS_Subset
<1>4. QED
  BY <1>3, FS_CardinalityType DEF Count

(* One more state adds at most itself. *)
LEMMA CountAppend ==
  ASSUME NEW S, NEW s \in Seq(S), NEW x \in S, NEW t
  PROVE  Count(Append(s, x), t) <= Count(s, t) + (IF x = t THEN 1 ELSE 0)
<1> DEFINE old == {i \in DOMAIN s : s[i] = t}
           new == {i \in DOMAIN Append(s, x) : Append(s, x)[i] = t}
<1>1. IsFiniteSet(old) /\ Cardinality(old) \in Nat
  BY CountIsNat DEF Count
<1>a. Count(s, t) = Cardinality(old) /\ Count(Append(s, x), t) = Cardinality(new)
  BY DEF Count
<1>2. CASE x = t
  <2>1. new = old \cup {Len(s) + 1}
    BY <1>2, AppendProperties
  <2>2. Len(s) + 1 \notin old
    OBVIOUS
  <2>3. Cardinality(new) = Cardinality(old) + 1
    BY <1>1, <2>1, <2>2, FS_AddElement
  <2> HIDE DEF old, new
  <2>4. QED
    BY <1>1, <1>2, <1>a, <2>3
<1>3. CASE x # t
  <2>1. new = old
    BY <1>3, AppendProperties
  <2> HIDE DEF old, new
  <2>2. QED
    BY <1>1, <1>3, <1>a, <2>1
<1>4. QED
  BY <1>2, <1>3

(* The window of the last states holds no more of one than all of them. *)
LEMMA LastOfIsSeq ==
  ASSUME NEW S, NEW s \in Seq(S), NEW n \in Nat
  PROVE  /\ LastOf(s, n) \in Seq(S)
         /\ Len(LastOf(s, n)) = Least(Len(s), n)
         /\ \A i \in 1..Len(LastOf(s, n)) :
              LastOf(s, n)[i] = s[Len(s) - Len(LastOf(s, n)) + i]
<1>1. CASE Len(s) <= n
  BY <1>1 DEF LastOf, Least
<1>2. CASE Len(s) > n
  <2> DEFINE m == Len(s) - n + 1
  <2>1. m \in Int /\ Len(s) \in Int /\ \A i \in m..Len(s) : s[i] \in S
    BY <1>2
  <2>2. LastOf(s, n) = SubSeq(s, m, Len(s))
    BY <1>2 DEF LastOf
  <2>3. /\ SubSeq(s, m, Len(s)) \in Seq(S)
        /\ Len(SubSeq(s, m, Len(s))) = n
        /\ \A i \in 1..n : SubSeq(s, m, Len(s))[i] = s[m + i - 1]
    BY <1>2, <2>1, SubSeqProperties
  <2>4. \A i \in 1..n : m + i - 1 = Len(s) - n + i
    OBVIOUS
  <2>5. QED
    BY <1>2, <2>2, <2>3, <2>4 DEF Least
<1>3. QED
  BY <1>1, <1>2

LEMMA CountLastOf ==
  ASSUME NEW S, NEW s \in Seq(S), NEW n \in Nat, NEW t
  PROVE  Count(LastOf(s, n), t) <= Count(s, t)
<1> DEFINE w == LastOf(s, n)
           k == Len(s) - Len(w)
           inside == {i \in DOMAIN w : w[i] = t}
           all == {i \in DOMAIN s : s[i] = t}
           f == [i \in inside |-> k + i]
<1>1. /\ w \in Seq(S) /\ Len(w) \in Nat /\ Len(w) <= Len(s)
      /\ \A i \in 1..Len(w) : w[i] = s[k + i]
  BY LastOfIsSeq DEF Least
<1> HIDE DEF w
<1>2. k \in Nat
  BY <1>1
<1>3. \A i \in inside : k + i \in all
  BY <1>1, <1>2
<1>4. \A i, j \in inside : k + i = k + j => i = j
  BY <1>1, <1>2
<1>5. f \in Injection(inside, all)
  BY <1>3, <1>4 DEF Injection, IsInjective
<1>6. IsFiniteSet(all)
  BY CountIsNat
<1>7. QED
  BY <1>5, <1>6, FS_Injection DEF Count, w
-----------------------------------------------------------------------------
LEMMA ConstantFacts ==
  /\ Window \in Nat /\ Threshold \in Nat /\ NoToolThreshold \in Nat /\ EmptyThreshold \in Nat
  /\ MaxRunning \in Nat /\ MaxFree \in Nat
  /\ Window >= 1 /\ Threshold >= 1 /\ NoToolThreshold >= 1 /\ EmptyThreshold >= 1
BY BoundAssumption

(* What every reset leaves behind is of the types. *)
LEMMA ForgottenTypes ==
  ASSUME Forgotten
  PROVE  /\ history' \in Seq(Seq(Answers)) /\ Len(history') <= 2 * Window
         /\ noTool' \in 0..NoToolThreshold
         /\ empties' \in [count : 0..EmptyThreshold, elapsed : BOOLEAN]
         /\ said' \in [Answers -> 0..Threshold]
BY ConstantFacts DEF Forgotten, None

(* The script goes on, or starts again. *)
LEMMA SaysTypes ==
  ASSUME TypeOK, NEW c \in Answers, Says(c), UNCHANGED stuck
  PROVE  /\ free' \in 0..MaxFree /\ script' \in Seq(Answers) /\ stuck' \in Seq(Answers)
         /\ (script' = << >>) = (stuck' = << >>)
<1> USE ConstantFacts DEF TypeOK, Says
<1>1. CASE stuck = << >>
  BY <1>1
<1>2. CASE stuck # << >> /\ Len(script) = 1
  BY <1>2
<1>3. CASE stuck # << >> /\ Len(script) # 1
  <2>1. script # << >> /\ script' = Tail(script) /\ UNCHANGED free
    BY <1>3
  <2>2. Tail(script) \in Seq(Answers) /\ Len(Tail(script)) = Len(script) - 1
    BY <2>1, HeadTailProperties
  <2>3. Len(Tail(script)) # 0
    BY <1>3, <2>1, <2>2
  <2>4. Tail(script) # << >>
    BY <2>3, EmptySeq, Zenon
  <2>5. QED
    BY <1>3, <2>1, <2>2, <2>4
<1>4. QED
  BY <1>1, <1>2, <1>3

(* Appending keeps the last three answers. *)
LEMMA AppendTypes ==
  ASSUME TypeOK, NEW c \in Answers, AppendAnswer(c)
  PROVE  /\ tail' \in Seq(Answers) /\ Len(tail') <= 3
         /\ said' \in [Answers -> 0..Threshold]
         /\ KindOf[c] # "empty" => tail' # << >> /\ tail'[Len(tail')] = c
<1>1. tail \in Seq(Answers) /\ said \in [Answers -> 0..Threshold]
  BY DEF TypeOK
<1>2. CASE KindOf[c] = "empty"
  BY <1>2 DEF AppendAnswer, TypeOK
<1>3. CASE KindOf[c] # "empty"
  <2> DEFINE more == Append(tail, c)
             last == LastOf(more, 3)
  <2>1. /\ more \in Seq(Answers) /\ Len(more) = Len(tail) + 1 /\ more[Len(tail) + 1] = c
        /\ Len(more) \in Nat /\ Len(more) >= 1
    BY <1>1, AppendProperties
  <2> HIDE DEF more
  <2>2. /\ last \in Seq(Answers)
        /\ Len(last) = Least(Len(more), 3)
        /\ \A i \in 1..Len(last) : last[i] = more[Len(more) - Len(last) + i]
    BY <2>1, LastOfIsSeq
  <2>3. tail' = last /\ said' = [said EXCEPT ![c] = Least(@ + 1, Threshold)]
    BY <1>3 DEF AppendAnswer, more
  <2> HIDE DEF last
  <2>4. Len(last) \in 1..3
    BY <2>1, <2>2 DEF Least
  <2>5. last[Len(last)] = more[Len(more)] /\ last # << >>
    BY <2>1, <2>2, <2>4
  <2>6. Len(more) = Len(tail) + 1
    BY <2>1
  <2>7. said' \in [Answers -> 0..Threshold]
    BY <1>1, <2>3, ConstantFacts DEF Least
  <2>8. QED
    BY <2>1, <2>2, <2>3, <2>4, <2>5, <2>6, <2>7
<1>4. QED
  BY <1>2, <1>3

LEMMA RecordedTypes ==
  ASSUME TypeOK, NEW c \in Answers
  PROVE  Recorded(c) \in Seq(Seq(Answers)) /\ Len(Recorded(c)) <= 2 * Window
<1>1. /\ history \in Seq(Seq(Answers)) /\ Len(history) <= 2 * Window
      /\ Append(history, tail) \in Seq(Seq(Answers))
  BY DEF TypeOK
<1>a. 2 * Window \in Nat
  BY ConstantFacts
<1>2. /\ LastOf(Append(history, tail), 2 * Window) \in Seq(Seq(Answers))
      /\ Len(LastOf(Append(history, tail), 2 * Window))
           = Least(Len(Append(history, tail)), 2 * Window)
  BY <1>1, <1>a, LastOfIsSeq
<1>3. Len(LastOf(Append(history, tail), 2 * Window)) <= 2 * Window
  BY <1>1, <1>a, <1>2 DEF Least
<1>4. QED
  BY <1>1, <1>2, <1>3 DEF Recorded
-----------------------------------------------------------------------------
(* The types are kept by every action. *)
LEMMA NextTypes == TypeOK /\ [Next]_vars => TypeOK'
<1> SUFFICES ASSUME TypeOK, [Next]_vars PROVE TypeOK'
  OBVIOUS
<1>1. CASE LoopDetected
  BY <1>1, ForgottenTypes DEF TypeOK, LoopDetected
<1>2. CASE Ask
  BY <1>2 DEF TypeOK, Ask
<1>3. ASSUME NEW c \in Answers, Answer(c) PROVE TypeOK'
  <2>1. /\ free' \in 0..MaxFree /\ script' \in Seq(Answers) /\ stuck' \in Seq(Answers)
        /\ (script' = << >>) = (stuck' = << >>)
    BY <1>3, SaysTypes DEF Answer
  <2>2. tail' \in Seq(Answers) /\ Len(tail') <= 3 /\ said' \in [Answers -> 0..Threshold]
    BY <1>3, AppendTypes DEF Answer
  <2>3. history' \in Seq(Seq(Answers)) /\ Len(history') <= 2 * Window
    BY <1>3, RecordedTypes DEF Answer
  <2>4. running' \in 0..MaxRunning
    <3>1. running \in 0..MaxRunning /\ MaxRunning \in Nat
      BY ConstantFacts DEF TypeOK
    <3>2. running' = running \/ (running < MaxRunning /\ running' = running + 1)
      BY <1>3 DEF Answer, RunTool
    <3>3. QED
      BY <3>1, <3>2
  <2>5. noTool' \in 0..NoToolThreshold /\ results' \in BOOLEAN
    <3>1. CountNoTool(c) /\ Remind(c) /\ noTool \in 0..NoToolThreshold
      BY <1>3 DEF TypeOK, Answer
    <3>2. Least(noTool + 1, NoToolThreshold) \in 0..NoToolThreshold
      BY <3>1, ConstantFacts DEF Least
    <3>3. noTool' \in 0..NoToolThreshold
      BY <3>1, <3>2 DEF CountNoTool
    <3>4. results \in BOOLEAN
      BY DEF TypeOK
    <3>5. results' \in BOOLEAN
      BY <3>1, <3>4, Zenon DEF Remind
    <3>6. QED
      BY <3>3, <3>5
  <2>6. empties' \in [count : 0..EmptyThreshold, elapsed : BOOLEAN]
    <3>1. /\ empties \in [count : 0..EmptyThreshold, elapsed : BOOLEAN]
          /\ \/ empties' = [empties EXCEPT !.count = Least(@ + 1, EmptyThreshold)]
             \/ empties' = None
      BY <1>3 DEF TypeOK, Answer
    <3>2. Least(empties.count + 1, EmptyThreshold) \in 0..EmptyThreshold
      BY <3>1, ConstantFacts DEF Least
    <3>3. None \in [count : 0..EmptyThreshold, elapsed : BOOLEAN]
      BY ConstantFacts DEF None
    <3>4. QED
      BY <3>1, <3>2, <3>3
  <2>7. /\ mode' \in {"chat", "agent"} /\ {messages', asking'} \subseteq BOOLEAN
        /\ fresh' \in BOOLEAN
    BY <1>3 DEF TypeOK, Answer
  <2>8. QED
    BY <2>1, <2>2, <2>3, <2>4, <2>5, <2>6, <2>7 DEF TypeOK
<1>4. ASSUME NEW c \in Answers, StallingAnswer(c) PROVE TypeOK'
  <2>1. /\ free' \in 0..MaxFree /\ script' \in Seq(Answers) /\ stuck' \in Seq(Answers)
        /\ (script' = << >>) = (stuck' = << >>)
    BY <1>4, SaysTypes DEF StallingAnswer
  <2>2. Forgotten
    BY <1>4 DEF StallingAnswer
  <2>3. /\ mode' \in {"chat", "agent"} /\ {messages', results', asking'} \subseteq BOOLEAN
        /\ running' \in 0..MaxRunning /\ tail' \in Seq(Answers) /\ Len(tail') <= 3
        /\ fresh' \in BOOLEAN
    BY <1>4 DEF TypeOK, StallingAnswer, Remind
  <2>4. QED
    BY <2>1, <2>2, <2>3, ForgottenTypes DEF TypeOK
<1>5. CASE ToolReports
  BY <1>5, ConstantFacts DEF TypeOK, ToolReports
<1>6. CASE ClockPasses
  BY <1>6 DEF TypeOK, ClockPasses
<1>7. CASE AddUserMessage
  BY <1>7 DEF TypeOK, AddUserMessage
<1>8. CASE SetAgentMode
  BY <1>8 DEF TypeOK, SetAgentMode
<1>9. ASSUME NEW s \in Scripts, GetsStuck(s) PROVE TypeOK'
  <2>1. s \in Seq(Answers) /\ s # << >>
    BY ScriptAssumption
  <2>2. QED
    BY <1>9, <2>1 DEF TypeOK, GetsStuck
<1>10. CASE UNCHANGED vars
  BY <1>10 DEF TypeOK, vars
<1>11. QED
  BY <1>1, <1>2, <1>3, <1>4, <1>5, <1>6, <1>7, <1>8, <1>9, <1>10 DEF Next

LEMMA InitTypes == Init => TypeOK
<1> SUFFICES ASSUME Init PROVE TypeOK
  OBVIOUS
<1>1. /\ tail \in Seq(Answers) /\ Len(tail) <= 3
      /\ history \in Seq(Seq(Answers)) /\ Len(history) <= 2 * Window
      /\ script \in Seq(Answers) /\ stuck \in Seq(Answers)
  BY ConstantFacts, EmptySeq DEF Init
<1>2. empties \in [count : 0..EmptyThreshold, elapsed : BOOLEAN]
  BY ConstantFacts DEF Init, None
<1>3. said \in [Answers -> 0..Threshold] /\ noTool \in 0..NoToolThreshold
  BY ConstantFacts DEF Init
<1>4. free \in 0..MaxFree /\ running \in 0..MaxRunning
  BY ConstantFacts DEF Init
<1>5. /\ (script = << >>) = (stuck = << >>) /\ mode \in {"chat", "agent"}
      /\ {messages, results, asking} \subseteq BOOLEAN /\ fresh \in BOOLEAN
  BY DEF Init
<1>6. QED
  BY <1>1, <1>2, <1>3, <1>4, <1>5, Zenon DEF TypeOK

(* Type correctness of the guards' bookkeeping, its bounds included: the   *)
(* window of state hashes, the reminder's counter and the ring of empty    *)
(* answers never grow past what agentScheduler.js keeps.                   *)
THEOREM TypesHold == Spec => []TypeOK
<1>1. QED
  BY InitTypes, NextTypes, PTL DEF Spec
-----------------------------------------------------------------------------
(* The inductive strengthening of LoopsAreRepetitions: how often a state   *)
(* is held, and is the present one, is at most once more than its last     *)
(* answer was given since the counters were forgotten.                     *)
Pending(t) == IF tail = t THEN 1 ELSE 0
HeldAsOftenAsSaid ==
  \A t \in Seq(Answers) :
    IF t = << >> THEN Count(history, t) + Pending(t) <= 1
    ELSE \/ said[t[Len(t)]] = Threshold
         \/ Count(history, t) + Pending(t) <= said[t[Len(t)]] + 1

LEMMA CountEmpty == ASSUME NEW t PROVE Count(<< >>, t) = 0
<1>1. {i \in DOMAIN << >> : << >>[i] = t} = {}
  OBVIOUS
<1>2. QED
  BY <1>1, FS_EmptySet DEF Count

LEMMA LastAnswer ==
  ASSUME NEW t \in Seq(Answers), t # << >>
  PROVE  t[Len(t)] \in Answers
<1>1. Len(t) \in Nat /\ Len(t) >= 1
  BY EmptySeq
<1>2. QED
  BY <1>1, ElementOfSeq

LEMMA ForgottenHeld ==
  ASSUME TypeOK, Forgotten
  PROVE  HeldAsOftenAsSaid'
<1> SUFFICES ASSUME NEW t \in Seq(Answers)
             PROVE  IF t = << >> THEN Count(history', t) + Pending(t)' <= 1
                    ELSE \/ said'[t[Len(t)]] = Threshold
                         \/ Count(history', t) + Pending(t)' <= said'[t[Len(t)]] + 1
  BY DEF HeldAsOftenAsSaid
<1>1. Count(history', t) = 0
  BY CountEmpty DEF Forgotten
<1>2. Pending(t)' \in {0, 1}
  BY DEF Pending
<1>3. t # << >> => said'[t[Len(t)]] = 0
  BY LastAnswer DEF Forgotten
<1>4. QED
  BY <1>1, <1>2, <1>3

LEMMA AnswerHeld ==
  ASSUME TypeOK, HeldAsOftenAsSaid, NEW c \in Answers, Answer(c)
  PROVE  HeldAsOftenAsSaid'
<1>1. CASE KindOf[c] = "empty"
  <2>1. UNCHANGED <<history, tail, said>>
    BY <1>1 DEF Answer, AppendAnswer, Recorded
  <2>2. QED
    BY <2>1 DEF HeldAsOftenAsSaid, Pending
<1>2. CASE KindOf[c] # "empty"
  <2> SUFFICES ASSUME NEW t \in Seq(Answers)
               PROVE  IF t = << >> THEN Count(history', t) + Pending(t)' <= 1
                      ELSE \/ said'[t[Len(t)]] = Threshold
                           \/ Count(history', t) + Pending(t)' <= said'[t[Len(t)]] + 1
    BY DEF HeldAsOftenAsSaid
  <2> DEFINE more == Append(history, tail)
  <2>1. /\ history \in Seq(Seq(Answers)) /\ tail \in Seq(Answers)
        /\ said \in [Answers -> 0..Threshold]
        /\ more \in Seq(Seq(Answers)) /\ 2 * Window \in Nat
    BY ConstantFacts DEF TypeOK
  <2>2. history' = LastOf(more, 2 * Window)
    BY <1>2 DEF Answer, Recorded
  <2>3. Count(history', t) <= Count(more, t)
    BY <2>1, <2>2, CountLastOf
  <2>4. Count(more, t) <= Count(history, t) + Pending(t)
    BY <2>1, CountAppend DEF Pending
  <2>5. Count(more, t) \in Nat /\ Count(history, t) \in Nat /\ Count(history', t) \in Nat
    <3>1. history' \in Seq(Seq(Answers))
      BY RecordedTypes DEF Answer
    <3>2. QED
      BY <2>1, <3>1, CountIsNat
  <2> HIDE DEF more
  <2>6. tail' # << >> /\ tail'[Len(tail')] = c
    BY <1>2, AppendTypes DEF Answer
  <2>7. said' = [said EXCEPT ![c] = Least(@ + 1, Threshold)]
    BY <1>2 DEF Answer, AppendAnswer
  <2>8. CASE t = << >>
    <3>1. Count(history, t) + Pending(t) <= 1
      BY <2>8 DEF HeldAsOftenAsSaid
    <3>2. Pending(t)' = 0 /\ Pending(t) \in {0, 1}
      BY <2>6, <2>8 DEF Pending
    <3>3. QED
      BY <2>3, <2>4, <2>5, <2>8, <3>1, <3>2
  <2>9. CASE t # << >>
    <3> DEFINE a == t[Len(t)]
    <3>1. a \in Answers /\ said[a] \in 0..Threshold
      BY <2>1, <2>9, LastAnswer
    <3>2. \/ said[a] = Threshold
          \/ Count(history, t) + Pending(t) <= said[a] + 1
      BY <2>9 DEF HeldAsOftenAsSaid
    <3>3. said'[a] = IF a = c THEN Least(said[a] + 1, Threshold) ELSE said[a]
      BY <2>1, <2>7, <3>1
    <3>4. tail' = t => a = c
      BY <2>6
    <3> HIDE DEF a
    <3>5. CASE said'[a] = Threshold
      BY <2>9, <3>5 DEF a
    <3>6. CASE said'[a] # Threshold
      <4>1. said[a] # Threshold
        BY <3>1, <3>3, <3>6, ConstantFacts DEF Least
      <4>2. Count(history', t) <= said[a] + 1
        BY <2>3, <2>4, <2>5, <3>1, <3>2, <4>1, ConstantFacts DEF Pending
      <4>3. CASE a = c
        BY <2>5, <2>9, <3>1, <3>3, <3>6, <4>2, <4>3, ConstantFacts DEF Least, Pending, a
      <4>4. CASE a # c
        BY <2>5, <2>9, <3>1, <3>3, <3>4, <4>2, <4>4, ConstantFacts DEF Pending, a
      <4>5. QED
        BY <4>3, <4>4
    <3>7. QED
      BY <3>5, <3>6
  <2>10. QED
    BY <2>8, <2>9
<1>3. QED
  BY <1>1, <1>2

LEMMA NextHeld == TypeOK /\ HeldAsOftenAsSaid /\ [Next]_vars => HeldAsOftenAsSaid'
<1> SUFFICES ASSUME TypeOK, HeldAsOftenAsSaid, [Next]_vars PROVE HeldAsOftenAsSaid'
  OBVIOUS
<1>1. CASE LoopDetected
  BY <1>1, ForgottenHeld DEF LoopDetected
<1>2. ASSUME NEW c \in Answers, Answer(c) PROVE HeldAsOftenAsSaid'
  BY <1>2, AnswerHeld
<1>3. ASSUME NEW c \in Answers, StallingAnswer(c) PROVE HeldAsOftenAsSaid'
  BY <1>3, ForgottenHeld DEF StallingAnswer
<1>4. ASSUME UNCHANGED <<history, tail, said>> PROVE HeldAsOftenAsSaid'
  BY <1>4 DEF HeldAsOftenAsSaid, Pending
<1>5. CASE Ask \/ ToolReports \/ ClockPasses \/ AddUserMessage \/ SetAgentMode
  BY <1>4, <1>5 DEF Ask, ToolReports, ClockPasses, AddUserMessage, SetAgentMode
<1>6. ASSUME NEW s \in Scripts, GetsStuck(s) PROVE HeldAsOftenAsSaid'
  BY <1>4, <1>6 DEF GetsStuck
<1>7. CASE UNCHANGED vars
  BY <1>4, <1>7 DEF vars
<1>8. QED
  BY <1>1, <1>2, <1>3, <1>5, <1>6, <1>7 DEF Next

LEMMA InitHeld == Init => HeldAsOftenAsSaid
<1> SUFFICES ASSUME Init, NEW t \in Seq(Answers)
             PROVE  IF t = << >> THEN Count(history, t) + Pending(t) <= 1
                    ELSE \/ said[t[Len(t)]] = Threshold
                         \/ Count(history, t) + Pending(t) <= said[t[Len(t)]] + 1
  BY DEF HeldAsOftenAsSaid
<1>1. Count(history, t) = 0 /\ (t = << >> => Pending(t) = 1) /\ Pending(t) \in {0, 1}
  BY CountEmpty DEF Init, Pending
<1>2. t # << >> => said[t[Len(t)]] = 0
  BY LastAnswer DEF Init
<1>3. QED
  BY <1>1, <1>2

(* When the detector fires, the last answer was given Threshold times. *)
LEMMA DetectedWasSaid ==
  ASSUME TypeOK, HeldAsOftenAsSaid, LoopDetected
  PROVE  \E c \in Answers : said[c] >= Threshold
<1>1. /\ history \in Seq(Seq(Answers)) /\ tail \in Seq(Answers)
      /\ said \in [Answers -> 0..Threshold]
  BY DEF TypeOK
<1>2. Count(LastOf(history, Window), tail) >= Threshold
  BY DEF LoopDetected, IsLoop, Occurrences, Count
<1>3. Count(LastOf(history, Window), tail) <= Count(history, tail)
  BY <1>1, CountLastOf, ConstantFacts
<1>4. Count(history, tail) \in Nat /\ Count(LastOf(history, Window), tail) \in Nat
  BY <1>1, CountIsNat, LastOfIsSeq, ConstantFacts
<1>5. Pending(tail) = 1
  BY DEF Pending
<1>6. tail # << >>
  BY <1>1, <1>2, <1>3, <1>4, <1>5, ConstantFacts DEF HeldAsOftenAsSaid
<1>7. tail[Len(tail)] \in Answers
  BY <1>1, <1>6, LastAnswer
<1>8. \/ said[tail[Len(tail)]] = Threshold
      \/ Count(history, tail) + 1 <= said[tail[Len(tail)]] + 1
  BY <1>1, <1>5, <1>6 DEF HeldAsOftenAsSaid
<1>9. said[tail[Len(tail)]] \in Nat
  BY <1>1, <1>7, ConstantFacts
<1>10. said[tail[Len(tail)]] >= Threshold
  BY <1>2, <1>3, <1>4, <1>8, <1>9, ConstantFacts
<1>11. QED
  BY <1>7, <1>10

(* The loop detector of agentScheduler.js raises no false alarm: it stops  *)
(* an agent only after an answer was given Threshold times since the last  *)
(* stop, whatever is queued, skipped or forgotten in between.              *)
THEOREM NoFalseAlarm == Spec => LoopsAreRepetitions
<1>1. TypeOK /\ HeldAsOftenAsSaid /\ [Next]_vars
        => [LoopDetected => \E c \in Answers : said[c] >= Threshold]_vars
  BY DetectedWasSaid
<1>2. QED
  BY <1>1, InitTypes, InitHeld, NextTypes, NextHeld, PTL DEF Spec, LoopsAreRepetitions
=============================================================================
