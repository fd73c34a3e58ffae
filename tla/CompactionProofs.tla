-------------------------- MODULE CompactionProofs --------------------------
(***************************************************************************)
(* Proofs about Compaction, for every set of models and turns, any bounds, *)
(* and any messages that are oversized or hold nothing but tool results,   *)
(* in this order:                                                          *)
(*   - what the lists are made of: sequences, their parts and their        *)
(*     splitting, and what summaries and fallbacks make of a list          *)
(*     (SplitFacts, Condenses, ResultsFacts);                              *)
(*   - what each step does to the conversations and to the turns           *)
(*     (SyncedFacts, CompactedFacts, TurnStepFacts and the facts of each   *)
(*     kind of step), and the types (TypesHold);                           *)
(*   - that what was cleared is forgotten (ClearsForget);                  *)
(*   - that requests show every message (RequestsShowAll);                 *)
(*   - that they show them once and in order (RequestsAreInOrder).         *)
(***************************************************************************)
EXTENDS Compaction, SequenceTheorems, WellFoundedInduction, TLAPS

(* What a list stands for, and what the parts of its messages are. *)
Content(list) == list.under \o list.tail
Pieces(item) == IF IsOversized(item) THEN {<<item[1], 1>>, <<item[1], 2>>} ELSE {item}
Reach(items) == UNION {Pieces(a) : a \in items}
Whole(items) == \A a \in items : ~IsOversized(a)

(* The order of arrival: of one message only its parts 1 and 2 follow each *)
(* other.                                                                  *)
Before(a, b) == a[1] < b[1] \/ (a[1] = b[1] /\ a[2] = 1 /\ b[2] = 2)
Chain(s) == \A i, j \in DOMAIN s : i < j => Before(s[i], s[j])
Precede(some, others) == \A a \in some, b \in others : Before(a, b)

(* A set with 0 and the successors of its numbers has them all.            *)
LEMMA NumbersInduction ==
  ASSUME NEW S, 0 \in S, \A n \in Nat : n \in S => n + 1 \in S
  PROVE  \A n \in Nat : n \in S
<1> SUFFICES ASSUME Nat \ S # {} PROVE FALSE
  OBVIOUS
<1> DEFINE R == OpToRel(<, Nat)
<1>1. IsWellFoundedOn(R, Nat)
  BY NatLessThanWellFounded
<1>2. \E x \in Nat \ S : \A y \in Nat \ S : <<y, x>> \notin R
  <2> HIDE DEF R
  <2>1. Nat \ S \subseteq Nat
    OBVIOUS
  <2>2. QED
    BY <1>1, <2>1, WFMin
<1>3. PICK x \in Nat \ S : \A y \in Nat \ S : <<y, x>> \notin R
  BY <1>2
<1>4. \A a, b \in Nat : a < b => <<a, b>> \in R
  BY DEF OpToRel
<1>5. x - 1 \in Nat /\ x - 1 < x /\ x - 1 + 1 = x
  OBVIOUS
<1>6. x - 1 \notin Nat \ S
  BY <1>3, <1>4, <1>5
<1>7. QED
  BY <1>5, <1>6

LEMMA UptoInduction ==
  ASSUME NEW n \in Nat, NEW S, 0 \in S, \A k \in 1..n : k - 1 \in S => k \in S
  PROVE  \A k \in 0..n : k \in S
<1> DEFINE T == {k \in Nat : k <= n => k \in S}
<1>1. 0 \in T
  OBVIOUS
<1>2. ASSUME NEW k \in Nat, k \in T PROVE k + 1 \in T
  <2>1. CASE k + 1 \in 1..n
    <3>1. (k + 1) - 1 = k /\ k \in S
      BY <1>2, <2>1
    <3>2. QED
      BY <2>1, <3>1
  <2>2. CASE k + 1 \notin 1..n
    BY <2>2
  <2>3. QED
    BY <2>1, <2>2
<1> HIDE DEF T
<1>3. \A k \in Nat : k \in T
  BY <1>1, <1>2, NumbersInduction
<1>4. QED
  BY <1>3 DEF T

(* A function defined by recursion exists when there are a first value and *)
(* a next one after each.                                                  *)
Follows(g, n, a, F) == g[0] = a /\ \A k \in 1..n : g[k] = F[<<k, g[k - 1]>>]

LEMMA Recursion ==
  ASSUME NEW n \in Nat, NEW A, NEW a \in A, NEW F \in [(1..n) \X A -> A]
  PROVE  \E g \in [0..n -> A] : Follows(g, n, a, F)
<1> DEFINE Good(m, g) == g \in [0..m -> A] /\ g[0] = a /\ \A k \in 1..m : g[k] = F[<<k, g[k - 1]>>]
           S == {m \in 0..n : \E g : Good(m, g)}
<1>1. 0 \in S
  <2> DEFINE g == [k \in 0..0 |-> a]
  <2>1. g \in [0..0 -> A] /\ g[0] = a /\ \A k \in 1..0 : g[k] = F[<<k, g[k - 1]>>]
    OBVIOUS
  <2> HIDE DEF g
  <2>2. \E h : Good(0, h)
    BY <2>1
  <2>3. QED
    BY <2>2
<1>2. ASSUME NEW m \in 1..n, m - 1 \in S PROVE m \in S
  <2>1. PICK g : Good(m - 1, g)
    BY <1>2
  <2> DEFINE h == [k \in 0..m |-> IF k = m THEN F[<<m, g[m - 1]>>] ELSE g[k]]
  <2>2. m - 1 \in 0..(m - 1) /\ g[m - 1] \in A /\ <<m, g[m - 1]>> \in (1..n) \X A
    BY <2>1
  <2>3. h \in [0..m -> A]
    BY <2>1, <2>2
  <2>4. h[0] = a
    BY <2>1
  <2>5. ASSUME NEW k \in 1..m PROVE h[k] = F[<<k, h[k - 1]>>]
    <3>1. k - 1 \in 0..(m - 1) /\ h[k - 1] = g[k - 1]
      OBVIOUS
    <3>2. CASE k = m
      BY <3>1, <3>2
    <3>3. CASE k # m
      BY <2>1, <3>1, <3>3
    <3>4. QED
      BY <3>2, <3>3
  <2> HIDE DEF h
  <2>6. Good(m, h)
    BY <2>3, <2>4, <2>5
  <2>7. QED
    BY <2>6
<1>3. n \in S
  <2> HIDE DEF S
  <2>1. \A k \in 1..n : k - 1 \in S => k \in S
    BY <1>2
  <2>2. QED
    BY <1>1, <2>1, UptoInduction
<1>4. QED
  BY <1>3 DEF Follows
-----------------------------------------------------------------------------
LEMMA SeqFacts ==
  ASSUME NEW s \in Seq(Items)
  PROVE  /\ Len(s) \in Nat /\ DOMAIN s = 1..Len(s) /\ Range(s) \subseteq Items
         /\ Range(s) = {s[i] : i \in 1..Len(s)}
         /\ s = << >> <=> Len(s) = 0
         /\ s = << >> <=> Range(s) = {}
<1>1. Len(s) \in Nat /\ DOMAIN s = 1..Len(s) /\ \A i \in 1..Len(s) : s[i] \in Items
  OBVIOUS
<1>2. s = << >> <=> Len(s) = 0
  BY EmptySeq
<1>3. Range(s) = {s[i] : i \in 1..Len(s)}
  BY <1>1 DEF Range
<1>4. Range(s) = {} <=> Len(s) = 0
  BY <1>1, <1>3
<1>5. QED
  BY <1>1, <1>2, <1>3, <1>4

LEMMA EmptyFacts == Range(<< >>) = {} /\ Chain(<< >>) /\ << >> \in Seq(Items)
BY DEF Range, Chain

LEMMA ConcatFacts ==
  ASSUME NEW s \in Seq(Items), NEW t \in Seq(Items)
  PROVE  /\ s \o t \in Seq(Items) /\ Len(s \o t) = Len(s) + Len(t)
         /\ Range(s \o t) = Range(s) \cup Range(t)
         /\ Chain(s \o t) <=> Chain(s) /\ Chain(t) /\ Precede(Range(s), Range(t))
<1> DEFINE m == Len(s)  n == Len(t)  u == s \o t
<1>1. /\ u \in Seq(Items) /\ Len(u) = m + n /\ m \in Nat /\ n \in Nat
      /\ DOMAIN s = 1..m /\ DOMAIN t = 1..n /\ DOMAIN u = 1..(m + n)
  OBVIOUS
<1>2. /\ \A i \in 1..m : i \in 1..(m + n) /\ u[i] = s[i]
      /\ \A i \in 1..n : m + i \in 1..(m + n) /\ u[m + i] = t[i]
  BY ConcatProperties
<1>3. \A k \in 1..(m + n) : k \in 1..m \/ (k - m \in 1..n /\ k = m + (k - m))
  BY <1>1
<1> HIDE DEF u, m, n
<1>4. Range(u) = Range(s) \cup Range(t)
  <2>1. Range(s) \cup Range(t) \subseteq Range(u)
    BY <1>1, <1>2 DEF Range
  <2>2. ASSUME NEW k \in 1..(m + n) PROVE u[k] \in Range(s) \cup Range(t)
    <3>1. CASE k \in 1..m
      BY <1>1, <1>2, <3>1 DEF Range
    <3>2. CASE k \notin 1..m
      <4>1. k - m \in 1..n /\ u[k] = t[k - m]
        BY <1>2, <1>3, <3>2
      <4>2. QED
        BY <1>1, <4>1 DEF Range
    <3>3. QED
      BY <3>1, <3>2
  <2>3. Range(u) \subseteq Range(s) \cup Range(t)
    BY <1>1, <2>2 DEF Range
  <2>4. QED
    BY <2>1, <2>3
<1>5. ASSUME Chain(u) PROVE Chain(s) /\ Chain(t) /\ Precede(Range(s), Range(t))
  <2>1. Chain(s)
    BY <1>1, <1>2, <1>5 DEF Chain
  <2>2. Chain(t)
    <3>1. \A i, j \in 1..n : i < j => m + i < m + j
      BY <1>1
    <3>2. ASSUME NEW i \in 1..n, NEW j \in 1..n, i < j PROVE Before(t[i], t[j])
      <4>1. m + i \in DOMAIN u /\ m + j \in DOMAIN u /\ m + i < m + j
        BY <1>1, <1>2, <3>1, <3>2
      <4>2. Before(u[m + i], u[m + j])
        BY <1>5, <4>1 DEF Chain
      <4>3. QED
        BY <1>2, <4>2
    <3>3. QED
      BY <1>1, <3>2 DEF Chain
  <2>3. \A i \in 1..m, j \in 1..n : i < m + j
    BY <1>1
  <2>4. ASSUME NEW i \in 1..m, NEW j \in 1..n PROVE Before(s[i], t[j])
    <3>1. i \in DOMAIN u /\ m + j \in DOMAIN u /\ i < m + j
      BY <1>1, <1>2, <2>3
    <3>2. Before(u[i], u[m + j])
      BY <1>5, <3>1 DEF Chain
    <3>3. QED
      BY <1>2, <3>2
  <2>5. Precede(Range(s), Range(t))
    BY <1>1, <2>4 DEF Precede, Range
  <2>6. QED
    BY <2>1, <2>2, <2>5
<1>6. ASSUME Chain(s), Chain(t), Precede(Range(s), Range(t)) PROVE Chain(u)
  <2> SUFFICES ASSUME NEW i \in 1..(m + n), NEW j \in 1..(m + n), i < j
               PROVE  Before(u[i], u[j])
    BY <1>1 DEF Chain
  <2>1. CASE i \in 1..m /\ j \in 1..m
    BY <1>1, <1>2, <1>6, <2>1 DEF Chain
  <2>2. CASE i \in 1..m /\ j \notin 1..m
    <3>1. j - m \in 1..n /\ u[j] = t[j - m] /\ u[i] = s[i]
      BY <1>2, <1>3, <2>2
    <3>2. s[i] \in Range(s) /\ t[j - m] \in Range(t)
      BY <1>1, <2>2, <3>1 DEF Range
    <3>3. QED
      BY <1>6, <3>1, <3>2 DEF Precede
  <2>3. CASE i \notin 1..m
    <3>1. i - m \in 1..n /\ j - m \in 1..n /\ i - m < j - m
      BY <1>1, <2>3
    <3>2. u[i] = t[i - m] /\ u[j] = t[j - m]
      BY <1>1, <1>2, <3>1
    <3>3. QED
      BY <1>1, <1>6, <3>1, <3>2 DEF Chain
  <2>4. QED
    BY <2>1, <2>2, <2>3
<1>7. QED
  BY <1>1, <1>4, <1>5, <1>6 DEF u, m, n

(* A part of a sequence, from a place or to one.                           *)
LEMMA PartFacts ==
  ASSUME NEW s \in Seq(Items), NEW m \in Nat \ {0}, NEW n \in 0..Len(s)
  PROVE  /\ SubSeq(s, m, n) \in Seq(Items)
         /\ Range(SubSeq(s, m, n)) = {s[i] : i \in m..n}
         /\ Range(SubSeq(s, m, n)) \subseteq Range(s)
         /\ Chain(s) => Chain(SubSeq(s, m, n))
         /\ Len(SubSeq(s, m, n)) = IF m <= n THEN n - m + 1 ELSE 0
<1> DEFINE u == SubSeq(s, m, n)  l == IF m <= n THEN n - m + 1 ELSE 0
<1>1. Len(s) \in Nat /\ DOMAIN s = 1..Len(s) /\ \A i \in m..n : i \in DOMAIN s /\ s[i] \in Items
  OBVIOUS
<1>2. /\ u \in Seq(Items) /\ Len(u) = l /\ \A i \in 1..(n - m + 1) : u[i] = s[m + i - 1]
  BY <1>1, SubSeqProperties
<1>3. l \in Nat /\ DOMAIN u = 1..l
  BY <1>1, <1>2
<1>4. /\ \A i \in 1..l : i \in 1..(n - m + 1) /\ m + i - 1 \in m..n
      /\ \A k \in m..n : k - m + 1 \in 1..l /\ m + (k - m + 1) - 1 = k
      /\ \A i, j \in 1..l : i < j => m + i - 1 < m + j - 1
  BY <1>1
<1> HIDE DEF u, l
<1>5. Range(u) = {s[i] : i \in m..n}
  <2>1. ASSUME NEW i \in m..n PROVE s[i] \in Range(u)
    <3>1. i - m + 1 \in 1..l /\ u[i - m + 1] = s[i]
      BY <1>2, <1>4
    <3>2. QED
      BY <1>3, <3>1 DEF Range
  <2>2. ASSUME NEW x \in Range(u) PROVE x \in {s[i] : i \in m..n}
    <3>1. PICK i \in 1..l : x = u[i]
      BY <1>3, <2>2 DEF Range
    <3>2. u[i] = s[m + i - 1] /\ m + i - 1 \in m..n
      BY <1>2, <1>4
    <3>3. QED
      BY <3>1, <3>2
  <2>3. QED
    BY <2>1, <2>2
<1>6. Range(u) \subseteq Range(s)
  BY <1>1, <1>5 DEF Range
<1>7. ASSUME Chain(s) PROVE Chain(u)
  <2> SUFFICES ASSUME NEW i \in 1..l, NEW j \in 1..l, i < j PROVE Before(u[i], u[j])
    BY <1>3 DEF Chain
  <2>1. /\ m + i - 1 \in DOMAIN s /\ m + j - 1 \in DOMAIN s /\ m + i - 1 < m + j - 1
        /\ u[i] = s[m + i - 1] /\ u[j] = s[m + j - 1]
    BY <1>1, <1>2, <1>4
  <2>2. QED
    BY <1>7, <2>1 DEF Chain
<1>8. QED
  BY <1>2, <1>5, <1>6, <1>7 DEF u, l

(* Cut in two, a sequence is the same.                                     *)
LEMMA CutFacts ==
  ASSUME NEW s \in Seq(Items), NEW k \in 0..Len(s)
  PROVE  SubSeq(s, 1, k) \o SubSeq(s, k + 1, Len(s)) = s
<1>1. Len(s) \in Nat /\ 1 \in 1..(Len(s) + 1) /\ k \in (1 - 1)..Len(s) /\ Len(s) \in k..Len(s)
  OBVIOUS
<1>2. SubSeq(s, 1, k) \o SubSeq(s, k + 1, Len(s)) = SubSeq(s, 1, Len(s))
  BY <1>1, ConcatAdjacentSubSeq
<1>3. QED
  BY <1>2, SubSeqFull

(* What each item gives, one after another. *)
Respects(of) ==
  \A a \in Items : Chain(of[a]) /\ \A b \in Items :
    Before(a, b) => Precede(Range(of[a]), Range(of[b]))

LEMMA JoinedFacts ==
  ASSUME NEW items \in Seq(Items), NEW of \in [Items -> Seq(Items)]
  PROVE  /\ Joined(items, of) \in Seq(Items)
         /\ Range(Joined(items, of)) = UNION {Range(of[a]) : a \in Range(items)}
         /\ (\A a \in Items : of[a] # << >>) => Len(items) <= Len(Joined(items, of))
         /\ Respects(of) /\ Chain(items) => Chain(Joined(items, of))
<1> DEFINE n == Len(items)
           Grown(k, t) == t \o of[items[k]]
           Is(g) == g = [k \in 0..n |-> IF k = 0 THEN << >> ELSE g[k - 1] \o of[items[k]]]
           G == CHOOSE g : Is(g)
<1>1. n \in Nat /\ DOMAIN items = 1..n /\ \A k \in 1..n : items[k] \in Items
  OBVIOUS
<1>2. Joined(items, of) = G[n]
  BY DEF Joined
<1>3. \E g : Is(g)
  <2> DEFINE F == [p \in (1..n) \X Seq(Items) |-> Grown(p[1], p[2])]
  <2>1. F \in [(1..n) \X Seq(Items) -> Seq(Items)]
    BY <1>1
  <2>2. << >> \in Seq(Items)
    BY EmptyFacts
  <2> HIDE DEF F, n
  <2>3. PICK g \in [0..n -> Seq(Items)] : Follows(g, n, << >>, F)
    BY <1>1, <2>1, <2>2, Recursion
  <2>4. ASSUME NEW k \in 1..n PROVE g[k] = Grown(k, g[k - 1])
    <3>1. k - 1 \in 0..n /\ <<k, g[k - 1]>> \in (1..n) \X Seq(Items)
      BY <1>1
    <3>2. QED
      BY <2>3, <3>1 DEF F, Follows
  <2> HIDE DEF Grown
  <2>5. \A k \in 0..n : g[k] = IF k = 0 THEN << >> ELSE Grown(k, g[k - 1])
    <3> SUFFICES ASSUME NEW k \in 0..n
                 PROVE  g[k] = IF k = 0 THEN << >> ELSE Grown(k, g[k - 1])
      OBVIOUS
    <3>1. CASE k = 0
      BY <2>3, <3>1 DEF Follows
    <3>2. CASE k # 0
      <4>1. k \in 1..n
        BY <1>1, <3>2
      <4>2. QED
        BY <2>4, <3>2, <4>1
    <3>3. QED
      BY <3>1, <3>2
  <2>6. g = [k \in 0..n |-> IF k = 0 THEN << >> ELSE Grown(k, g[k - 1])]
    BY <2>3, <2>5
  <2>7. QED
    BY <2>6 DEF Grown
<1> HIDE DEF Is
<1>4. Is(G)
  BY <1>3
<1> HIDE DEF G
<1>5. G[0] = << >> /\ \A k \in 1..n : G[k] = Grown(k, G[k - 1])
  <2> HIDE DEF Grown, n
  <2>1. G = [k \in 0..n |-> IF k = 0 THEN << >> ELSE Grown(k, G[k - 1])]
    BY <1>4 DEF Is, Grown
  <2>2. 0 \in 0..n /\ \A k \in 1..n : k \in 0..n /\ k # 0
    BY <1>1
  <2>3. QED
    BY <2>1, <2>2
<1> DEFINE Given(k) == UNION {Range(of[items[i]]) : i \in 1..k}
           Good(k) == /\ G[k] \in Seq(Items) /\ Range(G[k]) = Given(k)
                      /\ (\A a \in Items : of[a] # << >>) => k <= Len(G[k])
                      /\ Respects(of) /\ Chain(items) => Chain(G[k])
           Fine == {k \in 0..n : Good(k)}
<1>6. 0 \in Fine
  <2>1. G[0] = << >> /\ Given(0) = {} /\ Len(<< >>) = 0 /\ 0 \in 0..n
    BY <1>1, <1>5
  <2>2. Good(0)
    <3> HIDE DEF Given
    <3>1. G[0] \in Seq(Items) /\ Range(G[0]) = Given(0) /\ Chain(G[0])
      BY <2>1, EmptyFacts
    <3>2. 0 <= Len(G[0])
      BY <2>1
    <3>3. QED
      BY <3>1, <3>2
  <2>3. QED
    BY <2>1, <2>2
<1>7. ASSUME NEW k \in 1..n, k - 1 \in Fine PROVE k \in Fine
  <2> DEFINE t == G[k - 1]  s == of[items[k]]
  <2>1. Good(k - 1) /\ k - 1 \in 0..n /\ k \in 0..n
    BY <1>1, <1>7
  <2>2. G[k] = t \o s /\ items[k] \in Items /\ t \in Seq(Items) /\ s \in Seq(Items)
    BY <1>1, <1>5, <2>1
  <2>3. Given(k) = Given(k - 1) \cup Range(s)
    <3>1. 1..k = 1..(k - 1) \cup {k}
      BY <1>1
    <3>2. QED
      BY <3>1
  <2>4. /\ G[k] \in Seq(Items) /\ Range(G[k]) = Range(t) \cup Range(s)
        /\ Len(G[k]) = Len(t) + Len(s)
        /\ Chain(G[k]) <=> Chain(t) /\ Chain(s) /\ Precede(Range(t), Range(s))
    BY <2>2, ConcatFacts
  <2>5. ASSUME \A a \in Items : of[a] # << >> PROVE k <= Len(G[k])
    <3>1. k - 1 <= Len(t)
      BY <2>1, <2>5
    <3>2. Len(s) \in Nat /\ Len(s) # 0 /\ Len(t) \in Nat
      BY <2>2, <2>5, SeqFacts
    <3>3. \A x, y \in Nat : k - 1 <= x /\ y # 0 => k <= x + y
      BY <1>1
    <3>4. QED
      BY <2>4, <3>1, <3>2, <3>3
  <2>6. ASSUME Respects(of), Chain(items) PROVE Chain(G[k])
    <3>1. Chain(t) /\ Chain(s)
      BY <2>1, <2>2, <2>6 DEF Respects
    <3>2. ASSUME NEW i \in 1..(k - 1) PROVE Precede(Range(of[items[i]]), Range(s))
      <4>1. i \in 1..n /\ i < k
        BY <1>1
      <4>2. Before(items[i], items[k])
        BY <1>1, <2>6, <4>1 DEF Chain
      <4>3. QED
        BY <1>1, <2>6, <4>1, <4>2 DEF Respects
    <3>3. Precede(Given(k - 1), Range(s))
      BY <3>2 DEF Precede
    <3>4. QED
      BY <2>1, <2>4, <3>1, <3>3
  <2>7. Good(k)
    <3> HIDE DEF Given, t, s
    <3>1. Range(G[k]) = Given(k)
      BY <2>1, <2>3, <2>4 DEF t
    <3>2. QED
      BY <2>4, <2>5, <2>6, <3>1
  <2>8. QED
    BY <2>1, <2>7
<1>8. n \in Fine
  <2> HIDE DEF Fine, n
  <2>1. \A k \in 0..n : k \in Fine
    BY <1>1, <1>6, <1>7, UptoInduction
  <2>2. QED
    BY <1>1, <2>1
<1>9. Given(n) = UNION {Range(of[a]) : a \in Range(items)}
  <2>1. Range(items) = {items[i] : i \in 1..n}
    BY <1>1 DEF Range
  <2>2. QED
    BY <2>1
<1>10. Good(n)
  BY <1>8
<1> HIDE DEF Given
<1>11. QED
  BY <1>2, <1>9, <1>10
-----------------------------------------------------------------------------
LEMMA PartsFacts ==
  ASSUME NEW a \in Items
  PROVE  /\ Parts(a) \in Seq(Items) /\ Range(Parts(a)) = Pieces(a) /\ Parts(a) # << >>
         /\ Chain(Parts(a))
         /\ \A p \in Pieces(a) : p[1] = a[1] /\ ~IsOversized(p) /\ p \in Items
<1>1. /\ a[1] \in Messages /\ a[2] \in 0..2
      /\ <<a[1], 1>> \in Items /\ <<a[1], 2>> \in Items
  BY DEF Items
<1>2. CASE IsOversized(a)
  <2> DEFINE p == <<a[1], 1>>  q == <<a[1], 2>>
  <2>1. p[1] = a[1] /\ p[2] = 1 /\ q[1] = a[1] /\ q[2] = 2 /\ p \in Items /\ q \in Items
    BY <1>1
  <2>2. Parts(a) = <<p, q>> /\ Pieces(a) = {p, q}
    BY <1>2 DEF Parts, Pieces
  <2>3. Before(p, q) /\ ~IsOversized(p) /\ ~IsOversized(q)
    BY <2>1 DEF Before, IsOversized
  <2> HIDE DEF p, q
  <2>4. <<p, q>> \in Seq(Items) /\ <<p, q>> # << >> /\ Range(<<p, q>>) = {p, q}
    BY <2>1 DEF Range
  <2>5. Chain(<<p, q>>)
    BY <2>3 DEF Chain
  <2>6. QED
    BY <2>1, <2>2, <2>3, <2>4, <2>5
<1>3. CASE ~IsOversized(a)
  <2>1. Parts(a) = <<a>> /\ Pieces(a) = {a}
    BY <1>3 DEF Parts, Pieces
  <2>2. <<a>> \in Seq(Items) /\ <<a>> # << >> /\ Range(<<a>>) = {a}
    BY DEF Range
  <2>3. Chain(<<a>>)
    BY DEF Chain
  <2>4. QED
    BY <1>3, <2>1, <2>2, <2>3
<1>4. QED
  BY <1>2, <1>3

LEMMA SplitFacts ==
  ASSUME NEW items \in Seq(Items)
  PROVE  /\ Split(items) \in Seq(Items)
         /\ Range(Split(items)) = Reach(Range(items))
         /\ Len(items) <= Len(Split(items))
         /\ Chain(items) => Chain(Split(items))
<1> DEFINE of == [item \in Items |-> Parts(item)]
<1>1. of \in [Items -> Seq(Items)] /\ \A a \in Items : of[a] = Parts(a)
  BY PartsFacts
<1>2. Split(items) = Joined(items, of)
  BY DEF Split
<1> HIDE DEF of
<1>3. Respects(of)
  <2> SUFFICES ASSUME NEW a \in Items, NEW b \in Items, Before(a, b),
                      NEW p \in Pieces(a), NEW q \in Pieces(b)
               PROVE  Before(p, q)
    BY <1>1, PartsFacts DEF Respects, Precede
  <2>1. p[1] = a[1] /\ q[1] = b[1] /\ a[1] \in Messages /\ b[1] \in Messages
    BY PartsFacts DEF Items
  <2>2. CASE a[1] < b[1]
    BY <2>1, <2>2 DEF Before
  <2>3. CASE ~(a[1] < b[1])
    <3>1. a[1] = b[1] /\ a[2] = 1 /\ b[2] = 2
      BY <2>3 DEF Before
    <3>2. p = a /\ q = b
      BY <3>1 DEF Pieces, IsOversized
    <3>3. QED
      BY <3>2
  <2>4. QED
    BY <2>2, <2>3
<1>4. UNION {Range(of[a]) : a \in Range(items)} = Reach(Range(items))
  <2>1. Range(items) \subseteq Items
    BY SeqFacts
  <2>2. \A a \in Range(items) : Range(of[a]) = Pieces(a)
    BY <1>1, <2>1, PartsFacts
  <2>3. QED
    BY <2>2 DEF Reach
<1>5. \A a \in Items : of[a] # << >>
  BY <1>1, PartsFacts
<1>6. /\ Joined(items, of) \in Seq(Items)
      /\ Range(Joined(items, of)) = UNION {Range(of[a]) : a \in Range(items)}
      /\ Len(items) <= Len(Joined(items, of))
      /\ Chain(items) => Chain(Joined(items, of))
  BY <1>1, <1>3, <1>5, JoinedFacts
<1>7. QED
  BY <1>2, <1>4, <1>6

LEMMA WithoutToolsFacts ==
  ASSUME NEW items \in Seq(Items)
  PROVE  /\ WithoutTools(items) \in Seq(Items)
         /\ Range(WithoutTools(items)) \subseteq Range(items)
         /\ Chain(items) => Chain(WithoutTools(items))
<1> DEFINE of == [item \in Items |-> IF item[1] \in ToolOnly THEN << >> ELSE <<item>>]
<1>1. \A a \in Items : <<a>> \in Seq(Items) /\ Chain(<<a>>) /\ Range(<<a>>) = {a}
  BY DEF Chain, Range
<1>2. /\ of \in [Items -> Seq(Items)]
      /\ \A a \in Items : of[a] \in {<< >>, <<a>>}
  BY <1>1, EmptyFacts
<1>3. WithoutTools(items) = Joined(items, of)
  BY DEF WithoutTools
<1> HIDE DEF of
<1>4. \A a \in Items : Chain(of[a]) /\ Range(of[a]) \subseteq {a}
  BY <1>1, <1>2, EmptyFacts
<1>5. Respects(of)
  BY <1>4 DEF Respects, Precede
<1>6. UNION {Range(of[a]) : a \in Range(items)} \subseteq Range(items)
  <2>1. Range(items) \subseteq Items
    BY SeqFacts
  <2>2. \A a \in Range(items) : Range(of[a]) \subseteq Range(items)
    BY <1>4, <2>1
  <2>3. QED
    BY <2>2
<1>7. QED
  BY <1>2, <1>3, <1>5, <1>6, JoinedFacts

(* What was split is not split again, and stands for the same.             *)
LEMMA ReachFacts ==
  /\ \A A \in SUBSET Items : /\ Reach(A) \subseteq Items /\ Whole(Reach(A))
                             /\ Reach(Reach(A)) = Reach(A)
                             /\ Whole(A) => Reach(A) = A
                             /\ \A p \in Reach(A) : \E a \in A : p[1] = a[1]
  /\ \A A, B : Reach(A \cup B) = Reach(A) \cup Reach(B)
<1>1. ASSUME NEW A \in SUBSET Items
      PROVE  /\ Reach(A) \subseteq Items /\ Whole(Reach(A))
             /\ \A p \in Reach(A) : \E a \in A : p[1] = a[1]
  BY PartsFacts DEF Reach, Whole
<1>2. ASSUME NEW A, Whole(A) PROVE Reach(A) = A
  BY <1>2 DEF Reach, Whole, Pieces
<1>3. \A A, B : Reach(A \cup B) = Reach(A) \cup Reach(B)
  BY DEF Reach
<1>4. QED
  BY <1>1, <1>2, <1>3
-----------------------------------------------------------------------------
(* r is what compactions may make of a list: it holds every item of it, or *)
(* has dropped it, holds nothing else, and keeps the order, unless a       *)
(* single message was both summarised and kept.                            *)
Condenses(r, list, dropped) ==
  /\ r \in [list : Lists, dropped : SUBSET Items] /\ IsList(r.list) /\ r.list.summed
  /\ dropped \subseteq r.dropped /\ r.dropped \subseteq Items
  /\ Range(Content(r.list)) \subseteq Range(Content(list))
  /\ Range(Content(list)) \subseteq Range(Content(r.list)) \cup r.dropped
  /\ (list.summed \/ Size(list) >= 2) /\ Chain(Content(list)) => Chain(Content(r.list))

LEMMA ContentFacts ==
  ASSUME NEW list \in Lists
  PROVE  /\ list.under \in Seq(Items) /\ list.tail \in Seq(Items) /\ list.summed \in BOOLEAN
         /\ Content(list) \in Seq(Items) /\ Range(Content(list)) \subseteq Items
         /\ Range(Content(list)) = Range(list.under) \cup Range(list.tail)
         /\ Len(list.tail) \in Nat
         /\ Size(list) = Len(list.tail) + (IF list.summed THEN 1 ELSE 0)
<1>1. list.under \in Seq(Items) /\ list.tail \in Seq(Items) /\ list.summed \in BOOLEAN
  BY DEF Lists
<1>2. QED
  BY <1>1, ConcatFacts, SeqFacts DEF Content, Size

LEMMA SummaryIsList ==
  ASSUME NEW u \in Seq(Items), NEW t \in Seq(Items)
  PROVE  LET list == [under |-> u, tail |-> t, summed |-> TRUE] IN
           IsList(list) /\ list.summed /\ Content(list) = u \o t
BY DEF IsList, Lists, Content

LEMMA ConcatAgain ==
  ASSUME NEW s \in Seq(Items), NEW t \in Seq(Items), NEW u \in Seq(Items)
  PROVE  (s \o t) \o u = s \o (t \o u)
BY ConcatAssociative

LEMMA SummariesFacts ==
  ASSUME NEW list, IsList(list), NEW dropped \in SUBSET Items,
         NEW r \in Summaries(list, dropped)
  PROVE  Condenses(r, list, dropped)
<1> DEFINE u == list.under  t == list.tail
<1>1. /\ list \in Lists /\ u \in Seq(Items) /\ t \in Seq(Items) /\ Len(t) \in Nat
      /\ Size(list) = Len(t) + (IF list.summed THEN 1 ELSE 0)
      /\ Content(list) = u \o t /\ Range(Content(list)) = Range(u) \cup Range(t)
  BY ContentFacts DEF IsList, Content
<1>2. CASE Size(list) = 1
  <2> DEFINE l == [under |-> u \o t, tail |-> t, summed |-> TRUE]
  <2>1. r = [list |-> l, dropped |-> dropped]
    BY <1>2 DEF Summaries
  <2>2. u \o t \in Seq(Items) /\ Range(u \o t) = Range(u) \cup Range(t)
    BY <1>1, ConcatFacts
  <2>3. IsList(l) /\ l.summed /\ Content(l) = (u \o t) \o t
    BY <1>1, <2>2, SummaryIsList
  <2> HIDE DEF l
  <2>4. r.list = l /\ r.dropped = dropped
    BY <2>1
  <2>9. l \in Lists
    BY <2>3 DEF IsList
  <2>5. Range(Content(l)) = Range(Content(list))
    BY <1>1, <2>2, <2>3, ConcatFacts
  <2>6. ASSUME list.summed \/ Size(list) >= 2 PROVE Content(l) = Content(list)
    <3>1. Len(t) = 0
      <4>0. list.summed
        BY <1>2, <2>6
      <4>1. Len(t) + 1 = 1
        BY <1>1, <1>2, <4>0
      <4>2. \A x \in Nat : x + 1 = 1 => x = 0
        OBVIOUS
      <4>3. QED
        BY <1>1, <4>1, <4>2
    <3>2. t = << >>
      BY <1>1, <3>1, SeqFacts
    <3>3. QED
      BY <1>1, <2>2, <2>3, <3>2, ConcatEmptySeq
  <2>7. QED
    BY <2>1, <2>3, <2>4, <2>5, <2>6, <2>9 DEF Condenses
<1>3. CASE Size(list) # 1
  <2> DEFINE Start(k) == SubSeq(t, 1, k)  Rest(k) == SubSeq(t, k + 1, Len(t))
             l(k) == [under |-> u \o Start(k), tail |-> Rest(k), summed |-> TRUE]
  <2>1. PICK k \in IF list.summed THEN 0..(Len(t) - 1) ELSE 1..(Len(t) - 1) :
          r = [list |-> l(k), dropped |-> dropped]
    BY <1>3 DEF Summaries
  <2> HIDE DEF u, t
  <2>2. k \in 0..Len(t) /\ k + 1 \in Nat \ {0} /\ Len(t) \in 0..Len(t)
    BY <1>1, <2>1
  <2>3. /\ Start(k) \in Seq(Items) /\ Rest(k) \in Seq(Items) /\ Start(k) \o Rest(k) = t
    <3>1. Start(k) \in Seq(Items)
      BY <1>1, <2>2, PartFacts
    <3>2. Rest(k) \in Seq(Items)
      BY <1>1, <2>2, PartFacts
    <3>3. QED
      BY <1>1, <2>2, <3>1, <3>2, CutFacts
  <2> HIDE DEF Start, Rest
  <2>4. u \o Start(k) \in Seq(Items)
    BY <1>1, <2>3, ConcatFacts
  <2>5. IsList(l(k)) /\ l(k).summed /\ Content(l(k)) = (u \o Start(k)) \o Rest(k)
    BY <2>3, <2>4, SummaryIsList
  <2>6. Content(l(k)) = Content(list)
    <3>1. (u \o Start(k)) \o Rest(k) = u \o (Start(k) \o Rest(k))
      <4>1. u \in Seq(Items) /\ Start(k) \in Seq(Items) /\ Rest(k) \in Seq(Items)
        BY <1>1, <2>3
      <4>2. QED
        BY <4>1, ConcatAgain
    <3> HIDE DEF l
    <3>2. QED
      BY <1>1, <2>3, <2>5, <3>1
  <2> HIDE DEF l
  <2>7. r.list = l(k) /\ r.dropped = dropped
    BY <2>1
  <2>8. QED
    BY <2>1, <2>5, <2>6, <2>7 DEF Condenses, IsList
<1>4. QED
  BY <1>2, <1>3

LEMMA FallbacksFacts ==
  ASSUME NEW list, IsList(list), NEW dropped \in SUBSET Items,
         NEW r \in Fallbacks(list, dropped)
  PROVE  Condenses(r, list, dropped)
<1> DEFINE u == list.under  t == list.tail  rest == WithoutTools(t)  n == Len(rest)
           Kept(k) == SubSeq(rest, n - k + 1, n)
           l(k) == [under |-> << >>, tail |-> Kept(k), summed |-> TRUE]
           gone(k) == dropped \cup Range(u) \cup (Range(t) \ Range(Kept(k)))
<1>1. /\ list \in Lists /\ u \in Seq(Items) /\ t \in Seq(Items)
      /\ Content(list) = u \o t /\ Range(Content(list)) = Range(u) \cup Range(t)
      /\ Range(u) \subseteq Items /\ Range(t) \subseteq Items
  BY ContentFacts, SeqFacts DEF IsList, Content
<1>2. rest \in Seq(Items) /\ Range(rest) \subseteq Range(t) /\ n \in Nat
  BY <1>1, WithoutToolsFacts, SeqFacts
<1>3. PICK k \in IF n <= 1 THEN {n} ELSE 1..(n - 1) : r = [list |-> l(k), dropped |-> gone(k)]
  BY DEF Fallbacks
<1>4. n - k + 1 \in Nat \ {0} /\ n \in 0..n
  BY <1>2, <1>3
<1>5. /\ Kept(k) \in Seq(Items) /\ Range(Kept(k)) \subseteq Range(rest)
      /\ Chain(rest) => Chain(Kept(k))
  BY <1>2, <1>4, PartFacts
<1>6. Chain(u \o t) => Chain(rest)
  BY <1>1, ConcatFacts, WithoutToolsFacts
<1> HIDE DEF rest, n, Kept
<1>7. IsList(l(k)) /\ l(k).summed /\ Content(l(k)) = Kept(k)
  BY <1>5, EmptyFacts, SummaryIsList, ConcatEmptySeq
<1>8. r.list = l(k) /\ r.dropped = gone(k)
  BY <1>3
<1> HIDE DEF l
<1>9. /\ dropped \subseteq gone(k) /\ gone(k) \subseteq Items
      /\ Range(u) \cup Range(t) \subseteq Range(Kept(k)) \cup gone(k)
  BY <1>1
<1> HIDE DEF gone
<1>10. QED
  BY <1>1, <1>2, <1>3, <1>5, <1>6, <1>7, <1>8, <1>9 DEF Condenses, IsList

LEMMA CondensesOn ==
  ASSUME NEW list, IsList(list), NEW dropped \in SUBSET Items,
         NEW r, Condenses(r, list, dropped), NEW q, Condenses(q, r.list, r.dropped)
  PROVE  Condenses(q, list, dropped)
<1>1. /\ IsList(r.list) /\ r.list.summed /\ IsList(q.list) /\ q.list.summed
      /\ q \in [list : Lists, dropped : SUBSET Items]
      /\ dropped \subseteq q.dropped /\ q.dropped \subseteq Items /\ r.dropped \subseteq q.dropped
  BY DEF Condenses
<1>2. /\ Range(Content(q.list)) \subseteq Range(Content(list))
      /\ Range(Content(list)) \subseteq Range(Content(q.list)) \cup q.dropped
  BY <1>1 DEF Condenses
<1>3. (list.summed \/ Size(list) >= 2) /\ Chain(Content(list)) => Chain(Content(q.list))
  BY <1>1 DEF Condenses
<1>4. QED
  BY <1>1, <1>2, <1>3 DEF Condenses

(* Each of the passes condenses what it is given, and so do all of them.   *)
LEMMA ResultsFacts ==
  ASSUME NEW list, IsList(list), NEW dropped \in SUBSET Items,
         NEW r \in Results(list, dropped)
  PROVE  Condenses(r, list, dropped)
<1> DEFINE Pass(q) == Summaries(q.list, q.dropped) \cup Fallbacks(q.list, q.dropped)
           first == [list |-> list, dropped |-> dropped]
           N == MaxPasses
           Onward(X) == UNION {Pass(q) : q \in X}
           Is(g) == g = [n \in 0..N |-> IF n = 0 THEN {first} ELSE UNION {Pass(q) : q \in g[n - 1]}]
           G == CHOOSE g : Is(g)
           R == {q \in [list : Lists, dropped : SUBSET Items] : IsList(q.list)}
<1>1. N \in Nat /\ N # 0
  BY CompactionAssumption
<1>2. PICK pass \in 1..N : r \in G[pass]
  BY DEF Results
<1>3. first \in R /\ first.list = list /\ first.dropped = dropped
  BY DEF IsList
<1>4. ASSUME NEW q \in R, NEW p \in Pass(q)
      PROVE  Condenses(p, q.list, q.dropped)
  BY <1>4, SummariesFacts, FallbacksFacts
<1>5. ASSUME NEW q \in R, NEW p \in Pass(q) PROVE p \in R
  <2>1. p \in [list : Lists, dropped : SUBSET Items] /\ IsList(p.list)
    BY <1>4 DEF Condenses
  <2>2. QED
    BY <2>1
<1> HIDE DEF Pass, first, R, N
<1>6. \E g : Is(g)
  <2> DEFINE F == [p \in (1..N) \X SUBSET R |-> Onward(p[2])]
  <2>1. F \in [(1..N) \X SUBSET R -> SUBSET R]
    BY <1>5
  <2>2. {first} \in SUBSET R
    BY <1>3
  <2> HIDE DEF F
  <2>3. PICK g \in [0..N -> SUBSET R] : Follows(g, N, {first}, F)
    BY <1>1, <2>1, <2>2, Recursion
  <2>4. ASSUME NEW k \in 1..N PROVE g[k] = Onward(g[k - 1])
    <3>1. k - 1 \in 0..N /\ <<k, g[k - 1]>> \in (1..N) \X SUBSET R
      BY <1>1, <2>3
    <3>2. QED
      BY <2>3, <3>1 DEF F, Follows
  <2> HIDE DEF Onward
  <2>5. \A k \in 0..N : g[k] = IF k = 0 THEN {first} ELSE Onward(g[k - 1])
    BY <1>1, <2>3, <2>4 DEF Follows
  <2>6. g = [k \in 0..N |-> IF k = 0 THEN {first} ELSE Onward(g[k - 1])]
    BY <2>3, <2>5
  <2>7. QED
    BY <2>6 DEF Onward
<1> HIDE DEF Is
<1>7. Is(G)
  BY <1>6
<1> HIDE DEF G
<1>8. G[0] = {first} /\ \A k \in 1..N : G[k] = Onward(G[k - 1])
  <2> HIDE DEF Onward
  <2>1. G = [k \in 0..N |-> IF k = 0 THEN {first} ELSE Onward(G[k - 1])]
    BY <1>7 DEF Is, Onward
  <2>2. 0 \in 0..N /\ \A k \in 1..N : k \in 0..N /\ k # 0
    BY <1>1
  <2>3. QED
    BY <2>1, <2>2
<1> DEFINE Good(k) == /\ G[k] \subseteq R
                      /\ k # 0 => \A q \in G[k] : Condenses(q, list, dropped)
           Fine == {k \in 0..N : Good(k)}
<1>9. 0 \in Fine
  BY <1>1, <1>3, <1>8
<1>10. ASSUME NEW k \in 1..N, k - 1 \in Fine PROVE k \in Fine
  <2>1. Good(k - 1) /\ k \in 0..N
    BY <1>1, <1>10
  <2>2. G[k] \subseteq R
    BY <1>5, <1>8, <2>1
  <2>3. ASSUME NEW p \in G[k] PROVE Condenses(p, list, dropped)
    <3>1. PICK q \in G[k - 1] : p \in Pass(q)
      BY <1>8
    <3>2. Condenses(p, q.list, q.dropped)
      BY <1>4, <2>1, <3>1
    <3>3. CASE k = 1
      <4>1. q = first
        BY <1>8, <3>1, <3>3
      <4>2. QED
        BY <1>3, <3>2, <4>1
    <3>4. CASE k # 1
      <4>1. k - 1 # 0
        BY <3>4
      <4>2. Condenses(q, list, dropped)
        BY <2>1, <4>1
      <4>3. QED
        BY <3>2, <4>2, CondensesOn
    <3>5. QED
      BY <3>3, <3>4
  <2>4. QED
    BY <2>1, <2>2, <2>3
<1>11. pass \in Fine
  <2> HIDE DEF Fine
  <2>1. \A k \in 0..N : k \in Fine
    BY <1>1, <1>9, <1>10, UptoInduction
  <2>2. QED
    BY <1>1, <1>2, <2>1 DEF N
<1>12. QED
  BY <1>2, <1>11 DEF N, Pass, first, Is, G
-----------------------------------------------------------------------------
(* A list of its own, neither missing nor the array of the messages.       *)
Real(list) == list \notin {None, Aliased}

ConvShape(c) ==
  /\ c \in Conversations
  /\ Real(c.list) => IsList(c.list)
  /\ c.list = None => c.mark = 0 /\ c.dropped = {}
  /\ ~c.exists => c = NoConversation

TurnShape(r) ==
  /\ r \in TurnStates
  /\ r.pc = "off" <=> r = Off
  /\ r.pc \in {"off", "routing"} <=> r.target = None
  /\ IsList(r.input)
  /\ r.pc = "summarising" => Size(r.input) > 0

Counts ==
  /\ {current, preferred} \subseteq Models /\ conv[preferred].exists
  /\ attempts \in 0..MaxRetries
  /\ last \in 0..MaxMessages /\ cleared \in 0..last
  /\ events \in 0..MaxEvents
  /\ mishaps \subseteq {"clear", "switch", "skip"}

LEMMA TypeOKParts ==
  TypeOK <=> /\ conv \in [Models -> Conversations] /\ turn \in [Turns -> TurnStates]
             /\ \A m \in Models : ConvShape(conv[m])
             /\ \A t \in Turns : TurnShape(turn[t])
             /\ Counts
BY DEF TypeOK, ConvShape, TurnShape, Real, Counts

LEMMA ConstantFacts ==
  /\ MaxMessages \in Nat /\ MaxRetries \in Nat /\ MaxEvents \in Nat
  /\ MinMessages \in Nat /\ MinMessages >= 2 /\ MinEmergency \in Nat /\ MinEmergency >= 2
  /\ None # Aliased /\ None \notin Lists /\ Aliased \notin Lists /\ None \notin Models
BY CompactionAssumption

LEMMA PlainFacts ==
  ASSUME NEW s \in Seq(Items)
  PROVE  /\ IsList(Plain(s)) /\ Plain(s) \in Lists /\ Real(Plain(s))
         /\ Plain(s).under = << >> /\ Plain(s).tail = s /\ Plain(s).summed = FALSE
         /\ Content(Plain(s)) = s
<1>1. Plain(s) \in Lists
  BY EmptyFacts DEF Plain, Lists
<1>2. << >> \o s = s
  BY ConcatEmptySeq
<1>3. /\ Plain(s).under = << >> /\ Plain(s).tail = s /\ Plain(s).summed = FALSE
  BY DEF Plain
<1>4. QED
  BY <1>1, <1>2, <1>3, ConstantFacts DEF IsList, Real, Content

LEMMA OffFacts == TurnShape(Off) /\ Off.pc = "off" /\ Off \in TurnStates
<1>1. IsList(Plain(<< >>)) /\ Plain(<< >>) \in Lists
  BY PlainFacts, EmptyFacts
<1>2. Off \in TurnStates
  BY <1>1 DEF Off, TurnStates
<1>3. QED
  BY <1>1, <1>2 DEF TurnShape, Off

LEMMA NoConversationFacts == ConvShape(NoConversation) /\ ConvShape(Emptied)
BY EmptyFacts DEF ConvShape, NoConversation, Emptied, Conversations, Real

LEMMA ListOfFacts ==
  ASSUME NEW c, ConvShape(c)
  PROVE  /\ IsList(ListOf(c)) /\ ListOf(c) \in Lists
         /\ Real(c.list) => ListOf(c) = c.list
         /\ ~Real(c.list) => ListOf(c) = Plain(c.messages)
         /\ c.messages \in Seq(Items)
<1>1. c.messages \in Seq(Items)
  BY DEF ConvShape, Conversations
<1>2. QED
  BY <1>1, PlainFacts DEF ListOf, Real, IsList, ConvShape

LEMMA SplitListFacts ==
  ASSUME NEW list, IsList(list)
  PROVE  /\ IsList(SplitList(list)) /\ SplitList(list) \in Lists
         /\ SplitList(list).under = list.under /\ SplitList(list).summed = list.summed
         /\ SplitList(list).tail = Split(list.tail)
         /\ Size(list) \in Nat /\ Size(list) <= Size(SplitList(list))
<1>1. /\ list \in Lists /\ list.under \in Seq(Items) /\ list.tail \in Seq(Items)
      /\ list.summed \in BOOLEAN
  BY DEF IsList, Lists
<1>2. /\ Split(list.tail) \in Seq(Items) /\ Len(list.tail) <= Len(Split(list.tail))
      /\ Len(list.tail) \in Nat /\ Len(Split(list.tail)) \in Nat
  BY <1>1, SplitFacts, SeqFacts
<1>3. SplitList(list) = [list EXCEPT !.tail = Split(list.tail)]
  BY DEF SplitList
<1>4. /\ SplitList(list) \in Lists
      /\ SplitList(list).under = list.under /\ SplitList(list).summed = list.summed
      /\ SplitList(list).tail = Split(list.tail)
  BY <1>1, <1>2, <1>3 DEF Lists
<1>5. Size(list) \in Nat /\ Size(list) <= Size(SplitList(list))
  <2> DEFINE n == IF list.summed THEN 1 ELSE 0
  <2>1. n \in Nat /\ Size(list) = Len(list.tail) + n /\ Size(SplitList(list)) = Len(Split(list.tail)) + n
    BY <1>4 DEF Size
  <2> HIDE DEF n
  <2>2. QED
    BY <1>2, <2>1
<1>6. QED
  BY <1>4, <1>5 DEF IsList
-----------------------------------------------------------------------------
(* What the syncing of a conversation does.                                *)
New(c) == SubSeq(c.messages, c.mark + 1, Len(c.messages))

Syncs(d, c) ==
  /\ ConvShape(d) /\ d.exists = c.exists /\ d.dropped = c.dropped
  /\ New(c) \in Seq(Items)
  /\ \/ d = c /\ (c.list = None \/ New(c) = << >>)
     \/ /\ c.list = Aliased /\ d.list = Aliased
        /\ d.messages = c.messages \o New(c) /\ d.mark = Len(c.messages)
        /\ New(c) # << >>
     \/ /\ Real(c.list) /\ Real(d.list)
        /\ d.messages = c.messages /\ d.mark = Len(c.messages)
        /\ d.list.under = c.list.under /\ d.list.summed = c.list.summed
        /\ d.list.tail = c.list.tail \o New(c)
        /\ New(c) # << >>

LEMMA SyncedFacts ==
  ASSUME NEW c, ConvShape(c)
  PROVE  Syncs(Synced(c), c)
<1> DEFINE new == New(c)
<1>1. /\ c \in Conversations /\ c.messages \in Seq(Items) /\ c.mark \in Nat
      /\ c.exists \in BOOLEAN /\ c.dropped \in SUBSET Items
  BY DEF ConvShape, Conversations
<1>2. Len(c.messages) \in Nat /\ c.mark + 1 \in Nat \ {0} /\ Len(c.messages) \in 0..Len(c.messages)
  BY <1>1
<1>3. new \in Seq(Items)
  BY <1>1, <1>2, PartFacts DEF New
<1> HIDE DEF new
<1>4. CASE c.list = None \/ new = << >>
  BY <1>3, <1>4 DEF Synced, Syncs, New, new
<1>5. CASE c.list = Aliased /\ c.list # None /\ new # << >>
  <2> DEFINE d == [c EXCEPT !.messages = c.messages \o new, !.mark = Len(c.messages)]
  <2>1. Synced(c) = d
    BY <1>5 DEF Synced, New, new
  <2>2. c.messages \o new \in Seq(Items)
    BY <1>1, <1>3, ConcatFacts
  <2>3. /\ d \in Conversations /\ d.messages = c.messages \o new /\ d.mark = Len(c.messages)
        /\ d.list = c.list /\ d.exists = c.exists /\ d.dropped = c.dropped
    BY <1>1, <1>2, <2>2 DEF Conversations
  <2>4. c.exists
    BY <1>5 DEF ConvShape, NoConversation
  <2> HIDE DEF d
  <2>5. ConvShape(d)
    BY <1>5, <2>3, <2>4 DEF ConvShape, Real
  <2>6. QED
    BY <1>3, <1>5, <2>1, <2>3, <2>5 DEF Syncs, new
<1>6. CASE c.list # Aliased /\ c.list # None /\ new # << >>
  <2> DEFINE l == [c.list EXCEPT !.tail = c.list.tail \o new]
             d == [c EXCEPT !.list = l, !.mark = Len(c.messages)]
  <2>1. Synced(c) = d
    BY <1>1, <1>6 DEF Synced, New, new, Conversations
  <2>2. /\ IsList(c.list) /\ c.list \in Lists /\ c.list.tail \in Seq(Items)
    BY <1>6 DEF ConvShape, Real, IsList, Lists
  <2>3. c.list.tail \o new \in Seq(Items)
    BY <1>3, <2>2, ConcatFacts
  <2>4. /\ l \in Lists /\ l.under = c.list.under /\ l.summed = c.list.summed
        /\ l.tail = c.list.tail \o new
    BY <2>2, <2>3 DEF Lists
  <2> HIDE DEF l
  <2>5. IsList(l) /\ Real(l)
    BY <2>2, <2>4, ConstantFacts DEF IsList, Real
  <2>6. /\ d \in Conversations /\ d.messages = c.messages /\ d.mark = Len(c.messages)
        /\ d.list = l /\ d.exists = c.exists /\ d.dropped = c.dropped
    BY <1>1, <1>2, <2>4 DEF Conversations
  <2>7. c.exists
    BY <1>6 DEF ConvShape, NoConversation
  <2> HIDE DEF d
  <2>8. ConvShape(d)
    BY <2>5, <2>6, <2>7 DEF ConvShape, Real
  <2>9. QED
    BY <1>3, <1>6, <2>1, <2>4, <2>5, <2>6, <2>8 DEF Syncs, new, Real
<1>7. QED
  BY <1>4, <1>5, <1>6

LEMMA CompactedFacts ==
  ASSUME NEW c, ConvShape(c), NEW list, list = Aliased \/ IsList(list),
         NEW mark \in Nat, NEW dropped \in SUBSET Items
  PROVE  LET d == Compacted(c, list, mark, dropped) IN
         /\ ConvShape(d) /\ d.exists /\ d.messages = c.messages /\ d.list = list
         /\ d.dropped = dropped /\ d.mark = IF mark = 0 THEN Len(c.messages) ELSE mark
<1> DEFINE k == IF mark = 0 THEN Len(c.messages) ELSE mark
           d == [c EXCEPT !.exists = TRUE, !.list = list, !.dropped = dropped, !.mark = k]
<1>1. c \in Conversations /\ c.messages \in Seq(Items) /\ k \in Nat
  BY DEF ConvShape, Conversations
<1>2. Compacted(c, list, mark, dropped) = d
  BY DEF Compacted
<1>3. list \in Lists \cup {Aliased} /\ list # None
  BY ConstantFacts DEF IsList
<1> HIDE DEF k
<1>4. /\ d \in Conversations /\ d.exists /\ d.messages = c.messages /\ d.list = list
      /\ d.dropped = dropped /\ d.mark = k
  BY <1>1, <1>3 DEF Conversations
<1> HIDE DEF d
<1>5. ConvShape(d)
  BY <1>3, <1>4 DEF ConvShape, Real
<1>6. QED
  BY <1>2, <1>4, <1>5 DEF k

LEMMA AppendedFacts ==
  ASSUME \A m \in Models : ConvShape(conv[m]), conv \in [Models -> Conversations],
         current \in Models, NEW n \in Messages
  PROVE  /\ Appended(conv, n) \in [Models -> Conversations]
         /\ \A m \in Models :
              LET c == conv[m]  d == Appended(conv, n)[m] IN
              /\ ConvShape(d)
              /\ d.exists = c.exists /\ d.list = c.list /\ d.mark = c.mark /\ d.dropped = c.dropped
              /\ d.messages = c.messages \/ d.messages = Append(c.messages, <<n, 0>>)
<1> DEFINE c == conv[current]  s == Append(c.messages, <<n, 0>>)
           d == [c EXCEPT !.messages = s]
<1>1. CASE ~c.exists
  BY <1>1 DEF Appended
<1>2. CASE c.exists
  <2>1. Appended(conv, n) = [conv EXCEPT ![current] = d]
    BY <1>2 DEF Appended
  <2>2. c \in Conversations /\ c.messages \in Seq(Items) /\ <<n, 0>> \in Items
    BY DEF Conversations, Items
  <2>3. s \in Seq(Items)
    BY <2>2
  <2>4. /\ d \in Conversations /\ d.messages = s /\ d.exists = c.exists /\ d.list = c.list
        /\ d.mark = c.mark /\ d.dropped = c.dropped
    BY <2>2, <2>3 DEF Conversations
  <2> HIDE DEF d
  <2>5. ConvShape(d)
    BY <1>2, <2>4 DEF ConvShape
  <2>6. QED
    BY <2>1, <2>4, <2>5
<1>3. QED
  BY <1>1, <1>2
-----------------------------------------------------------------------------
(* The steps, as the properties see them.  A turn goes on to something     *)
(* other than a summary, and at most one conversation is synced, or a      *)
(* message is added; a turn begins a compaction; a compaction is stored.   *)
Syncing(m) == conv' = [conv EXCEPT ![m] = Synced(conv[m])]
Becomes(t, r) == TurnShape(r) /\ turn' = [turn EXCEPT ![t] = r]
GoesOn(t) == \E r : Becomes(t, r) /\ r.pc # "summarising"
NoneIsCleared == UNCHANGED <<cleared, preferred>>

SyncStep(t) ==
  /\ GoesOn(t) /\ NoneIsCleared /\ UNCHANGED <<last, mishaps>>
  /\ conv' = conv \/ \E m \in Models : Syncing(m)

AddStep(t) ==
  /\ GoesOn(t) /\ NoneIsCleared /\ UNCHANGED mishaps
  /\ last' = last + 1 /\ last' \in Messages /\ conv' = Appended(conv, last')

Begun(r, m, x) ==
  /\ r.pc = "summarising" /\ r.target \in Models
  /\ r.input = SplitList(ListOf(conv'[x])) /\ r.dropped = conv'[x].dropped
  /\ r.mark = Len(conv'[r.target].messages)
  /\ ~r.switch => x = r.target /\ m = r.target /\ Size(r.input) >= 2

BeginStep(t) ==
  /\ NoneIsCleared /\ UNCHANGED <<last, mishaps>>
  /\ \E r : \E m, x \in Models : Becomes(t, r) /\ Syncing(m) /\ Begun(r, m, x)

TooLittleStep(t) ==
  /\ CompactTooLittle(t) /\ GoesOn(t) /\ turn[t].target \in Models
EndStep(t) ==
  /\ EndCompaction(t) /\ GoesOn(t) /\ turn[t].target \in Models

TurnSteps(t) == SyncStep(t) \/ AddStep(t) \/ BeginStep(t) \/ TooLittleStep(t) \/ EndStep(t)

LEMMA TurnFacts ==
  ASSUME NEW r, TurnShape(r)
  PROVE  /\ r \in TurnStates /\ IsList(r.input) /\ r.input \in Lists /\ r.mark \in Nat
         /\ r.dropped \in SUBSET Items
         /\ r.pc \notin {"off", "routing"} => r.target \in Models
         /\ r.attached \in BOOLEAN /\ r.emergency \in BOOLEAN /\ r.switch \in BOOLEAN
BY DEF TurnShape, TurnStates, IsList

LEMMA DoneFacts ==
  ASSUME NEW t \in Turns, TurnShape(turn[t]), turn[t].pc \notin {"off", "routing"}
  PROVE  TurnShape(Done(t)) /\ Done(t).pc # "summarising"
<1>1. CASE turn[t].asks
  <2> DEFINE r == [Off EXCEPT !.pc = "ready", !.target = turn[t].target, !.asks = TRUE]
  <2>1. turn[t].target \in Models
    BY TurnFacts
  <2>2. /\ r \in TurnStates /\ r.pc = "ready" /\ r.target = turn[t].target /\ r.input = Off.input
    BY <2>1, OffFacts DEF TurnStates
  <2>3. Done(t) = r
    BY <1>1 DEF Done
  <2> HIDE DEF r
  <2>4. TurnShape(r)
    BY <2>1, <2>2, OffFacts, ConstantFacts DEF TurnShape
  <2>5. QED
    BY <2>2, <2>3, <2>4
<1>2. CASE ~turn[t].asks
  BY <1>2, OffFacts DEF Done
<1>3. QED
  BY <1>1, <1>2

LEMMA StartTurnStep ==
  ASSUME TypeOK, NEW t \in Turns, StartTurn(t)
  PROVE  AddStep(t)
<1> DEFINE r == [Off EXCEPT !.pc = "routing"]
<1>1. turn' = [turn EXCEPT ![t] = r]
  BY DEF StartTurn
<1>2. r \in TurnStates /\ r.pc = "routing" /\ r.target = Off.target /\ r.input = Off.input
  BY OffFacts DEF TurnStates
<1> HIDE DEF r
<1>3. TurnShape(r)
  BY <1>2, OffFacts DEF TurnShape
<1>4. last' \in Messages
  BY ConstantFacts, TypeOKParts DEF StartTurn, Messages, Counts
<1>5. QED
  BY <1>1, <1>2, <1>3, <1>4 DEF AddStep, StartTurn, GoesOn, Becomes, NoneIsCleared

LEMMA RoutedStep ==
  ASSUME TypeOK, NEW t \in Turns, NEW m \in Models, Routed(t, m)
  PROVE  SyncStep(t)
<1> DEFINE q == turn[t]  r == [turn[t] EXCEPT !.pc = "routed", !.target = m, !.asks = TRUE]
<1>1. turn' = [turn EXCEPT ![t] = r] /\ TurnShape(q)
  BY TypeOKParts DEF Routed
<1>2. r \in TurnStates /\ r.pc = "routed" /\ r.target = m /\ r.input = q.input
  BY <1>1 DEF TurnStates, TurnShape
<1> HIDE DEF r
<1>3. TurnShape(r)
  BY <1>1, <1>2, OffFacts, ConstantFacts DEF TurnShape
<1>4. QED
  BY <1>1, <1>2, <1>3 DEF SyncStep, Routed, GoesOn, Becomes, NoneIsCleared

LEMMA SkipCompactionStep ==
  ASSUME TypeOK, NEW t \in Turns, SkipCompaction(t)
  PROVE  SyncStep(t)
<1>1. TurnShape(turn[t]) /\ current \in Models
  BY TypeOKParts DEF Counts
<1>2. TurnShape(Done(t)) /\ Done(t).pc # "summarising"
  BY <1>1, DoneFacts DEF SkipCompaction
<1>3. Syncing(current) /\ turn' = [turn EXCEPT ![t] = Done(t)]
  BY <1>1 DEF SkipCompaction, Syncing
<1>4. QED
  BY <1>1, <1>2, <1>3 DEF SyncStep, SkipCompaction, GoesOn, Becomes, NoneIsCleared

LEMMA GetMessagesStep ==
  ASSUME TypeOK, NEW t \in Turns, GetMessagesForAI(t)
  PROVE  SyncStep(t) /\ turn[t].target \in Models /\ Syncing(turn[t].target)
<1> DEFINE q == turn[t]  r == [turn[t] EXCEPT !.pc = "asking"]
<1>1. turn' = [turn EXCEPT ![t] = r] /\ TurnShape(q) /\ q.pc = "ready"
  BY TypeOKParts DEF GetMessagesForAI
<1>2. r \in TurnStates /\ r.pc = "asking" /\ r.target = q.target /\ r.input = q.input
  BY <1>1 DEF TurnStates, TurnShape
<1> HIDE DEF r
<1>3. TurnShape(r)
  BY <1>1, <1>2, OffFacts DEF TurnShape
<1>4. q.target \in Models
  BY <1>1, TurnFacts
<1>5. Syncing(q.target)
  BY <1>4 DEF GetMessagesForAI, Syncing
<1>6. QED
  BY <1>1, <1>2, <1>3, <1>4, <1>5 DEF SyncStep, GetMessagesForAI, GoesOn, Becomes, NoneIsCleared

LEMMA AnswerStep ==
  ASSUME TypeOK, NEW t \in Turns, Answer(t)
  PROVE  SyncStep(t) \/ AddStep(t)
<1>1. GoesOn(t)
  BY OffFacts DEF Answer, GoesOn, Becomes
<1>2. CASE last < MaxMessages
  <2>1. last' \in Messages
    BY <1>2, ConstantFacts, TypeOKParts DEF Answer, Messages, Counts
  <2>2. QED
    BY <1>1, <1>2, <2>1 DEF AddStep, Answer, NoneIsCleared
<1>3. CASE ~(last < MaxMessages)
  BY <1>1, <1>3 DEF SyncStep, Answer, NoneIsCleared
<1>4. QED
  BY <1>2, <1>3

LEMMA TokenLimitStep ==
  ASSUME TypeOK, NEW t \in Turns, TokenLimit(t)
  PROVE  SyncStep(t)
<1> DEFINE r == [Off EXCEPT !.pc = "routed", !.target = current, !.emergency = attempts >= 1]
<1>1. current \in Models /\ (attempts >= 1) \in BOOLEAN
  BY TypeOKParts DEF Counts
<1>2. r \in TurnStates /\ r.pc = "routed" /\ r.target = current /\ r.input = Off.input
  BY <1>1, OffFacts DEF TurnStates
<1>3. turn' = [turn EXCEPT ![t] = IF attempts = MaxRetries THEN Off ELSE r]
  BY DEF TokenLimit
<1> HIDE DEF r
<1>4. TurnShape(r)
  BY <1>1, <1>2, OffFacts, ConstantFacts DEF TurnShape
<1>5. GoesOn(t)
  BY <1>2, <1>3, <1>4, OffFacts DEF GoesOn, Becomes
<1>6. QED
  BY <1>5 DEF SyncStep, TokenLimit, NoneIsCleared

LEMMA StartEmergencyStep ==
  ASSUME TypeOK, NEW t \in Turns, StartEmergency(t)
  PROVE  SyncStep(t) \/ BeginStep(t)
<1> DEFINE q == turn[t]  m == q.target  c == Synced(conv[m])  list == SplitList(ListOf(c))
           r == [q EXCEPT !.pc = "summarising", !.input = list, !.mark = Len(c.messages),
                          !.dropped = c.dropped]
<1>1. /\ q.pc = "routed" /\ conv' = [conv EXCEPT ![m] = c]
      /\ turn' = [turn EXCEPT ![t] = IF c.exists /\ Size(list) >= MinEmergency THEN r ELSE Off]
      /\ NoneIsCleared /\ UNCHANGED <<last, mishaps>>
  BY DEF StartEmergency, NoneIsCleared
<1>2. TurnShape(q) /\ conv \in [Models -> Conversations]
  BY TypeOKParts
<1>3. q \in TurnStates /\ m \in Models
  BY <1>1, <1>2, TurnFacts
<1>4. Syncing(m) /\ conv'[m] = c
  BY <1>1, <1>2, <1>3 DEF Syncing
<1>5. ConvShape(c)
  BY <1>3, TypeOKParts, SyncedFacts DEF Syncs
<1>6. CASE c.exists /\ Size(list) >= MinEmergency
  <2>1. c.dropped \in SUBSET Items /\ c.messages \in Seq(Items) /\ Len(c.messages) \in Nat
    BY <1>5 DEF ConvShape, Conversations
  <2>2. list \in Lists /\ IsList(list) /\ Size(list) \in Nat
    BY <1>5, ListOfFacts, SplitListFacts
  <2> HIDE DEF list, c, q
  <2>3. /\ r \in TurnStates /\ r.pc = "summarising" /\ r.input = list /\ r.mark = Len(c.messages)
        /\ r.dropped = c.dropped /\ r.target = m
    BY <1>3, <2>1, <2>2 DEF TurnStates
  <2>4. turn' = [turn EXCEPT ![t] = r] /\ Size(list) >= 2
    BY <1>1, <1>6, <2>2, ConstantFacts
  <2> HIDE DEF r, m
  <2>5. TurnShape(r)
    BY <1>3, <2>2, <2>3, <2>4, OffFacts, ConstantFacts DEF TurnShape
  <2>6. Begun(r, m, m)
    BY <1>3, <1>4, <2>3, <2>4 DEF Begun, list
  <2>7. QED
    BY <1>1, <1>3, <1>4, <2>4, <2>5, <2>6 DEF BeginStep, Becomes
<1>7. CASE ~(c.exists /\ Size(list) >= MinEmergency)
  <2>1. GoesOn(t)
    BY <1>1, <1>7, OffFacts DEF GoesOn, Becomes
  <2>2. QED
    BY <1>1, <1>3, <1>4, <2>1 DEF SyncStep
<1>8. QED
  BY <1>6, <1>7

LEMMA StartCompactionStep ==
  ASSUME TypeOK, NEW t \in Turns, StartCompaction(t)
  PROVE  BeginStep(t)
<1> DEFINE q == turn[t]  target == q.target
           synced == [conv EXCEPT ![current] = Synced(@)]
           switch == current # target
           from == IF switch THEN Best(target, synced) ELSE {current}
           r(x) == [q EXCEPT !.pc = "summarising", !.input = SplitList(ListOf(synced[x])),
                             !.mark = Len(synced[target].messages),
                             !.dropped = synced[x].dropped, !.switch = switch]
<1>1. /\ q.pc = "routed" /\ conv' = synced
      /\ Size(SplitList(ListOf(synced[current]))) >= MinMessages
      /\ \E x \in from : turn' = [turn EXCEPT ![t] = r(x)]
      /\ NoneIsCleared /\ UNCHANGED <<last, mishaps>>
  BY DEF StartCompaction, NoneIsCleared
<1>2. TurnShape(q) /\ conv \in [Models -> Conversations] /\ current \in Models
  BY TypeOKParts DEF Counts
<1>3. q \in TurnStates /\ target \in Models
  BY <1>1, <1>2, TurnFacts
<1>4. Syncing(current)
  BY <1>1, <1>2 DEF Syncing
<1>5. \A m \in Models : ConvShape(synced[m])
  <2>1. ConvShape(Synced(conv[current]))
    BY <1>2, TypeOKParts, SyncedFacts DEF Syncs
  <2>2. QED
    BY <1>2, <2>1, TypeOKParts
<1>6. PICK x \in from : turn' = [turn EXCEPT ![t] = r(x)]
  BY <1>1
<1> HIDE DEF synced, q
<1>7. /\ x \in Models /\ Size(SplitList(ListOf(synced[x]))) > 0
      /\ ~switch => x = target /\ current = target /\ Size(SplitList(ListOf(synced[x]))) >= 2
  <2>1. CASE switch
    <3>1. x \in Models /\ Size(ListOf(synced[x])) > 0
      BY <2>1 DEF Best
    <3>2. IsList(ListOf(synced[x]))
      BY <1>5, <3>1, ListOfFacts
    <3>3. QED
      BY <2>1, <3>1, <3>2, SplitListFacts
  <2>2. CASE ~switch
    <3>1. x = current /\ current = target
      BY <2>2
    <3>2. IsList(ListOf(synced[x]))
      BY <1>2, <1>5, <3>1, ListOfFacts
    <3>3. /\ Size(SplitList(ListOf(synced[x]))) \in Nat
          /\ Size(SplitList(ListOf(synced[x]))) >= MinMessages
      BY <1>1, <3>1, <3>2, SplitListFacts
    <3>4. QED
      BY <1>2, <3>1, <3>3, ConstantFacts
  <2>3. QED
    BY <2>1, <2>2
<1>8. /\ synced[x].dropped \in SUBSET Items /\ Len(synced[target].messages) \in Nat
  BY <1>3, <1>5, <1>7 DEF ConvShape, Conversations
<1> DEFINE list == SplitList(ListOf(synced[x]))
<1>9. IsList(list) /\ list \in Lists
  BY <1>5, <1>7, ListOfFacts, SplitListFacts
<1> HIDE DEF list
<1>10. r(x) = [q EXCEPT !.pc = "summarising", !.input = list,
                        !.mark = Len(synced[target].messages),
                        !.dropped = synced[x].dropped, !.switch = switch]
  BY DEF list
<1>11. switch \in BOOLEAN
  OBVIOUS
<1> HIDE DEF target, switch
<1>12. /\ r(x) \in TurnStates /\ r(x).pc = "summarising" /\ r(x).input = list
       /\ r(x).mark = Len(synced[target].messages) /\ r(x).dropped = synced[x].dropped
       /\ r(x).target = q.target /\ r(x).switch = switch
  <2> HIDE DEF r
  <2>1. QED
    BY <1>3, <1>8, <1>9, <1>10, <1>11 DEF TurnStates
<1> HIDE DEF r
<1>13. TurnShape(r(x))
  BY <1>3, <1>7, <1>9, <1>12, OffFacts, ConstantFacts DEF TurnShape, list, target
<1>14. Begun(r(x), current, x)
  BY <1>1, <1>3, <1>7, <1>12 DEF Begun, list, target
<1>15. QED
  BY <1>1, <1>2, <1>4, <1>6, <1>7, <1>13, <1>14 DEF BeginStep, Becomes

LEMMA EndCompactionStep ==
  ASSUME TypeOK, NEW t \in Turns, EndCompaction(t)
  PROVE  EndStep(t)
<1>1. TurnShape(turn[t]) /\ turn[t].pc = "summarising" /\ turn' = [turn EXCEPT ![t] = Done(t)]
  BY TypeOKParts DEF EndCompaction
<1>2. TurnShape(Done(t)) /\ Done(t).pc # "summarising" /\ turn[t].target \in Models
  BY <1>1, DoneFacts, TurnFacts
<1>3. QED
  BY <1>1, <1>2 DEF EndStep, GoesOn, Becomes

LEMMA CompactTooLittleStep ==
  ASSUME TypeOK, NEW t \in Turns, CompactTooLittle(t)
  PROVE  TooLittleStep(t)
<1>1. TurnShape(turn[t]) /\ turn[t].pc = "routed" /\ turn' = [turn EXCEPT ![t] = Done(t)]
  BY TypeOKParts DEF CompactTooLittle
<1>2. TurnShape(Done(t)) /\ Done(t).pc # "summarising" /\ turn[t].target \in Models
  BY <1>1, DoneFacts, TurnFacts
<1>3. QED
  BY <1>1, <1>2 DEF TooLittleStep, GoesOn, Becomes

LEMMA TurnStepFacts ==
  ASSUME TypeOK, NEW t \in Turns, StartTurn(t) \/ Proceeds(t)
  PROVE  TurnSteps(t)
BY StartTurnStep, RoutedStep, SkipCompactionStep, StartCompactionStep, CompactTooLittleStep,
   StartEmergencyStep, EndCompactionStep, GetMessagesStep, AnswerStep, TokenLimitStep
   DEF Proceeds, TurnSteps

(* What a turn stores at the end of a compaction.                          *)
LEMMA EndFacts ==
  ASSUME TypeOK, NEW t \in Turns, EndStep(t)
  PROVE  LET q == turn[t] IN
         /\ q.pc = "summarising" /\ q.target \in Models /\ TurnShape(q) /\ NoneIsCleared
         /\ last' = last
         /\ mishaps' = mishaps
              \cup (IF ~q.attached /\ ~q.emergency THEN {"clear"} ELSE {})
              \cup (IF q.switch THEN {"switch"} ELSE {})
         /\ \E r : /\ Condenses(r, q.input, q.dropped)
                   /\ conv' = IF Stored(t)
                              THEN [conv EXCEPT ![q.target] =
                                      Compacted(conv[q.target], r.list, q.mark, r.dropped)]
                              ELSE conv
<1> DEFINE q == turn[t]
<1>1. TurnShape(q) /\ conv \in [Models -> Conversations] /\ q.target \in Models
  BY TypeOKParts DEF EndStep
<1>2. IsList(q.input) /\ q.dropped \in SUBSET Items
  BY <1>1, TurnFacts
<1>3. PICK r \in Results(q.input, q.dropped) :
         conv' = IF Stored(t)
                 THEN [conv EXCEPT ![q.target] =
                         Compacted(conv[q.target], r.list, q.mark, r.dropped)]
                 ELSE conv
  BY <1>1 DEF EndStep, EndCompaction
<1>4. Condenses(r, q.input, q.dropped)
  BY <1>2, ResultsFacts
<1>5. \E x : /\ Condenses(x, q.input, q.dropped)
             /\ conv' = IF Stored(t)
                        THEN [conv EXCEPT ![q.target] =
                                Compacted(conv[q.target], x.list, q.mark, x.dropped)]
                        ELSE conv
  BY <1>3, <1>4
<1>6. QED
  BY <1>1, <1>5 DEF EndStep, EndCompaction, NoneIsCleared

(* A compaction of too little: the list that is stored is the one there    *)
(* was, or the array of the messages.                                      *)
LEMMA TooLittleFacts ==
  ASSUME TypeOK, NEW t \in Turns, TooLittleStep(t)
  PROVE  LET target == turn[t].target  synced == [conv EXCEPT ![current] = Synced(conv[current])]
             c == synced[target]  from == synced[current] IN
         /\ target \in Models /\ current \in Models /\ NoneIsCleared /\ last' = last
         /\ "skip" \in mishaps' /\ mishaps \subseteq mishaps'
         /\ current # target => "switch" \in mishaps'
         /\ ListOf(from).tail # << >>
         /\ \A m \in Models : ConvShape(synced[m])
         /\ synced \in [Models -> Conversations] /\ ListOf(from).tail \in Seq(Items)
         /\ \E list : /\ \/ list = Aliased /\ current = target /\ ~Real(from.list)
                         \/ list = ListOf(from) /\ (current # target \/ Real(from.list))
                      /\ IsList(ListOf(from))
                      /\ conv' = [synced EXCEPT ![target] =
                                    Compacted(c, list, Len(c.messages), from.dropped)]
<1> DEFINE target == turn[t].target  synced == [conv EXCEPT ![current] = Synced(conv[current])]
           c == synced[target]  from == synced[current]
           same == current = target /\ from.list \in {None, Aliased}
           list == IF same THEN Aliased ELSE ListOf(from)
<1>1. /\ target \in Models /\ current \in Models /\ conv \in [Models -> Conversations]
      /\ NoneIsCleared /\ last' = last
      /\ mishaps' = mishaps \cup {"skip"} \cup (IF current # target THEN {"switch"} ELSE {})
      /\ \E i \in DOMAIN ListOf(from).tail : IsOversized(ListOf(from).tail[i])
      /\ conv' = [synced EXCEPT ![target] = Compacted(c, list, Len(c.messages), from.dropped)]
  BY TypeOKParts DEF TooLittleStep, CompactTooLittle, NoneIsCleared, Counts
<1>2. ConvShape(Synced(conv[current])) /\ \A m \in Models : ConvShape(conv[m])
  BY <1>1, TypeOKParts, SyncedFacts DEF Syncs
<1>3. \A m \in Models : ConvShape(synced[m])
  BY <1>1, <1>2
<1>4. synced \in [Models -> Conversations]
  BY <1>1, <1>2 DEF ConvShape
<1> HIDE DEF synced
<1>5. IsList(ListOf(from)) /\ ListOf(from).tail \in Seq(Items)
  BY <1>1, <1>3, ListOfFacts DEF Lists
<1>6. ListOf(from).tail # << >>
  BY <1>1
<1>7. \/ list = Aliased /\ current = target /\ ~Real(from.list)
      \/ list = ListOf(from) /\ (current # target \/ Real(from.list))
  BY DEF Real
<1> HIDE DEF list
<1>8. QED
  BY <1>1, <1>3, <1>4, <1>5, <1>6, <1>7 DEF synced
-----------------------------------------------------------------------------
LEMMA BecomesFacts ==
  ASSUME TypeOK, NEW t \in Turns, NEW r, Becomes(t, r)
  PROVE  /\ turn' \in [Turns -> TurnStates] /\ \A u \in Turns : TurnShape(turn'[u])
         /\ turn'[t] = r /\ \A u \in Turns \ {t} : turn'[u] = turn[u]
<1>1. turn \in [Turns -> TurnStates] /\ (\A u \in Turns : TurnShape(turn[u])) /\ r \in TurnStates
  BY TypeOKParts DEF Becomes, TurnShape
<1>2. QED
  BY <1>1 DEF Becomes

(* The conversations are well formed, and none is lost.                    *)
ConvsKept ==
  /\ conv' \in [Models -> Conversations] /\ \A m \in Models : ConvShape(conv'[m])
  /\ \A m \in Models : conv[m].exists => conv'[m].exists

LEMMA SyncingFacts ==
  ASSUME TypeOK, NEW m \in Models, Syncing(m)
  PROVE  /\ ConvsKept /\ Syncs(conv'[m], conv[m])
         /\ conv'[m] = Synced(conv[m])
         /\ \A n \in Models \ {m} : conv'[n] = conv[n]
<1>1. conv \in [Models -> Conversations] /\ \A n \in Models : ConvShape(conv[n])
  BY TypeOKParts
<1>2. Syncs(Synced(conv[m]), conv[m])
  BY <1>1, SyncedFacts
<1>3. /\ conv'[m] = Synced(conv[m]) /\ \A n \in Models \ {m} : conv'[n] = conv[n]
  BY <1>1 DEF Syncing
<1>4. Synced(conv[m]) \in Conversations
  BY <1>2 DEF Syncs, ConvShape
<1>5. conv' \in [Models -> Conversations]
  BY <1>1, <1>4 DEF Syncing
<1>6. ConvsKept
  BY <1>1, <1>2, <1>3, <1>5 DEF ConvsKept, Syncs
<1>7. QED
  BY <1>2, <1>3, <1>6

LEMMA TurnStepTypes ==
  ASSUME TypeOK, NEW t \in Turns, TurnSteps(t)
  PROVE  /\ ConvsKept /\ NoneIsCleared
         /\ turn' \in [Turns -> TurnStates] /\ \A u \in Turns : TurnShape(turn'[u])
<1>1. conv \in [Models -> Conversations] /\ \A n \in Models : ConvShape(conv[n])
  BY TypeOKParts
<1>2. ASSUME conv' = conv PROVE ConvsKept
  BY <1>1, <1>2 DEF ConvsKept
<1>3. ASSUME GoesOn(t)
      PROVE  turn' \in [Turns -> TurnStates] /\ \A u \in Turns : TurnShape(turn'[u])
  BY <1>3, BecomesFacts DEF GoesOn
<1>4. CASE SyncStep(t)
  BY <1>2, <1>3, <1>4, SyncingFacts DEF SyncStep
<1>5. CASE AddStep(t)
  <2>1. current \in Models
    BY TypeOKParts DEF Counts
  <2>2. ConvsKept
    BY <1>1, <1>5, <2>1, AppendedFacts DEF AddStep, ConvsKept
  <2>3. QED
    BY <1>3, <1>5, <2>2 DEF AddStep
<1>6. CASE BeginStep(t)
  BY <1>6, SyncingFacts, BecomesFacts DEF BeginStep
<1>7. CASE TooLittleStep(t)
  <2> DEFINE target == turn[t].target
             synced == [conv EXCEPT ![current] = Synced(conv[current])]
             from == synced[current]
             d(list) == Compacted(synced[target], list, Len(synced[target].messages), from.dropped)
  <2>1. /\ target \in Models /\ current \in Models /\ NoneIsCleared
        /\ \A m \in Models : ConvShape(synced[m])
        /\ synced \in [Models -> Conversations] /\ IsList(ListOf(from))
    BY <1>7, TooLittleFacts
  <2>2. PICK list : /\ list = Aliased \/ list = ListOf(from)
                    /\ conv' = [synced EXCEPT ![target] = d(list)]
    BY <1>7, TooLittleFacts
  <2>3. \A m \in Models : conv[m].exists => synced[m].exists
    BY <1>1, <2>1, SyncedFacts DEF Syncs
  <2> HIDE DEF synced
  <2>4. /\ Len(synced[target].messages) \in Nat /\ from.dropped \in SUBSET Items
        /\ ConvShape(synced[target])
    BY <2>1 DEF Conversations
  <2>9. list = Aliased \/ IsList(list)
    BY <2>1, <2>2
  <2>5. ConvShape(d(list)) /\ d(list).exists
    <3> HIDE DEF target
    <3>1. QED
      BY <2>4, <2>9, CompactedFacts
  <2> HIDE DEF d, target
  <2>6. d(list) \in Conversations
    BY <2>5 DEF ConvShape
  <2>7. ConvsKept
    BY <2>1, <2>2, <2>3, <2>5, <2>6 DEF ConvsKept
  <2>8. QED
    BY <1>3, <1>7, <2>1, <2>7 DEF TooLittleStep
<1>8. CASE EndStep(t)
  <2> DEFINE q == turn[t]
             d(r) == Compacted(conv[q.target], r.list, q.mark, r.dropped)
  <2>1. q.target \in Models /\ TurnShape(q) /\ NoneIsCleared
    BY <1>8, EndFacts
  <2>2. PICK r : /\ Condenses(r, q.input, q.dropped)
                 /\ conv' = IF Stored(t) THEN [conv EXCEPT ![q.target] = d(r)] ELSE conv
    BY <1>8, EndFacts
  <2>3. IsList(r.list) /\ r.dropped \in SUBSET Items /\ q.mark \in Nat
    BY <2>1, <2>2, TurnFacts DEF Condenses
  <2>4. ConvShape(d(r)) /\ d(r).exists
    BY <1>1, <2>1, <2>3, CompactedFacts
  <2> HIDE DEF d, q
  <2>5. d(r) \in Conversations
    BY <2>4 DEF ConvShape
  <2>6. ConvsKept
    BY <1>1, <2>1, <2>2, <2>4, <2>5 DEF ConvsKept
  <2>7. QED
    BY <1>3, <1>8, <2>1, <2>6 DEF EndStep
<1>9. QED
  BY <1>4, <1>5, <1>6, <1>7, <1>8 DEF TurnSteps, TooLittleStep

(* The turn r is q after a clear.                                          *)
Detached(r, q) ==
  /\ TurnShape(r) /\ r.pc = q.pc /\ r.target = q.target /\ r.input = q.input
  /\ r.mark = q.mark /\ r.dropped = q.dropped /\ r.switch = q.switch
  /\ r.attached = (q.pc # "summarising")

LEMMA ClearTypes ==
  ASSUME TypeOK, ClearConversation
  PROVE  /\ conv' \in [Models -> Conversations] /\ \A m \in Models : ConvShape(conv'[m])
         /\ \A m \in Models : conv'[m].exists = conv[m].exists
         /\ turn' \in [Turns -> TurnStates] /\ \A t \in Turns : Detached(turn'[t], turn[t])
<1>1. /\ conv \in [Models -> Conversations] /\ \A n \in Models : ConvShape(conv[n])
      /\ turn \in [Turns -> TurnStates] /\ \A t \in Turns : TurnShape(turn[t])
  BY TypeOKParts
<1>2. /\ conv' = [m \in Models |-> IF conv[m].exists THEN Emptied ELSE conv[m]]
      /\ turn' = [t \in Turns |-> [turn[t] EXCEPT !.attached = turn[t].pc # "summarising"]]
  BY DEF ClearConversation
<1>3. Emptied.exists = TRUE /\ ConvShape(Emptied) /\ Emptied \in Conversations
  BY NoConversationFacts DEF Emptied, NoConversation, ConvShape
<1>4. /\ conv' \in [Models -> Conversations] /\ \A m \in Models : ConvShape(conv'[m])
      /\ \A m \in Models : conv'[m].exists = conv[m].exists
  <2>1. \A m \in Models : conv[m].exists \in BOOLEAN
    BY <1>1 DEF Conversations
  <2>2. QED
    BY <1>1, <1>2, <1>3, <2>1
<1>5. ASSUME NEW q, TurnShape(q)
      PROVE  Detached([q EXCEPT !.attached = q.pc # "summarising"], q)
  <2> DEFINE r == [q EXCEPT !.attached = q.pc # "summarising"]
  <2>1. /\ r \in TurnStates /\ r.pc = q.pc /\ r.target = q.target /\ r.input = q.input
        /\ r.mark = q.mark /\ r.dropped = q.dropped /\ r.switch = q.switch
        /\ r.attached = (q.pc # "summarising")
    BY <1>5 DEF TurnShape, TurnStates
  <2>2. ASSUME q = Off PROVE r = Off
    <3>1. (q.pc # "summarising") = TRUE
      BY <2>2, OffFacts
    <3>2. r = [Off EXCEPT !.attached = TRUE]
      BY <2>2, <3>1
    <3>3. [Off EXCEPT !.attached = TRUE] = Off
      <4> DEFINE p == Off
      <4>1. p \in TurnStates /\ p.attached = TRUE
        BY OffFacts DEF Off
      <4> HIDE DEF p
      <4>2. [p EXCEPT !.attached = TRUE] = p
        BY <4>1 DEF TurnStates
      <4>3. QED
        BY <4>2 DEF p
    <3>4. QED
      BY <3>2, <3>3
  <2> HIDE DEF r
  <2>3. TurnShape(r)
    BY <1>5, <2>1, <2>2, OffFacts DEF TurnShape
  <2>4. QED
    BY <2>1, <2>3 DEF r, Detached
<1>6. \A t \in Turns : /\ turn'[t] = [turn[t] EXCEPT !.attached = turn[t].pc # "summarising"]
  BY <1>2
<1>7. \A t \in Turns : Detached(turn'[t], turn[t])
  BY <1>1, <1>5, <1>6
<1>8. turn' \in [Turns -> TurnStates]
  <2>1. \A t \in Turns : turn'[t] \in TurnStates
    BY <1>7 DEF TurnShape, Detached
  <2>2. QED
    BY <1>2, <2>1
<1>9. QED
  BY <1>4, <1>7, <1>8

(* What a change of model copies: the messages, and the list there is.     *)
From(m) == IF conv[preferred].list = None THEN conv[m] ELSE conv[preferred]
Copies(d, old, from) ==
  /\ ConvShape(d) /\ d.messages = old.messages /\ old.messages # << >>
  /\ d.mark = from.mark /\ d.dropped = from.dropped
  /\ d.list = IF from.list = Aliased THEN Plain(from.messages) ELSE from.list

LEMMA SwitchFacts ==
  ASSUME TypeOK, NEW m \in Models, SwitchModel(m)
  PROVE  /\ ConvsKept /\ conv'[m].exists /\ preferred \in Models /\ preferred' = m
         /\ \A n \in Models \ {m} : conv'[n] = conv[n]
         /\ \/ Copies(conv'[m], conv[preferred], From(m)) /\ conv[m].messages = << >>
            \/ /\ conv'[m].messages = conv[m].messages /\ conv'[m].list = conv[m].list
               /\ conv'[m].mark = conv[m].mark /\ conv'[m].dropped = conv[m].dropped
         /\ turn' \in [Turns -> TurnStates] /\ \A t \in Turns : TurnShape(turn'[t])
         /\ \A t \in Turns : \/ turn'[t] = turn[t]
                             \/ turn[t].pc = "routing" /\ turn'[t].pc = "routing"
         /\ UNCHANGED <<last, cleared, mishaps>>
<1> DEFINE old == conv[preferred]  c == conv[m]  from == From(m)
           list == IF from.list = Aliased THEN Plain(from.messages) ELSE from.list
           e == [from EXCEPT !.exists = TRUE, !.messages = old.messages, !.list = list]
           f == [c EXCEPT !.exists = TRUE]
<1>1. /\ conv \in [Models -> Conversations] /\ \A n \in Models : ConvShape(conv[n])
      /\ turn \in [Turns -> TurnStates] /\ \A t \in Turns : TurnShape(turn[t])
      /\ preferred \in Models /\ old.exists
  BY TypeOKParts DEF Counts
<1>2. /\ conv' = [conv EXCEPT ![m] = IF c.messages = << >> /\ old.messages # << >> THEN e ELSE f]
      /\ turn' = [t \in Turns |-> IF turn[t].pc = "routing" THEN [turn[t] EXCEPT !.fresh = FALSE]
                                  ELSE turn[t]]
      /\ preferred' = m /\ UNCHANGED <<last, cleared, mishaps>>
  BY DEF SwitchModel, From
<1>3. /\ ConvShape(old) /\ ConvShape(c) /\ old \in Conversations /\ c \in Conversations
      /\ ConvShape(from) /\ from \in Conversations
  BY <1>1 DEF From
<1>4. /\ ConvShape(e) /\ e \in Conversations /\ e.exists /\ e.messages = old.messages
      /\ e.mark = from.mark /\ e.dropped = from.dropped /\ e.list = list
  <2> HIDE DEF from
  <2>1. /\ Plain(from.messages) \in Lists /\ IsList(Plain(from.messages))
        /\ Real(Plain(from.messages))
    BY <1>3, PlainFacts DEF Conversations
  <2>2. /\ e \in Conversations /\ e.exists /\ e.messages = old.messages
        /\ e.mark = from.mark /\ e.dropped = from.dropped /\ e.list = list
    BY <1>1, <1>3, <2>1 DEF Conversations
  <2> HIDE DEF e
  <2>3. ConvShape(e)
    BY <1>3, <2>1, <2>2 DEF ConvShape, Real
  <2>4. QED
    BY <2>2, <2>3
<1>5. /\ ConvShape(f) /\ f \in Conversations /\ f.exists /\ f.messages = c.messages
      /\ f.mark = c.mark /\ f.dropped = c.dropped /\ f.list = c.list
  <2>1. /\ f \in Conversations /\ f.exists /\ f.messages = c.messages
        /\ f.mark = c.mark /\ f.dropped = c.dropped /\ f.list = c.list
    BY <1>3 DEF Conversations
  <2> HIDE DEF f
  <2>2. ConvShape(f)
    BY <1>3, <2>1 DEF ConvShape
  <2>3. QED
    BY <2>1, <2>2
<1> HIDE DEF e, f
<1>6. /\ conv'[m] = IF c.messages = << >> /\ old.messages # << >> THEN e ELSE f
      /\ \A n \in Models \ {m} : conv'[n] = conv[n]
      /\ conv' \in [Models -> Conversations]
  BY <1>1, <1>2, <1>4, <1>5
<1>7. ConvsKept /\ conv'[m].exists
  BY <1>1, <1>4, <1>5, <1>6 DEF ConvsKept
<1>8. \/ Copies(conv'[m], conv[preferred], From(m)) /\ conv[m].messages = << >>
      \/ /\ conv'[m].messages = conv[m].messages /\ conv'[m].list = conv[m].list
         /\ conv'[m].mark = conv[m].mark /\ conv'[m].dropped = conv[m].dropped
  BY <1>4, <1>5, <1>6 DEF Copies
<1>9. ASSUME NEW q, TurnShape(q), q.pc = "routing"
      PROVE  TurnShape([q EXCEPT !.fresh = FALSE]) /\ [q EXCEPT !.fresh = FALSE].pc = "routing"
  <2> DEFINE r == [q EXCEPT !.fresh = FALSE]
  <2>1. /\ r \in TurnStates /\ r.pc = q.pc /\ r.target = q.target /\ r.input = q.input
    BY <1>9 DEF TurnShape, TurnStates
  <2> HIDE DEF r
  <2>2. TurnShape(r)
    BY <1>9, <2>1, OffFacts DEF TurnShape
  <2>3. QED
    BY <1>9, <2>1, <2>2 DEF r
<1>10. \A t \in Turns : /\ TurnShape(turn'[t])
                        /\ \/ turn'[t] = turn[t]
                           \/ turn[t].pc = "routing" /\ turn'[t].pc = "routing"
  BY <1>1, <1>2, <1>9
<1>11. turn' \in [Turns -> TurnStates]
  <2>1. \A t \in Turns : turn'[t] \in TurnStates
    BY <1>10 DEF TurnShape
  <2>2. QED
    BY <1>2, <2>1
<1>12. QED
  BY <1>1, <1>2, <1>6, <1>7, <1>8, <1>10, <1>11

(* The counters, and the model.                                            *)
Tallies ==
  /\ current \in Models /\ attempts \in 0..MaxRetries
  /\ last \in 0..MaxMessages /\ cleared \in 0..last
  /\ events \in 0..MaxEvents
  /\ mishaps \subseteq {"clear", "switch", "skip"}

LEMMA TalliesKept ==
  ASSUME TypeOK, NEW t \in Turns, StartTurn(t) \/ Proceeds(t)
  PROVE  Tallies'
<1>1. /\ current \in Models /\ attempts \in 0..MaxRetries
      /\ last \in 0..MaxMessages /\ cleared \in 0..last /\ events \in 0..MaxEvents
      /\ mishaps \subseteq {"clear", "switch", "skip"}
      /\ MaxMessages \in Nat /\ MaxRetries \in Nat /\ MaxEvents \in Nat
  BY TypeOKParts, ConstantFacts DEF Counts
<1>2. CASE StartTurn(t)
  BY <1>1, <1>2 DEF StartTurn, Tallies
<1>3. ASSUME NEW m \in Models, Routed(t, m) PROVE Tallies'
  <2>1. events' \in 0..MaxEvents /\ current' \in Models
    BY <1>1, <1>3 DEF Routed
  <2>2. QED
    BY <1>1, <1>3, <2>1 DEF Routed, Tallies
<1>4. CASE SkipCompaction(t) \/ StartCompaction(t) \/ StartEmergency(t) \/ GetMessagesForAI(t)
  BY <1>1, <1>4
     DEF SkipCompaction, StartCompaction, StartEmergency, GetMessagesForAI, Tallies
<1>5. CASE CompactTooLittle(t) \/ EndCompaction(t)
  <2>1. mishaps' \subseteq {"clear", "switch", "skip"}
    BY <1>1, <1>5 DEF CompactTooLittle, EndCompaction
  <2>2. UNCHANGED <<current, attempts, last, events, cleared>>
    BY <1>5 DEF CompactTooLittle, EndCompaction
  <2>3. QED
    BY <1>1, <2>1, <2>2 DEF Tallies
<1>6. CASE Answer(t)
  <2>1. attempts' \in 0..MaxRetries /\ last' \in 0..MaxMessages /\ last' >= last
    BY <1>1, <1>6 DEF Answer
  <2>2. UNCHANGED <<current, events, cleared, mishaps>>
    BY <1>6 DEF Answer
  <2>3. QED
    BY <1>1, <2>1, <2>2 DEF Tallies
<1>7. CASE TokenLimit(t)
  BY <1>1, <1>7 DEF TokenLimit, Tallies
<1>8. QED
  BY <1>2, <1>3, <1>4, <1>5, <1>6, <1>7 DEF Proceeds

LEMMA InitTypes == Init => TypeOK
<1> SUFFICES ASSUME Init PROVE TypeOK
  OBVIOUS
<1>1. /\ preferred \in Models /\ current = preferred
      /\ conv = [m \in Models |-> IF m = preferred THEN Emptied ELSE NoConversation]
      /\ turn = [t \in Turns |-> Off] /\ attempts = 0 /\ last = 0 /\ events = 0
      /\ cleared = 0 /\ mishaps = {}
  BY DEF Init
<1>2. Emptied.exists /\ Emptied \in Conversations /\ NoConversation \in Conversations
  BY NoConversationFacts DEF ConvShape, Emptied, NoConversation
<1>3. conv \in [Models -> Conversations] /\ \A m \in Models : ConvShape(conv[m])
  BY <1>1, <1>2, NoConversationFacts
<1>4. turn \in [Turns -> TurnStates] /\ \A t \in Turns : TurnShape(turn[t])
  BY <1>1, OffFacts
<1>5. Counts
  BY <1>1, <1>2, ConstantFacts DEF Counts
<1>6. QED
  BY <1>3, <1>4, <1>5, TypeOKParts

LEMMA TypeOKNext ==
  ASSUME conv' \in [Models -> Conversations], turn' \in [Turns -> TurnStates],
         \A m \in Models : ConvShape(conv'[m]), \A t \in Turns : TurnShape(turn'[t]),
         Counts'
  PROVE  TypeOK'
BY DEF TypeOK, ConvShape, TurnShape, Real, Counts

LEMMA NextTypes == TypeOK /\ [Next]_vars => TypeOK'
<1> SUFFICES ASSUME TypeOK, [Next]_vars PROVE TypeOK'
  OBVIOUS
<1>1. /\ conv \in [Models -> Conversations] /\ turn \in [Turns -> TurnStates]
      /\ (\A m \in Models : ConvShape(conv[m])) /\ (\A t \in Turns : TurnShape(turn[t]))
      /\ Counts
  BY TypeOKParts
<1>2. ASSUME NEW t \in Turns, StartTurn(t) \/ Proceeds(t) PROVE TypeOK'
  <2>1. Tallies'
    BY <1>2, TalliesKept
  <2>2. TurnSteps(t)
    BY <1>2, TurnStepFacts
  <2>3. /\ ConvsKept /\ NoneIsCleared
        /\ turn' \in [Turns -> TurnStates] /\ \A u \in Turns : TurnShape(turn'[u])
    BY <2>2, TurnStepTypes
  <2>4. Counts'
    BY <1>1, <2>1, <2>3 DEF Tallies, Counts, ConvsKept, NoneIsCleared
  <2>5. QED
    BY <2>3, <2>4, TypeOKNext DEF ConvsKept
<1>3. CASE ClearConversation
  <2>1. /\ conv' \in [Models -> Conversations] /\ \A m \in Models : ConvShape(conv'[m])
        /\ \A m \in Models : conv'[m].exists = conv[m].exists
        /\ turn' \in [Turns -> TurnStates] /\ \A t \in Turns : TurnShape(turn'[t])
    BY <1>3, ClearTypes DEF Detached
  <2>2. Counts'
    BY <1>1, <1>3, <2>1, ConstantFacts DEF ClearConversation, Counts
  <2>3. QED
    BY <2>1, <2>2, TypeOKNext
<1>4. ASSUME NEW m \in Models, SwitchModel(m) PROVE TypeOK'
  <2>1. /\ ConvsKept /\ conv'[m].exists /\ preferred' = m
        /\ turn' \in [Turns -> TurnStates] /\ \A t \in Turns : TurnShape(turn'[t])
    BY <1>4, SwitchFacts
  <2>2. Counts'
    BY <1>1, <1>4, <2>1, ConstantFacts DEF SwitchModel, Counts
  <2>3. QED
    BY <2>1, <2>2, TypeOKNext DEF ConvsKept
<1>5. CASE UNCHANGED vars
  <2>1. Counts'
    BY <1>1, <1>5 DEF vars, Counts
  <2>2. QED
    BY <1>1, <1>5, <2>1, TypeOKNext DEF vars
<1>6. QED
  BY <1>2, <1>3, <1>4, <1>5 DEF Next

(* Type correctness: a conversation that is not there is empty, the        *)
(* preferred model always has one, a summary without a list has no         *)
(* watermark, and no compaction is under way without messages.             *)
THEOREM TypesHold == Spec => []TypeOK
<1>1. Init => TypeOK
  BY InitTypes
<1>2. TypeOK /\ [Next]_vars => TypeOK'
  BY NextTypes
<1>3. QED
  BY <1>1, <1>2, PTL DEF Spec
-----------------------------------------------------------------------------
(* What the syncing of c to d leaves of its messages and its list.         *)
LEMMA SyncsFacts ==
  ASSUME NEW c, ConvShape(c), NEW d, Syncs(d, c)
  PROVE  /\ ConvShape(d) /\ d.exists = c.exists /\ d.dropped = c.dropped
         /\ c.messages \in Seq(Items) /\ d.messages \in Seq(Items)
         /\ Range(d.messages) = Range(c.messages)
         /\ Len(c.messages) \in Nat /\ Len(d.messages) \in Nat
         /\ Len(c.messages) <= Len(d.messages)
         /\ \A i \in 1..Len(c.messages) : d.messages[i] = c.messages[i]
         /\ d.list = Aliased <=> c.list = Aliased
         /\ d.list = None <=> c.list = None
         /\ c.list # Aliased => d.messages = c.messages
         /\ Real(c.list) =>
              /\ c.list.tail \in Seq(Items) /\ d.list.tail \in Seq(Items)
              /\ d.list.under = c.list.under /\ d.list.summed = c.list.summed
              /\ c.list \in Lists /\ d.list \in Lists
              /\ d.list.tail = c.list.tail \o New(c)
              /\ Content(d.list) = Content(c.list) \o New(c)
              /\ d.mark = IF New(c) = << >> THEN c.mark ELSE Len(c.messages)
         /\ New(c) \in Seq(Items) /\ Range(New(c)) \subseteq Range(c.messages)
         /\ Range(New(c)) = {c.messages[i] : i \in (c.mark + 1)..Len(c.messages)}
         /\ Chain(c.messages) => Chain(New(c))
         /\ c.mark \in Nat
<1>1. /\ c \in Conversations /\ c.messages \in Seq(Items) /\ c.mark \in Nat
      /\ d \in Conversations /\ d.messages \in Seq(Items) /\ ConvShape(d)
      /\ d.exists = c.exists /\ d.dropped = c.dropped
      /\ Real(c.list) => IsList(c.list) /\ c.list \in Lists
      /\ Real(d.list) => IsList(d.list) /\ d.list \in Lists
  BY DEF ConvShape, Conversations, Syncs, IsList
<1>2. Len(c.messages) \in Nat /\ c.mark + 1 \in Nat \ {0} /\ Len(c.messages) \in 0..Len(c.messages)
  BY <1>1
<1>3. /\ New(c) \in Seq(Items) /\ Range(New(c)) \subseteq Range(c.messages)
      /\ Range(New(c)) = {c.messages[i] : i \in (c.mark + 1)..Len(c.messages)}
      /\ Chain(c.messages) => Chain(New(c))
  BY <1>1, <1>2, PartFacts DEF New
<1>4. Real(c.list) => c.list.under \in Seq(Items) /\ c.list.tail \in Seq(Items)
  BY <1>1 DEF Lists
<1>5. ASSUME d = c, c.list = None \/ New(c) = << >>, Real(c.list)
      PROVE  d.list.tail = c.list.tail \o New(c) /\ Content(d.list) = Content(c.list) \o New(c)
  <2>1. New(c) = << >>
    BY <1>5 DEF Real
  <2>2. Content(c.list) \in Seq(Items)
    BY <1>1, <1>5, ContentFacts
  <2>3. QED
    BY <1>4, <1>5, <2>1, <2>2, ConcatEmptySeq
<1>6. CASE d = c /\ (c.list = None \/ New(c) = << >>)
  BY <1>1, <1>2, <1>3, <1>4, <1>5, <1>6 DEF Real
<1>7. CASE /\ c.list = Aliased /\ d.list = Aliased
           /\ d.messages = c.messages \o New(c) /\ d.mark = Len(c.messages) /\ New(c) # << >>
  <2>1. /\ Len(d.messages) = Len(c.messages) + Len(New(c)) /\ Len(New(c)) \in Nat
        /\ Range(d.messages) = Range(c.messages) \cup Range(New(c))
    BY <1>1, <1>3, <1>7, ConcatFacts, SeqFacts
  <2>2. \A i \in 1..Len(c.messages) : d.messages[i] = c.messages[i]
    BY <1>1, <1>3, <1>7, ConcatProperties
  <2>3. QED
    BY <1>1, <1>2, <1>3, <1>7, <2>1, <2>2, ConstantFacts DEF Real
<1>8. CASE /\ Real(c.list) /\ Real(d.list)
           /\ d.messages = c.messages /\ d.mark = Len(c.messages)
           /\ d.list.under = c.list.under /\ d.list.summed = c.list.summed
           /\ d.list.tail = c.list.tail \o New(c)
           /\ New(c) # << >>
  <2>1. Content(d.list) = Content(c.list) \o New(c)
    <3> DEFINE u == c.list.under  t == c.list.tail  new == New(c)
    <3>1. u \in Seq(Items) /\ t \in Seq(Items) /\ new \in Seq(Items)
      BY <1>3, <1>4, <1>8
    <3> HIDE DEF u, t, new
    <3>2. (u \o t) \o new = u \o (t \o new)
      BY <3>1, ConcatAgain
    <3>3. Content(d.list) = u \o (t \o new) /\ Content(c.list) = u \o t
      BY <1>8 DEF Content, u, t, new
    <3>4. QED
      BY <3>2, <3>3 DEF new
  <2>2. QED
    BY <1>1, <1>2, <1>3, <1>4, <1>8, <2>1 DEF Real
<1>9. QED
  BY <1>6, <1>7, <1>8 DEF Syncs

(* What is appended to a sequence of messages.                             *)
LEMMA AppendItem ==
  ASSUME NEW s \in Seq(Items), NEW a \in Items
  PROVE  /\ Append(s, a) \in Seq(Items) /\ Len(s) \in Nat /\ Len(Append(s, a)) = Len(s) + 1
         /\ Range(Append(s, a)) = Range(s) \cup {a}
         /\ \A i \in 1..Len(s) : Append(s, a)[i] = s[i]
         /\ Append(s, a)[Len(s) + 1] = a
         /\ Chain(s) /\ Precede(Range(s), {a}) => Chain(Append(s, a))
<1>1. <<a>> \in Seq(Items) /\ Range(<<a>>) = {a} /\ Chain(<<a>>)
  BY DEF Range, Chain
<1>2. Append(s, a) = s \o <<a>>
  BY AppendIsConcat
<1>3. /\ Range(s \o <<a>>) = Range(s) \cup Range(<<a>>)
      /\ Chain(s) /\ Precede(Range(s), Range(<<a>>)) => Chain(s \o <<a>>)
  BY <1>1, ConcatFacts
<1>4. /\ Append(s, a) \in Seq(Items) /\ Len(s) \in Nat /\ Len(Append(s, a)) = Len(s) + 1
      /\ \A i \in 1..Len(s) : Append(s, a)[i] = s[i]
      /\ Append(s, a)[Len(s) + 1] = a
  OBVIOUS
<1>5. QED
  BY <1>1, <1>2, <1>3, <1>4

LEMMA SplitContent ==
  ASSUME NEW list, IsList(list)
  PROVE  /\ Range(Content(SplitList(list))) = Range(list.under) \cup Reach(Range(list.tail))
         /\ Range(Content(list)) \subseteq Items /\ Range(list.tail) \subseteq Items
         /\ Range(list.under) \subseteq Items
         /\ Range(Content(list)) = Range(list.under) \cup Range(list.tail)
<1>1. list \in Lists /\ list.under \in Seq(Items) /\ list.tail \in Seq(Items)
  BY DEF IsList, Lists
<1>2. /\ SplitList(list) \in Lists /\ SplitList(list).under = list.under
      /\ SplitList(list).tail = Split(list.tail)
  BY SplitListFacts
<1>3. Range(Content(SplitList(list))) = Range(list.under) \cup Range(Split(list.tail))
  BY <1>2, ContentFacts
<1>4. QED
  BY <1>1, <1>3, ContentFacts, SplitFacts, SeqFacts

(* The items that a request shows.                                         *)
LEMMA ShownFacts ==
  ASSUME NEW c, ConvShape(c)
  PROVE  /\ Shown(c) \in Seq(Items) /\ Range(Shown(c)) = Reach(Range(Content(ListOf(c))))
         /\ Chain(Content(ListOf(c))) => Chain(Shown(c))
         /\ Range(Content(ListOf(c))) \subseteq Items
         /\ ListOf(c) = IF Real(c.list) THEN c.list ELSE Plain(c.messages)
         /\ ~Real(c.list) => Content(ListOf(c)) = c.messages
         /\ c.messages \in Seq(Items)
<1>1. Content(ListOf(c)) \in Seq(Items)
  BY ListOfFacts, ContentFacts
<1>2. Shown(c) = Split(Content(ListOf(c)))
  BY DEF Shown, Content
<1>3. /\ Shown(c) \in Seq(Items) /\ Range(Shown(c)) = Reach(Range(Content(ListOf(c))))
      /\ Chain(Content(ListOf(c))) => Chain(Shown(c))
  <2> DEFINE items == Content(ListOf(c))
  <2>1. items \in Seq(Items) /\ Shown(c) = Split(items)
    BY <1>1, <1>2
  <2> HIDE DEF items
  <2>2. /\ Shown(c) \in Seq(Items) /\ Range(Shown(c)) = Reach(Range(items))
        /\ Chain(items) => Chain(Shown(c))
    BY <2>1, SplitFacts
  <2>3. QED
    BY <2>2 DEF items
<1>4. Range(Content(ListOf(c))) \subseteq Items
  BY <1>1, SeqFacts
<1>5. QED
  BY <1>3, <1>4, ListOfFacts, PlainFacts
-----------------------------------------------------------------------------
(* Nothing that was cleared is left, in a conversation or in what a turn   *)
(* is summarising, unless the turn will not store it.                      *)
Later(items, n) == \A a \in items : a[1] > n
ConvLater(c, n) ==
  /\ Later(Range(c.messages), n)
  /\ Real(c.list) => Later(Range(Content(c.list)), n)
TurnLater(r, n) ==
  r.pc = "summarising" /\ r.attached => Later(Range(Content(r.input)), n)

Forgotten ==
  "clear" \notin mishaps => /\ \A m \in Models : ConvLater(conv[m], cleared)
                            /\ \A t \in Turns : TurnLater(turn[t], cleared)

LEMMA SyncsLater ==
  ASSUME NEW c, ConvShape(c), NEW d, Syncs(d, c), NEW n, ConvLater(c, n)
  PROVE  ConvLater(d, n)
<1>1. Real(d.list) <=> Real(c.list)
  BY SyncsFacts DEF Real
<1>2. Later(Range(d.messages), n)
  BY SyncsFacts DEF ConvLater
<1>3. ASSUME Real(c.list) PROVE Later(Range(Content(d.list)), n)
  <2>1. /\ Content(d.list) = Content(c.list) \o New(c) /\ New(c) \in Seq(Items)
        /\ Content(c.list) \in Seq(Items) /\ Range(New(c)) \subseteq Range(c.messages)
    BY <1>3, SyncsFacts, ContentFacts
  <2>2. Range(Content(d.list)) = Range(Content(c.list)) \cup Range(New(c))
    BY <2>1, ConcatFacts
  <2>3. QED
    BY <1>3, <2>1, <2>2 DEF ConvLater, Later
<1>4. QED
  BY <1>1, <1>2, <1>3 DEF ConvLater

LEMMA ListOfLater ==
  ASSUME NEW c, ConvShape(c), NEW n, ConvLater(c, n)
  PROVE  /\ Later(Range(Content(ListOf(c))), n)
         /\ Later(Range(Content(SplitList(ListOf(c)))), n)
         /\ Later(Range(Shown(c)), n)
<1>1. /\ Range(Content(ListOf(c))) \subseteq Items
      /\ Later(Range(Content(ListOf(c))), n)
      /\ Range(Shown(c)) = Reach(Range(Content(ListOf(c))))
  BY ShownFacts DEF ConvLater
<1>2. IsList(ListOf(c))
  BY ListOfFacts
<1>3. \A A \in SUBSET Items : Later(A, n) => Later(Reach(A), n)
  BY ReachFacts DEF Later
<1>4. /\ Range(Content(SplitList(ListOf(c)))) = Range(ListOf(c).under) \cup Reach(Range(ListOf(c).tail))
      /\ Range(Content(ListOf(c))) = Range(ListOf(c).under) \cup Range(ListOf(c).tail)
      /\ Range(ListOf(c).tail) \in SUBSET Items
  BY <1>2, SplitContent
<1>5. Later(Range(ListOf(c).under), n) /\ Later(Range(ListOf(c).tail), n)
  BY <1>1, <1>4 DEF Later
<1>6. Later(Reach(Range(ListOf(c).tail)), n)
  BY <1>3, <1>4, <1>5
<1>7. Later(Range(Content(SplitList(ListOf(c)))), n)
  BY <1>4, <1>5, <1>6 DEF Later
<1>8. QED
  BY <1>1, <1>3, <1>7

LEMMA InitForgotten == Init => Forgotten
BY EmptyFacts, OffFacts, ConstantFacts
   DEF Init, Forgotten, ConvLater, TurnLater, Later, Emptied, NoConversation, Real

LEMMA SyncingLater ==
  ASSUME TypeOK, NEW m \in Models, Syncing(m), NEW n, \A k \in Models : ConvLater(conv[k], n)
  PROVE  \A k \in Models : ConvLater(conv'[k], n)
BY SyncingFacts, SyncsLater, TypeOKParts

LEMMA GoesOnLater ==
  ASSUME TypeOK, NEW t \in Turns, GoesOn(t), NEW n, \A u \in Turns : TurnLater(turn[u], n)
  PROVE  \A u \in Turns : TurnLater(turn'[u], n)
BY BecomesFacts DEF GoesOn, TurnLater

LEMMA TurnForgotten ==
  ASSUME TypeOK, Forgotten, NEW t \in Turns, TurnSteps(t)
  PROVE  Forgotten'
<1>1. /\ cleared' = cleared /\ (\A m \in Models : ConvShape(conv[m])) /\ ConvsKept
      /\ conv \in [Models -> Conversations]
  BY TurnStepTypes, TypeOKParts DEF NoneIsCleared
<1>2. mishaps \subseteq mishaps'
  BY TooLittleFacts, EndFacts DEF TurnSteps, SyncStep, AddStep, BeginStep
<1> SUFFICES ASSUME "clear" \notin mishaps'
             PROVE  /\ \A m \in Models : ConvLater(conv'[m], cleared)
                    /\ \A u \in Turns : TurnLater(turn'[u], cleared)
  BY <1>1 DEF Forgotten
<1>3. /\ \A m \in Models : ConvLater(conv[m], cleared)
      /\ \A u \in Turns : TurnLater(turn[u], cleared)
  BY <1>2 DEF Forgotten
<1>4. CASE SyncStep(t)
  BY <1>3, <1>4, SyncingLater, GoesOnLater DEF SyncStep
<1>5. CASE AddStep(t)
  <2>1. /\ current \in Models /\ last' \in Messages /\ conv' = Appended(conv, last')
        /\ cleared < last'
    BY <1>5, TypeOKParts, ConstantFacts DEF AddStep, Counts, Messages
  <2> DEFINE a == <<last', 0>>
  <2>2. a \in Items /\ a[1] > cleared
    BY <2>1, ConstantFacts, TypeOKParts DEF Items, Messages, Counts
  <2> HIDE DEF a
  <2>3. ASSUME NEW m \in Models PROVE ConvLater(conv'[m], cleared)
    <3>1. /\ conv'[m].list = conv[m].list /\ conv[m].messages \in Seq(Items)
          /\ conv'[m].messages = conv[m].messages \/ conv'[m].messages = Append(conv[m].messages, a)
      BY <1>1, <2>1, AppendedFacts DEF Conversations, a
    <3>2. Later(Range(conv'[m].messages), cleared)
      <4>1. Range(Append(conv[m].messages, a)) = Range(conv[m].messages) \cup {a}
        BY <2>2, <3>1, AppendItem
      <4>2. Later(Range(conv[m].messages), cleared)
        BY <1>3 DEF ConvLater
      <4>3. QED
        BY <2>2, <3>1, <4>1, <4>2 DEF Later
    <3>3. QED
      BY <1>3, <3>1, <3>2 DEF ConvLater
  <2>4. QED
    BY <1>3, <1>5, <2>3, GoesOnLater DEF AddStep
<1>6. CASE BeginStep(t)
  <2>1. PICK r : \E m, x \in Models : Becomes(t, r) /\ Syncing(m) /\ Begun(r, m, x)
    BY <1>6 DEF BeginStep
  <2>2. PICK m \in Models, x \in Models : Becomes(t, r) /\ Syncing(m) /\ Begun(r, m, x)
    BY <2>1
  <2>3. \A k \in Models : ConvLater(conv'[k], cleared)
    BY <1>3, <2>2, SyncingLater
  <2>4. ConvShape(conv'[x]) /\ r.input = SplitList(ListOf(conv'[x]))
    BY <1>1, <2>2 DEF Begun, ConvsKept
  <2>5. TurnLater(r, cleared)
    BY <2>3, <2>4, ListOfLater DEF TurnLater
  <2>6. turn'[t] = r /\ \A u \in Turns \ {t} : turn'[u] = turn[u]
    BY <2>2, BecomesFacts
  <2>7. QED
    BY <1>3, <2>3, <2>5, <2>6
<1>7. CASE TooLittleStep(t)
  <2> DEFINE target == turn[t].target
             synced == [conv EXCEPT ![current] = Synced(conv[current])]
             from == synced[current]
             d(list) == Compacted(synced[target], list, Len(synced[target].messages), from.dropped)
  <2>1. /\ target \in Models /\ current \in Models
        /\ \A m \in Models : ConvShape(synced[m])
        /\ synced \in [Models -> Conversations] /\ IsList(ListOf(from))
    BY <1>7, TooLittleFacts
  <2>2. PICK list : /\ list = Aliased \/ list = ListOf(from)
                    /\ conv' = [synced EXCEPT ![target] = d(list)]
    BY <1>7, TooLittleFacts
  <2>3. \A m \in Models : ConvLater(synced[m], cleared)
    <3>1. ConvLater(Synced(conv[current]), cleared)
      BY <1>1, <1>3, <2>1, SyncedFacts, SyncsLater
    <3>2. QED
      BY <1>1, <1>3, <2>1, <3>1
  <2> HIDE DEF synced
  <2>4. /\ Len(synced[target].messages) \in Nat /\ from.dropped \in SUBSET Items
        /\ ConvShape(synced[target])
    BY <2>1 DEF Conversations
  <2>5. list = Aliased \/ IsList(list)
    BY <2>1, <2>2
  <2>6. d(list).messages = synced[target].messages /\ d(list).list = list
    <3> HIDE DEF target
    <3>1. QED
      BY <2>4, <2>5, CompactedFacts
  <2>7. Later(Range(Content(ListOf(from))), cleared)
    BY <2>1, <2>3, ListOfLater
  <2> HIDE DEF d, target
  <2>8. ConvLater(d(list), cleared)
    BY <2>1, <2>2, <2>3, <2>6, <2>7 DEF ConvLater, Real
  <2>9. \A m \in Models : ConvLater(conv'[m], cleared)
    BY <2>1, <2>2, <2>3, <2>8
  <2>10. QED
    BY <1>3, <1>7, <2>9, GoesOnLater DEF TooLittleStep
<1>8. CASE EndStep(t)
  <2> DEFINE q == turn[t]
             d(r) == Compacted(conv[q.target], r.list, q.mark, r.dropped)
  <2>1. /\ q.pc = "summarising" /\ q.target \in Models /\ TurnShape(q)
        /\ q.attached \/ q.emergency
    BY <1>8, EndFacts
  <2>2. PICK r : /\ Condenses(r, q.input, q.dropped)
                 /\ conv' = IF Stored(t) THEN [conv EXCEPT ![q.target] = d(r)] ELSE conv
    BY <1>8, EndFacts
  <2>3. IsList(r.list) /\ r.dropped \in SUBSET Items /\ q.mark \in Nat
    BY <2>1, <2>2, TurnFacts DEF Condenses
  <2>4. d(r).messages = conv[q.target].messages /\ d(r).list = r.list
    BY <1>1, <2>1, <2>3, CompactedFacts
  <2>5. ASSUME Stored(t) PROVE Later(Range(Content(r.list)), cleared)
    <3>1. q.attached
      BY <2>1, <2>5 DEF Stored
    <3>2. Later(Range(Content(q.input)), cleared)
      BY <1>3, <2>1, <3>1 DEF TurnLater
    <3>3. QED
      BY <2>2, <3>2 DEF Condenses, Later
  <2> HIDE DEF d, q
  <2>6. Stored(t) => ConvLater(d(r), cleared)
    BY <1>3, <2>1, <2>4, <2>5 DEF ConvLater
  <2>7. \A m \in Models : ConvLater(conv'[m], cleared)
    BY <1>1, <1>3, <2>1, <2>2, <2>6
  <2>8. QED
    BY <1>3, <1>8, <2>7, GoesOnLater DEF EndStep
<1>9. QED
  BY <1>4, <1>5, <1>6, <1>7, <1>8 DEF TurnSteps

LEMMA ClearForgotten ==
  ASSUME TypeOK, ClearConversation
  PROVE  Forgotten'
<1>1. \A t \in Turns : TurnLater(turn'[t], cleared')
  <2>1. \A t \in Turns : turn'[t].pc = "summarising" => turn'[t].attached = FALSE
    BY ClearTypes DEF Detached
  <2>2. QED
    BY <2>1 DEF TurnLater
<1>2. \A m \in Models : conv'[m] \in {Emptied, NoConversation}
  BY TypeOKParts DEF ClearConversation, ConvShape
<1>3. ConvLater(Emptied, cleared') /\ ConvLater(NoConversation, cleared')
  BY EmptyFacts DEF ConvLater, Later, Emptied, NoConversation, Real
<1>4. QED
  BY <1>1, <1>2, <1>3 DEF Forgotten

LEMMA SwitchForgotten ==
  ASSUME TypeOK, Forgotten, NEW m \in Models, SwitchModel(m)
  PROVE  Forgotten'
<1>1. /\ preferred \in Models /\ \A n \in Models \ {m} : conv'[n] = conv[n]
      /\ \/ Copies(conv'[m], conv[preferred], From(m))
         \/ conv'[m].messages = conv[m].messages /\ conv'[m].list = conv[m].list
      /\ \A t \in Turns : \/ turn'[t] = turn[t]
                          \/ turn[t].pc = "routing" /\ turn'[t].pc = "routing"
      /\ UNCHANGED <<cleared, mishaps>>
  BY SwitchFacts
<1> SUFFICES ASSUME "clear" \notin mishaps
             PROVE  /\ \A n \in Models : ConvLater(conv'[n], cleared)
                    /\ \A t \in Turns : TurnLater(turn'[t], cleared)
  BY <1>1 DEF Forgotten
<1>2. /\ \A n \in Models : ConvLater(conv[n], cleared)
      /\ \A t \in Turns : TurnLater(turn[t], cleared)
  BY DEF Forgotten
<1>3. ASSUME Copies(conv'[m], conv[preferred], From(m)) PROVE ConvLater(conv'[m], cleared)
  <2> DEFINE old == conv[preferred]  from == From(m)
  <2>1. /\ ConvLater(old, cleared) /\ ConvLater(from, cleared)
        /\ ConvShape(from) /\ from.messages \in Seq(Items)
    BY <1>1, <1>2, TypeOKParts DEF ConvShape, Conversations, From
  <2>2. Content(Plain(from.messages)) = from.messages
    BY <2>1, PlainFacts
  <2>3. conv'[m].messages = old.messages
        /\ conv'[m].list = IF from.list = Aliased THEN Plain(from.messages) ELSE from.list
    BY <1>3 DEF Copies
  <2> HIDE DEF old, from
  <2>4. QED
    BY <2>1, <2>2, <2>3 DEF ConvLater, Real
<1>4. \A n \in Models : ConvLater(conv'[n], cleared)
  BY <1>1, <1>2, <1>3 DEF ConvLater
<1>5. \A t \in Turns : TurnLater(turn'[t], cleared)
  BY <1>1, <1>2 DEF TurnLater
<1>6. QED
  BY <1>4, <1>5

LEMMA NextForgotten == TypeOK /\ Forgotten /\ [Next]_vars => Forgotten'
<1> SUFFICES ASSUME TypeOK, Forgotten, [Next]_vars PROVE Forgotten'
  OBVIOUS
<1>1. CASE UNCHANGED vars
  BY <1>1 DEF vars, Forgotten
<1>2. QED
  BY <1>1, TurnStepFacts, TurnForgotten, ClearForgotten, SwitchForgotten DEF Next

LEMMA ForgottenHolds == Spec => []Forgotten
<1>1. Init => Forgotten
  BY InitForgotten
<1>2. TypeOK /\ Forgotten /\ [Next]_vars => Forgotten'
  BY NextForgotten
<1>3. QED
  BY <1>1, <1>2, TypesHold, PTL DEF Spec

(* "Resets the agent to a fresh state" (agentPool.js:975): what was        *)
(* cleared is in no later request, unless the clear met a compaction that  *)
(* stored its result.                                                      *)
THEOREM ClearsForget == Spec => ClearedIsForgotten
<1> DEFINE Forgets == \A t \in Turns : GetMessagesForAI(t) /\ "clear" \notin mishaps =>
                        LET shown == Shown(conv'[turn[t].target])
                        IN \A i \in DOMAIN shown : shown[i][1] > cleared
<1>1. ASSUME TypeOK, Forgotten, [Next]_vars PROVE [Forgets]_vars
  <2> SUFFICES ASSUME NEW t \in Turns, GetMessagesForAI(t), "clear" \notin mishaps
               PROVE  LET shown == Shown(conv'[turn[t].target])
                      IN \A i \in DOMAIN shown : shown[i][1] > cleared
    OBVIOUS
  <2> DEFINE m == turn[t].target
  <2>1. m \in Models /\ Syncing(m)
    BY <1>1, GetMessagesStep
  <2>2. \A n \in Models : ConvLater(conv[n], cleared)
    BY <1>1 DEF Forgotten
  <2>3. ConvLater(conv'[m], cleared) /\ ConvShape(conv'[m])
    BY <1>1, <2>1, <2>2, SyncingLater, SyncingFacts DEF ConvsKept
  <2> HIDE DEF m
  <2>4. Later(Range(Shown(conv'[m])), cleared)
    BY <2>3, ListOfLater
  <2>5. QED
    BY <2>4 DEF Later, Range, m
<1>2. QED
  BY <1>1, TypesHold, ForgottenHolds, PTL DEF Spec, ClearedIsForgotten
-----------------------------------------------------------------------------
(* Each message below the watermark is in the list, in parts or whole, or  *)
(* was dropped by the fallback.                                            *)
Covers(list, dropped, messages, mark) ==
  /\ mark \in 1..Len(messages) /\ Whole(Range(list.under))
  /\ \A i \in 1..mark : Pieces(messages[i]) \subseteq Reach(Range(Content(list))) \cup dropped

ConvCovers(c) ==
  /\ c.list = Aliased => c.mark \in 1..Len(c.messages)
  /\ Real(c.list) => Covers(c.list, c.dropped, c.messages, c.mark)

(* So it is with what a turn is summarising, in which nothing is left to   *)
(* split.                                                                  *)
TurnCovers(r, convs) ==
  r.pc = "summarising" /\ r.attached /\ ~r.switch =>
    /\ Whole(Range(Content(r.input)))
    /\ Covers(r.input, r.dropped, convs[r.target].messages, r.mark)

Complete ==
  {"clear", "switch"} \cap mishaps = {} =>
    /\ \A m \in Models : ConvCovers(conv[m])
    /\ \A t \in Turns : TurnCovers(turn[t], conv)

(* Messages that are only added to go on being covered.                    *)
Grows(some, more) ==
  /\ some \in Seq(Items) /\ more \in Seq(Items) /\ Len(some) <= Len(more)
  /\ \A i \in 1..Len(some) : more[i] = some[i]

LEMMA CoversOn ==
  ASSUME NEW list, NEW dropped, NEW some, NEW more, Grows(some, more), NEW mark,
         Covers(list, dropped, some, mark)
  PROVE  Covers(list, dropped, more, mark)
<1>1. Len(some) \in Nat /\ Len(more) \in Nat /\ Len(some) <= Len(more)
  BY DEF Grows
<1>2. mark \in 1..Len(more) /\ \A i \in 1..mark : i \in 1..Len(some)
  BY <1>1 DEF Covers
<1>3. QED
  BY <1>2 DEF Covers, Grows

LEMMA GrowsFacts ==
  /\ \A s \in Seq(Items) : Grows(s, s)
  /\ \A s \in Seq(Items), a \in Items : Grows(s, Append(s, a))
  /\ \A c, d : ConvShape(c) /\ Syncs(d, c) => Grows(c.messages, d.messages)
<1>1. \A s \in Seq(Items) : Grows(s, s)
  BY DEF Grows
<1>2. ASSUME NEW s \in Seq(Items), NEW a \in Items PROVE Grows(s, Append(s, a))
  <2>1. Len(s) <= Len(s) + 1
    BY AppendItem
  <2>2. QED
    BY <2>1, AppendItem DEF Grows
<1>3. ASSUME NEW c, NEW d, ConvShape(c), Syncs(d, c) PROVE Grows(c.messages, d.messages)
  BY <1>3, SyncsFacts DEF Grows
<1>4. QED
  BY <1>1, <1>2, <1>3

(* Syncing covers the new messages too.                                    *)
LEMMA SyncsCovers ==
  ASSUME NEW c, ConvShape(c), NEW d, Syncs(d, c), ConvCovers(c)
  PROVE  /\ ConvCovers(d)
         /\ Real(d.list) => d.mark = Len(d.messages)
<1>1. /\ c.messages \in Seq(Items) /\ d.messages \in Seq(Items) /\ Len(c.messages) \in Nat
      /\ Len(d.messages) \in Nat /\ Len(c.messages) <= Len(d.messages)
      /\ d.list = Aliased <=> c.list = Aliased
      /\ d.list = None <=> c.list = None
      /\ New(c) \in Seq(Items) /\ c.mark \in Nat
      /\ Range(New(c)) = {c.messages[i] : i \in (c.mark + 1)..Len(c.messages)}
  BY SyncsFacts
<1>2. ASSUME d.list = Aliased PROVE d.mark \in 1..Len(d.messages)
  <2>1. c.mark \in 1..Len(c.messages)
    BY <1>1, <1>2 DEF ConvCovers
  <2>2. d.mark = c.mark \/ d.mark = Len(c.messages)
    BY <1>2 DEF Syncs
  <2>3. QED
    BY <1>1, <2>1, <2>2
<1>3. ASSUME Real(d.list)
      PROVE  d.mark = Len(d.messages) /\ Covers(d.list, d.dropped, d.messages, d.mark)
  <2>1. Real(c.list) /\ c.list # Aliased
    BY <1>1, <1>3 DEF Real
  <2>2. /\ c.mark \in 1..Len(c.messages) /\ Whole(Range(c.list.under))
        /\ \A i \in 1..c.mark : Pieces(c.messages[i]) \subseteq Reach(Range(Content(c.list))) \cup c.dropped
    BY <2>1 DEF ConvCovers, Covers
  <2>3. /\ d.messages = c.messages /\ d.dropped = c.dropped /\ d.list.under = c.list.under
        /\ Content(d.list) = Content(c.list) \o New(c) /\ Content(c.list) \in Seq(Items)
        /\ d.mark = IF New(c) = << >> THEN c.mark ELSE Len(c.messages)
    BY <2>1, SyncsFacts, ContentFacts
  <2>4. d.mark = Len(c.messages)
    <3>1. CASE New(c) = << >>
      <4>1. Range(New(c)) = {}
        BY <3>1, EmptyFacts
      <4>2. ~(c.mark < Len(c.messages))
        <5>1. ASSUME c.mark < Len(c.messages) PROVE FALSE
          <6>1. Len(c.messages) \in (c.mark + 1)..Len(c.messages)
            BY <1>1, <5>1
          <6>2. QED
            BY <1>1, <4>1, <6>1
        <5>2. QED
          BY <5>1
      <4>3. QED
        BY <1>1, <2>2, <2>3, <3>1, <4>2
    <3>2. CASE New(c) # << >>
      BY <2>3, <3>2
    <3>3. QED
      BY <3>1, <3>2
  <2>5. Range(Content(d.list)) = Range(Content(c.list)) \cup Range(New(c))
    BY <1>1, <2>3, ConcatFacts
  <2>6. ASSUME NEW i \in 1..d.mark
        PROVE  Pieces(d.messages[i]) \subseteq Reach(Range(Content(d.list))) \cup d.dropped
    <3>1. CASE i \in 1..c.mark
      BY <2>2, <2>3, <2>5, <3>1 DEF Reach
    <3>2. CASE i \notin 1..c.mark
      <4>1. i \in (c.mark + 1)..Len(c.messages)
        BY <1>1, <2>4, <3>2
      <4>2. d.messages[i] \in Range(Content(d.list))
        BY <1>1, <2>3, <2>5, <4>1
      <4>3. QED
        BY <4>2 DEF Reach
    <3>3. QED
      BY <3>1, <3>2
  <2>7. d.mark = Len(d.messages) /\ d.mark \in 1..Len(d.messages)
    BY <1>1, <2>2, <2>3, <2>4
  <2>8. QED
    BY <2>2, <2>3, <2>6, <2>7 DEF Covers
<1>4. QED
  BY <1>2, <1>3 DEF ConvCovers

(* Turns that do not begin a summary now.                                  *)
LEMMA OthersCover ==
  ASSUME TypeOK, NEW t \in Turns, NEW r, Becomes(t, r),
         \A m \in Models : Grows(conv[m].messages, conv'[m].messages),
         TurnCovers(r, conv'), \A u \in Turns : TurnCovers(turn[u], conv)
  PROVE  \A u \in Turns : TurnCovers(turn'[u], conv')
<1>1. turn'[t] = r /\ \A u \in Turns \ {t} : turn'[u] = turn[u]
  BY BecomesFacts
<1>2. ASSUME NEW u \in Turns \ {t} PROVE TurnCovers(turn[u], conv')
  <2> DEFINE q == turn[u]
  <2> SUFFICES ASSUME q.pc = "summarising", q.attached, ~q.switch
               PROVE  /\ Whole(Range(Content(q.input)))
                      /\ Covers(q.input, q.dropped, conv'[q.target].messages, q.mark)
    BY DEF TurnCovers
  <2>1. TurnShape(q) /\ q.target \in Models
    BY TypeOKParts, TurnFacts
  <2>2. /\ Whole(Range(Content(q.input)))
        /\ Covers(q.input, q.dropped, conv[q.target].messages, q.mark)
    BY DEF TurnCovers
  <2> HIDE DEF q
  <2>3. QED
    BY <2>1, <2>2, CoversOn
<1>3. QED
  BY <1>1, <1>2

LEMMA SyncingCovers ==
  ASSUME TypeOK, NEW m \in Models, Syncing(m), \A k \in Models : ConvCovers(conv[k])
  PROVE  /\ \A k \in Models : ConvCovers(conv'[k])
         /\ Real(conv'[m].list) => conv'[m].mark = Len(conv'[m].messages)
         /\ \A k \in Models : Grows(conv[k].messages, conv'[k].messages)
<1>1. /\ Syncs(conv'[m], conv[m]) /\ \A n \in Models \ {m} : conv'[n] = conv[n]
  BY SyncingFacts
<1>2. \A k \in Models : ConvShape(conv[k]) /\ conv[k].messages \in Seq(Items)
  BY TypeOKParts DEF ConvShape, Conversations
<1>3. QED
  BY <1>1, <1>2, SyncsCovers, GrowsFacts

LEMMA BeginCovers ==
  ASSUME NEW d, ConvShape(d), ConvCovers(d), Real(d.list) => d.mark = Len(d.messages),
         NEW input, input = SplitList(ListOf(d)), Size(input) >= 2
  PROVE  /\ Whole(Range(Content(input)))
         /\ Covers(input, d.dropped, d.messages, Len(d.messages))
<1> DEFINE list == ListOf(d)  s == d.messages
<1>1. /\ IsList(list) /\ s \in Seq(Items) /\ Len(s) \in Nat
      /\ Real(d.list) => list = d.list
      /\ ~Real(d.list) => list = Plain(s)
  BY ListOfFacts
<1>2. /\ input.under = list.under /\ input.tail = Split(list.tail)
      /\ input.summed = list.summed
      /\ Range(Content(input)) = Range(list.under) \cup Reach(Range(list.tail))
      /\ Range(Content(list)) = Range(list.under) \cup Range(list.tail)
      /\ Range(list.tail) \in SUBSET Items /\ Range(list.under) \in SUBSET Items
  BY <1>1, SplitListFacts, SplitContent
<1>3. Whole(Range(list.under))
  <2>1. Range(Plain(s).under) = {}
    BY <1>1, PlainFacts, EmptyFacts
  <2>2. QED
    BY <1>1, <2>1 DEF ConvCovers, Covers, Whole
<1>4. Whole(Range(Content(input)))
  BY <1>2, <1>3, ReachFacts DEF Whole
<1>5. Reach(Range(Content(input))) = Reach(Range(Content(list)))
  <2> DEFINE A == Range(list.under)  B == Range(list.tail)
  <2>1. A \in SUBSET Items /\ B \in SUBSET Items
    BY <1>2
  <2>2. Range(Content(input)) = A \cup Reach(B) /\ Range(Content(list)) = A \cup B
    BY <1>2
  <2> HIDE DEF A, B
  <2>3. /\ Reach(A \cup Reach(B)) = Reach(A) \cup Reach(Reach(B))
        /\ Reach(A \cup B) = Reach(A) \cup Reach(B)
        /\ Reach(Reach(B)) = Reach(B)
    <3>1. Reach(B) \subseteq Items /\ Whole(Reach(B))
      BY <2>1, ReachFacts
    <3>2. Reach(Reach(B)) = Reach(B)
      BY <3>1, ReachFacts
    <3>3. QED
      BY <3>2, ReachFacts
  <2>4. QED
    BY <2>2, <2>3
<1>6. CASE Real(d.list)
  BY <1>1, <1>2, <1>3, <1>4, <1>5, <1>6 DEF ConvCovers, Covers
<1>7. CASE ~Real(d.list)
  <2>1. list.tail = s /\ list.summed = FALSE /\ Content(list) = s
    BY <1>1, <1>7, PlainFacts
  <2>2. s # << >>
    <3>1. ASSUME s = << >> PROVE FALSE
      <4>1. Range(s) = {} /\ Reach({}) = {}
        BY <3>1, EmptyFacts DEF Reach
      <4>2. Split(s) \in Seq(Items) /\ Range(Split(s)) = {}
        BY <1>1, <4>1, SplitFacts
      <4>3. Len(Split(s)) = 0
        BY <4>2, SeqFacts
      <4>4. Size(input) = 0
        BY <1>2, <2>1, <4>3 DEF Size
      <4>5. QED
        BY <4>4
    <3>2. QED
      BY <3>1
  <2>3. Len(s) \in 1..Len(s)
    BY <1>1, <2>2, SeqFacts
  <2>4. \A i \in 1..Len(s) : Pieces(s[i]) \subseteq Reach(Range(Content(input)))
    BY <1>1, <1>5, <2>1, SeqFacts DEF Reach
  <2>5. QED
    BY <1>2, <1>3, <1>4, <2>3, <2>4 DEF Covers
<1>8. QED
  BY <1>6, <1>7

(* What condenses a list covers what the list did.                         *)
LEMMA CondensesCovers ==
  ASSUME NEW list, IsList(list), NEW dropped \in SUBSET Items,
         NEW r, Condenses(r, list, dropped), Whole(Range(Content(list))),
         NEW messages, NEW mark, Covers(list, dropped, messages, mark)
  PROVE  Covers(r.list, r.dropped, messages, mark)
<1>1. /\ IsList(r.list) /\ dropped \subseteq r.dropped
      /\ Range(Content(r.list)) \subseteq Range(Content(list))
      /\ Range(Content(list)) \subseteq Range(Content(r.list)) \cup r.dropped
  BY DEF Condenses
<1>2. Range(r.list.under) \subseteq Range(Content(r.list))
  BY <1>1, SplitContent
<1>3. Whole(Range(Content(r.list))) /\ Whole(Range(r.list.under))
  BY <1>1, <1>2 DEF Whole
<1>4. /\ Range(Content(list)) \in SUBSET Items /\ Range(Content(r.list)) \in SUBSET Items
  BY <1>1, SplitContent
<1>5. /\ Reach(Range(Content(list))) = Range(Content(list))
      /\ Reach(Range(Content(r.list))) = Range(Content(r.list))
  BY <1>3, <1>4, ReachFacts
<1>6. QED
  BY <1>1, <1>3, <1>5 DEF Covers

LEMMA TooLittleCovers ==
  ASSUME TypeOK, NEW t \in Turns, TooLittleStep(t), "switch" \notin mishaps',
         \A m \in Models : ConvCovers(conv[m])
  PROVE  /\ \A m \in Models : ConvCovers(conv'[m])
         /\ \A m \in Models : Grows(conv[m].messages, conv'[m].messages)
<1> DEFINE target == turn[t].target
           synced == [conv EXCEPT ![current] = Synced(conv[current])]
           from == synced[current]
           n == Len(from.messages)
           d(list) == Compacted(from, list, n, from.dropped)
<1>0. (\A m \in Models : ConvShape(conv[m])) /\ conv \in [Models -> Conversations]
  BY TypeOKParts
<1>1. /\ target = current /\ current \in Models
      /\ \A m \in Models : ConvShape(synced[m])
      /\ synced \in [Models -> Conversations] /\ IsList(ListOf(from))
      /\ ListOf(from).tail # << >>
  BY TooLittleFacts
<1>2. PICK list : /\ \/ list = Aliased /\ ~Real(from.list)
                     \/ list = ListOf(from) /\ Real(from.list)
                  /\ conv' = [synced EXCEPT ![current] = d(list)]
  BY <1>1, TooLittleFacts
<1>3. /\ Syncs(from, conv[current]) /\ \A m \in Models \ {current} : synced[m] = conv[m]
  BY <1>0, <1>1, SyncedFacts
<1> HIDE DEF synced
<1>4. ConvCovers(from) /\ (Real(from.list) => from.mark = n)
  BY <1>0, <1>1, <1>3, SyncsCovers
<1>5. from.dropped \in SUBSET Items /\ from.messages \in Seq(Items) /\ n \in Nat /\ ConvShape(from)
  BY <1>1 DEF Conversations
<1>6. list = Aliased \/ IsList(list)
  BY <1>1, <1>2
<1>7. /\ d(list).messages = from.messages /\ d(list).list = list
      /\ d(list).dropped = from.dropped /\ d(list).mark = n
  <2> DEFINE x == d(list)
             gone == from.dropped
  <2>1. n \in Nat /\ gone \in SUBSET Items /\ ConvShape(from) /\ n = Len(from.messages)
    BY <1>5
  <2>2. x = Compacted(from, list, n, gone)
    OBVIOUS
  <2> HIDE DEF x, from, n, gone
  <2>3. /\ x.messages = from.messages /\ x.list = list /\ x.dropped = gone
        /\ x.mark = IF n = 0 THEN Len(from.messages) ELSE n
    BY <1>6, <2>1, <2>2, CompactedFacts
  <2>4. QED
    BY <2>1, <2>3 DEF x, gone
<1>8. list = Aliased => n \in 1..n
  <2>1. ASSUME list = Aliased PROVE from.messages # << >>
    <3>1. ~Real(from.list)
      BY <1>1, <1>2, <2>1, ConstantFacts DEF IsList
    <3>2. ListOf(from).tail = from.messages
      BY <1>5, <3>1, ListOfFacts, PlainFacts
    <3>3. QED
      BY <1>1, <3>2
  <2>2. QED
    BY <1>5, <2>1, SeqFacts
<1>9. ConvCovers(d(list))
  <2> DEFINE x == d(list)
  <2>1. x.list = list /\ x.messages = from.messages /\ x.dropped = from.dropped
    BY <1>7
  <2>2. x.mark = n
    BY <1>7
  <2>3. ASSUME Real(list) PROVE Covers(list, from.dropped, from.messages, n)
    <3>1. Real(from.list) /\ list = from.list
      BY <1>2, <1>5, <2>3, ListOfFacts DEF Real
    <3>2. QED
      BY <1>4, <3>1 DEF ConvCovers
  <2>4. Real(x.list) => Covers(x.list, x.dropped, x.messages, x.mark)
    BY <2>1, <2>2, <2>3
  <2>5. x.list = Aliased => x.mark \in 1..Len(x.messages)
    BY <1>8, <2>1, <2>2
  <2> HIDE DEF x
  <2>6. ConvCovers(x)
    BY <2>4, <2>5 DEF ConvCovers
  <2>7. QED
    BY <2>6 DEF x
<1> HIDE DEF d
<1>10. Grows(conv[current].messages, d(list).messages)
  BY <1>0, <1>1, <1>3, <1>7, GrowsFacts
<1>11. \A m \in Models \ {current} : conv'[m] = conv[m] /\ Grows(conv[m].messages, conv[m].messages)
  BY <1>0, <1>1, <1>2, <1>3, GrowsFacts DEF Conversations
<1>12. conv'[current] = d(list)
  BY <1>1, <1>2
<1>13. QED
  BY <1>9, <1>10, <1>11, <1>12

LEMMA InitComplete == Init => Complete
BY OffFacts, ConstantFacts
   DEF Init, Complete, ConvCovers, TurnCovers, Emptied, NoConversation, Real

LEMMA GoesOnCovers ==
  ASSUME TypeOK, NEW t \in Turns, GoesOn(t),
         \A m \in Models : Grows(conv[m].messages, conv'[m].messages),
         \A u \in Turns : TurnCovers(turn[u], conv)
  PROVE  \A u \in Turns : TurnCovers(turn'[u], conv')
<1>1. PICK r : Becomes(t, r) /\ r.pc # "summarising"
  BY DEF GoesOn
<1>2. TurnCovers(r, conv')
  BY <1>1 DEF TurnCovers
<1>3. QED
  BY <1>1, <1>2, OthersCover

(* What a compaction has stored covers what it was to cover.               *)
LEMMA EndCovers ==
  ASSUME TypeOK, NEW t \in Turns, EndStep(t), {"clear", "switch"} \cap mishaps' = {},
         \A m \in Models : ConvCovers(conv[m]), TurnCovers(turn[t], conv)
  PROVE  /\ \A m \in Models : ConvCovers(conv'[m])
         /\ \A m \in Models : Grows(conv[m].messages, conv'[m].messages)
<1> DEFINE q == turn[t]
           d(r) == Compacted(conv[q.target], r.list, q.mark, r.dropped)
<1>1. /\ q.pc = "summarising" /\ q.target \in Models /\ TurnShape(q)
      /\ q.attached \/ q.emergency
      /\ ~q.switch
  BY EndFacts
<1>2. PICK r : /\ Condenses(r, q.input, q.dropped)
               /\ conv' = IF Stored(t) THEN [conv EXCEPT ![q.target] = d(r)] ELSE conv
  BY EndFacts
<1>3. /\ IsList(r.list) /\ r.dropped \in SUBSET Items /\ q.mark \in Nat
      /\ IsList(q.input) /\ q.dropped \in SUBSET Items
  BY <1>1, <1>2, TurnFacts DEF Condenses
<1>4. conv \in [Models -> Conversations] /\ \A m \in Models : ConvShape(conv[m])
  BY TypeOKParts
<1>5. ASSUME Stored(t) PROVE ConvCovers(d(r))
  <2>1. q.attached
    BY <1>1, <1>5 DEF Stored
  <2>2. Whole(Range(Content(q.input))) /\ Covers(q.input, q.dropped, conv[q.target].messages, q.mark)
    BY <1>1, <2>1 DEF TurnCovers
  <2>3. Covers(r.list, r.dropped, conv[q.target].messages, q.mark) /\ q.mark # 0
    <3> DEFINE s == conv[q.target].messages
    <3>1. s \in Seq(Items) /\ Len(s) \in Nat
      BY <1>1, <1>4 DEF ConvShape, Conversations
    <3> HIDE DEF q, s
    <3>2. Covers(r.list, r.dropped, s, q.mark)
      BY <1>2, <1>3, <2>2, CondensesCovers DEF s
    <3>3. q.mark # 0
      BY <3>1, <3>2 DEF Covers
    <3>4. QED
      BY <3>2, <3>3 DEF s
  <2> DEFINE x == d(r)
  <2>4. /\ x.messages = conv[q.target].messages /\ x.list = r.list /\ x.dropped = r.dropped
        /\ x.mark = q.mark
    <3> HIDE DEF q
    <3>1. QED
      BY <1>1, <1>3, <1>4, <2>3, CompactedFacts
  <2>5. x.list # Aliased
    BY <1>3, <2>4, ConstantFacts DEF IsList
  <2> HIDE DEF x, q
  <2>6. ConvCovers(x)
    BY <2>3, <2>4, <2>5 DEF ConvCovers
  <2>7. QED
    BY <2>6 DEF x
<1>6. d(r).messages = conv[q.target].messages
  <2> HIDE DEF q
  <2>1. QED
    BY <1>1, <1>3, <1>4, CompactedFacts
<1> HIDE DEF d, q
<1>7. /\ \A m \in Models : ConvCovers(conv'[m])
      /\ \A m \in Models : conv'[m].messages = conv[m].messages
  BY <1>1, <1>2, <1>4, <1>5, <1>6
<1>8. \A m \in Models : conv[m].messages \in Seq(Items)
  BY <1>4 DEF Conversations
<1>9. QED
  BY <1>7, <1>8, GrowsFacts

LEMMA AddCovers ==
  ASSUME TypeOK, NEW t \in Turns, AddStep(t), \A m \in Models : ConvCovers(conv[m])
  PROVE  /\ \A m \in Models : ConvCovers(conv'[m])
         /\ \A m \in Models : Grows(conv[m].messages, conv'[m].messages)
<1>1. /\ current \in Models /\ last' \in Messages /\ conv' = Appended(conv, last')
      /\ conv \in [Models -> Conversations] /\ \A m \in Models : ConvShape(conv[m])
  BY TypeOKParts DEF AddStep, Counts
<1>2. <<last', 0>> \in Items
  BY <1>1 DEF Items
<1>3. ASSUME NEW m \in Models
      PROVE  ConvCovers(conv'[m]) /\ Grows(conv[m].messages, conv'[m].messages)
  <2> DEFINE c == conv[m]  d == conv'[m]
  <2>1. /\ d.list = c.list /\ d.mark = c.mark /\ d.dropped = c.dropped
        /\ d.messages = c.messages \/ d.messages = Append(c.messages, <<last', 0>>)
        /\ c.messages \in Seq(Items) /\ ConvCovers(c)
    BY <1>1, AppendedFacts DEF Conversations
  <2> HIDE DEF c, d
  <2>2. Grows(c.messages, d.messages)
    BY <1>2, <2>1, GrowsFacts
  <2>3. Real(d.list) => Covers(d.list, d.dropped, d.messages, d.mark)
    BY <2>1, <2>2, CoversOn DEF ConvCovers
  <2>4. d.list = Aliased => d.mark \in 1..Len(d.messages)
    <3>1. Len(c.messages) \in Nat /\ Len(d.messages) \in Nat /\ Len(c.messages) <= Len(d.messages)
      BY <2>2 DEF Grows
    <3>2. QED
      BY <2>1, <3>1 DEF ConvCovers
  <2>5. ConvCovers(d)
    BY <2>3, <2>4 DEF ConvCovers
  <2>6. QED
    BY <2>2, <2>5 DEF c, d
<1>4. QED
  BY <1>3

LEMMA TurnComplete ==
  ASSUME TypeOK, Complete, NEW t \in Turns, TurnSteps(t)
  PROVE  Complete'
<1>1. mishaps \subseteq mishaps'
  BY TooLittleFacts, EndFacts DEF TurnSteps, SyncStep, AddStep, BeginStep
<1> SUFFICES ASSUME {"clear", "switch"} \cap mishaps' = {}
             PROVE  /\ \A m \in Models : ConvCovers(conv'[m])
                    /\ \A u \in Turns : TurnCovers(turn'[u], conv')
  BY DEF Complete
<1>2. /\ \A m \in Models : ConvCovers(conv[m])
      /\ \A u \in Turns : TurnCovers(turn[u], conv)
  BY <1>1 DEF Complete
<1>3. (\A m \in Models : ConvShape(conv[m])) /\ \A m \in Models : conv[m].messages \in Seq(Items)
  BY TypeOKParts DEF ConvShape, Conversations
<1>4. CASE SyncStep(t)
  <2>1. CASE conv' = conv
    BY <1>2, <1>3, <1>4, <2>1, GrowsFacts, GoesOnCovers DEF SyncStep
  <2>2. CASE \E m \in Models : Syncing(m)
    BY <1>2, <1>4, <2>2, SyncingCovers, GoesOnCovers DEF SyncStep
  <2>3. QED
    BY <1>4, <2>1, <2>2 DEF SyncStep
<1>5. CASE AddStep(t)
  <2>1. GoesOn(t)
    BY <1>5 DEF AddStep
  <2>2. QED
    BY <1>2, <1>5, <2>1, AddCovers, GoesOnCovers
<1>6. CASE BeginStep(t)
  <2>1. PICK r : \E m, x \in Models : Becomes(t, r) /\ Syncing(m) /\ Begun(r, m, x)
    BY <1>6 DEF BeginStep
  <2>2. PICK m \in Models, x \in Models : Becomes(t, r) /\ Syncing(m) /\ Begun(r, m, x)
    BY <2>1
  <2>3. /\ \A k \in Models : ConvCovers(conv'[k])
        /\ Real(conv'[m].list) => conv'[m].mark = Len(conv'[m].messages)
        /\ \A k \in Models : Grows(conv[k].messages, conv'[k].messages)
    BY <1>2, <2>2, SyncingCovers
  <2>4. TurnCovers(r, conv')
    <3> SUFFICES ASSUME ~r.switch
                 PROVE  /\ Whole(Range(Content(r.input)))
                        /\ Covers(r.input, r.dropped, conv'[r.target].messages, r.mark)
      BY DEF TurnCovers
    <3> DEFINE d == conv'[m]
    <3>1. /\ r.input = SplitList(ListOf(d)) /\ r.dropped = d.dropped /\ r.target = m
          /\ r.mark = Len(d.messages) /\ Size(r.input) >= 2
      BY <2>2 DEF Begun
    <3>2. ConvShape(d) /\ ConvCovers(d) /\ (Real(d.list) => d.mark = Len(d.messages))
      BY <2>2, <2>3, SyncingFacts DEF ConvsKept
    <3> HIDE DEF d
    <3>3. /\ Whole(Range(Content(r.input)))
          /\ Covers(r.input, d.dropped, d.messages, Len(d.messages))
      BY <3>1, <3>2, BeginCovers
    <3>4. QED
      BY <3>1, <3>3 DEF d
  <2>5. QED
    BY <1>2, <2>2, <2>3, <2>4, OthersCover
<1>7. CASE TooLittleStep(t)
  <2>1. GoesOn(t)
    BY <1>7 DEF TooLittleStep
  <2>2. QED
    BY <1>2, <1>7, <2>1, TooLittleCovers, GoesOnCovers
<1>8. CASE EndStep(t)
  <2>1. GoesOn(t)
    BY <1>8 DEF EndStep
  <2>2. QED
    BY <1>2, <1>8, <2>1, EndCovers, GoesOnCovers
<1>9. QED
  BY <1>4, <1>5, <1>6, <1>7, <1>8 DEF TurnSteps

LEMMA ClearComplete ==
  ASSUME TypeOK, ClearConversation
  PROVE  Complete'
<1>1. \A t \in Turns : TurnCovers(turn'[t], conv')
  <2>1. \A t \in Turns : turn'[t].pc = "summarising" => turn'[t].attached = FALSE
    BY ClearTypes DEF Detached
  <2>2. QED
    BY <2>1 DEF TurnCovers
<1>2. \A m \in Models : conv'[m] \in {Emptied, NoConversation}
  BY TypeOKParts DEF ClearConversation, ConvShape
<1>3. ConvCovers(Emptied) /\ ConvCovers(NoConversation)
  BY ConstantFacts DEF ConvCovers, Emptied, NoConversation, Real
<1>4. QED
  BY <1>1, <1>2, <1>3 DEF Complete

LEMMA SwitchComplete ==
  ASSUME TypeOK, Complete, NEW m \in Models, SwitchModel(m)
  PROVE  Complete'
<1>1. /\ preferred \in Models /\ \A n \in Models \ {m} : conv'[n] = conv[n]
      /\ \/ Copies(conv'[m], conv[preferred], From(m)) /\ conv[m].messages = << >>
         \/ /\ conv'[m].messages = conv[m].messages /\ conv'[m].list = conv[m].list
            /\ conv'[m].mark = conv[m].mark /\ conv'[m].dropped = conv[m].dropped
      /\ \A t \in Turns : \/ turn'[t] = turn[t]
                          \/ turn[t].pc = "routing" /\ turn'[t].pc = "routing"
      /\ UNCHANGED mishaps
  BY SwitchFacts
<1> SUFFICES ASSUME {"clear", "switch"} \cap mishaps = {}
             PROVE  /\ \A n \in Models : ConvCovers(conv'[n])
                    /\ \A t \in Turns : TurnCovers(turn'[t], conv')
  BY <1>1 DEF Complete
<1>2. /\ \A n \in Models : ConvCovers(conv[n])
      /\ \A t \in Turns : TurnCovers(turn[t], conv)
  BY DEF Complete
<1>3. ASSUME Copies(conv'[m], conv[preferred], From(m)), conv[m].messages = << >>
      PROVE  ConvCovers(conv'[m])
  <2> DEFINE old == conv[preferred]  c == conv[m]  d == conv'[m]
  <2>1. /\ ConvShape(old) /\ ConvCovers(old) /\ old.messages \in Seq(Items)
        /\ ConvShape(c) /\ ConvCovers(c)
    BY <1>1, <1>2, TypeOKParts DEF ConvShape, Conversations
  <2>2. \/ /\ d.messages = old.messages /\ d.mark = old.mark /\ d.dropped = old.dropped
           /\ d.list = IF old.list = Aliased THEN Plain(old.messages) ELSE old.list
        \/ /\ old.list = None
           /\ d.list = IF c.list = Aliased THEN Plain(c.messages) ELSE c.list
    BY <1>3 DEF Copies, From
  <2>a. CASE old.list = None
    <3>1. c.list = None
      <4>1. c.list = Aliased \/ Real(c.list) => c.mark \in 1..Len(<< >>)
        BY <1>3, <2>1 DEF ConvCovers, Covers
      <4>2. QED
        BY <4>1, ConstantFacts DEF Real
    <3>2. d.list = None
      BY <2>2, <2>a, <3>1, ConstantFacts
    <3>3. QED
      BY <3>2, ConstantFacts DEF ConvCovers, Real
  <2>b. ASSUME old.list # None
        PROVE  /\ d.messages = old.messages /\ d.mark = old.mark /\ d.dropped = old.dropped
               /\ d.list = IF old.list = Aliased THEN Plain(old.messages) ELSE old.list
    BY <2>2, <2>b
  <2> HIDE DEF old, c, d
  <2>3. CASE old.list = Aliased
    <3>1. /\ Content(Plain(old.messages)) = old.messages /\ Plain(old.messages).under = << >>
          /\ Real(Plain(old.messages))
      BY <2>1, PlainFacts
    <3>2. old.mark \in 1..Len(old.messages)
      BY <2>1, <2>3 DEF ConvCovers
    <3>3. Whole(Range(Plain(old.messages).under))
      BY <3>1, EmptyFacts DEF Whole
    <3>4. Len(old.messages) \in Nat
      BY <2>1
    <3>5. ASSUME NEW i \in 1..old.mark
          PROVE  Pieces(old.messages[i]) \subseteq Reach(Range(old.messages))
      <4>1. i \in 1..Len(old.messages)
        BY <3>2, <3>4
      <4>2. old.messages[i] \in Range(old.messages)
        BY <2>1, <4>1, SeqFacts
      <4>3. QED
        BY <4>2 DEF Reach
    <3>6. Covers(Plain(old.messages), old.dropped, old.messages, old.mark)
      BY <3>1, <3>2, <3>3, <3>5 DEF Covers
    <3>7. d.list = Plain(old.messages) /\ d.list # Aliased
      BY <2>b, <2>3, <3>1, ConstantFacts DEF Real
    <3>8. QED
      BY <2>b, <2>3, <3>6, <3>7, ConstantFacts DEF ConvCovers, d
  <2>4. CASE old.list # Aliased /\ old.list # None
    BY <2>1, <2>b, <2>4 DEF ConvCovers, d
  <2>5. QED
    BY <2>a, <2>3, <2>4
<1>4. \A n \in Models : ConvCovers(conv'[n])
  BY <1>1, <1>2, <1>3 DEF ConvCovers
<1>5. ASSUME NEW t \in Turns PROVE TurnCovers(turn'[t], conv')
  <2> DEFINE q == turn[t]
  <2> SUFFICES ASSUME q.pc = "summarising", q.attached, ~q.switch, turn'[t] = q
               PROVE  /\ Whole(Range(Content(q.input)))
                      /\ Covers(q.input, q.dropped, conv'[q.target].messages, q.mark)
    BY <1>1 DEF TurnCovers
  <2>1. /\ Whole(Range(Content(q.input)))
        /\ Covers(q.input, q.dropped, conv[q.target].messages, q.mark)
    BY <1>2 DEF TurnCovers
  <2>2. q.target \in Models
    BY TypeOKParts, TurnFacts
  <2> HIDE DEF q
  <2>3. conv'[q.target].messages = conv[q.target].messages
    <3>1. CASE q.target = m /\ conv[m].messages = << >>
      <4>1. q.mark \in 1..Len(<< >>)
        BY <2>1, <3>1 DEF Covers
      <4>2. QED
        BY <4>1
    <3>2. QED
      BY <1>1, <2>2, <3>1
  <2>4. QED
    BY <2>1, <2>3
<1>6. QED
  BY <1>4, <1>5

LEMMA CompleteHolds == Spec => []Complete
<1>1. Init => Complete
  BY InitComplete
<1>2. TypeOK /\ Complete /\ [Next]_vars => Complete'
  <2> SUFFICES ASSUME TypeOK, Complete, [Next]_vars PROVE Complete'
    OBVIOUS
  <2>1. CASE UNCHANGED vars
    BY <2>1 DEF vars, Complete
  <2>2. QED
    BY <2>1, TurnStepFacts, TurnComplete, ClearComplete, SwitchComplete DEF Next
<1>3. QED
  BY <1>1, <1>2, TypesHold, PTL DEF Spec

(* "This prevents messages added DURING compaction from being silently     *)
(* lost" (agentPool.js:1919): each message is in every request to its      *)
(* model, whole or in parts, verbatim or under a summary, unless the       *)
(* fallback dropped it, or a clear or a change of model met a compaction.  *)
THEOREM RequestsShowAll == Spec => EverythingIsShown
<1> DEFINE Shows == \A t \in Turns :
              GetMessagesForAI(t) /\ {"clear", "switch"} \cap mishaps = {} =>
                LET c == conv'[turn[t].target]
                IN Range(Split(c.messages)) \subseteq Range(Shown(c)) \cup c.dropped
<1>1. ASSUME TypeOK, Complete, [Next]_vars PROVE [Shows]_vars
  <2> SUFFICES ASSUME NEW t \in Turns, GetMessagesForAI(t), {"clear", "switch"} \cap mishaps = {}
               PROVE  LET c == conv'[turn[t].target]
                      IN Range(Split(c.messages)) \subseteq Range(Shown(c)) \cup c.dropped
    OBVIOUS
  <2> DEFINE m == turn[t].target  c == conv'[m]
  <2>1. m \in Models /\ Syncing(m)
    BY <1>1, GetMessagesStep
  <2>2. \A k \in Models : ConvCovers(conv[k])
    BY <1>1 DEF Complete
  <2>3. /\ ConvCovers(c) /\ ConvShape(c)
        /\ Real(c.list) => c.mark = Len(c.messages)
    BY <1>1, <2>1, <2>2, SyncingCovers, SyncingFacts DEF ConvsKept
  <2> SUFFICES Range(Split(c.messages)) \subseteq Range(Shown(c)) \cup c.dropped
    OBVIOUS
  <2> HIDE DEF m, c
  <2>4. /\ Range(Shown(c)) = Reach(Range(Content(ListOf(c))))
        /\ ListOf(c) = IF Real(c.list) THEN c.list ELSE Plain(c.messages)
        /\ ~Real(c.list) => Content(ListOf(c)) = c.messages
        /\ c.messages \in Seq(Items)
    BY <2>3, ShownFacts
  <2>5. /\ Range(Split(c.messages)) = Reach(Range(c.messages))
        /\ Range(c.messages) = {c.messages[i] : i \in 1..Len(c.messages)}
    BY <2>4, SplitFacts, SeqFacts
  <2>6. CASE Real(c.list)
    <3>1. \A i \in 1..Len(c.messages) :
            Pieces(c.messages[i]) \subseteq Reach(Range(Content(c.list))) \cup c.dropped
      BY <2>3, <2>6 DEF ConvCovers, Covers
    <3>2. Reach(Range(c.messages)) \subseteq Reach(Range(Content(c.list))) \cup c.dropped
      BY <2>5, <3>1 DEF Reach
    <3>3. QED
      BY <2>4, <2>5, <2>6, <3>2
  <2>7. CASE ~Real(c.list)
    BY <2>4, <2>5, <2>7
  <2>8. QED
    BY <2>6, <2>7
<1>2. QED
  BY <1>1, TypesHold, CompleteHolds, PTL DEF Spec, EverythingIsShown
-----------------------------------------------------------------------------
(* The messages are in the order of their arrival, and what is in a list   *)
(* is before the messages above its watermark.  A turn's list still is     *)
(* when a clear has taken the messages it was made of, since what it holds *)
(* came before the clear; hence the last conjunct of Ahead.                *)
UpTo(items, n) == \A a \in items : a[1] <= n

Ahead(list, messages, mark, n, k) ==
  /\ Chain(Content(list)) /\ UpTo(Range(Content(list)), n)
  /\ \A i \in 1..Len(messages) : i > mark =>
       \A a \in Range(Content(list)) : a[1] < messages[i][1]
  /\ messages = << >> => UpTo(Range(Content(list)), k)

InOrder(messages, n, k) ==
  Chain(messages) /\ Later(Range(messages), k) /\ UpTo(Range(messages), n)

ConvOrdered(c, n, k) ==
  /\ c.list # Aliased /\ InOrder(c.messages, n, k)
  /\ Real(c.list) => Ahead(c.list, c.messages, c.mark, n, k)

(* One item that is alone would be both the summary and the tail.          *)
TurnOrdered(r, convs, n, k) ==
  r.pc = "summarising" /\ ~r.switch =>
    Size(r.input) >= 2 /\ Ahead(r.input, convs[r.target].messages, r.mark, n, k)

Ordered ==
  {"skip", "switch"} \cap mishaps = {} =>
    /\ \A m \in Models : ConvOrdered(conv[m], last, cleared)
    /\ \A t \in Turns : TurnOrdered(turn[t], conv, last, cleared)

LEMMA ItemFacts ==
  \A a \in Items : a[1] \in Nat /\ a[2] \in 0..2
BY ConstantFacts DEF Items, Messages

LEMMA SyncsOrdered ==
  ASSUME NEW c, ConvShape(c), NEW d, Syncs(d, c), NEW n, NEW k, ConvOrdered(c, n, k)
  PROVE  ConvOrdered(d, n, k) /\ d.messages = c.messages
<1>1. /\ c.list # Aliased /\ d.list # Aliased /\ d.messages = c.messages
      /\ d.list = None <=> c.list = None
      /\ New(c) \in Seq(Items) /\ Range(New(c)) \subseteq Range(c.messages)
      /\ Range(New(c)) = {c.messages[i] : i \in (c.mark + 1)..Len(c.messages)}
      /\ Chain(New(c)) /\ InOrder(c.messages, n, k) /\ c.messages \in Seq(Items)
      /\ c.mark \in Nat /\ Len(c.messages) \in Nat
  BY SyncsFacts DEF ConvOrdered, InOrder
<1>2. ASSUME Real(d.list) PROVE Ahead(d.list, d.messages, d.mark, n, k)
  <2> DEFINE A == Range(Content(c.list))  B == Range(New(c))
  <2>1. Real(c.list) /\ c.list \in Lists
    BY <1>1, <1>2, SyncsFacts DEF Real
  <2>2. /\ Content(d.list) = Content(c.list) \o New(c)
        /\ d.mark = IF New(c) = << >> THEN c.mark ELSE Len(c.messages)
    BY <2>1, SyncsFacts
  <2>3. Content(c.list) \in Seq(Items) /\ Ahead(c.list, c.messages, c.mark, n, k)
    BY <2>1, ContentFacts DEF ConvOrdered
  <2>4. /\ Range(Content(d.list)) = A \cup B
        /\ Chain(Content(c.list)) /\ Precede(A, B) => Chain(Content(d.list))
    <3> DEFINE s == Content(c.list)  u == New(c)
    <3>1. s \in Seq(Items) /\ u \in Seq(Items) /\ Chain(u) /\ Content(d.list) = s \o u
      BY <1>1, <2>2, <2>3
    <3> HIDE DEF s, u
    <3>2. /\ Range(s \o u) = Range(s) \cup Range(u)
          /\ Chain(s) /\ Precede(Range(s), Range(u)) => Chain(s \o u)
      BY <3>1, ConcatFacts
    <3>3. QED
      BY <3>1, <3>2 DEF s, u
  <2>5. Precede(A, B)
    <3> SUFFICES ASSUME NEW a \in A, NEW b \in B PROVE a[1] < b[1]
      BY DEF Precede, Before
    <3>1. PICK i \in (c.mark + 1)..Len(c.messages) : b = c.messages[i]
      BY <1>1
    <3>2. i \in 1..Len(c.messages) /\ i > c.mark
      BY <1>1
    <3>3. QED
      BY <2>3, <3>1, <3>2 DEF Ahead
  <2>6. UpTo(A \cup B, n)
    BY <1>1, <2>3 DEF Ahead, UpTo, InOrder
  <2>7. ASSUME NEW i \in 1..Len(c.messages), i > d.mark, NEW a \in A \cup B
        PROVE  a[1] < c.messages[i][1]
    <3>1. New(c) = << >> /\ d.mark = c.mark
      BY <1>1, <2>2, <2>7
    <3>2. B = {}
      BY <3>1, EmptyFacts
    <3>3. a \in A
      BY <3>2
    <3>4. QED
      BY <2>3, <2>7, <3>1, <3>3 DEF Ahead
  <2>8. ASSUME c.messages = << >> PROVE UpTo(A \cup B, k)
    <3>1. B = {}
      BY <1>1, <2>8, EmptyFacts
    <3>2. QED
      BY <2>3, <2>8, <3>1 DEF Ahead
  <2>9. Chain(Content(d.list))
    BY <2>3, <2>4, <2>5 DEF Ahead
  <2> HIDE DEF A, B
  <2>10. QED
    BY <1>1, <2>4, <2>6, <2>7, <2>8, <2>9 DEF Ahead
<1>3. QED
  BY <1>1, <1>2 DEF ConvOrdered

LEMMA SyncingOrdered ==
  ASSUME TypeOK, NEW m \in Models, Syncing(m), NEW n, NEW k,
         \A x \in Models : ConvOrdered(conv[x], n, k)
  PROVE  /\ \A x \in Models : ConvOrdered(conv'[x], n, k)
         /\ \A x \in Models : conv'[x].messages = conv[x].messages
<1>1. Syncs(conv'[m], conv[m]) /\ \A x \in Models \ {m} : conv'[x] = conv[x]
  BY SyncingFacts
<1>2. \A x \in Models : ConvShape(conv[x])
  BY TypeOKParts
<1>3. QED
  BY <1>1, <1>2, SyncsOrdered

(* The list that a request shows or a compaction splits.                   *)
LEMMA ListOfOrdered ==
  ASSUME NEW c, ConvShape(c), NEW n, NEW k, ConvOrdered(c, n, k)
  PROVE  /\ Chain(Content(ListOf(c))) /\ UpTo(Range(Content(ListOf(c))), n)
         /\ c.messages = << >> => UpTo(Range(Content(ListOf(c))), k)
<1>1. CASE Real(c.list)
  BY <1>1, ListOfFacts DEF ConvOrdered, Ahead
<1>2. CASE ~Real(c.list)
  <2>1. Content(ListOf(c)) = c.messages /\ c.messages \in Seq(Items)
    BY <1>2, ShownFacts
  <2>2. c.messages = << >> => Range(c.messages) = {}
    BY <2>1, SeqFacts
  <2>3. QED
    BY <2>1, <2>2 DEF ConvOrdered, InOrder, UpTo
<1>3. QED
  BY <1>1, <1>2

LEMMA BeginOrdered ==
  ASSUME NEW d, ConvShape(d), NEW n, NEW k, ConvOrdered(d, n, k),
         NEW input, input = SplitList(ListOf(d))
  PROVE  Ahead(input, d.messages, Len(d.messages), n, k)
<1> DEFINE list == ListOf(d)  u == list.under  s == list.tail
<1>1. /\ IsList(list) /\ list \in Lists /\ d.messages \in Seq(Items)
      /\ Chain(Content(list)) /\ UpTo(Range(Content(list)), n)
      /\ d.messages = << >> => UpTo(Range(Content(list)), k)
  BY ListOfFacts, ListOfOrdered
<1> HIDE DEF list
<1>2. /\ input.under = u /\ input.tail = Split(s)
      /\ Range(Content(input)) = Range(u) \cup Reach(Range(s))
      /\ Range(Content(list)) = Range(u) \cup Range(s)
      /\ Range(u) \in SUBSET Items /\ Range(s) \in SUBSET Items
      /\ u \in Seq(Items) /\ s \in Seq(Items)
  BY <1>1, SplitListFacts, SplitContent, ContentFacts DEF list
<1>3. Chain(u) /\ Chain(s) /\ Precede(Range(u), Range(s))
  BY <1>1, <1>2, ConcatFacts DEF Content
<1>4. Split(s) \in Seq(Items) /\ Chain(Split(s)) /\ Range(Split(s)) = Reach(Range(s))
  BY <1>2, <1>3, SplitFacts
<1>5. Precede(Range(u), Reach(Range(s)))
  <2> SUFFICES ASSUME NEW a \in Range(u), NEW p \in Reach(Range(s)) PROVE Before(a, p)
    BY DEF Precede
  <2>1. PICK b \in Range(s) : p \in Pieces(b)
    BY DEF Reach
  <2>2. Before(a, b)
    BY <1>3 DEF Precede
  <2>3. CASE IsOversized(b)
    BY <2>1, <2>2, <2>3 DEF Pieces, Before, IsOversized
  <2>4. CASE ~IsOversized(b)
    BY <2>1, <2>2, <2>4 DEF Pieces
  <2>5. QED
    BY <2>3, <2>4
<1>6. Chain(Content(input))
  BY <1>2, <1>3, <1>4, <1>5, ConcatFacts DEF Content
<1>7. \A p \in Range(Content(input)) : \E a \in Range(Content(list)) : p[1] = a[1]
  BY <1>2, ReachFacts
<1>8. \A x : UpTo(Range(Content(list)), x) => UpTo(Range(Content(input)), x)
  BY <1>7 DEF UpTo
<1>9. \A i \in 1..Len(d.messages) : ~(i > Len(d.messages))
  <2>1. Len(d.messages) \in Nat
    BY <1>1
  <2>2. QED
    BY <2>1
<1>10. QED
  BY <1>1, <1>6, <1>8, <1>9 DEF Ahead

LEMMA AddAhead ==
  ASSUME NEW list \in Lists, NEW some \in Seq(Items), NEW mark \in Nat, NEW n \in Nat, NEW k,
         Ahead(list, some, mark, n, k), <<n + 1, 0>> \in Items,
         NEW more, more = some \/ more = Append(some, <<n + 1, 0>>)
  PROVE  Ahead(list, more, mark, n + 1, k)
<1> DEFINE A == Range(Content(list))  a == <<n + 1, 0>>
<1>1. A \subseteq Items /\ \A x \in A : x[1] \in Nat
  BY ContentFacts, ItemFacts
<1>2. UpTo(A, n)
  BY DEF Ahead
<1>3. \A x \in A : x[1] <= n + 1 /\ x[1] < n + 1
  BY <1>1, <1>2 DEF UpTo
<1>4. a[1] = n + 1
  OBVIOUS
<1>5. CASE more = some
  BY <1>3, <1>5 DEF Ahead, UpTo
<1>6. CASE more = Append(some, a)
  <2> HIDE DEF a
  <2>1. /\ Len(some) \in Nat /\ Len(more) = Len(some) + 1
        /\ \A i \in 1..Len(some) : more[i] = some[i]
        /\ more[Len(some) + 1] = a /\ more # << >>
    <3>1. a \in Items
      BY DEF a
    <3>2. /\ Len(some) \in Nat /\ Len(more) = Len(some) + 1
          /\ \A i \in 1..Len(some) : more[i] = some[i]
          /\ more[Len(some) + 1] = a
      BY <1>6, <3>1, AppendItem
    <3>3. Len(more) # 0
      BY <3>2
    <3>4. QED
      BY <3>2, <3>3
  <2>2. \A i \in 1..Len(more) : i \in 1..Len(some) \/ i = Len(some) + 1
    BY <2>1
  <2>3. \A i \in 1..Len(more) : i > mark => \A x \in A : x[1] < more[i][1]
    BY <1>3, <1>4, <2>1, <2>2 DEF Ahead
  <2>4. Chain(Content(list)) /\ UpTo(A, n + 1)
    BY <1>3 DEF Ahead, UpTo
  <2>5. QED
    BY <2>1, <2>3, <2>4 DEF Ahead
<1>7. QED
  BY <1>5, <1>6

LEMMA InitOrdered == Init => Ordered
<1> SUFFICES ASSUME Init PROVE Ordered
  OBVIOUS
<1>1. /\ \A m \in Models : conv[m] \in {Emptied, NoConversation}
      /\ \A t \in Turns : turn[t] = Off
  BY DEF Init
<1>2. \A n, k : ConvOrdered(Emptied, n, k) /\ ConvOrdered(NoConversation, n, k)
  BY EmptyFacts, ConstantFacts
     DEF ConvOrdered, InOrder, Later, UpTo, Emptied, NoConversation, Real
<1>3. \A n, k : TurnOrdered(Off, conv, n, k)
  BY OffFacts DEF TurnOrdered
<1>4. QED
  BY <1>1, <1>2, <1>3 DEF Ordered

(* Turns that do not begin a summary, while the messages stay.             *)
LEMMA OthersOrdered ==
  ASSUME TypeOK, NEW t \in Turns, NEW r, Becomes(t, r), NEW n, NEW k,
         \A m \in Models : conv'[m].messages = conv[m].messages,
         TurnOrdered(r, conv', n, k), \A u \in Turns : TurnOrdered(turn[u], conv, n, k)
  PROVE  \A u \in Turns : TurnOrdered(turn'[u], conv', n, k)
<1>1. turn'[t] = r /\ \A u \in Turns \ {t} : turn'[u] = turn[u]
  BY BecomesFacts
<1>2. ASSUME NEW u \in Turns PROVE TurnOrdered(turn[u], conv', n, k)
  <2>1. turn[u].pc = "summarising" => turn[u].target \in Models
    BY TypeOKParts, TurnFacts
  <2>2. QED
    BY <2>1 DEF TurnOrdered
<1>3. QED
  BY <1>1, <1>2

LEMMA GoesOnOrdered ==
  ASSUME TypeOK, NEW t \in Turns, GoesOn(t), NEW n, NEW k,
         \A m \in Models : conv'[m].messages = conv[m].messages,
         \A u \in Turns : TurnOrdered(turn[u], conv, n, k)
  PROVE  \A u \in Turns : TurnOrdered(turn'[u], conv', n, k)
<1>1. PICK r : Becomes(t, r) /\ r.pc # "summarising"
  BY DEF GoesOn
<1>2. TurnOrdered(r, conv', n, k)
  BY <1>1 DEF TurnOrdered
<1>3. QED
  BY <1>1, <1>2, OthersOrdered

LEMMA EndOrdered ==
  ASSUME TypeOK, NEW t \in Turns, EndStep(t), "switch" \notin mishaps', NEW n, NEW k,
         \A m \in Models : ConvOrdered(conv[m], n, k), TurnOrdered(turn[t], conv, n, k)
  PROVE  /\ \A m \in Models : ConvOrdered(conv'[m], n, k)
         /\ \A m \in Models : conv'[m].messages = conv[m].messages
<1> DEFINE q == turn[t]
           d(r) == Compacted(conv[q.target], r.list, q.mark, r.dropped)
<1>1. q.pc = "summarising" /\ q.target \in Models /\ TurnShape(q) /\ ~q.switch
  BY EndFacts
<1>2. PICK r : /\ Condenses(r, q.input, q.dropped)
               /\ conv' = IF Stored(t) THEN [conv EXCEPT ![q.target] = d(r)] ELSE conv
  BY EndFacts
<1>3. IsList(r.list) /\ r.dropped \in SUBSET Items /\ q.mark \in Nat
  BY <1>1, <1>2, TurnFacts DEF Condenses
<1>4. conv \in [Models -> Conversations] /\ \A m \in Models : ConvShape(conv[m])
  BY TypeOKParts
<1>5. Size(q.input) >= 2 /\ Ahead(q.input, conv[q.target].messages, q.mark, n, k)
  BY <1>1 DEF TurnOrdered
<1>6. /\ d(r).messages = conv[q.target].messages /\ d(r).list = r.list
      /\ d(r).mark = IF q.mark = 0 THEN Len(conv[q.target].messages) ELSE q.mark
  <2> HIDE DEF q
  <2>1. QED
    BY <1>1, <1>3, <1>4, CompactedFacts
<1>7. ConvOrdered(d(r), n, k)
  <2> DEFINE s == conv[q.target].messages
             mark == IF q.mark = 0 THEN Len(s) ELSE q.mark
  <2>1. InOrder(s, n, k) /\ Len(s) \in Nat /\ s \in Seq(Items)
    BY <1>1, <1>4 DEF ConvOrdered, Conversations
  <2>2. /\ Chain(Content(r.list))
        /\ Range(Content(r.list)) \subseteq Range(Content(q.input))
    BY <1>2, <1>5 DEF Condenses, Ahead
  <2>3. \A i \in 1..Len(s) : i > mark => i > q.mark
    BY <1>3, <2>1
  <2> HIDE DEF mark
  <2>4. Ahead(r.list, s, mark, n, k)
    BY <1>5, <2>2, <2>3 DEF Ahead, UpTo
  <2>5. r.list # Aliased
    BY <1>3, ConstantFacts DEF IsList
  <2> HIDE DEF d
  <2>6. d(r).list = r.list /\ d(r).messages = s /\ d(r).mark = mark
    BY <1>6 DEF mark
  <2> HIDE DEF q, s
  <2>7. QED
    BY <2>1, <2>4, <2>5, <2>6 DEF ConvOrdered
<1> HIDE DEF d, q
<1>8. QED
  BY <1>1, <1>2, <1>4, <1>6, <1>7

LEMMA AddOrdered ==
  ASSUME TypeOK, Ordered, NEW t \in Turns, AddStep(t), {"skip", "switch"} \cap mishaps = {}
  PROVE  /\ \A m \in Models : ConvOrdered(conv'[m], last', cleared)
         /\ \A u \in Turns : TurnOrdered(turn'[u], conv', last', cleared)
<1> DEFINE a == <<last + 1, 0>>
<1>1. /\ current \in Models /\ last' \in Messages /\ conv' = Appended(conv, last')
      /\ conv \in [Models -> Conversations] /\ (\A m \in Models : ConvShape(conv[m]))
      /\ last \in Nat /\ cleared \in Nat /\ cleared < last + 1 /\ last' = last + 1
  BY TypeOKParts, ConstantFacts DEF AddStep, Counts
<1>2. a \in Items /\ a[1] = last + 1
  BY <1>1 DEF Items
<1>3. \A m \in Models :
        LET c == conv[m]  d == conv'[m] IN
        /\ ConvShape(d) /\ d.list = c.list /\ d.mark = c.mark
        /\ d.messages = c.messages \/ d.messages = Append(c.messages, a)
        /\ c.messages \in Seq(Items) /\ c.mark \in Nat
  BY <1>1, AppendedFacts DEF Conversations
<1>4. /\ \A m \in Models : ConvOrdered(conv[m], last, cleared)
      /\ \A u \in Turns : TurnOrdered(turn[u], conv, last, cleared)
  BY DEF Ordered
<1>5. ASSUME NEW m \in Models PROVE ConvOrdered(conv'[m], last + 1, cleared)
  <2> DEFINE c == conv[m]  d == conv'[m]
  <2>1. /\ d.list = c.list /\ d.mark = c.mark
        /\ d.messages = c.messages \/ d.messages = Append(c.messages, a)
        /\ c.messages \in Seq(Items) /\ c.mark \in Nat /\ ConvOrdered(c, last, cleared)
        /\ ConvShape(c)
    BY <1>1, <1>3, <1>4
  <2> HIDE DEF c, d
  <2>2. \A x \in Range(c.messages) : x[1] \in Nat /\ x[1] <= last
    BY <2>1, SeqFacts, ItemFacts DEF ConvOrdered, InOrder, UpTo
  <2>3. \A x \in Range(c.messages) : x[1] <= last + 1 /\ x[1] < last + 1
    BY <1>1, <2>2
  <2>4. /\ Precede(Range(c.messages), {a})
        /\ UpTo(Range(c.messages) \cup {a}, last + 1)
        /\ Later(Range(c.messages) \cup {a}, cleared)
    <3>1. Precede(Range(c.messages), {a})
      BY <1>2, <2>3 DEF Precede, Before
    <3>2. UpTo(Range(c.messages) \cup {a}, last + 1)
      BY <1>1, <1>2, <2>3 DEF UpTo
    <3>3. last + 1 > cleared
      BY <1>1
    <3>4. Later(Range(c.messages) \cup {a}, cleared)
      BY <1>2, <2>1, <3>3 DEF Later, ConvOrdered, InOrder
    <3>5. QED
      BY <3>1, <3>2, <3>4
  <2>5. InOrder(d.messages, last + 1, cleared)
    <3>1. /\ Range(Append(c.messages, a)) = Range(c.messages) \cup {a}
          /\ Chain(c.messages) /\ Precede(Range(c.messages), {a}) => Chain(Append(c.messages, a))
      BY <1>2, <2>1, AppendItem
    <3>2. CASE d.messages = c.messages
      BY <2>1, <2>4, <3>2 DEF ConvOrdered, InOrder, UpTo
    <3>3. CASE d.messages = Append(c.messages, a)
      BY <2>1, <2>4, <3>1, <3>3 DEF ConvOrdered, InOrder
    <3>4. QED
      BY <2>1, <3>2, <3>3
  <2>6. Real(d.list) => Ahead(d.list, d.messages, d.mark, last + 1, cleared)
    <3> SUFFICES ASSUME Real(c.list)
                 PROVE  Ahead(c.list, d.messages, c.mark, last + 1, cleared)
      BY <2>1
    <3>1. c.list \in Lists /\ Ahead(c.list, c.messages, c.mark, last, cleared)
      BY <2>1 DEF ConvShape, IsList, ConvOrdered
    <3>2. QED
      BY <1>1, <1>2, <2>1, <3>1, AddAhead
  <2>7. d.list # Aliased
    BY <2>1 DEF ConvOrdered
  <2>8. ConvOrdered(d, last + 1, cleared)
    BY <2>5, <2>6, <2>7 DEF ConvOrdered
  <2>9. QED
    BY <2>8 DEF d
<1>6. ASSUME NEW u \in Turns PROVE TurnOrdered(turn[u], conv', last + 1, cleared)
  <2> DEFINE q == turn[u]
  <2> SUFFICES ASSUME q.pc = "summarising", ~q.switch
               PROVE  /\ Size(q.input) >= 2
                      /\ Ahead(q.input, conv'[q.target].messages, q.mark, last + 1, cleared)
    BY DEF TurnOrdered
  <2>1. q.target \in Models /\ q.mark \in Nat /\ q.input \in Lists
    BY TypeOKParts, TurnFacts
  <2>2. Size(q.input) >= 2 /\ Ahead(q.input, conv[q.target].messages, q.mark, last, cleared)
    BY <1>4 DEF TurnOrdered
  <2> DEFINE some == conv[q.target].messages  more == conv'[q.target].messages
  <2>3. some \in Seq(Items) /\ (more = some \/ more = Append(some, a))
    BY <1>3, <2>1
  <2> HIDE DEF q, some, more
  <2>4. Ahead(q.input, more, q.mark, last + 1, cleared)
    BY <1>1, <1>2, <2>1, <2>2, <2>3, AddAhead DEF some
  <2>5. QED
    BY <2>2, <2>4 DEF more
<1>7. \A u \in Turns : turn'[u] = turn[u] \/ turn'[u].pc # "summarising"
  BY BecomesFacts DEF AddStep, GoesOn
<1>8. \A u \in Turns : TurnOrdered(turn'[u], conv', last + 1, cleared)
  BY <1>6, <1>7 DEF TurnOrdered
<1>9. QED
  BY <1>1, <1>5, <1>8

LEMMA TurnOrderedOn ==
  ASSUME TypeOK, Ordered, NEW t \in Turns, TurnSteps(t)
  PROVE  Ordered'
<1>1. cleared' = cleared /\ mishaps \subseteq mishaps'
  BY TurnStepTypes, TooLittleFacts, EndFacts
     DEF NoneIsCleared, TurnSteps, SyncStep, AddStep, BeginStep
<1> SUFFICES ASSUME {"skip", "switch"} \cap mishaps' = {}
             PROVE  /\ \A m \in Models : ConvOrdered(conv'[m], last', cleared)
                    /\ \A u \in Turns : TurnOrdered(turn'[u], conv', last', cleared)
  BY <1>1 DEF Ordered
<1>2. /\ \A m \in Models : ConvOrdered(conv[m], last, cleared)
      /\ \A u \in Turns : TurnOrdered(turn[u], conv, last, cleared)
      /\ {"skip", "switch"} \cap mishaps = {}
  BY <1>1 DEF Ordered
<1>3. CASE SyncStep(t)
  <2>1. last' = last /\ GoesOn(t)
    BY <1>3 DEF SyncStep
  <2>2. CASE conv' = conv
    BY <1>2, <2>1, <2>2, GoesOnOrdered
  <2>3. CASE \E m \in Models : Syncing(m)
    BY <1>2, <2>1, <2>3, SyncingOrdered, GoesOnOrdered
  <2>4. QED
    BY <1>3, <2>2, <2>3 DEF SyncStep
<1>4. CASE AddStep(t)
  BY <1>2, <1>4, AddOrdered
<1>5. CASE BeginStep(t)
  <2>1. last' = last
    BY <1>5 DEF BeginStep
  <2>2. PICK r : \E m, x \in Models : Becomes(t, r) /\ Syncing(m) /\ Begun(r, m, x)
    BY <1>5 DEF BeginStep
  <2>3. PICK m \in Models, x \in Models : Becomes(t, r) /\ Syncing(m) /\ Begun(r, m, x)
    BY <2>2
  <2>4. /\ \A y \in Models : ConvOrdered(conv'[y], last, cleared)
        /\ \A y \in Models : conv'[y].messages = conv[y].messages
    BY <1>2, <2>3, SyncingOrdered
  <2>5. TurnOrdered(r, conv', last, cleared)
    <3> SUFFICES ASSUME ~r.switch
                 PROVE  /\ Size(r.input) >= 2
                        /\ Ahead(r.input, conv'[r.target].messages, r.mark, last, cleared)
      BY DEF TurnOrdered
    <3> DEFINE d == conv'[m]
    <3>1. /\ r.input = SplitList(ListOf(d)) /\ r.target = m
          /\ r.mark = Len(d.messages) /\ Size(r.input) >= 2
      BY <2>3 DEF Begun
    <3>2. ConvShape(d) /\ ConvOrdered(d, last, cleared)
      BY <2>3, <2>4, SyncingFacts DEF ConvsKept
    <3> HIDE DEF d
    <3>3. Ahead(r.input, d.messages, Len(d.messages), last, cleared)
      BY <3>1, <3>2, BeginOrdered
    <3>4. QED
      BY <3>1, <3>3 DEF d
  <2>6. QED
    BY <1>2, <2>1, <2>3, <2>4, <2>5, OthersOrdered
<1>6. CASE TooLittleStep(t)
  BY <1>6, TooLittleFacts
<1>7. CASE EndStep(t)
  <2>1. GoesOn(t) /\ last' = last
    BY <1>7, EndFacts DEF EndStep
  <2>2. QED
    BY <1>2, <1>7, <2>1, EndOrdered, GoesOnOrdered
<1>8. QED
  BY <1>3, <1>4, <1>5, <1>6, <1>7 DEF TurnSteps

LEMMA ClearOrdered ==
  ASSUME TypeOK, Ordered, ClearConversation
  PROVE  Ordered'
<1>1. mishaps' = mishaps /\ last' = last /\ cleared' = last
  BY DEF ClearConversation
<1> SUFFICES ASSUME {"skip", "switch"} \cap mishaps = {}
             PROVE  /\ \A m \in Models : ConvOrdered(conv'[m], last, last)
                    /\ \A t \in Turns : TurnOrdered(turn'[t], conv', last, last)
  BY <1>1 DEF Ordered
<1>2. \A m \in Models : conv'[m] \in {Emptied, NoConversation}
  BY TypeOKParts DEF ClearConversation, ConvShape
<1>3. /\ ConvOrdered(Emptied, last, last) /\ ConvOrdered(NoConversation, last, last)
      /\ Emptied.messages = << >> /\ NoConversation.messages = << >>
  BY EmptyFacts, ConstantFacts
     DEF ConvOrdered, InOrder, Later, UpTo, Emptied, NoConversation, Real
<1>4. (\A m \in Models : ConvOrdered(conv'[m], last, last)) /\ \A m \in Models : conv'[m].messages = << >>
  BY <1>2, <1>3
<1>5. ASSUME NEW t \in Turns PROVE TurnOrdered(turn'[t], conv', last, last)
  <2> DEFINE q == turn[t]
  <2>1. Detached(turn'[t], q) /\ TurnShape(q) /\ TurnOrdered(q, conv, last, cleared)
    BY ClearTypes, TypeOKParts DEF Ordered
  <2> HIDE DEF q
  <2> SUFFICES ASSUME q.pc = "summarising", ~q.switch
               PROVE  Size(q.input) >= 2 /\ Ahead(q.input, conv'[q.target].messages, q.mark, last, last)
    BY <2>1 DEF TurnOrdered, Detached
  <2>2. q.target \in Models
    BY <2>1, TurnFacts
  <2>3. Size(q.input) >= 2 /\ Chain(Content(q.input)) /\ UpTo(Range(Content(q.input)), last)
    BY <2>1 DEF TurnOrdered, Ahead
  <2>4. \A i \in 1..Len(<< >>) : FALSE
    OBVIOUS
  <2>5. Ahead(q.input, << >>, q.mark, last, last)
    BY <2>3, <2>4 DEF Ahead
  <2>6. QED
    BY <1>4, <2>2, <2>3, <2>5
<1>6. QED
  BY <1>4, <1>5

(* A list of what was cleared is ahead of the messages that came later.     *)
LEMMA ClearedAhead ==
  ASSUME NEW list \in Lists, NEW s \in Seq(Items), s # << >>, NEW mark, NEW n, NEW k \in Nat,
         Later(Range(s), k), Ahead(list, << >>, mark, n, k)
  PROVE  Ahead(list, s, mark, n, k)
<1> DEFINE A == Range(Content(list))
<1>1. UpTo(A, k) /\ UpTo(A, n) /\ Chain(Content(list))
  BY DEF Ahead
<1>2. A \subseteq Items
  BY ContentFacts
<1> HIDE DEF A
<1>3. ASSUME NEW i \in 1..Len(s), NEW a \in A PROVE a[1] < s[i][1]
  <2>1. s[i] \in Items /\ s[i] \in Range(s) /\ a \in Items
    BY <1>2, SeqFacts
  <2>2. a[1] \in Nat /\ s[i][1] \in Nat /\ a[1] <= k /\ s[i][1] > k
    BY <1>1, <2>1, ItemFacts DEF UpTo, Later
  <2>3. QED
    BY <2>2
<1>4. QED
  BY <1>1, <1>3 DEF Ahead, A

LEMMA SwitchOrdered ==
  ASSUME TypeOK, Ordered, NEW m \in Models, SwitchModel(m)
  PROVE  Ordered'
<1>1. /\ preferred \in Models /\ \A n \in Models \ {m} : conv'[n] = conv[n]
      /\ \/ Copies(conv'[m], conv[preferred], From(m)) /\ conv[m].messages = << >>
         \/ /\ conv'[m].messages = conv[m].messages /\ conv'[m].list = conv[m].list
            /\ conv'[m].mark = conv[m].mark /\ conv'[m].dropped = conv[m].dropped
      /\ \A t \in Turns : \/ turn'[t] = turn[t]
                          \/ turn[t].pc = "routing" /\ turn'[t].pc = "routing"
      /\ UNCHANGED <<last, cleared, mishaps>>
  BY SwitchFacts
<1> SUFFICES ASSUME {"skip", "switch"} \cap mishaps = {}
             PROVE  /\ \A n \in Models : ConvOrdered(conv'[n], last, cleared)
                    /\ \A t \in Turns : TurnOrdered(turn'[t], conv', last, cleared)
  BY <1>1 DEF Ordered
<1>2. /\ \A n \in Models : ConvOrdered(conv[n], last, cleared)
      /\ \A t \in Turns : TurnOrdered(turn[t], conv, last, cleared)
  BY DEF Ordered
<1>3. ASSUME Copies(conv'[m], conv[preferred], From(m)), conv[m].messages = << >>
      PROVE  ConvOrdered(conv'[m], last, cleared)
  <2> DEFINE old == conv[preferred]  c == conv[m]  d == conv'[m]
  <2>1. /\ ConvOrdered(old, last, cleared) /\ old.list # Aliased
        /\ ConvOrdered(c, last, cleared) /\ c.list # Aliased /\ c.messages = << >>
        /\ ConvShape(old) /\ ConvShape(c) /\ cleared \in Nat
    BY <1>1, <1>2, <1>3, TypeOKParts DEF ConvOrdered, Counts
  <2>2. /\ d.messages = old.messages /\ old.messages # << >>
        /\ \/ d.mark = old.mark /\ d.list = old.list
           \/ d.mark = c.mark /\ d.list = c.list
    BY <1>3, <2>1 DEF Copies, From
  <2> HIDE DEF old, c, d
  <2>3. CASE d.mark = old.mark /\ d.list = old.list
    BY <2>1, <2>2, <2>3 DEF ConvOrdered, d
  <2>4. CASE d.mark = c.mark /\ d.list = c.list
    <3>1. ASSUME Real(c.list) PROVE Ahead(c.list, old.messages, c.mark, last, cleared)
      <4>1. /\ c.list \in Lists /\ old.messages \in Seq(Items)
            /\ Later(Range(old.messages), cleared)
            /\ Ahead(c.list, << >>, c.mark, last, cleared)
        BY <2>1, <3>1 DEF ConvOrdered, ConvShape, Conversations, InOrder, Real
      <4>2. QED
        BY <2>1, <2>2, <4>1, ClearedAhead
    <3>2. QED
      BY <2>1, <2>2, <2>4, <3>1 DEF ConvOrdered, d
  <2>5. QED
    BY <2>2, <2>3, <2>4
<1>4. \A n \in Models : ConvOrdered(conv'[n], last, cleared)
  BY <1>1, <1>2, <1>3 DEF ConvOrdered
<1>5. ASSUME NEW t \in Turns PROVE TurnOrdered(turn'[t], conv', last, cleared)
  <2> DEFINE q == turn[t]
  <2> SUFFICES ASSUME q.pc = "summarising", ~q.switch, turn'[t] = q
               PROVE  /\ Size(q.input) >= 2
                      /\ Ahead(q.input, conv'[q.target].messages, q.mark, last, cleared)
    BY <1>1 DEF TurnOrdered
  <2>1. /\ Size(q.input) >= 2 /\ Ahead(q.input, conv[q.target].messages, q.mark, last, cleared)
    BY <1>2 DEF TurnOrdered
  <2>2. q.target \in Models /\ q.input \in Lists /\ cleared \in Nat
    BY TypeOKParts, TurnFacts DEF Counts
  <2> DEFINE s == conv'[m].messages
  <2>3. CASE q.target = m /\ Copies(conv'[m], conv[preferred], From(m)) /\ conv[m].messages = << >>
    <3>1. s \in Seq(Items) /\ Later(Range(s), cleared) /\ s # << >>
      BY <1>1, <1>4, <2>3 DEF Copies, ConvShape, Conversations, ConvOrdered, InOrder
    <3>2. Ahead(q.input, << >>, q.mark, last, cleared)
      BY <2>1, <2>3
    <3> HIDE DEF s, q
    <3>5. Ahead(q.input, s, q.mark, last, cleared)
      BY <2>2, <3>1, <3>2, ClearedAhead
    <3>6. QED
      BY <2>1, <2>3, <3>5 DEF s
  <2>4. CASE conv'[q.target].messages = conv[q.target].messages
    BY <2>1, <2>4
  <2>5. QED
    BY <1>1, <2>2, <2>3, <2>4
<1>6. QED
  BY <1>4, <1>5

LEMMA OrderedHolds == Spec => []Ordered
<1>1. Init => Ordered
  BY InitOrdered
<1>2. TypeOK /\ Ordered /\ [Next]_vars => Ordered'
  <2> SUFFICES ASSUME TypeOK, Ordered, [Next]_vars PROVE Ordered'
    OBVIOUS
  <2>1. CASE UNCHANGED vars
    BY <2>1 DEF vars, Ordered
  <2>2. QED
    BY <2>1, TurnStepFacts, TurnOrderedOn, ClearOrdered, SwitchOrdered DEF Next
<1>3. QED
  BY <1>1, <1>2, TypesHold, PTL DEF Spec

(* No request shows an item twice or out of order, however turns overlap   *)
(* and conversations are cleared, until a compaction of too little makes   *)
(* the list and the messages one array (conversationCompactionService.js)  *)
(* or one begun for another model is stored.                               *)
THEOREM RequestsAreInOrder == Spec => ShownInOrder
<1> DEFINE Orders == \A t \in Turns :
              GetMessagesForAI(t) /\ {"skip", "switch"} \cap mishaps = {} =>
                LET shown == Shown(conv'[turn[t].target])
                IN \A i \in 1..(Len(shown) - 1) : Below(shown[i], shown[i + 1])
<1>1. ASSUME TypeOK, Ordered, [Next]_vars PROVE [Orders]_vars
  <2> SUFFICES ASSUME NEW t \in Turns, GetMessagesForAI(t), {"skip", "switch"} \cap mishaps = {}
               PROVE  LET shown == Shown(conv'[turn[t].target])
                      IN \A i \in 1..(Len(shown) - 1) : Below(shown[i], shown[i + 1])
    OBVIOUS
  <2> DEFINE m == turn[t].target  c == conv'[m]  shown == Shown(c)
  <2>1. m \in Models /\ Syncing(m)
    BY <1>1, GetMessagesStep
  <2>2. \A k \in Models : ConvOrdered(conv[k], last, cleared)
    BY <1>1 DEF Ordered
  <2>3. ConvOrdered(c, last, cleared) /\ ConvShape(c)
    BY <1>1, <2>1, <2>2, SyncingOrdered, SyncingFacts DEF ConvsKept
  <2> SUFFICES ASSUME NEW i \in 1..(Len(shown) - 1) PROVE Below(shown[i], shown[i + 1])
    OBVIOUS
  <2> HIDE DEF m, c
  <2>4. shown \in Seq(Items) /\ Chain(shown)
    BY <2>3, ListOfOrdered, ShownFacts
  <2> HIDE DEF shown
  <2>5. i \in DOMAIN shown /\ i + 1 \in DOMAIN shown /\ i < i + 1
    BY <2>4
  <2>6. Before(shown[i], shown[i + 1])
    BY <2>4, <2>5 DEF Chain
  <2>7. QED
    BY <2>6 DEF Before, Below
<1>2. QED
  BY <1>1, TypesHold, OrderedHolds, PTL DEF Spec, ShownInOrder
=============================================================================
