------------------------- MODULE FlowExecutorProofs -------------------------
(***************************************************************************)
(* Proofs about FlowExecutor, for every flow, any number of loops, retries *)
(* and re-prompts: the topological sort, and that nodes run in its order,  *)
(* with fresh results that fit together, once, under their contracts.      *)
(***************************************************************************)
EXTENDS FlowExecutor, FiniteSetTheorems, SequenceTheorems, WellFoundedInduction, TLAPS

(* A set with 0 and the successors of its numbers has them all.            *)
LEMMA NumbersInduction ==
  ASSUME NEW S, 0 \in S, \A n \in Nat : n \in S => n + 1 \in S
  PROVE  \A n \in Nat : n \in S
<1> SUFFICES ASSUME Nat \ S # {} PROVE FALSE
  OBVIOUS
<1> DEFINE R == OpToRel(<, Nat)
<1>1. IsWellFoundedOn(R, Nat)
  BY NatLessThanWellFounded
<1>2. \E x \in Nat \ S : \A y \in Nat \ S : <<y, x>> \notin R
  <2> HIDE DEF R
  <2>1. Nat \ S \subseteq Nat
    OBVIOUS
  <2>2. QED
    BY <1>1, <2>1, WFMin
<1>3. PICK x \in Nat \ S : \A y \in Nat \ S : <<y, x>> \notin R
  BY <1>2
<1>4. \A a, b \in Nat : a < b => <<a, b>> \in R
  BY DEF OpToRel
<1>5. x - 1 \in Nat /\ x - 1 < x /\ x - 1 + 1 = x
  OBVIOUS
<1>6. x - 1 \notin Nat \ S
  BY <1>3, <1>4, <1>5
<1>7. QED
  BY <1>5, <1>6

LEMMA UptoInduction ==
  ASSUME NEW n \in Nat, NEW S, 0 \in S, \A k \in 1..n : k - 1 \in S => k \in S
  PROVE  \A k \in 0..n : k \in S
<1> DEFINE T == {k \in Nat : k <= n => k \in S}
<1>1. 0 \in T
  OBVIOUS
<1>2. ASSUME NEW k \in Nat, k \in T PROVE k + 1 \in T
  <2>1. CASE k + 1 \in 1..n
    <3>1. (k + 1) - 1 = k /\ k \in S
      BY <1>2, <2>1
    <3>2. QED
      BY <2>1, <3>1
  <2>2. CASE k + 1 \notin 1..n
    BY <2>2
  <2>3. QED
    BY <2>1, <2>2
<1> HIDE DEF T
<1>3. \A k \in Nat : k \in T
  BY <1>1, <1>2, NumbersInduction
<1>4. QED
  BY <1>3 DEF T

(* What a function that is defined by recursion needs, to be there: a first *)
(* value, and a next one after each.                                       *)
Follows(g, n, a, F) == g[0] = a /\ \A k \in 1..n : g[k] = F[<<k, g[k - 1]>>]
LEMMA Recursion ==
  ASSUME NEW n \in Nat, NEW A, NEW a \in A, NEW F \in [(1..n) \X A -> A]
  PROVE  \E g \in [0..n -> A] : Follows(g, n, a, F)
<1> DEFINE Good(m, g) == g \in [0..m -> A] /\ g[0] = a /\ \A k \in 1..m : g[k] = F[<<k, g[k - 1]>>]
           S == {m \in 0..n : \E g : Good(m, g)}
<1>1. 0 \in S
  <2> DEFINE g == [k \in 0..0 |-> a]
  <2>1. g \in [0..0 -> A] /\ g[0] = a /\ \A k \in 1..0 : g[k] = F[<<k, g[k - 1]>>]
    OBVIOUS
  <2> HIDE DEF g
  <2>2. \E h : Good(0, h)
    BY <2>1
  <2>3. QED
    BY <2>2
<1>2. ASSUME NEW m \in 1..n, m - 1 \in S PROVE m \in S
  <2>1. PICK g : Good(m - 1, g)
    BY <1>2
  <2> DEFINE h == [k \in 0..m |-> IF k = m THEN F[<<m, g[m - 1]>>] ELSE g[k]]
  <2>2. m - 1 \in 0..(m - 1) /\ g[m - 1] \in A /\ <<m, g[m - 1]>> \in (1..n) \X A
    BY <2>1
  <2>3. h \in [0..m -> A]
    BY <2>1, <2>2
  <2>4. h[0] = a
    BY <2>1
  <2>5. ASSUME NEW k \in 1..m PROVE h[k] = F[<<k, h[k - 1]>>]
    <3>1. k - 1 \in 0..(m - 1) /\ h[k - 1] = g[k - 1]
      OBVIOUS
    <3>2. CASE k = m
      BY <3>1, <3>2
    <3>3. CASE k # m
      BY <2>1, <3>1, <3>3
    <3>4. QED
      BY <3>2, <3>3
  <2> HIDE DEF h
  <2>6. Good(m, h)
    BY <2>3, <2>4, <2>5
  <2>7. QED
    BY <2>6
<1>3. n \in S
  <2> HIDE DEF S
  <2>1. \A k \in 1..n : k - 1 \in S => k \in S
    BY <1>2
  <2>2. QED
    BY <1>1, <2>1, UptoInduction
<1>4. QED
  BY <1>3 DEF Follows
-----------------------------------------------------------------------------
(* A sequence without repetitions, and what is in it.                      *)
Distinct(s) == \A i, j \in DOMAIN s : s[i] = s[j] => i = j
Elements(s) == {s[i] : i \in DOMAIN s}

LEMMA ChosenFacts ==
  ASSUME NEW S, NEW nodes \in Seq(S), NEW set
  PROVE  /\ Chosen(nodes, set) \in Seq(S)
         /\ Elements(Chosen(nodes, set)) = Elements(nodes) \cap set
         /\ Distinct(nodes) => Distinct(Chosen(nodes, set))
<1> DEFINE n == Len(nodes)
           Step(k, t) == IF nodes[k] \in set THEN Append(t, nodes[k]) ELSE t
           Is(g) == g = [k \in 0..n |-> IF k = 0 THEN << >>
                           ELSE IF nodes[k] \in set THEN Append(g[k - 1], nodes[k]) ELSE g[k - 1]]
           G == CHOOSE g : Is(g)
<1>1. n \in Nat /\ DOMAIN nodes = 1..n /\ \A k \in 1..n : nodes[k] \in S
  OBVIOUS
<1>2. Chosen(nodes, set) = G[n]
  BY DEF Chosen
<1>3. \E g : Is(g)
  <2> DEFINE F == [p \in (1..n) \X Seq(S) |-> Step(p[1], p[2])]
  <2>1. F \in [(1..n) \X Seq(S) -> Seq(S)]
    BY <1>1
  <2>2. << >> \in Seq(S)
    OBVIOUS
  <2> HIDE DEF F, n
  <2>3. PICK g \in [0..n -> Seq(S)] : Follows(g, n, << >>, F)
    BY <1>1, <2>1, <2>2, Recursion
  <2>4. ASSUME NEW k \in 1..n PROVE g[k] = Step(k, g[k - 1])
    <3>1. k - 1 \in 0..n /\ <<k, g[k - 1]>> \in (1..n) \X Seq(S)
      BY <1>1
    <3>2. QED
      BY <2>3, <3>1 DEF F, Follows
  <2> HIDE DEF Step
  <2>5. \A k \in 0..n : g[k] = IF k = 0 THEN << >> ELSE Step(k, g[k - 1])
    BY <1>1, <2>3, <2>4 DEF Follows
  <2>6. g = [k \in 0..n |-> IF k = 0 THEN << >> ELSE Step(k, g[k - 1])]
    BY <2>3, <2>5
  <2>7. QED
    BY <2>6 DEF Step
<1> HIDE DEF Is
<1>4. Is(G)
  BY <1>3
<1> HIDE DEF G
<1>5. G[0] = << >> /\ \A k \in 1..n : G[k] = Step(k, G[k - 1])
  <2> HIDE DEF Step, n
  <2>1. G = [k \in 0..n |-> IF k = 0 THEN << >> ELSE Step(k, G[k - 1])]
    BY <1>4 DEF Is, Step
  <2>2. 0 \in 0..n /\ \A k \in 1..n : k \in 0..n /\ k # 0
    BY <1>1
  <2>3. QED
    BY <2>1, <2>2
<1> DEFINE Upto(k) == {nodes[i] : i \in 1..k}
           Good(k) == /\ G[k] \in Seq(S) /\ Elements(G[k]) = Upto(k) \cap set
                      /\ Distinct(nodes) => Distinct(G[k])
           Fine == {k \in 0..n : Good(k)}
<1>6. 0 \in Fine
  <2>1. G[0] = << >> /\ Upto(0) = {} /\ Elements(<< >>) = {} /\ Distinct(<< >>)
    BY <1>5 DEF Elements, Distinct
  <2>2. Good(0) /\ 0 \in 0..n
    BY <1>1, <2>1
  <2>3. QED
    BY <2>2
<1>7. ASSUME NEW k \in 1..n, k - 1 \in Fine PROVE k \in Fine
  <2>1. /\ G[k - 1] \in Seq(S) /\ Elements(G[k - 1]) = Upto(k - 1) \cap set
        /\ Distinct(nodes) => Distinct(G[k - 1])
    BY <1>7
  <2>2. G[k] = Step(k, G[k - 1]) /\ nodes[k] \in S
    BY <1>1, <1>5
  <2>3. Upto(k) = Upto(k - 1) \cup {nodes[k]}
    BY <1>1
  <2>4. CASE nodes[k] \in set
    <3> DEFINE t == Append(G[k - 1], nodes[k])
    <3>1. G[k] = t
      BY <2>2, <2>4
    <3>2. /\ t \in Seq(S) /\ Len(t) = Len(G[k - 1]) + 1
          /\ \A i \in 1..Len(G[k - 1]) : t[i] = G[k - 1][i]
          /\ t[Len(G[k - 1]) + 1] = nodes[k]
      BY <2>1, <2>2
    <3>3. Elements(t) = Elements(G[k - 1]) \cup {nodes[k]}
      BY <2>1, <3>2 DEF Elements
    <3>4. ASSUME Distinct(nodes) PROVE Distinct(t)
      <4>1. nodes[k] \notin Elements(G[k - 1])
        BY <1>1, <2>1, <3>4 DEF Distinct
      <4>2. QED
        BY <2>1, <3>2, <3>4, <4>1 DEF Distinct, Elements
    <3>5. Good(k) /\ k \in 0..n
      BY <1>1, <2>1, <2>3, <2>4, <3>1, <3>2, <3>3, <3>4
    <3>6. QED
      BY <3>5
  <2>5. CASE nodes[k] \notin set
    BY <2>1, <2>2, <2>3, <2>5
  <2>6. QED
    BY <2>4, <2>5
<1>8. n \in Fine
  <2> HIDE DEF Fine, n
  <2>1. \A k \in 0..n : k \in Fine
    BY <1>1, <1>6, <1>7, UptoInduction
  <2>2. QED
    BY <1>1, <2>1
<1>9. Upto(n) = Elements(nodes)
  BY <1>1 DEF Elements
<1>10. QED
  BY <1>2, <1>8, <1>9

LEMMA TailFacts ==
  ASSUME NEW S, NEW s \in Seq(S), s # << >>
  PROVE  /\ Head(s) \in S /\ Tail(s) \in Seq(S) /\ Head(s) = s[1] /\ 1 \in DOMAIN s
         /\ Len(Tail(s)) = Len(s) - 1 /\ \A i \in 1..(Len(s) - 1) : Tail(s)[i] = s[i + 1]
         /\ Elements(s) = {Head(s)} \cup Elements(Tail(s))
         /\ Distinct(s) => Distinct(Tail(s)) /\ Head(s) \notin Elements(Tail(s))
<1>1. /\ Head(s) \in S /\ Tail(s) \in Seq(S) /\ Head(s) = s[1] /\ Len(s) \in Nat \ {0}
      /\ Len(Tail(s)) = Len(s) - 1 /\ \A i \in 1..(Len(s) - 1) : Tail(s)[i] = s[i + 1]
  OBVIOUS
<1>2. DOMAIN s = 1..Len(s) /\ DOMAIN Tail(s) = 1..(Len(s) - 1)
  BY <1>1
<1>3. Elements(s) = {Head(s)} \cup Elements(Tail(s))
  <2>1. \A i \in 1..(Len(s) - 1) : i + 1 \in 1..Len(s)
    BY <1>1
  <2>2. \A i \in 1..Len(s) : i = 1 \/ (i - 1 \in 1..(Len(s) - 1) /\ (i - 1) + 1 = i)
    BY <1>1
  <2>3. ASSUME NEW i \in 1..Len(s) PROVE s[i] \in {Head(s)} \cup Elements(Tail(s))
    <3>1. CASE i = 1
      BY <1>1, <3>1
    <3>2. CASE i - 1 \in 1..(Len(s) - 1) /\ (i - 1) + 1 = i
      <4>1. Tail(s)[i - 1] = s[i]
        BY <1>1, <3>2
      <4>2. QED
        BY <1>2, <3>2, <4>1 DEF Elements
    <3>3. QED
      BY <2>2, <3>1, <3>2
  <2>4. {Head(s)} \cup Elements(Tail(s)) \subseteq Elements(s)
    BY <1>1, <1>2, <2>1 DEF Elements
  <2>5. QED
    BY <1>2, <2>3, <2>4 DEF Elements
<1>4. ASSUME Distinct(s) PROVE Distinct(Tail(s)) /\ Head(s) \notin Elements(Tail(s))
  <2>1. \A i \in 1..(Len(s) - 1) : i + 1 \in 1..Len(s) /\ i + 1 # 1
    BY <1>1
  <2>2. Head(s) \notin Elements(Tail(s))
    BY <1>1, <1>2, <1>4, <2>1 DEF Elements, Distinct
  <2>3. \A i, j \in 1..(Len(s) - 1) : i + 1 = j + 1 => i = j
    BY <1>1
  <2>4. Distinct(Tail(s))
    BY <1>1, <1>2, <1>4, <2>1, <2>3 DEF Distinct
  <2>5. QED
    BY <2>2, <2>4
<1>5. QED
  BY <1>1, <1>2, <1>3, <1>4

LEMMA ConcatFacts ==
  ASSUME NEW S, NEW s \in Seq(S), NEW t \in Seq(S)
  PROVE  /\ s \o t \in Seq(S) /\ Elements(s \o t) = Elements(s) \cup Elements(t)
         /\ Distinct(s) /\ Distinct(t) /\ Elements(s) \cap Elements(t) = {} => Distinct(s \o t)
<1> DEFINE n == Len(s)  m == Len(t)  u == s \o t
<1>1. /\ n \in Nat /\ m \in Nat /\ u \in Seq(S) /\ Len(u) = n + m
      /\ DOMAIN s = 1..n /\ DOMAIN t = 1..m /\ DOMAIN u = 1..(n + m)
      /\ \A i \in 1..n : u[i] = s[i]
      /\ \A i \in 1..(n + m) : i > n => u[i] = t[i - n]
  OBVIOUS
<1> HIDE DEF n, m, u
<1>2. \A i \in 1..m : i + n \in 1..(n + m) /\ i + n > n /\ (i + n) - n = i
  BY <1>1
<1>3. \A i \in 1..(n + m) : i \in 1..n \/ (i > n /\ i - n \in 1..m)
  BY <1>1
<1>4. \A i \in 1..n : i \in 1..(n + m)
  BY <1>1
<1>5. Elements(u) = Elements(s) \cup Elements(t)
  <2>1. Elements(u) \subseteq Elements(s) \cup Elements(t)
    BY <1>1, <1>3 DEF Elements
  <2>2. Elements(s) \subseteq Elements(u)
    BY <1>1, <1>4 DEF Elements
  <2>3. Elements(t) \subseteq Elements(u)
    <3> SUFFICES ASSUME NEW i \in 1..m PROVE t[i] \in Elements(u)
      BY <1>1 DEF Elements
    <3>1. u[i + n] = t[i]
      BY <1>1, <1>2
    <3>2. QED
      BY <1>1, <1>2, <3>1 DEF Elements
  <2>4. QED
    BY <2>1, <2>2, <2>3
<1>6. ASSUME Distinct(s), Distinct(t), Elements(s) \cap Elements(t) = {}
      PROVE  Distinct(u)
  <2> SUFFICES ASSUME NEW i \in 1..(n + m), NEW j \in 1..(n + m), u[i] = u[j] PROVE i = j
    BY <1>1 DEF Distinct
  <2>1. CASE i \in 1..n /\ j \in 1..n
    BY <1>1, <1>6, <2>1 DEF Distinct
  <2>2. CASE i > n /\ j > n
    <3>1. i - n \in 1..m /\ j - n \in 1..m /\ t[i - n] = t[j - n]
      BY <1>1, <1>3, <2>2
    <3>2. i - n = j - n
      BY <1>1, <1>6, <3>1 DEF Distinct
    <3>3. QED
      BY <1>1, <3>2
  <2>3. ASSUME NEW a \in 1..n, NEW b \in 1..(n + m), b > n PROVE u[a] # u[b]
    <3>1. u[a] \in Elements(s)
      BY <1>1 DEF Elements
    <3>2. b - n \in 1..m /\ u[b] = t[b - n]
      BY <1>1, <1>3, <2>3
    <3>3. u[b] \in Elements(t)
      BY <1>1, <3>2 DEF Elements
    <3>4. QED
      BY <1>6, <3>1, <3>3
  <2>4. QED
    BY <1>3, <2>1, <2>2, <2>3
<1>7. QED
  BY <1>1, <1>5, <1>6 DEF u

LEMMA AppendFacts ==
  ASSUME NEW S, NEW s \in Seq(S), NEW x \in S
  PROVE  /\ Append(s, x) \in Seq(S) /\ Len(Append(s, x)) = Len(s) + 1
         /\ \A i \in 1..Len(s) : Append(s, x)[i] = s[i]
         /\ Append(s, x)[Len(s) + 1] = x
         /\ Elements(Append(s, x)) = Elements(s) \cup {x}
         /\ Distinct(s) /\ x \notin Elements(s) => Distinct(Append(s, x))
<1>1. /\ Append(s, x) \in Seq(S) /\ Len(s) \in Nat /\ Len(Append(s, x)) = Len(s) + 1
      /\ \A i \in 1..Len(s) : Append(s, x)[i] = s[i]
      /\ Append(s, x)[Len(s) + 1] = x
      /\ DOMAIN s = 1..Len(s) /\ DOMAIN Append(s, x) = 1..(Len(s) + 1)
  OBVIOUS
<1>2. \A i \in 1..(Len(s) + 1) : i \in 1..Len(s) \/ i = Len(s) + 1
  BY <1>1
<1>3. Elements(Append(s, x)) = Elements(s) \cup {x}
  BY <1>1, <1>2 DEF Elements
<1>4. ASSUME Distinct(s), x \notin Elements(s) PROVE Distinct(Append(s, x))
  BY <1>1, <1>2, <1>4 DEF Distinct, Elements
<1>5. QED
  BY <1>1, <1>3, <1>4
-----------------------------------------------------------------------------
(* What the rounds of the sort keep: every node whose sources are sorted   *)
(* is sorted or in the queue, once.                                        *)
SourcesFirst(s, es) == \A i \in DOMAIN s : Before(s[i], es) \subseteq {s[j] : j \in 1..(i - 1)}
Sorting(nodes, es, s) ==
  /\ Distinct(s.queue) /\ Distinct(s.sorted)
  /\ Elements(s.queue) \cap Elements(s.sorted) = {}
  /\ Elements(s.queue) \cup Elements(s.sorted)
       = {n \in Elements(nodes) : Before(n, es) \subseteq Elements(s.sorted)}
  /\ SourcesFirst(s.sorted, es)
States(S) == [queue : Seq(S), sorted : Seq(S)]

LEMMA ReadyFacts ==
  ASSUME NEW S, NEW nodes \in Seq(S), Distinct(nodes), NEW es,
         es \subseteq Elements(nodes) \X Elements(nodes), NEW n, NEW done
  PROVE  LET ready == ReadyAfter(nodes, n, done, es) IN
           /\ ready \in Seq(S) /\ Distinct(ready)
           /\ Elements(ready) = {m \in Elements(nodes) : /\ n \in Before(m, es)
                                                         /\ Before(m, es) \subseteq done}
<1> DEFINE set == {e[2] : e \in {d \in es : d[1] = n /\ Before(d[2], es) \subseteq done}}
           all == {m \in Elements(nodes) : n \in Before(m, es) /\ Before(m, es) \subseteq done}
<1>1. Elements(nodes) \cap set = all
  <2>1. ASSUME NEW m \in set PROVE n \in Before(m, es) /\ Before(m, es) \subseteq done
    <3>1. PICK e \in es : e[1] = n /\ e[2] = m /\ Before(e[2], es) \subseteq done
      BY <2>1
    <3>2. QED
      BY <3>1 DEF Before
  <2>2. ASSUME NEW m \in all PROVE m \in set
    <3>1. PICK e \in es : e[2] = m /\ e[1] = n
      BY <2>2 DEF Before
    <3>2. QED
      BY <2>2, <3>1
  <2>3. QED
    BY <2>1, <2>2
<1> HIDE DEF set, all
<1>2. ReadyAfter(nodes, n, done, es) = Chosen(nodes, set)
  BY DEF ReadyAfter, set
<1>3. QED
  BY <1>1, <1>2, ChosenFacts DEF all

LEMMA RoundFacts ==
  ASSUME NEW S, NEW nodes \in Seq(S), Distinct(nodes), NEW es,
         es \subseteq Elements(nodes) \X Elements(nodes),
         NEW s \in States(S), Sorting(nodes, es, s)
  PROVE  LET r == Round(nodes, es, s) IN
           /\ r \in States(S) /\ Sorting(nodes, es, r)
           /\ IF s.queue = << >> THEN r = s ELSE Len(r.sorted) = Len(s.sorted) + 1
<1>1. CASE s.queue = << >>
  BY <1>1 DEF Round
<1>2. CASE s.queue # << >>
  <2> DEFINE n == Head(s.queue)
             sorted == Append(s.sorted, n)
             ready == ReadyAfter(nodes, n, Elements(sorted), es)
             queue == Tail(s.queue) \o ready
  <2>1. Round(nodes, es, s) = [queue |-> queue, sorted |-> sorted]
    BY <1>2 DEF Round, Elements
  <2>2. s.queue \in Seq(S) /\ s.sorted \in Seq(S)
    BY DEF States
  <2>3. /\ n \in S /\ Tail(s.queue) \in Seq(S) /\ Distinct(Tail(s.queue))
        /\ Elements(s.queue) = {n} \cup Elements(Tail(s.queue)) /\ n \notin Elements(Tail(s.queue))
    BY <1>2, <2>2, TailFacts DEF Sorting
  <2>4. n \notin Elements(s.sorted)
    BY <2>3 DEF Sorting
  <2>5. /\ sorted \in Seq(S) /\ Len(sorted) = Len(s.sorted) + 1 /\ Distinct(sorted)
        /\ Elements(sorted) = Elements(s.sorted) \cup {n}
        /\ \A i \in 1..Len(s.sorted) : sorted[i] = s.sorted[i]
        /\ sorted[Len(s.sorted) + 1] = n
    <3> HIDE DEF n
    <3>1. QED
      BY <2>2, <2>3, <2>4, AppendFacts DEF Sorting
  <2> HIDE DEF n, sorted
  <2>6. /\ ready \in Seq(S) /\ Distinct(ready)
        /\ Elements(ready) = {m \in Elements(nodes) : /\ n \in Before(m, es)
                                                      /\ Before(m, es) \subseteq Elements(sorted)}
    BY ReadyFacts
  <2> HIDE DEF ready
  <2>7. /\ Elements(ready) \cap (Elements(s.queue) \cup Elements(s.sorted)) = {}
        /\ n \in Elements(nodes) /\ Before(n, es) \subseteq Elements(s.sorted)
    BY <2>3, <2>4, <2>6 DEF Sorting
  <2>8. /\ queue \in Seq(S) /\ Distinct(queue)
        /\ Elements(queue) = Elements(Tail(s.queue)) \cup Elements(ready)
    <3>1. Elements(Tail(s.queue)) \cap Elements(ready) = {}
      BY <2>3, <2>7
    <3>2. PICK t \in Seq(S) : t = Tail(s.queue)
      BY <2>3
    <3>3. PICK u \in Seq(S) : u = ready
      BY <2>6
    <3>4. Distinct(t) /\ Distinct(u) /\ Elements(t) \cap Elements(u) = {}
      BY <2>3, <2>6, <3>1, <3>2, <3>3
    <3>5. /\ t \o u \in Seq(S) /\ Elements(t \o u) = Elements(t) \cup Elements(u)
          /\ Distinct(t \o u)
      BY <3>4, ConcatFacts
    <3>6. QED
      BY <3>2, <3>3, <3>5
  <2> HIDE DEF queue
  <2>9. Elements(queue) \cap Elements(sorted) = {}
    BY <2>3, <2>5, <2>7, <2>8 DEF Sorting
  <2>10. Elements(queue) \cup Elements(sorted)
           = {m \in Elements(nodes) : Before(m, es) \subseteq Elements(sorted)}
    BY <2>3, <2>5, <2>6, <2>8 DEF Sorting
  <2>11. SourcesFirst(sorted, es)
    <3> SUFFICES ASSUME NEW i \in 1..(Len(s.sorted) + 1)
                 PROVE  Before(sorted[i], es) \subseteq {sorted[j] : j \in 1..(i - 1)}
      <4>1. DOMAIN sorted = 1..(Len(s.sorted) + 1)
        BY <2>2, <2>5
      <4>2. QED
        BY <4>1 DEF SourcesFirst
    <3>1. Len(s.sorted) \in Nat /\ DOMAIN s.sorted = 1..Len(s.sorted)
      BY <2>2
    <3>2. CASE i \in 1..Len(s.sorted)
      <4>1. Before(s.sorted[i], es) \subseteq {s.sorted[j] : j \in 1..(i - 1)}
        BY <3>1, <3>2 DEF Sorting, SourcesFirst
      <4>2. \A j \in 1..(i - 1) : j \in 1..Len(s.sorted)
        BY <3>1, <3>2
      <4>3. QED
        BY <2>5, <3>2, <4>1, <4>2
    <3>3. CASE i = Len(s.sorted) + 1
      <4>1. Elements(s.sorted) = {s.sorted[j] : j \in 1..(i - 1)}
        BY <3>1, <3>3 DEF Elements
      <4>2. \A j \in 1..(i - 1) : sorted[j] = s.sorted[j]
        BY <2>5, <3>1, <3>3
      <4>3. QED
        BY <2>5, <2>7, <3>3, <4>1, <4>2
    <3>4. QED
      BY <3>1, <3>2, <3>3
  <2>12. PICK r : r = [queue |-> queue, sorted |-> sorted]
    OBVIOUS
  <2>13. r.queue = queue /\ r.sorted = sorted /\ r \in States(S)
    BY <2>5, <2>8, <2>12 DEF States
  <2>14. Sorting(nodes, es, r)
    BY <2>5, <2>8, <2>9, <2>10, <2>11, <2>13 DEF Sorting
  <2>15. QED
    BY <1>2, <2>1, <2>5, <2>12, <2>13, <2>14
<1>3. QED
  BY <1>1, <1>2

(* The rounds of the sort, and where they lead.                            *)
LEMMA SortingFacts ==
  ASSUME NEW S, NEW nodes \in Seq(S), Distinct(nodes), NEW es,
         es \subseteq Elements(nodes) \X Elements(nodes)
  PROVE  \E s \in States(S) :
           /\ TopologicalSort(nodes, es) = s.sorted /\ Sorting(nodes, es, s)
           /\ s.queue = << >> \/ Len(s.sorted) = Len(nodes)
<1> DEFINE n == Len(nodes)
           starts == Elements(nodes) \ {e[2] : e \in es}
           first == [queue |-> Chosen(nodes, starts), sorted |-> << >>]
           Is(g) == g = [k \in 0..n |-> IF k = 0 THEN first ELSE Round(nodes, es, g[k - 1])]
           G == CHOOSE g : Is(g)
           All == {s \in States(S) : Sorting(nodes, es, s)}
<1>1. n \in Nat
  OBVIOUS
<1>2. TopologicalSort(nodes, es) = G[n].sorted
  BY DEF TopologicalSort, Elements
<1>3. first \in All
  <2>1. /\ Chosen(nodes, starts) \in Seq(S) /\ Distinct(Chosen(nodes, starts))
        /\ Elements(Chosen(nodes, starts)) = Elements(nodes) \cap starts
    <3> HIDE DEF starts
    <3>1. QED
      BY ChosenFacts
  <2>2. \A m \in Elements(nodes) : m \in starts <=> Before(m, es) \subseteq {}
    BY DEF Before
  <2>3. << >> \in Seq(S) /\ Elements(<< >>) = {} /\ Distinct(<< >>) /\ SourcesFirst(<< >>, es)
    BY DEF Elements, Distinct, SourcesFirst
  <2>4. PICK q : q = Chosen(nodes, starts)
    OBVIOUS
  <2>5. first.queue = q /\ first.sorted = << >> /\ first \in States(S)
    BY <2>1, <2>3, <2>4 DEF States
  <2>6. Elements(q) = {m \in Elements(nodes) : Before(m, es) \subseteq {}}
    BY <2>1, <2>2, <2>4
  <2> HIDE DEF first, starts
  <2>7. Sorting(nodes, es, first)
    BY <2>1, <2>3, <2>4, <2>5, <2>6 DEF Sorting
  <2>8. QED
    BY <2>5, <2>7
<1> HIDE DEF first, n
<1>4. \A s \in All : Round(nodes, es, s) \in All
  BY RoundFacts
<1>5. \E g : Is(g)
  <2> DEFINE F == [p \in (1..n) \X All |-> Round(nodes, es, p[2])]
  <2>1. F \in [(1..n) \X All -> All]
    BY <1>4
  <2> HIDE DEF F
  <2>2. PICK A, a : A = All /\ a = first
    OBVIOUS
  <2>3. a \in A /\ F \in [(1..n) \X A -> A]
    BY <1>3, <2>1, <2>2
  <2>4. PICK g \in [0..n -> A] : Follows(g, n, a, F)
    BY <1>1, <2>3, Recursion
  <2>5. ASSUME NEW k \in 1..n PROVE g[k] = Round(nodes, es, g[k - 1])
    <3>1. k - 1 \in 0..n /\ g[k - 1] \in All /\ <<k, g[k - 1]>> \in (1..n) \X All
      BY <1>1, <2>2
    <3>2. QED
      BY <2>4, <3>1 DEF F, Follows
  <2> HIDE DEF All
  <2>6. \A k \in 0..n : g[k] = IF k = 0 THEN first ELSE Round(nodes, es, g[k - 1])
    BY <1>1, <2>2, <2>4, <2>5 DEF Follows
  <2>7. g = [k \in 0..n |-> IF k = 0 THEN first ELSE Round(nodes, es, g[k - 1])]
    BY <2>4, <2>6
  <2>8. QED
    BY <2>7
<1> HIDE DEF Is
<1>6. Is(G)
  BY <1>5
<1> HIDE DEF G, All
<1>7. G[0] = first /\ \A k \in 1..n : G[k] = Round(nodes, es, G[k - 1])
  <2>1. 0 \in 0..n /\ \A k \in 1..n : k \in 0..n /\ k # 0
    BY <1>1
  <2>2. QED
    BY <1>6, <2>1 DEF Is
<1> DEFINE Fine == {k \in 0..n : /\ G[k] \in All
                                 /\ G[k].queue = << >> \/ Len(G[k].sorted) = k}
<1>8. 0 \in Fine
  BY <1>1, <1>3, <1>7 DEF first
<1>9. ASSUME NEW k \in 1..n, k - 1 \in Fine PROVE k \in Fine
  <2>1. PICK s \in All : s = G[k - 1] /\ (s.queue = << >> \/ Len(s.sorted) = k - 1)
    BY <1>9
  <2>2. G[k] = Round(nodes, es, s) /\ G[k] \in All
    BY <1>4, <1>7, <2>1
  <2>3. s \in States(S) /\ Sorting(nodes, es, s)
    BY DEF All
  <2>4. IF s.queue = << >> THEN G[k] = s ELSE Len(G[k].sorted) = Len(s.sorted) + 1
    BY <2>2, <2>3, RoundFacts
  <2>5. G[k].queue = << >> \/ Len(G[k].sorted) = k
    BY <1>1, <2>1, <2>4
  <2>6. k \in 0..n
    BY <1>1
  <2>7. QED
    BY <2>2, <2>5, <2>6
<1>10. n \in Fine
  <2> HIDE DEF Fine
  <2>1. \A k \in 0..n : k \in Fine
    BY <1>1, <1>8, <1>9, UptoInduction
  <2>2. QED
    BY <1>1, <2>1
<1>11. QED
  BY <1>2, <1>10 DEF All, n

LEMMA NodesFacts ==
  /\ Distinct(Nodes) /\ Elements(Nodes) = NodeSet /\ IsFiniteSet(NodeSet) /\ NodeSet # {}
<1> DEFINE n == Len(Nodes)
<1>1. n \in Nat \ {0} /\ DOMAIN Nodes = 1..n /\ Nodes \in [1..n -> NodeSet]
  BY FlowAssumption
<1>2. Nodes \in Surjection(1..n, NodeSet)
  BY <1>1 DEF Surjection, NodeSet
<1>3. IsFiniteSet(1..n) /\ Cardinality(1..n) = n
  BY <1>1, FS_Interval
<1>4. Nodes \in Injection(1..n, NodeSet) /\ IsFiniteSet(NodeSet)
  BY <1>2, <1>3, FS_Surjection, FlowAssumption
<1>5. Distinct(Nodes)
  BY <1>1, <1>4 DEF Injection, IsInjective, Distinct
<1>6. 1 \in 1..n /\ Nodes[1] \in NodeSet
  BY <1>1
<1>7. QED
  BY <1>4, <1>5, <1>6 DEF Elements, NodeSet

LEMMA LeastRank ==
  ASSUME NEW U, U # {}, NEW rank, \A u \in U : rank[u] \in Nat
  PROVE  \E u \in U : \A w \in U : ~(rank[w] < rank[u])
<1> DEFINE R == OpToRel(<, Nat)
           T == {rank[u] : u \in U}
<1>1. \E x \in T : \A y \in T : <<y, x>> \notin R
  <2>1. IsWellFoundedOn(R, Nat)
    BY NatLessThanWellFounded
  <2>2. T \subseteq Nat /\ T # {}
    OBVIOUS
  <2> HIDE DEF R, T
  <2>3. QED
    BY <2>1, <2>2, WFMin
<1>2. \A x, y \in Nat : y < x => <<y, x>> \in R
  BY DEF OpToRel
<1>3. QED
  BY <1>1, <1>2

(* The nodes are sorted without repetition, each after all its sources;    *)
(* and all of them are, when the flow has no cycle (topologicalSort).      *)
THEOREM SortIsTopological ==
  ASSUME NEW es \in SUBSET (NodeSet \X NodeSet)
  PROVE  LET order == TopologicalSort(Nodes, es) IN
           /\ order \in Seq(NodeSet) /\ Distinct(order) /\ SourcesFirst(order, es)
           /\ (\E rank \in [NodeSet -> Nat] : \A e \in es : rank[e[1]] < rank[e[2]])
                => Elements(order) = NodeSet
<1>1. Nodes \in Seq(NodeSet) /\ Distinct(Nodes) /\ Elements(Nodes) = NodeSet
  BY NodesFacts, FlowAssumption
<1>2. PICK s \in States(NodeSet) :
        /\ TopologicalSort(Nodes, es) = s.sorted /\ Sorting(Nodes, es, s)
        /\ s.queue = << >> \/ Len(s.sorted) = Len(Nodes)
  BY <1>1, SortingFacts
<1>3. s.sorted \in Seq(NodeSet) /\ Distinct(s.sorted) /\ SourcesFirst(s.sorted, es)
  BY <1>2 DEF States, Sorting
<1>4. ASSUME NEW rank \in [NodeSet -> Nat], \A e \in es : rank[e[1]] < rank[e[2]]
      PROVE  Elements(s.sorted) = NodeSet
  <2> DEFINE n == Len(s.sorted)
  <2>1. Elements(s.sorted) \subseteq NodeSet
    BY <1>1, <1>2 DEF Sorting
  <2>2. CASE s.queue = << >>
    <3>1. Elements(s.sorted) = {m \in NodeSet : Before(m, es) \subseteq Elements(s.sorted)}
      <4>1. Elements(s.queue) = {}
        BY <2>2 DEF Elements
      <4>2. QED
        BY <1>1, <1>2, <4>1 DEF Sorting
    <3> SUFFICES ASSUME NodeSet \ Elements(s.sorted) # {} PROVE FALSE
      BY <2>1
    <3>2. PICK m \in NodeSet \ Elements(s.sorted) :
            \A w \in NodeSet \ Elements(s.sorted) : ~(rank[w] < rank[m])
      <4>1. PICK U : U = NodeSet \ Elements(s.sorted)
        OBVIOUS
      <4>2. U # {} /\ \A u \in U : rank[u] \in Nat
        BY <4>1
      <4>3. QED
        BY <4>1, <4>2, LeastRank
    <3>3. Before(m, es) \subseteq Elements(s.sorted)
      BY <1>4, <3>2 DEF Before
    <3>4. QED
      BY <3>1, <3>2, <3>3
  <2>3. CASE Len(s.sorted) = Len(Nodes)
    <3>1. n \in Nat /\ DOMAIN s.sorted = 1..n /\ s.sorted \in [1..n -> NodeSet]
      BY <1>3
    <3>2. s.sorted \in Injection(1..n, NodeSet)
      <4>1. PICK q : q = s.sorted
        OBVIOUS
      <4>2. q \in [1..n -> NodeSet] /\ \A i, j \in 1..n : q[i] = q[j] => i = j
        BY <1>3, <3>1, <4>1 DEF Distinct
      <4> HIDE DEF n
      <4>3. QED
        BY <4>1, <4>2 DEF Injection, IsInjective
    <3>3. Cardinality(1..n) = Cardinality(NodeSet) /\ IsFiniteSet(NodeSet)
      BY <2>3, <3>1, FS_Interval, NodesFacts, FlowAssumption
    <3>4. s.sorted \in Surjection(1..n, NodeSet)
      BY <3>2, <3>3, FS_Injection
    <3>5. QED
      BY <2>1, <3>1, <3>4 DEF Surjection, Elements
  <2>4. QED
    BY <1>2, <2>2, <2>3
<1>5. QED
  BY <1>2, <1>3, <1>4
-----------------------------------------------------------------------------
(* The inductive invariant.                                                *)
Pcs == Writing \cup {"new", "check", "trying", "backoff", "store", "ended"}
Busy == {"mark", "trying", "backoff", "note", "store", "blame"}
Given == {"note", "store"}    \* the node at the head has given its result
LoopType == [pc : Pcs, todo : Seq(NodeSet), edges : SUBSET (NodeSet \X NodeSet), try : Tries,
             copy : Statuses \cup {None}, outputs : [NodeSet -> Result \cup {None}]]

(* The sources of a node that waits have an output, or wait before it.     *)
Ordered(todo, es, outputs) ==
  \A i \in DOMAIN todo : \A m \in Before(todo[i], es) :
    outputs[m] # None \/ \E j \in 1..(i - 1) : todo[j] = m
AllOurs(outputs) == \A n \in NodeSet : outputs[n] # None => outputs[n].of = "ours"

(* A node that is at work has all its inputs.                              *)
Supplied(r) ==
  LET n == Head(r.todo) IN
  /\ r.todo # << >>
  /\ \A m \in Before(n, r.edges) : m # n /\ r.outputs[m] # None
  /\ r.outputs[n] # None <=> r.pc \in Given
  /\ r.pc = "backoff" => r.try < MaxRetries[n]
Fine(r) ==
  /\ r \in LoopType /\ Distinct(r.todo) /\ Ordered(r.todo, r.edges, r.outputs)
  /\ AllOurs(r.outputs)
  /\ r.copy # None => r.pc \in Keeping
  /\ r.pc \in Busy => Supplied(r)
  /\ r.pc = "new" => \A n \in NodeSet : r.outputs[n] = None

LoopsOK == loop \in [LoopIds -> LoopType] /\ \A l \in LoopIds : Fine(loop[l])
RecordOK ==
  /\ edges \in Flows /\ status \in Statuses \cup {None}
  /\ saved \in [NodeSet -> Result \cup {None}] /\ AllOurs(saved)
  /\ active \in {"none", "running", "stopped"} /\ stopping \in BOOLEAN
AgentsOK ==
  /\ att \in [Attempts -> [pc : {"off", "resetting", "waiting"}, left : 0..MaxReprompts]]
  /\ listener \in [NodeSet -> Attempts \cup {None}]
  /\ contract \in [NodeSet -> BOOLEAN]
  /\ {unread, working} \subseteq [NodeSet -> BOOLEAN]
  /\ flag \in [NodeSet -> Kinds \cup {None}]
  /\ telling \in [NodeSet -> Completion \cup {None}]

(* A loop gives a node one result at most.                                 *)
Pending(r, n) ==
  r.pc = "new" \/ \E i \in DOMAIN r.todo : r.todo[i] = n /\ ~(i = 1 /\ r.pc \in Given)
Counted ==
  /\ made \in [NodeSet -> Nat]
  /\ \A n \in NodeSet : made[n] <= Cardinality({l \in LoopIds : ~Pending(loop[l], n)})
Typed == LoopsOK /\ RecordOK /\ AgentsOK /\ Counted

(* While the flag shows earlier work, no attempt waits.                    *)
Cleared ==
  /\ \A k \in Attempts : flag[k[2]] = "past" => att[k].pc = "off"
  /\ \A n \in NodeSet : telling[n] # None => telling[n].of = "ours"

(* Only the execution comes first.                                         *)
Opening ==
  loop[1].pc = "new" =>
    /\ status = None /\ ~stopping /\ saved = [n \in NodeSet |-> None]
    /\ \A l \in LoopIds : loop[l].pc = "new"
Closing ==
  (loop[1].pc # "new" /\ Running = {} /\ "crash" \notin mishaps)
    => status \in {"completed", "failed", "stopped"}
Alone == "overlap" \notin mishaps => \A l, m \in Running : l = m

(* What is on disk is what the loop holds.                                 *)
Restored ==
  "overlap" \notin mishaps =>
    \A l \in Running : \A n \in NodeSet : saved[n] # None => loop[l].outputs[n] = saved[n]

(* Results fit, on disk and in the loops.                                  *)
Fits(outputs, es) ==
  \A e \in es : outputs[e[1]] # None /\ outputs[e[2]] # None
                  => outputs[e[2]].from[e[1]] = outputs[e[1]].gen
Rooted(outputs, es) == \A e \in es : outputs[e[2]] # None => outputs[e[1]] # None
Steady(r, es, kept) ==
  /\ r.edges = es /\ Rooted(r.outputs, es)
  /\ \A n \in NodeSet : r.outputs[n] # None
       => kept[n] # None \/ (r.pc \in Given /\ n = Head(r.todo))
Fitting ==
  mishaps \cap {"disk", "edit", "overlap"} = {} =>
    /\ \A l \in LoopIds : Fits(loop[l].outputs, loop[l].edges)
    /\ Fits(saved, edges) /\ Rooted(saved, edges)
    /\ \A l \in Running : Steady(loop[l], edges, saved)

IInv ==
  /\ Typed /\ Cleared /\ Opening /\ Closing
  /\ Alone /\ ContractsHold /\ Restored /\ Fitting
-----------------------------------------------------------------------------
(* The moves of one loop.                                                  *)
Only(l) ==
  /\ loop' \in [LoopIds -> LoopType]
  /\ \A m \in LoopIds \ {l} : loop'[m] = loop[m]
Same(l) ==
  /\ loop'[l].todo = loop[l].todo /\ loop'[l].edges = loop[l].edges
  /\ loop'[l].outputs = loop[l].outputs
Shift(l) ==
  /\ Only(l) /\ Same(l)
  /\ loop[l].pc # "new" /\ loop'[l].pc # "new"
  /\ loop[l].pc \in Given <=> loop'[l].pc \in Given
  /\ loop'[l].pc \in Busy /\ loop[l].pc \notin Busy
       => loop[l].todo # << >> /\ loop[l].outputs[NodeOf(l)] = None
  /\ loop'[l].pc = "backoff" => loop'[l].try < MaxRetries[NodeOf(l)]
  /\ loop'[l].copy # None => loop'[l].pc \in Keeping
Drop(l) ==
  /\ Only(l) /\ loop'[l].edges = loop[l].edges /\ loop'[l].outputs = loop[l].outputs
  /\ loop[l].todo # << >> /\ loop'[l].todo = Tail(loop[l].todo)
  /\ loop[l].outputs[NodeOf(l)] # None
  /\ loop[l].pc \in {"check", "store"} /\ loop'[l].pc = "check" /\ loop'[l].copy = None
Take(l) ==
  LET n == NodeOf(l) IN
  /\ Only(l) /\ loop'[l].edges = loop[l].edges /\ loop'[l].todo = loop[l].todo
  /\ loop[l].pc = "trying" /\ loop'[l].pc = "note" /\ loop'[l].copy = None
  /\ loop'[l].outputs[n] # None /\ loop'[l].outputs[n].of = "ours"
  /\ loop'[l].outputs[n].from = Sources(l)
  /\ \A m \in NodeSet \ {n} : loop'[l].outputs[m] = loop[l].outputs[m]
Begin(l) ==
  /\ Only(l) /\ loop[l].pc = "new" /\ loop'[l].pc \in {"check", "open"} /\ loop'[l].copy = None
  /\ Distinct(loop'[l].todo) /\ SourcesFirst(loop'[l].todo, loop'[l].edges)
  /\ AllOurs(loop'[l].outputs)
Fall == \A l \in LoopIds :
          loop'[l] = IF l \in Running THEN [Idle EXCEPT !.pc = "ended"] ELSE loop[l]

LEMMA OneLoop ==
  ASSUME LoopsOK, NEW l \in LoopIds, NEW r \in LoopType, loop' = [loop EXCEPT ![l] = r]
  PROVE  Only(l) /\ loop'[l] = r
BY DEF LoopsOK, Only

AfterSave(l) == {After(l)} \cup (IF loop[l].pc = "open" THEN {"failed"} ELSE {})

LEMMA SaveMoves ==
  ASSUME LoopsOK, status \in Statuses \cup {None}, NEW l \in LoopIds, Save(l)
  PROVE  /\ Shift(l) /\ loop'[l].copy = None /\ loop'[l].try = 0
         /\ loop'[l].pc \in AfterSave(l)
<1>0. loop[l] \in LoopType /\ Fine(loop[l])
  BY DEF LoopsOK
<1>1. After(l) \in Pcs /\ "failed" \in Pcs /\ None \in Statuses \cup {None} /\ 0 \in Tries
  <2>1. After(l) \in Pcs /\ "failed" \in Pcs
    BY <1>0 DEF After, LoopType, Pcs, Writing, Keeping
  <2>2. 0 \in Tries
    BY NodesFacts, BoundAssumption DEF Tries
  <2>3. QED
    BY <2>1, <2>2
<1>2. PICK p : /\ p = After(l) \/ (loop[l].pc = "open" /\ p = "failed")
               /\ loop' = [loop EXCEPT ![l].pc = p, ![l].copy = None, ![l].try = 0]
               /\ loop[l].pc \in Writing
  BY DEF Save
<1>3. p \in Pcs
  BY <1>1, <1>2
<1> HIDE DEF Save, After
<1>4. PICK r : r = [loop[l] EXCEPT !.pc = p, !.copy = None, !.try = 0]
  OBVIOUS
<1>5. r \in LoopType /\ r.pc = p /\ r.copy = None /\ r.try = 0 /\ r.todo = loop[l].todo
      /\ r.edges = loop[l].edges /\ r.outputs = loop[l].outputs
  BY <1>0, <1>1, <1>3, <1>4 DEF LoopType
<1>6. loop' = [loop EXCEPT ![l] = r]
  BY <1>2, <1>4
<1>7. Only(l) /\ loop'[l] = r
  BY <1>5, <1>6, OneLoop
<1>8. Shift(l)
  BY <1>0, <1>2, <1>5, <1>7 DEF Shift, Same, After, Given, Busy, Writing, Keeping
<1>9. QED
  BY <1>2, <1>5, <1>7, <1>8 DEF AfterSave

LEMMA LoadMoves ==
  ASSUME LoopsOK, status \in Statuses \cup {None}, NEW l \in LoopIds, Load(l)
  PROVE  /\ Shift(l) /\ loop'[l].pc = loop[l].pc /\ loop[l].pc \in Keeping
         /\ loop'[l].copy = status
<1>0. loop[l] \in LoopType /\ Fine(loop[l]) /\ loop[l].pc \in Keeping
  BY DEF LoopsOK, Load
<1>4. PICK r : r = [loop[l] EXCEPT !.copy = status]
  OBVIOUS
<1>5. r \in LoopType /\ r.pc = loop[l].pc /\ r.copy = status /\ r.try = loop[l].try
      /\ r.todo = loop[l].todo /\ r.edges = loop[l].edges /\ r.outputs = loop[l].outputs
  BY <1>0, <1>4 DEF LoopType
<1>6. loop' = [loop EXCEPT ![l] = r]
  BY <1>4 DEF Load
<1>7. Only(l) /\ loop'[l] = r
  BY <1>5, <1>6, OneLoop
<1>8. Shift(l)
  BY <1>0, <1>5, <1>7 DEF Shift, Same, Given, Busy, Keeping
<1>9. QED
  BY <1>0, <1>5, <1>7, <1>8

LEMMA CheckMoves ==
  ASSUME LoopsOK, NEW l \in LoopIds, Check(l)
  PROVE  /\ loop[l].pc = "check"
         /\ \/ Shift(l) /\ loop'[l].pc \in {"completed", "stopped"}
            \/ Shift(l) /\ loop'[l].pc = "mark"
            \/ Drop(l)
<1>0. loop[l] \in LoopType /\ Fine(loop[l]) /\ loop[l].pc = "check"
  BY DEF LoopsOK, Check
<1>1. loop[l].copy = None /\ loop[l].todo \in Seq(NodeSet)
  BY <1>0 DEF Fine, Keeping, LoopType
<1>2. ASSUME NEW p \in {"completed", "stopped", "mark"}, loop' = [loop EXCEPT ![l].pc = p],
             p = "mark" => loop[l].todo # << >> /\ loop[l].outputs[NodeOf(l)] = None
      PROVE  Shift(l) /\ loop'[l].pc = p
  <2>1. PICK r : r = [loop[l] EXCEPT !.pc = p]
    OBVIOUS
  <2>2. r \in LoopType /\ r.pc = p /\ r.copy = None /\ r.todo = loop[l].todo
        /\ r.edges = loop[l].edges /\ r.outputs = loop[l].outputs
    BY <1>0, <1>1, <2>1 DEF LoopType, Pcs, Writing, Keeping
  <2>3. loop' = [loop EXCEPT ![l] = r]
    BY <1>2, <2>1
  <2>4. Only(l) /\ loop'[l] = r
    BY <2>2, <2>3, OneLoop
  <2>5. QED
    BY <1>0, <1>2, <2>2, <2>4 DEF Shift, Same, Given, Busy
<1>3. ASSUME loop' = [loop EXCEPT ![l].todo = Tail(@)], loop[l].todo # << >>,
             loop[l].outputs[NodeOf(l)] # None
      PROVE  Drop(l)
  <2>0. Tail(loop[l].todo) \in Seq(NodeSet)
    BY <1>1, <1>3
  <2>1. PICK r : r = [loop[l] EXCEPT !.todo = Tail(loop[l].todo)]
    OBVIOUS
  <2>2. r \in LoopType /\ r.pc = "check" /\ r.copy = None /\ r.todo = Tail(loop[l].todo)
        /\ r.edges = loop[l].edges /\ r.outputs = loop[l].outputs
    BY <1>0, <1>1, <2>0, <2>1 DEF LoopType
  <2>3. loop' = [loop EXCEPT ![l] = r]
    BY <1>3, <2>1
  <2>4. Only(l) /\ loop'[l] = r
    BY <2>2, <2>3, OneLoop
  <2>5. loop[l].pc = "check"
    BY <1>0
  <2>6. QED
    BY <1>3, <2>2, <2>4, <2>5 DEF Drop
<1>4. \/ loop' = [loop EXCEPT ![l].pc = "completed"]
      \/ loop' = [loop EXCEPT ![l].pc = "stopped"]
      \/ /\ loop[l].todo # << >>
         /\ loop' = IF loop[l].outputs[NodeOf(l)] = None
                    THEN [loop EXCEPT ![l].pc = "mark"] ELSE [loop EXCEPT ![l].todo = Tail(@)]
  BY DEF Check
<1>5. QED
  BY <1>0, <1>2, <1>3, <1>4

LEMMA GiveUpMoves ==
  ASSUME LoopsOK, AgentsOK, NEW l \in LoopIds, GiveUpAttempt(l), loop[l].pc = "trying"
  PROVE  /\ Shift(l) /\ contract' \in [NodeSet -> BOOLEAN] /\ loop'[l].try = loop[l].try
         /\ \/ loop'[l].pc = "backoff" /\ contract' = contract
            \/ loop'[l].pc = "blame" /\ contract' = [contract EXCEPT ![NodeOf(l)] = FALSE]
<1>0. loop[l] \in LoopType /\ Fine(loop[l]) /\ loop[l].copy = None
  BY DEF LoopsOK, Fine, Keeping
<1>1. ASSUME NEW p \in {"backoff", "blame"}, loop' = [loop EXCEPT ![l].pc = p],
             p = "backoff" => loop[l].try < MaxRetries[NodeOf(l)]
      PROVE  Shift(l) /\ loop'[l].pc = p /\ loop'[l].try = loop[l].try
  <2>1. PICK r : r = [loop[l] EXCEPT !.pc = p]
    OBVIOUS
  <2>2. r \in LoopType /\ r.pc = p /\ r.copy = None /\ r.todo = loop[l].todo /\ r.try = loop[l].try
        /\ r.edges = loop[l].edges /\ r.outputs = loop[l].outputs
    BY <1>0, <1>1, <2>1 DEF LoopType, Pcs, Writing, Keeping
  <2>3. loop' = [loop EXCEPT ![l] = r]
    BY <1>1, <2>1
  <2>4. Only(l) /\ loop'[l] = r
    BY <2>2, <2>3, OneLoop
  <2>5. QED
    BY <1>0, <1>1, <2>2, <2>4 DEF Shift, Same, Given, Busy
<1>2. CASE loop[l].try < MaxRetries[NodeOf(l)]
  BY <1>1, <1>2 DEF GiveUpAttempt, AgentsOK
<1>3. CASE ~(loop[l].try < MaxRetries[NodeOf(l)])
  BY <1>1, <1>3 DEF GiveUpAttempt, AgentsOK
<1>4. QED
  BY <1>2, <1>3

LEMMA RetryMoves ==
  ASSUME LoopsOK, NEW l \in LoopIds, Retry(l)
  PROVE  /\ Shift(l) /\ loop[l].pc = "backoff" /\ loop'[l].pc = "trying"
         /\ loop'[l].try = loop[l].try + 1 /\ loop[l].try < MaxRetries[NodeOf(l)]
<1>0. /\ loop[l] \in LoopType /\ loop[l].copy = None /\ loop[l].pc = "backoff"
      /\ loop[l].todo # << >> /\ loop[l].try < MaxRetries[NodeOf(l)] /\ NodeOf(l) \in NodeSet
  <2>1. loop[l] \in LoopType /\ Fine(loop[l]) /\ loop[l].pc = "backoff"
    BY DEF LoopsOK, Retry
  <2>2. loop[l].copy = None /\ Supplied(loop[l]) /\ loop[l].todo \in Seq(NodeSet)
    BY <2>1 DEF Fine, Keeping, Busy, LoopType
  <2>3. QED
    BY <2>1, <2>2 DEF Supplied, NodeOf
<1>1. loop[l].try + 1 \in Tries
  <2>1. loop[l].try \in Nat /\ MaxRetries[NodeOf(l)] \in Nat
    <3>1. loop[l].try \in Tries
      BY <1>0 DEF LoopType
    <3>2. \A n \in NodeSet : MaxRetries[n] \in Nat
      BY BoundAssumption
    <3>3. QED
      BY <1>0, <3>1, <3>2 DEF Tries
  <2>2. loop[l].try + 1 \in 0..MaxRetries[NodeOf(l)]
    BY <2>1, <1>0
  <2>3. QED
    BY <1>0, <2>2 DEF Tries
<1>2. PICK r : r = [loop[l] EXCEPT !.pc = "trying", !.try = loop[l].try + 1]
  OBVIOUS
<1>3. r \in LoopType /\ r.pc = "trying" /\ r.copy = None /\ r.todo = loop[l].todo
      /\ r.try = loop[l].try + 1 /\ r.edges = loop[l].edges /\ r.outputs = loop[l].outputs
  BY <1>0, <1>1, <1>2 DEF LoopType, Pcs
<1>4. loop' = [loop EXCEPT ![l] = r]
  BY <1>2 DEF Retry
<1>5. Only(l) /\ loop'[l] = r
  BY <1>3, <1>4, OneLoop
<1>6. QED
  BY <1>0, <1>3, <1>5 DEF Shift, Same, Given, Busy

LEMMA CheckpointMoves ==
  ASSUME LoopsOK, NEW l \in LoopIds, Checkpoint(l)
  PROVE  Drop(l) /\ loop[l].pc = "store"
<1>0. /\ loop[l] \in LoopType /\ loop[l].copy = None /\ loop[l].pc = "store"
      /\ loop[l].todo # << >> /\ loop[l].outputs[NodeOf(l)] # None
      /\ loop[l].todo \in Seq(NodeSet)
  BY DEF LoopsOK, Fine, Keeping, Checkpoint, Busy, Given, Supplied, NodeOf, LoopType
<1>1. Tail(loop[l].todo) \in Seq(NodeSet)
  BY <1>0
<1>2. PICK r : r = [loop[l] EXCEPT !.pc = "check", !.todo = Tail(loop[l].todo)]
  OBVIOUS
<1>3. r \in LoopType /\ r.pc = "check" /\ r.copy = None /\ r.todo = Tail(loop[l].todo)
      /\ r.edges = loop[l].edges /\ r.outputs = loop[l].outputs
  BY <1>0, <1>1, <1>2 DEF LoopType, Pcs
<1>4. loop' = [loop EXCEPT ![l] = r]
  BY <1>2 DEF Checkpoint
<1>5. Only(l) /\ loop'[l] = r
  BY <1>3, <1>4, OneLoop
<1>6. QED
  BY <1>0, <1>3, <1>5 DEF Drop

(* A result taken is a record of the right kind: its count stays below     *)
(* the number of loops, since every loop gives one result at most.         *)
LEMMA RoomLeft ==
  ASSUME Typed, NEW l \in LoopIds, NEW n \in NodeSet, Pending(loop[l], n)
  PROVE  made[n] + 1 \in 1..Loops
<1> DEFINE D == {m \in LoopIds : ~Pending(loop[m], n)}
<1>1. IsFiniteSet(LoopIds) /\ Cardinality(LoopIds) = Loops /\ Loops \in Nat
  <2>1. Loops \in Nat \ {0}
    BY BoundAssumption
  <2>2. 1 \in Int /\ Loops \in Int /\ Loops - 1 + 1 = Loops /\ ~(1 > Loops)
    BY <2>1
  <2>3. QED
    BY <2>1, <2>2, FS_Interval DEF LoopIds
<1>2. D \subseteq LoopIds \ {l}
  OBVIOUS
<1>3. IsFiniteSet(LoopIds \ {l}) /\ Cardinality(LoopIds \ {l}) = Loops - 1
  BY <1>1, FS_RemoveElement
<1>4. made[n] \in Nat /\ made[n] <= Cardinality(D)
  BY DEF Typed, Counted
<1> HIDE DEF D
<1>5. IsFiniteSet(D) /\ Cardinality(D) <= Loops - 1 /\ Cardinality(D) \in Nat
  BY <1>2, <1>3, FS_Subset, FS_CardinalityType
<1>6. QED
  BY <1>1, <1>4, <1>5

LEMMA TakeMoves ==
  ASSUME Typed, NEW l \in LoopIds, NEW got \in Completion, got.of = "ours",
         loop[l].pc = "trying", TakeResult(l, got)
  PROVE  /\ Take(l) /\ loop'[l].outputs[NodeOf(l)].gen = made[NodeOf(l)] + 1
         /\ NodeOf(l) \in NodeSet /\ Pending(loop[l], NodeOf(l))
         /\ made' = [made EXCEPT ![NodeOf(l)] = @ + 1]
         /\ contract' = [contract EXCEPT ![NodeOf(l)] = FALSE]
<1> DEFINE n == NodeOf(l)
           x == [of |-> got.of, gen |-> made[n] + 1, from |-> Sources(l)]
<1>0. /\ loop[l] \in LoopType /\ loop[l].copy = None /\ loop[l].todo # << >>
      /\ loop[l].todo \in Seq(NodeSet) /\ loop[l].outputs \in [NodeSet -> Result \cup {None}]
  BY DEF Typed, LoopsOK, Fine, Keeping, Busy, Supplied, LoopType
<1>1. n \in NodeSet /\ n = loop[l].todo[1] /\ 1 \in DOMAIN loop[l].todo
  BY <1>0, TailFacts DEF NodeOf
<1>2. Pending(loop[l], n)
  BY <1>1 DEF Pending, Given
<1>3. x \in Result /\ x # None
  <2>1. made[n] + 1 \in 1..Loops
    BY <1>1, <1>2, RoomLeft
  <2>2. Sources(l) \in [NodeSet -> 0..Loops]
    <3>1. \A m \in NodeSet : loop[l].outputs[m] # None => loop[l].outputs[m].gen \in 0..Loops
      <4>1. 1..Loops \subseteq 0..Loops
        BY BoundAssumption
      <4>2. QED
        BY <1>0, <4>1 DEF Result
    <3>2. 0 \in 0..Loops
      BY BoundAssumption
    <3>3. QED
      BY <3>1, <3>2 DEF Sources
  <2>3. x \in Result
    BY <2>1, <2>2 DEF Result, Completion
  <2>4. 1..Loops \subseteq Nat /\ 0..Loops \subseteq Nat
    BY BoundAssumption
  <2>5. Result \subseteq [of : Kinds, gen : Nat, from : [NodeSet -> Nat]]
    BY <2>4 DEF Result
  <2>6. QED
    BY <2>3, <2>5, NoneAssumption
<1>4. x.of = "ours" /\ x.from = Sources(l) /\ x.gen = made[n] + 1
  OBVIOUS
<1>5. PICK z : z = x
  OBVIOUS
<1>6. PICK o : o = [loop[l].outputs EXCEPT ![n] = z]
  OBVIOUS
<1>7. /\ o \in [NodeSet -> Result \cup {None}] /\ o[n] = z
      /\ \A m \in NodeSet \ {n} : o[m] = loop[l].outputs[m]
  BY <1>0, <1>1, <1>3, <1>5, <1>6
<1>8. PICK r : r = [loop[l] EXCEPT !.pc = "note", !.outputs = o]
  OBVIOUS
<1>9. r \in LoopType /\ r.pc = "note" /\ r.copy = None /\ r.todo = loop[l].todo
      /\ r.edges = loop[l].edges /\ r.outputs = o
  BY <1>0, <1>7, <1>8 DEF LoopType, Pcs, Writing, Keeping
<1>10. loop' = [loop EXCEPT ![l] = r]
  <2>1. loop' = [loop EXCEPT ![l].pc = "note", ![l].outputs[n] = x]
    BY DEF TakeResult, Taken
  <2>2. loop \in [LoopIds -> LoopType]
    BY DEF Typed, LoopsOK
  <2> HIDE DEF n, x
  <2>3. QED
    BY <2>1, <2>2, <1>0, <1>5, <1>6, <1>8 DEF LoopType
<1>11. Only(l) /\ loop'[l] = r
  BY <1>9, <1>10, OneLoop DEF Typed
<1>12. Take(l)
  BY <1>3, <1>4, <1>5, <1>7, <1>9, <1>11 DEF Take
<1>13. QED
  BY <1>1, <1>2, <1>4, <1>5, <1>7, <1>9, <1>11, <1>12 DEF TakeResult

LEMMA StartMoves ==
  ASSUME LoopsOK, edges \in Flows, NEW l \in LoopIds, loop[l].pc = "new",
         NEW p \in {"open"}, NEW o \in [NodeSet -> Result \cup {None}], AllOurs(o),
         loop' = [loop EXCEPT ![l].pc = p, ![l].todo = TopologicalSort(Nodes, edges),
                              ![l].edges = edges, ![l].outputs = o]
  PROVE  /\ Begin(l) /\ loop'[l].pc = p /\ loop'[l].edges = edges /\ loop'[l].outputs = o
<1>0. loop[l] \in LoopType /\ loop[l].copy = None /\ edges \in SUBSET (NodeSet \X NodeSet)
  BY FlowAssumption DEF LoopsOK, Fine, Keeping
<1>1. PICK t : t = TopologicalSort(Nodes, edges)
  OBVIOUS
<1>2. t \in Seq(NodeSet) /\ Distinct(t) /\ SourcesFirst(t, edges)
  BY <1>0, <1>1, SortIsTopological
<1>3. PICK r : r = [loop[l] EXCEPT !.pc = p, !.todo = t, !.edges = edges, !.outputs = o]
  OBVIOUS
<1>4. r \in LoopType /\ r.pc = p /\ r.copy = None /\ r.todo = t /\ r.edges = edges
      /\ r.outputs = o
  BY <1>0, <1>2, <1>3 DEF LoopType, Pcs, Writing
<1>5. loop' = [loop EXCEPT ![l] = r]
  BY <1>1, <1>3
<1>6. Only(l) /\ loop'[l] = r
  BY <1>4, <1>5, OneLoop
<1>7. QED
  BY <1>2, <1>4, <1>6 DEF Begin

LEMMA ExecuteMoves ==
  ASSUME LoopsOK, edges \in Flows, ExecuteFlow
  PROVE  /\ Begin(1) /\ 1 \in LoopIds /\ loop'[1].pc = "open" /\ loop'[1].edges = edges
         /\ loop'[1].outputs = loop[1].outputs
<1>1. 1 \in LoopIds
  BY BoundAssumption DEF LoopIds
<1>2. loop[1] \in LoopType /\ loop \in [LoopIds -> LoopType] /\ AllOurs(loop[1].outputs)
      /\ loop[1].outputs \in [NodeSet -> Result \cup {None}]
  BY <1>1 DEF LoopsOK, Fine, LoopType
<1>3. PICK t : t = TopologicalSort(Nodes, edges)
  OBVIOUS
<1>4. PICK q : q = [loop[1] EXCEPT !.pc = "open", !.todo = t, !.edges = edges]
  OBVIOUS
<1>5. q = [loop[1] EXCEPT !.pc = "open", !.todo = t, !.edges = edges,
                          !.outputs = loop[1].outputs]
  BY <1>2, <1>4 DEF LoopType
<1>6. loop' = [loop EXCEPT ![1] = q]
  BY <1>3, <1>4 DEF ExecuteFlow
<1>7. loop' = [loop EXCEPT ![1].pc = "open", ![1].todo = TopologicalSort(Nodes, edges),
                           ![1].edges = edges, ![1].outputs = loop[1].outputs]
  BY <1>3, <1>5, <1>6
<1>8. loop[1].pc = "new"
  BY DEF ExecuteFlow
<1>9. QED
  BY <1>1, <1>2, <1>7, <1>8, StartMoves

LEMMA ResumeMoves ==
  ASSUME LoopsOK, RecordOK, NEW l \in LoopIds, ResumeFlow(l)
  PROVE  /\ Begin(l) /\ loop'[l].pc = "open" /\ loop'[l].edges = edges
         /\ loop'[l].outputs = saved
<1> DEFINE o == [n \in NodeSet |-> IF Completed(n) THEN saved[n] ELSE None]
<1>1. o = saved
  BY DEF RecordOK, Completed
<1>2. saved \in [NodeSet -> Result \cup {None}] /\ AllOurs(saved) /\ edges \in Flows
  BY DEF RecordOK
<1>3. loop[l].pc = "new"
  BY DEF ResumeFlow
<1>4. loop' = [loop EXCEPT ![l].pc = "open", ![l].todo = TopologicalSort(Nodes, edges),
                           ![l].edges = edges, ![l].outputs = o]
  BY DEF ResumeFlow
<1> HIDE DEF o
<1>5. QED
  BY <1>1, <1>2, <1>3, <1>4, StartMoves

LEMMA CrashMoves ==
  ASSUME LoopsOK, Crash
  PROVE  loop' \in [LoopIds -> LoopType] /\ Fall
<1>1. [Idle EXCEPT !.pc = "ended"] \in LoopType
  <2>1. 0 \in Tries
    BY NodesFacts, BoundAssumption DEF Tries
  <2>2. << >> \in Seq(NodeSet)
    OBVIOUS
  <2>3. QED
    BY <2>1, <2>2 DEF Idle, LoopType, Pcs
<1>2. PICK r : r = [Idle EXCEPT !.pc = "ended"]
  OBVIOUS
<1>3. loop' = [l \in LoopIds |-> IF l \in Running THEN r ELSE loop[l]]
  BY <1>2 DEF Crash
<1>4. QED
  BY <1>1, <1>2, <1>3 DEF LoopsOK, Fall

(* What a loop that has given a node's result never does again.            *)
Spent == \A l \in LoopIds, n \in NodeSet : ~Pending(loop[l], n) => ~Pending(loop'[l], n)

LEMMA ShiftKeeps ==
  ASSUME LoopsOK, NEW l \in LoopIds, Shift(l)
  PROVE  LoopsOK' /\ Spent
<1> DEFINE r == loop[l]
           q == loop'[l]
<1>1. /\ r \in LoopType /\ Fine(r) /\ q \in LoopType
      /\ q.todo = r.todo /\ q.edges = r.edges /\ q.outputs = r.outputs
      /\ r.pc # "new" /\ q.pc # "new" /\ (r.pc \in Given <=> q.pc \in Given)
      /\ (q.pc \in Busy /\ r.pc \notin Busy => r.todo # << >> /\ r.outputs[Head(r.todo)] = None)
      /\ (q.pc = "backoff" => q.try < MaxRetries[Head(r.todo)])
      /\ (q.copy # None => q.pc \in Keeping)
  BY DEF LoopsOK, Shift, Only, Same, NodeOf
<1> HIDE DEF r, q
<1>2. ASSUME q.pc \in Busy PROVE Supplied(q)
  <2> DEFINE n == Head(r.todo)
  <2>1. r.todo # << >> /\ (r.outputs[n] # None <=> r.pc \in Given)
    <3>1. CASE r.pc \in Busy
      BY <1>1, <3>1 DEF Fine, Supplied
    <3>2. CASE r.pc \notin Busy
      <4>1. r.pc \notin Given
        BY <3>2 DEF Given, Busy
      <4>2. QED
        BY <1>1, <1>2, <3>2, <4>1
    <3>3. QED
      BY <3>1, <3>2
  <2>2. \A m \in Before(n, r.edges) : m # n /\ r.outputs[m] # None
    <3>1. CASE r.pc \in Busy
      BY <1>1, <3>1 DEF Fine, Supplied
    <3>2. CASE r.pc \notin Busy
      <4>1. r.outputs[n] = None
        BY <1>1, <1>2, <3>2
      <4>2. n = r.todo[1] /\ 1 \in DOMAIN r.todo
        BY <1>1, <2>1, TailFacts DEF LoopType
      <4>3. \A m \in Before(n, r.edges) : r.outputs[m] # None \/ \E j \in 1..0 : r.todo[j] = m
        BY <1>1, <4>2 DEF Fine, Ordered
      <4>4. QED
        BY <4>1, <4>3
    <3>3. QED
      BY <3>1, <3>2
  <2>3. QED
    BY <1>1, <2>1, <2>2 DEF Supplied
<1>3. Fine(q)
  BY <1>1, <1>2 DEF Fine
<1>4. LoopsOK'
  BY <1>3 DEF LoopsOK, Shift, Only, q
<1>5. \A n \in NodeSet : ~Pending(r, n) => ~Pending(q, n)
  BY <1>1 DEF Pending
<1>6. Spent
  BY <1>5 DEF Spent, Shift, Only, r, q
<1>7. QED
  BY <1>4, <1>6

LEMMA DropKeeps ==
  ASSUME LoopsOK, NEW l \in LoopIds, Drop(l)
  PROVE  LoopsOK' /\ Spent
<1> DEFINE r == loop[l]
           q == loop'[l]
<1>1. /\ r \in LoopType /\ Fine(r) /\ q \in LoopType
      /\ r.todo # << >> /\ q.todo = Tail(r.todo) /\ q.edges = r.edges /\ q.outputs = r.outputs
      /\ r.pc # "new" /\ q.pc = "check" /\ q.copy = None /\ r.outputs[Head(r.todo)] # None
  BY DEF LoopsOK, Drop, Only, NodeOf
<1> HIDE DEF r, q
<1>2. PICK t : t = r.todo
  OBVIOUS
<1>3. PICK u : u = Tail(t)
  OBVIOUS
<1>4. t \in Seq(NodeSet) /\ t # << >> /\ u \in Seq(NodeSet) /\ Head(t) = t[1]
      /\ Len(u) = Len(t) - 1 /\ (\A i \in 1..(Len(t) - 1) : u[i] = t[i + 1])
      /\ Distinct(u) /\ Len(t) \in Nat /\ DOMAIN t = 1..Len(t) /\ DOMAIN u = 1..(Len(t) - 1)
  <2>1. t \in Seq(NodeSet) /\ t # << >> /\ Distinct(t)
    BY <1>1, <1>2 DEF Fine, LoopType
  <2>2. u \in Seq(NodeSet) /\ Head(t) = t[1] /\ Len(u) = Len(t) - 1
        /\ (\A i \in 1..(Len(t) - 1) : u[i] = t[i + 1]) /\ Distinct(u)
    BY <1>3, <2>1, TailFacts
  <2>3. Len(t) \in Nat /\ DOMAIN t = 1..Len(t) /\ DOMAIN u = 1..Len(u)
    BY <2>1, <2>2
  <2>4. QED
    BY <2>1, <2>2, <2>3
<1>5. Ordered(u, q.edges, q.outputs)
  <2> SUFFICES ASSUME NEW i \in DOMAIN u, NEW m \in Before(u[i], q.edges), q.outputs[m] = None
               PROVE  \E j \in 1..(i - 1) : u[j] = m
    BY DEF Ordered
  <2>1. i \in 1..(Len(t) - 1) /\ i + 1 \in DOMAIN t /\ u[i] = t[i + 1] /\ i \in Nat
    BY <1>4
  <2>2. PICK j \in 1..i : t[j] = m
    <3>1. Ordered(t, r.edges, r.outputs)
      BY <1>1, <1>2 DEF Fine
    <3>2. m \in Before(t[i + 1], r.edges) /\ r.outputs[m] = None
      BY <1>1, <2>1
    <3>3. (i + 1) - 1 = i
      BY <2>1
    <3>4. QED
      BY <2>1, <3>1, <3>2, <3>3 DEF Ordered
  <2>3. j # 1
    BY <1>1, <1>2, <1>4, <2>2
  <2>4. j - 1 \in 1..(i - 1) /\ j - 1 \in 1..(Len(t) - 1) /\ (j - 1) + 1 = j
    BY <1>4, <2>1, <2>2, <2>3
  <2>5. u[j - 1] = m
    BY <1>4, <2>2, <2>4
  <2>6. QED
    BY <2>4, <2>5
<1>6. Fine(q)
  <2>1. q.todo = u /\ AllOurs(q.outputs)
    BY <1>1, <1>2, <1>3 DEF Fine
  <2>2. Ordered(q.todo, q.edges, q.outputs) /\ Distinct(q.todo)
    BY <1>4, <1>5, <2>1
  <2>3. q.pc \notin Busy
    BY <1>1 DEF Busy
  <2>4. QED
    BY <1>1, <2>1, <2>2, <2>3 DEF Fine
<1>7. LoopsOK'
  BY <1>6 DEF LoopsOK, Drop, Only, q
<1>8. ASSUME NEW n \in NodeSet, Pending(q, n) PROVE Pending(r, n)
  <2>1. PICK i \in DOMAIN u : u[i] = n
    BY <1>1, <1>2, <1>3, <1>8 DEF Pending
  <2>2. i + 1 \in DOMAIN t /\ t[i + 1] = n /\ i + 1 # 1
    BY <1>4, <2>1
  <2>3. QED
    BY <1>2, <2>2 DEF Pending
<1>9. Spent
  BY <1>8 DEF Spent, Drop, Only, r, q
<1>10. QED
  BY <1>7, <1>9

LEMMA TakeKeeps ==
  ASSUME LoopsOK, NEW l \in LoopIds, Take(l)
  PROVE  LoopsOK' /\ Spent /\ ~Pending(loop'[l], NodeOf(l))
<1> DEFINE r == loop[l]
           q == loop'[l]
           n == Head(r.todo)
<1>1. /\ r \in LoopType /\ Fine(r) /\ q \in LoopType
      /\ q.todo = r.todo /\ q.edges = r.edges /\ q.copy = None
      /\ r.pc = "trying" /\ q.pc = "note" /\ q.outputs[n] # None /\ q.outputs[n].of = "ours"
      /\ \A m \in NodeSet \ {n} : q.outputs[m] = r.outputs[m]
  BY DEF LoopsOK, Take, Only, NodeOf
<1>2. n = NodeOf(l)
  BY DEF NodeOf
<1> HIDE DEF r, q
<1>3. Supplied(r) /\ r.todo \in Seq(NodeSet) /\ Distinct(r.todo)
  BY <1>1 DEF Fine, Busy, LoopType
<1>4. r.todo # << >> /\ n = r.todo[1] /\ n \in NodeSet /\ 1 \in DOMAIN r.todo
  BY <1>3, TailFacts DEF Supplied
<1> HIDE DEF n
<1>5. Before(n, r.edges) \subseteq NodeSet
  BY <1>1 DEF Before, LoopType
<1>6. \A m \in Before(n, r.edges) : m # n /\ r.outputs[m] # None
  BY <1>3 DEF Supplied, n
<1>7. Supplied(q)
  <2>1. Head(q.todo) = n /\ q.todo # << >>
    BY <1>1, <1>4 DEF n
  <2>2. \A m \in Before(n, q.edges) : m # n /\ q.outputs[m] # None
    BY <1>1, <1>5, <1>6
  <2>3. QED
    BY <1>1, <2>1, <2>2 DEF Supplied, Given
<1>8. Ordered(q.todo, q.edges, q.outputs)
  <2>1. \A m \in NodeSet : r.outputs[m] # None => q.outputs[m] # None
    BY <1>1
  <2>2. \A i \in DOMAIN r.todo : Before(r.todo[i], r.edges) \subseteq NodeSet
    BY <1>1 DEF Before, LoopType
  <2>3. Ordered(r.todo, r.edges, r.outputs)
    BY <1>1 DEF Fine
  <2>4. QED
    BY <1>1, <2>1, <2>2, <2>3 DEF Ordered
<1>9. AllOurs(q.outputs)
  BY <1>1 DEF AllOurs, Fine
<1>10. Fine(q)
  BY <1>1, <1>3, <1>7, <1>8, <1>9 DEF Fine
<1>11. LoopsOK'
  BY <1>10 DEF LoopsOK, Take, Only, q
<1>12. \A m \in NodeSet : ~Pending(r, m) => ~Pending(q, m)
  BY <1>1 DEF Pending, Given
<1>13. ~Pending(q, n)
  BY <1>1, <1>3, <1>4 DEF Pending, Given, Distinct
<1>14. Spent
  BY <1>12 DEF Spent, Take, Only, r, q
<1>15. QED
  BY <1>2, <1>11, <1>13, <1>14 DEF q

LEMMA BeginKeeps ==
  ASSUME LoopsOK, NEW l \in LoopIds, Begin(l)
  PROVE  LoopsOK' /\ Spent
<1> DEFINE q == loop'[l]
<1>1. /\ q \in LoopType /\ q.copy = None /\ q.pc \in {"check", "open"} /\ loop[l].pc = "new"
      /\ Distinct(q.todo) /\ SourcesFirst(q.todo, q.edges) /\ AllOurs(q.outputs)
  BY DEF Begin, Only
<1> HIDE DEF q
<1>2. Ordered(q.todo, q.edges, q.outputs)
  BY <1>1 DEF SourcesFirst, Ordered
<1>3. Fine(q)
  BY <1>1, <1>2 DEF Fine, Busy
<1>4. LoopsOK'
  BY <1>3 DEF LoopsOK, Begin, Only, q
<1>5. Spent
  BY <1>1 DEF Spent, Begin, Only, Pending
<1>6. QED
  BY <1>4, <1>5

LEMMA FallKeeps ==
  ASSUME LoopsOK, loop' \in [LoopIds -> LoopType], Fall
  PROVE  LoopsOK' /\ Spent
<1>1. PICK e : e = [Idle EXCEPT !.pc = "ended"]
  OBVIOUS
<1>2. e.pc = "ended" /\ e.todo = << >> /\ e.copy = None /\ \A n \in NodeSet : e.outputs[n] = None
  BY <1>1 DEF Idle
<1>3. \A l \in LoopIds : loop'[l] = IF l \in Running THEN e ELSE loop[l]
  BY <1>1 DEF Fall
<1>4. Distinct(e.todo) /\ Ordered(e.todo, e.edges, e.outputs) /\ AllOurs(e.outputs)
  BY <1>2 DEF Distinct, Ordered, AllOurs
<1>5. e \in LoopType => Fine(e)
  BY <1>2, <1>4 DEF Fine, Busy
<1>6. ASSUME NEW l \in LoopIds PROVE Fine(loop'[l])
  <2>1. CASE l \in Running
    BY <1>3, <1>5, <2>1
  <2>2. CASE l \notin Running
    BY <1>3, <2>2 DEF LoopsOK
  <2>3. QED
    BY <2>1, <2>2
<1>7. LoopsOK'
  BY <1>6 DEF LoopsOK
<1>8. \A n \in NodeSet : ~Pending(e, n)
  BY <1>2 DEF Pending
<1>9. Spent
  BY <1>3, <1>8 DEF Spent
<1>10. QED
  BY <1>7, <1>9

(* The results are counted.                                                *)
LEMMA CountKept ==
  ASSUME Counted, Spent,
         \/ made' = made
         \/ \E l \in LoopIds, n \in NodeSet :
              /\ made' = [made EXCEPT ![n] = @ + 1]
              /\ Pending(loop[l], n) /\ ~Pending(loop'[l], n)
  PROVE  Counted'
<1> DEFINE D(n) == {m \in LoopIds : ~Pending(loop[m], n)}
           E(n) == {m \in LoopIds : ~Pending(loop'[m], n)}
<1>1. IsFiniteSet(LoopIds)
  <2>1. Loops \in Nat
    BY BoundAssumption
  <2>2. QED
    BY <2>1, FS_Interval DEF LoopIds
<1>2. \A n \in NodeSet : D(n) \subseteq E(n) /\ E(n) \subseteq LoopIds
  BY DEF Spent
<1>3. /\ made \in [NodeSet -> Nat]
      /\ \A n \in NodeSet : made[n] <= Cardinality(D(n))
  BY DEF Counted
<1>4. ASSUME NEW l \in LoopIds, NEW n \in NodeSet, Pending(loop[l], n), ~Pending(loop'[l], n)
      PROVE  l \in E(n) \ D(n)
  BY <1>4
<1>5. made' \in [NodeSet -> Nat]
  BY <1>3
<1>6. ASSUME NEW n \in NodeSet
      PROVE  \/ made'[n] = made[n]
             \/ made'[n] = made[n] + 1 /\ \E l : l \in E(n) \ D(n)
  BY <1>3, <1>4
<1> HIDE DEF D, E
<1>7. ASSUME NEW n \in NodeSet PROVE made'[n] <= Cardinality(E(n))
  <2>1. PICK d, e : d = D(n) /\ e = E(n)
    OBVIOUS
  <2>2. IsFiniteSet(e) /\ IsFiniteSet(d) /\ Cardinality(d) <= Cardinality(e)
        /\ Cardinality(d) \in Nat /\ Cardinality(e) \in Nat
    BY <1>1, <1>2, <2>1, FS_Subset, FS_CardinalityType
  <2>3. made[n] \in Nat /\ made[n] <= Cardinality(d)
    BY <1>3, <2>1
  <2>4. CASE made'[n] = made[n]
    BY <2>1, <2>2, <2>3, <2>4
  <2>5. ASSUME NEW l, l \in e \ d, made'[n] = made[n] + 1 PROVE made'[n] <= Cardinality(e)
    <3>1. d \subseteq e \ {l} /\ l \in e
      BY <1>2, <2>1, <2>5
    <3>2. IsFiniteSet(e \ {l}) /\ Cardinality(e \ {l}) = Cardinality(e) - 1
      BY <2>2, <3>1, FS_RemoveElement
    <3>3. Cardinality(d) <= Cardinality(e \ {l})
      BY <3>1, <3>2, FS_Subset
    <3>4. QED
      BY <2>2, <2>3, <2>5, <3>2, <3>3
  <2>6. QED
    BY <1>6, <2>1, <2>4, <2>5
<1>8. QED
  BY <1>5, <1>7 DEF Counted, E
-----------------------------------------------------------------------------
(* The attempts and the agents.                                            *)
LEMMA StartFacts ==
  ASSUME AgentsOK, Cleared, NEW l \in LoopIds, NodeOf(l) \in NodeSet, NEW try \in Tries,
         StartsAttempt(l, try)
  PROVE  /\ att' \in [Attempts -> [pc : {"off", "resetting", "waiting"}, left : 0..MaxReprompts]]
         /\ contract' = [contract EXCEPT ![NodeOf(l)] = @ \/ NodeOf(l) \in Declaring]
         /\ contract' \in [NodeSet -> BOOLEAN]
         /\ flag' \in [NodeSet -> Kinds \cup {None}]
         /\ \A k \in Attempts : flag'[k[2]] = "past" => att'[k].pc = "off"
<1> DEFINE n == NodeOf(l)
           A == [pc : {"off", "resetting", "waiting"}, left : 0..MaxReprompts]
<1>1. contract' = [contract EXCEPT ![n] = @ \/ n \in Declaring] /\ flag' = [flag EXCEPT ![n] = None]
  BY DEF StartsAttempt
<1>2. PICK a : a = [NoAttempt EXCEPT !.pc = "resetting"]
  OBVIOUS
<1>3. a \in A
  <2>1. MaxReprompts \in 0..MaxReprompts
    BY BoundAssumption
  <2>2. QED
    BY <1>2, <2>1 DEF NoAttempt
<1>4. PICK k : k = <<l, n, try>>
  OBVIOUS
<1>5. k \in Attempts /\ k[2] = n
  BY <1>4 DEF Attempts
<1>6. att' = [att EXCEPT ![k] = a]
  BY <1>2, <1>4 DEF StartsAttempt
<1>7. att \in [Attempts -> A] /\ flag \in [NodeSet -> Kinds \cup {None}]
      /\ contract \in [NodeSet -> BOOLEAN]
      /\ \A j \in Attempts : j[2] \in NodeSet /\ (flag[j[2]] = "past" => att[j].pc = "off")
  BY DEF AgentsOK, Cleared, Attempts
<1> HIDE DEF A, n
<1>8. None # "past"
  BY NoneAssumption DEF Kinds
<1>9. \A j \in Attempts : flag'[j[2]] = "past" => att'[j].pc = "off"
  BY <1>1, <1>5, <1>6, <1>7, <1>8
<1>10. att' \in [Attempts -> A] /\ flag' \in [NodeSet -> Kinds \cup {None}]
  BY <1>1, <1>3, <1>6, <1>7
<1>11. contract' \in [NodeSet -> BOOLEAN]
  BY <1>1, <1>7, Zenon
<1>12. QED
  BY <1>1, <1>9, <1>10, <1>11 DEF A, n

Took(l) ==
  /\ loop[l].pc = "trying"
  /\ \E got \in Completion : got.of = "ours" /\ TakeResult(l, got)
GaveUp(l) == loop[l].pc = "trying" /\ GiveUpAttempt(l) /\ UNCHANGED made
Settled ==
  \/ UNCHANGED <<loop, made, contract>>
  \/ \E l \in LoopIds : Took(l) \/ GaveUp(l)

LEMMA ResolveFacts ==
  ASSUME AgentsOK, Cleared, NEW k \in Attempts, NEW got \in Completion, got.of = "ours",
         Resolve(k, got)
  PROVE  /\ att' \in [Attempts -> [pc : {"off", "resetting", "waiting"}, left : 0..MaxReprompts]]
         /\ flag' \in [NodeSet -> Kinds \cup {None}]
         /\ \A j \in Attempts : flag'[j[2]] = "past" => att'[j].pc = "off"
         /\ Settled
<1> DEFINE A == [pc : {"off", "resetting", "waiting"}, left : 0..MaxReprompts]
<1>1. att \in [Attempts -> A] /\ flag \in [NodeSet -> Kinds \cup {None}]
      /\ k[1] \in LoopIds /\ k[2] \in NodeSet
      /\ \A j \in Attempts : j[2] \in NodeSet /\ (flag[j[2]] = "past" => att[j].pc = "off")
  BY DEF AgentsOK, Cleared, Attempts
<1>2. MaxReprompts \in Nat /\ None # "past"
  BY BoundAssumption, NoneAssumption DEF Kinds
<1>3. PICK o : o = NoAttempt
  OBVIOUS
<1>4. o \in A /\ o.pc = "off"
  BY <1>2, <1>3 DEF NoAttempt
<1>5. Awaited(k) => loop[k[1]].pc = "trying"
  BY DEF Awaited
<1>6. CASE got.full /\ att' = [att EXCEPT ![k] = o] /\ UNCHANGED flag
           /\ IF Awaited(k) THEN TakeResult(k[1], got) ELSE UNCHANGED <<loop, made, contract>>
  <2>1. att' \in [Attempts -> A] /\ flag' \in [NodeSet -> Kinds \cup {None}]
    BY <1>1, <1>4, <1>6
  <2>2. \A j \in Attempts : flag'[j[2]] = "past" => att'[j].pc = "off"
    BY <1>1, <1>4, <1>6
  <2>3. Settled
    BY <1>1, <1>5, <1>6 DEF Settled, Took
  <2>4. QED
    BY <2>1, <2>2, <2>3
<1>7. CASE /\ att[k].left > 0
           /\ att' = [att EXCEPT ![k].pc = "resetting", ![k].left = @ - 1]
           /\ flag' = [flag EXCEPT ![k[2]] = None]
           /\ UNCHANGED <<loop, made, contract>>
  <2>1. PICK a : a = [att[k] EXCEPT !.pc = "resetting", !.left = att[k].left - 1]
    OBVIOUS
  <2>2. att[k] \in A /\ att[k].left - 1 \in 0..MaxReprompts
    BY <1>1, <1>2, <1>7
  <2>3. a \in A
    BY <2>1, <2>2
  <2>4. att' = [att EXCEPT ![k] = a]
    BY <1>7, <2>1
  <2>5. att' \in [Attempts -> A] /\ flag' \in [NodeSet -> Kinds \cup {None}]
    BY <1>1, <1>7, <2>3, <2>4
  <2>6. \A j \in Attempts : flag'[j[2]] = "past" => att'[j].pc = "off"
    BY <1>1, <1>2, <1>7, <2>4
  <2>7. QED
    BY <1>7, <2>5, <2>6 DEF Settled
<1>8. CASE att' = [att EXCEPT ![k] = o] /\ UNCHANGED <<made, flag>>
           /\ IF Awaited(k) THEN GiveUpAttempt(k[1]) ELSE UNCHANGED <<loop, contract>>
  <2>1. att' \in [Attempts -> A] /\ flag' \in [NodeSet -> Kinds \cup {None}]
    BY <1>1, <1>4, <1>8
  <2>2. \A j \in Attempts : flag'[j[2]] = "past" => att'[j].pc = "off"
    BY <1>1, <1>4, <1>8
  <2>3. Settled
    BY <1>1, <1>5, <1>8 DEF Settled, GaveUp
  <2>4. QED
    BY <2>1, <2>2, <2>3
<1>9. QED
  BY <1>3, <1>6, <1>7, <1>8 DEF Resolve

Quiet == UNCHANGED <<edges, status, saved, stopping, mishaps>>

(* An attempt's completion that is seen by polling or by notification is   *)
(* of the run.                                                             *)
LEMMA PollFacts ==
  ASSUME AgentsOK, Cleared, NEW k \in Attempts, PollSees(k)
  PROVE  Quiet /\ Settled /\ UNCHANGED <<active, unread, working, telling>>
         /\ att' \in [Attempts -> [pc : {"off", "resetting", "waiting"}, left : 0..MaxReprompts]]
         /\ flag' \in [NodeSet -> Kinds \cup {None}]
         /\ listener' \in [NodeSet -> Attempts \cup {None}]
         /\ (\A j \in Attempts : flag'[j[2]] = "past" => att'[j].pc = "off")
<1> DEFINE got == [of |-> flag[k[2]], full |-> k[2] \notin Declaring]
<1>1. k[2] \in NodeSet /\ flag[k[2]] \in Kinds /\ flag[k[2]] # "past"
  BY DEF PollSees, Attempts, AgentsOK, Cleared
<1>2. got \in Completion /\ got.of = "ours"
  BY <1>1 DEF Completion, Kinds
<1>3. Resolve(k, got)
  BY DEF PollSees
<1> HIDE DEF got
<1>4. listener' \in [NodeSet -> Attempts \cup {None}]
  BY DEF PollSees, AgentsOK
<1>5. Quiet /\ UNCHANGED <<active, unread, working, telling>>
  BY DEF PollSees, Quiet, disk, tool
<1>6. QED
  BY <1>2, <1>3, <1>4, <1>5, ResolveFacts

LEMMA NotifyFacts ==
  ASSUME AgentsOK, Cleared, NEW n \in NodeSet, Notify(n)
  PROVE  Quiet /\ Settled /\ UNCHANGED <<active, unread>>
         /\ att' \in [Attempts -> [pc : {"off", "resetting", "waiting"}, left : 0..MaxReprompts]]
         /\ flag' \in [NodeSet -> Kinds \cup {None}]
         /\ listener' \in [NodeSet -> Attempts \cup {None}]
         /\ (\A j \in Attempts : flag'[j[2]] = "past" => att'[j].pc = "off")
         /\ working' \in [NodeSet -> BOOLEAN] /\ telling' = [telling EXCEPT ![n] = None]
<1>1. telling[n] \in Completion /\ telling[n].of = "ours" /\ listener[n] \in Attempts \cup {None}
  BY DEF Notify, AgentsOK, Cleared
<1>2. /\ listener' \in [NodeSet -> Attempts \cup {None}] /\ working' \in [NodeSet -> BOOLEAN]
      /\ telling' = [telling EXCEPT ![n] = None]
  BY DEF Notify, AgentsOK
<1>3. Quiet /\ UNCHANGED <<active, unread>>
  BY DEF Notify, Quiet, disk
<1>4. CASE listener[n] = None
  <2>1. UNCHANGED <<att, loop, made, contract, flag>>
    BY <1>4 DEF Notify
  <2>2. QED
    BY <1>2, <1>3, <2>1 DEF Settled, AgentsOK, Cleared
<1>5. CASE listener[n] # None
  <2>1. Resolve(listener[n], telling[n]) /\ listener[n] \in Attempts
    BY <1>1, <1>5 DEF Notify
  <2>2. QED
    BY <1>1, <1>2, <1>3, <2>1, ResolveFacts
<1>6. QED
  BY <1>4, <1>5
-----------------------------------------------------------------------------
(* The steps, by what they do to the loops.                                *)
Step(l) ==
  \/ ResumeFlow(l) \/ Load(l) \/ Save(l) \/ Check(l) \/ Retry(l) \/ Checkpoint(l)
  \/ Quiet /\ (Took(l) \/ GaveUp(l))
Still == Quiet /\ UNCHANGED <<loop, made, contract>>

LEMMA Cases ==
  ASSUME AgentsOK, Cleared, [Next]_vars
  PROVE  \/ Still \/ Stop \/ StopSaves \/ EditFlow \/ Crash \/ ExecuteFlow
         \/ \E l \in LoopIds : Step(l)
<1>1. CASE UNCHANGED vars
  BY <1>1 DEF vars, Still, Quiet
<1>2. ASSUME NEW k \in Attempts, Post(k) PROVE Still
  BY <1>2 DEF Post, Still, Quiet, disk
<1>3. ASSUME NEW n \in NodeSet, Read(n) PROVE Still
  BY <1>3 DEF Read, Still, Quiet, disk
<1>4. ASSUME NEW n \in NodeSet, NEW full \in BOOLEAN, JobDone(n, full) PROVE Still
  BY <1>4 DEF JobDone, Still, Quiet, disk
<1>5. ASSUME Quiet, Settled PROVE Still \/ \E l \in LoopIds : Step(l)
  BY <1>5 DEF Settled, Still, Step
<1>6. ASSUME NEW k \in Attempts, PollSees(k) PROVE Still \/ \E l \in LoopIds : Step(l)
  BY <1>5, <1>6, PollFacts
<1>7. ASSUME NEW n \in NodeSet, Notify(n) PROVE Still \/ \E l \in LoopIds : Step(l)
  BY <1>5, <1>7, NotifyFacts
<1>8. ASSUME NEW l \in LoopIds, TimeOut(l) PROVE Step(l)
  BY <1>8 DEF TimeOut, Step, GaveUp, Quiet, disk
<1>9. ASSUME NEW l \in LoopIds, ResumeFlow(l) \/ Advance(l) PROVE \E m \in LoopIds : Step(m)
  BY <1>8, <1>9 DEF Advance, Step
<1>10. QED
  BY <1>1, <1>2, <1>3, <1>4, <1>6, <1>7, <1>9 DEF Next, AttemptStep, AgentStep

LEMMA HeadFacts ==
  ASSUME LoopsOK, NEW l \in LoopIds, loop[l].pc \in Busy
  PROVE  loop[l].todo # << >> /\ NodeOf(l) \in NodeSet /\ NodeOf(l) = loop[l].todo[1]
<1>1. loop[l] \in LoopType /\ Fine(loop[l])
  BY DEF LoopsOK
<1>2. loop[l].todo \in Seq(NodeSet) /\ loop[l].todo # << >>
  BY <1>1 DEF LoopType, Fine, Supplied
<1>3. PICK t : t = loop[l].todo
  OBVIOUS
<1>4. Head(t) \in NodeSet /\ Head(t) = t[1]
  BY <1>2, <1>3, TailFacts
<1>5. QED
  BY <1>2, <1>3, <1>4 DEF NodeOf

LEMMA AgentsKept ==
  ASSUME Typed, Cleared, [Next]_vars
  PROVE  AgentsOK' /\ Cleared'
<1> DEFINE A == [pc : {"off", "resetting", "waiting"}, left : 0..MaxReprompts]
<1>0. /\ att \in [Attempts -> A] /\ listener \in [NodeSet -> Attempts \cup {None}]
      /\ contract \in [NodeSet -> BOOLEAN]
      /\ unread \in [NodeSet -> BOOLEAN] /\ working \in [NodeSet -> BOOLEAN]
      /\ flag \in [NodeSet -> Kinds \cup {None}] /\ telling \in [NodeSet -> Completion \cup {None}]
      /\ AgentsOK /\ LoopsOK
      /\ None # "past" /\ NoAttempt.pc = "off" /\ NoAttempt \in A
      /\ \A k \in Attempts : k[1] \in LoopIds /\ k[2] \in NodeSet
      /\ \A k \in Attempts : flag[k[2]] = "past" => att[k].pc = "off"
      /\ \A n \in NodeSet : telling[n] # None => telling[n].of = "ours"
  BY BoundAssumption, NoneAssumption DEF Typed, AgentsOK, Cleared, Attempts, Kinds, NoAttempt
<1> HIDE DEF A
<1>1. ASSUME UNCHANGED <<att, listener, contract, unread, working, flag, telling>>
      PROVE  AgentsOK' /\ Cleared'
  BY <1>0, <1>1 DEF AgentsOK, Cleared, A
<1>2. ASSUME UNCHANGED <<att, listener, unread, working, flag, telling>>,
             contract' \in [NodeSet -> BOOLEAN]
      PROVE  AgentsOK' /\ Cleared'
  BY <1>0, <1>2 DEF AgentsOK, Cleared, A
<1>3. ASSUME NEW l \in LoopIds, NEW try \in Tries, loop[l].pc \in Busy, StartsAttempt(l, try),
             UNCHANGED <<listener, unread, working, telling>>
      PROVE  AgentsOK' /\ Cleared'
  <2>1. NodeOf(l) \in NodeSet
    BY <1>0, <1>3, HeadFacts
  <2>2. QED
    BY <1>0, <1>3, <2>1, StartFacts DEF AgentsOK, Cleared
<1>4. CASE ExecuteFlow
  BY <1>1, <1>4 DEF ExecuteFlow, tool
<1>5. ASSUME NEW l \in LoopIds, ResumeFlow(l) PROVE AgentsOK' /\ Cleared'
  BY <1>1, <1>5 DEF ResumeFlow, tool
<1>6. ASSUME NEW l \in LoopIds, Load(l) PROVE AgentsOK' /\ Cleared'
  BY <1>1, <1>6 DEF Load, tool
<1>7. ASSUME NEW l \in LoopIds, Save(l) PROVE AgentsOK' /\ Cleared'
  <2>1. CASE loop[l].pc = "mark" /\ StartsAttempt(l, 0)
    <3>1. 0 \in Tries
      BY NodesFacts, BoundAssumption DEF Tries
    <3>2. UNCHANGED <<listener, unread, working, telling>>
      BY <1>7 DEF Save, tool
    <3>3. QED
      BY <1>3, <2>1, <3>1, <3>2 DEF Busy
  <2>2. CASE UNCHANGED <<contract, flag, att>>
    BY <1>1, <1>7, <2>2 DEF Save, tool
  <2>3. QED
    BY <1>7, <2>1, <2>2 DEF Save
<1>8. ASSUME NEW l \in LoopIds, Check(l) PROVE AgentsOK' /\ Cleared'
  BY <1>1, <1>8 DEF Check, tool
<1>9. ASSUME NEW l \in LoopIds, TimeOut(l) PROVE AgentsOK' /\ Cleared'
  <2>1. contract' \in [NodeSet -> BOOLEAN]
    BY <1>0, <1>9, GiveUpMoves DEF TimeOut
  <2>2. QED
    BY <1>2, <1>9, <2>1 DEF TimeOut, tool
<1>10. ASSUME NEW l \in LoopIds, Retry(l) PROVE AgentsOK' /\ Cleared'
  <2>1. loop[l].pc = "backoff" /\ loop'[l] \in LoopType
    BY <1>0, <1>10, RetryMoves DEF Shift, Only
  <2>2. loop[l].try + 1 \in Tries
    <3>1. loop'[l].try = loop[l].try + 1
      BY <1>0, <1>10 DEF Retry, LoopsOK, LoopType
    <3>2. QED
      BY <2>1, <3>1 DEF LoopType
  <2>3. QED
    BY <1>3, <1>10, <2>1, <2>2 DEF Retry, tool, Busy
<1>11. ASSUME NEW l \in LoopIds, Checkpoint(l) PROVE AgentsOK' /\ Cleared'
  BY <1>1, <1>11 DEF Checkpoint, tool
<1>12. ASSUME NEW k \in Attempts, Post(k) PROVE AgentsOK' /\ Cleared'
  <2>1. att[k].pc = "resetting" /\ att[k] \in A
    BY <1>0, <1>12 DEF Post
  <2>2. flag[k[2]] # "past"
    BY <1>0, <2>1
  <2>3. PICK a : a = [att[k] EXCEPT !.pc = "waiting"]
    OBVIOUS
  <2>4. a \in A
    BY <2>1, <2>3 DEF A
  <2>5. att' = [att EXCEPT ![k] = a]
    BY <1>12, <2>3 DEF Post
  <2>6. att' \in [Attempts -> A]
    BY <1>0, <2>4, <2>5
  <2>7. /\ UNCHANGED <<contract, working, telling, flag>> /\ unread' \in [NodeSet -> BOOLEAN]
        /\ listener' \in [NodeSet -> Attempts \cup {None}]
    BY <1>0, <1>12 DEF Post
  <2>8. Cleared'
    BY <1>0, <2>2, <2>5, <2>7 DEF Cleared
  <2>9. QED
    BY <1>0, <2>6, <2>7, <2>8 DEF AgentsOK, A
<1>13. ASSUME Settled PROVE contract' \in [NodeSet -> BOOLEAN]
  <2>1. ASSUME NEW l \in LoopIds, Took(l) PROVE contract' \in [NodeSet -> BOOLEAN]
    BY <1>0, <2>1 DEF Took, TakeResult
  <2>2. ASSUME NEW l \in LoopIds, GaveUp(l) PROVE contract' \in [NodeSet -> BOOLEAN]
    BY <1>0, <2>2, GiveUpMoves DEF GaveUp
  <2>3. QED
    BY <1>0, <1>13, <2>1, <2>2 DEF Settled
<1>14. ASSUME NEW k \in Attempts, PollSees(k) PROVE AgentsOK' /\ Cleared'
  <2>1. Settled
    BY <1>0, <1>14, PollFacts
  <2>2. contract' \in [NodeSet -> BOOLEAN]
    BY <1>13, <2>1
  <2>3. /\ UNCHANGED <<unread, working, telling>> /\ att' \in [Attempts -> A]
        /\ flag' \in [NodeSet -> Kinds \cup {None}]
        /\ listener' \in [NodeSet -> Attempts \cup {None}]
        /\ (\A j \in Attempts : flag'[j[2]] = "past" => att'[j].pc = "off")
    BY <1>0, <1>14, PollFacts DEF A
  <2>4. QED
    BY <1>0, <2>2, <2>3 DEF AgentsOK, Cleared, A
<1>15. ASSUME NEW n \in NodeSet, Read(n) PROVE AgentsOK' /\ Cleared'
  <2>1. /\ UNCHANGED <<att, listener, contract, telling>>
        /\ unread' \in [NodeSet -> BOOLEAN] /\ working' \in [NodeSet -> BOOLEAN]
        /\ flag' = [flag EXCEPT ![n] = None]
    BY <1>0, <1>15 DEF Read
  <2>2. flag' \in [NodeSet -> Kinds \cup {None}] /\ Cleared'
    BY <1>0, <2>1 DEF Cleared
  <2>3. QED
    BY <1>0, <2>1, <2>2 DEF AgentsOK, A
<1>16. ASSUME NEW n \in NodeSet, NEW full \in BOOLEAN, JobDone(n, full) PROVE AgentsOK' /\ Cleared'
  <2>1. PICK c : c = [of |-> "ours", full |-> full \/ n \notin Declaring]
    OBVIOUS
  <2>2. c \in Completion /\ c.of = "ours"
    BY <2>1 DEF Completion, Kinds
  <2>3. /\ UNCHANGED <<att, listener, contract, unread, working>>
        /\ telling' = [telling EXCEPT ![n] = c] /\ flag' = [flag EXCEPT ![n] = "ours"]
    BY <1>16, <2>1 DEF JobDone
  <2>4. flag' \in [NodeSet -> Kinds \cup {None}] /\ telling' \in [NodeSet -> Completion \cup {None}]
    BY <1>0, <2>2, <2>3 DEF Kinds
  <2>5. Cleared'
    BY <1>0, <2>2, <2>3 DEF Cleared
  <2>6. QED
    BY <1>0, <2>3, <2>4, <2>5 DEF AgentsOK, A
<1>17. ASSUME NEW n \in NodeSet, Notify(n) PROVE AgentsOK' /\ Cleared'
  <2>1. Settled
    BY <1>0, <1>17, NotifyFacts
  <2>2. contract' \in [NodeSet -> BOOLEAN]
    BY <1>13, <2>1
  <2>3. /\ UNCHANGED unread /\ att' \in [Attempts -> A]
        /\ flag' \in [NodeSet -> Kinds \cup {None}]
        /\ listener' \in [NodeSet -> Attempts \cup {None}]
        /\ (\A j \in Attempts : flag'[j[2]] = "past" => att'[j].pc = "off")
        /\ working' \in [NodeSet -> BOOLEAN] /\ telling' = [telling EXCEPT ![n] = None]
    BY <1>0, <1>17, NotifyFacts DEF A
  <2>4. telling' \in [NodeSet -> Completion \cup {None}] /\ Cleared'
    BY <1>0, <2>3 DEF Cleared
  <2>5. QED
    BY <1>0, <2>2, <2>3, <2>4 DEF AgentsOK, A
<1>18. CASE Stop \/ StopSaves
  BY <1>1, <1>18 DEF Stop, StopSaves, tool
<1>19. CASE EditFlow
  BY <1>1, <1>19 DEF EditFlow, tool
<1>20. CASE Crash
  <2>1. PICK o : o = NoAttempt
    OBVIOUS
  <2>2. /\ att' = [k \in Attempts |-> o] /\ listener' = [n \in NodeSet |-> None]
        /\ contract' = [n \in NodeSet |-> FALSE] /\ telling' = [n \in NodeSet |-> None]
        /\ working' = [n \in NodeSet |-> FALSE] /\ unread' \in {unread, [n \in NodeSet |-> FALSE]}
        /\ UNCHANGED flag
    BY <1>20, <2>1 DEF Crash
  <2>3. o \in A /\ o.pc = "off"
    BY <1>0, <2>1
  <2>4. Cleared'
    BY <2>2, <2>3 DEF Cleared
  <2>5. att' \in [Attempts -> A] /\ contract' \in [NodeSet -> BOOLEAN]
        /\ unread' \in [NodeSet -> BOOLEAN] /\ working' \in [NodeSet -> BOOLEAN]
    BY <1>0, <2>2, <2>3
  <2>6. QED
    BY <1>0, <2>2, <2>4, <2>5 DEF AgentsOK, A
<1>21. CASE UNCHANGED vars
  BY <1>1, <1>21 DEF vars
<1>22. QED
  BY <1>4, <1>5, <1>6, <1>7, <1>8, <1>9, <1>10, <1>11, <1>12, <1>14, <1>15, <1>16, <1>17,
     <1>18, <1>19, <1>20, <1>21 DEF Next, Advance, AttemptStep, AgentStep

LEMMA LoopsKept ==
  ASSUME Typed, Cleared, [Next]_vars
  PROVE  LoopsOK' /\ Counted'
<1>0. LoopsOK /\ RecordOK /\ AgentsOK /\ Counted /\ status \in Statuses \cup {None} /\ edges \in Flows
  BY DEF Typed, RecordOK
<1>1. ASSUME LoopsOK' /\ Spent, made' = made PROVE LoopsOK' /\ Counted'
  BY <1>0, <1>1, CountKept
<1>2. CASE Still
  <2>1. loop' = loop /\ made' = made
    BY <1>2 DEF Still
  <2>2. Spent /\ LoopsOK'
    BY <1>0, <2>1 DEF Spent, LoopsOK
  <2>3. QED
    BY <1>1, <2>1, <2>2
<1>3. CASE Stop \/ StopSaves \/ EditFlow
  <2>1. loop' = loop /\ made' = made
    BY <1>3 DEF Stop, StopSaves, EditFlow
  <2>2. Spent /\ LoopsOK'
    BY <1>0, <2>1 DEF Spent, LoopsOK
  <2>3. QED
    BY <1>1, <2>1, <2>2
<1>4. CASE Crash
  <2>1. made' = made
    BY <1>4 DEF Crash
  <2>2. QED
    BY <1>0, <1>1, <1>4, <2>1, CrashMoves, FallKeeps
<1>5. CASE ExecuteFlow
  <2>1. made' = made
    BY <1>5 DEF ExecuteFlow
  <2>2. QED
    BY <1>0, <1>1, <1>5, <2>1, ExecuteMoves, BeginKeeps
<1>6. ASSUME NEW l \in LoopIds, ResumeFlow(l) PROVE LoopsOK' /\ Counted'
  <2>1. made' = made
    BY <1>6 DEF ResumeFlow
  <2>2. QED
    BY <1>0, <1>1, <1>6, <2>1, ResumeMoves, BeginKeeps
<1>7. ASSUME NEW l \in LoopIds, Shift(l), made' = made PROVE LoopsOK' /\ Counted'
  BY <1>0, <1>1, <1>7, ShiftKeeps
<1>8. ASSUME NEW l \in LoopIds, Drop(l), made' = made PROVE LoopsOK' /\ Counted'
  BY <1>0, <1>1, <1>8, DropKeeps
<1>9. ASSUME NEW l \in LoopIds, Load(l) PROVE LoopsOK' /\ Counted'
  <2>1. made' = made
    BY <1>9 DEF Load
  <2>2. QED
    BY <1>0, <1>7, <1>9, <2>1, LoadMoves
<1>10. ASSUME NEW l \in LoopIds, Save(l) PROVE LoopsOK' /\ Counted'
  <2>1. made' = made
    BY <1>10 DEF Save
  <2>2. QED
    BY <1>0, <1>7, <1>10, <2>1, SaveMoves
<1>11. ASSUME NEW l \in LoopIds, Check(l) PROVE LoopsOK' /\ Counted'
  <2>1. made' = made
    BY <1>11 DEF Check
  <2>2. QED
    BY <1>0, <1>7, <1>8, <1>11, <2>1, CheckMoves
<1>12. ASSUME NEW l \in LoopIds, Retry(l) PROVE LoopsOK' /\ Counted'
  <2>1. made' = made
    BY <1>12 DEF Retry
  <2>2. QED
    BY <1>0, <1>7, <1>12, <2>1, RetryMoves
<1>13. ASSUME NEW l \in LoopIds, Checkpoint(l) PROVE LoopsOK' /\ Counted'
  <2>1. made' = made
    BY <1>13 DEF Checkpoint
  <2>2. QED
    BY <1>0, <1>8, <1>13, <2>1, CheckpointMoves
<1>14. ASSUME NEW l \in LoopIds, GaveUp(l) PROVE LoopsOK' /\ Counted'
  BY <1>0, <1>7, <1>14, GiveUpMoves DEF GaveUp
<1>15. ASSUME NEW l \in LoopIds, Took(l) PROVE LoopsOK' /\ Counted'
  <2>1. /\ Take(l) /\ NodeOf(l) \in NodeSet /\ Pending(loop[l], NodeOf(l))
        /\ made' = [made EXCEPT ![NodeOf(l)] = @ + 1]
    BY <1>15, TakeMoves DEF Took
  <2>2. LoopsOK' /\ Spent /\ ~Pending(loop'[l], NodeOf(l))
    BY <1>0, <2>1, TakeKeeps
  <2>3. QED
    BY <1>0, <2>1, <2>2, CountKept
<1>16. QED
  BY <1>0, <1>2, <1>3, <1>4, <1>5, <1>6, <1>9, <1>10, <1>11, <1>12, <1>13, <1>14, <1>15, Cases
     DEF Step

LEMMA RecordKept ==
  ASSUME Typed, Cleared, [Next]_vars
  PROVE  RecordOK'
<1>0. /\ edges \in Flows /\ status \in Statuses \cup {None}
      /\ saved \in [NodeSet -> Result \cup {None}] /\ AllOurs(saved)
      /\ active \in {"none", "running", "stopped"} /\ stopping \in BOOLEAN
      /\ LoopsOK /\ RecordOK /\ AgentsOK
  BY DEF Typed, RecordOK
<1>1. ASSUME UNCHANGED <<edges, saved>>, status' \in Statuses \cup {None},
             active' \in {"none", "running", "stopped"}, stopping' \in BOOLEAN
      PROVE  RecordOK'
  BY <1>0, <1>1 DEF RecordOK, AllOurs
<1>2. ASSUME UNCHANGED <<disk, active, stopping>> PROVE RecordOK'
  BY <1>0, <1>1, <1>2 DEF disk
<1>3. CASE ExecuteFlow
  BY <1>0, <1>1, <1>3 DEF ExecuteFlow, Statuses
<1>4. ASSUME NEW l \in LoopIds, ResumeFlow(l) PROVE RecordOK'
  BY <1>0, <1>1, <1>4 DEF ResumeFlow, disk
<1>5. ASSUME NEW l \in LoopIds, Load(l) PROVE RecordOK'
  BY <1>2, <1>5 DEF Load
<1>6. ASSUME NEW l \in LoopIds, Save(l) PROVE RecordOK'
  <2>1. loop[l] \in LoopType /\ loop[l].pc \in Writing
    BY <1>0, <1>6 DEF LoopsOK, Save
  <2>2. Written(l) \in Statuses \cup {None}
    BY <2>1 DEF Written, LoopType, Writing, Keeping, Statuses
  <2>3. active' \in {"none", "running", "stopped"}
    BY <1>0, <1>6 DEF Save
  <2>4. QED
    BY <1>0, <1>1, <1>6, <2>2, <2>3 DEF Save
<1>7. ASSUME NEW l \in LoopIds, Check(l) PROVE RecordOK'
  BY <1>2, <1>7 DEF Check
<1>8. ASSUME NEW l \in LoopIds, TimeOut(l) PROVE RecordOK'
  BY <1>2, <1>8 DEF TimeOut
<1>9. ASSUME NEW l \in LoopIds, Retry(l) PROVE RecordOK'
  BY <1>2, <1>9 DEF Retry
<1>10. ASSUME NEW l \in LoopIds, Checkpoint(l) PROVE RecordOK'
  <2>1. UNCHANGED <<edges, status, active, stopping>>
    BY <1>10 DEF Checkpoint
  <2>2. CASE UNCHANGED saved
    BY <1>0, <1>1, <2>1, <2>2
  <2>3. CASE saved' = [saved EXCEPT ![NodeOf(l)] = loop[l].outputs[NodeOf(l)]]
    <3>1. loop[l] \in LoopType /\ AllOurs(loop[l].outputs) /\ loop[l].pc \in Busy
      BY <1>0, <1>10 DEF LoopsOK, Fine, Checkpoint, Busy
    <3>2. NodeOf(l) \in NodeSet
      BY <1>0, <3>1, HeadFacts
    <3>3. PICK x : x = loop[l].outputs[NodeOf(l)]
      OBVIOUS
    <3>4. x \in Result \cup {None} /\ (x # None => x.of = "ours")
      BY <3>1, <3>2, <3>3 DEF LoopType, AllOurs
    <3>5. saved' \in [NodeSet -> Result \cup {None}] /\ AllOurs(saved')
      BY <1>0, <2>3, <3>3, <3>4 DEF AllOurs
    <3>6. QED
      BY <1>0, <2>1, <3>5 DEF RecordOK
  <2>4. QED
    BY <1>10, <2>2, <2>3 DEF Checkpoint
<1>11. ASSUME NEW k \in Attempts, Post(k) PROVE RecordOK'
  BY <1>2, <1>11 DEF Post
<1>12. ASSUME NEW k \in Attempts, PollSees(k) PROVE RecordOK'
  BY <1>2, <1>12 DEF PollSees
<1>13. ASSUME NEW n \in NodeSet, Read(n) PROVE RecordOK'
  BY <1>2, <1>13 DEF Read
<1>14. ASSUME NEW n \in NodeSet, NEW full \in BOOLEAN, JobDone(n, full) PROVE RecordOK'
  BY <1>2, <1>14 DEF JobDone
<1>15. ASSUME NEW n \in NodeSet, Notify(n) PROVE RecordOK'
  BY <1>2, <1>15 DEF Notify
<1>16. CASE Stop
  <2>1. active' \in {"none", "running", "stopped"}
    BY <1>0, <1>16 DEF Stop
  <2>2. QED
    BY <1>0, <1>1, <1>16, <2>1 DEF Stop, disk
<1>17. CASE StopSaves
  BY <1>0, <1>1, <1>17 DEF StopSaves, Statuses
<1>18. CASE EditFlow
  BY <1>0, <1>18 DEF EditFlow, RecordOK
<1>19. CASE Crash
  BY <1>0, <1>1, <1>19 DEF Crash, disk
<1>20. CASE UNCHANGED vars
  BY <1>2, <1>20 DEF vars, disk
<1>21. QED
  BY <1>3, <1>4, <1>5, <1>6, <1>7, <1>8, <1>9, <1>10, <1>11, <1>12, <1>13, <1>14, <1>15, <1>16, <1>17,
     <1>18, <1>19, <1>20 DEF Next, Advance, AttemptStep, AgentStep
-----------------------------------------------------------------------------
(* The order of the runs.                                                  *)
LEMMA StepFacts ==
  ASSUME Typed, Cleared, NEW l \in LoopIds, Step(l), ~ResumeFlow(l)
  PROVE  /\ Only(l) /\ l \in Running /\ loop'[l].pc # "new" /\ loop'[l].edges = loop[l].edges
         /\ mishaps \subseteq mishaps' /\ UNCHANGED <<edges, stopping>>
         /\ loop'[l].pc = "ended" => Save(l) /\ loop[l].pc \in {"completed", "failed", "stopped"}
<1>0. LoopsOK /\ AgentsOK /\ status \in Statuses \cup {None}
  BY DEF Typed, RecordOK
<1>1. CASE Load(l)
  <2>1. Shift(l) /\ loop'[l].pc \in Keeping
    BY <1>0, <1>1, LoadMoves
  <2>2. mishaps' = mishaps /\ UNCHANGED <<edges, stopping>>
    BY <1>1 DEF Load, disk
  <2>3. QED
    BY <1>1, <2>1, <2>2 DEF Shift, Same, Running, Load, Keeping
<1>2. CASE Save(l)
  <2>1. Shift(l) /\ loop'[l].pc \in AfterSave(l) /\ loop[l].pc \in Writing
    BY <1>0, <1>2, SaveMoves DEF Save
  <2>2. mishaps' = mishaps /\ UNCHANGED <<edges, stopping>>
    BY <1>2 DEF Save
  <2>3. loop'[l].pc = "ended" => loop[l].pc \in {"completed", "failed", "stopped"}
    BY <2>1 DEF AfterSave, After, Writing, Keeping
  <2>4. QED
    BY <1>2, <2>1, <2>2, <2>3 DEF Shift, Same, Running, Writing, Keeping
<1>3. CASE Check(l)
  <2>1. loop[l].pc = "check" /\ (Shift(l) \/ Drop(l)) /\ loop'[l].pc # "ended"
    BY <1>0, <1>3, CheckMoves DEF Drop
  <2>2. mishaps' = mishaps /\ UNCHANGED <<edges, stopping>>
    BY <1>3 DEF Check, disk
  <2>3. QED
    BY <2>1, <2>2 DEF Shift, Drop, Same, Running
<1>4. CASE Retry(l)
  <2>1. Shift(l) /\ loop[l].pc = "backoff" /\ loop'[l].pc = "trying"
    BY <1>0, <1>4, RetryMoves
  <2>2. mishaps' = mishaps /\ UNCHANGED <<edges, stopping>>
    BY <1>4 DEF Retry, disk
  <2>3. QED
    BY <2>1, <2>2 DEF Shift, Same, Running
<1>5. CASE Checkpoint(l)
  <2>1. Drop(l) /\ loop[l].pc = "store"
    BY <1>0, <1>5, CheckpointMoves
  <2>2. mishaps \subseteq mishaps' /\ UNCHANGED <<edges, stopping>>
    BY <1>5 DEF Checkpoint, Happens
  <2>3. QED
    BY <2>1, <2>2 DEF Drop, Running
<1>6. CASE Quiet /\ Took(l)
  <2>1. Take(l) /\ loop[l].pc = "trying"
    BY <1>6, TakeMoves DEF Took
  <2>2. mishaps' = mishaps /\ UNCHANGED <<edges, stopping>>
    BY <1>6 DEF Quiet
  <2>3. QED
    BY <2>1, <2>2 DEF Take, Running
<1>7. CASE Quiet /\ GaveUp(l)
  <2>1. Shift(l) /\ loop[l].pc = "trying" /\ loop'[l].pc \in {"backoff", "blame"}
    BY <1>0, <1>7, GiveUpMoves DEF GaveUp
  <2>2. mishaps' = mishaps /\ UNCHANGED <<edges, stopping>>
    BY <1>7 DEF Quiet
  <2>3. QED
    BY <2>1, <2>2 DEF Shift, Same, Running
<1>8. QED
  BY <1>1, <1>2, <1>3, <1>4, <1>5, <1>6, <1>7 DEF Step

LEMMA OpeningKept ==
  ASSUME Typed, Cleared, Opening, [Next]_vars
  PROVE  Opening'
<1>0. LoopsOK /\ RecordOK /\ AgentsOK /\ edges \in Flows /\ 1 \in LoopIds /\ None # "running"
  <2>1. 1 \in LoopIds
    BY BoundAssumption DEF LoopIds
  <2>2. None # "running"
    BY NoneAssumption DEF Statuses
  <2>3. QED
    BY <2>1, <2>2 DEF Typed, RecordOK
<1>1. CASE ExecuteFlow
  BY <1>0, <1>1, ExecuteMoves DEF Opening
<1>2. ASSUME loop[1].pc # "new", loop'[1].pc # "new" PROVE Opening'
  BY <1>2 DEF Opening
<1>3. ASSUME NEW l \in LoopIds, Step(l) PROVE loop[1].pc # "new" /\ loop'[1].pc # "new"
  <2>1. CASE ResumeFlow(l)
    <3>1. l - 1 \in LoopIds /\ loop[l - 1].pc # "new" /\ l # 1
      BY <2>1, BoundAssumption DEF ResumeFlow, LoopIds
    <3>2. loop[1].pc # "new"
      BY <3>1 DEF Opening
    <3>3. loop'[1] = loop[1]
      BY <1>0, <2>1, <3>1, ResumeMoves DEF Begin, Only
    <3>4. QED
      BY <3>2, <3>3
  <2>2. CASE ~ResumeFlow(l)
    <3>1. Only(l) /\ loop[l].pc # "new" /\ loop'[l].pc # "new"
      BY <1>3, <2>2, StepFacts DEF Running
    <3>2. loop[1].pc # "new"
      BY <3>1 DEF Opening
    <3>3. QED
      BY <1>0, <3>1, <3>2 DEF Only
  <2>3. QED
    BY <2>1, <2>2
<1>4. CASE Still
  BY <1>4 DEF Still, Quiet, Opening
<1>5. CASE Stop
  BY <1>0, <1>5 DEF Stop, disk, Opening
<1>6. CASE StopSaves
  BY <1>6 DEF StopSaves, Opening
<1>7. CASE EditFlow
  BY <1>7 DEF EditFlow, Opening
<1>8. CASE Crash
  <2>1. PICK l \in LoopIds : l \in Running
    BY <1>8 DEF Crash, Running
  <2>2. loop[1].pc # "new"
    BY <2>1 DEF Opening, Running
  <2>3. loop'[1].pc # "new"
    BY <1>0, <1>8, <2>2, CrashMoves DEF Fall, Idle
  <2>4. QED
    BY <1>2, <2>2, <2>3
<1>9. QED
  BY <1>0, <1>1, <1>2, <1>3, <1>4, <1>5, <1>6, <1>7, <1>8, Cases

LEMMA AloneKept ==
  ASSUME Typed, Cleared, Opening, Alone, [Next]_vars
  PROVE  Alone'
<1>0. LoopsOK /\ RecordOK /\ AgentsOK /\ edges \in Flows
  BY DEF Typed, RecordOK
<1>1. ASSUME Running' \subseteq Running, mishaps \subseteq mishaps' PROVE Alone'
  BY <1>1 DEF Alone
<1>2. CASE ExecuteFlow
  <2>1. Running = {}
    BY <1>2 DEF ExecuteFlow, Opening, Running
  <2>2. Only(1)
    BY <1>0, <1>2, ExecuteMoves DEF Begin
  <2>3. Running' \subseteq {1}
    BY <2>1, <2>2 DEF Only, Running
  <2>4. QED
    BY <2>3 DEF Alone
<1>3. ASSUME NEW l \in LoopIds, ResumeFlow(l) PROVE Alone'
  <2>1. CASE Running = {}
    <3>1. Only(l)
      BY <1>0, <1>3, ResumeMoves DEF Begin
    <3>2. Running' \subseteq {l}
      BY <2>1, <3>1 DEF Only, Running
    <3>3. QED
      BY <3>2 DEF Alone
  <2>2. CASE Running # {}
    BY <1>3, <2>2 DEF ResumeFlow, Alone
  <2>3. QED
    BY <2>1, <2>2
<1>4. ASSUME NEW l \in LoopIds, Step(l), ~ResumeFlow(l) PROVE Alone'
  <2>1. Only(l) /\ l \in Running /\ mishaps \subseteq mishaps'
    BY <1>4, StepFacts
  <2>2. Running' \subseteq Running
    BY <2>1 DEF Only, Running
  <2>3. QED
    BY <1>1, <2>1, <2>2
<1>5. CASE Still
  BY <1>1, <1>5 DEF Still, Quiet, Running
<1>6. CASE Stop \/ StopSaves \/ EditFlow
  <2>1. loop' = loop /\ mishaps \subseteq mishaps'
    BY <1>6 DEF Stop, StopSaves, EditFlow, Happens
  <2>2. QED
    BY <1>1, <2>1 DEF Running
<1>7. CASE Crash
  <2>1. Fall /\ mishaps \subseteq mishaps'
    BY <1>0, <1>7, CrashMoves DEF Crash, Happens
  <2>2. Running' \subseteq Running
    BY <2>1 DEF Fall, Running
  <2>3. QED
    BY <1>1, <2>1, <2>2
<1>8. QED
  BY <1>0, <1>2, <1>3, <1>4, <1>5, <1>6, <1>7, Cases

LEMMA ClosingKept ==
  ASSUME Typed, Cleared, Opening, Closing, [Next]_vars
  PROVE  Closing'
<1>0. LoopsOK /\ RecordOK /\ AgentsOK /\ edges \in Flows /\ 1 \in LoopIds
  BY BoundAssumption DEF Typed, RecordOK, LoopIds
<1>1. CASE ExecuteFlow
  <2>1. loop'[1].pc = "open"
    BY <1>0, <1>1, ExecuteMoves
  <2>2. Running' # {}
    BY <1>0, <2>1 DEF Running
  <2>3. QED
    BY <2>2 DEF Closing
<1>2. ASSUME NEW l \in LoopIds, ResumeFlow(l) PROVE Closing'
  <2>1. loop'[l].pc = "open"
    BY <1>0, <1>2, ResumeMoves
  <2>2. Running' # {}
    BY <2>1 DEF Running
  <2>3. QED
    BY <2>2 DEF Closing
<1>3. ASSUME NEW l \in LoopIds, Step(l), ~ResumeFlow(l) PROVE Closing'
  <2>1. /\ l \in Running /\ loop'[l].pc # "new"
        /\ loop'[l].pc = "ended" => Save(l) /\ loop[l].pc \in {"completed", "failed", "stopped"}
    BY <1>3, StepFacts
  <2>2. CASE loop'[l].pc = "ended"
    <3>1. status' = loop[l].pc
      BY <2>1, <2>2 DEF Save, Written, Keeping
    <3>2. QED
      BY <2>1, <2>2, <3>1 DEF Closing
  <2>3. CASE loop'[l].pc # "ended"
    <3>1. Running' # {}
      BY <2>1, <2>3 DEF Running
    <3>2. QED
      BY <3>1 DEF Closing
  <2>4. QED
    BY <2>2, <2>3
<1>4. CASE Still
  BY <1>4 DEF Still, Quiet, Closing, Running
<1>5. CASE Stop
  <2>1. UNCHANGED <<status, loop>> /\ mishaps \subseteq mishaps'
    BY <1>5 DEF Stop, disk, Happens
  <2>2. QED
    BY <2>1 DEF Closing, Running
<1>6. CASE StopSaves
  BY <1>6 DEF StopSaves, Closing
<1>7. CASE EditFlow
  <2>1. UNCHANGED <<status, loop>> /\ mishaps \subseteq mishaps'
    BY <1>7 DEF EditFlow, Happens
  <2>2. QED
    BY <2>1 DEF Closing, Running
<1>8. CASE Crash
  BY <1>8 DEF Crash, Happens, Closing
<1>9. QED
  BY <1>0, <1>1, <1>2, <1>3, <1>4, <1>5, <1>6, <1>7, <1>8, Cases
-----------------------------------------------------------------------------
(* The contracts.                                                          *)
Waits(r) == r.pc \in {"trying", "backoff"}

LEMMA ContractOfOne ==
  ASSUME ContractsHold, Alone, "overlap" \notin mishaps, NEW l \in Running, l \in LoopIds, Only(l)
  PROVE  /\ \A n \in Declaring : contract[n] <=> Waits(loop[l]) /\ NodeOf(l) = n
         /\ (\A n \in Declaring : contract'[n] <=> Waits(loop'[l]) /\ Head(loop'[l].todo) = n)
              => ContractsHold'
<1>1. \A m \in LoopIds \ {l} : ~Waits(loop[m]) /\ loop'[m] = loop[m]
  BY DEF Alone, Running, Only, Waits
<1>2. \A n \in Declaring : contract[n] <=> Waits(loop[l]) /\ NodeOf(l) = n
  BY <1>1 DEF ContractsHold, Waits
<1>3. ASSUME \A n \in Declaring : contract'[n] <=> Waits(loop'[l]) /\ Head(loop'[l].todo) = n
      PROVE  ContractsHold'
  BY <1>1, <1>3 DEF ContractsHold, Waits, NodeOf
<1>4. QED
  BY <1>2, <1>3

LEMMA ContractsKept ==
  ASSUME Typed, Cleared, Opening, Alone, ContractsHold, [Next]_vars
  PROVE  ContractsHold'
<1>0. /\ LoopsOK /\ RecordOK /\ AgentsOK /\ edges \in Flows /\ Declaring \subseteq NodeSet
      /\ status \in Statuses \cup {None} /\ contract \in [NodeSet -> BOOLEAN]
  BY FlowAssumption DEF Typed, RecordOK, AgentsOK
<1>1. SUFFICES ASSUME "overlap" \notin mishaps' PROVE ContractsHold'
  BY DEF ContractsHold
<1>2. ASSUME "overlap" \notin mishaps, UNCHANGED <<loop, contract>> PROVE ContractsHold'
  BY <1>2 DEF ContractsHold, NodeOf
<1>3. CASE ExecuteFlow
  <2>1. "overlap" \notin mishaps /\ contract' = contract
    BY <1>1, <1>3 DEF ExecuteFlow
  <2>2. \A l \in LoopIds : ~Waits(loop[l]) /\ ~Waits(loop'[l])
    BY <1>0, <1>3, ExecuteMoves DEF ExecuteFlow, Opening, Begin, Only, Waits
  <2>3. QED
    BY <2>1, <2>2 DEF ContractsHold, Waits
<1>4. ASSUME NEW l \in LoopIds, ResumeFlow(l) PROVE ContractsHold'
  <2>1. "overlap" \notin mishaps /\ contract' = contract /\ loop[l].pc = "new"
    BY <1>1, <1>4 DEF ResumeFlow
  <2>2. Only(l) /\ loop'[l].pc = "open"
    BY <1>0, <1>4, ResumeMoves DEF Begin
  <2>3. \A m \in LoopIds : Waits(loop[m]) \/ Waits(loop'[m]) => loop'[m] = loop[m]
    BY <2>1, <2>2 DEF Only, Waits
  <2>4. QED
    BY <2>1, <2>3 DEF ContractsHold, Waits, NodeOf
<1>5. ASSUME NEW l \in LoopIds, Step(l), ~ResumeFlow(l) PROVE ContractsHold'
  <2>1. Only(l) /\ l \in Running /\ "overlap" \notin mishaps
    BY <1>1, <1>5, StepFacts
  <2>2. \A n \in Declaring : contract[n] <=> Waits(loop[l]) /\ NodeOf(l) = n
    BY <2>1, ContractOfOne
  <2>3. ASSUME \A n \in Declaring : contract'[n] <=> Waits(loop'[l]) /\ Head(loop'[l].todo) = n
        PROVE  ContractsHold'
    BY <2>1, <2>3, ContractOfOne
  <2>4. ASSUME contract' = contract, ~Waits(loop[l]), ~Waits(loop'[l]) PROVE ContractsHold'
    BY <2>2, <2>3, <2>4
  <2>5. ASSUME contract' = contract, Waits(loop[l]), Waits(loop'[l]), loop'[l].todo = loop[l].todo
        PROVE  ContractsHold'
    BY <2>2, <2>3, <2>5 DEF NodeOf
  <2>6. ASSUME NEW m \in NodeSet, m = NodeOf(l), contract' = [contract EXCEPT ![m] = FALSE],
               ~Waits(loop'[l])
        PROVE  ContractsHold'
    BY <1>0, <2>2, <2>3, <2>6
  <2>7. ASSUME NEW m \in NodeSet, m = NodeOf(l), loop'[l].todo = loop[l].todo, Waits(loop'[l]),
               contract' = [contract EXCEPT ![m] = @ \/ m \in Declaring]
        PROVE  ContractsHold'
    <3>1. Head(loop'[l].todo) = m
      BY <2>7 DEF NodeOf
    <3>2. \A n \in Declaring : n # m => ~contract[n] /\ contract'[n] = contract[n]
      BY <1>0, <2>2, <2>7
    <3>3. m \in Declaring => contract'[m]
      BY <1>0, <2>7, Zenon
    <3>4. \A n \in Declaring : contract'[n] <=> Waits(loop'[l]) /\ Head(loop'[l].todo) = n
      BY <2>7, <3>1, <3>2, <3>3
    <3>5. QED
      BY <2>3, <3>4
  <2>8. CASE Load(l)
    <3>1. contract' = contract /\ ~Waits(loop[l]) /\ ~Waits(loop'[l])
      BY <1>0, <2>8, LoadMoves DEF Load, Waits, Keeping
    <3>2. QED
      BY <2>4, <3>1
  <2>9. CASE Save(l) /\ loop[l].pc # "mark"
    <3>1. loop'[l].pc \in AfterSave(l) /\ contract' = contract /\ loop[l].pc \in Writing
      BY <1>0, <2>9, SaveMoves DEF Save
    <3>2. ~Waits(loop[l]) /\ ~Waits(loop'[l])
      BY <2>9, <3>1 DEF Waits, AfterSave, After, Writing, Keeping
    <3>3. QED
      BY <2>4, <3>1, <3>2
  <2>10. CASE Save(l) /\ loop[l].pc = "mark"
    <3>1. loop'[l].todo = loop[l].todo /\ loop'[l].pc = "trying" /\ NodeOf(l) \in NodeSet
      BY <1>0, <2>10, SaveMoves, HeadFacts DEF Shift, Same, AfterSave, After, Busy
    <3>2. contract' = [contract EXCEPT ![NodeOf(l)] = @ \/ NodeOf(l) \in Declaring]
      BY <2>10 DEF Save, StartsAttempt
    <3>3. Waits(loop'[l])
      BY <3>1 DEF Waits
    <3>4. QED
      BY <2>7, <3>1, <3>2, <3>3
  <2>11. CASE Check(l)
    <3>1. ~Waits(loop[l]) /\ ~Waits(loop'[l])
      BY <1>0, <2>11, CheckMoves DEF Waits, Drop
    <3>2. QED
      BY <2>4, <2>11, <3>1 DEF Check
  <2>12. CASE Retry(l)
    <3>1. loop'[l].todo = loop[l].todo /\ loop'[l].pc = "trying" /\ NodeOf(l) \in NodeSet
      BY <1>0, <2>12, RetryMoves, HeadFacts DEF Shift, Same, Busy
    <3>2. contract' = [contract EXCEPT ![NodeOf(l)] = @ \/ NodeOf(l) \in Declaring]
      BY <2>12 DEF Retry, StartsAttempt
    <3>3. Waits(loop'[l])
      BY <3>1 DEF Waits
    <3>4. QED
      BY <2>7, <3>1, <3>2, <3>3
  <2>13. CASE Checkpoint(l)
    <3>1. ~Waits(loop[l]) /\ ~Waits(loop'[l])
      BY <1>0, <2>13, CheckpointMoves DEF Waits, Drop
    <3>2. QED
      BY <2>4, <2>13, <3>1 DEF Checkpoint
  <2>14. CASE Took(l)
    <3>1. /\ NodeOf(l) \in NodeSet /\ contract' = [contract EXCEPT ![NodeOf(l)] = FALSE]
          /\ loop'[l].pc = "note"
      BY <2>14, TakeMoves DEF Took, Take
    <3>2. ~Waits(loop'[l])
      BY <3>1 DEF Waits
    <3>3. QED
      BY <2>6, <3>1, <3>2
  <2>15. CASE GaveUp(l)
    <3>1. /\ Shift(l) /\ loop[l].pc = "trying"
          /\ \/ loop'[l].pc = "backoff" /\ contract' = contract
             \/ loop'[l].pc = "blame" /\ contract' = [contract EXCEPT ![NodeOf(l)] = FALSE]
      BY <1>0, <2>15, GiveUpMoves DEF GaveUp
    <3>2. NodeOf(l) \in NodeSet
      BY <1>0, <3>1, HeadFacts DEF Busy
    <3>3. QED
      BY <2>5, <2>6, <3>1, <3>2 DEF Shift, Same, Waits
  <2>16. QED
    BY <1>5, <2>8, <2>9, <2>10, <2>11, <2>12, <2>13, <2>14, <2>15 DEF Step
<1>6. CASE Still
  BY <1>1, <1>2, <1>6 DEF Still, Quiet
<1>7. CASE Stop \/ StopSaves \/ EditFlow
  BY <1>1, <1>2, <1>7 DEF Stop, StopSaves, EditFlow, Happens
<1>8. CASE Crash
  <2>1. \A n \in NodeSet : contract'[n] = FALSE
    BY <1>8 DEF Crash
  <2>2. \A l \in LoopIds : ~Waits(loop'[l])
    BY <1>0, <1>8, CrashMoves DEF Fall, Idle, Running, Waits
  <2>3. QED
    BY <1>0, <2>1, <2>2 DEF ContractsHold, Waits
<1>9. QED
  BY <1>0, <1>3, <1>4, <1>5, <1>6, <1>7, <1>8, Cases
-----------------------------------------------------------------------------
(* The results, in memory and on disk.                                     *)
LEMMA CheckpointWrites ==
  ASSUME Typed, NEW l \in LoopIds, Checkpoint(l)
  PROVE  /\ Drop(l) /\ loop[l].pc = "store" /\ NodeOf(l) \in NodeSet
         /\ \/ saved' = saved /\ "disk" \in mishaps'
            \/ /\ mishaps' = mishaps /\ saved'[NodeOf(l)] = loop[l].outputs[NodeOf(l)]
               /\ saved' \in [NodeSet -> Result \cup {None}]
               /\ \A n \in NodeSet \ {NodeOf(l)} : saved'[n] = saved[n]
<1>1. LoopsOK /\ saved \in [NodeSet -> Result \cup {None}]
  BY DEF Typed, RecordOK
<1>2. Drop(l) /\ loop[l].pc = "store"
  BY <1>1, CheckpointMoves
<1>3. NodeOf(l) \in NodeSet
  BY <1>1, <1>2, HeadFacts DEF Busy
<1>4. loop[l].outputs[NodeOf(l)] \in Result \cup {None}
  BY <1>1, <1>3 DEF LoopsOK, LoopType
<1>5. QED
  BY <1>1, <1>2, <1>3, <1>4 DEF Checkpoint, Happens

(* A step of a loop changes what it holds, or what is on disk, only when a *)
(* result is taken and when it is written.                                 *)
LEMMA StepHolds ==
  ASSUME Typed, Cleared, NEW l \in LoopIds, Step(l), ~ResumeFlow(l), ~Checkpoint(l), ~Took(l)
  PROVE  /\ UNCHANGED saved /\ loop'[l].outputs = loop[l].outputs
         /\ \/ loop[l].pc \in Given /\ loop'[l].pc \in Given /\ loop'[l].todo = loop[l].todo
            \/ loop[l].pc \notin Given /\ loop'[l].pc \notin Given
<1>0. LoopsOK /\ AgentsOK /\ status \in Statuses \cup {None}
  BY DEF Typed, RecordOK
<1>1. ASSUME Shift(l), UNCHANGED saved
      PROVE  /\ UNCHANGED saved /\ loop'[l].outputs = loop[l].outputs
             /\ \/ loop[l].pc \in Given /\ loop'[l].pc \in Given /\ loop'[l].todo = loop[l].todo
                \/ loop[l].pc \notin Given /\ loop'[l].pc \notin Given
  BY <1>1 DEF Shift, Same
<1>2. CASE Load(l)
  BY <1>0, <1>1, <1>2, LoadMoves DEF Load, disk
<1>3. CASE Save(l)
  <2>1. UNCHANGED saved
    BY <1>3 DEF Save
  <2>2. QED
    BY <1>0, <1>1, <1>3, <2>1, SaveMoves
<1>4. CASE Check(l)
  <2>1. UNCHANGED saved
    BY <1>4 DEF Check, disk
  <2>2. loop[l].pc = "check" /\ (Shift(l) \/ Drop(l))
    BY <1>0, <1>4, CheckMoves
  <2>3. QED
    BY <1>1, <2>1, <2>2 DEF Drop, Given
<1>5. CASE Retry(l)
  <2>1. UNCHANGED saved
    BY <1>5 DEF Retry, disk
  <2>2. QED
    BY <1>0, <1>1, <1>5, <2>1, RetryMoves
<1>6. CASE Quiet /\ GaveUp(l)
  BY <1>0, <1>1, <1>6, GiveUpMoves DEF GaveUp, Quiet
<1>7. QED
  BY <1>2, <1>3, <1>4, <1>5, <1>6 DEF Step

LEMMA RestoredKept ==
  ASSUME Typed, Cleared, Opening, Alone, Restored, [Next]_vars
  PROVE  Restored'
<1>0. LoopsOK /\ RecordOK /\ AgentsOK /\ edges \in Flows /\ saved \in [NodeSet -> Result \cup {None}]
  BY DEF Typed, RecordOK
<1>1. SUFFICES ASSUME "overlap" \notin mishaps' PROVE Restored'
  BY DEF Restored
<1>2. ASSUME "overlap" \notin mishaps, UNCHANGED <<loop, saved>> PROVE Restored'
  BY <1>2 DEF Restored, Running
<1>3. CASE ExecuteFlow
  BY <1>3 DEF ExecuteFlow, Opening, Restored
<1>4. ASSUME NEW l \in LoopIds, ResumeFlow(l) PROVE Restored'
  <2>1. Running = {} /\ UNCHANGED saved
    BY <1>1, <1>4 DEF ResumeFlow, disk
  <2>2. Only(l) /\ loop'[l].outputs = saved
    BY <1>0, <1>4, ResumeMoves DEF Begin
  <2>3. Running' \subseteq {l}
    BY <2>1, <2>2 DEF Only, Running
  <2>4. QED
    BY <2>1, <2>2, <2>3 DEF Restored
<1>5. ASSUME NEW l \in LoopIds, Step(l), ~ResumeFlow(l) PROVE Restored'
  <2>1. Only(l) /\ l \in Running /\ "overlap" \notin mishaps
    BY <1>1, <1>5, StepFacts
  <2>2. Running' \subseteq {l}
    BY <2>1 DEF Alone, Only, Running
  <2>3. \A n \in NodeSet : saved[n] # None => loop[l].outputs[n] = saved[n]
    BY <2>1 DEF Restored
  <2>4. CASE Checkpoint(l)
    <3>1. loop'[l].outputs = loop[l].outputs
      BY <1>0, <2>4, CheckpointMoves DEF Drop
    <3>2. \A n \in NodeSet : saved'[n] = saved[n] \/ saved'[n] = loop[l].outputs[n]
      BY <2>4, CheckpointWrites
    <3>3. QED
      BY <2>2, <2>3, <3>1, <3>2 DEF Restored
  <2>5. CASE Took(l) /\ ~Checkpoint(l)
    <3>1. Take(l) /\ NodeOf(l) \in NodeSet
      BY <2>5, TakeMoves DEF Took
    <3>2. loop[l].outputs[NodeOf(l)] = None
      BY <1>0, <3>1 DEF Take, LoopsOK, Fine, Busy, Given, Supplied, NodeOf
    <3>3. UNCHANGED saved
      <4>1. loop[l].pc = "trying" /\ loop'[l].pc = "note"
        BY <3>1 DEF Take
      <4>2. CASE Quiet
        BY <4>2 DEF Quiet
      <4>3. CASE ~Quiet
        BY <1>0, <1>5, <2>5, <4>1, <4>3, LoadMoves, RetryMoves, CheckMoves
           DEF Step, Keeping, Load, disk, Save, Writing
      <4>4. QED
        BY <4>2, <4>3
    <3>4. QED
      BY <2>2, <2>3, <3>1, <3>2, <3>3 DEF Restored, Take
  <2>6. CASE ~Took(l) /\ ~Checkpoint(l)
    <3>1. UNCHANGED saved /\ loop'[l].outputs = loop[l].outputs
      BY <1>5, <2>6, StepHolds
    <3>2. QED
      BY <2>2, <2>3, <3>1 DEF Restored
  <2>7. QED
    BY <2>4, <2>5, <2>6
<1>6. CASE Still
  BY <1>1, <1>2, <1>6 DEF Still, Quiet
<1>7. CASE Stop \/ StopSaves \/ EditFlow
  BY <1>1, <1>2, <1>7 DEF Stop, StopSaves, EditFlow, Happens, disk
<1>8. CASE Crash
  <2>1. Running' = {}
    BY <1>0, <1>8, CrashMoves DEF Fall, Idle, Running
  <2>2. QED
    BY <2>1 DEF Restored
<1>9. QED
  BY <1>0, <1>3, <1>4, <1>5, <1>6, <1>7, <1>8, Cases

Unspoilt == mishaps \cap {"disk", "edit", "overlap"} = {}

LEMMA FittingKept ==
  ASSUME Typed, Cleared, Opening, Alone, Restored, Fitting, [Next]_vars
  PROVE  Fitting'
<1>0. /\ LoopsOK /\ RecordOK /\ AgentsOK /\ edges \in Flows
      /\ edges \in SUBSET (NodeSet \X NodeSet)
      /\ saved \in [NodeSet -> Result \cup {None}]
  BY FlowAssumption DEF Typed, RecordOK
<1>1. SUFFICES ASSUME Unspoilt' PROVE Fitting'
  BY DEF Fitting, Unspoilt
<1>2. ASSUME mishaps \subseteq mishaps'
      PROVE  /\ Unspoilt
             /\ \A l \in LoopIds : Fits(loop[l].outputs, loop[l].edges)
             /\ Fits(saved, edges) /\ Rooted(saved, edges)
             /\ \A l \in Running : Steady(loop[l], edges, saved)
             /\ \A l \in Running : \A n \in NodeSet :
                  saved[n] # None => loop[l].outputs[n] = saved[n]
             /\ \A l, m \in Running : l = m
  BY <1>1, <1>2 DEF Unspoilt, Fitting, Alone, Restored
<1>3. ASSUME mishaps \subseteq mishaps', UNCHANGED <<loop, saved, edges>> PROVE Fitting'
  BY <1>2, <1>3 DEF Fitting, Running, Steady
<1>4. CASE ExecuteFlow
  <2>1. mishaps' = mishaps /\ UNCHANGED <<saved, edges>> /\ loop[1].pc = "new" /\ 1 \in LoopIds
    BY <1>4, BoundAssumption DEF ExecuteFlow, LoopIds
  <2>2. Running = {}
    BY <2>1 DEF Opening, Running
  <2>3. /\ Only(1) /\ loop'[1].edges = edges /\ loop'[1].outputs = loop[1].outputs
        /\ \A n \in NodeSet : loop[1].outputs[n] = None
    BY <1>0, <1>4, <2>1, ExecuteMoves DEF Begin, LoopsOK, Fine
  <2>4. Running' \subseteq {1}
    BY <2>2, <2>3 DEF Only, Running
  <2>5. \A e \in edges : e[1] \in NodeSet /\ e[2] \in NodeSet
    BY <1>0
  <2>6. Fits(loop'[1].outputs, loop'[1].edges) /\ Steady(loop'[1], edges', saved')
    BY <2>1, <2>3, <2>5 DEF Fits, Rooted, Steady
  <2>7. \A l \in LoopIds : Fits(loop'[l].outputs, loop'[l].edges)
    BY <1>2, <2>1, <2>3, <2>6 DEF Only
  <2>8. QED
    BY <1>2, <2>1, <2>4, <2>6, <2>7 DEF Fitting
<1>5. ASSUME NEW l \in LoopIds, ResumeFlow(l) PROVE Fitting'
  <2>1. Running = {} /\ UNCHANGED <<saved, edges>> /\ mishaps' = mishaps
    BY <1>1, <1>5 DEF ResumeFlow, disk, Unspoilt
  <2>2. Only(l) /\ loop'[l].edges = edges /\ loop'[l].outputs = saved
    BY <1>0, <1>5, ResumeMoves DEF Begin
  <2>3. Running' \subseteq {l}
    BY <2>1, <2>2 DEF Only, Running
  <2>4. Fits(loop'[l].outputs, loop'[l].edges) /\ Steady(loop'[l], edges', saved')
    BY <1>2, <2>1, <2>2 DEF Steady
  <2>5. \A m \in LoopIds : Fits(loop'[m].outputs, loop'[m].edges)
    BY <1>2, <2>1, <2>2, <2>4 DEF Only
  <2>6. QED
    BY <1>2, <2>1, <2>3, <2>4, <2>5 DEF Fitting
<1>6. ASSUME NEW l \in LoopIds, Step(l), ~ResumeFlow(l) PROVE Fitting'
  <2>1. /\ Only(l) /\ l \in Running /\ mishaps \subseteq mishaps' /\ edges' = edges
        /\ loop'[l].edges = loop[l].edges
    BY <1>6, StepFacts
  <2>2. Running' \subseteq {l}
    BY <1>2, <2>1 DEF Only, Running
  <2>3. /\ Steady(loop[l], edges, saved) /\ Fits(loop[l].outputs, edges) /\ loop[l].edges = edges
        /\ Rooted(loop[l].outputs, edges)
        /\ \A n \in NodeSet : saved[n] # None => loop[l].outputs[n] = saved[n]
    BY <1>2, <2>1 DEF Steady
  <2>4. ASSUME Fits(loop'[l].outputs, edges), Steady(loop'[l], edges', saved'),
               Fits(saved', edges), Rooted(saved', edges)
        PROVE  Fitting'
    <3>1. \A m \in LoopIds : Fits(loop'[m].outputs, loop'[m].edges)
      BY <1>2, <2>1, <2>3, <2>4 DEF Only
    <3>2. QED
      BY <2>1, <2>2, <2>4, <3>1 DEF Fitting
  <2>5. CASE Checkpoint(l)
    <3>1. /\ Drop(l) /\ loop[l].pc = "store" /\ NodeOf(l) \in NodeSet
          /\ saved'[NodeOf(l)] = loop[l].outputs[NodeOf(l)]
          /\ saved' \in [NodeSet -> Result \cup {None}]
          /\ \A n \in NodeSet \ {NodeOf(l)} : saved'[n] = saved[n]
      BY <1>1, <2>5, CheckpointWrites DEF Unspoilt
    <3>2. loop[l].outputs \in [NodeSet -> Result \cup {None}]
      BY <1>0 DEF LoopsOK, LoopType
    <3>3. \A n \in NodeSet : saved'[n] = loop[l].outputs[n]
      BY <2>3, <3>1 DEF Steady, NodeOf
    <3>4. saved' = loop[l].outputs
      BY <3>1, <3>2, <3>3
    <3>5. loop'[l].outputs = loop[l].outputs
      BY <3>1 DEF Drop
    <3>6. Steady(loop'[l], edges', saved')
      BY <2>1, <2>3, <3>4, <3>5 DEF Steady
    <3>7. QED
      BY <2>3, <2>4, <3>4, <3>5, <3>6
  <2>6. CASE Took(l) /\ ~Checkpoint(l)
    <3> DEFINE n == NodeOf(l)
               o == loop[l].outputs
               p == loop'[l].outputs
    <3>1. Take(l) /\ n \in NodeSet /\ UNCHANGED saved
      <4>1. Take(l) /\ n \in NodeSet
        BY <2>6, TakeMoves DEF Took
      <4>2. loop[l].pc = "trying" /\ loop'[l].pc = "note"
        BY <4>1 DEF Take
      <4>3. CASE Quiet
        BY <4>1, <4>3 DEF Quiet
      <4>4. CASE ~Quiet
        BY <1>0, <1>6, <2>6, <4>1, <4>2, <4>4, LoadMoves, RetryMoves, CheckMoves
           DEF Step, Keeping, Load, disk, Save, Writing
      <4>5. QED
        BY <4>3, <4>4
    <3>2. /\ o[n] = None /\ \A m \in Before(n, edges) : m # n /\ o[m] # None
      BY <1>0, <2>3, <3>1 DEF Take, LoopsOK, Fine, Busy, Given, Supplied, NodeOf
    <3>3. /\ p[n] # None /\ p[n].from = Sources(l) /\ \A m \in NodeSet \ {n} : p[m] = o[m]
          /\ loop'[l].pc \in Given /\ Head(loop'[l].todo) = n
      BY <3>1 DEF Take, Given, NodeOf
    <3>4. \A m \in Before(n, edges) : m \in NodeSet => Sources(l)[m] = o[m].gen
      BY <2>3, <3>2 DEF Sources
    <3>5. \A e \in edges : e[1] \in NodeSet /\ e[2] \in NodeSet /\ e[1] \in Before(e[2], edges)
      BY <1>0 DEF Before
    <3> HIDE DEF n, o, p
    <3>6. ASSUME NEW e \in edges, p[e[2]] # None
          PROVE  p[e[1]] # None /\ p[e[1]] = o[e[1]] /\ p[e[2]].from[e[1]] = p[e[1]].gen
      <4>1. Rooted(o, edges) /\ Fits(o, edges)
        BY <2>3 DEF o
      <4>2. CASE e[2] = n
        <5>1. e[1] \in Before(n, edges) /\ e[1] \in NodeSet
          BY <3>5, <4>2
        <5>2. e[1] # n /\ o[e[1]] # None /\ p[e[1]] = o[e[1]]
          BY <3>2, <3>3, <5>1
        <5>3. QED
          BY <3>3, <3>4, <4>2, <5>1, <5>2
      <4>3. CASE e[2] # n
        <5>1. p[e[2]] = o[e[2]] /\ e[1] \in NodeSet
          BY <3>3, <3>5, <4>3
        <5>2. o[e[1]] # None
          BY <3>6, <4>1, <5>1 DEF Rooted
        <5>3. e[1] # n
          BY <3>2, <5>2
        <5>4. p[e[1]] = o[e[1]]
          BY <3>3, <5>1, <5>3
        <5>5. QED
          BY <3>6, <4>1, <5>1, <5>2, <5>4 DEF Fits
      <4>4. QED
        BY <4>2, <4>3
    <3>7. Fits(p, edges) /\ Rooted(p, edges)
      BY <3>6 DEF Fits, Rooted
    <3>8. \A m \in NodeSet : p[m] # None => saved[m] # None \/ m = n
      <4>1. \A m \in NodeSet : o[m] # None => saved[m] # None
        <5>1. loop[l].pc \notin Given
          BY <3>1 DEF Take, Given
        <5>2. QED
          BY <2>3, <5>1 DEF Steady, o
      <4>2. QED
        BY <3>3, <4>1
    <3>9. Steady(loop'[l], edges', saved')
      BY <2>1, <2>3, <3>1, <3>3, <3>7, <3>8 DEF Steady, p
    <3>10. QED
      BY <1>2, <2>1, <2>4, <3>1, <3>7, <3>9 DEF p
  <2>7. CASE ~Took(l) /\ ~Checkpoint(l)
    <3>1. /\ UNCHANGED saved /\ loop'[l].outputs = loop[l].outputs
          /\ \/ loop[l].pc \in Given /\ loop'[l].pc \in Given /\ loop'[l].todo = loop[l].todo
             \/ loop[l].pc \notin Given /\ loop'[l].pc \notin Given
      BY <1>6, <2>7, StepHolds
    <3>2. Steady(loop'[l], edges', saved')
      BY <2>1, <2>3, <3>1 DEF Steady
    <3>3. QED
      BY <1>2, <2>1, <2>3, <2>4, <3>1, <3>2
  <2>8. QED
    BY <2>5, <2>6, <2>7
<1>7. CASE Still
  BY <1>3, <1>7 DEF Still, Quiet
<1>8. CASE Stop \/ StopSaves
  <2>1. UNCHANGED <<edges, saved, loop>> /\ mishaps \subseteq mishaps'
    BY <1>8 DEF Stop, StopSaves, Happens, disk
  <2>2. QED
    BY <1>3, <2>1
<1>9. CASE EditFlow
  BY <1>1, <1>9 DEF EditFlow, Happens, Unspoilt
<1>10. CASE Crash
  <2>1. Fall /\ mishaps \subseteq mishaps' /\ UNCHANGED <<saved, edges>>
    BY <1>0, <1>10, CrashMoves DEF Crash, Happens, disk
  <2>2. PICK r : r = [Idle EXCEPT !.pc = "ended"]
    OBVIOUS
  <2>3. r.edges = {} /\ r.pc = "ended"
    BY <2>2 DEF Idle
  <2>4. \A l \in LoopIds : loop'[l] = IF l \in Running THEN r ELSE loop[l]
    BY <2>1, <2>2 DEF Fall
  <2>5. Running' = {}
    BY <2>3, <2>4 DEF Running
  <2>6. \A l \in LoopIds : Fits(loop'[l].outputs, loop'[l].edges)
    BY <1>2, <2>1, <2>3, <2>4 DEF Fits
  <2>7. QED
    BY <1>2, <2>1, <2>5, <2>6 DEF Fitting
<1>11. QED
  BY <1>0, <1>4, <1>5, <1>6, <1>7, <1>8, <1>9, <1>10, Cases
-----------------------------------------------------------------------------
(* The invariant holds, and what follows from it.                          *)
LEMMA InitInv == Init => IInv
<1> SUFFICES ASSUME Init PROVE IInv
  OBVIOUS
<1>1. PICK r : r = Idle
  OBVIOUS
<1>2. /\ r.pc = "new" /\ r.todo = << >> /\ r.copy = None /\ r.edges = {} /\ r.try = 0
      /\ \A n \in NodeSet : r.outputs[n] = None
  BY <1>1 DEF Idle
<1>3. r \in LoopType
  <2>1. 0 \in Tries
    BY NodesFacts, BoundAssumption DEF Tries
  <2>2. << >> \in Seq(NodeSet)
    OBVIOUS
  <2>3. QED
    BY <1>1, <2>1, <2>2 DEF Idle, LoopType, Pcs
<1>4. Fine(r)
  BY <1>2, <1>3 DEF Fine, Busy, Distinct, Ordered, AllOurs
<1>5. \A l \in LoopIds : loop[l] = r
  BY <1>1 DEF Init
<1>6. LoopsOK
  BY <1>1, <1>3, <1>4, <1>5 DEF Init, LoopsOK
<1>7. RecordOK
  BY DEF Init, RecordOK, AllOurs
<1>8. AgentsOK
  <2>1. PICK o : o = NoAttempt
    OBVIOUS
  <2>2. o \in [pc : {"off", "resetting", "waiting"}, left : 0..MaxReprompts] /\ o.pc = "off"
    BY <2>1, BoundAssumption DEF NoAttempt
  <2>3. att = [k \in Attempts |-> o]
    BY <2>1 DEF Init
  <2>4. QED
    BY <2>2, <2>3 DEF Init, AgentsOK, Kinds
<1>9. Counted
  <2>1. \A n \in NodeSet : {l \in LoopIds : ~Pending(loop[l], n)} = {}
    BY <1>2, <1>5 DEF Pending
  <2>2. Cardinality({}) = 0
    BY FS_EmptySet
  <2>3. QED
    BY <2>1, <2>2 DEF Init, Counted
<1>10. Cleared
  <2>1. \A k \in Attempts : att[k].pc = "off"
    BY DEF Init, NoAttempt
  <2>2. QED
    BY <2>1 DEF Init, Cleared
<1>11. Running = {}
  BY <1>2, <1>5 DEF Running
<1>12. 1 \in LoopIds
  BY BoundAssumption DEF LoopIds
<1>13. Opening /\ Closing /\ Alone /\ Restored
  BY <1>2, <1>5, <1>11, <1>12 DEF Opening, Closing, Alone, Restored, Init
<1>14. ContractsHold
  BY <1>2, <1>5, FlowAssumption DEF ContractsHold, Init
<1>15. Fitting
  <2>1. edges \in SUBSET (NodeSet \X NodeSet) /\ \A n \in NodeSet : saved[n] = None
    BY FlowAssumption DEF Init
  <2>2. QED
    BY <1>2, <1>5, <1>11, <2>1 DEF Fitting, Fits, Rooted
<1>16. QED
  BY <1>6, <1>7, <1>8, <1>9, <1>10, <1>13, <1>14, <1>15 DEF IInv, Typed

LEMMA NextKeeps == IInv /\ [Next]_vars => IInv'
<1> SUFFICES ASSUME IInv, [Next]_vars PROVE IInv'
  OBVIOUS
<1>1. Typed /\ Cleared /\ Opening /\ Closing /\ Alone /\ ContractsHold /\ Restored /\ Fitting
  BY DEF IInv
<1>2. LoopsOK' /\ Counted' /\ RecordOK' /\ AgentsOK' /\ Cleared'
  BY <1>1, LoopsKept, RecordKept, AgentsKept
<1>3. Opening' /\ Closing' /\ Alone'
  BY <1>1, OpeningKept, ClosingKept, AloneKept
<1>4. ContractsHold' /\ Restored' /\ Fitting'
  BY <1>1, ContractsKept, RestoredKept, FittingKept
<1>5. QED
  BY <1>2, <1>3, <1>4 DEF IInv, Typed

(* The inductive invariant of the executor (executeFlow, resumeFlow,       *)
(* attemptOnce, stopFlow).                                                 *)
THEOREM InvariantHolds == Spec => []IInv
BY InitInv, NextKeeps, PTL DEF Spec

LEMMA InvTypes == IInv => TypeOK
<1> SUFFICES ASSUME IInv PROVE TypeOK
  OBVIOUS
<1>1. LoopsOK /\ RecordOK /\ AgentsOK /\ Counted
  BY DEF IInv, Typed
<1>2. ASSUME NEW l \in LoopIds
      PROVE  /\ loop[l].pc \in Writing \cup {"new", "check", "trying", "backoff", "store", "ended"}
             /\ loop[l].try \in Tries
             /\ loop[l].pc \in {"mark", "trying", "backoff", "note", "store", "blame"}
                  => loop[l].todo # << >>
             /\ loop[l].outputs \in [NodeSet -> Result \cup {None}]
             /\ loop[l].copy # None => loop[l].pc \in Keeping
  BY <1>1, HeadFacts DEF LoopsOK, LoopType, Pcs, Fine, Busy
<1>3. \A k \in Attempts : att[k].pc \in {"off", "resetting", "waiting"} /\ att[k].left \in 0..MaxReprompts
  BY <1>1 DEF AgentsOK
<1>4. made \in [NodeSet -> 0..Loops]
  <2>1. Loops \in Nat
    BY BoundAssumption
  <2>2. IsFiniteSet(LoopIds) /\ Cardinality(LoopIds) = Loops
    <3>1. 1 \in Int /\ Loops \in Int /\ (1 > Loops => Loops = 0) /\ Loops - 1 + 1 = Loops
      BY <2>1
    <3>2. QED
      BY <2>1, <3>1, FS_Interval DEF LoopIds
  <2>3. ASSUME NEW n \in NodeSet PROVE made[n] \in 0..Loops
    <3>1. PICK d : d = {l \in LoopIds : ~Pending(loop[l], n)}
      OBVIOUS
    <3>2. d \subseteq LoopIds /\ made[n] \in Nat /\ made[n] <= Cardinality(d)
      BY <1>1, <3>1 DEF Counted
    <3>3. Cardinality(d) <= Loops /\ Cardinality(d) \in Nat
      BY <2>2, <3>2, FS_Subset, FS_CardinalityType
    <3>4. QED
      BY <2>1, <3>2, <3>3
  <2>4. QED
    BY <1>1, <2>3 DEF Counted
<1>5. QED
  BY <1>1, <1>2, <1>3, <1>4 DEF TypeOK, RecordOK, AgentsOK

(* Every variable keeps its type; a node gives no more results than there  *)
(* are loops (executeFlow, resumeFlow).                                    *)
THEOREM TypesHold == Spec => []TypeOK
BY InvariantHolds, InvTypes, PTL

LEMMA InvInputs == IInv => InputsFirst
<1> SUFFICES ASSUME IInv, NEW l \in LoopIds, AtNode(l) PROVE
               \A m \in Before(NodeOf(l), loop[l].edges) : loop[l].outputs[m] # None
  BY DEF InputsFirst
<1>1. Fine(loop[l]) /\ loop[l].pc \in Busy
  BY DEF IInv, Typed, LoopsOK, AtNode, Busy
<1>2. QED
  BY <1>1 DEF Fine, Supplied, NodeOf

(* A node is worked on only with the outputs of all its sources at hand:   *)
(* the loop of executeFlow and resumeFlow over topologicalSort.            *)
THEOREM InputsComeFirst == Spec => []InputsFirst
BY InvariantHolds, InvInputs, PTL

LEMMA InvFresh == IInv => ResultsAreFresh
BY DEF IInv, Typed, LoopsOK, Fine, AllOurs, ResultsAreFresh

(* No completion of earlier work becomes a node's result: attemptOnce      *)
(* resets autonomousWorkComplete before it listens or polls.               *)
THEOREM OnlyFreshResults == Spec => []ResultsAreFresh
BY InvariantHolds, InvFresh, PTL

(* A declaring node's contract is registered exactly while a loop waits    *)
(* for its agent, if no two loops ran (registerContract, clearContract).   *)
THEOREM ContractsLast == Spec => []ContractsHold
<1>1. IInv => ContractsHold
  BY DEF IInv
<1>2. QED
  BY <1>1, InvariantHolds, PTL

LEMMA InvClosed == IInv => EndedRunsAreClosed
BY DEF IInv, Closing, EndedRunsAreClosed

(* When the last loop ends, the record has a final status, whatever copies *)
(* were read and written late (updateFlowRun).                             *)
THEOREM RunsGetClosed == Spec => []EndedRunsAreClosed
BY InvariantHolds, InvClosed, PTL

LEMMA InvFit == IInv => ResultsFitTogether
<1> SUFFICES ASSUME IInv, mishaps \cap {"disk", "edit", "overlap"} = {}, NEW l \in LoopIds
             PROVE  Fits(loop[l].outputs, loop[l].edges)
  BY DEF ResultsFitTogether, Fits
<1>1. QED
  BY DEF IInv, Fitting

(* A result is computed from the very results of its sources that the loop *)
(* holds, across failures, crashes and resumes (loadNodeResults).          *)
THEOREM ResultsFit == Spec => []ResultsFitTogether
BY InvariantHolds, InvFit, PTL

LEMMA MarkedOnce ==
  ASSUME IInv, [Next]_vars, NEW l \in LoopIds,
         "overlap" \notin mishaps, loop[l].pc = "check", loop'[l].pc = "mark"
  PROVE  saved[NodeOf(l)] = None
<1>0. Typed /\ Cleared /\ Restored /\ LoopsOK /\ RecordOK /\ AgentsOK /\ edges \in Flows
  BY DEF IInv, Typed, RecordOK
<1>1. Check(l)
  <2>1. ASSUME NEW m \in LoopIds, Step(m) PROVE m = l /\ ~ResumeFlow(l)
    <3>1. Only(m)
      <4>1. CASE ResumeFlow(m)
        BY <1>0, <4>1, ResumeMoves DEF Begin
      <4>2. CASE ~ResumeFlow(m)
        BY <1>0, <2>1, <4>2, StepFacts
      <4>3. QED
        BY <4>1, <4>2
    <3>2. QED
      BY <3>1 DEF Only, ResumeFlow
  <2>2. ASSUME Step(l), ~ResumeFlow(l) PROVE Check(l)
    BY <2>2 DEF Step, Load, Save, Retry, Checkpoint, Took, GaveUp, Keeping, Writing
  <2>3. ~ExecuteFlow
    BY <1>0, ExecuteMoves DEF Begin, Only
  <2>4. ~Crash
    BY <1>0, CrashMoves DEF Fall, Idle
  <2>5. loop' # loop
    OBVIOUS
  <2>6. ~Still /\ ~Stop /\ ~StopSaves /\ ~EditFlow
    BY <2>5 DEF Still, Stop, StopSaves, EditFlow
  <2>7. QED
    BY <1>0, <2>1, <2>2, <2>3, <2>4, <2>6, Cases
<1>2. Shift(l)
  BY <1>0, <1>1, CheckMoves DEF Drop
<1>3. loop[l].todo # << >> /\ loop[l].outputs[NodeOf(l)] = None
  BY <1>2 DEF Shift, Busy
<1>4. NodeOf(l) \in NodeSet
  BY <1>0, <1>3, TailFacts DEF LoopsOK, LoopType, NodeOf
<1>5. l \in Running
  BY DEF Running
<1>6. QED
  BY <1>0, <1>3, <1>4, <1>5 DEF Restored

(* A node whose checkpoint is on disk is not begun again, unless a run was *)
(* resumed under a stopped loop (the skip in the loop of resumeFlow).      *)
THEOREM NoNodeRunsAgain == Spec => NotRunAgain
<1> DEFINE A == \A l \in LoopIds :
                  "overlap" \notin mishaps /\ loop[l].pc = "check" /\ loop'[l].pc = "mark"
                    => saved[NodeOf(l)] = None
<1>1. IInv /\ [Next]_vars => [A]_vars
  BY MarkedOnce
<1>2. QED
  BY <1>1, InvariantHolds, PTL DEF Spec, NotRunAgain
-----------------------------------------------------------------------------
(* The work a loop has left.                                               *)
Timed == {"trying", "backoff"}

LEMMA NumberOfTries ==
  /\ Tries \subseteq Nat
  /\ \A n \in NodeSet : MaxRetries[n] \in Nat
<1>1. \A n \in NodeSet : MaxRetries[n] \in Nat
  BY BoundAssumption
<1>2. QED
  BY <1>1 DEF Tries

LEMMA LessFacts ==
  ASSUME NEW a1 \in Nat, NEW a2 \in Nat, NEW a3 \in Nat, NEW a4 \in Nat,
         NEW b1, NEW b2, NEW b3, NEW b4,
         \/ a1 < b1
         \/ a1 = b1 /\ a2 < b2
         \/ a1 = b1 /\ a2 = b2 /\ a3 < b3
         \/ a1 = b1 /\ a2 = b2 /\ a3 = b3 /\ a4 < b4
  PROVE  Less(<<a1, a2, a3, a4>>, <<b1, b2, b3, b4>>)
<1> DEFINE v == <<a1, a2, a3, a4>>
           w == <<b1, b2, b3, b4>>
<1>1. v[1] = a1 /\ v[2] = a2 /\ v[3] = a3 /\ v[4] = a4
  OBVIOUS
<1>2. w[1] = b1 /\ w[2] = b2 /\ w[3] = b3 /\ w[4] = b4
  OBVIOUS
<1>3. \A i \in 1..4 : i = 1 \/ i = 2 \/ i = 3 \/ i = 4
  OBVIOUS
<1>4. {1, 2, 3, 4} \subseteq 1..4
  OBVIOUS
<1> HIDE DEF v, w
<1>5. \A i \in 1..4 : v[i] \in Nat
  BY <1>1, <1>3
<1>6. ASSUME NEW k \in 1..4, v[k] < w[k], \A j \in 1..4 : j < k => v[j] = w[j]
      PROVE  Less(v, w)
  BY <1>5, <1>6 DEF Less
<1>7. ASSUME a1 < b1 PROVE Less(v, w)
  <2>1. \A j \in 1..4 : ~(j < 1)
    OBVIOUS
  <2>2. v[1] < w[1] /\ 1 \in 1..4
    BY <1>1, <1>2, <1>4, <1>7
  <2>3. \A j \in 1..4 : j < 1 => v[j] = w[j]
    BY <1>1, <1>2, <1>7, <2>1
  <2>4. QED
    BY <1>6, <2>2, <2>3
<1>8. ASSUME a1 = b1 /\ a2 < b2 PROVE Less(v, w)
  <2>1. \A j \in 1..4 : j < 2 => j = 1
    OBVIOUS
  <2>2. v[2] < w[2] /\ 2 \in 1..4
    BY <1>1, <1>2, <1>4, <1>8
  <2>3. \A j \in 1..4 : j < 2 => v[j] = w[j]
    BY <1>1, <1>2, <1>8, <2>1
  <2>4. QED
    BY <1>6, <2>2, <2>3
<1>9. ASSUME a1 = b1 /\ a2 = b2 /\ a3 < b3 PROVE Less(v, w)
  <2>1. \A j \in 1..4 : j < 3 => j = 1 \/ j = 2
    OBVIOUS
  <2>2. v[3] < w[3] /\ 3 \in 1..4
    BY <1>1, <1>2, <1>4, <1>9
  <2>3. \A j \in 1..4 : j < 3 => v[j] = w[j]
    BY <1>1, <1>2, <1>9, <2>1
  <2>4. QED
    BY <1>6, <2>2, <2>3
<1>10. ASSUME a1 = b1 /\ a2 = b2 /\ a3 = b3 /\ a4 < b4 PROVE Less(v, w)
  <2>1. \A j \in 1..4 : j < 4 => j = 1 \/ j = 2 \/ j = 3
    OBVIOUS
  <2>2. v[4] < w[4] /\ 4 \in 1..4
    BY <1>1, <1>2, <1>4, <1>10
  <2>3. \A j \in 1..4 : j < 4 => v[j] = w[j]
    BY <1>1, <1>2, <1>10, <2>1
  <2>4. QED
    BY <1>6, <2>2, <2>3
<1>11. QED
  BY <1>7, <1>8, <1>9, <1>10 DEF v, w

LEMMA StageFacts ==
  ASSUME NEW r \in LoopType, r.pc # "new"
  PROVE  /\ Len(r.todo) \in Nat /\ Stage[r.pc] \in Nat
         /\ r.pc \notin Timed => RetriesLeft(r) = 0
<1>1. r.todo \in Seq(NodeSet) /\ r.pc \in Pcs \ {"new"}
  BY DEF LoopType
<1>2. Len(r.todo) \in Nat
  BY <1>1
<1>3. Stage[r.pc] \in Nat
  BY <1>1 DEF Stage, Pcs, Writing, Keeping
<1>4. r.pc \notin Timed => RetriesLeft(r) = 0
  BY DEF Timed, RetriesLeft
<1>5. QED
  BY <1>2, <1>3, <1>4

(* How a step may leave a loop less work.                                  *)
LEMMA WorkFalls ==
  ASSUME NEW r \in LoopType, NEW s \in LoopType, r.pc # "new", s.pc # "new",
         RetriesLeft(s) \in Nat,
         \/ Len(s.todo) < Len(r.todo)
         \/ s.todo = r.todo /\ Stage[s.pc] < Stage[r.pc]
         \/ s.todo = r.todo /\ Stage[s.pc] = Stage[r.pc] /\ RetriesLeft(s) < RetriesLeft(r)
         \/ /\ s.todo = r.todo /\ s.pc = r.pc /\ r.pc \notin Timed
            /\ r.copy = None /\ s.copy # None
  PROVE  Less(Work(s), Work(r))
<1> DEFINE c(x) == IF x.copy = None THEN 1 ELSE 0
<1>1. Len(s.todo) \in Nat /\ Stage[s.pc] \in Nat
  BY StageFacts
<1>2. c(s) \in Nat /\ (r.copy = None /\ s.copy # None => c(s) < c(r))
  OBVIOUS
<1>3. s.pc = r.pc /\ r.pc \notin Timed => RetriesLeft(s) = RetriesLeft(r)
  BY StageFacts
<1>4. Work(s) = <<Len(s.todo), Stage[s.pc], RetriesLeft(s), c(s)>>
      /\ Work(r) = <<Len(r.todo), Stage[r.pc], RetriesLeft(r), c(r)>>
  BY DEF Work
<1> HIDE DEF c
<1>5. s.todo = r.todo => Len(s.todo) = Len(r.todo)
  OBVIOUS
<1>6. s.pc = r.pc => Stage[s.pc] = Stage[r.pc]
  OBVIOUS
<1>7. Less(<<Len(s.todo), Stage[s.pc], RetriesLeft(s), c(s)>>,
           <<Len(r.todo), Stage[r.pc], RetriesLeft(r), c(r)>>)
  BY <1>1, <1>2, <1>3, <1>5, <1>6, LessFacts
<1>8. QED
  BY <1>4, <1>7

(* The next three lemmas: where the loop goes on, where it drops a node,   *)
(* and where a crash ends it.                                              *)
LEMMA ShiftWears ==
  ASSUME LoopsOK, NEW l \in LoopIds, Shift(l), l \in Running, loop'[l].pc \notin Timed,
         Stage[loop'[l].pc] < Stage[loop[l].pc]
  PROVE  Less(Work(loop'[l]), Work(loop[l]))
<1>1. loop[l] \in LoopType /\ loop'[l] \in LoopType /\ loop'[l].todo = loop[l].todo
      /\ loop[l].pc # "new" /\ loop'[l].pc # "new"
  BY DEF LoopsOK, Shift, Only, Same
<1>2. PICK r \in LoopType : r = loop[l]
  BY <1>1
<1>3. PICK s \in LoopType : s = loop'[l]
  BY <1>1
<1>4. RetriesLeft(s) = 0
  BY <1>1, <1>3, StageFacts
<1>5. Less(Work(s), Work(r))
  BY <1>1, <1>2, <1>3, <1>4, WorkFalls
<1>6. QED
  BY <1>2, <1>3, <1>5

LEMMA DropWears ==
  ASSUME LoopsOK, NEW l \in LoopIds, Drop(l)
  PROVE  Less(Work(loop'[l]), Work(loop[l]))
<1>1. /\ loop[l] \in LoopType /\ loop'[l] \in LoopType /\ loop[l].todo # << >>
      /\ loop'[l].todo = Tail(loop[l].todo) /\ loop[l].pc # "new" /\ loop'[l].pc = "check"
  BY DEF LoopsOK, Drop, Only
<1>2. PICK r \in LoopType : r = loop[l]
  BY <1>1
<1>3. PICK s \in LoopType : s = loop'[l]
  BY <1>1
<1>4. RetriesLeft(s) = 0
  BY <1>1, <1>3, StageFacts DEF Timed
<1>5. PICK t : t = r.todo
  OBVIOUS
<1>6. t \in Seq(NodeSet) /\ t # << >> /\ s.todo = Tail(t)
  BY <1>1, <1>2, <1>3, <1>5 DEF LoopType
<1>7. Len(Tail(t)) < Len(t)
  BY <1>6
<1>8. Less(Work(s), Work(r))
  <2>1. r.pc # "new" /\ s.pc # "new" /\ RetriesLeft(s) \in Nat
    BY <1>1, <1>2, <1>3, <1>4
  <2>2. Len(s.todo) < Len(r.todo)
    BY <1>5, <1>6, <1>7
  <2>3. QED
    BY <2>1, <2>2, WorkFalls
<1>9. QED
  BY <1>2, <1>3, <1>8

LEMMA FallWears ==
  ASSUME LoopsOK, NEW l \in LoopIds, l \in Running, Crash
  PROVE  Less(Work(loop'[l]), Work(loop[l]))
<1>1. loop[l] \in LoopType /\ loop[l].pc \in Pcs \ {"new", "ended"}
  BY DEF LoopsOK, LoopType, Running
<1>2. loop'[l] \in LoopType /\ loop'[l] = [Idle EXCEPT !.pc = "ended"]
  BY CrashMoves DEF Fall
<1>3. loop'[l].pc = "ended" /\ loop'[l].todo = << >>
  BY <1>2 DEF Idle
<1>4. PICK r \in LoopType : r = loop[l]
  BY <1>1
<1>5. PICK s \in LoopType : s = loop'[l]
  BY <1>2
<1>6. RetriesLeft(s) = 0
  BY <1>3, <1>5, StageFacts DEF Timed
<1>7. Stage[s.pc] < Stage[r.pc]
  BY <1>1, <1>3, <1>4, <1>5 DEF Stage, Pcs, Writing, Keeping
<1>8. Len(s.todo) < Len(r.todo) \/ s.todo = r.todo
  <2>1. PICK t : t = r.todo
    OBVIOUS
  <2>2. t \in Seq(NodeSet)
    BY <2>1 DEF LoopType
  <2>3. t = << >> \/ 0 < Len(t)
    BY <2>2
  <2>4. QED
    BY <1>3, <1>5, <2>1, <2>3
<1>9. Less(Work(s), Work(r))
  BY <1>1, <1>3, <1>4, <1>5, <1>6, <1>7, <1>8, WorkFalls
<1>10. QED
  BY <1>4, <1>5, <1>9

(* The loop that an answer or a time-out moves on waits for an attempt.    *)
LEMMA GiveUpWears ==
  ASSUME LoopsOK, AgentsOK, NEW l \in LoopIds, GaveUp(l)
  PROVE  Less(Work(loop'[l]), Work(loop[l]))
<1>1. /\ Shift(l) /\ loop[l].pc = "trying" /\ loop'[l].pc \in {"backoff", "blame"}
      /\ loop'[l].try = loop[l].try
  BY GiveUpMoves DEF GaveUp
<1>2. CASE loop'[l].pc = "blame"
  <2>1. l \in Running /\ loop'[l].pc \notin Timed
    BY <1>1, <1>2 DEF Running, Timed
  <2>2. Stage[loop'[l].pc] < Stage[loop[l].pc]
    BY <1>1, <1>2 DEF Stage
  <2>3. QED
    BY <1>1, <2>1, <2>2, ShiftWears
<1>3. CASE loop'[l].pc = "backoff"
  <2>1. /\ loop[l] \in LoopType /\ loop'[l] \in LoopType /\ loop'[l].todo = loop[l].todo
        /\ loop'[l].try < MaxRetries[NodeOf(l)]
    BY <1>1, <1>3 DEF LoopsOK, Shift, Only, Same
  <2>2. PICK r \in LoopType : r = loop[l]
    BY <2>1
  <2>3. PICK s \in LoopType : s = loop'[l]
    BY <2>1
  <2>4. PICK most : most = MaxRetries[NodeOf(l)]
    OBVIOUS
  <2>5. r.try \in Nat /\ most \in Nat
    <3>1. NodeOf(l) \in NodeSet
      BY <1>1, HeadFacts DEF Busy
    <3>2. r.try \in Nat
      BY NumberOfTries DEF LoopType
    <3>3. QED
      BY <2>4, <3>1, <3>2, NumberOfTries
  <2>6. /\ s.try = r.try /\ s.try < most /\ s.todo = r.todo /\ r.pc = "trying"
        /\ s.pc = "backoff" /\ MaxRetries[Head(r.todo)] = most
    BY <1>1, <1>3, <2>1, <2>2, <2>3, <2>4 DEF NodeOf
  <2>7. RetriesLeft(r) = 2 * (most - r.try) /\ RetriesLeft(s) = 2 * (most - r.try) - 1
    BY <2>6 DEF RetriesLeft
  <2>8. RetriesLeft(s) \in Nat /\ RetriesLeft(s) < RetriesLeft(r)
    BY <2>5, <2>6, <2>7
  <2>9. Stage[s.pc] = Stage[r.pc]
    BY <2>6 DEF Stage
  <2>10. Less(Work(s), Work(r))
    BY <2>6, <2>8, <2>9, WorkFalls
  <2>11. QED
    BY <2>2, <2>3, <2>10
<1>4. QED
  BY <1>1, <1>2, <1>3

LEMMA RetryWears ==
  ASSUME LoopsOK, NEW l \in LoopIds, Retry(l)
  PROVE  Less(Work(loop'[l]), Work(loop[l]))
<1>1. /\ Shift(l) /\ loop[l].pc = "backoff" /\ loop'[l].pc = "trying"
      /\ loop'[l].try = loop[l].try + 1 /\ loop[l].try < MaxRetries[NodeOf(l)]
  BY RetryMoves
<1>2. loop[l] \in LoopType /\ loop'[l] \in LoopType /\ loop'[l].todo = loop[l].todo
  BY <1>1 DEF LoopsOK, Shift, Only, Same
<1>3. PICK r \in LoopType : r = loop[l]
  BY <1>2
<1>4. PICK s \in LoopType : s = loop'[l]
  BY <1>2
<1>5. PICK most : most = MaxRetries[NodeOf(l)]
  OBVIOUS
<1>6. r.try \in Nat /\ most \in Nat
  <2>1. NodeOf(l) \in NodeSet
    BY <1>1, HeadFacts DEF Busy
  <2>2. r.try \in Nat
    BY NumberOfTries DEF LoopType
  <2>3. QED
    BY <1>5, <2>1, <2>2, NumberOfTries
<1>7. /\ s.try = r.try + 1 /\ r.try < most /\ s.todo = r.todo /\ r.pc = "backoff"
      /\ s.pc = "trying" /\ MaxRetries[Head(r.todo)] = most
  BY <1>1, <1>2, <1>3, <1>4, <1>5 DEF NodeOf
<1>8. RetriesLeft(r) = 2 * (most - r.try) - 1 /\ RetriesLeft(s) = 2 * (most - s.try)
  BY <1>7 DEF RetriesLeft
<1>9. RetriesLeft(s) \in Nat /\ RetriesLeft(s) < RetriesLeft(r)
  BY <1>6, <1>7, <1>8
<1>10. Stage[s.pc] = Stage[r.pc]
  BY <1>7 DEF Stage
<1>11. Less(Work(s), Work(r))
  BY <1>7, <1>9, <1>10, WorkFalls
<1>12. QED
  BY <1>3, <1>4, <1>11

LEMMA TakeWears ==
  ASSUME LoopsOK, NEW l \in LoopIds, Take(l)
  PROVE  Less(Work(loop'[l]), Work(loop[l]))
<1>1. /\ loop[l] \in LoopType /\ loop'[l] \in LoopType /\ loop'[l].todo = loop[l].todo
      /\ loop[l].pc = "trying" /\ loop'[l].pc = "note"
  BY DEF LoopsOK, Take, Only
<1>2. PICK r \in LoopType : r = loop[l]
  BY <1>1
<1>3. PICK s \in LoopType : s = loop'[l]
  BY <1>1
<1>4. r.pc = "trying" /\ s.pc = "note" /\ s.todo = r.todo
  BY <1>1, <1>2, <1>3
<1>5. RetriesLeft(s) = 0
  BY <1>4, StageFacts DEF Timed
<1>6. Stage[s.pc] < Stage[r.pc]
  BY <1>4 DEF Stage
<1>7. Less(Work(s), Work(r))
  BY <1>4, <1>5, <1>6, WorkFalls
<1>8. QED
  BY <1>2, <1>3, <1>7

LEMMA LoadWears ==
  ASSUME LoopsOK, status \in Statuses \cup {None}, NEW l \in LoopIds, Load(l),
         loop'[l] # loop[l]
  PROVE  Less(Work(loop'[l]), Work(loop[l]))
<1>1. /\ Shift(l) /\ loop'[l].pc = loop[l].pc /\ loop[l].pc \in Keeping
      /\ loop'[l].copy = status /\ loop[l].copy = None
  BY LoadMoves DEF Load
<1>2. loop[l] \in LoopType /\ loop'[l] \in LoopType /\ loop'[l].todo = loop[l].todo
  BY <1>1 DEF LoopsOK, Shift, Only, Same
<1>3. status # None
  <2>1. loop' = [loop EXCEPT ![l].copy = status] /\ loop \in [LoopIds -> LoopType]
    BY DEF Load, LoopsOK
  <2>2. loop'[l] = [loop[l] EXCEPT !.copy = status]
    BY <2>1
  <2>3. [loop[l] EXCEPT !.copy = loop[l].copy] = loop[l]
    BY <1>2 DEF LoopType
  <2>4. QED
    BY <1>1, <2>2, <2>3
<1>4. PICK r \in LoopType : r = loop[l]
  BY <1>2
<1>5. PICK s \in LoopType : s = loop'[l]
  BY <1>2
<1>6. /\ s.todo = r.todo /\ s.pc = r.pc /\ r.pc \notin Timed /\ r.pc # "new"
      /\ r.copy = None /\ s.copy # None
  BY <1>1, <1>2, <1>3, <1>4, <1>5 DEF Timed, Keeping
<1>7. RetriesLeft(s) = 0
  BY <1>6, StageFacts
<1>8. Less(Work(s), Work(r))
  BY <1>6, <1>7, WorkFalls
<1>9. QED
  BY <1>4, <1>5, <1>8

LEMMA SaveWears ==
  ASSUME LoopsOK, status \in Statuses \cup {None}, NEW l \in LoopIds, Save(l)
  PROVE  Less(Work(loop'[l]), Work(loop[l]))
<1>1. Shift(l) /\ loop'[l].pc \in AfterSave(l) /\ loop[l].pc \in Writing
  BY SaveMoves DEF Save
<1>2. l \in Running
  BY <1>1 DEF Running, Writing, Keeping
<1>3. Stage[loop'[l].pc] < Stage[loop[l].pc]
  BY <1>1 DEF AfterSave, After, Stage, Writing, Keeping
<1>4. CASE loop'[l].pc \notin Timed
  BY <1>1, <1>2, <1>3, <1>4, ShiftWears
<1>5. CASE loop'[l].pc \in Timed
  <2>1. /\ loop[l] \in LoopType /\ loop'[l] \in LoopType /\ loop'[l].todo = loop[l].todo
        /\ loop'[l].try = 0 /\ loop[l].pc # "new"
    BY <1>1, <1>2, SaveMoves DEF LoopsOK, Shift, Only, Same, Running
  <2>2. loop[l].pc = "mark" /\ loop'[l].pc = "trying"
    BY <1>1, <1>5 DEF AfterSave, After, Timed, Writing, Keeping
  <2>3. MaxRetries[NodeOf(l)] \in Nat
    BY <2>2, HeadFacts, NumberOfTries DEF Busy
  <2>4. PICK r \in LoopType : r = loop[l]
    BY <2>1
  <2>5. PICK s \in LoopType : s = loop'[l]
    BY <2>1
  <2>6. PICK most : most = MaxRetries[NodeOf(l)]
    OBVIOUS
  <2>7. /\ s.todo = r.todo /\ r.pc = "mark" /\ s.pc = "trying" /\ s.try = 0
        /\ MaxRetries[Head(s.todo)] = most
    BY <2>1, <2>2, <2>4, <2>5, <2>6 DEF NodeOf
  <2>8. RetriesLeft(s) = 2 * (most - 0)
    BY <2>7 DEF RetriesLeft
  <2>9. RetriesLeft(s) \in Nat
    BY <2>3, <2>6, <2>8
  <2>10. Stage[s.pc] < Stage[r.pc]
    BY <2>7 DEF Stage
  <2>11. Less(Work(s), Work(r))
    BY <2>7, <2>9, <2>10, WorkFalls
  <2>12. QED
    BY <2>4, <2>5, <2>11
<1>6. QED
  BY <1>4, <1>5

LEMMA CheckWears ==
  ASSUME LoopsOK, NEW l \in LoopIds, Check(l)
  PROVE  Less(Work(loop'[l]), Work(loop[l]))
<1>1. /\ loop[l].pc = "check"
      /\ \/ Shift(l) /\ loop'[l].pc \in {"completed", "stopped", "mark"}
         \/ Drop(l)
  BY CheckMoves
<1>2. CASE Drop(l)
  BY <1>2, DropWears
<1>3. CASE Shift(l) /\ loop'[l].pc \in {"completed", "stopped", "mark"}
  <2>1. l \in Running /\ loop'[l].pc \notin Timed
    BY <1>1, <1>3 DEF Running, Timed
  <2>2. Stage[loop'[l].pc] < Stage[loop[l].pc]
    BY <1>1, <1>3 DEF Stage
  <2>3. QED
    BY <1>3, <2>1, <2>2, ShiftWears
<1>4. QED
  BY <1>1, <1>2, <1>3

LEMMA StepWears ==
  ASSUME IInv, [Next]_vars, NEW l \in Running, loop'[l] # loop[l]
  PROVE  Less(Work(loop'[l]), Work(loop[l]))
<1>0. /\ Typed /\ Cleared /\ LoopsOK /\ RecordOK /\ AgentsOK /\ edges \in Flows
      /\ status \in Statuses \cup {None} /\ l \in LoopIds /\ loop[l].pc # "new"
  BY DEF IInv, Typed, RecordOK, Running
<1>1. ASSUME NEW m \in LoopIds, Step(m) PROVE m = l /\ ~ResumeFlow(l)
  <2>1. Only(m)
    <3>1. CASE ResumeFlow(m)
      BY <1>0, <3>1, ResumeMoves DEF Begin
    <3>2. CASE ~ResumeFlow(m)
      BY <1>0, <1>1, <3>2, StepFacts
    <3>3. QED
      BY <3>1, <3>2
  <2>2. QED
    BY <1>0, <2>1 DEF Only, ResumeFlow
<1>2. ASSUME Step(l), ~ResumeFlow(l) PROVE Less(Work(loop'[l]), Work(loop[l]))
  <2>1. CASE Load(l)
    BY <1>0, <2>1, LoadWears
  <2>2. CASE Save(l)
    BY <1>0, <2>2, SaveWears
  <2>3. CASE Check(l)
    BY <1>0, <2>3, CheckWears
  <2>4. CASE Retry(l)
    BY <1>0, <2>4, RetryWears
  <2>5. CASE Checkpoint(l)
    BY <1>0, <2>5, CheckpointMoves, DropWears
  <2>6. CASE Took(l)
    BY <1>0, <2>6, TakeMoves, TakeWears DEF Took
  <2>7. CASE GaveUp(l)
    BY <1>0, <2>7, GiveUpWears
  <2>8. QED
    BY <1>2, <2>1, <2>2, <2>3, <2>4, <2>5, <2>6, <2>7 DEF Step
<1>3. CASE Crash
  BY <1>0, <1>3, FallWears
<1>4. ~ExecuteFlow
  BY <1>0, ExecuteMoves DEF Begin, Only
<1>5. ~Still /\ ~Stop /\ ~StopSaves /\ ~EditFlow
  <2>1. loop' # loop
    OBVIOUS
  <2>2. QED
    BY <2>1 DEF Still, Stop, StopSaves, EditFlow
<1>6. QED
  BY <1>0, <1>1, <1>2, <1>3, <1>4, <1>5, Cases

(* Whatever moves a running loop leaves it less work, by an order that has *)
(* no infinite descent: neither late answers nor retries keep a run going  *)
(* for ever (the loops of executeFlow and resumeFlow, runWithRetry).       *)
THEOREM NoLoopGoesRound == Spec => LoopsWearDown
<1> DEFINE A == \A l \in Running :
                  loop'[l] # loop[l] => Less(Work(loop'[l]), Work(loop[l]))
<1>1. IInv /\ [Next]_vars => [A]_vars
  BY StepWears
<1>2. QED
  BY <1>1, InvariantHolds, PTL DEF Spec, LoopsWearDown
=============================================================================
