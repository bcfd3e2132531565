---------------------------- MODULE ConsensusProofs ----------------------------
(***************************************************************************)
(* What the consensus guarantees for any number of voters, any labels and   *)
(* numbers, and any deck: its results are those of the votes sorted, of     *)
(* which there is one list however they are ranged over; and what is found  *)
(* of that list, and of the deck, is what average, median and nearest mean. *)
(***************************************************************************)
EXTENDS Consensus, ListLemmas

-----------------------------------------------------------------------------
(* Sorting *)

\* The places that come before a place, and the place: what is less is first, and
\* of what is equal the first.
Before(s, i) == {j \in DOMAIN s : s[j] < s[i] \/ (s[j] = s[i] /\ j <= i)}

LEMMA RankOrder ==
  ASSUME NEW s \in Seq(Int), NEW i \in DOMAIN s, NEW k \in DOMAIN s,
         s[i] < s[k] \/ (s[i] = s[k] /\ i < k)
  PROVE  Cardinality(Before(s, i)) < Cardinality(Before(s, k))
<1>1. DOMAIN s = 1..Len(s) /\ Len(s) \in Nat /\ \A j \in DOMAIN s : s[j] \in Int
  OBVIOUS
<1>2. IsFiniteSet(Before(s, k))
  <2>1. IsFiniteSet(DOMAIN s) /\ Before(s, k) \in SUBSET DOMAIN s
    BY <1>1, FS_Interval DEF Before
  <2>2. QED
    BY <2>1, FS_Subset
<1>3. Before(s, i) \in SUBSET Before(s, k)
  BY <1>1 DEF Before
<1>4. k \in Before(s, k) /\ k \notin Before(s, i)
  BY <1>1 DEF Before
<1>5. /\ Cardinality(Before(s, i)) <= Cardinality(Before(s, k))
      /\ Cardinality(Before(s, i)) # Cardinality(Before(s, k))
  BY <1>2, <1>3, <1>4, FS_Subset
<1>6. Cardinality(Before(s, i)) \in Nat /\ Cardinality(Before(s, k)) \in Nat
  BY <1>2, <1>3, FS_Subset, FS_CardinalityType
<1>7. QED
  BY <1>5, <1>6

\* Every list can be sorted: each element goes where as many are before it.
LEMMA CanBeSorted ==
  ASSUME NEW s \in Seq(Int)
  PROVE  \E t \in Rearranged(s) : IsAscending(t)
<1> DEFINE D == DOMAIN s
           rank == [i \in D |-> Cardinality(Before(s, i))]
           p == Inverse(rank, D, D)
           t == [k \in D |-> s[p[k]]]
<1>1. /\ D = 1..Len(s) /\ Len(s) \in Nat /\ \A j \in D : s[j] \in Int
      /\ IsFiniteSet(D) /\ Cardinality(D) = Len(s)
  <2>1. D = 1..Len(s) /\ Len(s) \in Nat /\ \A j \in D : s[j] \in Int
    OBVIOUS
  <2>2. IsFiniteSet(1..Len(s)) /\ Cardinality(1..Len(s)) = Len(s)
    BY <2>1, FS_Interval
  <2>3. QED
    BY <2>1, <2>2
<1>2. ASSUME NEW i \in D PROVE rank[i] \in D
  <2>1. Before(s, i) \in SUBSET D /\ i \in Before(s, i)
    BY <1>1 DEF Before
  <2>2. IsFiniteSet(Before(s, i)) /\ Cardinality(Before(s, i)) <= Cardinality(D)
    BY <1>1, <2>1, FS_Subset
  <2>3. Cardinality(Before(s, i)) \in Nat /\ Cardinality(Before(s, i)) # 0
    BY <2>1, <2>2, FS_CardinalityType, FS_EmptySet
  <2>4. QED
    BY <1>1, <2>2, <2>3
<1>3. ASSUME NEW i \in D, NEW k \in D, i # k PROVE rank[i] # rank[k]
  <2>1. \/ s[i] < s[k] \/ (s[i] = s[k] /\ i < k)
        \/ s[k] < s[i] \/ (s[k] = s[i] /\ k < i)
    BY <1>1, <1>3
  <2>2. rank[i] < rank[k] \/ rank[k] < rank[i]
    BY <2>1, RankOrder
  <2>3. rank[i] \in Int /\ rank[k] \in Int
    BY <1>1, <1>2
  <2> HIDE DEF rank
  <2>4. QED
    BY <2>2, <2>3
<1>4. rank \in Bijection(D, D)
  <2>1. rank \in [D -> D]
    BY <1>2
  <2> HIDE DEF rank, D
  <2>2. rank \in Injection(D, D)
    BY <1>3, <2>1, Fun_IsInj
  <2>3. rank \in Surjection(D, D)
    BY <1>1, <2>2, FS_Injection
  <2>4. QED
    BY <2>2, <2>3 DEF Bijection
<1>5. p \in Bijection(D, D) /\ p \in [D -> D] /\ \A k \in D : rank[p[k]] = k
  <2> HIDE DEF rank, D
  <2>1. p \in Bijection(D, D)
    BY <1>4, Fun_BijInverse
  <2>2. Range(rank) = D
    BY <1>4, Fun_BijectionProperties, Fun_SurjectionProperties
  <2>3. rank \in [D -> D] /\ p \in [D -> D]
    BY <1>4, <2>1, Fun_BijectionProperties
  <2>4. QED
    BY <2>1, <2>2, <2>3, Fun_InverseProperties
<1>6. t \in Rearranged(s)
  BY <1>5 DEF Rearranged
<1>7. ASSUME NEW i \in D, NEW k \in D, i < k PROVE t[i] <= t[k]
  <2>1. p[i] \in D /\ p[k] \in D
    BY <1>5
  <2>2. rank[p[i]] = i /\ rank[p[k]] = k
    BY <1>5
  <2>3. ~(rank[p[k]] < rank[p[i]])
    BY <1>1, <1>7, <2>2
  <2> HIDE DEF p
  <2>4. ~(s[p[k]] < s[p[i]])
    BY <2>1, <2>3, RankOrder
  <2>5. QED
    BY <1>1, <2>1, <2>4
<1>8. IsAscending(t)
  <2> HIDE DEF p
  <2>1. DOMAIN t = D
    OBVIOUS
  <2> HIDE DEF t
  <2>2. QED
    BY <1>7, <2>1 DEF IsAscending
<1>9. QED
  BY <1>6, <1>8

LEMMA AscendingType ==
  ASSUME NEW s \in Seq(Int)
  PROVE  /\ Ascending(s) \in Seq(Int) /\ Len(Ascending(s)) = Len(s) /\ IsAscending(Ascending(s))
         /\ \E p \in Bijection(DOMAIN s, DOMAIN s) :
              \A k \in DOMAIN s : Ascending(s)[k] = s[p[k]]
<1> DEFINE t == Ascending(s)
<1>1. t \in Rearranged(s) /\ IsAscending(t)
  BY CanBeSorted DEF Ascending
<1>2. PICK p \in Bijection(DOMAIN s, DOMAIN s) : t = [k \in DOMAIN s |-> s[p[k]]]
  BY <1>1 DEF Rearranged
<1> HIDE DEF t
<1>3. p \in [DOMAIN s -> DOMAIN s]
  BY Fun_BijectionProperties
<1>4. t \in [1..Len(s) -> Int] /\ Len(s) \in Nat /\ DOMAIN s = 1..Len(s)
  BY <1>2, <1>3
<1>5. t \in Seq(Int) /\ Len(t) = Len(s)
  BY <1>4, IsASeq, LenProperties
<1>6. QED
  BY <1>1, <1>2, <1>5 DEF t

-----------------------------------------------------------------------------
(* The numbers of a set of voters, sorted *)

\* t lists f over S in ascending order.
Arranged(t, f, S) ==
  /\ t \in Seq(Int) /\ IsAscending(t)
  /\ \E b \in Bijection(1..Len(t), S) : \A k \in 1..Len(t) : t[k] = f[b[k]]

LEMMA ArrangedSize ==
  ASSUME NEW S, NEW f, NEW t, Arranged(t, f, S)
  PROVE  Len(t) \in Nat /\ IsFiniteSet(S) /\ Cardinality(S) = Len(t)
<1>1. Len(t) \in Nat
  BY DEF Arranged
<1>2. IsFiniteSet(1..Len(t)) /\ Cardinality(1..Len(t)) = Len(t)
  BY <1>1, FS_Interval
<1>3. ExistsBijection(1..Len(t), S)
  BY DEF Arranged, ExistsBijection
<1>4. QED
  BY <1>1, <1>2, <1>3, FS_Bijection

\* The k smallest of what is nowhere larger are nowhere larger: else the voters with the
\* k smallest of u would be among fewer than k voters of t.
LEMMA SortedBelow ==
  ASSUME NEW S, NEW f, NEW g, \A x \in S : f[x] \in Int /\ g[x] \in Int /\ f[x] <= g[x],
         NEW t, Arranged(t, f, S), NEW u, Arranged(u, g, S)
  PROVE  Len(t) = Len(u) /\ \A k \in 1..Len(t) : t[k] <= u[k]
<1> DEFINE n == Len(t)
           I == 1..n
<1>1. n \in Nat /\ Len(u) = n
  BY ArrangedSize
<1>2. /\ IsAscending(t) /\ DOMAIN t = I /\ \A k \in I : t[k] \in Int
      /\ IsAscending(u) /\ DOMAIN u = I /\ \A k \in I : u[k] \in Int
  BY <1>1 DEF Arranged
<1>3. PICK b \in Bijection(I, S) : \A k \in I : t[k] = f[b[k]]
  BY DEF Arranged
<1>4. PICK c \in Bijection(I, S) : \A k \in I : u[k] = g[c[k]]
  BY <1>1 DEF Arranged
<1> DEFINE back == Inverse(b, I, S)
<1>5. /\ back \in [S -> I] /\ \A x, y \in S : back[x] = back[y] => x = y
      /\ \A x \in S : b[back[x]] = x
  <2> HIDE DEF I
  <2>1. back \in Bijection(S, I)
    BY Fun_BijInverse
  <2>2. b \in [I -> S] /\ Range(b) = S
    BY Fun_BijectionProperties, Fun_SurjectionProperties
  <2>3. \A x \in S : b[back[x]] = x
    BY <2>2, Fun_InverseProperties
  <2> HIDE DEF back
  <2>4. QED
    BY <2>1, <2>3, Fun_BijectionProperties
<1>6. c \in [I -> S] /\ \A i, k \in I : c[i] = c[k] => i = k
  <2> HIDE DEF I
  <2>1. QED
    BY Fun_BijectionProperties
<1>7. ASSUME NEW k \in I, ~(t[k] <= u[k]) PROVE FALSE
  <2> DEFINE q == [i \in 1..k |-> back[c[i]]]
  <2> HIDE DEF back
  <2>1. k \in Nat /\ k - 1 \in Nat /\ k \in I /\ 1..k \subseteq I
    BY <1>1
  <2>2. ASSUME NEW i \in 1..k PROVE q[i] \in 1..(k - 1)
    <3> DEFINE j == back[c[i]]
    <3>1. i \in I /\ c[i] \in S /\ j \in I /\ b[j] = c[i]
      BY <1>5, <1>6, <2>1
    <3> HIDE DEF j
    <3>2. u[i] <= u[k]
      <4>1. CASE i = k
        BY <1>2, <3>1, <4>1
      <4>2. CASE i < k
        BY <1>2, <3>1, <4>2 DEF IsAscending
      <4>3. QED
        BY <4>1, <4>2, <2>1
    <3>3. t[j] = f[c[i]] /\ u[i] = g[c[i]]
      BY <1>3, <1>4, <3>1
    <3>4. t[j] < t[k]
      BY <1>2, <1>7, <3>1, <3>2, <3>3
    <3>5. ~(k < j)
      BY <1>2, <3>1, <3>4 DEF IsAscending
    <3>6. j # k
      BY <1>2, <3>4
    <3>7. j \in 1..(k - 1)
      BY <1>1, <3>1, <3>5, <3>6
    <3>8. QED
      BY <3>7 DEF j
  <2>3. q \in [1..k -> 1..(k - 1)]
    BY <2>2
  <2>4. \A i, j \in 1..k : q[i] = q[j] => i = j
    BY <1>5, <1>6, <2>1
  <2>5. q \in Injection(1..k, 1..(k - 1))
    <3> HIDE DEF q
    <3>1. QED
      BY <2>3, <2>4, Fun_IsInj
  <2> HIDE DEF q
  <2>6. /\ IsFiniteSet(1..(k - 1)) /\ Cardinality(1..(k - 1)) = k - 1
        /\ Cardinality(1..k) = k
    BY <2>1, FS_Interval
  <2>7. Cardinality(1..k) <= Cardinality(1..(k - 1))
    BY <2>5, <2>6, FS_Injection
  <2>8. QED
    BY <2>1, <2>6, <2>7
<1>8. QED
  BY <1>1, <1>7

\* There is one list.
LEMMA ArrangedOnce ==
  ASSUME NEW S, NEW f, \A x \in S : f[x] \in Int,
         NEW t, Arranged(t, f, S), NEW u, Arranged(u, f, S)
  PROVE  t = u
<1>1. \A x \in S : f[x] <= f[x]
  OBVIOUS
<1>2. Len(t) = Len(u) /\ \A k \in 1..Len(t) : t[k] <= u[k]
  BY <1>1, SortedBelow
<1>3. \A k \in 1..Len(t) : u[k] <= t[k]
  BY <1>1, <1>2, SortedBelow
<1>4. t \in Seq(Int) /\ u \in Seq(Int)
  BY DEF Arranged
<1>5. \A k \in 1..Len(t) : t[k] = u[k]
  BY <1>2, <1>3, <1>4
<1>6. QED
  BY <1>2, <1>4, <1>5, SeqEqual

\* In whichever order the voters come, their numbers sorted are that list.
LEMMA OrderSorted ==
  ASSUME NEW S, IsFiniteSet(S), NEW f, \A x \in S : f[x] \in Int, NEW order \in SetToSeqs(S),
         NEW nums, nums = [i \in DOMAIN order |-> f[order[i]]]
  PROVE  nums \in Seq(Int) /\ Arranged(Ascending(nums), f, S)
<1> DEFINE n == Cardinality(S)
           I == 1..n
<1>1. n \in Nat
  BY FS_CardinalityType
<1>2. order \in [I -> S] /\ \A i, j \in I : i # j => order[i] # order[j]
  BY DEF SetToSeqs
<1>3. order \in Bijection(I, S)
  <2>1. IsFiniteSet(I) /\ Cardinality(I) = n
    BY <1>1, FS_Interval
  <2> HIDE DEF I
  <2>2. order \in Injection(I, S)
    BY <1>2, Fun_IsInj
  <2>3. order \in Surjection(I, S)
    BY <2>1, <2>2, FS_Injection DEF n
  <2>4. QED
    BY <2>2, <2>3 DEF Bijection
<1>4. nums \in [I -> Int] /\ \A i \in I : nums[i] = f[order[i]]
  BY <1>2
<1>5. nums \in Seq(Int) /\ Len(nums) = n /\ DOMAIN nums = I
  BY <1>1, <1>4, IsASeq, LenProperties
<1> DEFINE t == Ascending(nums)
<1>6. /\ t \in Seq(Int) /\ Len(t) = n /\ IsAscending(t)
      /\ \E p \in Bijection(I, I) : \A k \in I : t[k] = nums[p[k]]
  <2> HIDE DEF I, n
  <2>1. QED
    BY <1>5, AscendingType
<1>7. PICK p \in Bijection(I, I) : \A k \in I : t[k] = nums[p[k]]
  BY <1>6
<1> DEFINE b == [k \in I |-> order[p[k]]]
<1>8. b \in Bijection(I, S)
  <2> HIDE DEF I
  <2>1. QED
    BY <1>3, <1>7, Fun_BijTransitive
<1>9. \A k \in I : t[k] = f[b[k]]
  <2>1. p \in [I -> I]
    <3> HIDE DEF I
    <3>1. QED
      BY <1>7, Fun_BijectionProperties
  <2> HIDE DEF t
  <2>2. QED
    BY <1>4, <1>7, <2>1
<1>10. QED
  <2> HIDE DEF t, b
  <2>1. Arranged(t, f, S)
    BY <1>6, <1>8, <1>9 DEF Arranged
  <2>2. QED
    BY <1>5, <2>1 DEF t

-----------------------------------------------------------------------------
(* The nearest card *)

Reading == [Labels -> Int \cup {Nil}]
Numeric(d, number) == {i \in DOMAIN d : number[d[i]] # Nil}
Far(d, target, number, i) == Abs(target - Scale * number[d[i]])

\* The card at place i of d is the first of the closest of the numeric cards of the
\* first k places.
ClosestAt(i, d, k, target, number) ==
  /\ i \in Numeric(d, number) \cap 1..k
  /\ \A j \in Numeric(d, number) \cap 1..k :
       /\ Far(d, target, number, i) <= Far(d, target, number, j)
       /\ j < i => Far(d, target, number, i) < Far(d, target, number, j)

FirstClosest(card, d, target, number) ==
  IF Numeric(d, number) = {}
  THEN card = Nil
  ELSE \E i \in DOMAIN d : card = d[i] /\ ClosestAt(i, d, Len(d), target, number)

LEMMA FarType ==
  ASSUME NEW d \in Seq(Labels), NEW target \in Int, NEW number \in Reading,
         NEW i \in Numeric(d, number)
  PROVE  Far(d, target, number, i) \in Nat /\ i \in 1..Len(d) /\ number[d[i]] \in Int
<1>1. i \in 1..Len(d) /\ d[i] \in Labels /\ number[d[i]] # Nil
  BY DEF Numeric
<1>2. number[d[i]] \in Int
  BY <1>1 DEF Reading
<1>3. Scale * number[d[i]] \in Int
  BY <1>2, ScaleAssumption
<1>4. QED
  BY <1>1, <1>2, <1>3 DEF Far, Abs

\* One turn of the loop over the deck.
Best == [card : Labels \cup {Nil}, diff : Nat]
LookTurn(target, number) ==
  [p \in Best \X Labels |->
     IF number[p[2]] # Nil /\ Closer(p[1], Abs(target - Scale * number[p[2]]))
     THEN [card |-> p[2], diff |-> Abs(target - Scale * number[p[2]])]
     ELSE p[1]]

\* The best card after each turn.
LEMMA NearestRuns ==
  ASSUME deck \in Seq(Labels), NEW target \in Int, NEW number \in Reading
  PROVE  \E h \in [0..Len(deck) -> Best] :
           /\ Turns(h, deck, [card |-> Nil, diff |-> 0], LookTurn(target, number))
           /\ h[Len(deck)].card = Nearest(target, number)
<1> DEFINE V == Best
           step == LookTurn(target, number)
           start == [card |-> Nil, diff |-> 0]
           dist(c) == Abs(target - Scale * number[c])
           Eqn(g) == g = [T \in SUBSET DOMAIN deck |->
                            IF T = {} THEN [card |-> Nil, diff |-> 0]
                            ELSE IF number[deck[Max(T)]] # Nil /\ Closer(g[T \ {Max(T)}], Abs(target - Scale * number[deck[Max(T)]]))
                                 THEN [card |-> deck[Max(T)], diff |-> Abs(target - Scale * number[deck[Max(T)]])]
                                 ELSE g[T \ {Max(T)}]]
           it == CHOOSE g : Eqn(g)
<1>1. start \in V /\ Steps(step, V, Labels, V)
  <2>1. ASSUME NEW v \in V, NEW c \in Labels PROVE step[<<v, c>>] \in V
    <3>1. step[<<v, c>>] = IF number[c] # Nil /\ Closer(v, dist(c)) THEN [card |-> c, diff |-> dist(c)] ELSE v
      BY DEF LookTurn
    <3>2. ASSUME number[c] # Nil PROVE dist(c) \in Nat
      <4>1. number[c] \in Int
        BY <3>2 DEF Reading
      <4>2. Scale * number[c] \in Int
        BY <4>1, ScaleAssumption
      <4>3. QED
        BY <4>2 DEF Abs
    <3> HIDE DEF step, dist
    <3>3. QED
      BY <3>1, <3>2 DEF Best
  <2>2. start \in V
    BY DEF Best
  <2> HIDE DEF step, V, start
  <2>3. QED
    BY <2>1, <2>2 DEF Steps
<1>2. ASSUME NEW f, NEW T \in SUBSET DOMAIN deck, T # {}, f[T \ {Max(T)}] \in V
      PROVE  step[<<f[T \ {Max(T)}], deck[Max(T)]>>]
               = IF number[deck[Max(T)]] # Nil /\ Closer(f[T \ {Max(T)}], Abs(target - Scale * number[deck[Max(T)]]))
                 THEN [card |-> deck[Max(T)], diff |-> Abs(target - Scale * number[deck[Max(T)]])]
                 ELSE f[T \ {Max(T)}]
  <2>1. deck[Max(T)] \in Labels
    BY <1>2, FoldArguments
  <2>2. QED
    BY <1>2, <2>1 DEF LookTurn
<1>3. \E g : Eqn(g)
  <2>1. PICK g \in [SUBSET DOMAIN deck -> V] : FoldEquation(g, deck, start, step)
    <3> HIDE DEF V, step, start
    <3>1. QED
      BY <1>1, FoldSolution
  <2>2. \A T \in SUBSET DOMAIN deck : g[T \ {Max(T)}] \in V
    BY <2>1
  <2>3. Eqn(g)
    <3> HIDE DEF step, V
    <3>1. QED
      BY <1>2, <2>1, <2>2 DEF FoldEquation
  <2>4. QED
    BY <2>3
<1>4. Eqn(it)
  <2> HIDE DEF Eqn
  <2>1. QED
    BY <1>3
<1>5. Follows(it, deck, V, start, step)
  <2>1. it[{}] = start
    BY <1>4
  <2>2. ASSUME NEW T \in SUBSET DOMAIN deck, T # {}, it[T \ {Max(T)}] \in V
        PROVE  it[T] = step[<<it[T \ {Max(T)}], deck[Max(T)]>>]
    <3>1. it[T] = IF number[deck[Max(T)]] # Nil /\ Closer(it[T \ {Max(T)}], Abs(target - Scale * number[deck[Max(T)]]))
                  THEN [card |-> deck[Max(T)], diff |-> Abs(target - Scale * number[deck[Max(T)]])]
                  ELSE it[T \ {Max(T)}]
      BY <1>4, <2>2
    <3> HIDE DEF it, step, V
    <3>2. QED
      BY <1>2, <2>2, <3>1
  <2> HIDE DEF it, step, V, start
  <2>3. QED
    BY <2>1, <2>2 DEF Follows
<1>6. Nearest(target, number) = it[DOMAIN deck].card
  BY DEF Nearest, FoldLeft, MapThenFoldSet
<1>7. \E h \in [0..Len(deck) -> V] :
        Turns(h, deck, start, step) /\ h[Len(deck)] = it[DOMAIN deck]
  <2> HIDE DEF V, step, start, it
  <2>1. QED
    BY <1>1, <1>5, FoldRuns
<1> HIDE DEF it
<1>8. QED
  BY <1>6, <1>7

\* After the last turn it is the first of the closest.
LEMMA NearestFound ==
  deck \in Seq(Labels) =>
    \A target \in Int : \A number \in Reading :
      FirstClosest(Nearest(target, number), deck, target, number)
<1> SUFFICES ASSUME deck \in Seq(Labels), NEW target \in Int, NEW number \in Reading
             PROVE  FirstClosest(Nearest(target, number), deck, target, number)
  OBVIOUS
<1> DEFINE n == Len(deck)
           numeric == Numeric(deck, number)
           far(i) == Far(deck, target, number, i)
           start == [card |-> Nil, diff |-> 0]
           Inv(r, k) ==
             IF numeric \cap 1..k = {}
             THEN r.card = Nil
             ELSE \E i \in numeric : /\ r.card = deck[i] /\ r.diff = far(i)
                                     /\ ClosestAt(i, deck, k, target, number)
<1>1. n \in Nat /\ DOMAIN deck = 1..n
  OBVIOUS
<1>2. PICK h \in [0..n -> Best] : /\ Turns(h, deck, start, LookTurn(target, number))
                                  /\ h[n].card = Nearest(target, number)
  BY NearestRuns
<1>3. \A i \in numeric : far(i) \in Nat /\ i \in 1..n /\ deck[i] \in Labels /\ deck[i] # Nil
  BY FarType, <1>1, NilAssumption
<1> DEFINE good == {k \in 0..n : Inv(h[k], k)}
<1>4. 0..n \subseteq good
  <2>1. 0 \in good
    <3>1. h[0] = start
      BY <1>2 DEF Turns
    <3>2. numeric \cap 1..0 = {} /\ start.card = Nil
      OBVIOUS
    <3> HIDE DEF numeric, start
    <3>3. QED
      BY <1>1, <3>1, <3>2
  <2>2. ASSUME NEW k \in 1..n, k - 1 \in good PROVE k \in good
    <3> DEFINE r == h[k - 1]
               c == deck[k]
               s == h[k]
    <3>1. k - 1 \in 0..n /\ k \in 0..n /\ c \in Labels /\ k \in Nat
      BY <1>1
    <3>2. r \in Best /\ Inv(r, k - 1)
      BY <1>2, <2>2, <3>1
    <3>3. s = LookTurn(target, number)[<<r, c>>]
      BY <1>2 DEF Turns
    <3>4. s = IF k \in numeric /\ Closer(r, far(k)) THEN [card |-> c, diff |-> far(k)] ELSE r
      <4> HIDE DEF r, s, c
      <4>1. s = IF number[c] # Nil /\ Closer(r, Abs(target - Scale * number[c]))
                THEN [card |-> c, diff |-> Abs(target - Scale * number[c])]
                ELSE r
        BY <3>1, <3>2, <3>3 DEF LookTurn
      <4>2. k \in numeric <=> number[c] # Nil
        BY <1>1 DEF c, Numeric
      <4>3. far(k) = Abs(target - Scale * number[c])
        BY DEF c, Far
      <4> HIDE DEF numeric, far
      <4>4. QED
        BY <4>1, <4>2, <4>3
    <3>5. numeric \cap 1..k = (numeric \cap 1..(k - 1)) \cup (numeric \cap {k})
      <4>1. 1..k = 1..(k - 1) \cup {k}
        BY <3>1
      <4> HIDE DEF numeric
      <4>2. QED
        BY <4>1
    <3>6. \A i \in 1..(k - 1) : i < k /\ i # k
      BY <3>1
    <3>7. k \in 1..k
      BY <3>1
    <3>8. Inv(s, k)
      <4> HIDE DEF r, s, numeric, far
      <4>1. CASE k \notin numeric
        <5>1. s = r /\ numeric \cap 1..k = numeric \cap 1..(k - 1)
          BY <3>4, <3>5, <4>1
        <5>2. \A i : ClosestAt(i, deck, k - 1, target, number) => ClosestAt(i, deck, k, target, number)
          BY <5>1 DEF ClosestAt, numeric
        <5> HIDE DEF start
        <5>3. QED
          BY <3>2, <5>1, <5>2
      <4>2. CASE k \in numeric /\ numeric \cap 1..(k - 1) = {}
        <5>1. s.card = c /\ s.diff = far(k)
          BY <3>2, <3>4, <4>2 DEF Closer
        <5>2. numeric \cap 1..k = {k}
          BY <3>5, <4>2
        <5>3. ClosestAt(k, deck, k, target, number)
          BY <1>3, <3>1, <4>2, <5>2 DEF ClosestAt, numeric, far
        <5>4. QED
          BY <4>2, <5>1, <5>2, <5>3
      <4>3. CASE k \in numeric /\ numeric \cap 1..(k - 1) # {}
        <5>1. PICK i \in numeric : /\ r.card = deck[i] /\ r.diff = far(i)
                                   /\ ClosestAt(i, deck, k - 1, target, number)
          BY <3>2, <4>3
        <5>2. far(i) \in Nat /\ far(k) \in Nat /\ deck[i] # Nil
          BY <1>3, <4>3
        <5>3. /\ i \in numeric \cap 1..(k - 1) /\ i < k
              /\ \A j \in numeric \cap 1..(k - 1) :
                   far(j) \in Nat /\ far(i) <= far(j) /\ (j < i => far(i) < far(j))
          BY <1>3, <3>6, <5>1 DEF ClosestAt, numeric, far
        <5>4. \A j \in numeric \cap 1..k : j \in numeric \cap 1..(k - 1) \/ j = k
          BY <3>5
        <5>5. CASE far(k) < far(i)
          <6>1. s.card = c /\ s.diff = far(k)
            BY <3>4, <4>3, <5>1, <5>5 DEF Closer
          <6>2. k \in numeric \cap 1..k
            BY <3>7, <4>3
          <6>3. \A j \in numeric \cap 1..k : far(k) <= far(j) /\ (j < k => far(k) < far(j))
            BY <3>1, <5>2, <5>3, <5>4, <5>5
          <6>4. ClosestAt(k, deck, k, target, number)
            BY <6>2, <6>3 DEF ClosestAt, numeric, far
          <6>5. QED
            BY <4>3, <6>1, <6>2, <6>4
        <5>6. CASE ~(far(k) < far(i))
          <6>1. s = r
            BY <3>4, <4>3, <5>1, <5>2, <5>6 DEF Closer
          <6>2. i \in numeric \cap 1..k
            BY <3>5, <5>3
          <6>3. \A j \in numeric \cap 1..k : far(i) <= far(j) /\ (j < i => far(i) < far(j))
            BY <1>3, <3>1, <5>2, <5>3, <5>4, <5>6
          <6>4. ClosestAt(i, deck, k, target, number)
            BY <6>2, <6>3 DEF ClosestAt, numeric, far
          <6>5. QED
            BY <5>1, <6>1, <6>2, <6>4
        <5>7. QED
          BY <5>5, <5>6
      <4>4. QED
        BY <4>1, <4>2, <4>3
    <3> HIDE DEF Inv
    <3>9. QED
      BY <3>1, <3>8
  <2> HIDE DEF good, n
  <2>3. QED
    BY <1>1, <2>1, <2>2, CountUp
<1>5. Inv(h[n], n)
  BY <1>1, <1>4
<1>6. numeric \cap 1..n = numeric /\ numeric \subseteq DOMAIN deck
  BY <1>1 DEF Numeric
<1>7. QED
  <2> HIDE DEF numeric
  <2>1. QED
    BY <1>2, <1>5, <1>6 DEF FirstClosest, numeric

\* There is only one.
LEMMA ClosestOnce ==
  ASSUME NEW d \in Seq(Labels), NEW target \in Int, NEW number \in Reading,
         NEW card, FirstClosest(card, d, target, number),
         NEW other, FirstClosest(other, d, target, number)
  PROVE  card = other
<1>1. CASE Numeric(d, number) = {}
  BY <1>1 DEF FirstClosest
<1>2. CASE Numeric(d, number) # {}
  <2>1. PICK i \in DOMAIN d : card = d[i] /\ ClosestAt(i, d, Len(d), target, number)
    BY <1>2 DEF FirstClosest
  <2>2. PICK j \in DOMAIN d : other = d[j] /\ ClosestAt(j, d, Len(d), target, number)
    BY <1>2 DEF FirstClosest
  <2>3. /\ i \in Numeric(d, number) \cap 1..Len(d)
        /\ j \in Numeric(d, number) \cap 1..Len(d)
    BY <2>1, <2>2 DEF ClosestAt
  <2>4. /\ Far(d, target, number, i) \in Nat /\ Far(d, target, number, j) \in Nat
        /\ i \in Int /\ j \in Int
    BY <2>3, FarType
  <2>5. /\ Far(d, target, number, i) <= Far(d, target, number, j)
        /\ Far(d, target, number, j) <= Far(d, target, number, i)
    BY <2>1, <2>2, <2>3 DEF ClosestAt
  <2>6. ~(j < i) /\ ~(i < j)
    BY <2>1, <2>2, <2>3, <2>4, <2>5 DEF ClosestAt
  <2>7. QED
    BY <2>1, <2>2, <2>4, <2>6
<1>3. QED
  BY <1>1, <1>2

\* It grows with what it is closest to.
LEMMA ClosestMonotone ==
  ASSUME NEW d \in Seq(Labels), NEW number \in Reading, Numeric(d, number) # {},
         NEW low \in Int, NEW high \in Int, low <= high,
         NEW card, FirstClosest(card, d, low, number),
         NEW other, FirstClosest(other, d, high, number)
  PROVE  /\ card \in Labels /\ number[card] \in Int
         /\ other \in Labels /\ number[other] \in Int
         /\ number[card] <= number[other]
<1>1. PICK i \in DOMAIN d : card = d[i] /\ ClosestAt(i, d, Len(d), low, number)
  BY DEF FirstClosest
<1>2. PICK j \in DOMAIN d : other = d[j] /\ ClosestAt(j, d, Len(d), high, number)
  BY DEF FirstClosest
<1>3. i \in Numeric(d, number) /\ j \in Numeric(d, number) /\ i \in 1..Len(d) /\ j \in 1..Len(d)
  BY <1>1, <1>2 DEF ClosestAt
<1> DEFINE a == Scale * number[card]
           b == Scale * number[other]
<1>4. number[card] \in Int /\ number[other] \in Int /\ card \in Labels /\ other \in Labels
  <2>1. number[d[i]] \in Int /\ number[d[j]] \in Int
    BY <1>3, FarType
  <2>2. d[i] \in Labels /\ d[j] \in Labels
    BY <1>3
  <2>3. QED
    BY <1>1, <1>2, <2>1, <2>2
<1>5. a \in Int /\ b \in Int
  BY <1>4, ScaleAssumption
<1>6. /\ Abs(low - a) <= Abs(low - b) /\ (j < i => Abs(low - a) < Abs(low - b))
      /\ Abs(high - b) <= Abs(high - a) /\ (i < j => Abs(high - b) < Abs(high - a))
  BY <1>1, <1>2, <1>3 DEF ClosestAt, Far
<1>7. i \in Int /\ j \in Int
  BY <1>3
<1>8. ASSUME number[other] < number[card] PROVE FALSE
  <2>1. i # j
    BY <1>1, <1>2, <1>4, <1>8
  <2>2. b < a
    BY <1>4, <1>8, ScaleAssumption
  <2> HIDE DEF a, b
  <2>3. (i < j \/ j < i) /\ Abs(low - a) >= 0
    BY <1>5, <1>7, <2>1 DEF Abs
  <2>4. QED
    BY <1>5, <1>6, <2>2, <2>3 DEF Abs
<1>9. QED
  BY <1>4, <1>8

-----------------------------------------------------------------------------
(* The average and the median of a sorted list *)

\* Half the scale, and the middle of a list.
LEMMA Halves ==
  /\ Scale \in Nat \ {0} /\ Scale \div 2 \in Nat \ {0}
  /\ Scale = (Scale \div 2) + (Scale \div 2)
BY ScaleAssumption

LEMMA Middle ==
  ASSUME NEW t \in Seq(Int), t # <<>>
  PROVE  /\ Len(t) \in Nat \ {0} /\ Len(t) \div 2 \in Nat
         /\ Len(t) % 2 = 0 => /\ Len(t) = (Len(t) \div 2) + (Len(t) \div 2)
                              /\ Len(t) \div 2 \in 1..Len(t) /\ (Len(t) \div 2) + 1 \in 1..Len(t)
         /\ Len(t) % 2 # 0 => /\ Len(t) = (Len(t) \div 2) + (Len(t) \div 2) + 1
                              /\ (Len(t) \div 2) + 1 \in 1..Len(t)
<1> DEFINE n == Len(t)
<1>1. n \in Nat \ {0}
  BY EmptySeq
<1> HIDE DEF n
<1>2. /\ n \div 2 \in Nat
      /\ n % 2 = 0 => /\ n = (n \div 2) + (n \div 2)
                      /\ n \div 2 \in 1..n /\ (n \div 2) + 1 \in 1..n
      /\ n % 2 # 0 => n = (n \div 2) + (n \div 2) + 1 /\ (n \div 2) + 1 \in 1..n
  BY <1>1
<1>3. QED
  BY <1>1, <1>2 DEF n

LEMMA TimesMonotone ==
  ASSUME NEW k \in Nat, NEW x \in Int, NEW y \in Int, x <= y
  PROVE  k * x \in Int /\ k * y \in Int /\ k * x <= k * y
<1>1. y - x \in Nat
  OBVIOUS
<1>2. k * (y - x) >= 0
  BY <1>1
<1>3. k * (y - x) = k * y - k * x
  OBVIOUS
<1>4. k * x \in Int /\ k * y \in Int
  OBVIOUS
<1>5. QED
  BY <1>2, <1>3, <1>4

\* Neither is less for a list that is nowhere less.
LEMMA MeansMonotone ==
  ASSUME NEW t \in Seq(Int), t # <<>>, NEW u \in Seq(Int), Len(u) = Len(t),
         \A k \in 1..Len(t) : t[k] <= u[k]
  PROVE  /\ Average(t) \in Int /\ Median(t) \in Int
         /\ Average(t) <= Average(u) /\ Median(t) <= Median(u)
<1> DEFINE n == Len(t)
           mid == n \div 2
           h == Scale \div 2
           part == Scale \div n
<1>1. /\ n \in Nat \ {0} /\ mid \in Nat /\ h \in Nat /\ Scale \in Nat
      /\ n % 2 = 0 => mid \in 1..n /\ mid + 1 \in 1..n
      /\ n % 2 # 0 => mid + 1 \in 1..n
  BY Middle, Halves
<1>2. \A k \in 1..n : t[k] \in Int /\ u[k] \in Int
  OBVIOUS
<1>3. Average(t) \in Int /\ Average(u) \in Int /\ Average(t) <= Average(u)
  <2>1. part \in Nat
    <3> HIDE DEF n
    <3>1. QED
      BY <1>1
  <2>2. Total(t) \in Int /\ Total(u) \in Int /\ Total(t) <= Total(u)
    BY TotalMonotone
  <2>3. Average(t) = part * Total(t) /\ Average(u) = part * Total(u)
    BY DEF Average
  <2> HIDE DEF part
  <2>4. QED
    BY <2>1, <2>2, <2>3, TimesMonotone
<1>4. Median(t) \in Int /\ Median(u) \in Int /\ Median(t) <= Median(u)
  <2>1. CASE n % 2 = 0
    <3>1. Median(t) = h * (t[mid] + t[mid + 1]) /\ Median(u) = h * (u[mid] + u[mid + 1])
      BY <2>1 DEF Median
    <3> DEFINE x == t[mid] + t[mid + 1]
               y == u[mid] + u[mid + 1]
    <3>2. x \in Int /\ y \in Int /\ x <= y
      <4>1. mid \in 1..n /\ mid + 1 \in 1..n
        BY <1>1, <2>1
      <4> HIDE DEF mid, n
      <4>2. t[mid] <= u[mid] /\ t[mid + 1] <= u[mid + 1]
        BY <4>1 DEF n
      <4>3. QED
        BY <1>2, <4>1, <4>2
    <3>3. Median(t) = h * x /\ Median(u) = h * y
      BY <3>1
    <3> HIDE DEF x, y, h
    <3>4. QED
      BY <1>1, <3>2, <3>3, TimesMonotone
  <2>2. CASE n % 2 # 0
    <3>1. Median(t) = Scale * t[mid + 1] /\ Median(u) = Scale * u[mid + 1]
      BY <2>2 DEF Median
    <3> DEFINE x == t[mid + 1]
               y == u[mid + 1]
    <3>2. x \in Int /\ y \in Int /\ x <= y
      <4>1. mid + 1 \in 1..n
        BY <1>1, <2>2
      <4> HIDE DEF mid, n
      <4>2. QED
        BY <1>2, <4>1 DEF n
    <3>3. Median(t) = Scale * x /\ Median(u) = Scale * y
      BY <3>1
    <3> HIDE DEF x, y
    <3>4. QED
      BY <1>1, <3>2, <3>3, TimesMonotone
  <2>3. QED
    BY <2>1, <2>2
<1>5. QED
  BY <1>3, <1>4

\* How many voters hold the places of K in a sorted list.
LEMMA PlacesHeld ==
  ASSUME NEW n \in Nat, NEW S, NEW b \in Bijection(1..n, S), NEW K \in SUBSET (1..n),
         NEW P \in SUBSET S, \A k \in 1..n : b[k] \in P <=> k \in K
  PROVE  Cardinality(P) = Cardinality(K)
<1> DEFINE I == 1..n
<1>1. IsFiniteSet(K)
  <2>1. IsFiniteSet(I) /\ K \in SUBSET I
    <3> DEFINE one == 1
    <3>1. one \in Int /\ n \in Int /\ I = one..n
      OBVIOUS
    <3> HIDE DEF one
    <3>2. QED
      BY <3>1, FS_Interval
  <2>2. QED
    BY <2>1, FS_Subset
<1>2. /\ b \in [I -> S] /\ \A i, k \in I : b[i] = b[k] => i = k
      /\ \A x \in S : \E k \in I : b[k] = x
  <2> HIDE DEF I
  <2>1. b \in Bijection(I, S)
    BY DEF I
  <2>2. QED
    BY <2>1, Fun_BijectionProperties
<1> DEFINE q == [k \in K |-> b[k]]
<1>3. q \in [K -> P]
  OBVIOUS
<1>4. \A i, k \in K : q[i] = q[k] => i = k
  BY <1>2
<1>5. \A x \in P : \E k \in K : q[k] = x
  BY <1>2
<1> HIDE DEF q
<1>6. q \in Bijection(K, P)
  BY <1>3, <1>4, <1>5, Fun_IsBij
<1>7. QED
  BY <1>1, <1>6, FS_Bijection DEF ExistsBijection

\* What MedianIsCentral says of the votes w and the median m.
Central(w, m) ==
  LET below == {u \in DOMAIN w : w[u] < m}
      above == {u \in DOMAIN w : w[u] > m}
  IN  \/ \E u \in DOMAIN w : /\ w[u] = m
                             /\ 2 * Cardinality(below) < Cardinality(DOMAIN w)
                             /\ 2 * Cardinality(above) < Cardinality(DOMAIN w)
      \/ /\ Cardinality(below) = Cardinality(above)
         /\ below \cup above = DOMAIN w
         /\ \E u \in below, v \in above :
              /\ m - w[u] = w[v] - m
              /\ \A x \in DOMAIN w : w[x] <= w[u] \/ w[x] >= w[v]

LEMMA ScaleOrder ==
  ASSUME NEW x \in Int, NEW y \in Int
  PROVE  /\ Scale * x \in Int
         /\ x < y <=> Scale * x < Scale * y
         /\ x <= y <=> Scale * x <= Scale * y
<1>1. Scale * x \in Int /\ Scale * y \in Int /\ Scale \in Nat \ {0}
  BY ScaleAssumption
<1>2. Scale * (y - x) = Scale * y - Scale * x
  BY <1>1
<1>3. x < y => Scale * (y - x) > 0
  BY <1>1
<1>4. x = y => Scale * x = Scale * y
  OBVIOUS
<1>5. y < x => Scale * (y - x) < 0
  BY <1>1
<1>6. QED
  BY <1>1, <1>2, <1>3, <1>4, <1>5

\* The places up to k, or from k on, of a list of n.
LEMMA Part ==
  ASSUME NEW n \in Nat, NEW i \in Nat, NEW j \in Nat, i <= j + 1, j <= n,
         NEW K \in SUBSET (i..j)
  PROVE  Cardinality(K) \in Nat /\ Cardinality(K) <= j - i + 1 /\ Cardinality(i..j) = j - i + 1
<1>1. IsFiniteSet(i..j) /\ Cardinality(i..j) = j - i + 1
  BY FS_Interval
<1>2. IsFiniteSet(K) /\ Cardinality(K) <= Cardinality(i..j)
  BY <1>1, FS_Subset
<1>3. QED
  BY <1>1, <1>2, FS_CardinalityType

LEMMA MedianSplits ==
  ASSUME NEW S, NEW f, \A x \in S : f[x] \in Int, NEW t, Arranged(t, f, S), t # <<>>
  PROVE  Central([x \in S |-> Scale * f[x]], Median(t))
<1> DEFINE n == Len(t)
           mid == n \div 2
           h == Scale \div 2
           I == 1..n
           m == Median(t)
           w == [x \in S |-> Scale * f[x]]
           below == {x \in S : w[x] < m}
           above == {x \in S : w[x] > m}
           Low == {k \in I : Scale * t[k] < m}
           High == {k \in I : Scale * t[k] > m}
<1>1. t \in Seq(Int) /\ IsAscending(t) /\ DOMAIN t = I /\ \A k \in I : t[k] \in Int
  BY DEF Arranged
<1>2. /\ n \in Nat \ {0} /\ mid \in Nat /\ h \in Nat \ {0} /\ Scale = h + h
      /\ n % 2 = 0 => n = mid + mid /\ mid \in I /\ mid + 1 \in I
      /\ n % 2 # 0 => n = mid + mid + 1 /\ mid + 1 \in I
  BY <1>1, Middle, Halves
<1>3. Cardinality(S) = n
  BY ArrangedSize
<1>4. PICK b \in Bijection(I, S) : \A k \in I : t[k] = f[b[k]]
  BY DEF Arranged
<1>5. b \in [I -> S] /\ \A x \in S : \E k \in I : b[k] = x
  <2> HIDE DEF I
  <2>1. QED
    BY <1>4, Fun_BijectionProperties
<1>6. /\ \A k \in I : w[b[k]] = Scale * t[k]
      /\ \A x \in S : \E k \in I : b[k] = x /\ w[x] = Scale * t[k]
  <2>1. ASSUME NEW k \in I PROVE w[b[k]] = Scale * t[k]
    <3>1. b[k] \in S /\ t[k] = f[b[k]]
      BY <1>4, <1>5
    <3>2. QED
      BY <3>1
  <2> HIDE DEF w
  <2>2. QED
    BY <1>5, <2>1
<1> HIDE DEF w, m
<1>7. Cardinality(below) = Cardinality(Low) /\ Cardinality(above) = Cardinality(High)
  <2>1. /\ Low \in SUBSET I /\ High \in SUBSET I /\ below \in SUBSET S /\ above \in SUBSET S
        /\ \A k \in I : b[k] \in below <=> k \in Low
        /\ \A k \in I : b[k] \in above <=> k \in High
    BY <1>5, <1>6
  <2> HIDE DEF Low, High, below, above, n
  <2>2. QED
    BY <1>2, <1>4, <2>1, PlacesHeld
<1>8. \A i, k \in I : i <= k => t[i] <= t[k]
  BY <1>1 DEF IsAscending
<1>9. \A i, k \in I : /\ Scale * t[i] \in Int
                      /\ t[i] < t[k] <=> Scale * t[i] < Scale * t[k]
                      /\ t[i] <= t[k] <=> Scale * t[i] <= Scale * t[k]
  BY <1>1, ScaleOrder
\* The median where the places i to j in the middle have one vote.
<1>10. ASSUME NEW i \in I, NEW j \in I, t[j] = t[i], m = Scale * t[i], i <= j, i + j = n + 1
       PROVE  /\ b[i] \in S /\ w[b[i]] = m
              /\ 2 * Cardinality(below) < n /\ 2 * Cardinality(above) < n
  <2>1. Low \in SUBSET (1..(i - 1)) /\ High \in SUBSET ((j + 1)..n)
    <3>1. ASSUME NEW k \in Low PROVE k \in 1..(i - 1)
      <4>1. k \in I /\ t[k] < t[i]
        BY <1>9, <1>10
      <4>2. ~(i <= k)
        BY <1>1, <1>8, <4>1
      <4>3. QED
        BY <1>2, <4>1, <4>2
    <3>2. ASSUME NEW k \in High PROVE k \in (j + 1)..n
      <4>1. k \in I /\ t[j] < t[k]
        BY <1>9, <1>10
      <4>2. ~(k <= j)
        BY <1>1, <1>8, <4>1
      <4>3. QED
        BY <1>2, <4>1, <4>2
    <3> HIDE DEF Low, High
    <3>3. QED
      BY <3>1, <3>2
  <2> DEFINE one == 1
             before == i - 1
             after == j + 1
  <2>2. /\ one \in Nat /\ before \in Nat /\ after \in Nat /\ n \in Nat
        /\ one <= before + 1 /\ before <= n /\ after <= n + 1 /\ n <= n
    BY <1>2
  <2>3. Low \in SUBSET (one..before) /\ High \in SUBSET (after..n)
    BY <2>1
  <2>4. /\ Cardinality(Low) \in Nat /\ Cardinality(Low) <= before - one + 1
        /\ Cardinality(High) \in Nat /\ Cardinality(High) <= n - after + 1
    <3> HIDE DEF Low, High, one, before, after, n
    <3>1. QED
      BY <2>2, <2>3, Part
  <2>5. 2 * Cardinality(Low) < n /\ 2 * Cardinality(High) < n
    <3>1. before - one + 1 = i - 1 /\ n - after + 1 = n - j /\ i \in Nat /\ j \in Nat
      BY <1>2
    <3> HIDE DEF Low, High, one, before, after, n
    <3>2. QED
      BY <1>10, <2>2, <2>4, <3>1
  <2> HIDE DEF Low, High, below, above
  <2>6. QED
    BY <1>5, <1>6, <1>7, <1>10, <2>5
<1>11. ASSUME NEW i \in I, NEW j \in I, t[j] = t[i], m = Scale * t[i], i <= j, i + j = n + 1
       PROVE  Central(w, m)
  <2>1. DOMAIN w = S
    BY DEF w
  <2> HIDE DEF n
  <2>2. QED
    BY <1>3, <1>10, <1>11, <2>1 DEF Central
<1>12. ASSUME n % 2 # 0 PROVE Central(w, m)
  <2>1. m = Scale * t[mid + 1]
    BY <1>12 DEF m, Median
  <2>2. mid + 1 \in I /\ (mid + 1) + (mid + 1) = n + 1 /\ mid + 1 <= mid + 1
    BY <1>2, <1>12
  <2> DEFINE i == mid + 1
  <2> HIDE DEF i, I, n
  <2>3. QED
    BY <1>11, <2>1, <2>2 DEF i
<1>13. ASSUME n % 2 = 0, t[mid] = t[mid + 1] PROVE Central(w, m)
  <2>1. m = h * (t[mid] + t[mid + 1]) /\ mid \in I /\ t[mid] \in Int
    BY <1>1, <1>2, <1>13 DEF m, Median
  <2>2. m = Scale * t[mid]
    <3> DEFINE x == t[mid]
    <3>1. h * (x + x) = (h + h) * x
      <4> HIDE DEF h, x
      <4>1. QED
        BY <1>2, <2>1 DEF x
    <3>2. QED
      BY <1>2, <1>13, <2>1, <3>1
  <2> DEFINE j == mid + 1
  <2>3. mid + j = n + 1 /\ mid <= j /\ mid \in I /\ j \in I /\ t[j] = t[mid]
    BY <1>2, <1>13
  <2> HIDE DEF mid, I, n, j
  <2>4. QED
    BY <1>11, <2>2, <2>3
<1>14. ASSUME n % 2 = 0, t[mid] # t[mid + 1] PROVE Central(w, m)
  <2> DEFINE x == t[mid]
             y == t[mid + 1]
             u == b[mid]
             v == b[mid + 1]
  <2>1. /\ mid \in I /\ mid + 1 \in I /\ n = mid + mid
        /\ m = h * (x + y) /\ x \in Int /\ y \in Int /\ x < y
    <3>1. mid \in I /\ mid + 1 \in I /\ n = mid + mid
      BY <1>2, <1>14
    <3>2. x \in Int /\ y \in Int /\ x <= y
      <4>1. mid <= mid + 1
        BY <1>2
      <4> HIDE DEF mid, n
      <4>2. QED
        BY <1>1, <1>8, <3>1, <4>1
    <3>3. QED
      BY <1>14, <3>1, <3>2 DEF m, Median
  <2>2. /\ Scale * x \in Int /\ Scale * y \in Int /\ m \in Int
        /\ Scale * x < m /\ m < Scale * y /\ m - Scale * x = Scale * y - m
    <3>1. m \in Int /\ x \in Int /\ y \in Int /\ x < y /\ h \in Nat \ {0} /\ m = h * (x + y)
      BY <1>2, <2>1
    <3>2. Scale * x = h * x + h * x /\ Scale * y = h * y + h * y
      <4> HIDE DEF x, y, h
      <4>1. QED
        BY <1>2, <3>1
    <3>3. h * (x + y) = h * x + h * y /\ h * x \in Int /\ h * y \in Int
      <4> HIDE DEF x, y, h
      <4>1. QED
        BY <3>1
    <3>4. h * x < h * y
      <4> HIDE DEF x, y, h
      <4>1. y - x > 0 /\ h * (y - x) = h * y - h * x
        BY <3>1
      <4>2. h * (y - x) > 0
        BY <3>1, <4>1
      <4>3. QED
        BY <3>3, <4>1, <4>2
    <3> HIDE DEF x, y, h
    <3>5. QED
      BY <3>1, <3>2, <3>3, <3>4
  <2>3. \A k \in I : k <= mid \/ mid + 1 <= k
    BY <1>2
  <2>4. ASSUME NEW k \in I, k <= mid PROVE Scale * t[k] \in Int /\ Scale * t[k] <= Scale * x
    <3>1. t[k] <= x
      BY <1>8, <2>1, <2>4
    <3>2. QED
      BY <1>9, <2>1, <3>1
  <2>5. ASSUME NEW k \in I, mid + 1 <= k PROVE Scale * t[k] \in Int /\ Scale * y <= Scale * t[k]
    <3>1. y <= t[k]
      BY <1>8, <2>1, <2>5
    <3>2. QED
      BY <1>9, <2>1, <3>1
  <2> HIDE DEF x, y, h
  <2>6. Low = 1..mid /\ High = (mid + 1)..n
    <3>1. \A k \in I : k <= mid => k \in Low /\ k \notin High
      <4>1. ASSUME NEW k \in I, k <= mid PROVE k \in Low /\ k \notin High
        <5>1. Scale * t[k] < m
          BY <2>2, <2>4, <4>1
        <5>2. QED
          BY <2>2, <2>4, <4>1, <5>1
      <4>2. QED
        BY <4>1
    <3>2. \A k \in I : mid + 1 <= k => k \in High /\ k \notin Low
      <4>1. ASSUME NEW k \in I, mid + 1 <= k PROVE k \in High /\ k \notin Low
        <5>1. m < Scale * t[k]
          BY <2>2, <2>5, <4>1
        <5>2. QED
          BY <2>2, <2>5, <4>1, <5>1
      <4>2. QED
        BY <4>1
    <3>3. Low \subseteq I /\ High \subseteq I
      OBVIOUS
    <3>4. /\ \A k \in 1..mid : k \in I /\ k <= mid
          /\ \A k \in (mid + 1)..n : k \in I /\ mid + 1 <= k
          /\ \A k \in I : k <= mid => k \in 1..mid
          /\ \A k \in I : mid + 1 <= k => k \in (mid + 1)..n
      <4>1. mid \in Nat /\ n \in Nat /\ n = mid + mid
        BY <1>2, <2>1
      <4> HIDE DEF mid, n
      <4>2. QED
        BY <4>1
    <3> HIDE DEF Low, High, mid, n, I
    <3>5. Low \subseteq 1..mid /\ High \subseteq (mid + 1)..n
      BY <2>3, <3>1, <3>2, <3>3, <3>4
    <3>6. 1..mid \subseteq Low /\ (mid + 1)..n \subseteq High
      BY <3>1, <3>2, <3>4
    <3>7. QED
      BY <3>5, <3>6
  <2>7. Cardinality(below) = Cardinality(above)
    <3> DEFINE one == 1
               after == mid + 1
               last == mid + mid
    <3>1. one \in Int /\ mid \in Int /\ after \in Int /\ last \in Int
      BY <1>2
    <3>2. Cardinality(one..mid) = mid /\ Cardinality(after..last) = mid
      <4>1. /\ Cardinality(one..mid) = IF one > mid THEN 0 ELSE mid - one + 1
            /\ Cardinality(after..last) = IF after > last THEN 0 ELSE last - after + 1
        <5> HIDE DEF one, after, last, mid
        <5>1. QED
          BY <3>1, FS_Interval
      <4>2. QED
        BY <1>2, <2>1, <4>1
    <3>3. Low = one..mid /\ High = after..last
      BY <2>1, <2>6
    <3> HIDE DEF one, after, last, below, above, Low, High
    <3>4. QED
      BY <1>7, <3>2, <3>3
  <2>8. below \cup above = S
    <3>1. ASSUME NEW z \in S PROVE z \in below \/ z \in above
      <4>1. PICK k \in I : b[k] = z /\ w[z] = Scale * t[k]
        BY <1>6
      <4>2. Scale * t[k] < m \/ m < Scale * t[k]
        BY <2>2, <2>3, <2>4, <2>5
      <4>3. QED
        BY <2>2, <2>4, <2>5, <4>1, <4>2
    <3>2. QED
      BY <3>1
  <2>9. /\ u \in below /\ v \in above /\ m - w[u] = w[v] - m
        /\ \A z \in S : w[z] <= w[u] \/ w[z] >= w[v]
    <3>1. u \in S /\ v \in S /\ w[u] = Scale * x /\ w[v] = Scale * y
      BY <1>5, <1>6, <2>1 DEF x, y
    <3>2. ASSUME NEW z \in S PROVE w[z] <= w[u] \/ w[z] >= w[v]
      <4>1. PICK k \in I : b[k] = z /\ w[z] = Scale * t[k]
        BY <1>6
      <4>2. CASE k <= mid
        BY <2>4, <3>1, <4>1, <4>2
      <4>3. CASE mid + 1 <= k
        <5>1. Scale * y <= Scale * t[k] /\ Scale * t[k] \in Int
          BY <2>5, <4>3
        <5>2. QED
          BY <2>2, <3>1, <4>1, <5>1
      <4>4. QED
        BY <2>3, <4>2, <4>3
    <3>3. u \in below /\ v \in above
      BY <2>2, <3>1
    <3>4. QED
      BY <2>2, <3>1, <3>2, <3>3
  <2>10. DOMAIN w = S
    BY DEF w
  <2> HIDE DEF u, v
  <2>11. QED
    BY <2>7, <2>8, <2>9, <2>10 DEF Central
<1>15. QED
  BY <1>12, <1>13, <1>14 DEF w, m

-----------------------------------------------------------------------------
(* The states of the round *)

VotesType == votes \in [Users -> Labels \cup {Nil}] /\ eligible \in SUBSET Users
DeckType == deck \in Seq(Labels) /\ algorithm \in Algorithms
TypeOK == VotesType /\ DeckType

\* The values have their types: a vote is a label or none, and who may vote is a user.
THEOREM TypeCorrect == Spec => []TypeOK
<1>1. Init => TypeOK
  BY DecksAssumption DEF Init, TypeOK, VotesType, DeckType
<1>2. TypeOK /\ [Next]_vars => TypeOK'
  <2> SUFFICES ASSUME TypeOK, [Next]_vars PROVE TypeOK'
    OBVIOUS
  <2> USE DEF TypeOK, VotesType, DeckType
  <2>1. ASSUME NEW u \in Users, NEW label \in Labels, Cast(u, label) PROVE TypeOK'
    BY <2>1 DEF Cast
  <2>2. ASSUME NEW u \in Users, Depart(u) PROVE TypeOK'
    BY <2>2 DEF Depart
  <2>3. CASE UNCHANGED vars
    BY <2>3 DEF vars
  <2>4. QED
    BY <2>1, <2>2, <2>3 DEF Next
<1>3. QED
  BY <1>1, <1>2, PTL DEF Spec

\* The numbers of the votes that count.
NumbersOf(S, number) == [u \in S |-> number[votes[u]]]

LEMMA CountedType ==
  ASSUME TypeOK, NEW people \in SUBSET Users, NEW number \in Reading
  PROVE  LET S == Counted(people, number)
             f == NumbersOf(S, number)
         IN  /\ S \in SUBSET Users /\ S \in SUBSET people /\ IsFiniteSet(S)
             /\ \A u \in S : f[u] \in Int /\ f[u] = number[votes[u]] /\ votes[u] \in Labels
<1> DEFINE S == Counted(people, number)
<1>1. S \in SUBSET Users /\ S \in SUBSET people
  BY DEF Counted
<1>2. IsFiniteSet(S)
  BY <1>1, UsersAssumption, FS_Subset
<1>3. ASSUME NEW u \in S PROVE number[votes[u]] \in Int /\ votes[u] \in Labels
  BY <1>3 DEF Counted, TypeOK, VotesType, Reading
<1>4. QED
  BY <1>1, <1>2, <1>3 DEF NumbersOf

\* In whatever order they are ranged over, they sort to one list.
LEMMA NumbersSorted ==
  ASSUME TypeOK, NEW people \in SUBSET Users, NEW number \in Reading
  PROVE  \E t : /\ Arranged(t, NumbersOf(Counted(people, number), number), Counted(people, number))
                /\ \A n \in Numbers(Counted(people, number), number) :
                     n \in Seq(Int) /\ Ascending(n) = t
                /\ Numbers(Counted(people, number), number) # {}
<1> DEFINE S == Counted(people, number)
           f == NumbersOf(S, number)
<1>1. IsFiniteSet(S) /\ \A u \in S : f[u] \in Int /\ f[u] = number[votes[u]]
  BY CountedType
<1> HIDE DEF f, S
<1>2. ASSUME NEW n \in Numbers(S, number) PROVE n \in Seq(Int) /\ Arranged(Ascending(n), f, S)
  <2>1. PICK order \in SetToSeqs(S) : n = [i \in DOMAIN order |-> number[votes[order[i]]]]
    BY DEF Numbers
  <2>2. \A i \in DOMAIN order : order[i] \in S
    BY DEF SetToSeqs
  <2>3. n = [i \in DOMAIN order |-> f[order[i]]]
    BY <1>1, <2>1, <2>2
  <2>4. QED
    BY <1>1, <2>3, OrderSorted
<1>3. PICK order : order \in SetToSeqs(S)
  <2> DEFINE I == 1..Cardinality(S)
  <2>1. ExistsBijection(I, S)
    BY <1>1, FS_CardinalityType
  <2>2. PICK b \in Bijection(I, S) : TRUE
    BY <2>1 DEF ExistsBijection
  <2>3. b \in [I -> S] /\ \A i, j \in I : b[i] = b[j] => i = j
    <3> HIDE DEF I
    <3>1. QED
      BY <2>2, Fun_BijectionProperties
  <2>4. b \in SetToSeqs(S)
    BY <2>3 DEF SetToSeqs
  <2>5. QED
    BY <2>4
<1>4. [i \in DOMAIN order |-> number[votes[order[i]]]] \in Numbers(S, number)
  BY <1>3 DEF Numbers
<1>5. PICK m \in Numbers(S, number) : TRUE
  BY <1>4
<1>6. Arranged(Ascending(m), f, S)
  BY <1>2
<1>7. \A n \in Numbers(S, number) : Ascending(n) = Ascending(m)
  BY <1>1, <1>2, <1>6, ArrangedOnce
<1>8. QED
  BY <1>2, <1>5, <1>6, <1>7 DEF S, f

\* What is suggested for a sorted list.
Target(t, alg) == IF alg = "median_nearest" THEN Median(t) ELSE Average(t)

IsSuggested(r, t, d, alg, number) ==
  IF t = <<>>
  THEN r = Nothing
  ELSE /\ r = [average |-> Average(t), median |-> Median(t), card |-> r.card]
       /\ Average(t) \in Int /\ Median(t) \in Int
       /\ FirstClosest(r.card, d, Target(t, alg), number)

LEMMA SuggestIs ==
  ASSUME TypeOK, NEW number \in Reading, NEW n \in Seq(Int)
  PROVE  IsSuggested(Suggest(n, number), Ascending(n), deck, algorithm, number)
<1> DEFINE t == Ascending(n)
           target == Target(t, algorithm)
<1>1. t \in Seq(Int)
  BY AscendingType
<1> HIDE DEF t
<1>2. CASE t = <<>>
  BY <1>2 DEF Suggest, IsSuggested, t
<1>3. CASE t # <<>>
  <2>1. Average(t) \in Int /\ Median(t) \in Int
    <3>1. \A k \in 1..Len(t) : t[k] <= t[k]
      BY <1>1
    <3>2. QED
      BY <1>1, <1>3, <3>1, MeansMonotone
  <2>2. target \in Int
    BY <2>1 DEF Target
  <2>3. Suggest(n, number) = [average |-> Average(t), median |-> Median(t), card |-> Nearest(target, number)]
    BY <1>3 DEF Suggest, Target, t
  <2>4. FirstClosest(Nearest(target, number), deck, target, number)
    <3> HIDE DEF target
    <3>1. QED
      BY <2>2, NearestFound DEF TypeOK, DeckType
  <2> HIDE DEF target
  <2>5. QED
    BY <1>3, <2>1, <2>3, <2>4 DEF IsSuggested, t, target
<1>4. QED
  BY <1>2, <1>3

\* That is one result.
LEMMA SuggestedOnce ==
  ASSUME TypeOK, NEW number \in Reading, NEW t,
         NEW r, IsSuggested(r, t, deck, algorithm, number),
         NEW q, IsSuggested(q, t, deck, algorithm, number)
  PROVE  r = q
<1>1. CASE t = <<>>
  BY <1>1 DEF IsSuggested
<1>2. CASE t # <<>>
  <2>1. Target(t, algorithm) \in Int
    BY <1>2 DEF IsSuggested, Target
  <2>2. r.card = q.card
    BY <1>2, <2>1, ClosestOnce DEF IsSuggested, TypeOK, DeckType
  <2>3. QED
    BY <1>2, <2>2 DEF IsSuggested
<1>3. QED
  BY <1>1, <1>2

\* The server's result.
IsResult(r, t, d, alg) ==
  IF alg = "manual" THEN r = Nothing ELSE IsSuggested(r, t, d, alg, GoNumber)

ResultFound ==
  \E t : /\ Arranged(t, NumbersOf(Counted(eligible, GoNumber), GoNumber), Counted(eligible, GoNumber))
         /\ IsResult(TheResult, t, deck, algorithm)
         /\ GoResults = {TheResult}

\* There is one, that of the sorted list.
LEMMA GoResultOnce == TypeOK => ResultFound
<1> SUFFICES ASSUME TypeOK PROVE ResultFound
  OBVIOUS
<1> DEFINE S == Counted(eligible, GoNumber)
<1>1. GoNumber \in Reading /\ eligible \in SUBSET Users
  BY NumbersAssumption DEF Reading, TypeOK, VotesType
<1>2. PICK t : /\ Arranged(t, NumbersOf(S, GoNumber), S)
               /\ \A n \in Numbers(S, GoNumber) : n \in Seq(Int) /\ Ascending(n) = t
               /\ Numbers(S, GoNumber) # {}
  BY <1>1, NumbersSorted
<1> HIDE DEF S
<1>3. ASSUME NEW r \in GoResults PROVE IsResult(r, t, deck, algorithm)
  <2>1. PICK n \in Numbers(S, GoNumber) : r = IF algorithm = "manual" THEN Nothing ELSE Suggest(n, GoNumber)
    BY DEF GoResults, S
  <2>2. IsSuggested(Suggest(n, GoNumber), t, deck, algorithm, GoNumber)
    <3>1. n \in Seq(Int) /\ Ascending(n) = t
      BY <1>2
    <3>2. QED
      BY <1>1, <3>1, SuggestIs
  <2>3. QED
    BY <2>1, <2>2 DEF IsResult
<1>4. GoResults # {}
  BY <1>2 DEF GoResults, S
<1>5. ASSUME NEW r \in GoResults, NEW q \in GoResults PROVE r = q
  <2>1. IsResult(r, t, deck, algorithm) /\ IsResult(q, t, deck, algorithm)
    BY <1>3
  <2>2. CASE algorithm = "manual"
    BY <2>1, <2>2 DEF IsResult
  <2>3. CASE algorithm # "manual"
    BY <1>1, <2>1, <2>3, SuggestedOnce DEF IsResult
  <2>4. QED
    BY <2>2, <2>3
<1>6. TheResult \in GoResults
  BY <1>4 DEF TheResult
<1>7. GoResults = {TheResult}
  BY <1>5, <1>6
<1>8. QED
  BY <1>2, <1>3, <1>6, <1>7 DEF S, ResultFound

-----------------------------------------------------------------------------
(* What holds in every round *)

\* The order in which Go ranges over the votes does not show.
THEOREM OrderDoesNotShow == Spec => []OrderIrrelevant
<1>1. TypeOK => OrderIrrelevant
  BY GoResultOnce, FS_Singleton DEF OrderIrrelevant, ResultFound
<1>2. QED
  BY <1>1, TypeCorrect, PTL

\* The median that CalculateConsensus finds in the sorted votes has half of them on
\* each side, for any number of votes.
THEOREM MedianSplitsTheVotes == Spec => []MedianIsCentral
<1>1. TypeOK => MedianIsCentral
  <2> SUFFICES ASSUME TypeOK, TheResult.median # Nil PROVE Central(TheVotes, TheResult.median)
    BY DEF MedianIsCentral, Central
  <2> DEFINE S == Counted(eligible, GoNumber)
             f == NumbersOf(S, GoNumber)
  <2>1. PICK t : Arranged(t, f, S) /\ IsResult(TheResult, t, deck, algorithm)
    BY GoResultOnce DEF ResultFound
  <2>2. \A u \in S : f[u] \in Int /\ f[u] = GoNumber[votes[u]]
    BY CountedType, NumbersAssumption DEF TypeOK, VotesType, Reading
  <2>3. t # <<>> /\ TheResult.median = Median(t)
    BY <2>1 DEF IsResult, IsSuggested, Nothing
  <2>4. TheVotes = [u \in S |-> Scale * f[u]]
    <3> HIDE DEF f
    <3>1. QED
      BY <2>2 DEF TheVotes
  <2> HIDE DEF f, S
  <2>5. QED
    BY <2>1, <2>2, <2>3, <2>4, MedianSplits
<1>2. QED
  BY <1>1, TypeCorrect, PTL

\* nearestDeckValue returns the first of the deck's numeric cards that are closest to
\* the average or the median, whatever the deck and the votes.
THEOREM SuggestionIsClosest == Spec => []SuggestionIsNearest
<1>1. TypeOK => SuggestionIsNearest
  <2> DEFINE target == IF algorithm = "median_nearest" THEN TheResult.median ELSE TheResult.average
             numeric == {i \in DOMAIN deck : GoNumber[deck[i]] # Nil}
             far(i) == Abs(target - Scale * GoNumber[deck[i]])
  <2> SUFFICES ASSUME TypeOK, target # Nil, numeric # {}
               PROVE  \E i \in numeric : /\ TheResult.card = deck[i]
                                         /\ \A j \in numeric : far(i) <= far(j)
                                         /\ \A j \in numeric : j < i => far(i) < far(j)
    BY DEF SuggestionIsNearest
  <2>1. PICK t : IsResult(TheResult, t, deck, algorithm)
    BY GoResultOnce DEF ResultFound
  <2>2. /\ t # <<>> /\ target = Target(t, algorithm)
        /\ FirstClosest(TheResult.card, deck, Target(t, algorithm), GoNumber)
    BY <2>1 DEF IsResult, IsSuggested, Nothing, Target
  <2>3. numeric = Numeric(deck, GoNumber)
    BY DEF Numeric
  <2>4. PICK i \in DOMAIN deck : /\ TheResult.card = deck[i]
                                 /\ ClosestAt(i, deck, Len(deck), target, GoNumber)
    BY <2>2, <2>3 DEF FirstClosest
  <2>5. numeric \cap 1..Len(deck) = numeric
    <3>1. DOMAIN deck = 1..Len(deck)
      BY DEF TypeOK, DeckType
    <3>2. QED
      BY <3>1
  <2> HIDE DEF target, numeric
  <2>6. i \in numeric /\ \A j \in numeric : /\ far(i) <= far(j)
                                            /\ j < i => far(i) < far(j)
    BY <2>3, <2>4, <2>5 DEF ClosestAt, Far
  <2>7. QED
    BY <2>4, <2>6
<1>2. QED
  BY <1>1, TypeCorrect, PTL

\* suggestConsensus of the page and CalculateConsensus of the server come to the same
\* results, if both read the labels in play alike and the algorithm is not manual.
THEOREM PageAndServerAgree == Spec => []PageAgrees
<1>1. TypeOK => PageAgrees
  <2> SUFFICES ASSUME TypeOK, algorithm # "manual", ReadAlike PROVE WebResults = GoResults
    BY DEF PageAgrees
  <2> DEFINE S == Counted(eligible, GoNumber)
             N == Numbers(S, GoNumber)
  <2>1. \A u \in eligible : votes[u] # Nil => GoNumber[votes[u]] = WebNumber[votes[u]]
    BY DEF ReadAlike
  <2>2. \A i \in DOMAIN deck : GoNumber[deck[i]] = WebNumber[deck[i]]
    BY DEF ReadAlike, ToSet
  <2>3. Counted(OnBoard, WebNumber) = S
    BY <2>1 DEF Counted, OnBoard
  <2>4. Numbers(S, WebNumber) = N
    <3>1. \A u \in S : GoNumber[votes[u]] = WebNumber[votes[u]]
      BY <2>1 DEF Counted
    <3> HIDE DEF S
    <3>2. \A order \in SetToSeqs(S) : \A i \in DOMAIN order : order[i] \in S
      BY DEF SetToSeqs
    <3>3. ASSUME NEW order \in SetToSeqs(S)
          PROVE  [i \in DOMAIN order |-> WebNumber[votes[order[i]]]]
                   = [i \in DOMAIN order |-> GoNumber[votes[order[i]]]]
      BY <3>1, <3>2, <3>3
    <3>4. QED
      BY <3>3 DEF Numbers
  <2>5. GoNumber \in Reading /\ WebNumber \in Reading /\ eligible \in SUBSET Users
    BY NumbersAssumption DEF Reading, TypeOK, VotesType
  <2>6. ASSUME NEW n \in N PROVE Suggest(n, WebNumber) = Suggest(n, GoNumber)
    <3> DEFINE t == Ascending(n)
               r == Suggest(n, WebNumber)
               q == Suggest(n, GoNumber)
    <3>1. n \in Seq(Int)
      BY <2>5, NumbersSorted
    <3>2. /\ IsSuggested(r, t, deck, algorithm, WebNumber)
          /\ IsSuggested(q, t, deck, algorithm, GoNumber)
      BY <2>5, <3>1, SuggestIs
    <3>3. Numeric(deck, WebNumber) = Numeric(deck, GoNumber)
      BY <2>2 DEF Numeric
    <3>4. \A i \in Numeric(deck, GoNumber) : \A target :
            Far(deck, target, WebNumber, i) = Far(deck, target, GoNumber, i)
      BY <2>2 DEF Far, Numeric
    <3>5. \A i, k, target : ClosestAt(i, deck, k, target, WebNumber) <=> ClosestAt(i, deck, k, target, GoNumber)
      BY <3>3, <3>4 DEF ClosestAt
    <3> HIDE DEF r, q, t
    <3>6. IsSuggested(r, t, deck, algorithm, GoNumber)
      BY <3>2, <3>3, <3>5 DEF IsSuggested, FirstClosest
    <3>7. r = q
      BY <2>5, <3>2, <3>6, SuggestedOnce
    <3>8. QED
      BY <3>7 DEF r, q
  <2>7. WebResults = {Suggest(n, WebNumber) : n \in N} /\ GoResults = {Suggest(n, GoNumber) : n \in N}
    BY <2>3, <2>4 DEF WebResults, GoResults
  <2> HIDE DEF N
  <2>8. QED
    BY <2>6, <2>7
<1>2. QED
  BY <1>1, TypeCorrect, PTL

\* A vote raised in place of another never lowers the card that is suggested.
THEOREM RaisingNeverLowers == Spec => SuggestionMonotone
<1>1. TypeOK /\ TypeOK' /\ [Next]_vars =>
        \A u \in eligible :
          /\ Raised(u)
          /\ \A v \in Users \ {u} : votes'[v] = votes[v]
          /\ UNCHANGED eligible
          /\ TheResult.card # Nil
          => NumberOf(TheResult'.card) >= NumberOf(TheResult.card)
  <2> SUFFICES ASSUME TypeOK, TypeOK', [Next]_vars, NEW u \in eligible, Raised(u),
                      \A v \in Users \ {u} : votes'[v] = votes[v],
                      UNCHANGED eligible, TheResult.card # Nil
               PROVE  NumberOf(TheResult'.card) >= NumberOf(TheResult.card)
    OBVIOUS
  <2> DEFINE S == Counted(eligible, GoNumber)
             f == NumbersOf(S, GoNumber)
             g == [x \in S |-> GoNumber[votes'[x]]]
  <2>1. PICK t : Arranged(t, f, S) /\ IsResult(TheResult, t, deck, algorithm)
    BY GoResultOnce DEF ResultFound
  <2>2. \E s : /\ Arranged(s, NumbersOf(Counted(eligible, GoNumber), GoNumber)', Counted(eligible, GoNumber)')
               /\ IsResult(TheResult', s, deck', algorithm')
    <3>1. TypeOK' => ResultFound'
      BY GoResultOnce, PTL
    <3>2. QED
      BY <3>1 DEF ResultFound
  <2>3. deck' = deck /\ algorithm' = algorithm
    BY DEF Next, vars, Cast, Depart
  <2>4. u \in Users /\ votes[u] # Nil /\ GoNumber[votes[u]] # Nil
        /\ votes'[u] # Nil /\ GoNumber[votes'[u]] # Nil /\ GoNumber[votes'[u]] >= GoNumber[votes[u]]
    BY DEF Raised, NumberOf, TypeOK, VotesType
  <2>5. Counted(eligible, GoNumber)' = S
    BY <2>4 DEF Counted, TypeOK, VotesType
  <2>6. NumbersOf(Counted(eligible, GoNumber), GoNumber)' = g
    BY <2>5 DEF NumbersOf
  <2>7. \A x \in S : f[x] \in Int /\ f[x] = GoNumber[votes[x]] /\ x \in Users /\ votes[x] \in Labels
    BY CountedType, NumbersAssumption DEF TypeOK, VotesType, Reading
  <2>8. \A x \in S : f[x] \in Int /\ g[x] \in Int /\ f[x] <= g[x]
    <3> SUFFICES ASSUME NEW x \in S PROVE f[x] \in Int /\ g[x] \in Int /\ f[x] <= g[x]
      OBVIOUS
    <3>1. g[x] = GoNumber[votes'[x]]
      OBVIOUS
    <3>2. f[x] \in Int /\ f[x] = GoNumber[votes[x]] /\ x \in Users
      BY <2>7
    <3> HIDE DEF f, g, S
    <3>3. CASE x = u
      <4>1. votes'[u] \in Labels
        BY <2>4 DEF TypeOK, VotesType
      <4>2. GoNumber[votes'[u]] \in Int
        BY <2>4, <4>1, NumbersAssumption
      <4>3. QED
        BY <2>4, <3>1, <3>2, <3>3, <4>2
    <3>4. CASE x # u
      <4>1. g[x] = f[x]
        BY <3>1, <3>2, <3>4
      <4>2. QED
        BY <3>2, <4>1
    <3>5. QED
      BY <3>3, <3>4
  <2>9. PICK s : Arranged(s, g, S) /\ IsResult(TheResult', s, deck, algorithm)
    BY <2>2, <2>3, <2>5, <2>6
  <2> HIDE DEF f, g, S
  <2>10. /\ t \in Seq(Int) /\ s \in Seq(Int) /\ Len(s) = Len(t)
         /\ \A k \in 1..Len(t) : t[k] <= s[k]
    <3>1. t \in Seq(Int) /\ s \in Seq(Int)
      BY <2>1, <2>9 DEF Arranged
    <3>2. Len(t) = Len(s) /\ \A k \in 1..Len(t) : t[k] <= s[k]
      BY <2>1, <2>8, <2>9, SortedBelow
    <3>3. QED
      BY <3>1, <3>2
  <2>11. /\ algorithm # "manual" /\ t # <<>>
         /\ FirstClosest(TheResult.card, deck, Target(t, algorithm), GoNumber)
         /\ Numeric(deck, GoNumber) # {}
    BY <2>1 DEF IsResult, IsSuggested, Nothing, FirstClosest
  <2>12. s # <<>>
    BY <2>10, <2>11, EmptySeq
  <2>13. FirstClosest(TheResult'.card, deck, Target(s, algorithm), GoNumber)
    BY <2>9, <2>11, <2>12 DEF IsResult, IsSuggested
  <2>14. /\ Target(t, algorithm) \in Int /\ Target(s, algorithm) \in Int
         /\ Target(t, algorithm) <= Target(s, algorithm)
    <3>1. /\ Average(t) \in Int /\ Median(t) \in Int
          /\ Average(t) <= Average(s) /\ Median(t) <= Median(s)
      BY <2>10, <2>11, MeansMonotone
    <3>2. Average(s) \in Int /\ Median(s) \in Int
      BY <2>9, <2>11, <2>12 DEF IsResult, IsSuggested
    <3>3. QED
      BY <3>1, <3>2 DEF Target
  <2>15. /\ TheResult.card \in Labels /\ GoNumber[TheResult.card] \in Int
         /\ TheResult'.card \in Labels /\ GoNumber[TheResult'.card] \in Int
         /\ GoNumber[TheResult.card] <= GoNumber[TheResult'.card]
    <3> DEFINE c == TheResult.card
               d == TheResult'.card
               a == Target(t, algorithm)
               b == Target(s, algorithm)
    <3>1. deck \in Seq(Labels) /\ GoNumber \in Reading
      BY NumbersAssumption DEF TypeOK, DeckType, Reading
    <3>2. FirstClosest(c, deck, a, GoNumber) /\ FirstClosest(d, deck, b, GoNumber) /\ a \in Int /\ b \in Int /\ a <= b
      BY <2>11, <2>13, <2>14
    <3> HIDE DEF a, b, c, d
    <3>3. /\ c \in Labels /\ GoNumber[c] \in Int /\ d \in Labels /\ GoNumber[d] \in Int
          /\ GoNumber[c] <= GoNumber[d]
      BY <2>11, <3>1, <3>2, ClosestMonotone
    <3>4. QED
      BY <3>3 DEF c, d
  <2>16. TheResult.card # Nil /\ TheResult'.card # Nil
    BY <2>15, NilAssumption
  <2>17. QED
    BY <2>15, <2>16 DEF NumberOf
<1>3. QED
  BY <1>1, TypeCorrect, PTL DEF Spec, SuggestionMonotone
================================================================================
