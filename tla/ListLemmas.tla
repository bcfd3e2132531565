----------------------------- MODULE ListLemmas -----------------------------
(***************************************************************************)
(* What a loop over a list computes, for every list.  The provers cannot   *)
(* instantiate an induction theorem that takes a predicate; a set of the   *)
(* numbers, or of the sets, for which something fails has a smallest       *)
(* member, which does as well.                                             *)
(***************************************************************************)
EXTENDS Lists, FunctionTheorems, FiniteSetTheorems, SequenceTheorems, WellFoundedInduction, TLAPS

-----------------------------------------------------------------------------
(* Smallest and largest members.                                           *)

\* A set of numbers that is not empty has a smallest one.
LEMMA SmallestNumber ==
  ASSUME NEW S, S \subseteq Nat, S # {}
  PROVE  \E x \in S : \A y \in S : x <= y
<1>1. PICK x \in S : \A y \in S : ~ (<<y, x>> \in OpToRel(<, Nat))
  BY NatLessThanWellFounded, WFMin
<1>2. ASSUME NEW y \in S, y < x PROVE FALSE
  <2>1. x \in Nat /\ y \in Nat
    OBVIOUS
  <2>2. <<y, x>> \in OpToRel(<, Nat)
    BY <1>2, <2>1, SMT DEF OpToRel
  <2> QED
    BY <1>1, <2>2
<1> QED
  BY <1>2

\* A set of numbers up to n that holds 0 and, with a number, the next one.
LEMMA CountUp ==
  ASSUME NEW n \in Nat, NEW S, 0 \in S, \A k \in 1..n : k - 1 \in S => k \in S
  PROVE  0..n \subseteq S
<1> DEFINE out == 0..n \ S
<1>1. ASSUME out # {} PROVE FALSE
  <2>1. PICK x \in out : \A y \in out : x <= y
    <3>1. out \subseteq Nat
      OBVIOUS
    <3> HIDE DEF out
    <3> QED
      BY <1>1, <3>1, SmallestNumber
  <2>2. x \in 1..n /\ x - 1 \in 0..n
    OBVIOUS
  <2>3. x - 1 \notin out
    BY <2>1, <2>2
  <2> QED
    BY <2>1, <2>2, <2>3
<1> QED
  BY <1>1

\* Of the members of a set of finite sets, one holds no other.
LEMMA SmallestSet ==
  ASSUME NEW D, IsFiniteSet(D), NEW F, F \subseteq SUBSET D, F # {}
  PROVE  \E T \in F : \A U \in F : U \subseteq T => U = T
<1>1. F \subseteq FiniteSubsetsOf(D)
  BY FS_FiniteSubsetsOfFinite
<1>2. IsWellFoundedOn(StrictSubsetOrdering(D), FiniteSubsetsOf(D))
  BY FS_StrictSubsetOrderingWellFounded
<1>3. PICK T \in F : \A U \in F : ~ (<<U, T>> \in StrictSubsetOrdering(D))
  BY <1>1, <1>2, WFMin
<1> QED
  BY <1>3 DEF StrictSubsetOrdering

\* Max is the largest of some positions of a list.
LEMMA LargestPosition ==
  ASSUME NEW n \in Nat, NEW T, T \subseteq 1..n, T # {}
  PROVE  Max(T) \in T /\ \A y \in T : Max(T) >= y
<1> DEFINE bounds == {u \in Nat : \A y \in T : y <= u}
<1>1. n \in bounds
  OBVIOUS
<1>2. PICK u \in bounds : \A v \in bounds : u <= v
  <2> bounds \subseteq Nat
    OBVIOUS
  <2> HIDE DEF bounds
  <2> QED
    BY <1>1, SmallestNumber
<1>3. ASSUME u \notin T PROVE FALSE
  <2>1. \A z \in T : z \in 1..n /\ z <= u /\ z # u
    BY <1>3
  <2>2. u # 0
    <3>1. PICK z \in T : TRUE
      OBVIOUS
    <3>2. z \in 1..n /\ z <= u
      BY <2>1
    <3> QED
      BY <3>2
  <2>3. u - 1 \in bounds
    BY <2>1, <2>2
  <2> QED
    BY <2>3, <1>2
<1>4. \E x \in T : \A y \in T : x >= y
  BY <1>3
<1> QED
  BY <1>4 DEF Max

-----------------------------------------------------------------------------
(* Functions defined by recursion over the subsets of a finite set.        *)

Picks(pick, D) == \A T \in SUBSET D : T # {} => pick[T] \in T
Steps(step, X, Y, V) == \A x \in X, y \in Y : step[<<x, y>>] \in V

\* g is given, for a set that is not empty, by the set without what is picked.
Recursive(g, D, base, pick, step) ==
  \A T \in SUBSET D :
    g[T] = IF T = {} THEN base ELSE step[<<pick[T], g[T \ {pick[T]}]>>]

\* There is one, and its values are where base and step stay.
LEMMA SetRecursion ==
  ASSUME NEW D, IsFiniteSet(D), NEW V, NEW base \in V,
         NEW pick, Picks(pick, D),
         NEW step, Steps(step, D, V, V)
  PROVE  \E g \in [SUBSET D -> V] : Recursive(g, D, base, pick, step)
<1> USE DEF Picks, Steps
<1> DEFINE At(g, T) == g[T] = IF T = {} THEN base ELSE step[<<pick[T], g[T \ {pick[T]}]>>]
           Solves(g, T) == g \in [SUBSET T -> V] /\ \A U \in SUBSET T : At(g, U)
<1>1. ASSUME NEW T \in SUBSET D, NEW g, Solves(g, T), NEW h, Solves(h, T)
      PROVE  g = h
  <2> DEFINE apart == {U \in SUBSET T : g[U] # h[U]}
  <2>1. ASSUME apart # {} PROVE FALSE
    <3>1. IsFiniteSet(T)
      BY FS_Subset
    <3>2. apart \subseteq SUBSET T
      OBVIOUS
    <3>3. PICK U \in apart : \A W \in apart : W \subseteq U => W = U
      <4> HIDE DEF apart
      <4> QED
        BY <2>1, <3>1, <3>2, SmallestSet
    <3>4. U \in SUBSET T /\ At(g, U) /\ At(h, U)
      BY <1>1
    <3>5. U # {}
      BY <3>4, <3>3
    <3>6. pick[U] \in U
      BY <3>4, <3>5
    <3>7. U \ {pick[U]} \notin apart
      BY <3>3, <3>6
    <3> QED
      BY <3>3, <3>4, <3>5, <3>6, <3>7
  <2> QED
    BY <1>1, <2>1
<1>2. ASSUME NEW T \in SUBSET D, NEW U \in SUBSET T, NEW g, Solves(g, T)
      PROVE  Solves([W \in SUBSET U |-> g[W]], U)
  <2> DEFINE h == [W \in SUBSET U |-> g[W]]
  <2>1. h \in [SUBSET U -> V]
    BY <1>2
  <2>2. ASSUME NEW W \in SUBSET U PROVE At(h, W)
    <3>1. At(g, W)
      BY <1>2
    <3>2. h[W] = g[W] /\ h[W \ {pick[W]}] = g[W \ {pick[W]}]
      OBVIOUS
    <3> HIDE DEF h
    <3> QED
      BY <3>1, <3>2
  <2> QED
    BY <2>1, <2>2
<1> DEFINE Solution(T) == CHOOSE g : Solves(g, T)
           bad == {T \in SUBSET D : ~ \E g : Solves(g, T)}
<1>3. ASSUME bad # {} PROVE FALSE
  <2>1. bad \subseteq SUBSET D
    OBVIOUS
  <2>2. PICK T \in bad : \A U \in bad : U \subseteq T => U = T
    <3> HIDE DEF bad
    <3> QED
      BY <1>3, <2>1, SmallestSet
  <2>3. T \in SUBSET D
    OBVIOUS
  <2>4. ASSUME NEW U \in SUBSET T, U # T PROVE Solves(Solution(U), U)
    <3>1. U \notin bad
      BY <2>2, <2>4
    <3>2. \E g : Solves(g, U)
      BY <2>3, <3>1
    <3> HIDE DEF Solves
    <3> QED
      BY <3>2
  <2>5. ASSUME NEW U \in SUBSET T, U # T, NEW W \in SUBSET U
        PROVE  Solution(U)[W] = Solution(W)[W]
    <3>1. Solves([X \in SUBSET W |-> Solution(U)[X]], W)
      <4>1. U \in SUBSET D /\ Solves(Solution(U), U)
        BY <2>3, <2>4, <2>5
      <4> HIDE DEF Solves, Solution
      <4> QED
        BY <4>1, <1>2
    <3>2. Solves(Solution(W), W) /\ W \in SUBSET D
      BY <2>3, <2>4, <2>5
    <3>3. Solution(W) = [X \in SUBSET W |-> Solution(U)[X]]
      <4> HIDE DEF Solves, Solution
      <4> QED
        BY <3>1, <3>2, <1>1
    <3> HIDE DEF Solution
    <3> QED
      BY <3>3
  <2> DEFINE rest == T \ {pick[T]}
             g == [U \in SUBSET T |-> IF U # T THEN Solution(U)[U]
                                      ELSE IF T = {} THEN base
                                      ELSE step[<<pick[T], Solution(rest)[rest]>>]]
  <2>6. ASSUME NEW U \in SUBSET T, U # T PROVE Solution(U)[U] \in V
    BY <2>4, <2>6
  <2>7. T # {} => pick[T] \in T /\ rest \in SUBSET T /\ rest # T
    BY <2>3
  <2>8. g \in [SUBSET T -> V]
    <3>1. ASSUME NEW U \in SUBSET T PROVE g[U] \in V
      <4>1. CASE U # T
        BY <4>1, <2>6
      <4>2. CASE U = T /\ T = {}
        BY <4>2
      <4>3. CASE U = T /\ T # {}
        <5>1. Solution(rest)[rest] \in V /\ pick[T] \in D
          BY <2>3, <2>6, <2>7, <4>3
        <5> HIDE DEF Solution, rest
        <5> QED
          BY <4>3, <5>1
      <4> QED
        BY <4>1, <4>2, <4>3
    <3> HIDE DEF Solution
    <3> QED
      BY <3>1
  <2>9. ASSUME NEW U \in SUBSET T PROVE At(g, U)
    <3>1. CASE U = {}
      <4>1. CASE U # T
        <5>1. At(Solution(U), U)
          BY <2>4, <4>1
        <5> HIDE DEF Solution
        <5> QED
          BY <4>1, <5>1, <3>1
      <4>2. CASE U = T
        BY <4>2, <3>1
      <4> QED
        BY <4>1, <4>2
    <3>2. CASE U # {}
      <4> DEFINE W == U \ {pick[U]}
      <4>1. pick[U] \in U
        BY <2>3, <3>2
      <4>2. W \in SUBSET U /\ W # T
        BY <4>1
      <4>3. g[W] = Solution(W)[W]
        <5> HIDE DEF Solution
        <5> QED
          BY <4>2
      <4>4. CASE U # T
        <5>1. At(Solution(U), U)
          BY <2>4, <4>4
        <5>2. Solution(U)[W] = Solution(W)[W]
          BY <2>5, <4>4, <4>2
        <5>3. g[U] = Solution(U)[U]
          BY <4>4
        <5> HIDE DEF Solution, g
        <5> QED
          BY <3>2, <4>3, <5>1, <5>2, <5>3
      <4>5. CASE U = T
        <5>1. g[U] = step[<<pick[T], Solution(W)[W]>>]
          <6> HIDE DEF Solution
          <6> QED
            BY <4>5, <3>2
        <5> HIDE DEF Solution, g
        <5> QED
          BY <3>2, <4>3, <4>5, <5>1
      <4> QED
        BY <4>4, <4>5
    <3> QED
      BY <3>1, <3>2
  <2>10. Solves(g, T)
    <3> HIDE DEF g
    <3> QED
      BY <2>8, <2>9
  <2>11. \E f : Solves(f, T)
    <3> HIDE DEF Solves, g
    <3> QED
      BY <2>10
  <2> QED
    BY <2>2, <2>11
<1>4. \E g : Solves(g, D)
  BY <1>3
<1> QED
  BY <1>4 DEF Recursive

-----------------------------------------------------------------------------
(* FoldLeft                                                                *)

\* The equation that FoldLeft chooses a solution of, for a step given as a function.
FoldEquation(g, list, base, step) ==
  g = [T \in SUBSET DOMAIN list |->
         IF T = {} THEN base ELSE step[<<g[T \ {Max(T)}], list[Max(T)]>>]]

\* It has a solution.
LEMMA FoldSolution ==
  ASSUME NEW E, NEW list \in Seq(E), NEW V, NEW base \in V,
         NEW step, Steps(step, V, E, V)
  PROVE  \E g \in [SUBSET DOMAIN list -> V] : FoldEquation(g, list, base, step)
<1> DEFINE D == DOMAIN list
           pick == [T \in SUBSET D |-> Max(T)]
           next == [p \in D \X V |-> step[<<p[2], list[p[1]]>>]]
<1>1. D = 1..Len(list) /\ Len(list) \in Nat
  OBVIOUS
<1>2. IsFiniteSet(D)
  BY <1>1, FS_Interval
<1>3. ASSUME NEW T \in SUBSET D, T # {} PROVE pick[T] \in T /\ pick[T] = Max(T)
  BY <1>1, <1>3, LargestPosition
<1>4. Picks(pick, D)
  BY <1>3 DEF Picks
<1>5. Steps(next, D, V, V)
  <2>1. ASSUME NEW x \in D, NEW v \in V PROVE next[<<x, v>>] \in V
    <3>1. list[x] \in E /\ next[<<x, v>>] = step[<<v, list[x]>>]
      BY <1>1
    <3> QED
      BY <3>1 DEF Steps
  <2> QED
    BY <2>1 DEF Steps
<1>6. PICK g \in [SUBSET D -> V] : Recursive(g, D, base, pick, next)
  <2> HIDE DEF D, pick, next
  <2> QED
    BY <1>2, <1>4, <1>5, SetRecursion
<1>7. ASSUME NEW T \in SUBSET D
      PROVE  g[T] = IF T = {} THEN base ELSE step[<<g[T \ {Max(T)}], list[Max(T)]>>]
  <2>1. g[T] = IF T = {} THEN base ELSE next[<<pick[T], g[T \ {pick[T]}]>>]
    BY <1>6 DEF Recursive
  <2>2. CASE T = {}
    BY <2>1, <2>2
  <2>3. CASE T # {}
    <3>1. pick[T] = Max(T) /\ Max(T) \in D /\ g[T \ {Max(T)}] \in V
      BY <1>3, <2>3
    <3>2. g[T] = next[<<Max(T), g[T \ {Max(T)}]>>]
      BY <2>1, <2>3, <3>1
    <3> QED
      BY <2>3, <3>1, <3>2
  <2> QED
    BY <2>2, <2>3
<1> QED
  BY <1>7 DEF FoldEquation

\* The largest of the first k positions is k, and without it they are the first k - 1.
LEMMA LastOfFirst ==
  ASSUME NEW k \in Nat, k # 0
  PROVE  Max(1..k) = k /\ (1..k) \ {k} = 1..(k - 1)
<1> DEFINE T == 1..k
<1>1. T \subseteq 1..k /\ k \in T
  OBVIOUS
<1>2. Max(T) \in T /\ \A y \in T : Max(T) >= y
  <2>1. T # {}
    BY <1>1
  <2> HIDE DEF T
  <2> QED
    BY <1>1, <2>1, LargestPosition
<1> QED
  BY <1>1, <1>2

\* h goes through the results of a loop, one for each number of turns.
Turns(h, list, base, step) ==
  /\ h[0] = base
  /\ \A k \in 1..Len(list) : h[k] = step[<<h[k - 1], list[k]>>]

\* What FoldLeft chooses does what step does, as long as its values stay in V.
Follows(it, list, V, base, step) ==
  /\ it[{}] = base
  /\ \A T \in SUBSET DOMAIN list :
       T # {} /\ it[T \ {Max(T)}] \in V => it[T] = step[<<it[T \ {Max(T)}], list[Max(T)]>>]

\* Then they do, and its value for the whole list is that of the last turn.
LEMMA FoldRuns ==
  ASSUME NEW E, NEW list \in Seq(E), NEW V, NEW base \in V,
         NEW step, Steps(step, V, E, V), NEW it, Follows(it, list, V, base, step)
  PROVE  \E h \in [0..Len(list) -> V] :
           Turns(h, list, base, step) /\ h[Len(list)] = it[DOMAIN list]
<1> DEFINE h == [k \in 0..Len(list) |-> it[1..k]]
           n == Len(list)
           typed == {k \in 0..n : h[k] \in V}
<1>1. n \in Nat /\ DOMAIN list = 1..n
  OBVIOUS
<1>2. h[0] = base
  <2>1. 1..0 = {}
    OBVIOUS
  <2> QED
    BY <1>1, <2>1 DEF Follows
<1>3. ASSUME NEW k \in 1..n, h[k - 1] \in V PROVE h[k] = step[<<h[k - 1], list[k]>>]
  <2>1. 1..k \in SUBSET DOMAIN list /\ 1..k # {}
    <3>1. k \in Nat /\ 1 <= k /\ k <= n /\ k \in 1..k
      BY <1>1
    <3>2. 1..k \subseteq 1..n
      BY <1>1, <3>1
    <3> QED
      BY <1>1, <3>1, <3>2
  <2>2. Max(1..k) = k /\ (1..k) \ {k} = 1..(k - 1)
    BY <1>1, LastOfFirst
  <2>3. h[k] = it[1..k] /\ h[k - 1] = it[1..(k - 1)]
    BY <1>1
  <2>4. it[(1..k) \ {Max(1..k)}] \in V
    BY <1>3, <2>2, <2>3
  <2>5. it[1..k] = step[<<it[(1..k) \ {Max(1..k)}], list[Max(1..k)]>>]
    BY <2>1, <2>4 DEF Follows
  <2> QED
    BY <2>2, <2>3, <2>5
<1>4. 0..n \subseteq typed
  <2>1. 0 \in typed
    BY <1>1, <1>2
  <2>2. ASSUME NEW k \in 1..n, k - 1 \in typed PROVE k \in typed
    <3>1. h[k - 1] \in V /\ list[k] \in E
      BY <1>1, <2>2
    <3>2. step[<<h[k - 1], list[k]>>] \in V
      BY <3>1 DEF Steps
    <3>3. h[k] = step[<<h[k - 1], list[k]>>]
      BY <1>3, <3>1
    <3>4. k \in 0..n
      BY <1>1
    <3> HIDE DEF h
    <3> QED
      BY <3>2, <3>3, <3>4
  <2> HIDE DEF typed, n
  <2> QED
    BY <1>1, <2>1, <2>2, CountUp
<1>5. h \in [0..n -> V] /\ \A k \in 1..n : h[k - 1] \in V
  BY <1>1, <1>4
<1>6. Turns(h, list, base, step)
  BY <1>2, <1>3, <1>5 DEF Turns
<1>7. h[n] = it[DOMAIN list]
  BY <1>1
<1> QED
  BY <1>5, <1>6, <1>7

\* The arguments a step gets in a fold.
LEMMA FoldArguments ==
  ASSUME NEW E, NEW list \in Seq(E), NEW T \in SUBSET DOMAIN list, T # {}
  PROVE  Max(T) \in DOMAIN list /\ list[Max(T)] \in E
<1>1. DOMAIN list = 1..Len(list) /\ Len(list) \in Nat
  OBVIOUS
<1>2. Max(T) \in DOMAIN list
  BY <1>1, LargestPosition
<1> QED
  BY <1>2

-----------------------------------------------------------------------------
(* Select                                                                  *)

\* One turn of the loop.
KeepTurn(S, E) == [p \in Seq(E) \X E |-> IF p[2] \in S THEN Append(p[1], p[2]) ELSE p[1]]

\* What the loop has kept after each turn.
LEMMA SelectRuns ==
  ASSUME NEW E, NEW list \in Seq(E), NEW S
  PROVE  \E h \in [0..Len(list) -> Seq(E)] :
           Turns(h, list, <<>>, KeepTurn(S, E)) /\ h[Len(list)] = Select(list, S)
<1> DEFINE V == Seq(E)
           step == KeepTurn(S, E)
           start == <<>>
           Eqn(g) == g = [T \in SUBSET DOMAIN list |->
                            IF T = {} THEN <<>>
                            ELSE IF list[Max(T)] \in S THEN Append(g[T \ {Max(T)}], list[Max(T)]) ELSE g[T \ {Max(T)}]]
           it == CHOOSE g : Eqn(g)
<1>1. start \in V /\ Steps(step, V, E, V)
  BY DEF Steps, KeepTurn
<1>2. ASSUME NEW f, NEW T \in SUBSET DOMAIN list, T # {}, f[T \ {Max(T)}] \in V
      PROVE  step[<<f[T \ {Max(T)}], list[Max(T)]>>]
               = IF list[Max(T)] \in S THEN Append(f[T \ {Max(T)}], list[Max(T)]) ELSE f[T \ {Max(T)}]
  <2>1. list[Max(T)] \in E
    BY <1>2, FoldArguments
  <2> QED
    BY <1>2, <2>1 DEF KeepTurn
<1>3. \E g : Eqn(g)
  <2>1. PICK g \in [SUBSET DOMAIN list -> V] : FoldEquation(g, list, start, step)
    <3> HIDE DEF V, step, start
    <3> QED
      BY <1>1, FoldSolution
  <2>2. \A T \in SUBSET DOMAIN list : g[T \ {Max(T)}] \in V
    BY <2>1
  <2>3. Eqn(g)
    <3> HIDE DEF step, V
    <3> QED
      BY <1>2, <2>1, <2>2 DEF FoldEquation
  <2> QED
    BY <2>3
<1>4. Eqn(it)
  <2> HIDE DEF Eqn
  <2> QED
    BY <1>3
<1>5. Follows(it, list, V, start, step)
  <2>1. it[{}] = start
    BY <1>4
  <2>2. ASSUME NEW T \in SUBSET DOMAIN list, T # {}, it[T \ {Max(T)}] \in V
        PROVE  it[T] = step[<<it[T \ {Max(T)}], list[Max(T)]>>]
    <3>1. it[T] = IF list[Max(T)] \in S THEN Append(it[T \ {Max(T)}], list[Max(T)]) ELSE it[T \ {Max(T)}]
      BY <1>4, <2>2
    <3> HIDE DEF it, step, V
    <3> QED
      BY <1>2, <2>2, <3>1
  <2> HIDE DEF it, step, V, start
  <2> QED
    BY <2>1, <2>2 DEF Follows
<1>6. Select(list, S) = it[DOMAIN list]
  BY DEF Select, FoldLeft, MapThenFoldSet
<1>7. \E h \in [0..Len(list) -> V] :
        Turns(h, list, start, step) /\ h[Len(list)] = it[DOMAIN list]
  <2> HIDE DEF V, step, start, it
  <2> QED
    BY <1>1, <1>5, FoldRuns
<1> HIDE DEF it
<1> QED
  BY <1>6, <1>7

\* The positions at of those kept, and what is there: all that are in S among the
\* first n, in order.
Picked(at, sel, list, S, n) ==
  /\ Len(at) = Len(sel)
  /\ \A j \in 1..Len(at) : at[j] \in 1..n /\ list[at[j]] \in S /\ sel[j] = list[at[j]]
  /\ \A i, j \in 1..Len(at) : i < j => at[i] < at[j]
  /\ \A i \in 1..n : list[i] \in S => \E j \in 1..Len(at) : at[j] = i

\* One more turn of both loops.
LEMMA PickedNext ==
  ASSUME NEW E, NEW list \in Seq(E), NEW S, NEW n \in 1..Len(list),
         NEW at \in Seq(Nat), NEW sel \in Seq(E), Picked(at, sel, list, S, n - 1)
  PROVE  IF list[n] \in S THEN Picked(Append(at, n), Append(sel, list[n]), list, S, n)
                          ELSE Picked(at, sel, list, S, n)
<1>1. n \in Nat /\ n - 1 \in Nat /\ 1..n = 1..(n - 1) \cup {n} /\ n \notin 1..(n - 1)
  OBVIOUS
<1>2. Len(at) \in Nat /\ Len(at) = Len(sel) /\ list[n] \in E
  BY DEF Picked
<1>3. CASE list[n] \notin S
  BY <1>1, <1>3 DEF Picked
<1>4. CASE list[n] \in S
  <2> DEFINE m == Len(at)
             aa == Append(at, n)
             ss == Append(sel, list[n])
  <2>1. Len(aa) = m + 1 /\ Len(ss) = m + 1 /\ aa[m + 1] = n /\ ss[m + 1] = list[n]
    BY <1>1, <1>2
  <2>2. \A j \in 1..m : aa[j] = at[j] /\ ss[j] = sel[j]
    BY <1>1, <1>2
  <2>3. 1..(m + 1) = 1..m \cup {m + 1} /\ m + 1 \notin 1..m
    BY <1>2
  <2>4. \A j \in 1..m : at[j] \in 1..(n - 1) /\ list[at[j]] \in S /\ sel[j] = list[at[j]]
    BY DEF Picked
  <2>5. \A i, j \in 1..m : i < j => at[i] < at[j]
    BY DEF Picked
  <2>6. \A i \in 1..(n - 1) : list[i] \in S => \E j \in 1..m : at[j] = i
    BY DEF Picked
  <2> HIDE DEF aa, ss, m
  <2>7. \A j \in 1..(m + 1) : aa[j] \in 1..n /\ list[aa[j]] \in S /\ ss[j] = list[aa[j]]
    BY <1>1, <1>4, <2>1, <2>2, <2>3, <2>4
  <2>8. \A i, j \in 1..(m + 1) : i < j => aa[i] < aa[j]
    <3> SUFFICES ASSUME NEW i \in 1..(m + 1), NEW j \in 1..(m + 1), i < j
                 PROVE  aa[i] < aa[j]
      OBVIOUS
    <3>1. m \in Nat
      BY <1>2 DEF m
    <3>2. i \in 1..m
      BY <3>1
    <3>3. CASE j = m + 1
      <4>1. at[i] \in 1..(n - 1) /\ aa[i] = at[i] /\ aa[j] = n
        BY <2>1, <2>2, <2>4, <3>2, <3>3
      <4> QED
        BY <1>1, <4>1
    <3>4. CASE j \in 1..m
      BY <2>2, <2>5, <3>2, <3>4
    <3> QED
      BY <2>3, <3>3, <3>4
  <2>9. \A i \in 1..n : list[i] \in S => \E j \in 1..(m + 1) : aa[j] = i
    <3> SUFFICES ASSUME NEW i \in 1..n, list[i] \in S PROVE \E j \in 1..(m + 1) : aa[j] = i
      OBVIOUS
    <3>1. CASE i = n
      BY <2>1, <2>3, <3>1
    <3>2. CASE i \in 1..(n - 1)
      BY <2>2, <2>3, <2>6, <3>2
    <3> QED
      BY <1>1, <3>1, <3>2
  <2>10. Picked(aa, ss, list, S, n)
    BY <2>1, <2>7, <2>8, <2>9 DEF Picked
  <2> QED
    BY <1>4, <2>10 DEF aa, ss
<1> QED
  BY <1>3, <1>4

\* Filtering a list and filtering its positions by what is there go together.
Positions(list) == [i \in DOMAIN list |-> i]
Where(list, S) == {i \in DOMAIN list : list[i] \in S}

LEMMA SelectPositions ==
  ASSUME NEW E, NEW list \in Seq(E), NEW S
  PROVE  /\ Select(list, S) \in Seq(E)
         /\ Select(Positions(list), Where(list, S)) \in Seq(Nat)
         /\ Picked(Select(Positions(list), Where(list, S)), Select(list, S), list, S, Len(list))
<1> DEFINE n == Len(list)
           K == Where(list, S)
           all == Positions(list)
<1>1. n \in Nat /\ DOMAIN list = 1..n /\ all \in Seq(Nat) /\ Len(all) = n
  BY DEF Positions
<1>2. PICK h \in [0..n -> Seq(E)] :
        /\ h[0] = <<>>
        /\ \A k \in 1..n : h[k] = IF list[k] \in S THEN Append(h[k - 1], list[k]) ELSE h[k - 1]
        /\ h[n] = Select(list, S)
  <2>1. PICK h \in [0..n -> Seq(E)] :
          Turns(h, list, <<>>, KeepTurn(S, E)) /\ h[n] = Select(list, S)
    BY SelectRuns
  <2>2. h[0] = <<>> /\ h[n] = Select(list, S)
    BY <2>1 DEF Turns
  <2>3. ASSUME NEW k \in 1..n
        PROVE  h[k] = IF list[k] \in S THEN Append(h[k - 1], list[k]) ELSE h[k - 1]
    <3>1. k - 1 \in 0..n /\ list[k] \in E
      BY <1>1
    <3>2. h[k - 1] \in Seq(E)
      BY <2>1, <3>1
    <3>3. h[k] = KeepTurn(S, E)[<<h[k - 1], list[k]>>]
      BY <2>1 DEF Turns
    <3> QED
      BY <3>1, <3>2, <3>3 DEF KeepTurn
  <2> HIDE DEF n
  <2> QED
    BY <2>2, <2>3
<1>3. PICK p \in [0..n -> Seq(Nat)] :
        /\ p[0] = <<>>
        /\ \A k \in 1..n : p[k] = IF all[k] \in K THEN Append(p[k - 1], all[k]) ELSE p[k - 1]
        /\ p[n] = Select(all, K)
  <2>1. PICK p \in [0..n -> Seq(Nat)] :
          Turns(p, all, <<>>, KeepTurn(K, Nat)) /\ p[n] = Select(all, K)
    <3> HIDE DEF all, K, n
    <3> QED
      BY <1>1, SelectRuns
  <2>2. p[0] = <<>> /\ p[n] = Select(all, K)
    BY <2>1 DEF Turns
  <2>3. ASSUME NEW k \in 1..n
        PROVE  p[k] = IF all[k] \in K THEN Append(p[k - 1], all[k]) ELSE p[k - 1]
    <3>1. k - 1 \in 0..n /\ all[k] \in Nat
      BY <1>1
    <3>2. p[k - 1] \in Seq(Nat)
      BY <2>1, <3>1
    <3>3. p[k] = KeepTurn(K, Nat)[<<p[k - 1], all[k]>>]
      <4> HIDE DEF all, K
      <4> QED
        BY <1>1, <2>1 DEF Turns
    <3> HIDE DEF all, K, n
    <3> QED
      BY <3>1, <3>2, <3>3 DEF KeepTurn
  <2> HIDE DEF all, K, n
  <2> QED
    BY <2>2, <2>3
<1>4. \A k \in 1..n : all[k] = k /\ (k \in K <=> list[k] \in S)
  BY <1>1 DEF Positions, Where
<1> DEFINE good == {k \in 0..n : Picked(p[k], h[k], list, S, k)}
<1>5. 0..n \subseteq good
  <2>1. 0 \in good
    BY <1>1, <1>2, <1>3 DEF Picked
  <2>2. ASSUME NEW k \in 1..n, k - 1 \in good PROVE k \in good
    <3>1. Picked(p[k - 1], h[k - 1], list, S, k - 1) /\ k - 1 \in 0..n
      BY <2>2
    <3>2. p[k - 1] \in Seq(Nat) /\ h[k - 1] \in Seq(E)
      BY <1>2, <1>3, <3>1
    <3>3. IF list[k] \in S
          THEN Picked(Append(p[k - 1], k), Append(h[k - 1], list[k]), list, S, k)
          ELSE Picked(p[k - 1], h[k - 1], list, S, k)
      BY <3>1, <3>2, PickedNext
    <3>4. Picked(p[k], h[k], list, S, k)
      <4> HIDE DEF all, K
      <4> QED
        BY <1>2, <1>3, <1>4, <3>3
    <3> QED
      BY <3>4
  <2> HIDE DEF good, n
  <2> QED
    BY <1>1, <2>1, <2>2, CountUp
<1>6. Picked(p[n], h[n], list, S, n)
  BY <1>1, <1>5
<1> QED
  BY <1>1, <1>2, <1>3, <1>6

\* What filtering leaves of a list.
LEMMA SelectMembers ==
  ASSUME NEW E, NEW list \in Seq(E), NEW S
  PROVE  /\ Select(list, S) \in Seq(E)
         /\ ToSet(Select(list, S)) = ToSet(list) \cap S
<1> DEFINE at == Select(Positions(list), Where(list, S))
           sel == Select(list, S)
<1>1. sel \in Seq(E) /\ at \in Seq(Nat) /\ Picked(at, sel, list, S, Len(list))
  BY SelectPositions
<1>2. ASSUME NEW x \in ToSet(sel) PROVE x \in ToSet(list) /\ x \in S
  <2>1. PICK j \in DOMAIN sel : sel[j] = x
    BY DEF ToSet
  <2>2. j \in 1..Len(at)
    BY <1>1 DEF Picked
  <2>3. at[j] \in DOMAIN list /\ list[at[j]] \in S /\ sel[j] = list[at[j]]
    BY <1>1, <2>2 DEF Picked
  <2> QED
    BY <2>1, <2>3 DEF ToSet
<1>3. ASSUME NEW x \in ToSet(list), x \in S PROVE x \in ToSet(sel)
  <2>1. PICK i \in DOMAIN list : list[i] = x
    BY DEF ToSet
  <2>2. PICK j \in 1..Len(at) : at[j] = i
    <3>1. i \in 1..Len(list) /\ list[i] \in S
      BY <1>3, <2>1
    <3> HIDE DEF at, sel
    <3> QED
      BY <1>1, <3>1 DEF Picked
  <2>3. j \in DOMAIN sel /\ sel[j] = x
    BY <1>1, <2>1, <2>2 DEF Picked
  <2> QED
    BY <2>3 DEF ToSet
<1> HIDE DEF sel
<1> QED
  BY <1>1, <1>2, <1>3 DEF sel

-----------------------------------------------------------------------------
(* Distinct                                                                *)

\* One turn of the loop.
SeeTurn(E) ==
  [p \in Seq(E) \X E |-> IF p[2] \in ToSet(p[1]) THEN p[1] ELSE Append(p[1], p[2])]

\* What the loop has seen after each turn.
LEMMA DistinctRuns ==
  ASSUME NEW E, NEW list \in Seq(E)
  PROVE  \E h \in [0..Len(list) -> Seq(E)] :
           Turns(h, list, <<>>, SeeTurn(E)) /\ h[Len(list)] = Distinct(list)
<1> DEFINE V == Seq(E)
           step == SeeTurn(E)
           start == <<>>
           Eqn(g) == g = [T \in SUBSET DOMAIN list |->
                            IF T = {} THEN <<>>
                            ELSE IF list[Max(T)] \in ToSet(g[T \ {Max(T)}]) THEN g[T \ {Max(T)}] ELSE Append(g[T \ {Max(T)}], list[Max(T)])]
           it == CHOOSE g : Eqn(g)
<1>1. start \in V /\ Steps(step, V, E, V)
  BY DEF Steps, SeeTurn
<1>2. ASSUME NEW f, NEW T \in SUBSET DOMAIN list, T # {}, f[T \ {Max(T)}] \in V
      PROVE  step[<<f[T \ {Max(T)}], list[Max(T)]>>]
               = IF list[Max(T)] \in ToSet(f[T \ {Max(T)}]) THEN f[T \ {Max(T)}] ELSE Append(f[T \ {Max(T)}], list[Max(T)])
  <2>1. list[Max(T)] \in E
    BY <1>2, FoldArguments
  <2> QED
    BY <1>2, <2>1 DEF SeeTurn
<1>3. \E g : Eqn(g)
  <2>1. PICK g \in [SUBSET DOMAIN list -> V] : FoldEquation(g, list, start, step)
    <3> HIDE DEF V, step, start
    <3> QED
      BY <1>1, FoldSolution
  <2>2. \A T \in SUBSET DOMAIN list : g[T \ {Max(T)}] \in V
    BY <2>1
  <2>3. Eqn(g)
    <3> HIDE DEF step, V
    <3> QED
      BY <1>2, <2>1, <2>2 DEF FoldEquation
  <2> QED
    BY <2>3
<1>4. Eqn(it)
  <2> HIDE DEF Eqn
  <2> QED
    BY <1>3
<1>5. Follows(it, list, V, start, step)
  <2>1. it[{}] = start
    BY <1>4
  <2>2. ASSUME NEW T \in SUBSET DOMAIN list, T # {}, it[T \ {Max(T)}] \in V
        PROVE  it[T] = step[<<it[T \ {Max(T)}], list[Max(T)]>>]
    <3>1. it[T] = IF list[Max(T)] \in ToSet(it[T \ {Max(T)}]) THEN it[T \ {Max(T)}] ELSE Append(it[T \ {Max(T)}], list[Max(T)])
      BY <1>4, <2>2
    <3> HIDE DEF it, step, V
    <3> QED
      BY <1>2, <2>2, <3>1
  <2> HIDE DEF it, step, V, start
  <2> QED
    BY <2>1, <2>2 DEF Follows
<1>6. Distinct(list) = it[DOMAIN list]
  BY DEF Distinct, FoldLeft, MapThenFoldSet
<1>7. \E h \in [0..Len(list) -> V] :
        Turns(h, list, start, step) /\ h[Len(list)] = it[DOMAIN list]
  <2> HIDE DEF V, step, start, it
  <2> QED
    BY <1>1, <1>5, FoldRuns
<1> HIDE DEF it
<1> QED
  BY <1>6, <1>7

\* Each member once.
LEMMA DistinctMembers ==
  ASSUME NEW E, NEW list \in Seq(E)
  PROVE  /\ Distinct(list) \in Seq(E)
         /\ ToSet(Distinct(list)) = ToSet(list)
         /\ IsInjective(Distinct(list))
<1> DEFINE n == Len(list)
           First(k) == {list[i] : i \in 1..k}
           start == <<>>
<1>1. n \in Nat /\ DOMAIN list = 1..n /\ ToSet(list) = First(n)
  BY DEF ToSet
<1>2. PICK h \in [0..n -> Seq(E)] : Turns(h, list, start, SeeTurn(E)) /\ h[n] = Distinct(list)
  BY DistinctRuns
<1> DEFINE good == {k \in 0..n : ToSet(h[k]) = First(k) /\ IsInjective(h[k])}
<1>3. 0..n \subseteq good
  <2>1. 0 \in good
    <3>1. h[0] = start
      BY <1>2 DEF Turns
    <3>2. ToSet(start) = {} /\ IsInjective(start)
      BY DEF ToSet, IsInjective
    <3>3. First(0) = {}
      OBVIOUS
    <3> QED
      BY <1>1, <3>1, <3>2, <3>3
  <2>2. ASSUME NEW k \in 1..n, k - 1 \in good PROVE k \in good
    <3> DEFINE s == h[k - 1]
    <3>1. k - 1 \in 0..n /\ k \in 0..n /\ list[k] \in E
      BY <1>1
    <3>2. s \in Seq(E)
      BY <1>2, <3>1
    <3>3. h[k] = SeeTurn(E)[<<s, list[k]>>]
      BY <1>2 DEF Turns
    <3>4. h[k] = IF list[k] \in ToSet(s) THEN s ELSE Append(s, list[k])
      BY <3>1, <3>2, <3>3 DEF SeeTurn
    <3>5. First(k) = First(k - 1) \cup {list[k]}
      <4>1. 1..k = 1..(k - 1) \cup {k}
        BY <1>1
      <4> QED
        BY <4>1
    <3>6. ToSet(s) = First(k - 1) /\ IsInjective(s)
      BY <2>2
    <3> HIDE DEF s, First
    <3>7. CASE list[k] \in ToSet(s)
      BY <3>1, <3>4, <3>5, <3>6, <3>7
    <3>8. CASE list[k] \notin ToSet(s)
      <4> DEFINE t == Append(s, list[k])
      <4>1. Len(s) \in Nat /\ DOMAIN s = 1..Len(s)
        BY <3>2
      <4>2. DOMAIN t = 1..Len(s) \cup {Len(s) + 1} /\ t[Len(s) + 1] = list[k]
        BY <3>1, <3>2, <4>1
      <4>3. \A i \in 1..Len(s) : t[i] = s[i]
        BY <3>1, <3>2, <4>1
      <4> HIDE DEF t
      <4>4. ToSet(t) = ToSet(s) \cup {list[k]}
        BY <4>1, <4>2, <4>3 DEF ToSet
      <4>5. IsInjective(t)
        <5>1. \A i \in 1..Len(s) : t[i] # list[k]
          BY <3>8, <4>1, <4>3 DEF ToSet
        <5>2. \A i, j \in 1..Len(s) : t[i] = t[j] => i = j
          BY <3>6, <4>1, <4>3 DEF IsInjective
        <5> QED
          BY <4>2, <5>1, <5>2 DEF IsInjective
      <4> QED
        BY <3>1, <3>4, <3>5, <3>6, <3>8, <4>4, <4>5 DEF t
    <3> QED
      BY <3>7, <3>8
  <2> HIDE DEF good, n
  <2> QED
    BY <1>1, <2>1, <2>2, CountUp
<1>4. ToSet(h[n]) = First(n) /\ IsInjective(h[n]) /\ h[n] \in Seq(E)
  BY <1>1, <1>2, <1>3
<1> QED
  BY <1>1, <1>2, <1>4

-----------------------------------------------------------------------------
(* Concatenated                                                            *)

\* One turn of the loop.
JoinTurn(E) == [p \in Seq(E) \X Seq(E) |-> p[1] \o p[2]]

\* What the loop has put together after each turn.
LEMMA ConcatenatedRuns ==
  ASSUME NEW E, NEW lists \in Seq(Seq(E))
  PROVE  \E h \in [0..Len(lists) -> Seq(E)] :
           Turns(h, lists, <<>>, JoinTurn(E)) /\ h[Len(lists)] = Concatenated(lists)
<1> DEFINE V == Seq(E)
           step == JoinTurn(E)
           start == <<>>
           Eqn(g) == g = [T \in SUBSET DOMAIN lists |->
                            IF T = {} THEN <<>>
                            ELSE g[T \ {Max(T)}] \o lists[Max(T)]]
           it == CHOOSE g : Eqn(g)
<1>1. start \in V /\ Steps(step, V, Seq(E), V)
  <2>1. ASSUME NEW v \in V, NEW x \in Seq(E) PROVE step[<<v, x>>] \in V
    <3>1. step[<<v, x>>] = v \o x
      BY DEF JoinTurn
    <3>2. v \o x \in Seq(E)
      BY ConcatProperties
    <3> QED
      BY <3>1, <3>2
  <2>2. start \in V
    OBVIOUS
  <2> HIDE DEF step, V, start
  <2> QED
    BY <2>1, <2>2 DEF Steps
<1>2. ASSUME NEW f, NEW T \in SUBSET DOMAIN lists, T # {}, f[T \ {Max(T)}] \in V
      PROVE  step[<<f[T \ {Max(T)}], lists[Max(T)]>>]
               = f[T \ {Max(T)}] \o lists[Max(T)]
  <2>1. lists[Max(T)] \in Seq(E)
    BY <1>2, FoldArguments
  <2> QED
    BY <1>2, <2>1 DEF JoinTurn
<1>3. \E g : Eqn(g)
  <2>1. PICK g \in [SUBSET DOMAIN lists -> V] : FoldEquation(g, lists, start, step)
    <3> HIDE DEF V, step, start
    <3> QED
      BY <1>1, FoldSolution
  <2>2. \A T \in SUBSET DOMAIN lists : g[T \ {Max(T)}] \in V
    BY <2>1
  <2>3. Eqn(g)
    <3> HIDE DEF step, V
    <3> QED
      BY <1>2, <2>1, <2>2 DEF FoldEquation
  <2> QED
    BY <2>3
<1>4. Eqn(it)
  <2> HIDE DEF Eqn
  <2> QED
    BY <1>3
<1>5. Follows(it, lists, V, start, step)
  <2>1. it[{}] = start
    BY <1>4
  <2>2. ASSUME NEW T \in SUBSET DOMAIN lists, T # {}, it[T \ {Max(T)}] \in V
        PROVE  it[T] = step[<<it[T \ {Max(T)}], lists[Max(T)]>>]
    <3>1. it[T] = it[T \ {Max(T)}] \o lists[Max(T)]
      BY <1>4, <2>2
    <3> HIDE DEF it, step, V
    <3> QED
      BY <1>2, <2>2, <3>1
  <2> HIDE DEF it, step, V, start
  <2> QED
    BY <2>1, <2>2 DEF Follows
<1>6. Concatenated(lists) = it[DOMAIN lists]
  BY DEF Concatenated, FoldLeft, MapThenFoldSet
<1>7. \E h \in [0..Len(lists) -> V] :
        Turns(h, lists, start, step) /\ h[Len(lists)] = it[DOMAIN lists]
  <2> HIDE DEF V, step, start, it
  <2> QED
    BY <1>1, <1>5, FoldRuns
<1> HIDE DEF it
<1> QED
  BY <1>6, <1>7

\* The members of all of them.
LEMMA ConcatenatedMembers ==
  ASSUME NEW E, NEW lists \in Seq(Seq(E))
  PROVE  /\ Concatenated(lists) \in Seq(E)
         /\ ToSet(Concatenated(lists)) = UNION {ToSet(lists[i]) : i \in DOMAIN lists}
<1> DEFINE n == Len(lists)
           First(k) == UNION {ToSet(lists[i]) : i \in 1..k}
           start == <<>>
<1>1. n \in Nat /\ DOMAIN lists = 1..n
  OBVIOUS
<1>2. PICK h \in [0..n -> Seq(E)] : Turns(h, lists, start, JoinTurn(E)) /\ h[n] = Concatenated(lists)
  BY ConcatenatedRuns
<1> DEFINE good == {k \in 0..n : ToSet(h[k]) = First(k)}
<1>3. 0..n \subseteq good
  <2>1. 0 \in good
    <3>1. h[0] = start
      BY <1>2 DEF Turns
    <3>2. ToSet(start) = {} /\ First(0) = {}
      BY DEF ToSet
    <3> QED
      BY <1>1, <3>1, <3>2
  <2>2. ASSUME NEW k \in 1..n, k - 1 \in good PROVE k \in good
    <3> DEFINE s == h[k - 1]
               t == lists[k]
               m == Len(s)
    <3>1. k - 1 \in 0..n /\ k \in 0..n /\ t \in Seq(E)
      BY <1>1
    <3>2. s \in Seq(E)
      BY <1>2, <3>1
    <3>3. h[k] = JoinTurn(E)[<<s, t>>]
      BY <1>2 DEF Turns
    <3>4. h[k] = s \o t
      BY <3>1, <3>2, <3>3 DEF JoinTurn
    <3>5. First(k) = First(k - 1) \cup ToSet(t)
      <4>1. 1..k = 1..(k - 1) \cup {k}
        BY <1>1
      <4> QED
        BY <4>1
    <3>6. ToSet(s \o t) = ToSet(s) \cup ToSet(t)
      <4> HIDE DEF s, t
      <4>1. ToSet(s) = Range(s) /\ ToSet(t) = Range(t) /\ ToSet(s \o t) = Range(s \o t)
        BY DEF ToSet, Range
      <4> QED
        BY <3>1, <3>2, <4>1, RangeConcatenation
    <3>7. ToSet(s) = First(k - 1)
      BY <2>2
    <3> HIDE DEF s, First, t
    <3> QED
      BY <3>1, <3>4, <3>5, <3>6, <3>7
  <2> HIDE DEF good, n
  <2> QED
    BY <1>1, <2>1, <2>2, CountUp
<1> QED
  BY <1>1, <1>2, <1>3

-----------------------------------------------------------------------------
(* Total                                                                   *)

\* One turn of the loop.
AddTurn == [p \in Int \X Int |-> p[1] + p[2]]

\* The sum after each turn.
LEMMA TotalRuns ==
  ASSUME NEW list \in Seq(Int)
  PROVE  \E h \in [0..Len(list) -> Int] :
           /\ h[0] = 0 /\ h[Len(list)] = Total(list)
           /\ \A k \in 1..Len(list) : h[k] = h[k - 1] + list[k]
<1> DEFINE V == Int
           n == Len(list)
           step == AddTurn
           start == 0
           Eqn(g) == g = [T \in SUBSET DOMAIN list |->
                            IF T = {} THEN 0 ELSE g[T \ {Max(T)}] + list[Max(T)]]
           it == CHOOSE g : Eqn(g)
<1>1. start \in V /\ Steps(step, V, Int, V)
  BY DEF Steps, AddTurn
<1>2. ASSUME NEW f, NEW T \in SUBSET DOMAIN list, T # {}, f[T \ {Max(T)}] \in V
      PROVE  step[<<f[T \ {Max(T)}], list[Max(T)]>>] = f[T \ {Max(T)}] + list[Max(T)]
  <2>1. list[Max(T)] \in Int
    BY <1>2, FoldArguments
  <2> QED
    BY <1>2, <2>1 DEF AddTurn
<1>3. \E g : Eqn(g)
  <2>1. PICK g \in [SUBSET DOMAIN list -> V] : FoldEquation(g, list, start, step)
    <3> HIDE DEF V, step, start
    <3> QED
      BY <1>1, FoldSolution
  <2>2. \A T \in SUBSET DOMAIN list : g[T \ {Max(T)}] \in V
    BY <2>1
  <2>3. Eqn(g)
    <3> HIDE DEF step, V
    <3> QED
      BY <1>2, <2>1, <2>2 DEF FoldEquation
  <2> QED
    BY <2>3
<1>4. Eqn(it)
  <2> HIDE DEF Eqn
  <2> QED
    BY <1>3
<1>5. Follows(it, list, V, start, step)
  <2>1. it[{}] = start
    BY <1>4
  <2>2. ASSUME NEW T \in SUBSET DOMAIN list, T # {}, it[T \ {Max(T)}] \in V
        PROVE  it[T] = step[<<it[T \ {Max(T)}], list[Max(T)]>>]
    <3>1. it[T] = it[T \ {Max(T)}] + list[Max(T)]
      BY <1>4, <2>2
    <3> HIDE DEF it, step, V
    <3> QED
      BY <1>2, <2>2, <3>1
  <2> HIDE DEF it, step, V, start
  <2> QED
    BY <2>1, <2>2 DEF Follows
<1>6. Total(list) = it[DOMAIN list]
  BY DEF Total, FoldLeft, MapThenFoldSet
<1>7. PICK h \in [0..n -> V] : Turns(h, list, start, step) /\ h[n] = it[DOMAIN list]
  <2> HIDE DEF V, step, start, it
  <2> QED
    BY <1>1, <1>5, FoldRuns
<1>8. ASSUME NEW k \in 1..n PROVE h[k] = h[k - 1] + list[k]
  <2>1. k - 1 \in 0..n /\ list[k] \in Int
    OBVIOUS
  <2>2. h[k - 1] \in Int
    BY <1>7, <2>1
  <2>3. h[k] = step[<<h[k - 1], list[k]>>]
    BY <1>7 DEF Turns
  <2> QED
    BY <2>1, <2>2, <2>3 DEF AddTurn
<1>9. h[0] = 0 /\ h[n] = Total(list)
  BY <1>6, <1>7 DEF Turns
<1> HIDE DEF n, it
<1> QED
  BY <1>7, <1>8, <1>9 DEF n

\* A list no element of which is larger than another's does not add up to more.
LEMMA TotalMonotone ==
  ASSUME NEW list \in Seq(Int), NEW other \in Seq(Int), Len(list) = Len(other),
         \A k \in 1..Len(list) : list[k] <= other[k]
  PROVE  Total(list) \in Int /\ Total(other) \in Int /\ Total(list) <= Total(other)
<1> DEFINE n == Len(list)
<1>1. n \in Nat
  OBVIOUS
<1>2. PICK h \in [0..n -> Int] : /\ h[0] = 0 /\ h[n] = Total(list)
                                 /\ \A k \in 1..n : h[k] = h[k - 1] + list[k]
  BY TotalRuns
<1>3. PICK g \in [0..n -> Int] : /\ g[0] = 0 /\ g[n] = Total(other)
                                 /\ \A k \in 1..n : g[k] = g[k - 1] + other[k]
  BY TotalRuns
<1> DEFINE good == {k \in 0..n : h[k] <= g[k]}
<1>4. 0..n \subseteq good
  <2>1. 0 \in good
    BY <1>1, <1>2, <1>3
  <2>2. ASSUME NEW k \in 1..n, k - 1 \in good PROVE k \in good
    <3>1. list[k] \in Int /\ other[k] \in Int /\ k - 1 \in 0..n /\ k \in 0..n
      BY <1>1
    <3>2. h[k - 1] <= g[k - 1] /\ h[k - 1] \in Int /\ g[k - 1] \in Int
      BY <2>2, <3>1
    <3>3. h[k] = h[k - 1] + list[k] /\ g[k] = g[k - 1] + other[k]
      BY <1>2, <1>3
    <3>4. h[k] <= g[k]
      BY <3>1, <3>2, <3>3
    <3> QED
      BY <3>1, <3>4
  <2> HIDE DEF good, n
  <2> QED
    BY <1>1, <2>1, <2>2, CountUp
<1>5. h[n] <= g[n] /\ h[n] \in Int /\ g[n] \in Int
  BY <1>1, <1>4
<1> QED
  BY <1>2, <1>3, <1>5
================================================================================
