----------------------------- MODULE FoldProofs -----------------------------
(***************************************************************************)
(* What holds of a fold over a sequence by an invariant of its steps, and  *)
(* that a function recursive over a bounded rank exists.  Both by the      *)
(* least counterexample, for numbers are well-founded.  The operators are  *)
(* constants of this module, so that a module that folds has the result    *)
(* for its own step and invariant by INSTANCE.                             *)
(***************************************************************************)
EXTENDS Integers
LOCAL INSTANCE WellFoundedInduction

CONSTANTS
  Op(_, _, _),  \* a step, in a context: of what there is and the next element
  Inv(_, _, _)  \* what holds of the result, in a context, after some elements

Highest(S) == CHOOSE i \in S : \A k \in S : i >= k

(* FoldLeft of the community modules: over the subsets of the indices.     *)
Folded(c, base, seq) ==
  LET iter[S \in SUBSET DOMAIN seq] ==
        IF S = {} THEN base ELSE Op(c, iter[S \ {Highest(S)}], seq[Highest(S)])
  IN  iter[DOMAIN seq]

Steps(c, seq) ==
  \A i \in DOMAIN seq : \A s : Inv(c, i - 1, s) => Inv(c, i, Op(c, s, seq[i]))

Through(c, base, seq, n, iter) ==
  iter = [S \in SUBSET (1 .. n) |->
            IF S = {} THEN base ELSE Op(c, iter[S \ {Highest(S)}], seq[Highest(S)])]

LEMMA LeastNumber ==
  ASSUME NEW S \in SUBSET Nat, S # {}
  PROVE  \E d \in S : \A e \in S : d <= e
<1>1. IsWellFoundedOn(OpToRel(<, Nat), Nat) BY NatLessThanWellFounded
<1>2. PICK d \in S : \A e \in S : ~ (<<e, d>> \in OpToRel(<, Nat)) BY <1>1, WFMin
<1>3. \A e \in S : ~(e < d) BY <1>2 DEF OpToRel
<1>4. QED BY <1>3

LEMMA GreatestNumber ==
  ASSUME NEW n \in Nat, NEW S \in SUBSET (1 .. n), S # {}
  PROVE  Highest(S) \in S /\ \A x \in S : x <= Highest(S)
<1> DEFINE T == {n - x : x \in S}
<1>1. T \in SUBSET Nat /\ T # {}
  <2>1. \A x \in S : n - x \in Nat OBVIOUS
  <2>2. QED BY <2>1
<1>2. PICK d \in T : \A e \in T : d <= e BY <1>1, LeastNumber
<1>3. PICK m \in S : d = n - m BY <1>2
<1>4. \A x \in S : m >= x
  <2>1. TAKE x \in S
  <2>2. d <= n - x BY <1>2
  <2>3. QED BY <1>3, <2>2
<1>5. Highest(S) \in S /\ \A x \in S : Highest(S) >= x BY <1>3, <1>4 DEF Highest
<1>6. QED BY <1>5

LEMMA FoldExists ==
  ASSUME NEW c, NEW base, NEW seq
  PROVE  \A n \in Nat : \E iter : Through(c, base, seq, n, iter)
<1> DEFINE N == {n \in Nat : ~ \E iter : Through(c, base, seq, n, iter)}
<1>1. SUFFICES ASSUME N # {} PROVE FALSE OBVIOUS
<1>2. PICK n \in N : \A e \in N : n <= e BY <1>1, LeastNumber
<1>3. n # 0
  <2> DEFINE f == [S \in SUBSET (1 .. 0) |-> base]
  <2>1. \A S \in SUBSET (1 .. 0) : S = {} OBVIOUS
  <2>2. Through(c, base, seq, 0, f) BY <2>1 DEF Through
  <2>3. QED BY <2>2
<1>4. n \in Nat /\ n - 1 \in Nat /\ n - 1 \notin N BY <1>2, <1>3
<1>5. PICK f : Through(c, base, seq, n - 1, f) BY <1>4
<1> DEFINE g == [S \in SUBSET (1 .. n) |->
                   IF n \in S THEN Op(c, f[S \ {n}], seq[n]) ELSE f[S]]
<1>6. \A S \in SUBSET (1 .. n) : g[S] = IF S = {} THEN base ELSE Op(c, g[S \ {Highest(S)}], seq[Highest(S)])
  <2>1. TAKE S \in SUBSET (1 .. n)
  <2>2. CASE n \in S
    <3>1. Highest(S) = n
      <4>1. Highest(S) \in S /\ n <= Highest(S) BY <1>4, <2>2, GreatestNumber
      <4>2. Highest(S) \in 1 .. n BY <4>1
      <4>3. QED BY <1>4, <4>1, <4>2
    <3>2. S \ {n} \in SUBSET (1 .. n) /\ n \notin S \ {n} OBVIOUS
    <3>3. g[S] = Op(c, f[S \ {n}], seq[n]) /\ g[S \ {n}] = f[S \ {n}] BY <2>2, <3>2
    <3>4. QED BY <2>2, <3>1, <3>3
  <2>3. CASE n \notin S
    <3>1. S \in SUBSET (1 .. n - 1) BY <1>4, <2>3
    <3>2. f[S] = IF S = {} THEN base ELSE Op(c, f[S \ {Highest(S)}], seq[Highest(S)]) BY <1>5, <3>1 DEF Through
    <3>3. g[S] = f[S] BY <2>3
    <3>4. S \ {Highest(S)} \in SUBSET (1 .. n) /\ n \notin S \ {Highest(S)} BY <2>3
    <3>5. g[S \ {Highest(S)}] = f[S \ {Highest(S)}] BY <3>4
    <3>6. QED BY <3>2, <3>3, <3>5
  <2>4. QED BY <2>2, <2>3
<1>7. Through(c, base, seq, n, g) BY <1>6 DEF Through
<1>8. QED BY <1>2, <1>7

(* Induction: what holds of the base and is kept by each step holds of the *)
(* fold.                                                                   *)
THEOREM FoldKeeps ==
  ASSUME NEW c, NEW base, NEW n \in Nat, NEW seq, DOMAIN seq = 1 .. n,
         Inv(c, 0, base), Steps(c, seq)
  PROVE  Inv(c, n, Folded(c, base, seq))
<1>1. PICK f : Through(c, base, seq, n, f) BY FoldExists
<1> DEFINE iter == CHOOSE iter : Through(c, base, seq, n, iter)
<1>2. Through(c, base, seq, n, iter) BY <1>1
<1>3. Folded(c, base, seq) = iter[1 .. n] BY DEF Folded, Through
<1> DEFINE N == {k \in 0 .. n : ~Inv(c, k, iter[1 .. k])}
<1>4. ASSUME N # {} PROVE FALSE
  <2>1. PICK k \in N : \A e \in N : k <= e
    <3>1. N \in SUBSET Nat OBVIOUS
    <3>2. QED BY <1>4, <3>1, LeastNumber
  <2>2. k # 0
    <3>1. 1 .. 0 = {} OBVIOUS
    <3>2. {} \in SUBSET (1 .. n) OBVIOUS
    <3>3. iter[{}] = base BY <1>2, <3>2 DEF Through
    <3>4. QED BY <2>1, <3>1, <3>3
  <2>3. k - 1 \in 0 .. n /\ k - 1 \notin N /\ k \in 1 .. n BY <2>1, <2>2
  <2>4. Inv(c, k - 1, iter[1 .. k - 1]) BY <2>3
  <2>5. Highest(1 .. k) = k
    <3>1. k \in Nat /\ k \in 1 .. k BY <2>3
    <3>2. 1 .. k \in SUBSET (1 .. k) OBVIOUS
    <3>3. Highest(1 .. k) \in 1 .. k /\ k <= Highest(1 .. k) BY <3>1, <3>2, GreatestNumber
    <3>4. QED BY <3>1, <3>3
  <2>6. (1 .. k) \ {k} = 1 .. k - 1 BY <2>3
  <2>7. 1 .. k \in SUBSET (1 .. n) /\ 1 .. k # {}
    <3>1. k \in 1 .. k /\ k <= n /\ k \in Nat BY <2>3
    <3>2. \A i \in 1 .. k : i \in 1 .. n BY <3>1
    <3>3. QED BY <3>1, <3>2
  <2>8. iter[1 .. k] = Op(c, iter[1 .. k - 1], seq[k]) BY <1>2, <2>5, <2>6, <2>7 DEF Through
  <2>9. Inv(c, k, Op(c, iter[1 .. k - 1], seq[k])) BY <2>3, <2>4 DEF Steps
  <2>10. QED BY <2>1, <2>8, <2>9
<1>5. Inv(c, n, iter[1 .. n])
  <2>1. n \in 0 .. n OBVIOUS
  <2>2. QED BY <1>4, <2>1
<1>6. QED BY <1>3, <1>5

(* A recursive function exists when each value depends on those of lower   *)
(* rank only.                                                              *)
Recursive(c, D, f) == f = [x \in D |-> Op(c, f, x)]

Founded(c, D, rank) ==
  \A x \in D : \A f, g :
    (\A y \in D : rank[y] < rank[x] => f[y] = g[y]) => Op(c, f, x) = Op(c, g, x)

THEOREM RecursionExists ==
  ASSUME NEW c, NEW D, NEW rank, NEW n \in Nat, \A x \in D : rank[x] \in 0 .. n, Founded(c, D, rank)
  PROVE  \E f : Recursive(c, D, f)
<1> DEFINE Up(k, f) == \A x \in D : rank[x] < k => f[x] = Op(c, f, x)
           N == {k \in 0 .. n + 1 : ~ \E f : Up(k, f)}
<1>1. ASSUME N # {} PROVE FALSE
  <2>1. PICK k \in N : \A e \in N : k <= e
    <3>1. N \in SUBSET Nat OBVIOUS
    <3>2. QED BY <1>1, <3>1, LeastNumber
  <2>2. k # 0
    <3>1. \A f : Up(0, f) OBVIOUS
    <3>2. QED BY <2>1, <3>1
  <2>3. k - 1 \in 0 .. n + 1 /\ k - 1 \notin N /\ k \in Nat BY <2>1, <2>2
  <2>4. PICK f : Up(k - 1, f) BY <2>3
  <2> DEFINE g == [x \in D |-> Op(c, f, x)]
  <2>5. \A y \in D : rank[y] < k - 1 => g[y] = f[y] BY <2>4
  <2>6. ASSUME NEW x \in D, rank[x] < k PROVE g[x] = Op(c, g, x)
    <3> HIDE DEF g
    <3>1. \A y \in D : rank[y] < rank[x] => f[y] = g[y] BY <2>3, <2>5, <2>6
    <3>2. Op(c, f, x) = Op(c, g, x) BY <3>1 DEF Founded
    <3>3. g[x] = Op(c, f, x) BY DEF g
    <3>4. QED BY <3>2, <3>3
  <2>7. Up(k, g) BY <2>6
  <2>8. QED BY <2>1, <2>7
<1>2. PICK f : Up(n + 1, f) BY <1>1
<1> DEFINE g == [x \in D |-> f[x]]
<1>3. \A x \in D : g[x] = Op(c, g, x)
  <2>1. TAKE x \in D
  <2>2. \A y \in D : rank[y] < rank[x] => f[y] = g[y] OBVIOUS
  <2>3. Op(c, f, x) = Op(c, g, x)
    <3> HIDE DEF g
    <3>1. QED BY <2>2 DEF Founded
  <2>4. f[x] = Op(c, f, x) BY <1>2
  <2>5. QED BY <2>3, <2>4
<1>4. Recursive(c, D, g)
  <2>1. g = [x \in D |-> Op(c, g, x)] BY <1>3
  <2>2. QED BY <2>1 DEF Recursive
<1>5. QED BY <1>4
=============================================================================
