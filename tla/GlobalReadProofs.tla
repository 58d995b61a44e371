------------------------- MODULE GlobalReadProofs -------------------------
(***************************************************************************)
(* For every choice of wanted bits, every number of threads and size of    *)
(* word: the dealer gives each bit one local place, the gather puts it     *)
(* there, and dealing fails only when more than half of the room is wanted.*)
(***************************************************************************)
EXTENDS GlobalRead, TLAPS, FiniteSetTheorems, SequenceTheorems

Index == 0 .. 2 * TypeBit - 1
Entry == Index \X ((SUBSET Bit) \ {{}})

TypeOK ==
  /\ taken \in Wanted
  /\ chunk \in Nat
  /\ left \subseteq DOMAIN taken
  /\ thread \in Thread
  /\ rounds \in [Thread -> Seq(Entry)]
  /\ DOMAIN local = Thread
  /\ \A m \in Machine : \A t \in Thread : DOMAIN gathered[m][t] = Bit
  /\ next \in Nat \ {0}
  /\ phase \in {"deal", "gather", "done", "panic"}

(* The words dealt so far are dealt once each, with all their bits, and    *)
(* into threads with room for them.                                        *)
Genuine == \A t \in Thread : \A r \in DOMAIN rounds[t] :
             /\ rounds[t][r][1] \in DOMAIN taken \ left
             /\ rounds[t][r][2] = taken[rounds[t][r][1]]
Complete == \A i \in DOMAIN taken \ left :
              \E t \in Thread : \E r \in DOMAIN rounds[t] : rounds[t][r][1] = i
Once == \A t, u \in Thread : \A r \in DOMAIN rounds[t] : \A s \in DOMAIN rounds[u] :
          rounds[t][r][1] = rounds[u][s][1] => t = u /\ r = s
Fitting == \A t \in Thread : Weight(t) <= W

DealInv == Genuine /\ Complete /\ Once /\ Fitting

AcceptInv ==
  phase \in {"gather", "done"} =>
    left = {} /\ \A t \in Thread : local[t] = Numbered(rounds[t])

(* After some rounds a bit sits below those gathered after it.             *)
Behind(v, n, x) == Cardinality({y \in BitsOf(v) : y[1] < n /\ After(y, x)})

GatherInv ==
  /\ phase = "deal" => next = 1
  /\ phase = "done" => ~MoreRounds
  /\ phase \in {"gather", "done"} =>
       \A m \in Machine : \A t \in Thread : \A x \in BitsOf(rounds[t]) :
         x[1] < next =>
           gathered[m][t][Behind(rounds[t], next, x)] = <<Address(m, rounds[t][x[1]][1]), x[2]>>

(* An attempt with single words deals the heaviest first.                  *)
HalfFull == DOMAIN taken = {} \/ 2 * Cardinality(BitsTaken) > Threads * W
FailInv ==
  /\ phase = "deal" /\ chunk = 1 =>
       \A t \in Thread : \A r \in DOMAIN rounds[t] : \A i \in left :
         Cardinality(rounds[t][r][2]) >= Cardinality(taken[i])
  /\ phase = "deal" /\ chunk = 0 => HalfFull
  /\ phase = "panic" => HalfFull

----------------------------------------------------------------------------
USE SizeAssumption DEF Thread, Bit, Index, Entry

LEMMA BitFacts == Bit \subseteq Int /\ IsFiniteSet(Bit) /\ Cardinality(Bit) = W
BY FS_Interval

(* A pair of a number and a set's elements counts like the set.            *)
Tag(n, S) == {n} \X S

LEMMA Tagged ==
  \A n, S : IsFiniteSet(S) => IsFiniteSet({n} \X S) /\ Cardinality({n} \X S) = Cardinality(S)
<1> TAKE n, S
<1> HAVE IsFiniteSet(S)
<1>1. IsFiniteSet({n}) /\ Cardinality({n}) = 1
  BY FS_Singleton
<1>2. IsFiniteSet({n} \X S) /\ Cardinality({n} \X S) = 1 * Cardinality(S)
  BY <1>1, FS_Product
<1> QED  BY <1>2, FS_CardinalityType

LEMMA OneToOne ==
  \A S, T, f :
    f \in [S -> T] /\ (\A a, b \in S : f[a] = f[b] => a = b) => f \in Injection(S, T)
BY DEF Injection, IsInjective

LEMMA Disjointly ==
  \A S, T : IsFiniteSet(S) /\ IsFiniteSet(T) /\ S \cap T = {} =>
    IsFiniteSet(S \cup T) /\ Cardinality(S \cup T) = Cardinality(S) + Cardinality(T)
<1> TAKE S, T
<1> HAVE IsFiniteSet(S) /\ IsFiniteSet(T) /\ S \cap T = {}
<1>1. IsFiniteSet(S \cup T) /\ Cardinality(S \cup T) = Cardinality(S) + Cardinality(T) - 0
  BY FS_Union, FS_EmptySet
<1> QED  BY <1>1, FS_CardinalityType

LEMMA Fewer ==
  \A S, T : \A x : IsFiniteSet(S) /\ T \subseteq S /\ x \in S /\ x \notin T =>
    IsFiniteSet(T) /\ Cardinality(T) \in Nat /\ Cardinality(S) \in Nat /\ Cardinality(T) < Cardinality(S)
<1> TAKE S, T
<1> TAKE x
<1> HAVE IsFiniteSet(S) /\ T \subseteq S /\ x \in S /\ x \notin T
<1>1. IsFiniteSet(T) /\ Cardinality(T) <= Cardinality(S) /\ (Cardinality(S) = Cardinality(T) => S = T)
  BY FS_Subset
<1> QED  BY <1>1, FS_CardinalityType

(* A thread's rounds and their bits.                                       *)
LEMMA Entries ==
  \A v : v \in Seq(Entry) =>
    /\ DOMAIN v = 1 .. Len(v) /\ Len(v) \in Nat
    /\ \A r \in DOMAIN v : v[r] \in Entry
<1> TAKE v
<1> HAVE v \in Seq(Entry)
<1>1. DOMAIN v = 1 .. Len(v) /\ Len(v) \in Nat
  BY LenProperties
<1>2. ASSUME NEW r \in 1 .. Len(v) PROVE v[r] \in Entry
  BY ElementOfSeq
<1> QED  BY <1>1, <1>2

LEMMA RoundBits ==
  \A v : v \in Seq(Entry) =>
    /\ BitsOf(v) \subseteq (DOMAIN v) \X Bit
    /\ \A x : x \in BitsOf(v) <=> x \in (DOMAIN v) \X Bit /\ x[2] \in v[x[1]][2]
    /\ IsFiniteSet(BitsOf(v))
<1> TAKE v
<1> HAVE v \in Seq(Entry)
<1>1. \A r \in DOMAIN v : v[r] \in Entry /\ v[r][2] \subseteq Bit
  <2> TAKE r \in DOMAIN v
  <2>1. v[r] \in Entry
    BY Entries
  <2> QED  BY <2>1
<1>2. BitsOf(v) \subseteq (DOMAIN v) \X Bit
  BY <1>1 DEF BitsOf
<1>3. ASSUME NEW x PROVE x \in BitsOf(v) <=> x \in (DOMAIN v) \X Bit /\ x[2] \in v[x[1]][2]
  BY <1>1 DEF BitsOf
<1>4. IsFiniteSet(DOMAIN v)
  BY FS_Interval, LenProperties
<1>5. IsFiniteSet((DOMAIN v) \X Bit)
  BY <1>4, BitFacts, FS_Product
<1>6. IsFiniteSet(BitsOf(v))
  BY <1>5, <1>2, FS_Subset
<1> QED  BY <1>2, <1>3, <1>6

LEMMA AppendedBits ==
  \A v, en : v \in Seq(Entry) /\ en \in Entry =>
    /\ BitsOf(Append(v, en)) = BitsOf(v) \cup ({Len(v) + 1} \X en[2])
    /\ Cardinality(BitsOf(Append(v, en))) = Cardinality(BitsOf(v)) + Cardinality(en[2])
<1> TAKE v, en
<1> HAVE v \in Seq(Entry) /\ en \in Entry
<1> PICK w : w = Append(v, en)
  OBVIOUS
<1>1. /\ w \in Seq(Entry) /\ DOMAIN w = DOMAIN v \cup {Len(v) + 1} /\ Len(v) + 1 \notin DOMAIN v
      /\ \A r \in DOMAIN v : w[r] = v[r]
      /\ w[Len(v) + 1] = en
  <2>1. w \in Seq(Entry) /\ Len(w) = Len(v) + 1 /\ w[Len(v) + 1] = en /\ \A r \in 1 .. Len(v) : w[r] = v[r]
    BY AppendProperties
  <2>2. DOMAIN v = 1 .. Len(v) /\ DOMAIN w = 1 .. Len(w) /\ Len(v) \in Nat
    BY <2>1, LenProperties
  <2> QED  BY <2>1, <2>2
<1>2. BitsOf(w) = BitsOf(v) \cup ({Len(v) + 1} \X en[2])
  BY <1>1 DEF BitsOf
<1>3. BitsOf(v) \cap ({Len(v) + 1} \X en[2]) = {}
  <2>1. BitsOf(v) \subseteq (DOMAIN v) \X Bit
    BY RoundBits
  <2> QED  BY <2>1, <1>1
<1>4. IsFiniteSet(en[2])
  BY BitFacts, FS_Subset
<1>5. IsFiniteSet({Len(v) + 1} \X en[2]) /\ Cardinality({Len(v) + 1} \X en[2]) = Cardinality(en[2])
  BY <1>4, Tagged
<1>6. IsFiniteSet(BitsOf(v))
  BY RoundBits
<1> QED  BY <1>2, <1>3, <1>5, <1>6, Disjointly

(* Numbering by what comes after gives every bit a number of its own, less *)
(* than their count.                                                       *)
Rear(B, x) == {y \in B : After(y, x)}

LEMMA RearShrinks ==
  \A B : IsFiniteSet(B) /\ B \subseteq Int \X Int =>
    /\ \A x \in B : IsFiniteSet(Rear(B, x)) /\ Cardinality(Rear(B, x)) \in 0 .. Cardinality(B) - 1
    /\ \A x, y \in B : Cardinality(Rear(B, x)) = Cardinality(Rear(B, y)) => x = y
<1> TAKE B
<1> HAVE IsFiniteSet(B) /\ B \subseteq Int \X Int
<1>1. ASSUME NEW x \in B
      PROVE  IsFiniteSet(Rear(B, x)) /\ Cardinality(Rear(B, x)) \in 0 .. Cardinality(B) - 1
  <2>1. Rear(B, x) \subseteq B /\ x \notin Rear(B, x)
    BY DEF Rear, After
  <2> QED  BY <2>1, Fewer
<1>2. ASSUME NEW x \in B, NEW y \in B, After(x, y)
      PROVE  Cardinality(Rear(B, x)) # Cardinality(Rear(B, y))
  <2>1. Rear(B, x) \subseteq Rear(B, y) /\ x \in Rear(B, y) /\ x \notin Rear(B, x)
    BY <1>2 DEF Rear, After
  <2>2. IsFiniteSet(Rear(B, y))
    BY <1>1
  <2> QED  BY <2>1, <2>2, Fewer
<1>3. ASSUME NEW x \in B, NEW y \in B, x # y PROVE After(x, y) \/ After(y, x)
  BY <1>3 DEF After
<1> QED  BY <1>1, <1>2, <1>3

Higher(S, k) == {j \in S : j > k}

LEMMA HigherShrinks ==
  \A S : S \subseteq Bit =>
    /\ \A k \in S : IsFiniteSet(Higher(S, k)) /\ Cardinality(Higher(S, k)) \in 0 .. Cardinality(S) - 1
    /\ \A j, k \in S : Cardinality(Higher(S, j)) = Cardinality(Higher(S, k)) => j = k
<1> TAKE S
<1> HAVE S \subseteq Bit
<1>0. IsFiniteSet(S) /\ S \subseteq Int
  BY BitFacts, FS_Subset
<1>1. ASSUME NEW k \in S
      PROVE  IsFiniteSet(Higher(S, k)) /\ Cardinality(Higher(S, k)) \in 0 .. Cardinality(S) - 1
  <2>1. Higher(S, k) \subseteq S /\ k \notin Higher(S, k)
    BY <1>0 DEF Higher
  <2> QED  BY <2>1, <1>0, Fewer
<1>2. ASSUME NEW j \in S, NEW k \in S, j > k
      PROVE  Cardinality(Higher(S, j)) # Cardinality(Higher(S, k))
  <2>0. j \in Int /\ k \in Int /\ j > k
    BY <1>0, <1>2
  <2>1. ASSUME NEW i \in S, i > j PROVE i > k
    BY <1>0, <2>0, <2>1
  <2>2. Higher(S, j) \subseteq Higher(S, k) /\ j \in Higher(S, k) /\ j \notin Higher(S, j)
    <3>1. \A i : i \in Higher(S, j) => i \in Higher(S, k)
      BY <2>1 DEF Higher
    <3>2. j \in Higher(S, k)
      BY <2>0 DEF Higher
    <3>3. j \notin Higher(S, j)
      <4>1. ~(j > j)
        BY <2>0
      <4> QED  BY <4>1 DEF Higher
    <3> QED  BY <3>1, <3>2, <3>3
  <2>3. IsFiniteSet(Higher(S, k))
    BY <1>1
  <2> QED  BY <2>2, <2>3, Fewer
<1> QED  BY <1>0, <1>1, <1>2

LEMMA NthIsIt ==
  \A S : \A k \in S : S \subseteq Bit => NthHighest(S, Cardinality(Higher(S, k))) = k
<1> TAKE S
<1> TAKE k \in S
<1> HAVE S \subseteq Bit
<1> PICK n : n = Cardinality(Higher(S, k))
  OBVIOUS
<1>1. \E j \in S : Cardinality({i \in S : i > j}) = n
  BY DEF Higher
<1>2. NthHighest(S, n) \in S /\ Cardinality({i \in S : i > NthHighest(S, n)}) = n
  BY <1>1 DEF NthHighest
<1>3. Cardinality(Higher(S, NthHighest(S, n))) = Cardinality(Higher(S, k))
  BY <1>2 DEF Higher
<1>4. \A i, j \in S : Cardinality(Higher(S, i)) = Cardinality(Higher(S, j)) => i = j
  BY HigherShrinks
<1> QED  BY <1>2, <1>3, <1>4

----------------------------------------------------------------------------
(* What is known of the words wanted.                                      *)
LEMMA WantedFacts ==
  TypeOK =>
    /\ IsFiniteSet(DOMAIN taken) /\ DOMAIN taken \subseteq Index
    /\ \A i \in DOMAIN taken :
         taken[i] \in (SUBSET Bit) \ {{}} /\ IsFiniteSet(taken[i]) /\ Cardinality(taken[i]) \in Nat \ {0}
<1> SUFFICES ASSUME TypeOK
             PROVE  /\ IsFiniteSet(DOMAIN taken) /\ DOMAIN taken \subseteq Index
                    /\ \A i \in DOMAIN taken :
                         taken[i] \in (SUBSET Bit) \ {{}} /\ IsFiniteSet(taken[i]) /\ Cardinality(taken[i]) \in Nat \ {0}
  OBVIOUS
<1>1. /\ IsFiniteSet(DOMAIN taken) /\ DOMAIN taken \subseteq Index
      /\ taken \in [DOMAIN taken -> (SUBSET Bit) \ {{}}]
  BY WantedAssumption DEF TypeOK
<1>2. ASSUME NEW i \in DOMAIN taken
      PROVE  taken[i] \in (SUBSET Bit) \ {{}} /\ IsFiniteSet(taken[i]) /\ Cardinality(taken[i]) \in Nat \ {0}
  <2>1. taken[i] \in (SUBSET Bit) \ {{}}
    BY <1>1
  <2>2. IsFiniteSet(taken[i])
    BY <2>1, BitFacts, FS_Subset
  <2> QED  BY <2>1, <2>2, FS_CardinalityType, FS_EmptySet
<1> QED  BY <1>1, <1>2

LEMMA WeightFacts ==
  TypeOK => \A t \in Thread : rounds[t] \in Seq(Entry) /\ Weight(t) \in Nat
<1> SUFFICES ASSUME TypeOK, NEW t \in Thread PROVE rounds[t] \in Seq(Entry) /\ Weight(t) \in Nat
  OBVIOUS
<1>1. rounds[t] \in Seq(Entry)
  BY DEF TypeOK
<1>2. IsFiniteSet(BitsOf(rounds[t]))
  BY <1>1, RoundBits
<1> QED  BY <1>1, <1>2, FS_CardinalityType DEF Weight

LEMMA NoRounds ==
  /\ Nothing \in [Thread -> Seq(Entry)]
  /\ \A t \in Thread : DOMAIN Nothing[t] = {} /\ Len(Nothing[t]) = 0 /\ Cardinality(BitsOf(Nothing[t])) = 0
<1>1. \A t \in Thread : Nothing[t] = <<>>
  BY DEF Nothing
<1>2. BitsOf(<<>>) = {}
  BY DEF BitsOf
<1> QED  BY <1>1, <1>2, FS_EmptySet DEF Nothing

LEMMA InitOK == Init => TypeOK /\ DealInv /\ AcceptInv /\ GatherInv
<1> SUFFICES ASSUME Init PROVE TypeOK /\ DealInv /\ AcceptInv /\ GatherInv
  OBVIOUS
<1>1. IsFiniteSet(DOMAIN taken)
  BY WantedAssumption DEF Init
<1>2. TypeOK
  BY <1>1, FS_CardinalityType, NoRounds DEF Init, TypeOK, Cleared
<1>3. rounds = Nothing /\ left = DOMAIN taken
  BY DEF Init
<1>4. Genuine /\ Complete /\ Once
  BY <1>3, NoRounds DEF Genuine, Complete, Once
<1>5. Fitting
  BY <1>3, NoRounds DEF Fitting, Weight
<1> QED  BY <1>2, <1>4, <1>5 DEF DealInv, Init, AcceptInv, GatherInv

----------------------------------------------------------------------------
(* Dealing.                                                                *)
DealtTo(idx, u, en) ==
  /\ en \in Entry
  /\ First(idx) /\ Fits(u, taken[idx])
  /\ rounds' = [rounds EXCEPT ![u] = Append(@, en)]
  /\ left' = left \ {idx}
  /\ thread' \in Thread
  /\ rounds'[u] = Append(rounds[u], en)
  /\ DOMAIN rounds'[u] = DOMAIN rounds[u] \cup {Len(rounds[u]) + 1}
  /\ Len(rounds[u]) + 1 \notin DOMAIN rounds[u]
  /\ \A r \in DOMAIN rounds[u] : rounds'[u][r] = rounds[u][r]
  /\ rounds'[u][Len(rounds[u]) + 1] = en
  /\ \A t \in Thread \ {u} : rounds'[t] = rounds[t]

LEMMA SomeWordIsDealt ==
  ASSUME TypeOK, Deal
  PROVE  \E idx \in left, u \in Thread : \E en : en = <<idx, taken[idx]>> /\ DealtTo(idx, u, en)
<1>1. PICK idx \in left, u \in Thread :
           /\ First(idx) /\ Fits(u, taken[idx])
           /\ rounds' = [rounds EXCEPT ![u] = Append(@, <<idx, taken[idx]>>)]
           /\ thread' = (u + 1) % Threads
           /\ left' = left \ {idx}
  BY DEF Deal
<1> PICK en : en = <<idx, taken[idx]>>
  OBVIOUS
<1>2. en \in Entry
  BY WantedFacts DEF TypeOK
<1>3. rounds[u] \in Seq(Entry) /\ rounds \in [Thread -> Seq(Entry)]
  BY DEF TypeOK
<1>4. rounds'[u] = Append(rounds[u], en) /\ \A t \in Thread \ {u} : rounds'[t] = rounds[t]
  BY <1>1, <1>3
<1>5. PICK w : w = Append(rounds[u], en)
  OBVIOUS
<1>6. w \in Seq(Entry) /\ Len(w) = Len(rounds[u]) + 1 /\ w[Len(rounds[u]) + 1] = en
      /\ \A r \in 1 .. Len(rounds[u]) : w[r] = rounds[u][r]
  BY <1>2, <1>3, <1>5, AppendProperties
<1>7. DOMAIN rounds[u] = 1 .. Len(rounds[u]) /\ DOMAIN w = 1 .. Len(w) /\ Len(rounds[u]) \in Nat
  BY <1>3, <1>6, LenProperties
<1>8. DOMAIN w = DOMAIN rounds[u] \cup {Len(rounds[u]) + 1} /\ Len(rounds[u]) + 1 \notin DOMAIN rounds[u]
  <2>1. \A m \in Nat : 1 .. m + 1 = (1 .. m) \cup {m + 1} /\ m + 1 \notin 1 .. m
    OBVIOUS
  <2> QED  BY <1>6, <1>7, <2>1
<1>9. thread' \in Thread
  BY <1>1
<1>10. /\ rounds' = [rounds EXCEPT ![u] = Append(@, en)]
       /\ DOMAIN rounds'[u] = DOMAIN rounds[u] \cup {Len(rounds[u]) + 1}
       /\ \A r \in DOMAIN rounds[u] : rounds'[u][r] = rounds[u][r]
       /\ rounds'[u][Len(rounds[u]) + 1] = en
  BY <1>1, <1>4, <1>5, <1>6, <1>7, <1>8
<1>11. DealtTo(idx, u, en)
  BY <1>1, <1>2, <1>4, <1>8, <1>9, <1>10 DEF DealtTo
<1> QED  BY <1>11

LEMMA DealKeeps ==
  TypeOK /\ DealInv /\ Deal => TypeOK' /\ DealInv'
<1> SUFFICES ASSUME TypeOK, DealInv, Deal PROVE TypeOK' /\ DealInv'
  OBVIOUS
<1>01. PICK idx \in left, u \in Thread : \E en : en = <<idx, taken[idx]>> /\ DealtTo(idx, u, en)
  BY SomeWordIsDealt
<1>1. PICK en : en = <<idx, taken[idx]>> /\ DealtTo(idx, u, en)
  BY <1>01
<1> PICK n : n = Len(rounds[u]) + 1
  OBVIOUS
<1>2. taken' = taken /\ idx \in DOMAIN taken /\ idx \in left
  BY DEF Deal, TypeOK
<1>3. en[1] = idx /\ en[2] = taken[idx] /\ en \in Entry /\ left' = left \ {idx}
  BY <1>1 DEF DealtTo
<1>4. /\ DOMAIN rounds'[u] = DOMAIN rounds[u] \cup {n} /\ n \notin DOMAIN rounds[u]
      /\ rounds'[u][n] = en
      /\ \A q \in Thread : \A k \in DOMAIN rounds[q] : k \in DOMAIN rounds'[q] /\ rounds'[q][k] = rounds[q][k]
      /\ \A q \in Thread \ {u} : rounds'[q] = rounds[q]
  BY <1>1 DEF DealtTo
<1>5. ASSUME NEW q \in Thread, NEW k \in DOMAIN rounds'[q]
      PROVE  \/ q = u /\ k = n /\ rounds'[q][k] = en
             \/ /\ k \in DOMAIN rounds[q] /\ rounds'[q][k] = rounds[q][k]
                /\ rounds'[q][k][1] \in DOMAIN taken \ left
                /\ rounds'[q][k][2] = taken[rounds'[q][k][1]]
  <2>1. k \in DOMAIN rounds[q] \/ (q = u /\ k = n)
    BY <1>4
  <2>2. CASE q = u /\ k = n
    BY <1>4, <2>2
  <2>3. CASE k \in DOMAIN rounds[q]
    <3>1. rounds'[q][k] = rounds[q][k]
      BY <1>4, <2>3
    <3>2. rounds[q][k][1] \in DOMAIN taken \ left /\ rounds[q][k][2] = taken[rounds[q][k][1]]
      BY <2>3 DEF DealInv, Genuine
    <3> QED  BY <2>3, <3>1, <3>2
  <2> QED  BY <2>1, <2>2, <2>3
<1>6. TypeOK'
  <2>1. rounds' \in [Thread -> Seq(Entry)]
    <3>1. rounds \in [Thread -> Seq(Entry)] /\ rounds[u] \in Seq(Entry)
      BY DEF TypeOK
    <3>2. Append(rounds[u], en) \in Seq(Entry)
      BY <1>3, <3>1, AppendProperties
    <3>3. rounds' = [rounds EXCEPT ![u] = Append(@, en)]
      BY <1>1 DEF DealtTo
    <3> HIDE DEF Thread, Entry
    <3> QED  BY <3>1, <3>2, <3>3
  <2>2. /\ chunk' = chunk /\ local' = local /\ gathered' = gathered /\ next' = next /\ phase' = phase
        /\ left' \subseteq left /\ thread' \in Thread
    BY <1>1, <1>3 DEF Deal, DealtTo
  <2> HIDE DEF Thread, Bit, Index, Entry
  <2>3. left' \subseteq DOMAIN taken' /\ taken' \in Wanted /\ chunk' \in Nat
    BY <1>2, <2>2 DEF TypeOK
  <2>4. DOMAIN local' = Thread /\ next' \in Nat \ {0} /\ phase' \in {"deal", "gather", "done", "panic"}
    BY <2>2 DEF TypeOK
  <2>5. \A m \in Machine : \A t \in Thread : DOMAIN gathered'[m][t] = Bit
    BY <2>2 DEF TypeOK
  <2> QED  BY <2>1, <2>2, <2>3, <2>4, <2>5 DEF TypeOK
<1>7. Genuine'
  <2> SUFFICES ASSUME NEW t \in Thread, NEW r \in DOMAIN rounds'[t]
               PROVE  /\ rounds'[t][r][1] \in DOMAIN taken' \ left'
                      /\ rounds'[t][r][2] = taken'[rounds'[t][r][1]]
    BY DEF Genuine
  <2>1. CASE rounds'[t][r] = en
    BY <1>2, <1>3, <2>1
  <2>2. CASE rounds'[t][r] # en
    BY <1>2, <1>3, <1>5, <2>2
  <2> QED  BY <2>1, <2>2
<1>8. Complete'
  <2> SUFFICES ASSUME NEW i \in DOMAIN taken' \ left'
               PROVE  \E t \in Thread : \E r \in DOMAIN rounds'[t] : rounds'[t][r][1] = i
    BY DEF Complete
  <2>1. CASE i = idx
    <3>1. n \in DOMAIN rounds'[u] /\ rounds'[u][n][1] = i
      BY <1>3, <1>4, <2>1
    <3> QED  BY <3>1
  <2>2. CASE i # idx
    <3>1. i \in DOMAIN taken \ left
      BY <1>2, <1>3, <2>2
    <3>2. PICK t \in Thread : \E r \in DOMAIN rounds[t] : rounds[t][r][1] = i
      BY <3>1 DEF DealInv, Complete
    <3>3. PICK r \in DOMAIN rounds[t] : rounds[t][r][1] = i
      BY <3>2
    <3>4. r \in DOMAIN rounds'[t] /\ rounds'[t][r] = rounds[t][r]
      BY <1>4
    <3> QED  BY <3>3, <3>4
  <2> QED  BY <2>1, <2>2
<1>9. Once'
  <2> SUFFICES ASSUME NEW t \in Thread, NEW p \in Thread,
                      NEW r \in DOMAIN rounds'[t], NEW s \in DOMAIN rounds'[p],
                      rounds'[t][r][1] = rounds'[p][s][1]
               PROVE  t = p /\ r = s
    BY DEF Once
  <2>1. CASE rounds'[t][r][1] = idx
    <3>1. rounds'[t][r][1] \notin DOMAIN taken \ left /\ rounds'[p][s][1] \notin DOMAIN taken \ left
      BY <1>2, <2>1
    <3>2. t = u /\ r = n
      BY <1>5, <3>1
    <3>3. p = u /\ s = n
      BY <1>5, <3>1
    <3> QED  BY <3>2, <3>3
  <2>2. CASE rounds'[t][r][1] # idx
    <3>1. r \in DOMAIN rounds[t] /\ rounds'[t][r] = rounds[t][r]
      BY <1>3, <1>5, <2>2
    <3>2. s \in DOMAIN rounds[p] /\ rounds'[p][s] = rounds[p][s]
      BY <1>3, <1>5, <2>2
    <3> QED  BY <3>1, <3>2 DEF DealInv, Once
  <2> QED  BY <2>1, <2>2
<1>10. Fitting'
  <2> SUFFICES ASSUME NEW t \in Thread PROVE Cardinality(BitsOf(rounds'[t])) <= W
    BY DEF Fitting, Weight
  <2>1. CASE t = u
    <3>1. rounds[u] \in Seq(Entry)
      BY DEF TypeOK
    <3>2. Cardinality(BitsOf(Append(rounds[u], en))) = Cardinality(BitsOf(rounds[u])) + Cardinality(en[2])
      BY <1>3, <3>1, AppendedBits
    <3>3. rounds'[u] = Append(rounds[u], en) /\ Fits(u, taken[idx])
      BY <1>1 DEF DealtTo
    <3> QED  BY <1>3, <2>1, <3>2, <3>3 DEF Fits, Weight
  <2>2. CASE t # u
    BY <1>4, <2>2 DEF DealInv, Fitting, Weight
  <2> QED  BY <2>1, <2>2
<1> QED  BY <1>6, <1>7, <1>8, <1>9, <1>10 DEF DealInv

LEMMA RetryKeeps ==
  TypeOK /\ DealInv /\ Retry => TypeOK' /\ DealInv'
<1> SUFFICES ASSUME TypeOK, DealInv, Retry PROVE TypeOK' /\ DealInv'
  OBVIOUS
<1>1. taken' = taken /\ rounds' = Nothing /\ left' = DOMAIN taken
  BY DEF Retry
<1>2. TypeOK'
  BY <1>1, NoRounds DEF TypeOK, Retry
<1>3. DealInv'
  BY <1>1, NoRounds DEF DealInv, Genuine, Complete, Once, Fitting, Weight
<1> QED  BY <1>2, <1>3

LEMMA OthersKeep ==
  TypeOK /\ DealInv /\ (Panic \/ Accept \/ GatherRound \/ Finish \/ UNCHANGED vars) => TypeOK' /\ DealInv'
<1> SUFFICES ASSUME TypeOK, DealInv, Panic \/ Accept \/ GatherRound \/ Finish \/ UNCHANGED vars
             PROVE  TypeOK' /\ DealInv'
  OBVIOUS
<1>1. taken' = taken /\ chunk' = chunk /\ left' = left /\ thread' = thread /\ rounds' = rounds
  BY DEF Panic, Accept, GatherRound, Finish, vars, dealing
<1>2. DealInv'
  BY <1>1 DEF DealInv, Genuine, Complete, Once, Fitting, Weight
<1>3. next' \in Nat \ {0} /\ phase' \in {"deal", "gather", "done", "panic"} /\ DOMAIN local' = Thread
  BY DEF Panic, Accept, GatherRound, Finish, vars, TypeOK
<1>4. \A m \in Machine : \A t \in Thread : DOMAIN gathered'[m][t] = Bit
  <2>1. CASE GatherRound
    <3> TAKE m \in Machine
    <3> TAKE t \in Thread
    <3>1. DOMAIN gathered[m][t] = Bit
      BY DEF TypeOK
    <3>2. DOMAIN ShiftedIn(m, gathered[m][t], rounds[t][next]) = Bit
      BY DEF ShiftedIn
    <3> QED  BY <2>1, <3>1, <3>2 DEF GatherRound
  <2>2. CASE ~GatherRound
    BY <2>2 DEF Panic, Accept, Finish, vars, TypeOK
  <2> QED  BY <2>1, <2>2
<1> QED  BY <1>1, <1>2, <1>3, <1>4 DEF TypeOK

----------------------------------------------------------------------------
(* Numbering and gathering.                                                *)
LEMMA AcceptKeeps ==
  AcceptInv /\ [Next]_vars => AcceptInv'
<1> SUFFICES ASSUME AcceptInv, [Next]_vars PROVE AcceptInv'
  OBVIOUS
<1>1. CASE Deal \/ Retry \/ Panic
  BY <1>1 DEF Deal, Retry, Panic, AcceptInv
<1>2. CASE Accept
  BY <1>2 DEF Accept, dealing, AcceptInv
<1>3. CASE GatherRound \/ Finish \/ UNCHANGED vars
  BY <1>3 DEF GatherRound, Finish, vars, dealing, AcceptInv
<1> QED  BY <1>1, <1>2, <1>3 DEF Next, Done

(* One more round pushes the earlier bits up by the number of its bits and *)
(* puts its own below.                                                     *)
LEMMA BehindEarlier ==
  \A v, n, x :
    v \in Seq(Entry) /\ n \in DOMAIN v /\ x \in BitsOf(v) /\ x[1] < n =>
      /\ Behind(v, n + 1, x) = Behind(v, n, x) + Cardinality(v[n][2])
      /\ Behind(v, n, x) \in Nat /\ Cardinality(v[n][2]) \in Nat
<1> TAKE v, n, x
<1> HAVE v \in Seq(Entry) /\ n \in DOMAIN v /\ x \in BitsOf(v) /\ x[1] < n
<1>1. /\ BitsOf(v) \subseteq (DOMAIN v) \X Bit
      /\ \A y : y \in BitsOf(v) <=> y \in (DOMAIN v) \X Bit /\ y[2] \in v[y[1]][2]
      /\ IsFiniteSet(BitsOf(v))
  BY RoundBits
<1>2. DOMAIN v \subseteq Nat /\ v[n] \in Entry
  BY Entries
<1>3. v[n][2] \subseteq Bit /\ IsFiniteSet(v[n][2])
  BY <1>2, BitFacts, FS_Subset
<1> PICK S, T, U : /\ S = {y \in BitsOf(v) : y[1] < n + 1 /\ After(y, x)}
                   /\ T = {y \in BitsOf(v) : y[1] < n /\ After(y, x)}
                   /\ U = {n} \X v[n][2]
  OBVIOUS
<1>4. \A y : y \in U <=> y \in BitsOf(v) /\ y[1] = n
  BY <1>1, <1>3
<1>5. \A y \in BitsOf(v) : y[1] = n => After(y, x)
  BY <1>1, <1>2 DEF After
<1>6. \A y \in BitsOf(v) : y[1] < n + 1 <=> y[1] < n \/ y[1] = n
  <2> TAKE y \in BitsOf(v)
  <2>1. y[1] \in Nat /\ n \in Nat
    BY <1>1, <1>2
  <2> QED  BY <2>1
<1>7. S = T \cup U
  <2>1. \A y : y \in S => y \in T \cup U
    BY <1>4, <1>6
  <2>2. \A y : y \in T \cup U => y \in S
    BY <1>4, <1>5, <1>6
  <2> QED  BY <2>1, <2>2
<1>8. T \cap U = {}
  BY <1>2, <1>4
<1>9. IsFiniteSet(T) /\ IsFiniteSet(U) /\ Cardinality(U) = Cardinality(v[n][2])
  <2>1. T \subseteq BitsOf(v)
    OBVIOUS
  <2>2. IsFiniteSet(T)
    BY <1>1, <2>1, FS_Subset
  <2>3. IsFiniteSet({n} \X v[n][2]) /\ Cardinality({n} \X v[n][2]) = Cardinality(v[n][2])
    BY <1>3, Tagged
  <2> QED  BY <2>2, <2>3
<1>10. Cardinality(S) = Cardinality(T) + Cardinality(U)
  BY <1>7, <1>8, <1>9, Disjointly
<1> QED  BY <1>3, <1>9, <1>10, FS_CardinalityType DEF Behind

LEMMA BehindNew ==
  \A v, n, x :
    v \in Seq(Entry) /\ n \in DOMAIN v /\ x \in BitsOf(v) /\ x[1] = n =>
      Behind(v, n + 1, x) = Cardinality(Higher(v[n][2], x[2]))
<1> TAKE v, n, x
<1> HAVE v \in Seq(Entry) /\ n \in DOMAIN v /\ x \in BitsOf(v) /\ x[1] = n
<1>1. /\ BitsOf(v) \subseteq (DOMAIN v) \X Bit
      /\ \A y : y \in BitsOf(v) <=> y \in (DOMAIN v) \X Bit /\ y[2] \in v[y[1]][2]
  BY RoundBits
<1>2. DOMAIN v \subseteq Nat /\ v[n] \in Entry
  BY Entries
<1>3. v[n][2] \subseteq Bit /\ IsFiniteSet(v[n][2])
  BY <1>2, BitFacts, FS_Subset
<1> PICK S, H : /\ S = {y \in BitsOf(v) : y[1] < n + 1 /\ After(y, x)}
                /\ H = Higher(v[n][2], x[2])
  OBVIOUS
<1>4. \A j : j \in H <=> j \in v[n][2] /\ j > x[2]
  BY DEF Higher
<1>5. \A y : y \in S <=> y \in BitsOf(v) /\ y[1] = n /\ y[2] > x[2]
  <2>1. n \in Nat /\ \A y \in BitsOf(v) : y[1] \in Nat
    BY <1>1, <1>2
  <2>2. \A y \in BitsOf(v) : y[1] < n + 1 /\ After(y, x) <=> y[1] = n /\ y[2] > x[2]
    BY <2>1 DEF After
  <2> QED  BY <2>2
<1>6. S = {n} \X H
  <2>1. \A y : y \in S => y \in {n} \X H
    BY <1>1, <1>4, <1>5
  <2>2. \A y : y \in {n} \X H => y \in S
    BY <1>1, <1>3, <1>4, <1>5
  <2>3. S \subseteq {n} \X H /\ {n} \X H \subseteq S
    BY <2>1, <2>2
  <2> QED  BY <2>3
<1>7. IsFiniteSet(H)
  BY <1>3, <1>4, FS_Subset
<1>8. Cardinality({n} \X H) = Cardinality(H)
  <2>1. \A m, K : IsFiniteSet(K) => Cardinality(Tag(m, K)) = Cardinality(K)
    BY Tagged DEF Tag
  <2>2. Cardinality(Tag(n, H)) = Cardinality(H)
    BY <1>7, <2>1
  <2> QED  BY <2>2 DEF Tag
<1>9. Behind(v, n + 1, x) = Cardinality(S)
  BY DEF Behind
<1> QED  BY <1>6, <1>8, <1>9

LEMMA BehindLast ==
  \A v, n, x :
    v \in Seq(Entry) /\ x \in BitsOf(v) /\ n \in Nat /\ Len(v) < n =>
      Behind(v, n, x) = Cardinality(Rear(BitsOf(v), x))
<1> TAKE v, n, x
<1> HAVE v \in Seq(Entry) /\ x \in BitsOf(v) /\ n \in Nat /\ Len(v) < n
<1>1. BitsOf(v) \subseteq (DOMAIN v) \X Bit
  BY RoundBits
<1>2. \A y \in BitsOf(v) : y[1] < n
  BY <1>1, LenProperties
<1>3. {y \in BitsOf(v) : y[1] < n /\ After(y, x)} = Rear(BitsOf(v), x)
  BY <1>2 DEF Rear
<1> QED  BY <1>3 DEF Behind

(* No bit is shifted out of the local word.                                *)
LEMMA BehindFits ==
  \A v, n, x :
    v \in Seq(Entry) /\ x \in BitsOf(v) /\ Cardinality(BitsOf(v)) <= W =>
      /\ Cardinality(Rear(BitsOf(v), x)) \in Bit
      /\ Behind(v, n, x) \in Bit
<1> TAKE v, n, x
<1> HAVE v \in Seq(Entry) /\ x \in BitsOf(v) /\ Cardinality(BitsOf(v)) <= W
<1>1. BitsOf(v) \subseteq (DOMAIN v) \X Bit /\ IsFiniteSet(BitsOf(v))
  BY RoundBits
<1>2. DOMAIN v \subseteq Int
  BY LenProperties
<1>3. BitsOf(v) \subseteq Int \X Int
  BY <1>1, <1>2
<1> PICK R, S : R = Rear(BitsOf(v), x) /\ S = {y \in BitsOf(v) : y[1] < n /\ After(y, x)}
  OBVIOUS
<1>4. IsFiniteSet(R) /\ Cardinality(R) \in 0 .. Cardinality(BitsOf(v)) - 1
  BY <1>1, <1>3, RearShrinks
<1>5. S \subseteq R
  BY DEF Rear
<1>6. IsFiniteSet(S) /\ Cardinality(S) <= Cardinality(R)
  BY <1>4, <1>5, FS_Subset
<1>7. Cardinality(S) \in Nat /\ Cardinality(BitsOf(v)) \in Nat
  BY <1>1, <1>6, FS_CardinalityType
<1> QED  BY <1>4, <1>6, <1>7 DEF Behind

LEMMA GatherKeeps ==
  TypeOK /\ DealInv /\ GatherInv /\ [Next]_vars => GatherInv'
<1> SUFFICES ASSUME TypeOK, DealInv, GatherInv, [Next]_vars PROVE GatherInv'
  OBVIOUS
<1>1. CASE Deal \/ Retry \/ Panic
  BY <1>1 DEF Deal, Retry, Panic, GatherInv
<1>2. CASE Accept
  <2>1. next' = 1 /\ phase' = "gather" /\ rounds' = rounds
    BY <1>2 DEF Accept, GatherInv, dealing
  <2>2. \A t \in Thread : \A x \in BitsOf(rounds[t]) : ~(x[1] < 1)
    <3> TAKE t \in Thread
    <3> TAKE x \in BitsOf(rounds[t])
    <3>1. rounds[t] \in Seq(Entry)
      BY DEF TypeOK
    <3>2. x \in (DOMAIN rounds[t]) \X Bit
      BY <3>1, RoundBits
    <3>3. DOMAIN rounds[t] = 1 .. Len(rounds[t]) /\ Len(rounds[t]) \in Nat
      BY <3>1, LenProperties
    <3> QED  BY <3>2, <3>3
  <2> QED  BY <2>1, <2>2 DEF GatherInv
<1>3. CASE GatherRound
  <2>1. next' = next + 1 /\ phase' = "gather" /\ rounds' = rounds /\ phase = "gather"
    BY <1>3 DEF GatherRound, dealing
  <2> SUFFICES ASSUME NEW m \in Machine, NEW t \in Thread, NEW x \in BitsOf(rounds[t]), x[1] < next + 1
               PROVE  gathered'[m][t][Behind(rounds[t], next + 1, x)]
                        = <<Address(m, rounds[t][x[1]][1]), x[2]>>
    BY <2>1 DEF GatherInv
  <2> PICK v, old, new : v = rounds[t] /\ old = gathered[m][t] /\ new = gathered'[m][t]
    OBVIOUS
  <2>2. v \in Seq(Entry) /\ Cardinality(BitsOf(v)) <= W
    BY DEF TypeOK, DealInv, Fitting, Weight
  <2>3. x \in (DOMAIN v) \X Bit /\ x[2] \in v[x[1]][2]
    BY <2>2, RoundBits
  <2>4. DOMAIN v = 1 .. Len(v) /\ Len(v) \in Nat /\ next \in Nat \ {0}
    BY <2>2, LenProperties DEF TypeOK
  <2>5. x[1] < next => old[Behind(v, next, x)] = <<Address(m, v[x[1]][1]), x[2]>>
    BY <2>1 DEF GatherInv
  <2>6. new = IF next <= Len(v) THEN ShiftedIn(m, old, v[next]) ELSE old
    BY <1>3 DEF GatherRound
  <2>7. Behind(v, next + 1, x) \in Bit /\ Behind(v, next, x) \in Bit
    BY <2>2, BehindFits
  <2>8. CASE next > Len(v)
    <3>1. Behind(v, next, x) = Cardinality(Rear(BitsOf(v), x))
      BY <2>2, <2>4, <2>8, BehindLast
    <3>2. next + 1 \in Nat /\ Len(v) < next + 1
      BY <2>4, <2>8
    <3>3. Behind(v, next + 1, x) = Cardinality(Rear(BitsOf(v), x))
      BY <2>2, <3>2, BehindLast
    <3>4. x[1] < next /\ new = old
      BY <2>3, <2>4, <2>6, <2>8
    <3> QED  BY <3>1, <3>3, <3>4, <2>5
  <2>9. CASE next <= Len(v) /\ x[1] < next
    <3>1. next \in DOMAIN v
      BY <2>4, <2>9
    <3>2. /\ Behind(v, next + 1, x) = Behind(v, next, x) + Cardinality(v[next][2])
          /\ Behind(v, next, x) \in Nat /\ Cardinality(v[next][2]) \in Nat
      BY <2>2, <2>9, <3>1, BehindEarlier
    <3>3. new[Behind(v, next + 1, x)] = old[Behind(v, next + 1, x) - Cardinality(v[next][2])]
      BY <2>6, <2>7, <2>9, <3>2 DEF ShiftedIn
    <3>4. Behind(v, next + 1, x) - Cardinality(v[next][2]) = Behind(v, next, x)
      BY <3>2
    <3> QED  BY <2>5, <2>9, <3>3, <3>4
  <2>10. CASE next <= Len(v) /\ x[1] = next
    <3>1. next \in DOMAIN v
      BY <2>4, <2>10
    <3>2. Behind(v, next + 1, x) = Cardinality(Higher(v[next][2], x[2]))
      BY <2>2, <2>10, <3>1, BehindNew
    <3>3. v[next][2] \subseteq Bit /\ x[2] \in v[next][2]
      <4>1. v[next] \in Entry
        BY <2>2, <3>1, Entries
      <4> QED  BY <4>1, <2>3, <2>10
    <3>4. Cardinality(Higher(v[next][2], x[2])) \in 0 .. Cardinality(v[next][2]) - 1
      BY <3>3, HigherShrinks
    <3>5. NthHighest(v[next][2], Cardinality(Higher(v[next][2], x[2]))) = x[2]
      BY <3>3, NthIsIt
    <3>6. Cardinality(v[next][2]) \in Nat
      BY <3>3, BitFacts, FS_Subset, FS_CardinalityType
    <3>7. new[Behind(v, next + 1, x)] = <<Address(m, v[next][1]), NthHighest(v[next][2], Behind(v, next + 1, x))>>
      BY <2>6, <2>7, <2>10, <3>2, <3>4, <3>6 DEF ShiftedIn
    <3> QED  BY <2>10, <3>2, <3>5, <3>7
  <2> QED  BY <2>3, <2>4, <2>8, <2>9, <2>10
<1>4. CASE Finish
  BY <1>4 DEF Finish, GatherInv, dealing, MoreRounds
<1>5. CASE UNCHANGED vars
  BY <1>5 DEF vars, dealing, GatherInv, MoreRounds
<1> QED  BY <1>1, <1>2, <1>3, <1>4, <1>5 DEF Next, Done

----------------------------------------------------------------------------
DealtInv == TypeOK /\ DealInv /\ AcceptInv /\ GatherInv

LEMMA DealtAlways == Spec => []DealtInv
<1>1. Init => DealtInv
  BY InitOK DEF DealtInv
<1>2. DealtInv /\ [Next]_vars => DealtInv'
  <2> SUFFICES ASSUME DealtInv, [Next]_vars PROVE DealtInv'
    OBVIOUS
  <2>1. TypeOK' /\ DealInv'
    <3>1. CASE Deal
      BY <3>1, DealKeeps DEF DealtInv
    <3>2. CASE Retry
      BY <3>2, RetryKeeps DEF DealtInv
    <3>3. CASE Panic \/ Accept \/ GatherRound \/ Finish \/ UNCHANGED vars
      BY <3>3, OthersKeep DEF DealtInv
    <3> QED  BY <3>1, <3>2, <3>3 DEF Next, Done
  <2> QED  BY <2>1, AcceptKeeps, GatherKeeps DEF DealtInv
<1> QED  BY <1>1, <1>2, PTL DEF Spec

(* What is numbered is what is wanted.                                     *)
LEMMA NumberedFrom ==
  TypeOK /\ DealInv =>
    \A t \in Thread : \A l \in Numbered(rounds[t]) : \E x \in BitsOf(rounds[t]) :
      /\ l[1] = <<rounds[t][x[1]][1], x[2]>>
      /\ l[2] = Cardinality(Rear(BitsOf(rounds[t]), x))
      /\ x = <<x[1], x[2]>> /\ x[1] \in DOMAIN rounds[t]
      /\ l[1] \in BitsTaken /\ l[2] \in Bit
<1> SUFFICES ASSUME TypeOK, DealInv, NEW t \in Thread, NEW l \in Numbered(rounds[t])
             PROVE  \E x \in BitsOf(rounds[t]) :
                      /\ l[1] = <<rounds[t][x[1]][1], x[2]>>
                      /\ l[2] = Cardinality(Rear(BitsOf(rounds[t]), x))
                      /\ x = <<x[1], x[2]>> /\ x[1] \in DOMAIN rounds[t]
                      /\ l[1] \in BitsTaken /\ l[2] \in Bit
  OBVIOUS
<1> PICK v : v = rounds[t]
  OBVIOUS
<1>1. PICK x \in BitsOf(v) : l = <<<<v[x[1]][1], x[2]>>, Cardinality(Rear(BitsOf(v), x))>>
  BY DEF Numbered, Rear
<1>2. v \in Seq(Entry) /\ Cardinality(BitsOf(v)) <= W
  BY DEF TypeOK, DealInv, Fitting, Weight
<1>3. x \in (DOMAIN v) \X Bit /\ x[2] \in v[x[1]][2]
  BY <1>2, RoundBits
<1>4. v[x[1]][1] \in DOMAIN taken /\ v[x[1]][2] = taken[v[x[1]][1]]
  BY <1>3 DEF DealInv, Genuine
<1>5. l[1] \in BitsTaken
  BY <1>1, <1>3, <1>4 DEF BitsTaken, BitsAt
<1>6. Cardinality(Rear(BitsOf(v), x)) \in Bit
  BY <1>2, BehindFits
<1> QED  BY <1>1, <1>3, <1>5, <1>6

LEMMA RearDiffers ==
  TypeOK => \A t \in Thread : \A x, y \in BitsOf(rounds[t]) :
    Cardinality(Rear(BitsOf(rounds[t]), x)) = Cardinality(Rear(BitsOf(rounds[t]), y)) => x = y
<1> SUFFICES ASSUME TypeOK, NEW t \in Thread PROVE
      \A x, y \in BitsOf(rounds[t]) :
        Cardinality(Rear(BitsOf(rounds[t]), x)) = Cardinality(Rear(BitsOf(rounds[t]), y)) => x = y
  OBVIOUS
<1> PICK v : v = rounds[t]
  OBVIOUS
<1>1. v \in Seq(Entry)
  BY DEF TypeOK
<1>2. BitsOf(v) \subseteq (DOMAIN v) \X Bit /\ IsFiniteSet(BitsOf(v))
  BY <1>1, RoundBits
<1>3. DOMAIN v \subseteq Int
  BY <1>1, LenProperties
<1>4. BitsOf(v) \subseteq Int \X Int
  BY <1>2, <1>3
<1> QED  BY <1>2, <1>4, RearShrinks

LEMMA OnePlaceEach == DealtInv => EveryBitOnce
<1> SUFFICES ASSUME DealtInv, phase \in {"gather", "done"}
             PROVE  /\ \A x \in BitsTaken : \E p \in Thread \X Bit : Places(x) = {p}
                    /\ \A x, y \in BitsTaken : x # y => Places(x) \cap Places(y) = {}
                    /\ \A t \in Thread : \A l \in local[t] : l[1] \in BitsTaken /\ l[2] \in Bit
  BY DEF EveryBitOnce
<1>0. TypeOK /\ DealInv /\ left = {} /\ \A t \in Thread : local[t] = Numbered(rounds[t])
  BY DEF DealtInv, AcceptInv
<1>1. ASSUME NEW z \in BitsTaken PROVE \E p \in Thread \X Bit : Places(z) = {p}
  <2>1. PICK i \in DOMAIN taken : \E k \in taken[i] : z = <<i, k>>
    BY DEF BitsTaken, BitsAt
  <2>2. PICK k \in taken[i] : z = <<i, k>>
    BY <2>1
  <2>3. PICK t \in Thread : \E r \in DOMAIN rounds[t] : rounds[t][r][1] = i
    BY <1>0 DEF DealInv, Complete
  <2>4. PICK r \in DOMAIN rounds[t] : rounds[t][r][1] = i
    BY <2>3
  <2>5. rounds[t][r][2] = taken[i]
    BY <1>0, <2>4 DEF DealInv, Genuine
  <2> PICK x, b : x = <<r, k>> /\ b = Cardinality(Rear(BitsOf(rounds[t]), x))
    OBVIOUS
  <2>6. x \in BitsOf(rounds[t])
    BY <2>5 DEF BitsOf
  <2>7. <<z, b>> \in local[t]
    <3>1. <<<<rounds[t][x[1]][1], x[2]>>, Cardinality({y \in BitsOf(rounds[t]) : After(y, x)})>>
            \in Numbered(rounds[t])
      BY <2>6 DEF Numbered
    <3>2. <<rounds[t][x[1]][1], x[2]>> = z
      BY <2>2, <2>4
    <3> QED  BY <1>0, <3>1, <3>2 DEF Rear
  <2>8. b \in Bit
    <3>1. rounds[t] \in Seq(Entry) /\ Cardinality(BitsOf(rounds[t])) <= W
      BY <1>0 DEF TypeOK, DealInv, Fitting, Weight
    <3> QED  BY <2>6, <3>1, BehindFits
  <2>9. ASSUME NEW p \in Thread \X Bit, <<z, p[2]>> \in local[p[1]] PROVE p = <<t, b>>
    <3> PICK u, c : u = p[1] /\ c = p[2]
      OBVIOUS
    <3>1. u \in Thread /\ p = <<u, c>>
      OBVIOUS
    <3>2. <<z, c>> \in Numbered(rounds[u])
      BY <1>0, <2>9, <3>1
    <3>3. PICK y \in BitsOf(rounds[u]) :
             /\ z = <<rounds[u][y[1]][1], y[2]>>
             /\ c = Cardinality(Rear(BitsOf(rounds[u]), y))
             /\ y = <<y[1], y[2]>> /\ y[1] \in DOMAIN rounds[u]
      <4>1. \A l \in Numbered(rounds[u]) : \E y \in BitsOf(rounds[u]) :
              /\ l[1] = <<rounds[u][y[1]][1], y[2]>>
              /\ l[2] = Cardinality(Rear(BitsOf(rounds[u]), y))
              /\ y = <<y[1], y[2]>> /\ y[1] \in DOMAIN rounds[u]
        BY <1>0, <3>1, NumberedFrom
      <4>2. <<z, c>>[1] = z /\ <<z, c>>[2] = c
        OBVIOUS
      <4> QED  BY <3>2, <4>1, <4>2
    <3>4. rounds[u][y[1]][1] = i /\ y[2] = k
      BY <2>2, <3>3
    <3>5. u = t /\ y[1] = r
      BY <1>0, <2>4, <3>1, <3>3, <3>4 DEF DealInv, Once
    <3> QED  BY <3>1, <3>3, <3>4, <3>5
  <2> PICK p : p = <<t, b>>
    OBVIOUS
  <2>10. p \in Thread \X Bit /\ <<z, p[2]>> \in local[p[1]]
    BY <2>7, <2>8
  <2>11. Places(z) = {p}
    BY <2>9, <2>10 DEF Places
  <2> QED  BY <2>10, <2>11
<1>2. ASSUME NEW z \in BitsTaken, NEW w \in BitsTaken, NEW p \in Places(z) \cap Places(w) PROVE z = w
  <2> PICK t, b : t = p[1] /\ b = p[2]
    OBVIOUS
  <2>1. t \in Thread /\ <<z, b>> \in Numbered(rounds[t]) /\ <<w, b>> \in Numbered(rounds[t])
    BY <1>0 DEF Places
  <2>2. \A l \in Numbered(rounds[t]) : \E y \in BitsOf(rounds[t]) :
          /\ l[1] = <<rounds[t][y[1]][1], y[2]>>
          /\ l[2] = Cardinality(Rear(BitsOf(rounds[t]), y))
    BY <1>0, <2>1, NumberedFrom
  <2>3. PICK x \in BitsOf(rounds[t]) :
          /\ <<z, b>>[1] = <<rounds[t][x[1]][1], x[2]>>
          /\ <<z, b>>[2] = Cardinality(Rear(BitsOf(rounds[t]), x))
    BY <2>1, <2>2
  <2>4. PICK y \in BitsOf(rounds[t]) :
          /\ <<w, b>>[1] = <<rounds[t][y[1]][1], y[2]>>
          /\ <<w, b>>[2] = Cardinality(Rear(BitsOf(rounds[t]), y))
    BY <2>1, <2>2
  <2>5. x = y
    BY <1>0, <2>1, <2>3, <2>4, RearDiffers
  <2> QED  BY <2>3, <2>4, <2>5
<1>3. ASSUME NEW t \in Thread, NEW l \in local[t] PROVE l[1] \in BitsTaken /\ l[2] \in Bit
  BY <1>0, NumberedFrom
<1> QED  BY <1>1, <1>2, <1>3

(* Every wanted bit has one place in the threads' local words, which hold  *)
(* no more than they have bits, whichever chunk size succeeded: what the   *)
(* dealer, its retries and the numbering of build_script amount to.        *)
THEOREM EveryBitHasOnePlace == Spec => []EveryBitOnce
<1>1. Spec => []DealtInv
  BY DealtAlways
<1>2. DealtInv => EveryBitOnce
  BY OnePlaceEach
<1> QED  BY <1>1, <1>2, PTL

LEMMA AddressMeant ==
  \A idx \in Index : Address("cpu", idx) = Meant(idx) /\ (~Staged(idx) => Address("gpu", idx) = Meant(idx))
<1> TAKE idx \in Index
<1>1. Address("cpu", idx) = CpuAddress(idx) /\ Address("gpu", idx) = GpuAddress(idx)
  BY DEF Address
<1> QED  BY <1>1 DEF Meant, CpuAddress, GpuAddress, OutputBase

LEMMA GatheredArrives == DealtInv => InputsArrive
<1> SUFFICES ASSUME DealtInv, phase = "done", NEW t \in Thread, NEW l \in local[t]
             PROVE  Arrives("cpu", t, l) /\ (~Staged(l[1][1]) => Arrives("gpu", t, l))
  BY DEF InputsArrive
<1> PICK v : v = rounds[t]
  OBVIOUS
<1>1. TypeOK /\ DealInv /\ local[t] = Numbered(v) /\ ~MoreRounds
  BY DEF DealtInv, AcceptInv, GatherInv
<1>2. PICK x \in BitsOf(v) :
        /\ l[1] = <<v[x[1]][1], x[2]>>
        /\ l[2] = Cardinality(Rear(BitsOf(v), x))
        /\ x[1] \in DOMAIN v
  BY <1>1, NumberedFrom
<1>3. v \in Seq(Entry) /\ next \in Nat
  BY <1>1 DEF TypeOK
<1>4. Len(v) < next /\ x[1] < next
  <2>1. DOMAIN v = 1 .. Len(v) /\ Len(v) \in Nat
    BY <1>3, LenProperties
  <2> QED  BY <1>1, <1>2, <1>3, <2>1 DEF MoreRounds
<1>5. Behind(v, next, x) = l[2]
  BY <1>2, <1>3, <1>4, BehindLast
<1>6. ASSUME NEW m \in Machine
      PROVE  gathered[m][t][l[2]] = <<Address(m, v[x[1]][1]), x[2]>>
  <2>1. \A y \in BitsOf(v) :
          y[1] < next => gathered[m][t][Behind(v, next, y)] = <<Address(m, v[y[1]][1]), y[2]>>
    BY DEF DealtInv, GatherInv
  <2> QED  BY <1>4, <1>5, <2>1
<1>7. l[1][1] = v[x[1]][1] /\ l[1][2] = x[2]
  BY <1>2
<1>8. v[x[1]][1] \in Index
  BY <1>2, <1>3, Entries
<1> QED  BY <1>6, <1>7, <1>8, AddressMeant DEF Arrives, Machine

(* What the CPU executor and, for words of the input state, the kernel     *)
(* gather into a local bit is the input that build_script placed there.    *)
THEOREM InputsAlwaysArrive == Spec => []InputsArrive
<1>1. Spec => []DealtInv
  BY DealtAlways
<1>2. DealtInv => InputsArrive
  BY GatheredArrives
<1> QED  BY <1>1, <1>2, PTL

----------------------------------------------------------------------------
(* When the dealer gives up.  With single words a slice weighs what its    *)
(* word does.                                                              *)
LEMMA SingleSlices ==
  TypeOK /\ chunk = 1 => \A i \in DOMAIN taken : SliceWeight(i) = Cardinality(taken[i])
<1> SUFFICES ASSUME TypeOK, chunk = 1, NEW i \in DOMAIN taken
             PROVE  SliceWeight(i) = Cardinality(taken[i])
  OBVIOUS
<1> PICK D : D = DOMAIN taken
  OBVIOUS
<1>1. IsFiniteSet(D) /\ D \subseteq Int
  BY WantedFacts
<1>2. ASSUME NEW j \in D PROVE IsFiniteSet({m \in D : m < j}) /\ Rank(j) \in Nat
  <2>1. IsFiniteSet({m \in D : m < j})
    BY <1>1, FS_Subset
  <2> QED  BY <2>1, FS_CardinalityType DEF Rank
<1>3. ASSUME NEW j \in D, NEW k \in D, j < k PROVE Rank(j) # Rank(k)
  <2>1. j \in Int /\ k \in Int
    BY <1>1
  <2>2. {m \in D : m < j} \subseteq {m \in D : m < k}
    <3>1. \A m \in D : m < j => m < k
      BY <1>1, <1>3, <2>1
    <3> QED  BY <3>1
  <2>3. j \in {m \in D : m < k} /\ j \notin {m \in D : m < j}
    BY <1>3, <2>1
  <2> QED  BY <1>2, <2>2, <2>3, Fewer DEF Rank
<1>4. \A j \in D : Rank(j) \div chunk = Rank(j)
  <2>1. \A n \in Nat : n \div 1 = n
    OBVIOUS
  <2> QED  BY <1>2, <2>1
<1>5. \A j \in D : j # i => j < i \/ i < j
  BY <1>1
<1>6. SliceOf(i) = {i}
  BY <1>3, <1>4, <1>5 DEF SliceOf
<1>7. BitsAt({i}) = {i} \X taken[i]
  BY DEF BitsAt
<1> QED  BY <1>6, <1>7, WantedFacts, Tagged DEF SliceWeight

(* The bits dealt so far are as many different bits that are wanted.       *)
LEMMA DealtAreWanted ==
  TypeOK /\ DealInv =>
    LET P == UNION {{t} \X BitsOf(rounds[t]) : t \in Thread}
    IN  \A i \in left : IsFiniteSet(P) /\ Cardinality(P) < Cardinality(BitsTaken)
<1> SUFFICES ASSUME TypeOK, DealInv, NEW i \in left, NEW P,
                    P = UNION {{t} \X BitsOf(rounds[t]) : t \in Thread}
             PROVE  IsFiniteSet(P) /\ Cardinality(P) < Cardinality(BitsTaken)
  OBVIOUS
<1>1. IsFiniteSet(BitsTaken)
  <2>1. BitsTaken \subseteq (DOMAIN taken) \X Bit
    BY WantedFacts DEF BitsTaken, BitsAt
  <2>2. IsFiniteSet((DOMAIN taken) \X Bit)
    BY WantedFacts, BitFacts, FS_Product
  <2> QED  BY <2>1, <2>2, FS_Subset
<1>2. i \in DOMAIN taken /\ \E k : k \in taken[i]
  BY WantedFacts DEF TypeOK
<1>3. PICK k : k \in taken[i]
  BY <1>2
<1>40. ASSUME NEW j \in DOMAIN taken, NEW b \in taken[j] PROVE <<j, b>> \in BitsTaken
  BY DEF BitsTaken, BitsAt
<1>4. <<i, k>> \in BitsTaken
  BY <1>2, <1>3, <1>40
<1> PICK T : T = BitsTaken \ {<<i, k>>}
  OBVIOUS
<1>5. IsFiniteSet(T) /\ Cardinality(T) < Cardinality(BitsTaken) /\ Cardinality(T) \in Nat /\ Cardinality(BitsTaken) \in Nat
  <2>1. T \subseteq BitsTaken /\ <<i, k>> \notin T
    OBVIOUS
  <2> QED  BY <1>1, <1>4, <2>1, Fewer
<1>6. \A p \in P : /\ p[1] \in Thread /\ p[2] \in BitsOf(rounds[p[1]])
                   /\ p[2][1] \in DOMAIN rounds[p[1]]
                   /\ p[2][2] \in rounds[p[1]][p[2][1]][2]
                   /\ p = <<p[1], <<p[2][1], p[2][2]>>>>
  <2> TAKE p \in P
  <2>1. p[1] \in Thread /\ p[2] \in BitsOf(rounds[p[1]]) /\ p = <<p[1], p[2]>>
    OBVIOUS
  <2>2. rounds[p[1]] \in Seq(Entry)
    BY <2>1 DEF TypeOK
  <2>3. p[2] \in (DOMAIN rounds[p[1]]) \X Bit /\ p[2][2] \in rounds[p[1]][p[2][1]][2]
    BY <2>1, <2>2, RoundBits
  <2> QED  BY <2>1, <2>3
<1>60. PICK g : g = [p \in P |-> <<rounds[p[1]][p[2][1]][1], p[2][2]>>]
  OBVIOUS
<1>7. g \in [P -> T]
  <2> SUFFICES ASSUME NEW p \in P PROVE <<rounds[p[1]][p[2][1]][1], p[2][2]>> \in T
    BY <1>60
  <2>1. /\ rounds[p[1]][p[2][1]][1] \in DOMAIN taken \ left
        /\ rounds[p[1]][p[2][1]][2] = taken[rounds[p[1]][p[2][1]][1]]
    BY <1>6 DEF DealInv, Genuine
  <2>2. <<rounds[p[1]][p[2][1]][1], p[2][2]>> \in BitsTaken
    BY <1>6, <1>40, <2>1
  <2> QED  BY <2>1, <2>2
<1>8. ASSUME NEW p \in P, NEW q \in P, g[p] = g[q] PROVE p = q
  <2>1. rounds[p[1]][p[2][1]][1] = rounds[q[1]][q[2][1]][1] /\ p[2][2] = q[2][2]
    BY <1>8, <1>60
  <2>2. p[1] = q[1] /\ p[2][1] = q[2][1]
    BY <1>6, <2>1 DEF DealInv, Once
  <2>3. p = <<p[1], <<p[2][1], p[2][2]>>>> /\ q = <<q[1], <<q[2][1], q[2][2]>>>>
    BY <1>6
  <2> QED  BY <2>1, <2>2, <2>3
<1>9. g \in Injection(P, T)
  BY <1>7, <1>8, OneToOne
<1>10. IsFiniteSet(P) /\ Cardinality(P) <= Cardinality(T)
  BY <1>5, <1>9, FS_Injection
<1> QED  BY <1>5, <1>10, FS_CardinalityType

(* Sets of at least half a word each, one per thread, are together half of *)
(* all there is room for.                                                  *)
LEMMA HalfEach ==
  \A B : (\A t \in Thread : IsFiniteSet(B[t]) /\ 2 * Cardinality(B[t]) >= W) =>
    LET P == UNION {{t} \X B[t] : t \in Thread}
    IN  IsFiniteSet(P) => 2 * Cardinality(P) >= Threads * W
<1> SUFFICES ASSUME NEW B, \A t \in Thread : IsFiniteSet(B[t]) /\ 2 * Cardinality(B[t]) >= W,
                    NEW P, P = UNION {{t} \X B[t] : t \in Thread}, IsFiniteSet(P)
             PROVE  2 * Cardinality(P) >= Threads * W
  OBVIOUS
<1>1. PICK Two : IsFiniteSet(Two) /\ Cardinality(Two) = 2
  <2>1. IsFiniteSet({0}) /\ IsFiniteSet({1}) /\ Cardinality({0}) = 1 /\ Cardinality({1}) = 1
    BY FS_Singleton
  <2>2. {0} \cap {1} = {}
    OBVIOUS
  <2> PICK S : S = {0} \cup {1}
    OBVIOUS
  <2>3. IsFiniteSet(S) /\ Cardinality(S) = Cardinality({0}) + Cardinality({1})
    BY <2>1, <2>2, Disjointly
  <2>4. Cardinality(S) = 2
    BY <2>1, <2>3
  <2> QED  BY <2>3, <2>4
<1>2. ASSUME NEW t \in Thread PROVE \E f \in [1 .. W -> B[t] \X Two] : \A m, n \in 1 .. W : f[m] = f[n] => m = n
  <2> PICK S : S = B[t] \X Two
    OBVIOUS
  <2>1. IsFiniteSet(S) /\ Cardinality(S) = Cardinality(B[t]) * 2
    BY <1>1, FS_Product
  <2>2. Cardinality(B[t]) \in Nat
    BY FS_CardinalityType
  <2>3. Cardinality(S) >= W /\ Cardinality(S) \in Nat
    BY <2>1, <2>2
  <2>4. PICK b \in Bijection(1 .. Cardinality(S), S) : TRUE
    BY <2>1, FS_CardinalityType DEF ExistsBijection
  <2>5. b \in [1 .. Cardinality(S) -> S] /\ \A m, n \in 1 .. Cardinality(S) : b[m] = b[n] => m = n
    BY <2>4 DEF Bijection, Injection, IsInjective
  <2> PICK f : f = [n \in 1 .. W |-> b[n]]
    OBVIOUS
  <2>6. 1 .. W \subseteq 1 .. Cardinality(S)
    BY <2>3
  <2>7. f \in [1 .. W -> S] /\ \A m, n \in 1 .. W : f[m] = f[n] => m = n
    BY <2>5, <2>6
  <2> QED  BY <2>7
<1>3. PICK F : F = [t \in Thread |-> CHOOSE f \in [1 .. W -> B[t] \X Two] : \A m, n \in 1 .. W : f[m] = f[n] => m = n]
  OBVIOUS
<1>4. \A t \in Thread : F[t] \in [1 .. W -> B[t] \X Two] /\ \A m, n \in 1 .. W : F[t][m] = F[t][n] => m = n
  BY <1>2, <1>3
<1>5. PICK A, Q : A = Thread \X (1 .. W) /\ Q = P \X Two
  OBVIOUS
<1>6. PICK h : h = [a \in A |-> <<<<a[1], F[a[1]][a[2]][1]>>, F[a[1]][a[2]][2]>>]
  OBVIOUS
<1> HIDE DEF Thread
<1>7. ASSUME NEW a \in A
      PROVE  /\ a[1] \in Thread /\ a[2] \in 1 .. W /\ a = <<a[1], a[2]>>
             /\ F[a[1]][a[2]][1] \in B[a[1]] /\ F[a[1]][a[2]][2] \in Two
             /\ F[a[1]][a[2]] = <<F[a[1]][a[2]][1], F[a[1]][a[2]][2]>>
  <2>1. a[1] \in Thread /\ a[2] \in 1 .. W /\ a = <<a[1], a[2]>>
    BY <1>5
  <2>2. F[a[1]] \in [1 .. W -> B[a[1]] \X Two]
    BY <1>4, <2>1
  <2>3. F[a[1]][a[2]] \in B[a[1]] \X Two
    BY <2>1, <2>2
  <2> QED  BY <2>1, <2>3
<1>8. h \in [A -> Q]
  <2>1. ASSUME NEW a \in A PROVE <<<<a[1], F[a[1]][a[2]][1]>>, F[a[1]][a[2]][2]>> \in Q
    <3>1. <<a[1], F[a[1]][a[2]][1]>> \in P
      BY <1>7
    <3> QED  BY <1>5, <1>7, <3>1
  <2> QED  BY <1>6, <2>1
<1>9. ASSUME NEW a \in A, NEW c \in A, h[a] = h[c] PROVE a = c
  <2>1. PICK y, z : y = F[a[1]][a[2]] /\ z = F[c[1]][c[2]]
    OBVIOUS
  <2>2. h[a] = <<<<a[1], y[1]>>, y[2]>> /\ h[c] = <<<<c[1], z[1]>>, z[2]>>
    BY <1>6, <2>1
  <2>3. a[1] = c[1] /\ y[1] = z[1] /\ y[2] = z[2]
    <3>1. <<<<a[1], y[1]>>, y[2]>> = <<<<c[1], z[1]>>, z[2]>>
      BY <1>9, <2>2
    <3>2. \A i, j, k, l, m, n : <<<<i, j>>, k>> = <<<<l, m>>, n>> => i = l /\ j = m /\ k = n
      OBVIOUS
    <3> QED  BY <3>1, <3>2
  <2>4. y = <<y[1], y[2]>> /\ z = <<z[1], z[2]>>
    BY <1>7, <2>1
  <2>5. y = z
    BY <2>3, <2>4
  <2>6. \A m, n \in 1 .. W : F[a[1]][m] = F[a[1]][n] => m = n
    BY <1>4, <1>7
  <2>7. a[2] = c[2]
    BY <1>7, <2>1, <2>3, <2>5, <2>6
  <2> QED  BY <1>7, <2>3, <2>7
<1>10. h \in Injection(A, Q)
  BY <1>8, <1>9 DEF Injection, IsInjective
<1>11. IsFiniteSet(Q) /\ Cardinality(Q) = Cardinality(P) * 2
  BY <1>1, <1>5, FS_Product
<1>12. Cardinality(A) <= Cardinality(Q)
  BY <1>10, <1>11, FS_Injection
<1>13. IsFiniteSet(Thread) /\ Cardinality(Thread) = Threads /\ IsFiniteSet(1 .. W) /\ Cardinality(1 .. W) = W
  BY FS_Interval DEF Thread
<1>14. Cardinality(A) = Cardinality(Thread) * Cardinality(1 .. W)
  BY <1>5, <1>13, FS_Product
<1>15. Cardinality(P) \in Nat
  BY FS_CardinalityType
<1> QED  BY <1>11, <1>12, <1>13, <1>14, <1>15

(* The heaviest word left fits nowhere: each thread has a word that is no  *)
(* lighter, and room for less than another.                                *)
LEMMA HalfWhenStuck ==
  ASSUME TypeOK, DealInv, FailInv, phase = "deal", chunk = 1,
         NEW idx \in left, \A u \in Thread : ~Fits(u, taken[idx])
  PROVE  2 * Cardinality(BitsTaken) > Threads * W
<1>1. idx \in DOMAIN taken
  BY DEF TypeOK
<1> PICK w : w = Cardinality(taken[idx])
  OBVIOUS
<1>2. w \in Nat \ {0} /\ w <= W
  BY <1>1, WantedFacts, BitFacts, FS_Subset
<1>3. ASSUME NEW u \in Thread PROVE IsFiniteSet(BitsOf(rounds[u])) /\ 2 * Cardinality(BitsOf(rounds[u])) >= W
  <2> PICK v : v = rounds[u]
    OBVIOUS
  <2>1. v \in Seq(Entry) /\ Weight(u) \in Nat /\ Weight(u) = Cardinality(BitsOf(v))
    BY WeightFacts DEF Weight
  <2>2. IsFiniteSet(BitsOf(v))
    BY <2>1, RoundBits
  <2>3. Weight(u) + w > W
    BY <1>2, <2>1 DEF Fits
  <2>4. BitsOf(v) # {}
    <3>1. Weight(u) # 0
      BY <1>2, <2>1, <2>3
    <3> QED  BY <2>1, <3>1, FS_EmptySet
  <2>5. PICK x : x \in BitsOf(v)
    BY <2>4
  <2> PICK r : r = x[1]
    OBVIOUS
  <2>6. r \in DOMAIN v /\ v[r] \in Entry
    <3>1. x \in (DOMAIN v) \X Bit
      BY <2>1, <2>5, RoundBits
    <3>2. r \in DOMAIN v
      BY <3>1
    <3>3. v[r] \in Entry
      BY <2>1, <3>2, Entries
    <3> QED  BY <3>2, <3>3
  <2>7. Cardinality(v[r][2]) >= w
    BY <2>6 DEF FailInv
  <2>8. {r} \X v[r][2] \subseteq BitsOf(v)
    BY <2>6 DEF BitsOf
  <2>9. IsFiniteSet(v[r][2])
    BY <2>6, BitFacts, FS_Subset
  <2>10. Cardinality({r} \X v[r][2]) = Cardinality(v[r][2])
    BY <2>9, Tagged
  <2>11. Cardinality({r} \X v[r][2]) <= Cardinality(BitsOf(v))
    BY <2>2, <2>8, FS_Subset
  <2>12. Cardinality(v[r][2]) \in Nat
    BY <2>9, FS_CardinalityType
  <2> QED  BY <1>2, <2>1, <2>2, <2>3, <2>7, <2>10, <2>11, <2>12
<1> PICK B, P : /\ B = [t \in Thread |-> BitsOf(rounds[t])]
                /\ P = UNION {{t} \X BitsOf(rounds[t]) : t \in Thread}
  OBVIOUS
<1>4. IsFiniteSet(P) /\ Cardinality(P) < Cardinality(BitsTaken)
  BY DealtAreWanted
<1>5. P = UNION {{t} \X B[t] : t \in Thread}
  OBVIOUS
<1>6. \A t \in Thread : IsFiniteSet(B[t]) /\ 2 * Cardinality(B[t]) >= W
  BY <1>3
<1>7. 2 * Cardinality(P) >= Threads * W
  BY <1>4, <1>5, <1>6, HalfEach
<1>8. Cardinality(P) \in Nat
  BY <1>4, FS_CardinalityType
<1>9. Cardinality(BitsTaken) \in Nat
  <2>1. BitsTaken \subseteq (DOMAIN taken) \X Bit
    BY WantedFacts DEF BitsTaken, BitsAt
  <2>2. IsFiniteSet((DOMAIN taken) \X Bit)
    BY WantedFacts, BitFacts, FS_Product
  <2> QED  BY <2>1, <2>2, FS_Subset, FS_CardinalityType
<1> PICK c, b, n : c = Cardinality(P) /\ b = Cardinality(BitsTaken) /\ n = Threads * W
  OBVIOUS
<1>10. n \in Int
  OBVIOUS
<1> QED  BY <1>4, <1>7, <1>8, <1>9, <1>10

LEMMA HeaviestFirst ==
  TypeOK /\ chunk = 1 =>
    \A idx \in left : First(idx) =>
      \A i \in left : Cardinality(taken[idx]) >= Cardinality(taken[i])
<1> SUFFICES ASSUME TypeOK, chunk = 1, NEW idx \in left, First(idx), NEW i \in left
             PROVE  Cardinality(taken[idx]) >= Cardinality(taken[i])
  OBVIOUS
<1>1. idx \in DOMAIN taken /\ i \in DOMAIN taken
  BY DEF TypeOK
<1>2. Cardinality(taken[idx]) \in Nat /\ Cardinality(taken[i]) \in Nat
  BY <1>1, WantedFacts
<1>3. SliceWeight(idx) = Cardinality(taken[idx]) /\ SliceWeight(i) = Cardinality(taken[i])
  BY <1>1, SingleSlices
<1>4. i = idx \/ Precedes(idx, i)
  BY DEF First
<1> QED  BY <1>2, <1>3, <1>4 DEF Precedes

LEMMA FailKeeps ==
  TypeOK /\ DealInv /\ FailInv /\ [Next]_vars => FailInv'
<1> SUFFICES ASSUME TypeOK, DealInv, FailInv, [Next]_vars PROVE FailInv'
  OBVIOUS
<1>1. CASE Deal
  <2>1. taken' = taken /\ chunk' = chunk /\ phase' = phase /\ phase = "deal" /\ chunk # 0
    BY <1>1 DEF Deal, TypeOK
  <2> SUFFICES ASSUME chunk = 1, NEW t \in Thread, NEW r \in DOMAIN rounds'[t], NEW i \in left'
               PROVE  Cardinality(rounds'[t][r][2]) >= Cardinality(taken[i])
    BY <2>1 DEF FailInv
  <2>02. PICK idx \in left, u \in Thread : \E en : en = <<idx, taken[idx]>> /\ DealtTo(idx, u, en)
    BY <1>1, SomeWordIsDealt
  <2>2. PICK en : en = <<idx, taken[idx]>> /\ DealtTo(idx, u, en)
    BY <2>02
  <2>3. i \in left
    BY <2>2 DEF DealtTo
  <2>4. CASE r \in DOMAIN rounds[t]
    <3>1. rounds'[t][r] = rounds[t][r]
      BY <2>2, <2>4 DEF DealtTo
    <3> QED  BY <2>1, <2>3, <2>4, <3>1 DEF FailInv
  <2>5. CASE r \notin DOMAIN rounds[t]
    <3>1. rounds'[t][r] = en /\ First(idx)
      BY <2>2, <2>5 DEF DealtTo
    <3>2. rounds'[t][r][2] = taken[idx]
      BY <2>2, <3>1
    <3>3. Cardinality(taken[idx]) >= Cardinality(taken[i])
      BY <2>3, <3>1, HeaviestFirst
    <3> QED  BY <3>2, <3>3
  <2> QED  BY <2>4, <2>5
<1>2. CASE Retry
  <2>1. /\ taken' = taken /\ rounds' = Nothing /\ phase' = "deal" /\ phase = "deal"
        /\ chunk' = chunk \div 2 /\ chunk \in Nat \ {0}
    BY <1>2 DEF Retry, TypeOK
  <2>2. \A t \in Thread : DOMAIN rounds'[t] = {}
    BY <2>1, NoRounds
  <2>3. chunk' = 0 => chunk = 1
    BY <2>1
  <2>4. ASSUME chunk = 1 PROVE HalfFull
    <3>1. PICK idx \in left : \A u \in Thread : ~Fits(u, taken[idx])
      BY <1>2 DEF Retry
    <3>2. 2 * Cardinality(BitsTaken) > Threads * W
      BY <2>1, <2>4, <3>1, HalfWhenStuck
    <3> QED  BY <3>2 DEF HalfFull
  <2>5. HalfFull' = HalfFull
    BY <2>1 DEF HalfFull, BitsTaken, BitsAt
  <2> QED  BY <2>1, <2>2, <2>3, <2>4, <2>5 DEF FailInv
<1>3. CASE Panic
  <2>1. taken' = taken /\ phase' = "panic" /\ phase = "deal" /\ chunk = 0
    BY <1>3 DEF Panic
  <2>2. HalfFull' = HalfFull
    BY <2>1 DEF HalfFull, BitsTaken, BitsAt
  <2> QED  BY <2>1, <2>2 DEF FailInv
<1>4. CASE Accept \/ GatherRound \/ Finish
  BY <1>4 DEF Accept, GatherRound, Finish, FailInv
<1>5. CASE UNCHANGED vars
  BY <1>5 DEF vars, dealing, FailInv, HalfFull, BitsTaken, BitsAt
<1> QED  BY <1>1, <1>2, <1>3, <1>4, <1>5 DEF Next, Done

LEMMA FailInit == Init => FailInv
<1> SUFFICES ASSUME Init PROVE FailInv
  OBVIOUS
<1>1. rounds = Nothing /\ phase = "deal" /\ chunk = Cardinality(DOMAIN taken) /\ IsFiniteSet(DOMAIN taken)
  BY WantedAssumption DEF Init
<1>2. chunk = 0 => DOMAIN taken = {}
  BY <1>1, FS_EmptySet
<1> QED  BY <1>1, <1>2, NoRounds DEF FailInv, HalfFull

(* The panic "cannot map global init to any multiples of rounds" means     *)
(* that nothing is read at all or more than half of what the threads hold. *)
THEOREM PanicsOnlyWhenHalfFull == Spec => []PanicsWhenHalfFull
<1>1. Spec => []DealtInv
  BY DealtAlways
<1>2. Init => FailInv
  BY FailInit
<1>3. DealtInv /\ FailInv /\ [Next]_vars => FailInv'
  BY FailKeeps DEF DealtInv
<1>4. FailInv => PanicsWhenHalfFull
  BY DEF FailInv, HalfFull, PanicsWhenHalfFull
<1> QED  BY <1>1, <1>2, <1>3, <1>4, PTL DEF Spec
============================================================================
