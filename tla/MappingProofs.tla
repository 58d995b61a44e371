--------------------------- MODULE MappingProofs ---------------------------
(***************************************************************************)
(* For every set of circuits, every mapper, cone measure and hypergraph,   *)
(* and every partitioning that the partitioner returns: the rounds and the *)
(* merges neither lose an endpoint group nor serve one twice, the flow     *)
(* stops only for the reasons listed, and no iteration is idle.            *)
(***************************************************************************)
EXTENDS Mapping, TLAPS, FiniteSetTheorems, SequenceTheorems

Piece == [ends : Seq(Nat), stages : Nat]

(* From the first step on, the stages are those of the circuit, and one of *)
(* them is being mapped.                                                   *)
StageInv ==
  /\ circuit \in Circuits /\ division \in Nat
  /\ phase \in {"split", "cut", "merge", "done", "empty", "unmappable", "refused"}
  /\ phase = "split" => at = 1
  /\ phase # "split" => stageds = StagesOf(circuit)
  /\ phase \in {"cut", "merge"} => at \in DOMAIN stageds

(* What is left to partition is in ascending order, and what is kept fits. *)
RoundInv ==
  phase = "cut" =>
    /\ good \in Seq(Seq(Nat)) /\ unrealized \in Seq(Nat)
    /\ \A i, k \in DOMAIN unrealized : i < k => unrealized[i] < unrealized[k]
    /\ Shared(Append(good, unrealized), Group(Staged))
    /\ \A k \in DOMAIN good : Mapped(good[k]).fits
    /\ circuit.file => good = <<>>

(* The part that grows is the one on record; what is not yet merged maps,  *)
(* within the limit.                                                       *)
Recorded == part <= Len(parts) => self = Built(parts[part])
Mappable == \A k \in part .. Len(parts) : parts[k] # <<>> => NotWorse(Mapped(parts[k]))
Finished == \A k \in DOMAIN effective :
              /\ Mapped(effective[k].ends).fits
              /\ effective[k] = Built(effective[k].ends) /\ effective[k].stages <= most

MergeInv ==
  phase = "merge" =>
    /\ parts \in Seq(Seq(Nat)) /\ effective \in Seq(Piece)
    /\ part \in 1 .. Len(parts) + 1
    /\ Shared(Held(effective, parts, part), Group(Staged))
    /\ Recorded /\ Mappable /\ Finished

(* The parts of the stages before this one are on record.                  *)
Descending(ps) == \A i, j \in DOMAIN ps : i < j => ps[i].stages >= ps[j].stages
ResultInv ==
  /\ result \in Seq(Seq(Piece))
  /\ phase = "split" => result = <<>>
  /\ phase \in {"cut", "merge"} => Len(result) = at - 1
  /\ \A k \in DOMAIN result : Shared(EndsOf(result[k]), Group(stageds[k])) /\ Descending(result[k])

MappingInv == StageInv /\ RoundInv /\ MergeInv /\ ResultInv /\ StopsForAReason

----------------------------------------------------------------------------
(* Counting.                                                               *)
LEMMA OneToOne ==
  \A S, T, f :
    f \in [S -> T] /\ (\A a, b \in S : f[a] = f[b] => a = b) => f \in Injection(S, T)
BY DEF Injection, IsInjective

LEMMA Interval ==
  \A a, b \in Int : IsFiniteSet(a .. b) /\ Cardinality(a .. b) = IF a > b THEN 0 ELSE b - a + 1
BY FS_Interval

LEMMA Listed ==
  \A n, T, f : n \in Nat /\ f \in [1 .. n -> T] => f \in Seq(T) /\ Len(f) = n /\ DOMAIN f = 1 .. n
<1> TAKE n, T, f
<1> HAVE n \in Nat /\ f \in [1 .. n -> T]
<1>1. f \in Seq(T)
  OBVIOUS
<1> QED  BY <1>1, LenProperties

LEMMA UpTo == \A n \in Nat : IsFiniteSet(1 .. n) /\ Cardinality(1 .. n) = n
<1> TAKE n \in Nat
<1>1. 1 \in Int /\ n \in Int /\ n = IF 1 > n THEN 0 ELSE n - 1 + 1
  OBVIOUS
<1> QED  BY <1>1, Interval

LEMMA Image ==
  \A S, f : IsFiniteSet(S) =>
    IsFiniteSet({f[x] : x \in S}) /\ Cardinality({f[x] : x \in S}) <= Cardinality(S)
<1> TAKE S, f
<1> HAVE IsFiniteSet(S)
<1> PICK T : T = {f[x] : x \in S}
  OBVIOUS
<1> PICK g : g = [x \in S |-> f[x]]
  OBVIOUS
<1>1. g \in Surjection(S, T)
  BY DEF Surjection
<1> QED  BY <1>1, FS_Surjection

LEMMA Fewer ==
  \A S, T, x : IsFiniteSet(S) /\ T \subseteq S /\ x \in S /\ x \notin T =>
    IsFiniteSet(T) /\ Cardinality(T) \in Nat /\ Cardinality(S) \in Nat /\ Cardinality(T) < Cardinality(S)
<1> TAKE S, T, x
<1> HAVE IsFiniteSet(S) /\ T \subseteq S /\ x \in S /\ x \notin T
<1>1. IsFiniteSet(T) /\ Cardinality(T) <= Cardinality(S) /\ (Cardinality(S) = Cardinality(T) => S = T)
  BY FS_Subset
<1> QED  BY <1>1, FS_CardinalityType

(* The elements of smaller rank.                                           *)
Under(S, rank, x) == {y \in S : rank[y] < rank[x]}

LEMMA UnderGrows ==
  \A S, rank : IsFiniteSet(S) /\ rank \in [S -> Int] =>
    /\ \A x \in S : Cardinality(Under(S, rank, x)) \in 0 .. Cardinality(S) - 1
    /\ \A x, y \in S : rank[x] < rank[y] =>
         Cardinality(Under(S, rank, x)) < Cardinality(Under(S, rank, y))
<1> TAKE S, rank
<1> HAVE IsFiniteSet(S) /\ rank \in [S -> Int]
<1>1. \A x \in S : Under(S, rank, x) \subseteq S /\ IsFiniteSet(Under(S, rank, x))
  BY FS_Subset DEF Under
<1>2. ASSUME NEW x \in S PROVE Cardinality(Under(S, rank, x)) \in 0 .. Cardinality(S) - 1
  <2>1. x \notin Under(S, rank, x)
    BY DEF Under
  <2> QED  BY <2>1, <1>1, Fewer
<1>3. ASSUME NEW x \in S, NEW y \in S, rank[x] < rank[y]
      PROVE  Cardinality(Under(S, rank, x)) < Cardinality(Under(S, rank, y))
  <2>1. x \in Under(S, rank, y) /\ x \notin Under(S, rank, x)
    BY <1>3 DEF Under
  <2>2. Under(S, rank, x) \subseteq Under(S, rank, y)
    BY <1>3 DEF Under
  <2> QED  BY <2>1, <2>2, <1>1, Fewer
<1> QED  BY <1>2, <1>3

(* Elements of different rank: sorting lists each one once, ascending.     *)
Distinct(S, rank) == \A x, y \in S : rank[x] = rank[y] => x = y

LEMMA Ranked ==
  \A S, rank : IsFiniteSet(S) /\ rank \in [S -> Int] /\ Distinct(S, rank) =>
    \A i \in 1 .. Cardinality(S) : \E x \in S : Cardinality(Under(S, rank, x)) = i - 1
<1> TAKE S, rank
<1> HAVE IsFiniteSet(S) /\ rank \in [S -> Int] /\ Distinct(S, rank)
<1> PICK n \in Nat : n = Cardinality(S)
  BY FS_CardinalityType
<1> DEFINE place == [x \in S |-> Cardinality(Under(S, rank, x))]
<1>1. place \in [S -> 0 .. n - 1]
  BY UnderGrows
<1>2. ASSUME NEW x \in S, NEW y \in S, place[x] = place[y] PROVE x = y
  <2>1. place[x] \in Int /\ place[y] \in Int /\ ~(place[x] < place[y]) /\ ~(place[y] < place[x])
    BY <1>1, <1>2
  <2>2. ~(rank[x] < rank[y]) /\ ~(rank[y] < rank[x])
    BY <2>1, UnderGrows
  <2>3. rank[x] \in Int /\ rank[y] \in Int
    OBVIOUS
  <2>4. rank[x] = rank[y]
    BY <2>2, <2>3
  <2> QED  BY <2>4 DEF Distinct
<1>3. place \in Injection(S, 0 .. n - 1)
  <2> HIDE DEF place
  <2> QED  BY <1>1, <1>2, OneToOne
<1>4. IsFiniteSet(0 .. n - 1) /\ Cardinality(0 .. n - 1) = n
  <2>1. 0 \in Int /\ n - 1 \in Int /\ n = IF 0 > n - 1 THEN 0 ELSE n - 1 - 0 + 1
    OBVIOUS
  <2> QED  BY <2>1, Interval
<1>5. place \in Surjection(S, 0 .. n - 1)
  <2> HIDE DEF place
  <2> QED  BY <1>3, <1>4, FS_Injection
<1>6. ASSUME NEW i \in 1 .. n PROVE \E x \in S : place[x] = i - 1
  <2> HIDE DEF place
  <2>1. i - 1 \in 0 .. n - 1
    OBVIOUS
  <2> QED  BY <1>5, <2>1 DEF Surjection
<1> QED  BY <1>6

Ordered(s, S, rank) ==
  /\ s \in Seq(S) /\ Len(s) = Cardinality(S) /\ Cardinality(S) \in Nat
  /\ IsInjective(s) /\ Range(s) = S
  /\ \A i, j \in DOMAIN s : i < j => rank[s[i]] < rank[s[j]]

LEMMA SortedFacts ==
  \A S, rank : IsFiniteSet(S) /\ rank \in [S -> Int] /\ Distinct(S, rank) =>
    Ordered(Sorted(S, rank), S, rank)
<1> TAKE S, rank
<1> HAVE IsFiniteSet(S) /\ rank \in [S -> Int] /\ Distinct(S, rank)
<1> DEFINE s == Sorted(S, rank)
           size(x) == Cardinality(Under(S, rank, x))
           nth(i) == CHOOSE x \in S : size(x) = i - 1
<1> PICK n \in Nat : n = Cardinality(S)
  BY FS_CardinalityType
<1>1. \A x \in S : size(x) \in 0 .. n - 1
  BY UnderGrows
<1>2. s = [i \in 1 .. n |-> nth(i)]
  BY DEF Sorted, Under
<1>3. ASSUME NEW i \in 1 .. n PROVE s[i] \in S /\ size(s[i]) = i - 1
  <2>1. \E x \in S : size(x) = i - 1
    BY Ranked
  <2>2. nth(i) \in S /\ size(nth(i)) = i - 1
    <3> HIDE DEF s, size
    <3> QED  BY <2>1
  <2>3. s[i] = nth(i)
    <3> HIDE DEF s, nth
    <3> QED  BY <1>2
  <2> QED  BY <2>2, <2>3
<1>4. \A x, y \in S : rank[x] < rank[y] => size(x) < size(y)
  BY UnderGrows
<1> HIDE DEF s, size, nth
<1>5. \A x, y \in S : size(x) = size(y) => x = y
  <2> TAKE x, y \in S
  <2> HAVE size(x) = size(y)
  <2>1. ~(rank[x] < rank[y]) /\ ~(rank[y] < rank[x])
    BY <1>1, <1>4
  <2>2. rank[x] = rank[y]
    BY <2>1
  <2> QED  BY <2>2 DEF Distinct
<1>6. s \in [1 .. n -> S] /\ DOMAIN s = 1 .. n
  BY <1>2, <1>3
<1>7. s \in Seq(S) /\ Len(s) = n
  BY <1>6, Listed
<1>8. IsInjective(s)
  <2> SUFFICES ASSUME NEW a \in 1 .. n, NEW b \in 1 .. n, s[a] = s[b] PROVE a = b
    BY <1>6 DEF IsInjective
  <2>1. size(s[a]) = a - 1 /\ size(s[b]) = b - 1
    BY <1>3
  <2> QED  BY <2>1
<1>9. Range(s) = S
  <2>1. ASSUME NEW x \in S PROVE \E i \in 1 .. n : s[i] = x
    <3>1. size(x) \in 0 .. n - 1
      BY <1>1
    <3>2. size(x) + 1 \in 1 .. n /\ (size(x) + 1) - 1 = size(x)
      BY <3>1
    <3>3. s[size(x) + 1] \in S /\ size(s[size(x) + 1]) = size(x)
      BY <3>2, <1>3
    <3>4. s[size(x) + 1] = x
      BY <3>3, <1>5
    <3> QED  BY <3>2, <3>4
  <2> QED  BY <2>1, <1>6, <1>3 DEF Range
<1>10. ASSUME NEW i \in 1 .. n, NEW j \in 1 .. n, i < j PROVE rank[s[i]] < rank[s[j]]
  <2>1. size(s[i]) = i - 1 /\ size(s[j]) = j - 1 /\ s[i] \in S /\ s[j] \in S
    BY <1>3
  <2>2. ~(size(s[j]) < size(s[i])) /\ s[i] # s[j]
    BY <2>1, <1>10
  <2>3. ~(rank[s[j]] < rank[s[i]]) /\ rank[s[i]] # rank[s[j]]
    BY <2>1, <2>2, <1>4 DEF Distinct
  <2>4. rank[s[i]] \in Int /\ rank[s[j]] \in Int
    BY <2>1
  <2> QED  BY <2>3, <2>4
<1> QED  BY <1>6, <1>7, <1>8, <1>9, <1>10 DEF Ordered, s

LEMMA InOrderFacts ==
  \A S : S \subseteq Int /\ IsFiniteSet(S) =>
    /\ InOrder(S) \in Seq(S) /\ Len(InOrder(S)) = Cardinality(S) /\ Cardinality(S) \in Nat
    /\ IsInjective(InOrder(S)) /\ Range(InOrder(S)) = S
    /\ \A i, j \in DOMAIN InOrder(S) : i < j => InOrder(S)[i] < InOrder(S)[j]
<1> TAKE S
<1> HAVE S \subseteq Int /\ IsFiniteSet(S)
<1> PICK rank : rank = [x \in S |-> x]
  OBVIOUS
<1> PICK s : s = InOrder(S)
  OBVIOUS
<1>1. rank \in [S -> Int] /\ Distinct(S, rank)
  BY DEF Distinct
<1>2. Ordered(s, S, rank)
  BY <1>1, SortedFacts DEF InOrder
<1>3. \A i \in DOMAIN s : s[i] \in S
  BY <1>2, LenProperties, ElementOfSeq DEF Ordered
<1> QED  BY <1>2, <1>3 DEF Ordered

LEMMA LargestFacts ==
  \A S : S \subseteq Int /\ IsFiniteSet(S) /\ S # {} => Largest(S) \in S /\ \A y \in S : y <= Largest(S)
<1> TAKE S
<1> HAVE S \subseteq Int /\ IsFiniteSet(S) /\ S # {}
<1> PICK s : s = InOrder(S)
  OBVIOUS
<1>1. s \in Seq(S) /\ Range(s) = S /\ \A i, j \in DOMAIN s : i < j => s[i] < s[j]
  BY InOrderFacts
<1>2. PICK n \in Nat : DOMAIN s = 1 .. n /\ n = Len(s)
  BY <1>1, LenProperties
<1>3. \A i \in 1 .. n : s[i] \in S
  BY <1>1, <1>2, ElementOfSeq
<1>4. n \in 1 .. n
  BY <1>1, <1>2 DEF Range
<1>5. ASSUME NEW y \in S PROVE y <= s[n]
  <2>1. PICK i \in 1 .. n : y = s[i]
    BY <1>1, <1>2 DEF Range
  <2>2. s[i] \in Int /\ s[n] \in Int
    BY <1>3, <1>4
  <2>3. CASE i = n
    BY <2>1, <2>2, <2>3
  <2>4. CASE i < n
    BY <2>1, <2>2, <2>4, <1>1, <1>2, <1>4
  <2> QED  BY <2>3, <2>4
<1>6. \E x \in S : \A y \in S : y <= x
  BY <1>3, <1>4, <1>5
<1> QED  BY <1>6 DEF Largest

(* The elements of a sequence at some of its places.                       *)
Picks(s, order) == [i \in DOMAIN order |-> s[order[i]]]

LEMMA Picked ==
  \A s, T, D, order :
    s \in Seq(T) /\ D \subseteq DOMAIN s /\ order \in Seq(D) /\ IsInjective(order) /\ Range(order) = D =>
      /\ Picks(s, order) \in Seq(T) /\ Len(Picks(s, order)) = Len(order)
      /\ DOMAIN Picks(s, order) = DOMAIN order
      /\ Range(Picks(s, order)) = {s[d] : d \in D}
      /\ IsInjective(s) => IsInjective(Picks(s, order))
<1> TAKE s, T, D, order
<1> HAVE s \in Seq(T) /\ D \subseteq DOMAIN s /\ order \in Seq(D) /\ IsInjective(order) /\ Range(order) = D
<1> PICK p : p = Picks(s, order)
  OBVIOUS
<1>1. DOMAIN order = 1 .. Len(order) /\ Len(order) \in Nat /\ DOMAIN s = 1 .. Len(s)
  BY LenProperties
<1>2. \A i \in 1 .. Len(order) : order[i] \in D /\ s[order[i]] \in T
  BY <1>1, ElementOfSeq
<1>3. DOMAIN p = 1 .. Len(order) /\ \A i \in 1 .. Len(order) : p[i] = s[order[i]]
  BY <1>1 DEF Picks
<1>4. p \in [1 .. Len(order) -> T]
  BY <1>1, <1>2 DEF Picks
<1>5. p \in Seq(T)
  BY <1>4, <1>1, Listed
<1>6. Len(p) = Len(order)
  BY <1>4, <1>1, Listed
<1>7. Range(p) = {s[d] : d \in D}
  BY <1>1, <1>2, <1>3 DEF Range
<1>8. IsInjective(s) => IsInjective(p)
  BY <1>1, <1>2, <1>3 DEF IsInjective
<1> QED  BY <1>1, <1>3, <1>5, <1>6, <1>7, <1>8

(* What is gathered, and the set it is gathered from.                      *)
Places(indices, assignment, k) == {i \in DOMAIN indices : assignment[i] = k}

LEMMA PlacesFacts ==
  \A s, assignment, k : s \in Seq(Nat) =>
    /\ Places(s, assignment, k) \subseteq Int /\ IsFiniteSet(Places(s, assignment, k))
    /\ Places(s, assignment, k) \subseteq DOMAIN s
<1> TAKE s, assignment, k
<1> HAVE s \in Seq(Nat)
<1>1. DOMAIN s = 1 .. Len(s) /\ Len(s) \in Nat
  BY LenProperties
<1>2. IsFiniteSet(DOMAIN s)
  BY <1>1, Interval
<1>3. Places(s, assignment, k) \subseteq DOMAIN s
  BY DEF Places
<1> QED  BY <1>1, <1>2, <1>3, FS_Subset

LEMMA GatherFacts ==
  \A s, assignment, k : s \in Seq(Nat) =>
    /\ Gather(s, assignment, k) \in Seq(Nat)
    /\ Len(Gather(s, assignment, k)) = Cardinality(Places(s, assignment, k))
    /\ Range(Gather(s, assignment, k)) = {s[i] : i \in Places(s, assignment, k)}
    /\ IsInjective(s) => IsInjective(Gather(s, assignment, k))
<1> TAKE s, assignment, k
<1> HAVE s \in Seq(Nat)
<1> PICK D : D = Places(s, assignment, k)
  OBVIOUS
<1>1. D \subseteq Int /\ IsFiniteSet(D) /\ D \subseteq DOMAIN s
  BY PlacesFacts
<1>2. InOrder(D) \in Seq(D) /\ Len(InOrder(D)) = Cardinality(D)
      /\ IsInjective(InOrder(D)) /\ Range(InOrder(D)) = D
  BY <1>1, InOrderFacts
<1>3. Gather(s, assignment, k) = Picks(s, InOrder(D))
  BY DEF Gather, Places, Picks
<1> QED  BY <1>1, <1>2, <1>3, Picked

----------------------------------------------------------------------------
(* Sharing out.  The same lists in another order, and empty ones.          *)
LEMMA Reindexed ==
  \A lists, others, h, groups :
    /\ Shared(lists, groups)
    /\ h \in [DOMAIN others -> DOMAIN lists]
    /\ \A i, k \in DOMAIN others : h[i] = h[k] => i = k
    /\ \A k \in DOMAIN others : others[k] = lists[h[k]]
    /\ \A m \in DOMAIN lists : (\E k \in DOMAIN others : h[k] = m) \/ Range(lists[m]) = {}
    => Shared(others, groups)
<1> TAKE lists, others, h, groups
<1> HAVE /\ Shared(lists, groups)
         /\ h \in [DOMAIN others -> DOMAIN lists]
         /\ \A i, k \in DOMAIN others : h[i] = h[k] => i = k
         /\ \A k \in DOMAIN others : others[k] = lists[h[k]]
         /\ \A m \in DOMAIN lists : (\E k \in DOMAIN others : h[k] = m) \/ Range(lists[m]) = {}
<1>1. \A k \in DOMAIN others : IsInjective(others[k]) /\ Range(others[k]) \subseteq groups
  BY DEF Shared
<1>2. \A i, k \in DOMAIN others : i # k => Range(others[i]) \cap Range(others[k]) = {}
  BY DEF Shared
<1>3. ASSUME NEW g \in groups PROVE \E k \in DOMAIN others : g \in Range(others[k])
  <2>1. PICK m \in DOMAIN lists : g \in Range(lists[m])
    BY DEF Shared
  <2> QED  BY <2>1
<1> QED  BY <1>1, <1>2, <1>3 DEF Shared

(* What a list has is shared out again.                                    *)
LEMMA Divided ==
  \A lists, others, groups, rest, u, v :
    /\ Shared(Append(lists, u), groups)
    /\ lists \in Seq(Seq(Nat)) /\ rest \in Seq(Seq(Nat)) /\ u \in Seq(Nat) /\ v \in Seq(Nat)
    /\ Shared(Append(rest, v), Range(u))
    /\ others = lists \o rest
    => Shared(Append(others, v), groups)
<1> TAKE lists, others, groups, rest, u, v
<1> HAVE /\ Shared(Append(lists, u), groups)
         /\ lists \in Seq(Seq(Nat)) /\ rest \in Seq(Seq(Nat)) /\ u \in Seq(Nat) /\ v \in Seq(Nat)
         /\ Shared(Append(rest, v), Range(u))
         /\ others = lists \o rest
<1> DEFINE a == Len(lists)
           b == Len(rest)
           old == Append(lists, u)
           part2 == Append(rest, v)
           new == Append(others, v)
<1>1. a \in Nat /\ b \in Nat /\ DOMAIN lists = 1 .. a /\ DOMAIN rest = 1 .. b
  BY LenProperties
<1>2. others \in Seq(Seq(Nat)) /\ Len(others) = a + b
      /\ \A k \in 1 .. a + b : others[k] = IF k <= a THEN lists[k] ELSE rest[k - a]
  BY ConcatProperties
<1>3. DOMAIN old = 1 .. a + 1 /\ (\A k \in 1 .. a : old[k] = lists[k]) /\ old[a + 1] = u
  BY <1>1, AppendProperties, LenProperties
<1>4. DOMAIN part2 = 1 .. b + 1 /\ (\A k \in 1 .. b : part2[k] = rest[k]) /\ part2[b + 1] = v
  BY <1>1, AppendProperties, LenProperties
<1>5. DOMAIN new = 1 .. a + b + 1 /\ (\A k \in 1 .. a + b : new[k] = others[k]) /\ new[a + b + 1] = v
  BY <1>1, <1>2, AppendProperties, LenProperties
<1> HIDE DEF a, b, old, part2, new
<1>6. \A k \in 1 .. a + b + 1 :
        \/ k \in 1 .. a /\ new[k] = old[k]
        \/ k - a \in 1 .. b + 1 /\ new[k] = part2[k - a]
  <2> TAKE k \in 1 .. a + b + 1
  <2>1. CASE k <= a
    BY <2>1, <1>1, <1>2, <1>3, <1>5
  <2>2. CASE k > a /\ k <= a + b
    <3>1. k - a \in 1 .. b /\ k \in 1 .. a + b /\ k - a \in 1 .. b + 1 /\ ~(k <= a)
      BY <2>2, <1>1
    <3>2. new[k] = rest[k - a] /\ part2[k - a] = rest[k - a]
      BY <3>1, <1>2, <1>4, <1>5
    <3> QED  BY <3>1, <3>2
  <2>3. CASE k = a + b + 1
    <3>1. k - a = b + 1 /\ b + 1 \in 1 .. b + 1
      BY <2>3, <1>1
    <3> QED  BY <2>3, <3>1, <1>4, <1>5
  <2> QED  BY <2>1, <2>2, <2>3, <1>1
<1>7. Shared(old, groups) /\ Shared(part2, Range(u))
  BY DEF old, part2
<1>8. Range(u) \subseteq groups /\ \A k \in 1 .. a : Range(old[k]) \cap Range(u) = {}
  <2>1. a + 1 \in DOMAIN old /\ \A k \in 1 .. a : k \in DOMAIN old /\ k # a + 1
    BY <1>1, <1>3
  <2>2. Range(old[a + 1]) \subseteq groups /\ \A k \in 1 .. a : Range(old[k]) \cap Range(old[a + 1]) = {}
    BY <2>1, <1>7 DEF Shared
  <2> QED  BY <2>2, <1>3
<1>9. ASSUME NEW k \in 1 .. a + b + 1 PROVE IsInjective(new[k]) /\ Range(new[k]) \subseteq groups
  <2>1. CASE k \in 1 .. a /\ new[k] = old[k]
    <3>1. k \in DOMAIN old /\ new[k] = old[k]
      BY <2>1, <1>1, <1>3
    <3>2. IsInjective(old[k]) /\ Range(old[k]) \subseteq groups
      BY <3>1, <1>7 DEF Shared
    <3> QED  BY <3>1, <3>2
  <2>2. CASE k - a \in 1 .. b + 1 /\ new[k] = part2[k - a]
    <3>1. k - a \in DOMAIN part2 /\ new[k] = part2[k - a]
      BY <2>2, <1>4
    <3>2. IsInjective(part2[k - a]) /\ Range(part2[k - a]) \subseteq Range(u)
      BY <3>1, <1>7 DEF Shared
    <3> QED  BY <3>1, <3>2, <1>8
  <2> QED  BY <1>6, <2>1, <2>2
<1>10. ASSUME NEW i \in 1 .. a + b + 1, NEW k \in 1 .. a + b + 1, i # k
       PROVE  Range(new[i]) \cap Range(new[k]) = {}
  <2>1. CASE (i \in 1 .. a /\ new[i] = old[i]) /\ (k \in 1 .. a /\ new[k] = old[k])
    <3>1. i \in DOMAIN old /\ k \in DOMAIN old
      BY <2>1, <1>1, <1>3
    <3> QED  BY <2>1, <3>1, <1>10, <1>7 DEF Shared
  <2>2. CASE (i \in 1 .. a /\ new[i] = old[i]) /\ (k - a \in 1 .. b + 1 /\ new[k] = part2[k - a])
    <3>1. Range(new[k]) \subseteq Range(u)
      BY <2>2, <1>4, <1>7 DEF Shared
    <3> QED  BY <2>2, <3>1, <1>8
  <2>3. CASE (i - a \in 1 .. b + 1 /\ new[i] = part2[i - a]) /\ (k \in 1 .. a /\ new[k] = old[k])
    <3>1. Range(new[i]) \subseteq Range(u)
      BY <2>3, <1>4, <1>7 DEF Shared
    <3> QED  BY <2>3, <3>1, <1>8
  <2>4. CASE (i - a \in 1 .. b + 1 /\ new[i] = part2[i - a]) /\ (k - a \in 1 .. b + 1 /\ new[k] = part2[k - a])
    <3>1. i - a # k - a
      BY <1>10, <1>1
    <3> QED  BY <2>4, <3>1, <1>4, <1>7 DEF Shared
  <2> QED  BY <1>6, <2>1, <2>2, <2>3, <2>4
<1>11. ASSUME NEW g \in groups PROVE \E k \in 1 .. a + b + 1 : g \in Range(new[k])
  <2>1. PICK m \in 1 .. a + 1 : g \in Range(old[m])
    BY <1>3, <1>7 DEF Shared
  <2>2. CASE m \in 1 .. a
    <3>1. m \in 1 .. a + b /\ m \in 1 .. a + b + 1 /\ m <= a
      BY <2>2, <1>1
    <3>2. new[m] = old[m]
      BY <3>1, <2>2, <1>2, <1>3, <1>5
    <3> QED  BY <3>1, <3>2, <2>1
  <2>3. CASE m = a + 1
    <3>1. PICK n \in 1 .. b + 1 : g \in Range(part2[n])
      BY <2>1, <2>3, <1>3, <1>4, <1>7 DEF Shared
    <3>2. CASE n \in 1 .. b
      <4>1. a + n \in 1 .. a + b /\ a + n \in 1 .. a + b + 1 /\ (a + n) - a = n /\ ~(a + n <= a)
        BY <3>2, <1>1
      <4>2. new[a + n] = part2[n]
        BY <4>1, <3>2, <1>2, <1>4, <1>5
      <4> QED  BY <4>1, <4>2, <3>1
    <3>3. CASE n = b + 1
      <4>1. a + b + 1 \in 1 .. a + b + 1
        BY <1>1
      <4> QED  BY <4>1, <3>1, <3>3, <1>4, <1>5
    <3> QED  BY <3>2, <3>3, <1>1
  <2> QED  BY <2>2, <2>3, <1>1
<1>12. DOMAIN new = 1 .. a + b + 1
  BY <1>5
<1>13. Shared(new, groups)
  BY <1>9, <1>10, <1>11, <1>12 DEF Shared
<1> QED  BY <1>13 DEF new

LEMMA JustOne ==
  \A u, groups : u \in Seq(Nat) /\ IsInjective(u) /\ Range(u) = groups => Shared(Append(<<>>, u), groups)
<1> TAKE u, groups
<1> HAVE u \in Seq(Nat) /\ IsInjective(u) /\ Range(u) = groups
<1> PICK s : s = Append(<<>>, u)
  OBVIOUS
<1>1. DOMAIN s = {1} /\ s[1] = u
  OBVIOUS
<1> QED  BY <1>1 DEF Shared

LEMMA SomeOf ==
  \A u, D : u \in Seq(Nat) /\ D \subseteq DOMAIN u =>
    /\ {u[i] : i \in D} \subseteq Nat /\ {u[i] : i \in D} \subseteq Range(u)
    /\ IsFiniteSet({u[i] : i \in D}) /\ IsFiniteSet(D)
    /\ Cardinality({u[i] : i \in D}) <= Cardinality(D)
<1> TAKE u, D
<1> HAVE u \in Seq(Nat) /\ D \subseteq DOMAIN u
<1>1. PICK l \in Nat : DOMAIN u = 1 .. l /\ \A i \in 1 .. l : u[i] \in Nat
  BY LenProperties, ElementOfSeq
<1>2. IsFiniteSet(D)
  BY <1>1, UpTo, FS_Subset
<1>3. {u[i] : i \in D} \subseteq Nat /\ {u[i] : i \in D} \subseteq Range(u)
  BY <1>1 DEF Range
<1> QED  BY <1>2, <1>3, Image

(* A round shares out what was left.                                       *)
Shape(u, n, f, tried, fitting, left) ==
  /\ u \in Seq(Nat) /\ IsInjective(u) /\ n \in Nat /\ f \in [DOMAIN u -> 1 .. n]
  /\ tried = [k \in 1 .. n |-> Gather(u, f, k)]
  /\ fitting \subseteq 1 .. n
  /\ left = {u[i] : i \in {i \in DOMAIN u : f[i] \notin fitting}}

LEMMA RoundShares ==
  \A u, n, f, tried, fitting, left : Shape(u, n, f, tried, fitting, left) =>
    /\ Picks(tried, InOrder(fitting)) \in Seq(Seq(Nat))
    /\ InOrder(left) \in Seq(Nat)
    /\ \A i, j \in DOMAIN InOrder(left) : i < j => InOrder(left)[i] < InOrder(left)[j]
    /\ Range(InOrder(left)) = left
    /\ Range(InOrder(fitting)) = fitting
    /\ Shared(Append(Picks(tried, InOrder(fitting)), InOrder(left)), Range(u))
<1> TAKE u, n, f, tried, fitting, left
<1>0. HAVE Shape(u, n, f, tried, fitting, left)
<1>a. PICK order : order = InOrder(fitting)
  OBVIOUS
<1>b. PICK rest : rest = Picks(tried, order)
  OBVIOUS
<1>c. PICK v : v = InOrder(left)
  OBVIOUS
<1>1. \A k \in 1 .. n :
        /\ tried[k] \in Seq(Nat) /\ IsInjective(tried[k])
        /\ Range(tried[k]) = {u[i] : i \in Places(u, f, k)}
  BY <1>0, GatherFacts DEF Shape
<1>2. tried \in Seq(Seq(Nat)) /\ DOMAIN tried = 1 .. n
  <2>1. tried \in [1 .. n -> Seq(Nat)]
    BY <1>0, <1>1 DEF Shape
  <2>2. n \in Nat
    BY <1>0 DEF Shape
  <2> QED  BY <2>1, <2>2, Listed
<1>3. fitting \subseteq 1 .. n /\ fitting \subseteq Int /\ IsFiniteSet(fitting)
  <2>1. n \in Nat /\ fitting \subseteq 1 .. n
    BY <1>0 DEF Shape
  <2>2. IsFiniteSet(1 .. n)
    BY <2>1, UpTo
  <2>3. IsFiniteSet(fitting)
    BY <2>1, <2>2, FS_Subset
  <2> QED  BY <2>1, <2>3
<1>4. order \in Seq(fitting) /\ IsInjective(order) /\ Range(order) = fitting
  BY <1>3, <1>a, InOrderFacts
<1>5. rest \in Seq(Seq(Nat)) /\ DOMAIN rest = DOMAIN order /\ \A k \in DOMAIN order : rest[k] = tried[order[k]]
  <2>1. rest \in Seq(Seq(Nat))
    BY <1>2, <1>3, <1>4, <1>b, Picked
  <2> QED  BY <1>b, <2>1 DEF Picks
<1>6. PICK m \in Nat : m = Len(order) /\ DOMAIN order = 1 .. m /\ \A k \in 1 .. m : order[k] \in fitting
  BY <1>4, LenProperties, ElementOfSeq
<1>7. left \subseteq Int /\ left \subseteq Nat /\ IsFiniteSet(left) /\ left \subseteq Range(u)
  <2>1. {i \in DOMAIN u : f[i] \notin fitting} \subseteq DOMAIN u
    OBVIOUS
  <2>2. u \in Seq(Nat) /\ left = {u[i] : i \in {i \in DOMAIN u : f[i] \notin fitting}}
    BY <1>0 DEF Shape
  <2>3. left \subseteq Nat /\ left \subseteq Range(u) /\ IsFiniteSet(left)
    BY <2>1, <2>2, SomeOf
  <2> QED  BY <2>3
<1>8. v \in Seq(Nat) /\ IsInjective(v) /\ Range(v) = left /\ \A i, j \in DOMAIN v : i < j => v[i] < v[j]
  <2>1. v \in Seq(left) /\ IsInjective(v) /\ Range(v) = left /\ \A i, j \in DOMAIN v : i < j => v[i] < v[j]
    BY <1>7, <1>c, InOrderFacts
  <2> QED  BY <2>1, <1>7, SeqMonotonic
<1>d. PICK all : all = Append(rest, v)
  OBVIOUS
<1>9. DOMAIN all = 1 .. m + 1 /\ (\A k \in 1 .. m : all[k] = tried[order[k]]) /\ all[m + 1] = v
  <2>1. Len(rest) = m /\ DOMAIN rest = 1 .. m
    BY <1>5, <1>6, LenProperties
  <2>2. Len(all) = m + 1 /\ all \in Seq(Seq(Nat)) /\ (\A k \in 1 .. m : all[k] = rest[k]) /\ all[m + 1] = v
    BY <2>1, <1>5, <1>8, <1>d, AppendProperties
  <2>3. DOMAIN all = 1 .. m + 1
    BY <2>2, LenProperties
  <2> QED  BY <2>1, <2>2, <2>3, <1>5, <1>6
<1>10. \A i \in DOMAIN u : \A k \in 1 .. m :
         u[i] \in Range(all[k]) <=> f[i] = order[k]
  <2> TAKE i \in DOMAIN u
  <2> TAKE k \in 1 .. m
  <2>1. Range(all[k]) = {u[j] : j \in Places(u, f, order[k])}
    BY <1>1, <1>3, <1>6, <1>9
  <2>2. \A j \in DOMAIN u : u[i] = u[j] => i = j
    BY <1>0 DEF IsInjective, Shape
  <2> QED  BY <2>1, <2>2 DEF Places
<1>11. \A i \in DOMAIN u : u[i] \in Range(all[m + 1]) <=> f[i] \notin fitting
  <2> TAKE i \in DOMAIN u
  <2>1. \A j \in DOMAIN u : u[i] = u[j] => i = j
    BY <1>0 DEF IsInjective, Shape
  <2>2. u[i] \in left <=> f[i] \notin fitting
    BY <1>0, <2>1 DEF Shape
  <2> QED  BY <2>2, <1>8, <1>9
<1>12. ASSUME NEW k \in 1 .. m + 1 PROVE IsInjective(all[k]) /\ Range(all[k]) \subseteq Range(u)
  <2>1. CASE k \in 1 .. m
    <3>1. all[k] = tried[order[k]] /\ order[k] \in 1 .. n
        BY <2>1, <1>3, <1>6, <1>9
    <3>2. {u[i] : i \in Places(u, f, order[k])} \subseteq Range(u)
      BY DEF Places, Range
    <3> QED  BY <3>1, <3>2, <1>1
  <2>2. CASE k = m + 1
    BY <2>2, <1>7, <1>8, <1>9
  <2> QED  BY <2>1, <2>2
<1>13. ASSUME NEW i \in 1 .. m + 1, NEW k \in 1 .. m + 1, i # k, NEW g \in Range(all[i]), g \in Range(all[k])
       PROVE  FALSE
  <2>1. PICK d \in DOMAIN u : g = u[d]
    BY <1>12 DEF Range
  <2>2. CASE i \in 1 .. m /\ k \in 1 .. m
    <3>1. f[d] = order[i] /\ f[d] = order[k]
      BY <2>1, <2>2, <1>10, <1>13
    <3> QED  BY <3>1, <2>2, <1>4, <1>6, <1>13 DEF IsInjective
  <2>3. CASE i = m + 1 /\ k \in 1 .. m
    <3>1. f[d] \notin fitting /\ f[d] = order[k]
      BY <2>1, <2>3, <1>10, <1>11, <1>13
    <3> QED  BY <3>1, <2>3, <1>6
  <2>4. CASE i \in 1 .. m /\ k = m + 1
    <3>1. f[d] = order[i] /\ f[d] \notin fitting
      BY <2>1, <2>4, <1>10, <1>11, <1>13
    <3> QED  BY <3>1, <2>4, <1>6
  <2> QED  BY <2>2, <2>3, <2>4, <1>13
<1>14. ASSUME NEW g \in Range(u) PROVE \E k \in 1 .. m + 1 : g \in Range(all[k])
  <2>1. PICK d \in DOMAIN u : g = u[d]
    BY DEF Range
  <2>2. CASE f[d] \in fitting
    <3>1. PICK k \in 1 .. m : f[d] = order[k]
      BY <2>2, <1>4, <1>6 DEF Range
    <3>2. g \in Range(all[k])
      BY <2>1, <3>1, <1>10
    <3> QED  BY <3>2
  <2>3. CASE f[d] \notin fitting
    <3>1. m + 1 \in 1 .. m + 1
      OBVIOUS
    <3> QED  BY <2>1, <2>3, <3>1, <1>11
  <2> QED  BY <2>2, <2>3
<1>15. Shared(all, Range(u))
  BY <1>9, <1>12, <1>13, <1>14 DEF Shared
<1> QED  BY <1>4, <1>5, <1>8, <1>15, <1>a, <1>b, <1>c, <1>d

----------------------------------------------------------------------------
(* The parts kept and those left, without their tags.                      *)
Disjoint(s, t) == Range(s) \cap Range(t) = {}
Halves(done, ps, from, groups) ==
  /\ \A k \in DOMAIN done : IsInjective(done[k].ends) /\ Range(done[k].ends) \subseteq groups
  /\ \A k \in from .. Len(ps) : IsInjective(ps[k]) /\ Range(ps[k]) \subseteq groups
  /\ \A i, k \in DOMAIN done : i # k => Disjoint(done[i].ends, done[k].ends)
  /\ \A i, k \in from .. Len(ps) : i # k => Disjoint(ps[i], ps[k])
  /\ \A i \in DOMAIN done : \A k \in from .. Len(ps) : Disjoint(done[i].ends, ps[k])
  /\ \A g \in groups : \/ \E k \in DOMAIN done : g \in Range(done[k].ends)
                       \/ \E k \in from .. Len(ps) : g \in Range(ps[k])

Tagged(done, ps, from, all) ==
  /\ \A k \in DOMAIN done : <<"kept", k>> \in DOMAIN all /\ all[<<"kept", k>>] = done[k].ends
  /\ \A k \in from .. Len(ps) : <<"left", k>> \in DOMAIN all /\ all[<<"left", k>>] = ps[k]
  /\ \A h \in DOMAIN all :
       (\E k \in DOMAIN done : h = <<"kept", k>>) \/ (\E k \in from .. Len(ps) : h = <<"left", k>>)

LEMMA HeldFacts == \A done, ps, from : Tagged(done, ps, from, Held(done, ps, from))
<1> TAKE done, ps, from
<1> DEFINE kept == {"kept"} \X DOMAIN done
           left == {"left"} \X (from .. Len(ps))
<1>1. \A h \in kept \cup left :
        Held(done, ps, from)[h] = IF h[1] = "kept" THEN done[h[2]].ends ELSE ps[h[2]]
  BY DEF Held
<1>2. DOMAIN Held(done, ps, from) = kept \cup left
  BY DEF Held
<1>3. ASSUME NEW k \in DOMAIN done PROVE <<"kept", k>> \in kept
  OBVIOUS
<1>4. ASSUME NEW k \in from .. Len(ps) PROVE <<"left", k>> \in left
  OBVIOUS
<1>5. \A h \in kept \cup left :
        (\E k \in DOMAIN done : h = <<"kept", k>>) \/ (\E k \in from .. Len(ps) : h = <<"left", k>>)
  OBVIOUS
<1>6. \A k : <<"kept", k>>[1] = "kept" /\ <<"left", k>>[1] # "kept" /\ <<"kept", k>>[2] = k /\ <<"left", k>>[2] = k
  OBVIOUS
<1> HIDE DEF kept, left
<1> QED  BY <1>1, <1>2, <1>3, <1>4, <1>5, <1>6 DEF Tagged

LEMMA HeldHalves ==
  \A done, ps, from, groups :
    Shared(Held(done, ps, from), groups) <=> Halves(done, ps, from, groups)
<1> TAKE done, ps, from, groups
<1> DEFINE all == Held(done, ps, from)
<1>0. Tagged(done, ps, from, all)
  BY HeldFacts
<1> HIDE DEF all
<1>1. \A k \in DOMAIN done : <<"kept", k>> \in DOMAIN all /\ all[<<"kept", k>>] = done[k].ends
  BY <1>0 DEF Tagged
<1>2. \A k \in from .. Len(ps) : <<"left", k>> \in DOMAIN all /\ all[<<"left", k>>] = ps[k]
  BY <1>0 DEF Tagged
<1>3. \A h \in DOMAIN all :
        (\E k \in DOMAIN done : h = <<"kept", k>>) \/ (\E k \in from .. Len(ps) : h = <<"left", k>>)
  BY <1>0 DEF Tagged
<1>4. \A i, k : /\ <<"kept", i>> # <<"left", k>>
                /\ <<"kept", i>> = <<"kept", k>> => i = k
                /\ <<"left", i>> = <<"left", k>> => i = k
  OBVIOUS
<1>5. ASSUME Shared(all, groups) PROVE Halves(done, ps, from, groups)
  <2>1. /\ \A h \in DOMAIN all : IsInjective(all[h]) /\ Range(all[h]) \subseteq groups
        /\ \A h, l \in DOMAIN all : h # l => Disjoint(all[h], all[l])
        /\ \A g \in groups : \E h \in DOMAIN all : g \in Range(all[h])
    BY <1>5 DEF Shared, Disjoint
  <2>2. \A k \in DOMAIN done : IsInjective(done[k].ends) /\ Range(done[k].ends) \subseteq groups
    BY <2>1, <1>1
  <2>3. \A k \in from .. Len(ps) : IsInjective(ps[k]) /\ Range(ps[k]) \subseteq groups
    BY <2>1, <1>2
  <2>4. \A i, k \in DOMAIN done : i # k => Disjoint(done[i].ends, done[k].ends)
    BY <2>1, <1>1, <1>4
  <2>5. \A i, k \in from .. Len(ps) : i # k => Disjoint(ps[i], ps[k])
    BY <2>1, <1>2, <1>4
  <2>6. \A i \in DOMAIN done : \A k \in from .. Len(ps) : Disjoint(done[i].ends, ps[k])
    BY <2>1, <1>1, <1>2, <1>4
  <2>7. ASSUME NEW g \in groups
        PROVE  \/ \E k \in DOMAIN done : g \in Range(done[k].ends)
               \/ \E k \in from .. Len(ps) : g \in Range(ps[k])
    <3>1. PICK h \in DOMAIN all : g \in Range(all[h])
      BY <2>1
    <3> QED  BY <3>1, <1>1, <1>2, <1>3
  <2> QED  BY <2>2, <2>3, <2>4, <2>5, <2>6, <2>7 DEF Halves
<1>6. ASSUME Halves(done, ps, from, groups) PROVE Shared(all, groups)
  <2>1. ASSUME NEW h \in DOMAIN all PROVE IsInjective(all[h]) /\ Range(all[h]) \subseteq groups
    BY <1>1, <1>2, <1>3, <1>6 DEF Halves
  <2>2. ASSUME NEW h \in DOMAIN all, NEW l \in DOMAIN all, h # l PROVE Range(all[h]) \cap Range(all[l]) = {}
    <3>1. CASE \E i \in DOMAIN done : h = <<"kept", i>>
      <4>1. PICK i \in DOMAIN done : h = <<"kept", i>> /\ all[h] = done[i].ends
        BY <3>1, <1>1
      <4>2. CASE \E k \in DOMAIN done : l = <<"kept", k>>
        BY <4>1, <4>2, <2>2, <1>1, <1>6 DEF Halves, Disjoint
      <4>3. CASE \E k \in from .. Len(ps) : l = <<"left", k>>
        BY <4>1, <4>3, <1>2, <1>6 DEF Halves, Disjoint
      <4> QED  BY <4>2, <4>3, <1>3
    <3>2. CASE \E i \in from .. Len(ps) : h = <<"left", i>>
      <4>1. PICK i \in from .. Len(ps) : h = <<"left", i>> /\ all[h] = ps[i]
        BY <3>2, <1>2
      <4>2. CASE \E k \in DOMAIN done : l = <<"kept", k>>
        BY <4>1, <4>2, <1>1, <1>6 DEF Halves, Disjoint
      <4>3. CASE \E k \in from .. Len(ps) : l = <<"left", k>>
        BY <4>1, <4>3, <2>2, <1>2, <1>6 DEF Halves, Disjoint
      <4> QED  BY <4>2, <4>3, <1>3
    <3> QED  BY <3>1, <3>2, <1>3
  <2>3. ASSUME NEW g \in groups PROVE \E h \in DOMAIN all : g \in Range(all[h])
    BY <1>1, <1>2, <1>6 DEF Halves
  <2> QED  BY <2>1, <2>2, <2>3 DEF Shared
<1> QED  BY <1>5, <1>6 DEF all

LEMMA MergingStarts ==
  \A ps, groups : Shared(ps, groups) /\ ps \in Seq(Seq(Nat)) => Shared(Held(<<>>, ps, 1), groups)
<1> TAKE ps, groups
<1> HAVE Shared(ps, groups) /\ ps \in Seq(Seq(Nat))
<1>1. DOMAIN ps = 1 .. Len(ps) /\ DOMAIN <<>> = {}
  BY LenProperties
<1>2. Halves(<<>>, ps, 1, groups)
  BY <1>1 DEF Halves, Shared, Disjoint
<1> QED  BY <1>2, HeldHalves

LEMMA MergedIsSkipped ==
  \A done, ps, from, groups :
    Shared(Held(done, ps, from), groups) /\ from \in 1 .. Len(ps) /\ Len(ps) \in Nat /\ ps[from] = <<>> =>
      Shared(Held(done, ps, from + 1), groups)
<1> TAKE done, ps, from, groups
<1>0. HAVE Shared(Held(done, ps, from), groups) /\ from \in 1 .. Len(ps) /\ Len(ps) \in Nat /\ ps[from] = <<>>
<1>1. Halves(done, ps, from, groups)
  BY <1>0, HeldHalves
<1>2. \A k : k \in from .. Len(ps) <=> k = from \/ k \in from + 1 .. Len(ps)
  BY <1>0
<1>3. Range(ps[from]) = {}
  BY <1>0 DEF Range
<1>4. Halves(done, ps, from + 1, groups)
  BY <1>1, <1>2, <1>3 DEF Halves
<1> QED  BY <1>4, HeldHalves

LEMMA PartIsKept ==
  \A done, ps, from, groups, piece :
    /\ Shared(Held(done, ps, from), groups) /\ from \in 1 .. Len(ps) /\ Len(ps) \in Nat
    /\ done \in Seq(Piece) /\ piece \in Piece /\ piece.ends = ps[from]
    => Shared(Held(Append(done, piece), ps, from + 1), groups)
<1> TAKE done, ps, from, groups, piece
<1>0. HAVE /\ Shared(Held(done, ps, from), groups) /\ from \in 1 .. Len(ps) /\ Len(ps) \in Nat
           /\ done \in Seq(Piece) /\ piece \in Piece /\ piece.ends = ps[from]
<1>1. Halves(done, ps, from, groups)
  BY <1>0, HeldHalves
<1>2. \A k : k \in from .. Len(ps) <=> k = from \/ k \in from + 1 .. Len(ps)
  BY <1>0
<1>3. from \notin from + 1 .. Len(ps)
  BY <1>0
<1>a. PICK new : new = Append(done, piece)
  OBVIOUS
<1>b. PICK n \in Nat : DOMAIN done = 1 .. n
  BY <1>0, LenProperties
<1>4. /\ \A k : k \in DOMAIN new <=> k = n + 1 \/ k \in DOMAIN done
      /\ \A k \in DOMAIN done : new[k] = done[k]
      /\ new[n + 1].ends = ps[from] /\ n + 1 \notin DOMAIN done
  <2>1. Len(done) = n
    BY <1>0, <1>b, LenProperties
  <2>2. Len(new) = n + 1 /\ new \in Seq(Piece) /\ (\A k \in 1 .. n : new[k] = done[k]) /\ new[n + 1] = piece
    BY <2>1, <1>0, <1>a, AppendProperties
  <2>3. DOMAIN new = 1 .. n + 1
    BY <2>2, LenProperties
  <2> QED  BY <2>2, <2>3, <1>0, <1>b
<1>5. /\ \A k \in DOMAIN done : IsInjective(done[k].ends) /\ Range(done[k].ends) \subseteq groups
      /\ \A i, k \in DOMAIN done : i # k => Disjoint(done[i].ends, done[k].ends)
      /\ \A i \in DOMAIN done : Disjoint(done[i].ends, ps[from])
      /\ \A i \in DOMAIN done : \A k \in from + 1 .. Len(ps) : Disjoint(done[i].ends, ps[k])
  BY <1>1, <1>2 DEF Halves
<1>6. /\ \A k \in from + 1 .. Len(ps) : IsInjective(ps[k]) /\ Range(ps[k]) \subseteq groups
      /\ IsInjective(ps[from]) /\ Range(ps[from]) \subseteq groups
      /\ \A i, k \in from + 1 .. Len(ps) : i # k => Disjoint(ps[i], ps[k])
      /\ \A k \in from + 1 .. Len(ps) : Disjoint(ps[from], ps[k])
  BY <1>1, <1>2, <1>3 DEF Halves
<1>7. \A g \in groups : \/ \E k \in DOMAIN done : g \in Range(done[k].ends)
                        \/ g \in Range(ps[from])
                        \/ \E k \in from + 1 .. Len(ps) : g \in Range(ps[k])
  BY <1>1, <1>2 DEF Halves
<1>8. \A s, t : Disjoint(s, t) => Disjoint(t, s)
  BY DEF Disjoint
<1>9. \A i, k \in DOMAIN new : i # k => Disjoint(new[i].ends, new[k].ends)
  BY <1>4, <1>5, <1>8
<1>10. \A k \in DOMAIN new : IsInjective(new[k].ends) /\ Range(new[k].ends) \subseteq groups
  BY <1>4, <1>5, <1>6
<1>11. \A i \in DOMAIN new : \A k \in from + 1 .. Len(ps) : Disjoint(new[i].ends, ps[k])
  BY <1>4, <1>5, <1>6
<1>12. \A g \in groups : \/ \E k \in DOMAIN new : g \in Range(new[k].ends)
                         \/ \E k \in from + 1 .. Len(ps) : g \in Range(ps[k])
  BY <1>4, <1>7
<1>13. Halves(new, ps, from + 1, groups)
  BY <1>6, <1>9, <1>10, <1>11, <1>12 DEF Halves
<1> QED  BY <1>13, <1>a, HeldHalves

LEMMA Joined ==
  \A s, t \in Seq(Nat) :
    /\ s \o t \in Seq(Nat) /\ Range(s \o t) = Range(s) \cup Range(t)
    /\ IsInjective(s) /\ IsInjective(t) /\ Disjoint(s, t) => IsInjective(s \o t)
    /\ s # <<>> => s \o t # <<>>
<1> TAKE s, t \in Seq(Nat)
<1>a. PICK c : c = s \o t
  OBVIOUS
<1>b. PICK m \in Nat : m = Len(s) /\ DOMAIN s = 1 .. m
  BY LenProperties
<1>c. PICK n \in Nat : n = Len(t) /\ DOMAIN t = 1 .. n
  BY LenProperties
<1>1. c \in Seq(Nat) /\ Len(c) = m + n /\ \A i \in 1 .. m + n : c[i] = IF i <= m THEN s[i] ELSE t[i - m]
  BY <1>a, <1>b, <1>c, ConcatProperties
<1>2. DOMAIN c = 1 .. m + n
  BY <1>1, LenProperties
<1>3. Range(c) = Range(s) \cup Range(t)
  BY <1>a, RangeConcatenation
<1>4. ASSUME IsInjective(s), IsInjective(t), Disjoint(s, t), NEW i \in 1 .. m + n, NEW k \in 1 .. m + n, c[i] = c[k]
      PROVE  i = k
  <2>1. CASE i <= m /\ k <= m
    <3>1. i \in DOMAIN s /\ k \in DOMAIN s
      BY <2>1, <1>b
    <3>2. s[i] = s[k]
      BY <2>1, <1>1, <1>4
    <3> QED  BY <3>1, <3>2, <1>4 DEF IsInjective
  <2>2. CASE ~(i <= m) /\ ~(k <= m)
    <3>1. i - m \in 1 .. n /\ k - m \in 1 .. n
      BY <2>2
    <3>2. t[i - m] = t[k - m]
      BY <2>2, <1>1, <1>4
    <3>3. i - m = k - m
      BY <3>1, <3>2, <1>4, <1>c DEF IsInjective
    <3> QED  BY <3>3
  <2>3. CASE i <= m /\ ~(k <= m)
    <3>1. i \in DOMAIN s /\ k - m \in DOMAIN t
      BY <2>3, <1>b, <1>c
    <3>2. s[i] = t[k - m]
      BY <2>3, <1>1, <1>4
    <3> QED  BY <3>1, <3>2, <1>4 DEF Disjoint, Range
  <2>4. CASE ~(i <= m) /\ k <= m
    <3>1. k \in DOMAIN s /\ i - m \in DOMAIN t
      BY <2>4, <1>b, <1>c
    <3>2. s[k] = t[i - m]
      BY <2>4, <1>1, <1>4
    <3> QED  BY <3>1, <3>2, <1>4 DEF Disjoint, Range
  <2> QED  BY <2>1, <2>2, <2>3, <2>4
<1>5. IsInjective(s) /\ IsInjective(t) /\ Disjoint(s, t) => IsInjective(c)
  BY <1>2, <1>4 DEF IsInjective
<1>6. s # <<>> => c # <<>>
  <2>1. s # <<>> => m # 0
    BY <1>b, EmptySeq
  <2>2. c = <<>> => Len(c) = 0
    BY EmptySeq
  <2> QED  BY <2>1, <2>2, <1>1
<1> QED  BY <1>1, <1>3, <1>5, <1>6, <1>a

LEMMA AbsorbFacts ==
  \A ps \in Seq(Seq(Nat)) : \A i, j \in DOMAIN ps : i # j =>
    /\ Absorb(ps, i, j) \in Seq(Seq(Nat)) /\ Len(Absorb(ps, i, j)) = Len(ps)
    /\ DOMAIN Absorb(ps, i, j) = DOMAIN ps
    /\ Absorb(ps, i, j)[i] = ps[i] \o ps[j] /\ Absorb(ps, i, j)[j] = <<>>
    /\ \A k \in DOMAIN ps : k # i /\ k # j => Absorb(ps, i, j)[k] = ps[k]
<1> TAKE ps \in Seq(Seq(Nat))
<1> TAKE i, j \in DOMAIN ps
<1>0. HAVE i # j
<1>a. PICK new : new = Absorb(ps, i, j)
  OBVIOUS
<1>b. PICK n \in Nat : DOMAIN ps = 1 .. n /\ Len(ps) = n /\ \A k \in 1 .. n : ps[k] \in Seq(Nat)
  BY LenProperties, ElementOfSeq
<1>1. DOMAIN new = DOMAIN ps /\ new[i] = ps[i] \o ps[j] /\ new[j] = <<>>
      /\ \A k \in DOMAIN ps : k # i /\ k # j => new[k] = ps[k]
  BY <1>a, <1>0 DEF Absorb
<1>2. ps[i] \o ps[j] \in Seq(Nat) /\ <<>> \in Seq(Nat)
  BY <1>b, Joined
<1>3. \A k \in 1 .. n : new[k] \in Seq(Nat)
  BY <1>1, <1>2, <1>b
<1>4. new = [k \in 1 .. n |-> new[k]]
  BY <1>a, <1>b DEF Absorb
<1>5. new \in [1 .. n -> Seq(Nat)]
  BY <1>3, <1>4
<1>6. new \in Seq(Seq(Nat)) /\ Len(new) = n
  BY <1>5, Listed
<1> QED  BY <1>1, <1>6, <1>a, <1>b

LEMMA PartAbsorbs ==
  \A done, ps, from, groups, j :
    /\ Shared(Held(done, ps, from), groups) /\ ps \in Seq(Seq(Nat))
    /\ from \in 1 .. Len(ps) /\ j \in from + 1 .. Len(ps)
    => Shared(Held(done, Absorb(ps, from, j), from), groups)
<1> TAKE done, ps, from, groups, j
<1>0. HAVE /\ Shared(Held(done, ps, from), groups) /\ ps \in Seq(Seq(Nat))
           /\ from \in 1 .. Len(ps) /\ j \in from + 1 .. Len(ps)
<1>a. PICK new : new = Absorb(ps, from, j)
  OBVIOUS
<1>b. PICK n \in Nat : DOMAIN ps = 1 .. n /\ Len(ps) = n /\ \A k \in 1 .. n : ps[k] \in Seq(Nat)
  BY <1>0, LenProperties, ElementOfSeq
<1>c. PICK L : L = from .. n
  OBVIOUS
<1>1. Halves(done, ps, from, groups)
  BY <1>0, HeldHalves
<1>2. from \in L /\ j \in L /\ from # j /\ L \subseteq DOMAIN ps
  BY <1>0, <1>b, <1>c
<1>3. Len(new) = n /\ new[from] = ps[from] \o ps[j] /\ new[j] = <<>>
      /\ \A k \in L : k # from /\ k # j => new[k] = ps[k]
  BY <1>0, <1>2, <1>a, <1>b, AbsorbFacts
<1>4. /\ \A k \in L : IsInjective(ps[k]) /\ Range(ps[k]) \subseteq groups
      /\ \A i, k \in L : i # k => Disjoint(ps[i], ps[k])
      /\ \A i \in DOMAIN done : \A k \in L : Disjoint(done[i].ends, ps[k])
      /\ \A g \in groups : \/ \E k \in DOMAIN done : g \in Range(done[k].ends)
                           \/ \E k \in L : g \in Range(ps[k])
  BY <1>1, <1>b, <1>c DEF Halves
<1>5. Range(new[from]) = Range(ps[from]) \cup Range(ps[j]) /\ IsInjective(new[from])
  BY <1>2, <1>3, <1>4, <1>b, Joined
<1>6. Range(new[j]) = {} /\ IsInjective(new[j])
  BY <1>3 DEF Range, IsInjective
<1>7. \A k \in L : IsInjective(new[k]) /\ Range(new[k]) \subseteq groups
  BY <1>2, <1>3, <1>4, <1>5, <1>6
<1>8. \A k \in L : k = from \/ k = j \/ (k # from /\ k # j /\ Range(new[k]) = Range(ps[k]))
  BY <1>3
<1>9. \A i, k \in L : i # k => Disjoint(new[i], new[k])
  <2> SUFFICES ASSUME NEW i \in L, NEW k \in L, i # k, NEW g, g \in Range(new[i]), g \in Range(new[k])
               PROVE  FALSE
    BY DEF Disjoint
  <2>1. ~(\E x, y \in L : x # y /\ g \in Range(ps[x]) /\ g \in Range(ps[y]))
    BY <1>4 DEF Disjoint
  <2>2. i # j /\ k # j
    BY <1>6
  <2> QED  BY <2>1, <2>2, <1>2, <1>5, <1>8
<1>10. \A i \in DOMAIN done : \A k \in L : Disjoint(done[i].ends, new[k])
  BY <1>2, <1>4, <1>5, <1>6, <1>8 DEF Disjoint
<1>11. ASSUME NEW g \in groups
       PROVE  (\E k \in DOMAIN done : g \in Range(done[k].ends)) \/ \E k \in L : g \in Range(new[k])
  <2>1. CASE \E k \in DOMAIN done : g \in Range(done[k].ends)
    BY <2>1
  <2>2. CASE \E k \in L : g \in Range(ps[k])
    <3>1. PICK k \in L : g \in Range(ps[k])
      BY <2>2
    <3>2. CASE k = from \/ k = j
      BY <3>1, <3>2, <1>2, <1>5
    <3>3. CASE k # from /\ k # j
      BY <3>1, <3>3, <1>3
    <3> QED  BY <3>2, <3>3
  <2> QED  BY <2>1, <2>2, <1>4
<1>12. Halves(done, new, from, groups)
  BY <1>1, <1>3, <1>7, <1>9, <1>10, <1>11, <1>c DEF Halves
<1> QED  BY <1>12, <1>a, HeldHalves

LEMMA AllKept ==
  \A done, ps, from, groups :
    Shared(Held(done, ps, from), groups) /\ Len(ps) \in Nat /\ from \in Nat /\ from > Len(ps) =>
      Shared(EndsOf(done), groups)
<1> TAKE done, ps, from, groups
<1>0. HAVE Shared(Held(done, ps, from), groups) /\ Len(ps) \in Nat /\ from \in Nat /\ from > Len(ps)
<1>1. Halves(done, ps, from, groups)
  BY <1>0, HeldHalves
<1>2. from .. Len(ps) = {}
  BY <1>0
<1>3. DOMAIN EndsOf(done) = DOMAIN done /\ \A k \in DOMAIN done : EndsOf(done)[k] = done[k].ends
  BY DEF EndsOf
<1> QED  BY <1>1, <1>2, <1>3 DEF Halves, Shared, Disjoint

(* The places of a part are less than the weight of one stage.             *)
LEMMA LongerOrLater ==
  \A n, a, b, s, t \in Nat : a \in 1 .. n /\ b \in 1 .. n =>
    /\ s < t => b - n * t < a - n * s
    /\ a - n * s = b - n * t => a = b
<1> TAKE n, a, b, s, t \in Nat
<1> HAVE a \in 1 .. n /\ b \in 1 .. n
<1>1. \A x, y \in Nat : x < y => n * x + n <= n * y
  <2> TAKE x, y \in Nat
  <2> HAVE x < y
  <2>1. PICK d \in Nat : y = x + 1 + d
    <3>1. y - x - 1 \in Nat /\ y = x + 1 + (y - x - 1)
      OBVIOUS
    <3> QED  BY <3>1
  <2>2. n * y = n * x + n + n * d
    BY <2>1
  <2>3. n * d \in Nat /\ n * x \in Nat
    OBVIOUS
  <2> QED  BY <2>2, <2>3
<1>2. n * s \in Nat /\ n * t \in Nat
  OBVIOUS
<1>3. s < t => n * s + n <= n * t
  BY <1>1
<1>4. t < s => n * t + n <= n * s
  BY <1>1
<1>a. PICK p \in Nat : p = n * s
  BY <1>2
<1>b. PICK q \in Nat : q = n * t
  BY <1>2
<1>5. (s < t => p + n <= q) /\ (t < s => q + n <= p) /\ (s = t => p = q)
  BY <1>3, <1>4, <1>a, <1>b
<1>6. (s < t => b - q < a - p) /\ (a - p = b - q => a = b)
  BY <1>5
<1> QED  BY <1>6, <1>a, <1>b

LEMMA LongestFirstFacts ==
  \A ps, groups : ps \in Seq(Piece) =>
    /\ LongestFirst(ps) \in Seq(Piece)
    /\ Descending(LongestFirst(ps))
    /\ Shared(EndsOf(ps), groups) => Shared(EndsOf(LongestFirst(ps)), groups)
<1> TAKE ps, groups
<1>0. HAVE ps \in Seq(Piece)
<1>a. PICK n \in Nat : n = Len(ps) /\ DOMAIN ps = 1 .. n /\ \A k \in 1 .. n : ps[k] \in Piece
  BY <1>0, LenProperties, ElementOfSeq
<1>b. PICK rank : rank = [k \in 1 .. n |-> k - n * ps[k].stages]
  OBVIOUS
<1>c. PICK order : order = Sorted(1 .. n, rank)
  OBVIOUS
<1>d. PICK new : new = LongestFirst(ps)
  OBVIOUS
<1>1. \A k \in 1 .. n : ps[k].stages \in Nat /\ rank[k] = k - n * ps[k].stages
  BY <1>a, <1>b DEF Piece
<1>2. rank \in [1 .. n -> Int]
  <2>1. \A k \in 1 .. n : k - n * ps[k].stages \in Int
    BY <1>1
  <2> QED  BY <2>1, <1>b
<1>3. ASSUME NEW i \in 1 .. n, NEW k \in 1 .. n, rank[i] = rank[k] PROVE i = k
  <2>1. ps[i].stages \in Nat /\ ps[k].stages \in Nat /\ i \in Nat /\ k \in Nat
    BY <1>1
  <2>2. i - n * ps[i].stages = k - n * ps[k].stages
    BY <1>1, <1>3
  <2> QED  BY <2>1, <2>2, LongerOrLater
<1>4. ASSUME NEW i \in 1 .. n, NEW k \in 1 .. n, rank[i] < rank[k] PROVE ps[i].stages >= ps[k].stages
  <2>1. ps[i].stages < ps[k].stages => k - n * ps[k].stages < i - n * ps[i].stages
    BY <1>1, LongerOrLater
  <2>2. rank[i] = i - n * ps[i].stages /\ rank[k] = k - n * ps[k].stages /\ rank[i] \in Int /\ rank[k] \in Int
    BY <1>1, <1>2
  <2>3. ~(ps[i].stages < ps[k].stages)
    BY <2>1, <2>2, <1>4
  <2> QED  BY <2>3, <1>1
<1>5. IsFiniteSet(1 .. n) /\ Cardinality(1 .. n) = n
  BY UpTo
<1>6. Ordered(order, 1 .. n, rank)
  BY <1>2, <1>3, <1>5, <1>c, SortedFacts DEF Distinct
<1>7. /\ order \in Seq(1 .. n) /\ Len(order) = n /\ IsInjective(order) /\ Range(order) = 1 .. n
      /\ DOMAIN order = 1 .. n
      /\ \A i, j \in 1 .. n : i < j => rank[order[i]] < rank[order[j]]
  <2>1. order \in Seq(1 .. n) /\ Len(order) = n
    BY <1>5, <1>6 DEF Ordered
  <2>2. DOMAIN order = 1 .. n
    BY <2>1, LenProperties
  <2> QED  BY <2>1, <2>2, <1>6 DEF Ordered
<1>8. \A i \in 1 .. n : order[i] \in 1 .. n
  BY <1>7, ElementOfSeq
<1>9. new = Picks(ps, order)
  <2>1. new = [k \in 1 .. n |-> ps[order[k]]]
    BY <1>a, <1>b, <1>c, <1>d DEF LongestFirst
  <2> QED  BY <2>1, <1>7 DEF Picks
<1>10. new \in Seq(Piece) /\ DOMAIN new = 1 .. n /\ \A k \in 1 .. n : new[k] = ps[order[k]]
  <2>1. new \in Seq(Piece)
    BY <1>0, <1>7, <1>9, <1>a, Picked
  <2> QED  BY <2>1, <1>7, <1>9 DEF Picks
<1>11. Descending(new)
  <2> SUFFICES ASSUME NEW i \in 1 .. n, NEW j \in 1 .. n, i < j PROVE new[i].stages >= new[j].stages
    BY <1>10 DEF Descending
  <2>1. rank[order[i]] < rank[order[j]] /\ order[i] \in 1 .. n /\ order[j] \in 1 .. n
    BY <1>7, <1>8
  <2>2. ps[order[i]].stages >= ps[order[j]].stages
    BY <2>1, <1>4
  <2> QED  BY <2>2, <1>10
<1>12. ASSUME Shared(EndsOf(ps), groups) PROVE Shared(EndsOf(new), groups)
  <2>1. DOMAIN EndsOf(ps) = 1 .. n /\ DOMAIN EndsOf(new) = 1 .. n
        /\ (\A k \in 1 .. n : EndsOf(ps)[k] = ps[k].ends) /\ (\A k \in 1 .. n : EndsOf(new)[k] = new[k].ends)
    BY <1>10, <1>a DEF EndsOf
  <2>2. order \in [1 .. n -> 1 .. n]
    BY <1>7, <1>8
  <2>3. \A i, k \in 1 .. n : order[i] = order[k] => i = k
    BY <1>7 DEF IsInjective
  <2>4. \A k \in 1 .. n : EndsOf(new)[k] = EndsOf(ps)[order[k]]
    BY <2>1, <1>8, <1>10
  <2>5. \A m \in 1 .. n : \E k \in 1 .. n : order[k] = m
    BY <1>7 DEF Range
  <2>a. PICK ends : ends = EndsOf(ps)
    OBVIOUS
  <2>b. PICK others : others = EndsOf(new)
    OBVIOUS
  <2>6. /\ Shared(ends, groups) /\ order \in [DOMAIN others -> DOMAIN ends]
        /\ \A i, k \in DOMAIN others : order[i] = order[k] => i = k
        /\ \A k \in DOMAIN others : others[k] = ends[order[k]]
        /\ \A m \in DOMAIN ends : \E k \in DOMAIN others : order[k] = m
    BY <2>1, <2>2, <2>3, <2>4, <2>5, <2>a, <2>b, <1>12
  <2>7. Shared(others, groups)
    BY <2>6, Reindexed
  <2> QED  BY <2>7, <2>b
<1> QED  BY <1>10, <1>11, <1>12, <1>d

(* The lists of a stage are of its groups, once each, so that their stages *)
(* are counted.                                                            *)
LEMMA GroupFacts ==
  \A staged \in Stage :
    Group(staged) \subseteq Nat /\ IsFiniteSet(Group(staged)) /\ Cardinality(Group(staged)) \in Nat
<1> TAKE staged \in Stage
<1>1. staged.pins \in Seq(Nat) /\ staged.ends \in Seq(Nat)
  BY DEF Stage
<1>2. PICK a \in Nat : a = Len(staged.pins)
  BY <1>1, LenProperties
<1>3. PICK b \in Nat : b = Len(staged.ends)
  BY <1>1, LenProperties
<1>a. PICK n \in Nat : n = a + b
  OBVIOUS
<1>4. Group(staged) = 1 .. n
  BY <1>2, <1>3, <1>a DEF Group
<1>5. IsFiniteSet(1 .. n) /\ Cardinality(1 .. n) = n /\ 1 .. n \subseteq Nat
  BY UpTo
<1> QED  BY <1>4, <1>5

LEMMA StageCount ==
  \A c \in Circuits : \A staged \in Range(StagesOf(c)) : \A s \in Seq(Nat) :
    staged \in Stage /\ IsInjective(s) /\ Range(s) \subseteq Group(staged) => MapPart(c, staged, s).stages \in Nat
<1> TAKE c \in Circuits
<1> TAKE staged \in Range(StagesOf(c))
<1> TAKE s \in Seq(Nat)
<1>0. HAVE staged \in Stage /\ IsInjective(s) /\ Range(s) \subseteq Group(staged)
<1>a. PICK G : G = Group(staged)
  OBVIOUS
<1>b. PICK n \in Nat : n = Len(s) /\ DOMAIN s = 1 .. n
  BY LenProperties
<1>1. IsFiniteSet(G) /\ Cardinality(G) \in Nat
  BY <1>0, <1>a, GroupFacts
<1>2. s \in [1 .. n -> G]
  <2>1. \A i \in 1 .. n : s[i] \in G
    BY <1>0, <1>a, <1>b DEF Range
  <2>2. s = [i \in 1 .. n |-> s[i]]
    BY <1>b, LenProperties
  <2> QED  BY <2>1, <2>2
<1>3. s \in Injection(1 .. n, G)
  BY <1>0, <1>2 DEF Injection
<1>4. n <= Cardinality(G)
  <2>1. Cardinality(1 .. n) <= Cardinality(G)
    BY <1>1, <1>3, FS_Injection
  <2> QED  BY <2>1, UpTo
<1>5. n \in 0 .. Cardinality(G)
  BY <1>1, <1>4
<1> QED  BY <1>0, <1>2, <1>5, <1>a, CountAssumption

----------------------------------------------------------------------------
(* One action after the other.                                             *)
LEMMA StageFacts ==
  StageInv /\ phase \in {"cut", "merge"} =>
    /\ stageds \in Seq(Stage) /\ at \in 1 .. Len(stageds) /\ Len(stageds) \in Nat
    /\ Staged \in Stage /\ Staged \in Range(StagesOf(circuit)) /\ circuit.degrad \in Nat
<1> HAVE StageInv /\ phase \in {"cut", "merge"}
<1>1. stageds = StagesOf(circuit) /\ at \in DOMAIN stageds /\ circuit \in Circuits
  BY DEF StageInv
<1>2. stageds \in Seq(Stage) /\ circuit.degrad \in Nat
  BY <1>1, MappingAssumption
<1>3. DOMAIN stageds = 1 .. Len(stageds) /\ Len(stageds) \in Nat
  BY <1>2, LenProperties
<1>4. Staged \in Stage
  BY <1>1, <1>2, <1>3, ElementOfSeq DEF Staged
<1> QED  BY <1>1, <1>2, <1>3, <1>4 DEF Staged, Range

LEMMA CutStarts ==
  ASSUME NEW staged \in Stage, StartCut(staged)
  PROVE  /\ good' = <<>> /\ division' \in Nat /\ unrealized' \in Seq(Nat)
         /\ \A i, k \in DOMAIN unrealized' : i < k => unrealized'[i] < unrealized'[k]
         /\ Shared(Append(good', unrealized'), Group(staged))
<1>1. Group(staged) \subseteq Nat /\ Group(staged) \subseteq Int /\ IsFiniteSet(Group(staged))
  BY GroupFacts
<1>2. unrealized' = InOrder(Group(staged)) /\ good' = <<>> /\ division' \in Nat
  BY MappingAssumption DEF StartCut
<1>3. /\ unrealized' \in Seq(Group(staged)) /\ IsInjective(unrealized') /\ Range(unrealized') = Group(staged)
      /\ \A i, k \in DOMAIN unrealized' : i < k => unrealized'[i] < unrealized'[k]
  BY <1>1, <1>2, InOrderFacts
<1>4. unrealized' \in Seq(Nat)
  BY <1>1, <1>3, SeqMonotonic
<1>5. Shared(Append(<<>>, unrealized'), Group(staged))
  BY <1>3, <1>4, JustOne
<1> QED  BY <1>2, <1>3, <1>4, <1>5

LEMMA MappingInit == Init => MappingInv
<1> HAVE Init
<1>1. circuit \in Circuits /\ phase = "split" /\ at = 1 /\ division = Division /\ result = <<>>
  BY DEF Init
<1>2. StageInv
  BY <1>1, MappingAssumption DEF StageInv
<1>3. RoundInv /\ MergeInv /\ StopsForAReason
  BY <1>1 DEF RoundInv, MergeInv, StopsForAReason
<1>4. ResultInv
  BY <1>1 DEF ResultInv
<1> QED  BY <1>2, <1>3, <1>4 DEF MappingInv

LEMMA SplitKeeps == MappingInv /\ Split => MappingInv'
<1>0. HAVE MappingInv /\ Split
<1>1. /\ phase = "split" /\ stageds' = StagesOf(circuit) /\ at = 1 /\ result = <<>>
      /\ circuit' = circuit /\ at' = 1 /\ result' = <<>> /\ circuit \in Circuits /\ division \in Nat
  BY <1>0 DEF Split, MappingInv, StageInv, ResultInv
<1>2. stageds' \in Seq(Stage)
  BY <1>1, MappingAssumption
<1>3. ResultInv'
  BY <1>1 DEF ResultInv
<1>4. CASE stageds' = <<>>
  <2>1. phase' = "empty" /\ division' = division
    BY <1>0, <1>4 DEF Split
  <2> QED  BY <2>1, <1>1, <1>3, <1>4 DEF MappingInv, StageInv, RoundInv, MergeInv, StopsForAReason
<1>5. CASE stageds' # <<>>
  <2>1. phase' = "cut" /\ StartCut(stageds'[1])
    BY <1>0, <1>5 DEF Split
  <2>2. 1 \in DOMAIN stageds'
    BY <1>2, <1>5, LenProperties, EmptySeq
  <2>3. stageds'[1] \in Stage
    BY <1>2, <2>2, LenProperties, ElementOfSeq
  <2>4. /\ good' = <<>> /\ division' \in Nat /\ unrealized' \in Seq(Nat)
        /\ \A i, k \in DOMAIN unrealized' : i < k => unrealized'[i] < unrealized'[k]
        /\ Shared(Append(good', unrealized'), Group(stageds'[1]))
    BY <2>1, <2>3, CutStarts
  <2>5. RoundInv'
    BY <2>4, <1>1 DEF RoundInv, Staged
  <2>6. StageInv' /\ MergeInv' /\ StopsForAReason'
    BY <2>1, <2>2, <2>4, <1>1 DEF StageInv, MergeInv, StopsForAReason
  <2> QED  BY <2>5, <2>6, <1>3 DEF MappingInv
<1> QED  BY <1>4, <1>5

(* The pieces of a round.                                                  *)
Remains(assignment, fitting) == {unrealized[i] : i \in {i \in DOMAIN unrealized : assignment[i] \notin fitting}}

LEMMA RoundSteps ==
  MappingInv /\ Round =>
    \E f \in Partitionings(PartCount) : \E tried, fitting, left :
      /\ Shape(unrealized, PartCount, f, tried, fitting, left)
      /\ fitting = {k \in DOMAIN tried : Mapped(tried[k]).fits}
      /\ good' = good \o Picks(tried, InOrder(fitting))
      /\ unrealized' = InOrder(left)
      /\ phase' = IF \E k \in DOMAIN tried \ fitting : Single(tried[k]) THEN "unmappable" ELSE phase
<1>0. HAVE MappingInv /\ Round
<1>a. PICK u : u = unrealized
  OBVIOUS
<1>1. phase = "cut" /\ division \in Nat /\ u \in Seq(Nat) /\ IsInjective(u)
  <2>1. phase = "cut" /\ division \in Nat
    BY <1>0 DEF Round, MappingInv, StageInv
  <2>2. u \in Seq(Nat) /\ \A i, k \in DOMAIN u : i < k => u[i] < u[k]
    BY <1>0, <1>a, <2>1 DEF MappingInv, RoundInv
  <2>3. PICK l \in Nat : DOMAIN u = 1 .. l /\ \A i \in 1 .. l : u[i] \in Nat
    BY <2>2, LenProperties, ElementOfSeq
  <2>4. \A i, k \in 1 .. l : u[i] = u[k] => i = k
    <3> TAKE i, k \in 1 .. l
    <3>1. u[i] \in Nat /\ u[k] \in Nat
      BY <2>3
    <3>2. (i < k => u[i] < u[k]) /\ (k < i => u[k] < u[i])
      BY <2>2, <2>3
    <3> QED  BY <3>1, <3>2
  <2> QED  BY <2>1, <2>2, <2>3, <2>4 DEF IsInjective
<1>2. PartCount \in Nat
  <2>1. PICK l \in Nat : l = Len(unrealized)
    BY <1>1, <1>a, LenProperties
  <2>2. PICK h \in Nat \ {0} : h = Halved
    BY <1>1 DEF Halved
  <2>3. (l + h - 1) \div h \in Nat
    OBVIOUS
  <2> QED  BY <2>1, <2>2, <2>3 DEF PartCount
<1>3. PICK f \in Partitionings(PartCount) :
        \E tried \in {[k \in 1 .. PartCount |-> Gather(unrealized, f, k)]} :
          \E fitting \in {{k \in DOMAIN tried : Mapped(tried[k]).fits}} : Realize(tried, fitting, f)
  BY <1>0 DEF Round
<1>4. PICK tried, fitting :
        /\ tried = [k \in 1 .. PartCount |-> Gather(unrealized, f, k)]
        /\ fitting = {k \in DOMAIN tried : Mapped(tried[k]).fits}
        /\ Realize(tried, fitting, f)
  BY <1>3
<1>e. PICK left : left = Remains(f, fitting)
  OBVIOUS
<1>5. unrealized' = InOrder(left)
  BY <1>4, <1>e DEF Realize, Resorted, Remains
<1>6. Shape(unrealized, PartCount, f, tried, fitting, left)
  <2>1. f \in [DOMAIN u -> 1 .. PartCount]
    BY <1>a DEF Partitionings
  <2>2. fitting \subseteq 1 .. PartCount
    BY <1>4
  <2> QED  BY <1>1, <1>2, <2>1, <2>2, <1>a, <1>4, <1>e DEF Shape, Remains
<1>7. [i \in 1 .. Cardinality(fitting) |-> tried[InOrder(fitting)[i]]] = Picks(tried, InOrder(fitting))
  <2>1. DOMAIN InOrder(fitting) = 1 .. Cardinality(fitting)
    BY DEF InOrder, Sorted
  <2> QED  BY <2>1 DEF Picks
<1>8. /\ good' = good \o Picks(tried, InOrder(fitting))
      /\ phase' = IF \E k \in DOMAIN tried \ fitting : Single(tried[k]) THEN "unmappable" ELSE phase
  BY <1>4, <1>7 DEF Realize
<1> WITNESS f \in Partitionings(PartCount)
<1> WITNESS tried, fitting, left
<1> QED  BY <1>4, <1>5, <1>6, <1>8

LEMMA OneLong == \A s \in Seq(Nat) : Len(s) = 1 => s = <<s[1]>> /\ s[1] \in Range(s)
<1> TAKE s \in Seq(Nat)
<1>0. HAVE Len(s) = 1
<1>a. DOMAIN s = 1 .. 1
  BY <1>0, LenProperties
<1>b. PICK x \in Nat : x = s[1]
  <2>1. 1 \in 1 .. Len(s)
    BY <1>0
  <2>2. s[1] \in Nat
    BY <2>1, ElementOfSeq
  <2> QED  BY <2>2
<1>1. DOMAIN s = 1 .. 1 /\ <<s[1]>> \in Seq(Nat) /\ Len(<<s[1]>>) = 1
  BY <1>a, <1>b
<1>2. \A i \in 1 .. Len(s) : s[i] = <<s[1]>>[i]
  BY <1>0
<1>3. s = <<s[1]>>
  BY <1>0, <1>1, <1>2, SeqEqual
<1> QED  BY <1>1, <1>3 DEF Range

FromEither(new, old, rest) ==
  \A k \in DOMAIN new : (\E i \in DOMAIN old : new[k] = old[i]) \/ (\E i \in DOMAIN rest : new[k] = rest[i])

LEMMA GoodParts ==
  \A old, rest, new : old \in Seq(Seq(Nat)) /\ rest \in Seq(Seq(Nat)) /\ new = old \o rest =>
    new \in Seq(Seq(Nat)) /\ FromEither(new, old, rest)
<1> TAKE old, rest, new
<1>0. HAVE old \in Seq(Seq(Nat)) /\ rest \in Seq(Seq(Nat)) /\ new = old \o rest
<1>a. PICK m \in Nat : DOMAIN old = 1 .. m /\ Len(old) = m
  BY <1>0, LenProperties
<1>b. PICK n \in Nat : DOMAIN rest = 1 .. n /\ Len(rest) = n
  BY <1>0, LenProperties
<1>1. new \in Seq(Seq(Nat)) /\ Len(new) = m + n /\ \A i \in 1 .. m + n : new[i] = IF i <= m THEN old[i] ELSE rest[i - m]
  BY <1>0, <1>a, <1>b, ConcatProperties
<1>2. DOMAIN new = 1 .. m + n
  BY <1>1, LenProperties
<1>3. ASSUME NEW k \in 1 .. m + n
      PROVE  (\E i \in DOMAIN old : new[k] = old[i]) \/ (\E i \in DOMAIN rest : new[k] = rest[i])
  <2>1. CASE k <= m
    <3>1. k \in DOMAIN old /\ new[k] = old[k]
      BY <2>1, <1>1, <1>a
    <3> QED  BY <3>1
  <2>2. CASE ~(k <= m)
    <3>1. k - m \in DOMAIN rest /\ new[k] = rest[k - m]
      BY <2>2, <1>1, <1>b
    <3> QED  BY <3>1
  <2> QED  BY <2>1, <2>2
<1> QED  BY <1>1, <1>2, <1>3 DEF FromEither

LEMMA RoundKeeps == MappingInv /\ Round => MappingInv'
<1>0. HAVE MappingInv /\ Round
<1>1. PICK f \in Partitionings(PartCount) : \E tried, fitting, left :
        /\ Shape(unrealized, PartCount, f, tried, fitting, left)
        /\ fitting = {k \in DOMAIN tried : Mapped(tried[k]).fits}
        /\ good' = good \o Picks(tried, InOrder(fitting))
        /\ unrealized' = InOrder(left)
        /\ phase' = IF \E k \in DOMAIN tried \ fitting : Single(tried[k]) THEN "unmappable" ELSE phase
  BY <1>0, RoundSteps
<1>2. PICK tried, fitting, left :
        /\ Shape(unrealized, PartCount, f, tried, fitting, left)
        /\ fitting = {k \in DOMAIN tried : Mapped(tried[k]).fits}
        /\ good' = good \o Picks(tried, InOrder(fitting))
        /\ unrealized' = InOrder(left)
        /\ phase' = IF \E k \in DOMAIN tried \ fitting : Single(tried[k]) THEN "unmappable" ELSE phase
  BY <1>1
<1>a. PICK rest : rest = Picks(tried, InOrder(fitting))
  OBVIOUS
<1>3. /\ phase = "cut" /\ ~circuit.file /\ division' = Halved
      /\ UNCHANGED <<circuit, stageds, at, result>> /\ Staged' = Staged
  BY <1>0 DEF Round, Staged
<1>4. /\ good \in Seq(Seq(Nat)) /\ unrealized \in Seq(Nat)
      /\ Shared(Append(good, unrealized), Group(Staged))
      /\ \A k \in DOMAIN good : Mapped(good[k]).fits
  BY <1>0, <1>3 DEF MappingInv, RoundInv
<1>5. /\ rest \in Seq(Seq(Nat)) /\ unrealized' \in Seq(Nat)
      /\ \A i, j \in DOMAIN unrealized' : i < j => unrealized'[i] < unrealized'[j]
      /\ Range(unrealized') = left /\ Range(InOrder(fitting)) = fitting
      /\ Shared(Append(rest, unrealized'), Range(unrealized))
  BY <1>2, <1>a, RoundShares
<1>6. Shared(Append(good', unrealized'), Group(Staged))
  BY <1>2, <1>4, <1>5, <1>a, Divided
<1>7. good' \in Seq(Seq(Nat)) /\ FromEither(good', good, rest)
  BY <1>2, <1>4, <1>5, <1>a, GoodParts
<1>8. \A i \in DOMAIN rest : Mapped(rest[i]).fits
  <2>1. \A i \in DOMAIN rest : rest[i] = tried[InOrder(fitting)[i]] /\ InOrder(fitting)[i] \in fitting
    BY <1>5, <1>a DEF Picks, Range
  <2> QED  BY <2>1, <1>2
<1>9. \A k \in DOMAIN good' : Mapped(good'[k]).fits
  BY <1>4, <1>7, <1>8 DEF FromEither
<1>10. RoundInv'
  BY <1>3, <1>5, <1>6, <1>7, <1>9 DEF RoundInv, Mapped, Staged
<1>11. phase' \in {"cut", "unmappable"}
  BY <1>2, <1>3
<1>12. StageInv'
  <2>1. division' \in Nat
    BY <1>0, <1>3 DEF MappingInv, StageInv, Halved
  <2> QED  BY <1>0, <1>3, <1>11, <2>1 DEF MappingInv, StageInv
<1>13. ResultInv' /\ MergeInv'
  BY <1>0, <1>3, <1>11 DEF MappingInv, ResultInv, MergeInv
<1>14. ASSUME phase' = "unmappable" PROVE \E g \in Range(unrealized') : ~Mapped(<<g>>).fits
  <2>1. PICK k \in DOMAIN tried \ fitting : Single(tried[k])
    BY <1>2, <1>3, <1>14
  <2>2. tried[k] = Gather(unrealized, f, k) /\ unrealized \in Seq(Nat)
        /\ left = {unrealized[i] : i \in {i \in DOMAIN unrealized : f[i] \notin fitting}}
    BY <1>2, <2>1 DEF Shape
  <2>3. tried[k] \in Seq(Nat) /\ Range(tried[k]) = {unrealized[i] : i \in Places(unrealized, f, k)}
    BY <2>2, GatherFacts
  <2>4. tried[k] = <<tried[k][1]>> /\ tried[k][1] \in Range(tried[k])
    BY <2>1, <2>3, OneLong DEF Single
  <2>5. PICK i \in DOMAIN unrealized : tried[k][1] = unrealized[i] /\ f[i] = k
    BY <2>3, <2>4 DEF Places
  <2>6. tried[k][1] \in Range(unrealized')
    BY <2>1, <2>2, <2>5, <1>5
  <2>7. ~Mapped(tried[k]).fits
    BY <1>2, <2>1
  <2> QED  BY <2>4, <2>6, <2>7
<1>15. StopsForAReason'
  BY <1>3, <1>11, <1>14 DEF StopsForAReason, Mapped, Staged
<1> QED  BY <1>10, <1>12, <1>13, <1>15 DEF MappingInv

LEMMA ProcessKeeps ==
  ASSUME MappingInv, phase = "cut",
         NEW initial \in Seq(Seq(Nat)), Shared(initial, Group(Staged)), Process(initial),
         circuit.file \/ \A k \in DOMAIN initial : Mapped(initial[k]).fits
  PROVE  MappingInv'
<1>1. /\ UNCHANGED <<circuit, stageds, at, division, result>> /\ Staged' = Staged
      /\ circuit \in Circuits /\ division \in Nat /\ stageds = StagesOf(circuit) /\ at \in DOMAIN stageds
      /\ Len(result) = at - 1
  BY DEF Process, Staged, MappingInv, StageInv, ResultInv
<1>2. Staged \in Stage /\ Staged \in Range(StagesOf(circuit)) /\ circuit.degrad \in Nat
  BY StageFacts DEF MappingInv
<1>3. phase' \in {"empty", "refused", "merge"}
  BY DEF Process
<1>4. StageInv' /\ RoundInv' /\ ResultInv'
  BY <1>1, <1>3 DEF StageInv, RoundInv, ResultInv, MappingInv
<1>a. PICK n \in Nat : DOMAIN initial = 1 .. n /\ Len(initial) = n
  BY LenProperties
<1>5. CASE initial = <<>>
  <2>1. phase' = "empty"
    BY <1>5 DEF Process
  <2>2. Group(Staged) = {}
    BY <1>5 DEF Shared
  <2> QED  BY <2>1, <2>2, <1>1, <1>4 DEF MappingInv, MergeInv, StopsForAReason
<1>6. CASE initial # <<>> /\ \E k \in DOMAIN initial : ~Mapped(initial[k]).fits
  <2>1. phase' = "refused"
    BY <1>6 DEF Process
  <2>2. circuit.file
    BY <1>6
  <2> QED  BY <2>1, <2>2, <1>1, <1>4 DEF MappingInv, MergeInv, StopsForAReason
<1>7. CASE initial # <<>> /\ \A k \in DOMAIN initial : Mapped(initial[k]).fits
  <2>a. PICK count : count = [k \in 1 .. n |-> Mapped(initial[k]).stages]
    OBVIOUS
  <2>b. PICK counts : counts = {Mapped(initial[k]).stages : k \in DOMAIN initial}
    OBVIOUS
  <2>1. /\ phase' = "merge" /\ parts' = initial /\ part' = 1 /\ effective' = <<>>
        /\ most' = Largest(counts) + circuit.degrad /\ self' = Built(initial[1])
    BY <1>7, <2>b DEF Process
  <2>2. n >= 1
    BY <1>7, <1>a, EmptySeq
  <2>3. \A k \in 1 .. n : Mapped(initial[k]).stages \in Nat
    <3> TAKE k \in 1 .. n
    <3>1. initial[k] \in Seq(Nat) /\ IsInjective(initial[k]) /\ Range(initial[k]) \subseteq Group(Staged)
      BY <1>a, ElementOfSeq DEF Shared
    <3> QED  BY <3>1, <1>1, <1>2, StageCount DEF Mapped
  <2>4. counts \subseteq Int /\ IsFiniteSet(counts) /\ counts # {}
        /\ \A k \in 1 .. n : Mapped(initial[k]).stages \in counts
    <3>1. counts = {count[k] : k \in 1 .. n}
      BY <1>a, <2>a, <2>b
    <3>2. IsFiniteSet(counts)
      BY <3>1, UpTo, Image
    <3>3. \A k \in 1 .. n : Mapped(initial[k]).stages \in counts
      BY <1>a, <2>b
    <3>4. counts \subseteq Int
      BY <1>a, <2>3, <2>b
    <3>5. 1 \in 1 .. n
      BY <2>2
    <3> QED  BY <3>2, <3>3, <3>4, <3>5
  <2>5. \A k \in 1 .. n : Mapped(initial[k]).stages <= most'
    <3>1. \A y \in counts : y <= Largest(counts)
      BY <2>4, LargestFacts
    <3>2. Largest(counts) \in Int
      BY <2>4, LargestFacts
    <3>3. ASSUME NEW k \in 1 .. n PROVE Mapped(initial[k]).stages <= most'
      <4>1. Mapped(initial[k]).stages <= Largest(counts) /\ Mapped(initial[k]).stages \in Nat
        BY <3>1, <2>3, <2>4
      <4> QED  BY <4>1, <3>2, <2>1, <1>2
    <3> QED  BY <3>3
  <2>6. Shared(Held(effective', parts', part'), Group(Staged))
    BY <2>1, MergingStarts
  <2>7. Recorded' /\ Finished'
    BY <2>1, <1>1 DEF Recorded, Finished, Built, Mapped, Staged
  <2>8. \A k \in part' .. Len(parts') : Mapped(parts'[k]).fits /\ Mapped(parts'[k]).stages <= most'
    BY <2>1, <2>5, <1>7, <1>a
  <2>9. Mappable'
    BY <2>8, <1>1 DEF Mappable, NotWorse, Mapped, Staged
  <2>10. parts' \in Seq(Seq(Nat)) /\ effective' \in Seq(Piece) /\ part' \in 1 .. Len(parts') + 1
    BY <2>1, <1>a
  <2>11. MergeInv'
    BY <2>6, <2>7, <2>9, <2>10, <1>1 DEF MergeInv, Staged
  <2> QED  BY <2>1, <2>11, <1>4 DEF MappingInv, StopsForAReason
<1> QED  BY <1>5, <1>6, <1>7

LEMMA StartMergingKeeps == MappingInv /\ StartMerging => MappingInv'
<1>0. HAVE MappingInv /\ StartMerging
<1>1. /\ phase = "cut" /\ unrealized = <<>> /\ good \in Seq(Seq(Nat))
      /\ Shared(Append(good, <<>>), Group(Staged)) /\ \A k \in DOMAIN good : Mapped(good[k]).fits
  BY <1>0 DEF StartMerging, MappingInv, RoundInv
<1>a. PICK initial : initial = good
  OBVIOUS
<1>b. PICK all : all = Append(initial, <<>>)
  OBVIOUS
<1>c. PICK n \in Nat : DOMAIN initial = 1 .. n /\ Len(initial) = n
  BY <1>1, <1>a, LenProperties
<1>2. DOMAIN all = 1 .. n + 1 /\ (\A k \in 1 .. n : all[k] = initial[k]) /\ all[n + 1] = <<>>
  <2>1. <<>> \in Seq(Nat)
    OBVIOUS
  <2>2. all \in Seq(Seq(Nat)) /\ Len(all) = n + 1 /\ (\A k \in 1 .. n : all[k] = initial[k]) /\ all[n + 1] = <<>>
    BY <2>1, <1>1, <1>a, <1>b, <1>c, AppendProperties
  <2> QED  BY <2>2, LenProperties
<1>d. PICK h : h = [k \in 1 .. n |-> k]
  OBVIOUS
<1>3. /\ h \in [DOMAIN initial -> DOMAIN all]
      /\ \A i, k \in DOMAIN initial : h[i] = h[k] => i = k
      /\ \A k \in DOMAIN initial : initial[k] = all[h[k]]
      /\ \A m \in DOMAIN all : (\E k \in DOMAIN initial : h[k] = m) \/ Range(all[m]) = {}
  <2>1. Range(all[n + 1]) = {}
    BY <1>2 DEF Range
  <2>2. \A m \in 1 .. n + 1 : m = n + 1 \/ (m \in 1 .. n /\ h[m] = m)
    BY <1>d
  <2> QED  BY <2>1, <2>2, <1>2, <1>c, <1>d
<1>4. Shared(all, Group(Staged))
  BY <1>1, <1>a, <1>b
<1>5. Shared(initial, Group(Staged))
  BY <1>3, <1>4, Reindexed
<1>6. Process(initial)
  BY <1>0, <1>a DEF StartMerging
<1> QED  BY <1>0, <1>1, <1>5, <1>6, <1>a, ProcessKeeps

LEMMA GatheredShares ==
  \A u, n, f, tried :
    /\ u \in Seq(Nat) /\ IsInjective(u) /\ n \in Nat /\ f \in [DOMAIN u -> 1 .. n]
    /\ tried = [k \in 1 .. n |-> Gather(u, f, k)]
    => tried \in Seq(Seq(Nat)) /\ Shared(tried, Range(u))
<1> TAKE u, n, f, tried
<1>0. HAVE /\ u \in Seq(Nat) /\ IsInjective(u) /\ n \in Nat /\ f \in [DOMAIN u -> 1 .. n]
           /\ tried = [k \in 1 .. n |-> Gather(u, f, k)]
<1>1. \A k \in 1 .. n :
        /\ tried[k] \in Seq(Nat) /\ IsInjective(tried[k])
        /\ Range(tried[k]) = {u[i] : i \in Places(u, f, k)}
  BY <1>0, GatherFacts
<1>2. tried \in Seq(Seq(Nat)) /\ DOMAIN tried = 1 .. n
  <2>1. tried \in [1 .. n -> Seq(Nat)]
    BY <1>0, <1>1
  <2>2. n \in Nat
    BY <1>0
  <2> QED  BY <2>1, <2>2, Listed
<1>3. \A i \in DOMAIN u : \A k \in 1 .. n : u[i] \in Range(tried[k]) <=> f[i] = k
  <2> TAKE i \in DOMAIN u
  <2> TAKE k \in 1 .. n
  <2>1. Range(tried[k]) = {u[j] : j \in Places(u, f, k)}
    BY <1>1
  <2>2. \A j \in DOMAIN u : u[i] = u[j] => i = j
    BY <1>0 DEF IsInjective
  <2> QED  BY <2>1, <2>2 DEF Places
<1>4. \A k \in 1 .. n : Range(tried[k]) \subseteq Range(u)
  <2> TAKE k \in 1 .. n
  <2>1. {u[i] : i \in Places(u, f, k)} \subseteq Range(u)
    BY DEF Places, Range
  <2> QED  BY <2>1, <1>1
<1>5. ASSUME NEW i \in 1 .. n, NEW k \in 1 .. n, i # k, NEW g \in Range(tried[i]), g \in Range(tried[k])
      PROVE  FALSE
  <2>1. PICK d \in DOMAIN u : g = u[d]
    BY <1>4 DEF Range
  <2> QED  BY <2>1, <1>3, <1>5
<1>6. ASSUME NEW g \in Range(u) PROVE \E k \in 1 .. n : g \in Range(tried[k])
  <2>1. PICK d \in DOMAIN u : g = u[d]
    BY DEF Range
  <2>2. f[d] \in 1 .. n
    BY <1>0
  <2> QED  BY <2>1, <2>2, <1>3
<1>7. Shared(tried, Range(u))
  BY <1>1, <1>2, <1>4, <1>5, <1>6 DEF Shared
<1> QED  BY <1>2, <1>7

LEMMA OnlyOne ==
  \A u, groups : u \in Seq(Nat) /\ Shared(Append(<<>>, u), groups) => IsInjective(u) /\ Range(u) = groups
<1> TAKE u, groups
<1>0. HAVE u \in Seq(Nat) /\ Shared(Append(<<>>, u), groups)
<1>a. PICK s : s = Append(<<>>, u)
  OBVIOUS
<1>1. DOMAIN s = {1} /\ s[1] = u
  BY <1>a
<1>2. Shared(s, groups)
  BY <1>0, <1>a
<1> QED  BY <1>1, <1>2 DEF Shared

LEMMA ReadPartsKeeps == MappingInv /\ ReadParts => MappingInv'
<1>0. HAVE MappingInv /\ ReadParts
<1>1. /\ phase = "cut" /\ circuit.file /\ unrealized # <<>> /\ unrealized \in Seq(Nat)
      /\ Shared(Append(<<>>, unrealized), Group(Staged))
  BY <1>0 DEF ReadParts, MappingInv, RoundInv
<1>2. PICK f \in [DOMAIN unrealized -> 1 .. 2] :
        Process([k \in 1 .. Largest(Range(f)) |-> Gather(unrealized, f, k)])
  BY <1>0 DEF ReadParts
<1>a. PICK u : u = unrealized
  OBVIOUS
<1>b. PICK n : n = Largest(Range(f))
  OBVIOUS
<1>c. PICK initial : initial = [k \in 1 .. n |-> Gather(u, f, k)]
  OBVIOUS
<1>3. u \in Seq(Nat) /\ IsInjective(u) /\ Range(u) = Group(Staged)
  BY <1>1, <1>a, OnlyOne
<1>4. PICK l \in Nat : DOMAIN u = 1 .. l /\ l # 0
  <2>1. DOMAIN u = 1 .. Len(u) /\ Len(u) \in Nat /\ Len(u) # 0
    BY <1>1, <1>3, <1>a, LenProperties, EmptySeq
  <2> QED  BY <2>1
<1>5. n \in 1 .. 2 /\ \A y \in Range(f) : y <= n
  <2>1. Range(f) \subseteq 1 .. 2 /\ Range(f) \subseteq Int
    BY <1>a, <1>2 DEF Range
  <2>2. IsFiniteSet(Range(f))
    <3>1. Range(f) = {f[i] : i \in 1 .. l}
      BY <1>a, <1>4 DEF Range
    <3>2. IsFiniteSet(1 .. l)
      BY UpTo
    <3>3. IsFiniteSet({f[i] : i \in 1 .. l})
      BY <3>2, Image
    <3> QED  BY <3>1, <3>3
  <2>3. Range(f) # {}
    <3>1. 1 \in DOMAIN f
      BY <1>a, <1>4
    <3> QED  BY <3>1 DEF Range
  <2>4. n \in Range(f) /\ \A y \in Range(f) : y <= n
    BY <2>1, <2>2, <2>3, <1>b, LargestFacts
  <2> QED  BY <2>1, <2>4
<1>6. f \in [DOMAIN u -> 1 .. n]
  <2>1. f \in [DOMAIN u -> 1 .. 2]
    BY <1>a
  <2>2. \A i \in DOMAIN u : f[i] \in Range(f) /\ f[i] \in 1 .. 2
    BY <2>1 DEF Range
  <2>3. \A i \in DOMAIN u : f[i] \in 1 .. n
    BY <2>2, <1>5
  <2> QED  BY <2>1, <2>3
<1>7. initial \in Seq(Seq(Nat)) /\ Shared(initial, Range(u))
  <2>1. n \in Nat
    BY <1>5
  <2> QED  BY <1>3, <1>6, <1>c, <2>1, GatheredShares
<1>8. Process(initial)
  BY <1>2, <1>a, <1>b, <1>c
<1> QED  BY <1>0, <1>1, <1>3, <1>7, <1>8, ProcessKeeps

LEMMA Kept ==
  MappingInv /\ phase = "merge" /\ part <= Len(parts) =>
    /\ parts \in Seq(Seq(Nat)) /\ effective \in Seq(Piece) /\ Len(parts) \in Nat
    /\ DOMAIN parts = 1 .. Len(parts) /\ part \in 1 .. Len(parts)
    /\ Shared(Held(effective, parts, part), Group(Staged))
    /\ self = Built(parts[part]) /\ Mappable /\ Finished
    /\ circuit \in Circuits /\ Staged \in Stage /\ Staged \in Range(StagesOf(circuit))
    /\ \A k \in part .. Len(parts) : parts[k] \in Seq(Nat)
<1> HAVE MappingInv /\ phase = "merge" /\ part <= Len(parts)
<1>1. /\ parts \in Seq(Seq(Nat)) /\ effective \in Seq(Piece) /\ part \in 1 .. Len(parts) + 1
      /\ Shared(Held(effective, parts, part), Group(Staged))
      /\ self = Built(parts[part]) /\ Mappable /\ Finished
  BY DEF MappingInv, MergeInv, Recorded
<1>2. DOMAIN parts = 1 .. Len(parts) /\ Len(parts) \in Nat
  BY <1>1, LenProperties
<1>3. part \in 1 .. Len(parts)
  BY <1>1, <1>2
<1>4. \A k \in part .. Len(parts) : parts[k] \in Seq(Nat)
  <2> TAKE k \in part .. Len(parts)
  <2>1. k \in 1 .. Len(parts)
    BY <1>2, <1>3
  <2> QED  BY <2>1, <1>1, ElementOfSeq
<1>5. circuit \in Circuits /\ Staged \in Stage /\ Staged \in Range(StagesOf(circuit))
  BY StageFacts DEF MappingInv, StageInv
<1> QED  BY <1>1, <1>2, <1>3, <1>4, <1>5

(* The conjuncts that a step of merging leaves alone.                      *)
LEMMA MergingRest ==
  MappingInv /\ phase = "merge" /\ UNCHANGED <<circuit, stageds, phase, at, division, result>> /\ MergeInv' =>
    MappingInv'
BY DEF MappingInv, StageInv, RoundInv, ResultInv, StopsForAReason

LEMMA NextPartRecorded ==
  NextPart /\ UNCHANGED <<circuit, stageds, at, parts>> /\ part \in Nat => Recorded'
<1> HAVE NextPart /\ UNCHANGED <<circuit, stageds, at, parts>> /\ part \in Nat
<1>1. part' = part + 1 /\ (part < Len(parts) => self' = Built(parts[part + 1]))
  BY DEF NextPart
<1> QED  BY <1>1 DEF Recorded, Built, Mapped, Staged

LEMMA SkipKeeps == MappingInv /\ SkipMerged => MappingInv'
<1>0. HAVE MappingInv /\ SkipMerged
<1>1. /\ phase = "merge" /\ part <= Len(parts) /\ parts[part] = <<>> /\ part' = part + 1 /\ NextPart
      /\ UNCHANGED <<circuit, stageds, phase, at, division, result>> /\ UNCHANGED <<parts, most, effective>>
      /\ Staged' = Staged
  BY <1>0 DEF SkipMerged, NextPart, Staged
<1>2. /\ parts \in Seq(Seq(Nat)) /\ effective \in Seq(Piece) /\ Len(parts) \in Nat /\ part \in 1 .. Len(parts)
      /\ Shared(Held(effective, parts, part), Group(Staged)) /\ Mappable /\ Finished
  BY <1>0, <1>1, Kept
<1>3. Shared(Held(effective, parts, part + 1), Group(Staged))
  BY <1>1, <1>2, MergedIsSkipped
<1>4. Recorded'
  BY <1>1, <1>2, NextPartRecorded
<1>5. Mappable' /\ Finished'
  <2>0. \A k : parts'[k] = parts[k] /\ NotWorse(Mapped(parts[k]))' = NotWorse(Mapped(parts[k]))
    BY <1>1 DEF NotWorse, Mapped
  <2>1. Mappable'
    <3>1. \A k \in part + 1 .. Len(parts) : k \in part .. Len(parts)
      BY <1>2
    <3> QED  BY <1>1, <1>2, <2>0, <3>1 DEF Mappable
  <2>2. Finished'
    BY <1>1, <1>2 DEF Finished, Built, Mapped, Staged
  <2> QED  BY <2>1, <2>2
<1>6. MergeInv'
  BY <1>1, <1>2, <1>3, <1>4, <1>5 DEF MergeInv
<1> QED  BY <1>0, <1>1, <1>6, MergingRest

LEMMA PartCounts ==
  MappingInv /\ phase = "merge" /\ part <= Len(parts) => Built(parts[part]) \in Piece
<1>0. HAVE MappingInv /\ phase = "merge" /\ part <= Len(parts)
<1>1. /\ part \in part .. Len(parts) /\ parts[part] \in Seq(Nat)
      /\ circuit \in Circuits /\ Staged \in Stage /\ Staged \in Range(StagesOf(circuit))
      /\ Halves(effective, parts, part, Group(Staged))
  BY <1>0, Kept, HeldHalves
<1>2. IsInjective(parts[part]) /\ Range(parts[part]) \subseteq Group(Staged)
  BY <1>1 DEF Halves
<1>3. Mapped(parts[part]).stages \in Nat
  BY <1>1, <1>2, StageCount DEF Mapped
<1> QED  BY <1>1, <1>3 DEF Built, Piece

LEMMA FinishPartKeeps ==
  ASSUME MappingInv, phase = "merge", part <= Len(parts), parts[part] # <<>>,
         effective' = Append(effective, self), NextPart, UNCHANGED parts,
         UNCHANGED <<circuit, stageds, phase, at, division, most, result>>
  PROVE  MappingInv'
<1>1. /\ parts \in Seq(Seq(Nat)) /\ effective \in Seq(Piece) /\ Len(parts) \in Nat /\ part \in 1 .. Len(parts)
      /\ Shared(Held(effective, parts, part), Group(Staged)) /\ Mappable /\ Finished
      /\ self = Built(parts[part]) /\ self \in Piece
  BY Kept, PartCounts
<1>2. Staged' = Staged /\ part' = part + 1
  BY DEF Staged, NextPart
<1>3. self.ends = parts[part] /\ self.stages = Mapped(parts[part]).stages
  BY <1>1 DEF Built
<1>4. Shared(Held(effective', parts', part'), Group(Staged))
  BY <1>1, <1>2, <1>3, PartIsKept
<1>5. Recorded'
  BY <1>1, NextPartRecorded
<1>6. Mappable'
  BY <1>1, <1>2 DEF Mappable, NotWorse, Mapped, Staged
<1>a. PICK n \in Nat : n = Len(effective) /\ DOMAIN effective = 1 .. n
  BY <1>1, LenProperties
<1>7. /\ effective' \in Seq(Piece) /\ DOMAIN effective' = 1 .. n + 1
      /\ (\A k \in 1 .. n : effective'[k] = effective[k]) /\ effective'[n + 1] = self
  <2>1. effective' \in Seq(Piece) /\ Len(effective') = n + 1
        /\ (\A k \in 1 .. n : effective'[k] = effective[k]) /\ effective'[n + 1] = self
    BY <1>1, <1>a, AppendProperties
  <2> QED  BY <2>1, LenProperties
<1>8. Mapped(self.ends).fits /\ self = Built(self.ends) /\ self.stages <= most
  <2>1. NotWorse(Mapped(parts[part]))
    BY <1>1 DEF Mappable
  <2> QED  BY <2>1, <1>1, <1>3 DEF NotWorse
<1>9. ASSUME NEW k \in DOMAIN effective'
      PROVE  /\ Mapped(effective'[k].ends).fits
             /\ effective'[k] = Built(effective'[k].ends) /\ effective'[k].stages <= most
  <2>1. CASE k = n + 1
    BY <2>1, <1>7, <1>8
  <2>2. CASE k \in 1 .. n
    BY <2>2, <1>1, <1>7, <1>a DEF Finished
  <2> QED  BY <2>1, <2>2, <1>7
<1>10. Finished'
  BY <1>9 DEF Finished, Built, Mapped, Staged
<1>11. MergeInv'
  BY <1>1, <1>2, <1>4, <1>5, <1>6, <1>7, <1>10 DEF MergeInv
<1> QED  BY <1>11, MergingRest

LEMMA AbsorbKeeps ==
  ASSUME MappingInv, phase = "merge", part <= Len(parts), parts[part] # <<>>,
         NEW j \in Others, NotWorse(Mapped(parts[part] \o parts[j])),
         parts' = Absorb(parts, part, j), self' = Built(parts'[part]), UNCHANGED <<part, effective>>,
         UNCHANGED <<circuit, stageds, phase, at, division, most, result>>
  PROVE  MappingInv'
<1>1. /\ parts \in Seq(Seq(Nat)) /\ effective \in Seq(Piece) /\ Len(parts) \in Nat /\ part \in 1 .. Len(parts)
      /\ DOMAIN parts = 1 .. Len(parts)
      /\ Shared(Held(effective, parts, part), Group(Staged)) /\ Mappable /\ Finished
  BY Kept
<1>2. Staged' = Staged /\ j \in part + 1 .. Len(parts) /\ j \in DOMAIN parts /\ part \in DOMAIN parts /\ part # j
  BY <1>1 DEF Staged, Others
<1>3. /\ parts' \in Seq(Seq(Nat)) /\ Len(parts') = Len(parts)
      /\ parts'[part] = parts[part] \o parts[j] /\ parts'[j] = <<>>
      /\ \A k \in DOMAIN parts : k # part /\ k # j => parts'[k] = parts[k]
  BY <1>1, <1>2, AbsorbFacts
<1>4. Shared(Held(effective, parts', part), Group(Staged))
  BY <1>1, <1>2, PartAbsorbs
<1>5. \A k \in part .. Len(parts) : parts'[k] # <<>> => NotWorse(Mapped(parts'[k]))
  <2> TAKE k \in part .. Len(parts)
  <2>1. CASE k = part
    BY <2>1, <1>3
  <2>2. CASE k = j
    BY <2>2, <1>3
  <2>3. CASE k # part /\ k # j
    <3>1. k \in 1 .. Len(parts)
      BY <1>1
    <3>2. parts'[k] = parts[k]
      BY <2>3, <3>1, <1>1, <1>3
    <3> QED  BY <3>2, <1>1 DEF Mappable
  <2> QED  BY <2>1, <2>2, <2>3
<1>6. Mappable'
  BY <1>3, <1>5 DEF Mappable, NotWorse, Mapped, Staged
<1>7. Finished' /\ Recorded'
  BY <1>1 DEF Finished, Recorded, Built, Mapped, Staged
<1>8. MergeInv'
  BY <1>1, <1>2, <1>3, <1>4, <1>6, <1>7 DEF MergeInv
<1> QED  BY <1>8, MergingRest

LEMMA TrialIsOther == \A a \in Trials : a[3] \in Others
<1>1. \A j \in Others : Cost(j)[3] = j
  BY DEF Cost
<1>2. \A a \in Trials : \E j \in Others : a = Cost(j)
  BY DEF Trials
<1> QED  BY <1>1, <1>2

LEMMA MergeKeeps == MappingInv /\ Merge => MappingInv'
<1>0. HAVE MappingInv /\ Merge
<1>1. /\ phase = "merge" /\ part <= Len(parts) /\ parts[part] # <<>>
      /\ UNCHANGED <<circuit, stageds, phase, at, division, most, result>>
  BY <1>0 DEF Merge
<1>2. \/ effective' = Append(effective, self) /\ NextPart /\ UNCHANGED parts
      \/ \E a \in Trials :
           /\ Acceptable(a) /\ parts' = Absorb(parts, part, a[3])
           /\ self' = Built(parts'[part]) /\ UNCHANGED <<part, effective>>
  BY <1>0 DEF Merge
<1>3. CASE effective' = Append(effective, self) /\ NextPart /\ UNCHANGED parts
  BY <1>0, <1>1, <1>3, FinishPartKeeps
<1>4. CASE \E a \in Trials :
             /\ Acceptable(a) /\ parts' = Absorb(parts, part, a[3])
             /\ self' = Built(parts'[part]) /\ UNCHANGED <<part, effective>>
  <2>1. PICK a \in Trials :
          /\ Acceptable(a) /\ parts' = Absorb(parts, part, a[3])
          /\ self' = Built(parts'[part]) /\ UNCHANGED <<part, effective>>
    BY <1>4
  <2>2. PICK j \in Others : j = a[3]
    BY TrialIsOther
  <2>3. NotWorse(Mapped(parts[part] \o parts[j])) /\ parts' = Absorb(parts, part, j)
    BY <2>1, <2>2 DEF Acceptable
  <2> QED  BY <1>0, <1>1, <2>1, <2>3, AbsorbKeeps
<1> QED  BY <1>2, <1>3, <1>4

LEMMA FinishKeeps == MappingInv /\ FinishStage => MappingInv'
<1>0. HAVE MappingInv /\ FinishStage
<1>a. PICK ps : ps = LongestFirst(effective)
  OBVIOUS
<1>1. /\ phase = "merge" /\ part > Len(parts) /\ result' = Append(result, ps)
      /\ UNCHANGED <<circuit, stageds>>
  BY <1>0, <1>a DEF FinishStage
<1>2. /\ parts \in Seq(Seq(Nat)) /\ effective \in Seq(Piece) /\ part \in 1 .. Len(parts) + 1
      /\ Shared(Held(effective, parts, part), Group(Staged))
  BY <1>0, <1>1 DEF MappingInv, MergeInv
<1>3. /\ stageds \in Seq(Stage) /\ at \in 1 .. Len(stageds) /\ Len(stageds) \in Nat
  BY <1>0, <1>1, StageFacts DEF MappingInv
<1>4. Shared(EndsOf(effective), Group(Staged))
  <2>1. Len(parts) \in Nat
    BY <1>2, LenProperties
  <2>2. part \in Nat
    BY <1>2, <2>1
  <2> QED  BY <2>1, <2>2, <1>1, <1>2, AllKept
<1>5. ps \in Seq(Piece) /\ Descending(ps) /\ Shared(EndsOf(ps), Group(Staged))
  BY <1>2, <1>4, <1>a, LongestFirstFacts
<1>6. /\ result \in Seq(Seq(Piece)) /\ Len(result) = at - 1
      /\ \A k \in DOMAIN result : Shared(EndsOf(result[k]), Group(stageds[k])) /\ Descending(result[k])
  BY <1>0, <1>1 DEF MappingInv, ResultInv
<1>7. /\ result' \in Seq(Seq(Piece)) /\ Len(result') = at /\ DOMAIN result' = 1 .. at
      /\ (\A k \in 1 .. at - 1 : result'[k] = result[k]) /\ result'[at] = ps /\ DOMAIN result = 1 .. at - 1
  <2>1. DOMAIN result = 1 .. Len(result)
    BY <1>6, LenProperties
  <2>2. /\ result' \in Seq(Seq(Piece)) /\ Len(result') = Len(result) + 1
        /\ (\A k \in 1 .. Len(result) : result'[k] = result[k]) /\ result'[Len(result) + 1] = ps
    BY <1>1, <1>5, <1>6, AppendProperties
  <2>3. DOMAIN result' = 1 .. Len(result')
    BY <2>2, LenProperties
  <2> QED  BY <2>1, <2>2, <2>3, <1>3, <1>6
<1>8. ASSUME NEW k \in DOMAIN result' PROVE Shared(EndsOf(result'[k]), Group(stageds[k])) /\ Descending(result'[k])
  <2>1. CASE k = at
    BY <2>1, <1>5, <1>7 DEF Staged
  <2>2. CASE k \in 1 .. at - 1
    BY <2>2, <1>6, <1>7
  <2> QED  BY <2>1, <2>2, <1>7, <1>3
<1>9. CASE at < Len(stageds)
  <2>1. at' = at + 1 /\ phase' = "cut" /\ StartCut(stageds[at + 1])
    BY <1>0, <1>9 DEF FinishStage
  <2>2. at + 1 \in DOMAIN stageds /\ stageds[at + 1] \in Stage
    BY <1>3, <1>9, LenProperties, ElementOfSeq
  <2>3. /\ good' = <<>> /\ division' \in Nat /\ unrealized' \in Seq(Nat)
        /\ \A i, k \in DOMAIN unrealized' : i < k => unrealized'[i] < unrealized'[k]
        /\ Shared(Append(good', unrealized'), Group(stageds[at + 1]))
    BY <2>1, <2>2, CutStarts
  <2>4. Staged' = stageds[at + 1]
    BY <1>1, <2>1 DEF Staged
  <2>5. RoundInv'
    BY <2>3, <2>4 DEF RoundInv
  <2>6. ResultInv'
    BY <2>1, <1>1, <1>3, <1>7, <1>8 DEF ResultInv
  <2>7. StageInv'
    BY <1>0, <1>1, <2>1, <2>2, <2>3 DEF MappingInv, StageInv
  <2> QED  BY <2>1, <2>5, <2>6, <2>7 DEF MappingInv, MergeInv, StopsForAReason
<1>10. CASE ~(at < Len(stageds))
  <2>1. phase' = "done" /\ UNCHANGED <<at, division>>
    BY <1>0, <1>10 DEF FinishStage
  <2>2. StageInv'
    BY <1>0, <1>1, <2>1 DEF MappingInv, StageInv
  <2>3. ResultInv'
    BY <2>1, <1>1, <1>7, <1>8 DEF ResultInv
  <2> QED  BY <2>1, <2>2, <2>3 DEF MappingInv, RoundInv, MergeInv, StopsForAReason
<1> QED  BY <1>9, <1>10

(* The invariant the theorems rest on.                                     *)
LEMMA MappingAlways == Spec => []MappingInv
<1>1. MappingInv /\ [Next]_vars => MappingInv'
  <2> SUFFICES ASSUME MappingInv, [Next]_vars PROVE MappingInv'
    OBVIOUS
  <2>1. CASE UNCHANGED vars
    BY <2>1 DEF vars, merging, MappingInv, StageInv, RoundInv, MergeInv, ResultInv, StopsForAReason,
                Recorded, Mappable, Finished, Mapped, Staged, Built, NotWorse
  <2> QED  BY <2>1, SplitKeeps, RoundKeeps, StartMergingKeeps, ReadPartsKeeps, SkipKeeps, MergeKeeps, FinishKeeps
           DEF Next
<1> QED  BY <1>1, MappingInit, PTL DEF Spec

(* Rounds keep the endpoints: what fits and what is left share out the     *)
(* groups of the stage, and staged pins come first in what is left.        *)
THEOREM RoundsNeverLose == Spec => []RoundsKeepEndpoints
<1>1. MappingInv => RoundsKeepEndpoints
  <2> SUFFICES ASSUME MappingInv, phase = "cut"
               PROVE  /\ Shared(Append(good, unrealized), Group(Staged))
                      /\ \A i, k \in DOMAIN unrealized :
                           unrealized[k] <= Len(Staged.pins) /\ i < k => unrealized[i] <= Len(Staged.pins)
    BY DEF RoundsKeepEndpoints
  <2>1. /\ unrealized \in Seq(Nat) /\ Shared(Append(good, unrealized), Group(Staged))
        /\ \A i, k \in DOMAIN unrealized : i < k => unrealized[i] < unrealized[k]
    BY DEF MappingInv, RoundInv
  <2>2. PICK l \in Nat : DOMAIN unrealized = 1 .. l /\ \A i \in 1 .. l : unrealized[i] \in Nat
    BY <2>1, LenProperties, ElementOfSeq
  <2>3. PICK pins \in Nat : pins = Len(Staged.pins)
    <3>1. Staged.pins \in Seq(Nat)
      BY StageFacts DEF MappingInv, Stage
    <3> QED  BY <3>1, LenProperties
  <2>4. ASSUME NEW i \in 1 .. l, NEW k \in 1 .. l, unrealized[k] <= pins, i < k PROVE unrealized[i] <= pins
    <3>1. unrealized[i] \in Nat /\ unrealized[k] \in Nat
      BY <2>2
    <3>2. unrealized[i] < unrealized[k]
      BY <2>1, <2>2, <2>4
    <3> QED  BY <2>3, <2>4, <3>1, <3>2
  <2> QED  BY <2>1, <2>2, <2>3, <2>4
<1> QED  BY <1>1, MappingAlways, PTL

(* Merging neither loses an endpoint group nor serves one twice, and what  *)
(* it keeps maps within the limit, longest first.                          *)
THEOREM MergingNeverLoses == Spec => []MergingKeepsEndpoints
<1>1. MappingInv => MergingKeepsEndpoints
  BY DEF MappingInv, MergeInv, ResultInv, MergingKeepsEndpoints, Finished, Descending
<1> QED  BY <1>1, MappingAlways, PTL

(* The flow stops only for the reasons listed: parts found by the rounds   *)
(* are never refused.                                                      *)
THEOREM StopsOnlyForAReason == Spec => []StopsForAReason
<1>1. MappingInv => StopsForAReason
  BY DEF MappingInv
<1> QED  BY <1>1, MappingAlways, PTL

----------------------------------------------------------------------------
(* When parts are single endpoints there are as many as endpoints left.    *)
LEMMA SmallestParts ==
  MappingInv /\ Round /\ ~(division' < division) =>
    PartCount = Len(unrealized) /\ Len(unrealized) \in Nat \ {0}
<1>0. HAVE MappingInv /\ Round /\ ~(division' < division)
<1>1. division \in Nat /\ division' = Halved /\ phase = "cut" /\ unrealized # <<>> /\ unrealized \in Seq(Nat)
  BY <1>0 DEF MappingInv, StageInv, RoundInv, Round
<1>2. Halved = 1
  <2>1. division \div 2 > 1 => division \div 2 < division
    BY <1>1
  <2> QED  BY <2>1, <1>0, <1>1 DEF Halved
<1>3. PICK l \in Nat : l = Len(unrealized) /\ l # 0
  <2>1. Len(unrealized) \in Nat /\ Len(unrealized) # 0
    BY <1>1, LenProperties, EmptySeq
  <2> QED  BY <2>1
<1>4. (l + 1 - 1) \div 1 = l
  OBVIOUS
<1> QED  BY <1>2, <1>3, <1>4 DEF PartCount

LEMMA SurjectionIsInjection ==
  \A n \in Nat : \A f \in [1 .. n -> 1 .. n] :
    (\A k \in 1 .. n : \E i \in 1 .. n : f[i] = k) => \A i, k \in 1 .. n : f[i] = f[k] => i = k
<1> TAKE n \in Nat
<1> TAKE f \in [1 .. n -> 1 .. n]
<1> HAVE \A k \in 1 .. n : \E i \in 1 .. n : f[i] = k
<1>1. f \in Surjection(1 .. n, 1 .. n)
  BY DEF Surjection
<1>2. IsFiniteSet(1 .. n)
  BY UpTo
<1>3. f \in Injection(1 .. n, 1 .. n)
  BY <1>1, <1>2, FS_Surjection
<1> QED  BY <1>3 DEF Injection, IsInjective

LEMMA RoundGoesOn ==
  MappingInv /\ Round =>
    division' < division \/ Len(unrealized') < Len(unrealized) \/ phase' # "cut"
<1> SUFFICES ASSUME MappingInv, Round, ~(division' < division)
             PROVE  Len(unrealized') < Len(unrealized) \/ phase' # "cut"
  OBVIOUS
<1>1. PICK f \in Partitionings(PartCount) : \E tried, fitting, left :
        /\ Shape(unrealized, PartCount, f, tried, fitting, left)
        /\ fitting = {k \in DOMAIN tried : Mapped(tried[k]).fits}
        /\ good' = good \o Picks(tried, InOrder(fitting))
        /\ unrealized' = InOrder(left)
        /\ phase' = IF \E k \in DOMAIN tried \ fitting : Single(tried[k]) THEN "unmappable" ELSE phase
  BY RoundSteps
<1>2. PICK tried, fitting, left :
        /\ Shape(unrealized, PartCount, f, tried, fitting, left)
        /\ unrealized' = InOrder(left)
        /\ phase' = IF \E k \in DOMAIN tried \ fitting : Single(tried[k]) THEN "unmappable" ELSE phase
  BY <1>1
<1>a. PICK u : u = unrealized
  OBVIOUS
<1>b. PICK n \in Nat : n = PartCount /\ n = Len(unrealized) /\ n # 0
  BY SmallestParts
<1>3. /\ u \in Seq(Nat) /\ DOMAIN u = 1 .. n /\ f \in [1 .. n -> 1 .. n]
      /\ \A k \in 1 .. n : \E i \in 1 .. n : f[i] = k
      /\ tried = [k \in 1 .. n |-> Gather(u, f, k)] /\ fitting \subseteq 1 .. n
      /\ left = {u[i] : i \in {i \in DOMAIN u : f[i] \notin fitting}}
  <2>1. u \in Seq(Nat)
    BY <1>2, <1>a DEF Shape
  <2>2. DOMAIN u = 1 .. n
    BY <2>1, <1>a, <1>b, LenProperties
  <2>3. f \in [1 .. n -> 1 .. n] /\ \A k \in 1 .. n : \E i \in 1 .. n : f[i] = k
    BY <2>2, <1>a, <1>b DEF Partitionings
  <2> QED  BY <2>1, <2>2, <2>3, <1>2, <1>a, <1>b DEF Shape
<1>4. CASE fitting = {}
  <2>1. Places(u, f, 1) = {i \in 1 .. n : f[i] = 1} /\ 1 \in 1 .. n
    BY <1>3, <1>b DEF Places
  <2>2. PICK i \in 1 .. n : f[i] = 1
    BY <2>1, <1>3
  <2>3. \A k \in 1 .. n : f[k] = f[i] => k = i
    BY <1>3, SurjectionIsInjection
  <2>4. Places(u, f, 1) = {i}
    BY <2>1, <2>2, <2>3
  <2>5. Cardinality(Places(u, f, 1)) = 1
    BY <2>4, FS_Singleton
  <2>6. Len(Gather(u, f, 1)) = 1
    BY <2>5, <1>3, GatherFacts
  <2>7. 1 \in DOMAIN tried \ fitting /\ Single(tried[1])
    BY <2>1, <2>6, <1>3, <1>4 DEF Single
  <2> QED  BY <2>7, <1>2
<1>5. CASE fitting # {}
  <2>a. PICK D : D = {i \in DOMAIN u : f[i] \notin fitting}
    OBVIOUS
  <2>1. PICK k \in 1 .. n : k \in fitting
    BY <1>3, <1>5
  <2>2. PICK i \in 1 .. n : f[i] = k
    BY <1>3
  <2>3. i \notin D /\ D \subseteq 1 .. n
    BY <2>1, <2>2, <2>a, <1>3
  <2>4. IsFiniteSet(1 .. n) /\ Cardinality(1 .. n) = n
    BY UpTo
  <2>5. Cardinality(D) < n /\ Cardinality(D) \in Nat
    BY <2>3, <2>4, Fewer
  <2>6. left = {u[d] : d \in D} /\ D \subseteq DOMAIN u
    BY <2>a, <1>3
  <2>7. left \subseteq Nat /\ IsFiniteSet(left) /\ Cardinality(left) <= Cardinality(D)
    BY <2>6, <1>3, SomeOf
  <2>8. Len(InOrder(left)) = Cardinality(left) /\ Cardinality(left) \in Nat
    <3>1. left \subseteq Int
      BY <2>7
    <3> QED  BY <3>1, <2>7, InOrderFacts
  <2> QED  BY <2>5, <2>7, <2>8, <1>2, <1>b
<1> QED  BY <1>4, <1>5

LEMMA MergeGoesOn ==
  MappingInv /\ (SkipMerged \/ Merge) => part' > part \/ Cardinality(Merged') > Cardinality(Merged)
<1> SUFFICES ASSUME MappingInv, SkipMerged \/ Merge, ~(part' > part)
             PROVE  Cardinality(Merged') > Cardinality(Merged)
  OBVIOUS
<1>1. /\ phase = "merge" /\ part <= Len(parts) /\ parts \in Seq(Seq(Nat)) /\ part \in 1 .. Len(parts)
      /\ Len(parts) \in Nat /\ DOMAIN parts = 1 .. Len(parts)
      /\ \A k \in part .. Len(parts) : parts[k] \in Seq(Nat)
  <2>1. phase = "merge" /\ part <= Len(parts)
    BY DEF SkipMerged, Merge
  <2> QED  BY <2>1, Kept
<1>2. part' # part + 1
  BY <1>1
<1>3. parts[part] # <<>> /\ \E a \in Trials : parts' = Absorb(parts, part, a[3])
  BY <1>2 DEF SkipMerged, Merge, NextPart
<1>4. PICK j \in Others : parts' = Absorb(parts, part, j)
  BY <1>3, TrialIsOther
<1>5. j \in part + 1 .. Len(parts) /\ parts[j] # <<>> /\ j \in DOMAIN parts /\ part \in DOMAIN parts /\ j # part
  BY <1>1 DEF Others
<1>6. /\ DOMAIN parts' = DOMAIN parts /\ parts'[part] = parts[part] \o parts[j] /\ parts'[j] = <<>>
      /\ \A k \in DOMAIN parts : k # part /\ k # j => parts'[k] = parts[k]
  <2>1. LET ps == Absorb(parts, part, j)
        IN  /\ DOMAIN ps = DOMAIN parts /\ ps[part] = parts[part] \o parts[j] /\ ps[j] = <<>>
            /\ \A k \in DOMAIN parts : k # part /\ k # j => ps[k] = parts[k]
    BY <1>1, <1>5, AbsorbFacts
  <2> QED  BY <1>4, <2>1
<1>7. parts'[part] # <<>>
  <2>1. parts[part] \in Seq(Nat) /\ parts[j] \in Seq(Nat)
    BY <1>1, <1>5
  <2> QED  BY <2>1, <1>3, <1>6, Joined
<1>8. Merged' = Merged \cup {j} /\ j \notin Merged
  BY <1>3, <1>5, <1>6, <1>7 DEF Merged
<1>9. IsFiniteSet(Merged')
  <2>1. IsFiniteSet(DOMAIN parts)
    BY <1>1, UpTo
  <2>2. Merged' \subseteq DOMAIN parts
    BY <1>6 DEF Merged
  <2> QED  BY <2>1, <2>2, FS_Subset
<1>10. Merged \subseteq Merged' /\ j \in Merged'
  BY <1>8
<1> QED  BY <1>8, <1>9, <1>10, Fewer

(* No iteration of the rounds or of the merge loop leaves everything as it *)
(* was.                                                                    *)
THEOREM NoIdleRound == Spec => EverGoesOn
<1> DEFINE GoesOn ==
      /\ phase = "cut" /\ unrealized # <<>> /\ at' = at =>
           division' < division \/ Len(unrealized') < Len(unrealized) \/ phase' # "cut"
      /\ phase = "merge" /\ phase' = "merge" =>
           part' > part \/ Cardinality(Merged') > Cardinality(Merged)
<1>1. MappingInv /\ [Next]_vars => [GoesOn]_vars
  <2> SUFFICES ASSUME MappingInv, Next PROVE GoesOn
    OBVIOUS
  <2>1. CASE Split
    BY <2>1 DEF Split
  <2>2. CASE Round
    <3>1. phase = "cut"
      BY <2>2 DEF Round
    <3> QED  BY <2>2, <3>1, RoundGoesOn
  <2>3. CASE StartMerging
    BY <2>3 DEF StartMerging
  <2>4. CASE ReadParts
    <3>1. phase = "cut" /\ phase' # "cut"
      BY <2>4 DEF ReadParts, Process
    <3> QED  BY <3>1
  <2>5. CASE SkipMerged \/ Merge
    <3>1. phase = "merge"
      BY <2>5 DEF SkipMerged, Merge
    <3> QED  BY <2>5, <3>1, MergeGoesOn
  <2>6. CASE FinishStage
    <3>1. phase = "merge" /\ phase' # "merge"
      BY <2>6 DEF FinishStage
    <3> QED  BY <3>1
  <2> QED  BY <2>1, <2>2, <2>3, <2>4, <2>5, <2>6 DEF Next
<1> QED  BY <1>1, MappingAlways, PTL DEF Spec, EverGoesOn
=============================================================================
