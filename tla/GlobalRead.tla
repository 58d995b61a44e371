----------------------------- MODULE GlobalRead -----------------------------
(***************************************************************************)
(* How a partition's inputs get from global memory into a block's local    *)
(* state.  flatten.rs deals the state words a partition reads, with the    *)
(* bits it wants of each, out to the threads in rounds; a thread packs the *)
(* bits of its rounds into one local word.  The kernel and the CPU twin in *)
(* cuda_test.rs carry the rounds out.  A word index has a type bit on top: *)
(* set for a value passed on within the cycle, which is in the output      *)
(* state, clear for one from the input state.                              *)
(***************************************************************************)
EXTENDS Integers, Sequences, FiniteSets

CONSTANTS
  W,          \* bits in a word, the type bit included
  Threads,    \* NUM_THREADS_V1
  StateSize,  \* words in a state
  Wanted      \* the functions from word indices to sets of bits to start from

TypeBit == 2^(W - 1)
Thread == 0 .. Threads - 1
Bit == 0 .. W - 1

ASSUME SizeAssumption ==
  W \in Nat \ {0} /\ Threads \in Nat \ {0} /\ StateSize \in Nat /\ TypeBit \in Nat

(* A word is read for some of its bits.                                    *)
ASSUME WantedAssumption ==
  \A f \in Wanted :
    /\ IsFiniteSet(DOMAIN f) /\ DOMAIN f \subseteq 0 .. 2 * TypeBit - 1
    /\ f \in [DOMAIN f -> (SUBSET Bit) \ {{}}]

VARIABLES
  taken,   \* inputs_taken: word index to the set of its bits that are read
  chunk,   \* chunk_size
  left,    \* the words this attempt has not dealt yet
  thread,  \* round_map_j
  rounds,  \* rounds_idx_masks: for each thread its <<index, bits>> in order
  local,   \* outputpos2localpos: for each thread its <<<<index, bit>>, local bit>>
  gathered, \* by machine and thread: the <<address, bit>> at each local bit
  next,    \* the round the threads carry out
  phase

dealing == <<chunk, left, thread, rounds>>
vars == <<taken, dealing, local, gathered, next, phase>>

Machine == {"cpu", "gpu"}
Nothing == [t \in Thread |-> <<>>]
Cleared == [b \in Bit |-> <<>>]

Init ==
  /\ taken \in Wanted
  /\ chunk = Cardinality(DOMAIN taken)
  /\ left = DOMAIN taken /\ thread = 0 /\ rounds = Nothing
  /\ local = [t \in Thread |-> {}]
  /\ gathered = [m \in Machine |-> [t \in Thread |-> Cleared]] /\ next = 1
  /\ phase = "deal"

----------------------------------------------------------------------------
(* The words by index are cut into slices of chunk_size; the slices are    *)
(* dealt out one after the other, the one with the most bits first.        *)
Rank(idx) == Cardinality({i \in DOMAIN taken : i < idx})
SliceOf(idx) == {i \in DOMAIN taken : Rank(i) \div chunk = Rank(idx) \div chunk}

BitsAt(S) == UNION {{i} \X taken[i] : i \in S}
SliceWeight(idx) == Cardinality(BitsAt(SliceOf(idx)))

Precedes(i, j) ==
  \/ SliceWeight(i) > SliceWeight(j)
  \/ SliceWeight(i) = SliceWeight(j) /\ i < j
First(idx) == \A i \in left \ {idx} : Precedes(idx, i)

(* The bits a thread gathers, as <<round, bit>>, must fit into its word.   *)
BitsOf(v) == UNION {{r} \X v[r][2] : r \in DOMAIN v}
Weight(t) == Cardinality(BitsOf(rounds[t]))
FitsAbove(t, bits) == Weight(t) + Cardinality(bits) <= W + 1
FitsBelow(t, bits) == Weight(t) + Cardinality(bits) < W
Fits(t, bits) == Weight(t) + Cardinality(bits) <= W
Around(t, u) == (u - t) % Threads

(* A word goes to the first thread from the current one on, around the     *)
(* circle, that has room for it; the next search starts behind that one.   *)
Deal ==
  /\ phase = "deal" /\ chunk >= 1
  /\ \E idx \in left, u \in Thread :
       /\ First(idx) /\ Fits(u, taken[idx])
       /\ \A v \in Thread : Fits(v, taken[idx]) => Around(thread, u) <= Around(thread, v)
       /\ rounds' = [rounds EXCEPT ![u] = Append(@, <<idx, taken[idx]>>)]
       /\ thread' = (u + 1) % Threads
       /\ left' = left \ {idx}
  /\ UNCHANGED <<taken, chunk, local, gathered, next, phase>>

(* A failed attempt is repeated with chunks of half the size, down to one. *)
Retry ==
  /\ phase = "deal" /\ chunk >= 1
  /\ \E idx \in left : First(idx) /\ \A u \in Thread : ~Fits(u, taken[idx])
  /\ chunk' = chunk \div 2
  /\ left' = DOMAIN taken /\ thread' = 0 /\ rounds' = Nothing
  /\ UNCHANGED <<taken, local, gathered, next, phase>>

(* "cannot map global init to any multiples of rounds."                    *)
Panic ==
  /\ phase = "deal" /\ chunk = 0
  /\ phase' = "panic"
  /\ UNCHANGED <<taken, dealing, local, gathered, next>>

(* The local positions as build_script numbers them from bit 0: last round *)
(* first, highest bit first.                                               *)
After(x, y) == x[1] > y[1] \/ (x[1] = y[1] /\ x[2] > y[2])
Numbered(v) ==
  {<<<<v[x[1]][1], x[2]>>, Cardinality({y \in BitsOf(v) : After(y, x)})>> : x \in BitsOf(v)}

Accept ==
  /\ phase = "deal" /\ chunk >= 1 /\ left = {}
  /\ local' = [t \in Thread |-> Numbered(rounds[t])]
  /\ phase' = "gather"
  /\ UNCHANGED <<taken, dealing, gathered, next>>

----------------------------------------------------------------------------
(* Where a word index leads.  Addresses count words from the start of the  *)
(* input state; the output state follows it directly.                      *)
InputBase == 0
OutputBase == StateSize

Staged(idx) == idx >= TypeBit

(* "0: ... offset from previous iteration ... 1: ... from current           *)
(* iteration" (flatten.rs:67-68).                                          *)
Meant(idx) == IF Staged(idx) THEN OutputBase + idx - TypeBit ELSE InputBase + idx

KeepsTypeBit(idx) == IF Staged(idx) THEN OutputBase + idx ELSE InputBase + idx

(* The CPU twin clears the type bit.                                       *)
CpuAddress(idx) ==
  IF Staged(idx) THEN OutputBase + (idx - TypeBit) ELSE InputBase + idx

(* The kernel moves the array instead: by 1 << 31, which is an int and so  *)
(* the most negative one, subtracted from a pointer wider than a word.     *)
IntShifted == -TypeBit
GpuAddress(idx) ==
  IF Staged(idx) THEN (OutputBase - IntShifted) + idx ELSE InputBase + idx

Address(m, idx) == IF m = "cpu" THEN CpuAddress(idx) ELSE GpuAddress(idx)

(* A round: each thread loads its word and shifts its wanted bits in, the  *)
(* lowest first, so that the highest ends up in bit 0; what leaves the     *)
(* local word on top is lost.                                              *)
NthHighest(bits, n) == CHOOSE k \in bits : Cardinality({j \in bits : j > k}) = n
NthLowest(bits, n) == CHOOSE k \in bits : Cardinality({j \in bits : j < k}) = n

HighestFirst(m, packed, en) ==
  [b \in Bit |-> IF b < Cardinality(en[2]) THEN <<Address(m, en[1]), NthLowest(en[2], b)>>
                 ELSE packed[b - Cardinality(en[2])]]
ShiftedIn(m, packed, en) ==
  [b \in Bit |-> IF b < Cardinality(en[2]) THEN <<Address(m, en[1]), NthHighest(en[2], b)>>
                 ELSE packed[b - Cardinality(en[2])]]

MoreRounds == \E t \in Thread : next <= Len(rounds[t])

GatherRound ==
  /\ phase = "gather" /\ MoreRounds
  /\ gathered' = [m \in Machine |-> [t \in Thread |->
                    IF next <= Len(rounds[t])
                    THEN ShiftedIn(m, gathered[m][t], rounds[t][next])
                    ELSE gathered[m][t]]]
  /\ next' = next + 1
  /\ UNCHANGED <<taken, dealing, local, phase>>

Finish ==
  /\ phase = "gather" /\ ~MoreRounds
  /\ phase' = "done"
  /\ UNCHANGED <<taken, dealing, local, gathered, next>>

Done == phase \in {"done", "panic"} /\ UNCHANGED vars

Next == Deal \/ Retry \/ Panic \/ Accept \/ GatherRound \/ Finish \/ Done

Spec == Init /\ [][Next]_vars

----------------------------------------------------------------------------
BitsTaken == BitsAt(DOMAIN taken)

Places(x) == {p \in Thread \X Bit : <<x, p[2]>> \in local[p[1]]}

(* Every wanted bit gets one local place, and no place gets two: neither   *)
(* the rounds of a failed attempt survive nor is a last, short slice lost, *)
(* and no thread is given more bits than its local word has                *)
(* (assert!(bit_id <= 32)).                                                *)
EveryBitOnce ==
  phase \in {"gather", "done"} =>
    /\ \A x \in BitsTaken : \E p \in Thread \X Bit : Places(x) = {p}
    /\ \A x, y \in BitsTaken : x # y => Places(x) \cap Places(y) = {}
    /\ \A t \in Thread : \A l \in local[t] : l[1] \in BitsTaken /\ l[2] \in Bit

(* When the rounds are over, the bit that the script takes for an input is *)
(* that input: the two ends count rounds and bits from opposite sides.     *)
Arrives(m, t, l) == gathered[m][t][l[2]] = <<Meant(l[1][1]), l[1][2]>>

InputsArrive ==
  phase = "done" =>
    \A t \in Thread : \A l \in local[t] :
      /\ Arrives("cpu", t, l)
      /\ ~Staged(l[1][1]) => Arrives("gpu", t, l)

(* The same for values passed on within the cycle, on the GPU.             *)
StagedArriveOnGpu ==
  phase = "done" =>
    \A t \in Thread : \A l \in local[t] : Staged(l[1][1]) => Arrives("gpu", t, l)

(* The dealer gives up only when a partition reads nothing at all or more  *)
(* than half of the bits that the threads can hold: then the attempt with  *)
(* single words, the heaviest first, has failed.                           *)
PanicsWhenHalfFull ==
  phase = "panic" => DOMAIN taken = {} \/ 2 * Cardinality(BitsTaken) > Threads * W
============================================================================
