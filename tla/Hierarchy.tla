----------------------------- MODULE Hierarchy -----------------------------
(***************************************************************************)
(* The boomerang executor's hierarchy of slots and the words it can write  *)
(* out, as the mapper and the executor share them.  Slots, words and       *)
(* limits are the code's, scaled down by constants.                        *)
(***************************************************************************)
EXTENDS AigGraph

CONSTANTS
  Levels,       \* BOOMERANG_NUM_STAGES
  Word,         \* 32: slots written out together
  MaxWriteouts  \* BOOMERANG_MAX_WRITEOUTS

(* 1 << (BOOMERANG_NUM_STAGES - h): a level has half the slots of the one  *)
(* below.                                                                  *)
Widths[h \in 0 .. Levels] == IF h = Levels THEN 1 ELSE 2 * Widths[h + 1]
Width(h) == Widths[h]
Slot(h) == 0 .. Width(h) - 1

ASSUME SizeAssumption ==
  /\ Levels \in Nat \ {0} /\ Word \in Nat \ {0} /\ MaxWriteouts \in Nat
  /\ Width(1) % Word = 0 /\ MaxWriteouts * Word = Width(0)

(* What build_one reserves before it starts: a word per memory and words   *)
(* for the pins stored more than once.                                     *)
Activation(e) ==
  CASE e.kind = "dff" -> <<Pin(e.lits[2]), 2 * e.lits[1] + (e.lits[2] % 2)>>
    [] e.kind = "port" -> <<Pin(e.lits[1]), 2 + (e.lits[1] % 2)>>
    [] OTHER -> <<Pin(e.lits[1]), 2>>

Duplicates(endpoints) ==
  LET activations == {Activation(e) : e \in {e \in ToSet(endpoints) : e.kind # "ram"}}
  IN  Cardinality(activations) - Cardinality({a[1] : a \in activations})
DuplicateWords(endpoints) == (Duplicates(endpoints) + Word - 1) \div Word

Reserved(endpoints) ==
  LET rams == Cardinality({i \in DOMAIN endpoints : endpoints[i].kind = "ram"})
  IN  [words |-> rams + DuplicateWords(endpoints), ports |-> rams * 4 + Duplicates(endpoints)]

TooManyReserved(endpoints) ==
  Reserved(endpoints).words >= MaxWriteouts \/ Reserved(endpoints).ports > MaxWriteouts

(* What a partition has to realize. *)
Goals(endpoints) ==
  FirstOccurrences(FoldLeft(LAMBDA s, e : s \o InputsOf(e), <<>>, endpoints))
=============================================================================
