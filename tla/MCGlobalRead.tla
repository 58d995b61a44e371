---------------------------- MODULE MCGlobalRead ----------------------------
(***************************************************************************)
(* Choices of bits from three words of the input state and two of the      *)
(* output state, for two threads of three bits: few and many bits of a     *)
(* word, neighbours or not.                                                *)
(***************************************************************************)
EXTENDS GlobalRead

MCIndex == {0, 1, 2, TypeBit, TypeBit + 1}
MCBits == {{0}, {0, 2}, {0, 1, 2}}
MCWanted == UNION {[S -> MCBits] : S \in SUBSET MCIndex}
============================================================================
