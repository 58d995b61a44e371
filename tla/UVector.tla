------------------------------ MODULE UVector ------------------------------
(***************************************************************************)
(* What a UVec promises: one vector, seen alike from every device.         *)
(*                                                                         *)
(* Its owner changes it only while nobody reads it; a reader is handed a   *)
(* slice that agrees with the vector wherever the vector's elements are    *)
(* specified, and keeps that very slice until it drops it.  There are no   *)
(* devices, buffers, validity flags or locks here.                         *)
(***************************************************************************)
EXTENDS Integers

CONSTANTS
  Thread,  \* threads that share the vector by reference
  Elem,    \* element values
  Junk,    \* an element the vector's history leaves unspecified
  NotReading

VARIABLES
  written,  \* the elements, a function over 1 .. len
  slice     \* slice[t]: what reader t sees, NotReading when it reads nothing

vars == <<written, slice>>

Agrees(s, w) ==
  /\ DOMAIN s = DOMAIN w
  /\ \A i \in DOMAIN w : w[i] # Junk => s[i] = w[i]

Init ==
  /\ written = [i \in {} |-> Junk]
  /\ slice = [t \in Thread |-> NotReading]

(* Any change of the vector by its owner. *)
Mutate ==
  /\ \A t \in Thread : slice[t] = NotReading
  /\ \A i \in DOMAIN written' : written'[i] \in Elem
  /\ UNCHANGED slice

Obtain(t) ==
  /\ slice[t] = NotReading
  /\ slice'[t] # NotReading /\ Agrees(slice'[t], written)
  /\ \A u \in Thread \ {t} : slice'[u] = slice[u]
  /\ UNCHANGED written

Release(t) ==
  /\ slice' = [slice EXCEPT ![t] = NotReading]
  /\ UNCHANGED written

Next == Mutate \/ \E t \in Thread : Obtain(t) \/ Release(t)

Spec == Init /\ [][Next]_vars
============================================================================
