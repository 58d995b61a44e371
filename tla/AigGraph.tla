----------------------------- MODULE AigGraph -----------------------------
(***************************************************************************)
(* And-inverter graphs, as the mapping flow reads them.  A graph is a      *)
(* sequence of drivers; pin i is driven by aig[i], pin 0 is constant 0.    *)
(* A literal 2p + 1 is the negation of pin p.  An endpoint is a record     *)
(*   [kind |-> "port" | "dff" | "ram" | "staged", lits |-> <<literals>>]:  *)
(* a port or a staged pin has its literal, a register its enable and data. *)
(***************************************************************************)
EXTENDS Integers, Sequences, SequencesExt, FiniteSetsExt

Free == -1             \* usize::MAX: no pin
Pin(l) == l \div 2
Inverted(l) == l % 2 = 1
Flip(l) == IF Inverted(l) THEN l - 1 ELSE l + 1

AndGate(a, b) == [kind |-> "and", a |-> a, b |-> b]
Source(kind) == [kind |-> kind, a |-> 0, b |-> 0]

IsAnd(aig, p) == p \in DOMAIN aig /\ aig[p].kind = "and"
Fanins(aig, p) == IF IsAnd(aig, p) THEN {Pin(aig[p].a), Pin(aig[p].b)} \ {0} ELSE {}

(* Of a sequence, what is in a set. *)
Kept(s, S) == FoldLeft(LAMBDA kept, x : IF x \in S THEN Append(kept, x) ELSE kept, <<>>, s)

(* The pins an endpoint needs, constants left out. *)
InputsOf(endpoint) == Kept([i \in DOMAIN endpoint.lits |-> Pin(endpoint.lits[i])], Nat \ {0})
InputSet(endpoint) == {Pin(endpoint.lits[i]) : i \in DOMAIN endpoint.lits} \ {0}

(* An IndexSet keeps the order of insertion. *)
FirstOccurrences(s) == FoldLeft(LAMBDA u, x : IF Contains(u, x) THEN u ELSE Append(u, x), <<>>, s)

(* The value of each pin, and of a literal, when the sources of ones are 1.*)
PinValues(aig, ones) ==
  LET value[p \in 0 .. Len(aig)] ==
        IF IsAnd(aig, p)
        THEN /\ value[Pin(aig[p].a)] # Inverted(aig[p].a)
             /\ value[Pin(aig[p].b)] # Inverted(aig[p].b)
        ELSE p \in ones
  IN  value

PinValue(aig, ones, p) == PinValues(aig, ones)[p]
LitValue(aig, ones, l) == PinValue(aig, ones, Pin(l)) # Inverted(l)

(* A gate is made after the gates it uses, and so has a higher pin.        *)
Acyclic(aig) ==
  \A p \in DOMAIN aig : IsAnd(aig, p) => Pin(aig[p].a) < p /\ Pin(aig[p].b) < p

(* A gate over a constant is not made: it is the constant or its other     *)
(* input.                                                                  *)
Simplified(aig) ==
  \A p \in DOMAIN aig : IsAnd(aig, p) => Pin(aig[p].a) # 0 /\ Pin(aig[p].b) # 0
=============================================================================
