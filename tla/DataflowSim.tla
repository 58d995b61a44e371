---------------------------- MODULE DataflowSim ----------------------------
(***************************************************************************)
(* What a cycle-accurate simulation of the script promises: every          *)
(* partition fires exactly once in every cycle, after everything it reads  *)
(* is final, and writes what its logic computes.  There are no blocks, no  *)
(* barriers, no signatures and no skipping here.  The profile counters     *)
(* describe the circuit's activity, whatever was executed to find it.      *)
(***************************************************************************)
EXTENDS GemScript

CONSTANT EnableProfile

VARIABLES
  states,    \* states[c]: the state before cycle c, states[c + 1] after it
  ram,       \* contents of each SRAM
  done,      \* the <<cycle, partition>> pairs that have fired
  activity   \* per slot: cycles, input changes, output changes, toggled bits

vars == <<states, ram, done, activity>>

Cycle == 0 .. NumCycles - 1

NoActivity == [cycles |-> 0, inputChanged |-> 0, outputChanged |-> 0, toggles |-> 0]

(* Outputs start cleared; the input bits of every cycle are the stimulus.  *)
Init ==
  /\ \E stimulus \in [0 .. NumCycles -> SUBSET InputBit] :
       states = [c \in 0 .. NumCycles |-> [x \in Bit |-> x \in stimulus[c]]]
  /\ ram = [x \in SramBit |-> [a \in Addr |-> FALSE]]
  /\ done = {}
  /\ activity = [k \in Slot |-> NoActivity]

InputsFinal(c, p) ==
  /\ \A d \in 0 .. c - 1, q \in Part : <<d, q>> \in done
  /\ \A n \in 1 .. Len(Reads[p]), q \in Part :
       Reads[p][n].staged /\ Reads[p][n].bit \in Outs[q] => <<c, q>> \in done

InputsDiffer(c, p) ==
  /\ c > 0
  /\ Gather(p, states[c], states[c + 1]) # Gather(p, states[c - 1], states[c])

Observe(c, p, new) ==
  activity' =
    [activity EXCEPT ![SlotOf(p)] =
       LET toggled == Toggled(p, states[c], new)
       IN  [cycles        |-> @.cycles + 1,
            inputChanged  |-> @.inputChanged + One(InputsDiffer(c, p)),
            outputChanged |-> @.outputChanged + One(toggled # 0),
            toggles       |-> @.toggles + toggled]]

Fire(c, p) ==
  /\ <<c, p>> \notin done
  /\ InputsFinal(c, p)
  /\ LET in  == Gather(p, states[c], states[c + 1])
         new == Evaluate(p, in, states[c], ram)
     IN  /\ states' = [states EXCEPT ![c + 1] = Overwrite(@, p, new)]
         /\ ram' = CommitRam(p, in, ram)
         /\ IF EnableProfile /\ c >= Warmup
            THEN Observe(c, p, new)
            ELSE UNCHANGED activity
  /\ done' = done \cup {<<c, p>>}

Next == \E c \in Cycle, p \in Part : Fire(c, p)

Spec == Init /\ [][Next]_vars
============================================================================
