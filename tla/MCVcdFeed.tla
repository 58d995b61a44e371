----------------------------- MODULE MCVcdFeed -----------------------------
(***************************************************************************)
(* A testbench for VcdFeed: a clock both of whose edges are used, a data   *)
(* pin, a register on each edge, and outputs that show a register, the     *)
(* data and the clock.                                                     *)
(***************************************************************************)
EXTENDS VcdFeed

CONSTANTS clk, d, rise, fall, x, y

MCWatched == {<<clk, "posedge">>, <<clk, "negedge">>}

MCLatch(q, ins, e) ==
  {r \in {rise, fall} :
     LET edge == <<clk, IF r = rise THEN "posedge" ELSE "negedge">>
     IN  IF edge \in e
         THEN IF r = rise THEN d \in ins ELSE rise \in q
         ELSE r \in q}

MCOut(q, ins) ==
  {o \in {x, y} :
     IF o = x THEN (fall \in q) # (d \in ins) ELSE (clk \in ins) /\ rise \in q}
============================================================================
