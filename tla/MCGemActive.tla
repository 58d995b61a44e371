---------------------------- MODULE MCGemActive ----------------------------
(***************************************************************************)
(* A small circuit for GemActive: two blocks, two major stages.            *)
(*   slot <<0, b1>>  reg   reads in1, in2; q is in2 latched when in1, t is *)
(*                         their exclusive or                              *)
(*   slot <<0, b2>>  mem   reads in1, in2; r is the read port of a RAM     *)
(*   slot <<1, b1>>  out   reads r staged and y of the previous cycle      *)
(*   slot <<1, b2>>  par   reads q staged and z of the previous cycle      *)
(***************************************************************************)
EXTENDS GemActive, TLC

CONSTANTS b1, b2, in1, in2, reg, mem, out, par, q, t, r, z, y

MCScript == (<<0, b1>> :> <<reg>>) @@ (<<0, b2>> :> <<mem>>)
            @@ (<<1, b1>> :> <<out>>) @@ (<<1, b2>> :> <<par>>)

(* flatten.rs puts more than one partition on a block when a stage has     *)
(* more partitions than the GPU has blocks; a block left without one runs   *)
(* a dummy script.                                                         *)
MCSharedScript == (<<0, b1>> :> <<reg, mem>>) @@ (<<0, b2>> :> <<>>)
                  @@ (<<1, b1>> :> <<out, par>>) @@ (<<1, b2>> :> <<>>)

From(x) == [bit |-> x, staged |-> FALSE]
Staged(x) == [bit |-> x, staged |-> TRUE]

MCReads == (reg :> <<From(in1), From(in2)>>)
           @@ (mem :> <<From(in1), From(in2)>>)
           @@ (out :> <<Staged(r), From(y)>>)
           @@ (par :> <<Staged(q), From(z)>>)
MCOuts  == (reg :> {q, t}) @@ (mem :> {r}) @@ (out :> {z}) @@ (par :> {y})
MCSrams == (reg :> {}) @@ (mem :> {r}) @@ (out :> {}) @@ (par :> {})
MCNoSrams == [p \in {reg, mem, out, par} |-> {}]

MCEval(x, in) ==
  CASE x = q -> in[2]
    [] x = t -> in[1] # in[2]
    [] x = z -> in[1] /\ ~in[2]
    [] x = y -> in[1] = in[2]
    [] x = r -> in[1] /\ in[2]

MCClkEn(x, in) == x = q => in[1]

MCRAddr(x, in) == One(in[1])
MCWAddr(x, in) == 1
MCWEn(x, in)   == in[2]
MCWData(x, in) == in[1]

(* An ideal signature: different inputs never collide. *)
MCIdealSig(in)  == in
MCZeroSig == <<>>
============================================================================
