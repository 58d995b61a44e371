------------------------------- MODULE MCUVec -------------------------------
(***************************************************************************)
(* Small instances of UVec: two or three devices, one or two readers.      *)
(***************************************************************************)
EXTENDS UVec

CONSTANTS r1, r2
============================================================================
