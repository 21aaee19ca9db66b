------------------------------ MODULE MCVerify ------------------------------
(***************************************************************************)
(* Small instances of Verify for TLC: two places, so that one instance can *)
(* be swapped, die or be stocked beside another.                           *)
(***************************************************************************)
EXTENDS Verify
=============================================================================
