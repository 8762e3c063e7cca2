---------------------------- MODULE MCFujiSlots ----------------------------
(***************************************************************************)
(* Model checking FujiSlots with two host slots, two disks, one remote     *)
(* host and two file system objects: one is deleted while the other is in  *)
(* use, and a slot can be moved from one host to the other.                *)
(***************************************************************************)
EXTENDS FujiSlots, TLC
=============================================================================
