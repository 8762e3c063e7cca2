--------------------------- MODULE MCTnfsHandles ---------------------------
(***************************************************************************)
(* Model checking TnfsHandles: two files and three slots, so that both are *)
(* open while one recovers, or an entry left behind by an unanswered close *)
(* fills the table; two expiries let a session be lost during a recovery.  *)
(* A cache of one unit and reads of two let a part of a read come from the *)
(* cache before the session is found lost; with two ids the server gives   *)
(* an id of the lost session to the other file.  Files are opened for      *)
(* writing; a recovery reopens them for reading, so that both modes occur. *)
(***************************************************************************)
EXTENDS TnfsHandles, TLC

Symmetry == Permutations(Files)
=============================================================================
