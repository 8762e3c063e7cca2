-------------------------- MODULE MCNetworkChannel --------------------------
(***************************************************************************)
(* Model checking NetworkChannel with files of up to three bytes in blocks *)
(* of two: one block, two, and a short last one; two protocol objects (one *)
(* open, the other forgotten or for a file command) and two failing reads. *)
(***************************************************************************)
EXTENDS NetworkChannel, TLC
=============================================================================
