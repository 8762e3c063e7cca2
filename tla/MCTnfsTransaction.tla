------------------------- MODULE MCTnfsTransaction -------------------------
(***************************************************************************)
(* Model checking TnfsTransaction.  Two calls are enough for a mount and a *)
(* command, or a command that finds its session gone and the one after it; *)
(* two attempts give every loss a retry; three sessions let a recovery     *)
(* fail, succeed, and meet an old server.                                  *)
(***************************************************************************)
EXTENDS TnfsTransaction
=============================================================================
