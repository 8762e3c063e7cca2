------------------------- MODULE MCTnfsLateReplies -------------------------
(***************************************************************************)
(* Model checking TnfsTransaction with replies that outlive their socket   *)
(* and with TRY_AGAIN.  Two attempts, so that a datagram which overwrote   *)
(* the packet is sent by the second one; MaxDatagrams bounds how many are  *)
(* under way at once, enough for the requests and replies of both calls.   *)
(***************************************************************************)
EXTENDS TnfsTransaction

CONSTANT MaxDatagrams

FewDatagrams == Cardinality(net) + Cardinality(late) <= MaxDatagrams
=============================================================================
