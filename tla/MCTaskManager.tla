--------------------------- MODULE MCTaskManager ---------------------------
(***************************************************************************)
(* Model checking TaskManager: 2-bit task ids (MaxTid = 3) so that the id  *)
(* counter wraps within a few submits, and one task object more than ids,  *)
(* so that a submit can meet a full map.                                   *)
(***************************************************************************)
EXTENDS TaskManager
=============================================================================
