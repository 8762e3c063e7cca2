----------------------------- MODULE MCTnfsFile -----------------------------
(***************************************************************************)
(* Model checking TnfsFile: a file of five different bytes and a cache of  *)
(* three, so that reads start inside, at the edge of and outside the       *)
(* cache, cross it, and meet a short last fill.                            *)
(***************************************************************************)
EXTENDS TnfsFile

FiveBytes == <<1, 2, 3, 4, 5>>
OneBuffer == {<<9, 8>>}
Forward == {0, 1, 2, 4}
AnyWay == {-1, 2}
ThreeBytes == <<1, 2, 3>>
OneByte == {<<9>>}
=============================================================================
