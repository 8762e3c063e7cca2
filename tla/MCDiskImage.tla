---------------------------- MODULE MCDiskImage ----------------------------
(***************************************************************************)
(* Model checking DiskImage: ATR images with short and long sectors, one   *)
(* with a high score sector, XEX files of exactly one piece and of two and *)
(* a rest; the sectors at every boundary of the two layouts.               *)
(***************************************************************************)
EXTENDS DiskImage, TLC

Atr(ss, n, hs) ==
  [type |-> "ATR", sector_size |-> ss, sectors |-> n, size |-> create_file_size(ss, n),
   high_score |-> hs]
Xex(size) ==
  [type |-> "XEX", sector_size |-> 256, sectors |-> 0, size |-> size, high_score |-> FALSE]

MCImages ==
  {Atr(128, 5, FALSE), Atr(256, 6, FALSE), Atr(256, 6, TRUE), Xex(253), Xex(600)}
MCSectors == {0, 1, 3, 4, 5, 6, 7, 360, 368, 369, 370, 371, 372, 721}
=============================================================================
