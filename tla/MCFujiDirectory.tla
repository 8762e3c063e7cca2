-------------------------- MODULE MCFujiDirectory --------------------------
(***************************************************************************)
(* Model checking FujiDirectory: an empty directory and one of five        *)
(* entries, server pages of one to three entries, blocks of up to four     *)
(* entries, the end mark counted as one: the bound of the loop is scaled   *)
(* down with them and is five, so that the fullest blocks have what 255    *)
(* entries are to a bound of 256.  Two handles, of which one may leak.     *)
(***************************************************************************)
EXTENDS FujiDirectory, TLC

Sizes == [d \in Dirs |-> IF d = "empty" THEN 0 ELSE 5]
MCBytes == [p \in Positions |-> IF p = 1 THEN 8 ELSE 3]
MCCharge == [p \in Positions |-> IF p = 1 THEN 9 ELSE 3]
=============================================================================
