--------------------------- MODULE DirectorySpec ---------------------------
(***************************************************************************)
(* What the computer may count on when it pages through a directory with   *)
(* the FUJI device's commands: a cursor in a sequence of entries, and      *)
(* pages of consecutive entries that start at it.                          *)
(*                                                                         *)
(* A call to the server may fail; the cursor is then unknown until the     *)
(* directory is opened or positioned again.  A failure looks like the end  *)
(* of the directory, but what the page holds is exact all the same.        *)
(***************************************************************************)
EXTENDS Integers, Sequences

CONSTANTS Dirs, Size   \* directories, and the number of entries of each

VARIABLES
  cursor,   \* the directory and the position, or Lost
  page      \* the last page: its entries, their number (the end mark counted
            \* as one), the first position and whether the end mark is there

vars == <<cursor, page>>

Lost == [dir |-> "lost"]
NoPage == [list |-> <<>>, count |-> 0, first |-> {}, end |-> FALSE]

Init == cursor = Lost /\ page = NoPage

\* Opening, positioning, closing, and their failures.
Anywhere ==
  \/ cursor' = Lost
  \/ \E d \in Dirs : \E p \in 0 .. Size[d] : cursor' = [dir |-> d, pos |-> p]

Move == Anywhere /\ page' = NoPage

\* The entries from p on, n of them.
Entries(p, n) == [i \in 1 .. n |-> p + i - 1]

Page ==
  /\ cursor # Lost
  /\ \E n \in 0 .. Size[cursor.dir] - cursor.pos, end \in BOOLEAN :
       /\ n > 0 \/ end
       /\ page' = [list |-> Entries(cursor.pos, n),
                   count |-> IF end THEN n + 1 ELSE n,
                   first |-> page'.first, end |-> end]
       /\ page'.first \subseteq {cursor.pos}
       /\ \/ /\ cursor' = [cursor EXCEPT !.pos = @ + n]
             /\ end => cursor'.pos = Size[cursor.dir]
          \/ cursor' = Lost

\* Nothing is promised from an unknown position.
PageLost == cursor = Lost /\ Anywhere

Next == Move \/ Page \/ PageLost

Spec == Init /\ [][Next]_vars
=============================================================================
