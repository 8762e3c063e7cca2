------------------------------ MODULE FileSpec ------------------------------
(***************************************************************************)
(* What an open file promises its user (FileSystem/fnFile.h): one content, *)
(* one position, and operations that are atomic to the caller.  A failed   *)
(* operation changes neither, except that a failed read may already have   *)
(* delivered, and moved past, the first part of the data.                  *)
(*                                                                         *)
(* Positions count from 0; content[p + 1] is the byte at position p.       *)
(***************************************************************************)
EXTENDS Integers, Sequences

CONSTANTS
  Content0,   \* the file when it is opened
  MaxRead,    \* the largest read
  Buffers,    \* what may be written
  Offsets     \* seek offsets

VARIABLES content, pos, result

fvars == <<content, pos, result>>

\* The n bytes at position p, fewer at the end of the file.
At(c, p, n) == SubSeq(c, p + 1, p + n)
Clip(c, p, n) == IF p >= Len(c) THEN 0 ELSE IF p + n > Len(c) THEN Len(c) - p ELSE n

\* c with b written over it at position p; a gap before p reads as 0.
Patch(c, p, b) ==
  [i \in 1 .. (IF p + Len(b) > Len(c) THEN p + Len(b) ELSE Len(c)) |->
     IF i > p /\ i <= p + Len(b) THEN b[i - p] ELSE IF i <= Len(c) THEN c[i] ELSE 0]

Target(off, whence) ==
  CASE whence = "SET" -> off
    [] whence = "CUR" -> pos + off
    [] whence = "END" -> Len(content) + off

Init == content = Content0 /\ pos = 0 /\ result = [op |-> "open", res |-> "OK"]

Read(n) ==
  LET k == Clip(content, pos, n)
  IN  /\ result' = [op |-> "read", res |-> IF k = n THEN "OK" ELSE "EOF",
                    start |-> pos, n |-> n, out |-> At(content, pos, k)]
      /\ pos' = pos + k
      /\ UNCHANGED content

ReadFails(n) ==
  \E k \in 0 .. n :
    /\ k <= Clip(content, pos, n)
    /\ result' = [op |-> "read", res |-> "FAIL", start |-> pos, n |-> n,
                  out |-> At(content, pos, k)]
    /\ pos' = pos + k
    /\ UNCHANGED content

\* The first k bytes of b are written.
Write(b, k) ==
  /\ content' = Patch(content, pos, SubSeq(b, 1, k))
  /\ pos' = pos + k
  /\ result' = [op |-> "write", res |-> "OK", n |-> k]

WriteFails ==
  /\ result' = [op |-> "write", res |-> "FAIL"]
  /\ UNCHANGED <<content, pos>>

Seek(off, whence) ==
  /\ Target(off, whence) >= 0
  /\ pos' = Target(off, whence)
  /\ result' = [op |-> "seek", res |-> "OK", start |-> pos, off |-> off, whence |-> whence]
  /\ UNCHANGED content

SeekFails ==
  /\ result' = [op |-> "seek", res |-> "FAIL"]
  /\ UNCHANGED <<content, pos>>

Next ==
  \/ \E n \in 1 .. MaxRead : Read(n) \/ ReadFails(n)
  \/ \E b \in Buffers : \E k \in 1 .. Len(b) : Write(b, k)
  \/ \E off \in Offsets, whence \in {"SET", "CUR", "END"} : Seek(off, whence)
  \/ WriteFails
  \/ SeekFails

Spec == Init /\ [][Next]_fvars
=============================================================================
