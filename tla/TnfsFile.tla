------------------------------ MODULE TnfsFile ------------------------------
(***************************************************************************)
(* One open TNFS file (lib/TNFSlib/tnfslib.cpp: tnfs_read, tnfs_write,     *)
(* tnfs_lseek and the read-ahead cache in tnfsFileHandleInfo).             *)
(*                                                                         *)
(* Two positions are kept: file_position is where the client believes the  *)
(* server's file offset is (after whatever was read ahead), cached_pos is  *)
(* where the caller is.  Every transaction with the server is one step.    *)
(*                                                                         *)
(* The server (external) keeps the content and the offset of the handle.   *)
(* A transaction may fail under two faults: "unsent", where the server     *)
(* never saw the request, and "unanswered", where it executed it and all   *)
(* replies were lost.                                                      *)
(***************************************************************************)
EXTENDS Integers, Sequences

CONSTANTS
  Content0, MaxRead, Buffers, Offsets,
  CacheSize,   \* TNFS_FILE_CACHE_SIZE
  Whences,     \* the kinds of seek the caller uses
  MaxLen,      \* bound: length of the file
  Faults       \* subset of {"unsent", "unanswered"}

ASSUME FileAssumption ==
  /\ Content0 \in Seq(Int)
  /\ MaxRead \in Nat \ {0} /\ CacheSize \in Nat \ {0} /\ MaxLen \in Nat
  /\ Buffers \subseteq Seq(Int) \ {<<>>} /\ Offsets \subseteq Int
  /\ Whences \subseteq {"SET", "CUR", "END"}
  /\ Faults \subseteq {"unsent", "unanswered"}

VARIABLES
  content, spos,                       \* server: the file and the handle's offset
  file_position, file_size, cached_pos,
  cache_start, cache_available, cache, \* cache holds what was read ahead
  op,                                  \* the call in progress
  result                               \* what the last call returned

server == <<content, spos>>
cachev == <<cache_start, cache_available, cache>>
client == <<file_position, file_size, cached_pos, cachev>>
vars == <<server, client, op, result>>

Idle == [kind |-> "none"]
NoResult == [op |-> "open", res |-> "OK"]

\* tnfs_open, for a file that exists and is opened at its start.
Init ==
  /\ content = Content0 /\ spos = 0
  /\ file_position = 0 /\ file_size = Len(Content0) /\ cached_pos = 0
  /\ cache_start = 0 /\ cache_available = 0 /\ cache = <<>>
  /\ op = Idle /\ result = NoResult

\* Bound: after an unanswered request, none is unanswered until a seek has put
\* the two positions in step again; otherwise they could drift without end.
Unanswered == "unanswered" \in Faults /\ file_position = spos

Smaller(a, b) == IF a < b THEN a ELSE b

-----------------------------------------------------------------------------
(***************************************************************************)
(* tnfs_read: serve from the cache, refill it, and again.                  *)
(***************************************************************************)
tnfs_read(n) ==
  /\ op = Idle
  /\ op' = [kind |-> "read", n |-> n, out |-> <<>>, start |-> cached_pos, pc |-> "cache", todo |-> 0]
  /\ UNCHANGED <<server, client, result>>

ReadReturns(res, out) ==
  /\ op' = Idle
  /\ result' = [op |-> "read", res |-> res, start |-> op.start, n |-> op.n, out |-> out]

AtEndOfFile == cached_pos >= file_size

\* What the cache can add to out: nothing when cached_pos is outside of it.
FromCache(out) ==
  LET cache_end == cache_start + cache_available
      bytes == IF cache_start <= cached_pos /\ cached_pos < cache_end
               THEN Smaller(cache_end - cached_pos, op.n - Len(out)) ELSE 0
  IN  SubSeq(cache, cached_pos - cache_start + 1, cached_pos - cache_start + bytes)

\* The start of _tnfs_fill_cache.
StartFill(out) ==
  /\ op' = [op EXCEPT !.out = out, !.pc = "fill", !.todo = CacheSize]
  /\ cache_available' = 0 /\ cache_start' = file_position /\ cache' = <<>>
  /\ UNCHANGED result

_tnfs_read_from_cache ==
  /\ op.kind = "read" /\ op.pc = "cache"
  /\ IF AtEndOfFile
     THEN ReadReturns("EOF", op.out) /\ UNCHANGED <<cachev, cached_pos>>
     ELSE LET got == IF cache_available = 0 THEN <<>> ELSE FromCache(op.out)
              out == op.out \o got
          IN  /\ cached_pos' = cached_pos + Len(got)
              /\ IF Len(out) = op.n
                 THEN ReadReturns("OK", out) /\ UNCHANGED cachev
                 ELSE StartFill(out)
  /\ UNCHANGED <<server, file_position, file_size>>

\* The end of _tnfs_fill_cache without an error: the cache becomes valid.
FillDone(todo) ==
  /\ cache_available' = CacheSize - todo
  /\ op' = [op EXCEPT !.pc = "cache", !.todo = todo]
  /\ UNCHANGED result

Filling == op.kind = "read" /\ op.pc = "fill"

\* A READ that succeeds returns at least one byte, possibly fewer than asked.
FillRead ==
  /\ Filling /\ spos < Len(content)
  /\ \E k \in 1 .. Smaller(op.todo, Len(content) - spos) :
       /\ cache' = cache \o SubSeq(content, spos + 1, spos + k)
       /\ spos' = spos + k /\ file_position' = file_position + k
       /\ IF op.todo = k THEN FillDone(0)
          ELSE op' = [op EXCEPT !.todo = @ - k] /\ UNCHANGED <<cache_available, result>>
  /\ UNCHANGED <<content, file_size, cached_pos, cache_start>>

\* Mutant: EOF from the server is not passed on when nothing was read.
FillEof_Neutral ==
  /\ Filling /\ spos >= Len(content)
  /\ FillDone(op.todo)
  /\ UNCHANGED <<server, file_position, file_size, cached_pos, cache_start, cache>>

\* EOF ends the filling; it is an error only when nothing was read.
FillEof ==
  /\ Filling /\ spos >= Len(content)
  /\ IF op.todo < CacheSize THEN FillDone(op.todo)
     ELSE ReadReturns("EOF", op.out) /\ UNCHANGED cache_available
  /\ UNCHANGED <<server, file_position, file_size, cached_pos, cache_start, cache>>

\* The transaction failed: the cache stays invalid and tnfs_read gives up.
FillFails ==
  /\ Filling /\ Faults # {}
  /\ \/ "unsent" \in Faults /\ UNCHANGED spos
     \/ Unanswered /\ spos' = Smaller(spos + op.todo, Len(content))
  /\ ReadReturns("FAIL", op.out)
  /\ UNCHANGED <<content, client>>

-----------------------------------------------------------------------------
(***************************************************************************)
(* tnfs_write: drop the cache, move the server's offset to the caller's    *)
(* position when they differ, then WRITE.                                  *)
(***************************************************************************)
\* Mutant: a write leaves the cache valid.
tnfs_write_KeepCache(b) ==
  /\ op = Idle /\ cached_pos + Len(b) <= MaxLen
  /\ op' = [kind |-> "write", b |-> b,
            pc |-> IF cached_pos # file_position THEN "seek" ELSE "write"]
  /\ UNCHANGED <<server, client, result>>

\* Mutant: the read-ahead is not undone before writing.
tnfs_write_NoSeek(b) ==
  /\ op = Idle /\ cached_pos + Len(b) <= MaxLen
  /\ op' = [kind |-> "write", b |-> b, pc |-> "write"]
  /\ cache_available' = 0
  /\ UNCHANGED <<server, file_position, file_size, cached_pos, cache_start, cache, result>>

tnfs_write(b) ==
  /\ op = Idle /\ cached_pos + Len(b) <= MaxLen
  /\ op' = [kind |-> "write", b |-> b,
            pc |-> IF cached_pos # file_position THEN "seek" ELSE "write"]
  /\ cache_available' = 0
  /\ UNCHANGED <<server, file_position, file_size, cached_pos, cache_start, cache, result>>

WriteSeek ==
  /\ op.kind = "write" /\ op.pc = "seek"
  /\ spos' = cached_pos /\ file_position' = cached_pos
  /\ op' = [op EXCEPT !.pc = "write"]
  /\ UNCHANGED <<content, file_size, cached_pos, cachev, result>>

\* The bytes between the end of the file and a position beyond it read as 0.
Stored(b) ==
  LET end == IF spos + Len(b) > Len(content) THEN spos + Len(b) ELSE Len(content)
  IN  [i \in 1 .. end |-> IF i > spos /\ i <= spos + Len(b) THEN b[i - spos]
                          ELSE IF i <= Len(content) THEN content[i] ELSE 0]

\* The server wrote k bytes of the buffer and says so.
WriteData ==
  /\ op.kind = "write" /\ op.pc = "write"
  /\ \E k \in 1 .. Len(op.b) :
       /\ content' = Stored(SubSeq(op.b, 1, k))
       /\ spos' = spos + k
       /\ file_position' = file_position + k
       /\ cached_pos' = file_position'
       /\ op' = Idle /\ result' = [op |-> "write", res |-> "OK", n |-> k]
  /\ UNCHANGED <<file_size, cachev>>

WriteFails ==
  /\ op.kind = "write" /\ Faults # {}
  /\ \/ "unsent" \in Faults /\ UNCHANGED server
     \/ /\ Unanswered
        /\ IF op.pc = "seek" THEN spos' = cached_pos /\ UNCHANGED content
           ELSE spos' = spos + Len(op.b) /\ content' = Stored(op.b)
  /\ op' = Idle /\ result' = [op |-> "write", res |-> "FAIL"]
  /\ UNCHANGED client

-----------------------------------------------------------------------------
(***************************************************************************)
(* tnfs_lseek: inside the cache only cached_pos moves; outside, the cache  *)
(* is dropped and the server seeks.                                        *)
(***************************************************************************)
\* Where the caller wants to be, and where the client puts file_position.
Destination(off, whence) ==
  CASE whence = "SET" -> off
    [] whence = "CUR" -> cached_pos + off
    [] whence = "END" -> file_size + off

InCache(off, whence) ==
  LET d == Destination(off, whence)
  IN  cache_available > 0 /\ cache_start <= d /\ d < cache_start + cache_available

SeekResult(off, whence, res) ==
  result' = [op |-> "seek", res |-> res, start |-> cached_pos, off |-> off, whence |-> whence]

_tnfs_cache_seek(off, whence) ==
  /\ op = Idle /\ InCache(off, whence)
  /\ cached_pos' = Destination(off, whence)
  /\ SeekResult(off, whence, "OK")
  /\ UNCHANGED <<server, file_position, file_size, cachev, op>>

\* The server's own reading of the request.
ServerTarget(off, whence) ==
  CASE whence = "SET" -> off
    [] whence = "CUR" -> spos + off
    [] whence = "END" -> Len(content) + off

\* Mutant: the server's offset is computed from the caller's position.
ClientTarget_FromCaller(off, whence) ==
  CASE whence = "SET" -> off
    [] whence = "CUR" -> cached_pos + off
    [] whence = "END" -> file_size + off

ClientTarget(off, whence) ==
  CASE whence = "SET" -> off
    [] whence = "CUR" -> file_position + off
    [] whence = "END" -> file_size + off

\* Bound: positions stay within 0 .. MaxLen, so the wrap of the uint32_t that
\* hold them is left out.
tnfs_lseek(off, whence) ==
  /\ op = Idle /\ ~ InCache(off, whence)
  /\ ServerTarget(off, whence) \in 0 .. MaxLen /\ ClientTarget(off, whence) \in 0 .. MaxLen
  /\ spos' = ServerTarget(off, whence)
  /\ file_position' = ClientTarget(off, whence)
  /\ cached_pos' = file_position'
  /\ cache_available' = 0
  /\ SeekResult(off, whence, "OK")
  /\ UNCHANGED <<content, file_size, cache_start, cache, op>>

\* No reply, or the server rejects a position before the start of the file.
LseekFails(off, whence) ==
  /\ op = Idle /\ ~ InCache(off, whence)
  /\ \/ (ServerTarget(off, whence) < 0 \/ "unsent" \in Faults) /\ UNCHANGED spos
     \/ /\ Unanswered /\ ServerTarget(off, whence) \in 0 .. MaxLen
        /\ spos' = ServerTarget(off, whence)
  /\ cache_available' = 0
  /\ result' = [op |-> "seek", res |-> "FAIL"]
  /\ UNCHANGED <<content, file_position, file_size, cached_pos, cache_start, cache, op>>

-----------------------------------------------------------------------------
Step ==
  \/ _tnfs_read_from_cache
  \/ FillRead
  \/ FillEof
  \/ FillFails
  \/ WriteSeek
  \/ WriteData
  \/ WriteFails

Next ==
  \/ \E n \in 1 .. MaxRead : tnfs_read(n)
  \/ \E b \in Buffers : tnfs_write(b)
  \/ \E off \in Offsets, whence \in Whences : _tnfs_cache_seek(off, whence)
  \/ \E off \in Offsets, whence \in Whences : tnfs_lseek(off, whence)
  \/ \E off \in Offsets, whence \in Whences : LseekFails(off, whence)
  \/ Step

\* A call runs to its end: the client is not interrupted between transactions.
Fairness == WF_vars(Step)

Spec == Init /\ [][Next]_vars /\ Fairness

-----------------------------------------------------------------------------
\* file_position mirrors the server's offset: READ and WRITE carry no position,
\* so data goes to the wrong place as soon as the two differ.  Once they agree,
\* only a request that the server executed and no reply confirmed parts them.
PositionsAgree ==
  [][ file_position = spos /\ (result'.res # "FAIL" \/ spos' = spos)
        => file_position' = spos' ]_vars

\* The valid part of the cache lies within its buffer, and while the positions
\* agree it holds the file's bytes at the positions it claims: after writes,
\* after fills that took several READs, and after a seek has ended a
\* disagreement.
CacheTrue ==
  /\ cache_available \in 0 .. Len(cache) /\ Len(cache) <= CacheSize
  /\ file_position = spos =>
       \A i \in 0 .. cache_available - 1 :
         /\ cache_start + i < Len(content)
         /\ cache[i + 1] = content[cache_start + i + 1]

\* Every call returns: filling makes progress or meets the end of the file.
OpsReturn == (op # Idle) ~> (op = Idle)

\* The cached file is a file: its calls have the effects and the results of the
\* atomic operations of FileSpec on the server's content and the caller's
\* position.
Abs == INSTANCE FileSpec WITH pos <- IF op.kind = "read" THEN op.start ELSE cached_pos
AbstractFile == Abs!Spec
=============================================================================
