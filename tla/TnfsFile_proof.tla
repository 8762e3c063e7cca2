--------------------------- MODULE TnfsFile_proof ---------------------------
(***************************************************************************)
(* Proofs about TnfsFile, for every file, every size of the read-ahead     *)
(* cache and every sequence of reads, writes and seeks.                    *)
(***************************************************************************)
EXTENDS TnfsFile, SequenceTheorems, TLAPS

(***************************************************************************)
(* Types, and the inductive invariant of the cache.                        *)
(***************************************************************************)
ReadOps == [kind : {"read"}, n : Nat, out : Seq(Int), start : Nat, pc : {"cache", "fill"}, todo : Nat]
WriteOps == [kind : {"write"}, b : Buffers, pc : {"seek", "write"}]

Typed ==
  /\ content \in Seq(Int) /\ spos \in Nat
  /\ file_position \in Nat /\ file_size \in Nat /\ cached_pos \in Nat
  /\ cache_start \in Nat /\ cache_available \in Nat /\ cache \in Seq(Int)
  /\ op \in ReadOps \cup WriteOps \cup {Idle}

\* The part of the cache that was read ahead, valid already or being filled.
Ahead == IF Filling THEN Len(cache) ELSE cache_available

\* A read is never finished before its call returns; while the cache is filled it
\* is not valid and ends at the client's file position; a write has dropped it.
Progress ==
  /\ cache_available <= Len(cache) /\ Len(cache) <= CacheSize
  /\ op.kind = "read" => Len(op.out) < op.n
  /\ Filling => /\ cache_available = 0 /\ op.todo > 0 /\ Len(cache) = CacheSize - op.todo
                /\ cache_start + Len(cache) = file_position
  /\ op.kind = "write" => cache_available = 0 /\ (op.pc = "write" => cached_pos = file_position)
  /\ cache_available > 0 => cache_start + cache_available = file_position

\* While the positions agree, what was read ahead is in the file.
AheadTrue ==
  file_position = spos =>
    \A i \in 1 .. Ahead : cache_start + i <= Len(content) /\ cache[i] = content[cache_start + i]

CacheInv == Typed /\ Progress /\ AheadTrue

LEMMA Parameters ==
  /\ Content0 \in Seq(Int) /\ MaxRead \in Nat /\ CacheSize \in Nat /\ CacheSize > 0 /\ MaxLen \in Nat
  /\ Buffers \subseteq Seq(Int) /\ Offsets \subseteq Int /\ Whences \subseteq {"SET", "CUR", "END"}
BY FileAssumption

\* The kinds of operation.
LEMMA Kinds ==
  ASSUME Typed
  PROVE  /\ op = Idle => op.kind = "none" /\ ~ Filling
         /\ op.kind = "read" <=> op \in ReadOps
         /\ op.kind = "write" <=> op \in WriteOps
         /\ op \in WriteOps => ~ Filling
<1>1. op = Idle => op.kind = "none"
  BY DEF Idle
<1>2. (op \in ReadOps => op.kind = "read") /\ (op \in WriteOps => op.kind = "write")
  BY DEF ReadOps, WriteOps
<1>3. QED
  BY <1>1, <1>2 DEF Typed, Filling

LEMMA KindsNext ==
  /\ op' = Idle => op'.kind = "none" /\ ~ Filling'
  /\ op' \in ReadOps => op'.kind = "read"
  /\ op' \in WriteOps => op'.kind = "write" /\ ~ Filling'
<1>1. op' = Idle => op'.kind = "none"
  BY DEF Idle
<1>2. (op' \in ReadOps => op'.kind = "read") /\ (op' \in WriteOps => op'.kind = "write")
  BY DEF ReadOps, WriteOps
<1>3. QED
  BY <1>1, <1>2 DEF Filling

\* The members of a read in progress.
IsRead(r, n, out, start, pc, todo) ==
  r \in ReadOps /\ r.n = n /\ r.out = out /\ r.start = start /\ r.pc = pc /\ r.todo = todo

LEMMA ReadUpdated ==
  ASSUME op \in ReadOps, NEW out \in Seq(Int), NEW pc \in {"cache", "fill"}, NEW todo \in Nat
  PROVE  /\ IsRead([op EXCEPT !.out = out, !.pc = pc, !.todo = todo], op.n, out, op.start, pc, todo)
         /\ IsRead([op EXCEPT !.pc = pc, !.todo = todo], op.n, op.out, op.start, pc, todo)
         /\ IsRead([op EXCEPT !.todo = todo], op.n, op.out, op.start, op.pc, todo)
<1> DEFINE c1 == [op EXCEPT !.pc = pc]
           c2 == [op EXCEPT !.out = out]
           c3 == [c2 EXCEPT !.pc = pc]
<1>1. IsRead([op EXCEPT !.todo = todo], op.n, op.out, op.start, op.pc, todo)
  BY DEF IsRead, ReadOps
<1>2. IsRead(c1, op.n, op.out, op.start, pc, op.todo) /\ IsRead(c2, op.n, out, op.start, op.pc, op.todo)
  BY DEF IsRead, ReadOps
<1>3. [op EXCEPT !.pc = pc, !.todo = todo] = [c1 EXCEPT !.todo = todo]
  BY DEF ReadOps
<1>4. [op EXCEPT !.out = out, !.pc = pc, !.todo = todo] = [c3 EXCEPT !.todo = todo]
  BY DEF ReadOps
<1> HIDE DEF c1, c2
<1>5. IsRead([c1 EXCEPT !.todo = todo], op.n, op.out, op.start, pc, todo)
  BY <1>2 DEF IsRead, ReadOps
<1>6. IsRead(c3, op.n, out, op.start, pc, op.todo)
  BY <1>2 DEF IsRead, ReadOps
<1> HIDE DEF c3
<1>7. IsRead([c3 EXCEPT !.todo = todo], op.n, out, op.start, pc, todo)
  BY <1>6 DEF IsRead, ReadOps
<1>8. QED
  BY <1>1, <1>3, <1>4, <1>5, <1>7

-----------------------------------------------------------------------------
(***************************************************************************)
(* What the operators on sequences return.                                 *)
(***************************************************************************)
LEMMA Piece ==
  ASSUME NEW s \in Seq(Int), NEW m \in Nat, NEW k \in Nat, m + k <= Len(s)
  PROVE  /\ SubSeq(s, m + 1, m + k) \in Seq(Int) /\ Len(SubSeq(s, m + 1, m + k)) = k
         /\ \A i \in 1 .. k : SubSeq(s, m + 1, m + k)[i] = s[m + i]
<1>1. \A i \in m + 1 .. m + k : s[i] \in Int
  BY LenProperties
<1>2. /\ SubSeq(s, m + 1, m + k) \in Seq(Int)
      /\ Len(SubSeq(s, m + 1, m + k)) = IF m + 1 <= m + k THEN m + k - (m + 1) + 1 ELSE 0
      /\ \A i \in 1 .. m + k - (m + 1) + 1 : SubSeq(s, m + 1, m + k)[i] = s[m + 1 + i - 1]
  BY <1>1, SubSeqProperties
<1> DEFINE t == SubSeq(s, m + 1, m + k)
<1>3. m + k - (m + 1) + 1 = k /\ (~ (m + 1 <= m + k) => k = 0)
  OBVIOUS
<1>4. t \in Seq(Int) /\ Len(t) = k
  BY <1>2, <1>3
<1>5. ASSUME NEW i \in 1 .. k PROVE t[i] = s[m + i]
  <2>1. t[i] = s[m + 1 + i - 1]
    BY <1>2, <1>3
  <2>2. m + 1 + i - 1 = m + i
    OBVIOUS
  <2>3. QED
    BY <2>1, <2>2
<1>6. QED
  BY <1>4, <1>5

\* What was written is where the server's offset was, the rest is as it was.
LEMMA StoredExact ==
  ASSUME content \in Seq(Int), spos \in Nat, NEW b \in Seq(Int)
  PROVE  /\ Stored(b) \in Seq(Int)
         /\ Len(Stored(b)) = IF spos + Len(b) > Len(content) THEN spos + Len(b) ELSE Len(content)
<1> DEFINE end == IF spos + Len(b) > Len(content) THEN spos + Len(b) ELSE Len(content)
           f == Stored(b)
<1>1. Len(b) \in Nat /\ Len(content) \in Nat /\ end \in Nat
  BY LenProperties
<1>2. f = [i \in 1 .. end |-> IF i > spos /\ i <= spos + Len(b) THEN b[i - spos]
                              ELSE IF i <= Len(content) THEN content[i] ELSE 0]
  BY DEF Stored
<1>3. (\A i \in 1 .. Len(b) : b[i] \in Int) /\ (\A i \in 1 .. Len(content) : content[i] \in Int)
  BY LenProperties
<1>4. ASSUME NEW i \in 1 .. end
      PROVE  (IF i > spos /\ i <= spos + Len(b) THEN b[i - spos]
              ELSE IF i <= Len(content) THEN content[i] ELSE 0) \in Int
  <2> HIDE DEF end
  <2>1. CASE i > spos /\ i <= spos + Len(b)
    <3>1. i - spos \in 1 .. Len(b)
      BY <1>1, <2>1
    <3>2. QED
      BY <2>1, <3>1, <1>3
  <2>2. CASE ~ (i > spos /\ i <= spos + Len(b)) /\ i <= Len(content)
    <3>1. i \in 1 .. Len(content)
      BY <1>1, <2>2
    <3>2. QED
      BY <2>2, <3>1, <1>3
  <2>3. QED
    BY <2>1, <2>2
<1> HIDE DEF end, f
<1>5. f \in [1 .. end -> Int]
  BY <1>2, <1>4
<1>6. f \in Seq(Int) /\ Len(f) = end
  BY <1>1, <1>5
<1>7. QED
  BY <1>6 DEF f, end

-----------------------------------------------------------------------------
(***************************************************************************)
(* The steps of a read.                                                    *)
(***************************************************************************)
LEMMA ReadStarts ==
  ASSUME CacheInv, NEW n \in 1 .. MaxRead, tnfs_read(n)
  PROVE  CacheInv' /\ IsRead(op', n, <<>>, cached_pos, "cache", 0)
<1> DEFINE r == [kind |-> "read", n |-> n, out |-> <<>>, start |-> cached_pos, pc |-> "cache", todo |-> 0]
<1>1. op' = r /\ op = Idle /\ UNCHANGED <<server, client, result>>
  BY DEF tnfs_read
<1>2. n \in Nat /\ n > 0 /\ <<>> \in Seq(Int) /\ Len(<<>>) = 0 /\ cached_pos \in Nat
  BY Parameters DEF CacheInv, Typed
<1>3. IsRead(op', n, <<>>, cached_pos, "cache", 0)
  BY <1>1, <1>2 DEF IsRead, ReadOps
<1>4. op'.kind = "read" /\ ~ Filling' /\ ~ Filling
  BY <1>1, <1>3, KindsNext, Kinds DEF IsRead, Filling, CacheInv
<1>5. Typed'
  BY <1>1, <1>3 DEF CacheInv, Typed, IsRead, server, client, cachev
<1>6. Progress'
  BY <1>1, <1>2, <1>3, <1>4 DEF CacheInv, Progress, IsRead, server, client, cachev
<1>7. AheadTrue'
  BY <1>1, <1>4 DEF CacheInv, AheadTrue, Ahead, server, client, cachev
<1>8. QED
  BY <1>3, <1>5, <1>6, <1>7 DEF CacheInv

\* The bytes a step of tnfs_read adds to its buffer.
Got == IF cache_available = 0 THEN <<>> ELSE FromCache(op.out)

\* What the cache adds to a read: bytes of the cache from the caller's position on.
LEMMA CacheAdds ==
  ASSUME CacheInv, op \in ReadOps, cache_available > 0
  PROVE  /\ Got \in Seq(Int) /\ Len(Got) <= op.n - Len(op.out)
         /\ Len(Got) > 0 => /\ cache_start <= cached_pos
                            /\ cached_pos + Len(Got) <= cache_start + cache_available
         /\ \A i \in 1 .. Len(Got) : Got[i] = cache[cached_pos - cache_start + i]
         /\ Len(Got) = 0 => cached_pos < cache_start \/ cached_pos >= cache_start + cache_available
         /\ Len(Got) < op.n - Len(op.out) =>
              cached_pos < cache_start \/ cached_pos + Len(Got) >= cache_start + cache_available
<1> DEFINE got == Got
           left == op.n - Len(op.out)
           cache_end == cache_start + cache_available
           bytes == IF cache_start <= cached_pos /\ cached_pos < cache_end
                    THEN Smaller(cache_end - cached_pos, left) ELSE 0
<1>1. /\ cache \in Seq(Int) /\ cache_start \in Nat /\ cache_available \in Nat /\ cached_pos \in Nat
      /\ cache_available <= Len(cache) /\ Len(cache) \in Nat /\ cache_available # 0
  BY LenProperties DEF CacheInv, Typed, Progress
<1>2. left \in Nat /\ left > 0
  <2>1. op.n \in Nat /\ op.out \in Seq(Int) /\ op.kind = "read"
    BY DEF ReadOps
  <2>2. Len(op.out) \in Nat /\ Len(op.out) < op.n
    BY <2>1, LenProperties DEF CacheInv, Progress
  <2>3. QED
    BY <2>1, <2>2
<1>3. got = SubSeq(cache, cached_pos - cache_start + 1, cached_pos - cache_start + bytes)
  BY <1>1 DEF FromCache, Got
<1> SUFFICES /\ got \in Seq(Int) /\ Len(got) <= left
             /\ Len(got) > 0 => cache_start <= cached_pos /\ cached_pos + Len(got) <= cache_end
             /\ \A i \in 1 .. Len(got) : got[i] = cache[cached_pos - cache_start + i]
             /\ Len(got) = 0 => cached_pos < cache_start \/ cached_pos >= cache_end
             /\ Len(got) < left => cached_pos < cache_start \/ cached_pos + Len(got) >= cache_end
  OBVIOUS
<1> HIDE DEF left, got
<1>4. CASE cache_start <= cached_pos /\ cached_pos < cache_end
  <2> DEFINE m == cached_pos - cache_start
             k == Smaller(cache_end - cached_pos, left)
  <2>1. bytes = k
    BY <1>4
  <2>2. m \in Nat /\ k \in Nat /\ k > 0 /\ m + k <= Len(cache) /\ k <= left /\ cached_pos + k <= cache_end
    BY <1>1, <1>2, <1>4 DEF Smaller
  <2>3. k < left => cached_pos + k >= cache_end
    BY <1>1, <1>2, <1>4 DEF Smaller
  <2> HIDE DEF k
  <2>4. got = SubSeq(cache, m + 1, m + k)
    BY <1>3, <2>1
  <2>5. got \in Seq(Int) /\ Len(got) = k /\ \A i \in 1 .. k : got[i] = cache[m + i]
    <3> HIDE DEF m
    <3>1. m \in Nat /\ k \in Nat /\ m + k <= Len(cache) /\ cache \in Seq(Int)
      BY <1>1, <2>2
    <3>2. QED
      BY <2>4, <3>1, Piece, Zenon
  <2>6. QED
    BY <1>4, <2>2, <2>3, <2>5
<1>5. CASE ~ (cache_start <= cached_pos /\ cached_pos < cache_end)
  <2>1. bytes = 0
    BY <1>5
  <2>2. got = <<>>
    BY <1>1, <1>3, <2>1, SubSeqEmpty
  <2>3. got \in Seq(Int) /\ Len(got) = 0
    BY <2>2
  <2>4. QED
    BY <1>1, <1>2, <1>5, <2>3
<1>6. QED
  BY <1>4, <1>5

\* One look at the cache: the read ends at the end of the file or with all of its
\* bytes, or the cache is filled again.
LEMMA ReadLooks ==
  ASSUME CacheInv, _tnfs_read_from_cache
  PROVE  /\ op \in ReadOps /\ op.pc = "cache"
         /\ UNCHANGED <<server, file_position, file_size>>
         /\ \/ /\ AtEndOfFile /\ ReadReturns("EOF", op.out) /\ UNCHANGED <<cachev, cached_pos>>
            \/ /\ ~ AtEndOfFile /\ ReadReturns("OK", op.out \o Got) /\ UNCHANGED cachev
               /\ Len(op.out) + Len(Got) = op.n /\ cached_pos' = cached_pos + Len(Got)
            \/ /\ ~ AtEndOfFile /\ StartFill(op.out \o Got)
               /\ Len(op.out) + Len(Got) < op.n /\ cached_pos' = cached_pos + Len(Got)
         /\ Got \in Seq(Int) /\ op.out \o Got \in Seq(Int)
<1>1. op.kind = "read" /\ op \in ReadOps /\ op.pc = "cache"
  BY Kinds DEF _tnfs_read_from_cache, CacheInv
<1>2. op.out \in Seq(Int) /\ op.n \in Nat /\ Len(op.out) \in Nat /\ Len(op.out) < op.n
  <2>1. op.out \in Seq(Int) /\ op.n \in Nat
    BY <1>1 DEF ReadOps
  <2>2. QED
    BY <1>1, <2>1, LenProperties DEF CacheInv, Progress
<1>3. Got \in Seq(Int) /\ Len(Got) \in Nat /\ Len(Got) <= op.n - Len(op.out)
  <2>1. CASE cache_available = 0
    BY <1>2, <2>1 DEF Got
  <2>2. CASE cache_available # 0
    <3>1. cache_available > 0
      BY <2>2 DEF CacheInv, Typed
    <3>2. QED
      BY <1>1, <3>1, CacheAdds, LenProperties
  <2>3. QED
    BY <2>1, <2>2
<1>4. op.out \o Got \in Seq(Int) /\ Len(op.out \o Got) = Len(op.out) + Len(Got)
  BY <1>2, <1>3, ConcatProperties
<1>5. /\ UNCHANGED <<server, file_position, file_size>>
      /\ IF AtEndOfFile
         THEN ReadReturns("EOF", op.out) /\ UNCHANGED <<cachev, cached_pos>>
         ELSE /\ cached_pos' = cached_pos + Len(Got)
              /\ IF Len(op.out \o Got) = op.n
                 THEN ReadReturns("OK", op.out \o Got) /\ UNCHANGED cachev
                 ELSE StartFill(op.out \o Got)
  BY DEF _tnfs_read_from_cache, Got
<1>6. Len(op.out) + Len(Got) # op.n => Len(op.out) + Len(Got) < op.n
  <2> DEFINE n == op.n
             a == Len(op.out)
             g == Len(Got)
  <2>1. n \in Nat /\ a \in Nat /\ g \in Nat /\ g <= n - a
    BY <1>2, <1>3
  <2> HIDE DEF n, a, g
  <2>2. a + g # n => a + g < n
    BY <2>1
  <2>3. QED
    BY <2>2 DEF n, a, g
<1>7. QED
  BY <1>1, <1>3, <1>4, <1>5, <1>6

\* A call returns, or a seek moves the caller within the cache.
LEMMA CacheKept ==
  ASSUME CacheInv, ~ Filling, op' = Idle, UNCHANGED <<server, file_position, file_size, cachev>>,
         cached_pos' \in Nat
  PROVE  CacheInv'
<1>1. ~ Filling' /\ op'.kind = "none"
  BY KindsNext
<1>2. Typed'
  BY DEF CacheInv, Typed, server, cachev
<1>3. Progress'
  BY <1>1 DEF CacheInv, Progress, server, cachev
<1>4. AheadTrue'
  BY <1>1 DEF CacheInv, AheadTrue, Ahead, server, cachev
<1>5. QED
  BY <1>2, <1>3, <1>4 DEF CacheInv

\* A call returns, or a seek ends, with an empty cache.
LEMMA CacheDropped ==
  ASSUME CacheInv, op' = Idle, cache_available' = 0, UNCHANGED <<file_size, cache_start, cache>>,
         content' \in Seq(Int), spos' \in Nat, file_position' \in Nat, cached_pos' \in Nat
  PROVE  CacheInv'
<1>1. ~ Filling' /\ op'.kind = "none"
  BY KindsNext
<1>2. Typed'
  BY DEF CacheInv, Typed
<1>3. Progress'
  <2>1. Len(cache) \in Nat
    BY LenProperties DEF CacheInv, Typed
  <2>2. QED
    BY <1>1, <2>1 DEF CacheInv, Progress
<1>4. AheadTrue'
  BY <1>1 DEF AheadTrue, Ahead
<1>5. QED
  BY <1>2, <1>3, <1>4 DEF CacheInv

LEMMA ReadFromCache ==
  ASSUME CacheInv, _tnfs_read_from_cache
  PROVE  CacheInv'
<1>1. /\ op \in ReadOps /\ op.pc = "cache" /\ UNCHANGED <<server, file_position, file_size>>
      /\ Got \in Seq(Int) /\ op.out \o Got \in Seq(Int)
  BY ReadLooks
<1>2. ~ Filling /\ Len(Got) \in Nat /\ cached_pos \in Nat
  BY <1>1, LenProperties DEF Filling, CacheInv, Typed
<1>3. CASE AtEndOfFile /\ ReadReturns("EOF", op.out) /\ UNCHANGED <<cachev, cached_pos>>
  BY <1>1, <1>2, <1>3, CacheKept DEF ReadReturns
<1>4. CASE ReadReturns("OK", op.out \o Got) /\ UNCHANGED cachev /\ cached_pos' = cached_pos + Len(Got)
  BY <1>1, <1>2, <1>4, CacheKept DEF ReadReturns
<1>5. CASE StartFill(op.out \o Got) /\ Len(op.out) + Len(Got) < op.n /\ cached_pos' = cached_pos + Len(Got)
  <2>1. /\ op' = [op EXCEPT !.out = op.out \o Got, !.pc = "fill", !.todo = CacheSize]
        /\ cache_available' = 0 /\ cache_start' = file_position /\ cache' = <<>>
    BY <1>5 DEF StartFill
  <2>2. IsRead(op', op.n, op.out \o Got, op.start, "fill", CacheSize)
    <3> DEFINE out == op.out \o Got
    <3>1. out \in Seq(Int) /\ CacheSize \in Nat
      BY <1>1, Parameters
    <3> HIDE DEF out
    <3>2. IsRead([op EXCEPT !.out = out, !.pc = "fill", !.todo = CacheSize], op.n, out, op.start, "fill", CacheSize)
      BY <1>1, <3>1, ReadUpdated
    <3>3. QED
      BY <2>1, <3>2 DEF out
  <2>3. Filling' /\ op' \in ReadOps
    BY <2>2, KindsNext DEF IsRead, Filling
  <2>4. Len(op.out \o Got) < op.n
    <3>1. op.out \in Seq(Int)
      BY <1>1 DEF ReadOps
    <3>2. QED
      BY <1>1, <1>5, <3>1, ConcatProperties
  <2>5. Typed'
    BY <1>1, <1>2, <1>5, <2>1, <2>3 DEF CacheInv, Typed, server
  <2>6. Len(cache') = 0 /\ file_position \in Nat
    BY <2>1 DEF CacheInv, Typed
  <2>7. op'.kind = "read"
    BY <2>3 DEF Filling
  <2>8. Progress'
    <3>1. /\ op'.n = op.n /\ op'.out = op.out \o Got /\ op'.todo = CacheSize
      BY <2>2 DEF IsRead
    <3> HIDE DEF Got
    <3>2. QED
      BY <1>1, <2>1, <2>3, <2>4, <2>6, <2>7, <3>1, Parameters DEF Progress
  <2>9. AheadTrue'
    BY <2>3, <2>6 DEF AheadTrue, Ahead
  <2>10. QED
    BY <2>5, <2>8, <2>9 DEF CacheInv
<1>6. QED
  BY <1>3, <1>4, <1>5, ReadLooks

\* A READ of the server, added to the cache that is being filled.
LEMMA FillAdds ==
  ASSUME CacheInv, FillRead
  PROVE  \E k \in Nat :
           /\ k > 0 /\ k <= op.todo /\ spos + k <= Len(content) /\ op \in ReadOps
           /\ cache' = cache \o SubSeq(content, spos + 1, spos + k)
           /\ spos' = spos + k /\ file_position' = file_position + k
           /\ \/ /\ op.todo = k /\ cache_available' = CacheSize
                 /\ IsRead(op', op.n, op.out, op.start, "cache", 0)
              \/ /\ op.todo > k /\ UNCHANGED cache_available
                 /\ IsRead(op', op.n, op.out, op.start, "fill", op.todo - k)
           /\ UNCHANGED <<content, file_size, cached_pos, cache_start, result>>
<1>1. /\ Filling /\ spos < Len(content) /\ UNCHANGED <<content, file_size, cached_pos, cache_start>>
  BY DEF FillRead
<1>2. op \in ReadOps /\ op.pc = "fill"
  BY <1>1, Kinds DEF CacheInv, Filling
<1> DEFINE t == op.todo
<1>3. t \in Nat /\ spos \in Nat /\ Len(content) \in Nat
  BY <1>2, LenProperties DEF ReadOps, CacheInv, Typed
<1>4. PICK k \in 1 .. Smaller(t, Len(content) - spos) :
       /\ cache' = cache \o SubSeq(content, spos + 1, spos + k)
       /\ spos' = spos + k /\ file_position' = file_position + k
       /\ IF t = k THEN FillDone(0)
          ELSE op' = [op EXCEPT !.todo = op.todo - k] /\ UNCHANGED <<cache_available, result>>
  BY DEF FillRead
<1>5. k \in Nat /\ k > 0 /\ k <= t /\ spos + k <= Len(content) /\ t - k \in Nat
  <2> HIDE DEF t
  <2>1. QED
    BY <1>1, <1>3 DEF Smaller
<1>6. \/ /\ t = k /\ cache_available' = CacheSize
         /\ IsRead(op', op.n, op.out, op.start, "cache", 0)
      \/ /\ t > k /\ UNCHANGED cache_available
         /\ IsRead(op', op.n, op.out, op.start, "fill", t - k)
  <2>1. CASE t = k
    <3>1. cache_available' = CacheSize - 0 /\ op' = [op EXCEPT !.pc = "cache", !.todo = 0]
      BY <1>4, <2>1 DEF FillDone
    <3>2. op.out \in Seq(Int) /\ "cache" \in {"cache", "fill"} /\ 0 \in Nat
      BY <1>2 DEF ReadOps
    <3>3. IsRead(op', op.n, op.out, op.start, "cache", 0)
      BY <1>2, <3>1, <3>2, ReadUpdated
    <3>4. CacheSize - 0 = CacheSize
      BY Parameters
    <3>5. QED
      BY <2>1, <3>1, <3>3, <3>4
  <2>2. CASE t # k
    <3> DEFINE d == t - k
    <3>1. op' = [op EXCEPT !.todo = d] /\ UNCHANGED cache_available
      BY <1>4, <2>2
    <3>2. op.out \in Seq(Int) /\ "fill" \in {"cache", "fill"} /\ d \in Nat
      BY <1>2, <1>5 DEF ReadOps
    <3>3. t > k
      <4> HIDE DEF t
      <4>1. QED
        BY <1>3, <1>5, <2>2
    <3> HIDE DEF d
    <3>4. IsRead(op', op.n, op.out, op.start, op.pc, d)
      BY <1>2, <3>1, <3>2, ReadUpdated
    <3>5. QED
      BY <1>2, <3>1, <3>3, <3>4 DEF d
  <2>3. QED
    BY <2>1, <2>2
<1>7. UNCHANGED result
  BY <1>4 DEF FillDone
<1>8. QED
  BY <1>1, <1>2, <1>4, <1>5, <1>6, <1>7

LEMMA FillReads ==
  ASSUME CacheInv, FillRead
  PROVE  CacheInv'
<1>1. PICK k \in Nat :
         /\ k > 0 /\ k <= op.todo /\ spos + k <= Len(content) /\ op \in ReadOps
         /\ cache' = cache \o SubSeq(content, spos + 1, spos + k)
         /\ spos' = spos + k /\ file_position' = file_position + k
         /\ \/ /\ op.todo = k /\ cache_available' = CacheSize
               /\ IsRead(op', op.n, op.out, op.start, "cache", 0)
            \/ /\ op.todo > k /\ UNCHANGED cache_available
               /\ IsRead(op', op.n, op.out, op.start, "fill", op.todo - k)
         /\ UNCHANGED <<content, file_size, cached_pos, cache_start, result>>
  BY FillAdds
<1> DEFINE t == op.todo
           new == SubSeq(content, spos + 1, spos + k)
<1>2. /\ t \in Nat /\ spos \in Nat /\ content \in Seq(Int) /\ cache \in Seq(Int) /\ Len(cache) \in Nat
      /\ file_position \in Nat /\ cache_start \in Nat
  BY <1>1, LenProperties DEF ReadOps, CacheInv, Typed
<1>3. Filling /\ cache_available = 0 /\ Len(cache) = CacheSize - t /\ cache_start + Len(cache) = file_position
  BY DEF FillRead, CacheInv, Progress
<1>4. new \in Seq(Int) /\ Len(new) = k /\ \A i \in 1 .. k : new[i] = content[spos + i]
  BY <1>1, <1>2, Piece
<1> HIDE DEF t, new
<1>5. /\ cache' \in Seq(Int) /\ Len(cache') = Len(cache) + k
      /\ \A i \in 1 .. Len(cache) + k : cache'[i] = IF i <= Len(cache) THEN cache[i] ELSE new[i - Len(cache)]
  <2>1. cache' = cache \o new
    BY <1>1 DEF new
  <2>2. QED
    BY <1>2, <1>4, <2>1, ConcatProperties
<1>6. op' \in ReadOps /\ op'.kind = "read" /\ op'.n = op.n /\ op'.out = op.out
  BY <1>1, KindsNext DEF IsRead
<1>7. \/ t = k /\ cache_available' = CacheSize /\ ~ Filling'
      \/ t > k /\ cache_available' = 0 /\ Filling' /\ op'.todo = t - k
  BY <1>1, <1>3, <1>6 DEF IsRead, Filling, t
<1>8. Typed'
  BY <1>1, <1>2, <1>5, <1>6, <1>7, Parameters DEF CacheInv, Typed
<1>9. Progress'
  <2>1. Len(op.out) < op.n
    BY <1>3 DEF CacheInv, Progress, Filling
  <2>2. k <= t /\ cache_start' = cache_start /\ file_position' = file_position + k
    BY <1>1 DEF t
  <2>3. Len(op'.out) < op'.n
    BY <1>6, <2>1
  <2>4. op'.kind # "write"
    BY <1>6
  <2>5. CASE t = k /\ cache_available' = CacheSize /\ ~ Filling'
    <3>1. Len(cache') = CacheSize /\ cache_start' + CacheSize = file_position'
      BY <1>1, <1>2, <1>3, <1>5, <2>5, Parameters
    <3>2. QED
      BY <2>3, <2>4, <2>5, <3>1, Parameters DEF Progress
  <2>6. CASE t > k /\ cache_available' = 0 /\ Filling' /\ op'.todo = t - k
    <3>1. /\ Len(cache') = CacheSize - (t - k) /\ Len(cache') <= CacheSize /\ t - k > 0
          /\ cache_start' + Len(cache') = file_position' /\ Len(cache') \in Nat
      BY <1>2, <1>3, <1>5, <2>2, <2>6, Parameters
    <3>2. QED
      BY <2>3, <2>4, <2>6, <3>1, Parameters DEF Progress
  <2>7. QED
    BY <1>7, <2>5, <2>6
<1>10. AheadTrue'
  <2>1. Ahead = Len(cache) /\ Ahead' = Len(cache')
    <3>1. t = k => Len(cache') = CacheSize
      BY <1>2, <1>3, <1>5, Parameters
    <3>2. QED
      BY <1>3, <1>7, <3>1 DEF Ahead
  <2> SUFFICES ASSUME file_position' = spos', NEW i \in 1 .. Ahead'
               PROVE  cache_start' + i <= Len(content') /\ cache'[i] = content'[cache_start' + i]
    BY DEF AheadTrue
  <2>2. file_position = spos
    BY <1>1, <1>2
  <2>3. i \in 1 .. Len(cache) + k
    BY <1>5, <2>1
  <2>4. CASE i <= Len(cache)
    BY <1>1, <1>2, <1>5, <2>1, <2>2, <2>3, <2>4 DEF CacheInv, AheadTrue
  <2>5. CASE i > Len(cache)
    <3>1. /\ i - Len(cache) \in 1 .. k /\ cache'[i] = new[i - Len(cache)]
          /\ spos + (i - Len(cache)) = cache_start + i /\ cache_start + i <= spos + k
      BY <1>2, <1>3, <1>5, <2>2, <2>3, <2>5
    <3>2. cache'[i] = content[cache_start + i]
      BY <1>4, <3>1
    <3>3. Len(content) \in Nat
      BY <1>2, LenProperties
    <3>4. QED
      BY <1>1, <1>2, <3>1, <3>2, <3>3
  <2>6. QED
    BY <1>2, <2>3, <2>4, <2>5
<1>11. QED
  BY <1>8, <1>9, <1>10 DEF CacheInv

\* The server has no more bytes.
LEMMA FillEnds ==
  ASSUME CacheInv, FillEof
  PROVE  /\ CacheInv' /\ op \in ReadOps /\ Filling
         /\ UNCHANGED <<server, file_position, file_size, cached_pos, cache_start, cache>>
         /\ \/ op.todo < CacheSize /\ IsRead(op', op.n, op.out, op.start, "cache", op.todo)
               /\ cache_available' = Len(cache) /\ UNCHANGED result
            \/ op.todo = CacheSize /\ ReadReturns("EOF", op.out) /\ UNCHANGED cache_available
<1>1. Filling /\ UNCHANGED <<server, file_position, file_size, cached_pos, cache_start, cache>>
  BY DEF FillEof
<1>2. op \in ReadOps
  BY <1>1, Kinds DEF CacheInv, Filling
<1> DEFINE t == op.todo
<1>3. t \in Nat /\ cache_available = 0 /\ Len(cache) = CacheSize - t /\ cache_start + Len(cache) = file_position
  BY <1>1, <1>2 DEF CacheInv, Progress, ReadOps
<1>4. Len(cache) \in Nat /\ t <= CacheSize
  <2> HIDE DEF t
  <2>1. Len(cache) \in Nat
    BY LenProperties DEF CacheInv, Typed
  <2>2. QED
    BY <1>3, <2>1, Parameters
<1>5. CASE t < CacheSize
  <2>1. op' = [op EXCEPT !.pc = "cache", !.todo = t] /\ cache_available' = CacheSize - t /\ UNCHANGED result
    BY <1>5 DEF FillEof, FillDone
  <2>2. op.out \in Seq(Int) /\ "cache" \in {"cache", "fill"}
    BY <1>2 DEF ReadOps
  <2>3. IsRead(op', op.n, op.out, op.start, "cache", t)
    <3> HIDE DEF t
    <3>1. QED
      BY <1>2, <1>3, <2>1, <2>2, ReadUpdated
  <2>4. op' \in ReadOps /\ op'.kind = "read" /\ ~ Filling' /\ op'.n = op.n /\ op'.out = op.out
    BY <2>3, KindsNext DEF IsRead, Filling
  <2>5. cache_available' = Len(cache)
    BY <1>3, <2>1
  <2>6. Typed'
    BY <1>1, <1>4, <2>4, <2>5 DEF CacheInv, Typed, server
  <2>7. Progress'
    <3>1. Len(op.out) < op.n
      BY <1>1 DEF CacheInv, Progress, Filling
    <3>2. Len(op'.out) < op'.n /\ op'.kind # "write"
      BY <2>4, <3>1
    <3>3. Len(cache) <= CacheSize
      BY DEF CacheInv, Progress
    <3>4. QED
      BY <1>1, <1>3, <1>4, <2>4, <2>5, <3>2, <3>3 DEF Progress
  <2>8. AheadTrue'
    BY <1>1, <2>4, <2>5 DEF CacheInv, AheadTrue, Ahead, server
  <2>9. QED
    BY <1>1, <1>2, <1>5, <2>1, <2>3, <2>5, <2>6, <2>7, <2>8 DEF CacheInv
<1>6. CASE ~ (t < CacheSize)
  <2>1. ReadReturns("EOF", op.out) /\ UNCHANGED cache_available
    BY <1>6 DEF FillEof
  <2>2. t = CacheSize
    <3> HIDE DEF t
    <3>1. QED
      BY <1>3, <1>4, <1>6, Parameters
  <2>3. CacheInv'
    BY <1>1, <1>3, <2>1, CacheDropped DEF CacheInv, Typed, ReadReturns, server
  <2>4. QED
    BY <1>1, <1>2, <2>1, <2>2, <2>3
<1>7. QED
  BY <1>5, <1>6

\* A fill that fails leaves the cache invalid.
LEMMA FillGivesUp ==
  ASSUME CacheInv, FillFails
  PROVE  CacheInv'
<1>1. /\ Filling /\ op' = Idle /\ UNCHANGED <<content, client>>
      /\ spos' = spos \/ spos' = Smaller(spos + op.todo, Len(content))
  BY DEF FillFails, ReadReturns
<1>2. op \in ReadOps /\ cache_available = 0
  BY <1>1, Kinds DEF CacheInv, Filling, Progress
<1>3. spos' \in Nat
  <2> DEFINE t == op.todo
  <2>1. t \in Nat /\ spos \in Nat /\ Len(content) \in Nat
    BY <1>2, LenProperties DEF ReadOps, CacheInv, Typed
  <2> HIDE DEF t
  <2>2. Smaller(spos + t, Len(content)) \in Nat
    BY <2>1 DEF Smaller
  <2>3. QED
    BY <1>1, <2>1, <2>2 DEF t
<1>4. QED
  BY <1>1, <1>2, <1>3, CacheDropped DEF CacheInv, Typed, client, cachev

-----------------------------------------------------------------------------
(***************************************************************************)
(* The steps of a write.                                                   *)
(***************************************************************************)
LEMMA WriteStarts ==
  ASSUME CacheInv, NEW b \in Buffers, tnfs_write(b)
  PROVE  /\ CacheInv' /\ op' \in WriteOps /\ op'.b = b
         /\ op'.pc = IF cached_pos # file_position THEN "seek" ELSE "write"
<1> DEFINE p == IF cached_pos # file_position THEN "seek" ELSE "write"
<1>1. /\ op' = [kind |-> "write", b |-> b, pc |-> p] /\ cache_available' = 0
      /\ UNCHANGED <<server, file_position, file_size, cached_pos, cache_start, cache, result>>
  BY DEF tnfs_write
<1>2. p \in {"seek", "write"} /\ (p = "write" => cached_pos = file_position)
  OBVIOUS
<1> HIDE DEF p
<1>3. op' \in WriteOps /\ op'.kind = "write" /\ ~ Filling' /\ op'.pc = p /\ op'.b = b
  BY <1>1, <1>2, KindsNext DEF WriteOps
<1>4. Typed'
  BY <1>1, <1>3 DEF CacheInv, Typed, server
<1>5. Progress'
  <2>1. Len(cache) \in Nat
    BY LenProperties DEF CacheInv, Typed
  <2>2. QED
    BY <1>1, <1>2, <1>3, <2>1 DEF CacheInv, Progress
<1>6. AheadTrue'
  BY <1>1, <1>3 DEF AheadTrue, Ahead
<1>7. QED
  BY <1>3, <1>4, <1>5, <1>6 DEF CacheInv, p

LEMMA WriteSeeks ==
  ASSUME CacheInv, WriteSeek
  PROVE  /\ CacheInv' /\ op \in WriteOps /\ op' \in WriteOps /\ op'.b = op.b /\ op'.pc = "write"
<1>1. /\ op.kind = "write" /\ op' = [op EXCEPT !.pc = "write"]
      /\ spos' = cached_pos /\ file_position' = cached_pos
      /\ UNCHANGED <<content, file_size, cached_pos, cachev, result>>
  BY DEF WriteSeek
<1>2. op \in WriteOps /\ cache_available = 0
  BY <1>1, Kinds DEF CacheInv, Progress
<1>3. op' \in WriteOps /\ op'.b = op.b /\ op'.pc = "write"
  BY <1>1, <1>2 DEF WriteOps
<1>4. op'.kind = "write" /\ ~ Filling'
  BY <1>3, KindsNext
<1>5. Typed'
  BY <1>1, <1>3 DEF CacheInv, Typed, cachev
<1>6. Progress'
  BY <1>1, <1>2, <1>4 DEF CacheInv, Progress, cachev
<1>7. AheadTrue'
  BY <1>1, <1>2, <1>4 DEF AheadTrue, Ahead, cachev
<1>8. QED
  BY <1>2, <1>3, <1>5, <1>6, <1>7 DEF CacheInv

\* The server has written the first k bytes of the buffer.
LEMMA DataWritten ==
  ASSUME CacheInv, WriteData
  PROVE  /\ CacheInv' /\ op \in WriteOps /\ op.b \in Seq(Int) /\ op.pc = "write"
         /\ \E k \in 1 .. Len(op.b) :
              /\ SubSeq(op.b, 1, k) \in Seq(Int) /\ Len(SubSeq(op.b, 1, k)) = k
              /\ content' = Stored(SubSeq(op.b, 1, k))
              /\ spos' = spos + k /\ file_position' = file_position + k /\ cached_pos' = file_position'
              /\ op' = Idle /\ result' = [op |-> "write", res |-> "OK", n |-> k]
         /\ UNCHANGED <<file_size, cachev>>
<1>1. op.kind = "write" /\ op.pc = "write" /\ UNCHANGED <<file_size, cachev>>
  BY DEF WriteData
<1>2. op \in WriteOps /\ cache_available = 0
  BY <1>1, Kinds DEF CacheInv, Progress
<1> DEFINE b == op.b
<1>3. b \in Seq(Int) /\ Len(b) \in Nat
  BY <1>2, Parameters, LenProperties DEF WriteOps
<1>4. PICK k \in 1 .. Len(b) :
       /\ content' = Stored(SubSeq(b, 1, k))
       /\ spos' = spos + k
       /\ file_position' = file_position + k
       /\ cached_pos' = file_position'
       /\ op' = Idle /\ result' = [op |-> "write", res |-> "OK", n |-> k]
  BY DEF WriteData
<1> HIDE DEF b
<1>5. SubSeq(b, 1, k) \in Seq(Int) /\ Len(SubSeq(b, 1, k)) = k
  <2>1. k \in Nat /\ 0 + k <= Len(b) /\ 0 + 1 = 1 /\ 0 + k = k
    BY <1>3
  <2>2. SubSeq(b, 0 + 1, 0 + k) \in Seq(Int) /\ Len(SubSeq(b, 0 + 1, 0 + k)) = k
    BY <1>3, <2>1, Piece
  <2>3. QED
    BY <2>1, <2>2
<1>6. content' \in Seq(Int)
  BY <1>4, <1>5, StoredExact DEF CacheInv, Typed
<1>7. k \in Nat /\ spos \in Nat /\ file_position \in Nat
  BY <1>3 DEF CacheInv, Typed
<1>8. CacheInv'
  <2>1. /\ op' = Idle /\ cache_available' = 0 /\ UNCHANGED <<file_size, cache_start, cache>>
        /\ spos' \in Nat /\ file_position' \in Nat /\ cached_pos' \in Nat
    BY <1>1, <1>2, <1>4, <1>7 DEF cachev
  <2>2. QED
    BY <1>6, <2>1, CacheDropped
<1>9. QED
  BY <1>1, <1>2, <1>3, <1>4, <1>5, <1>8 DEF b

LEMMA WriteGivesUp ==
  ASSUME CacheInv, WriteFails
  PROVE  CacheInv'
<1>1. /\ op.kind = "write" /\ op' = Idle /\ UNCHANGED client
      /\ \/ UNCHANGED server
         \/ spos' = cached_pos /\ UNCHANGED content
         \/ spos' = spos + Len(op.b) /\ content' = Stored(op.b)
  BY DEF WriteFails
<1>2. op \in WriteOps /\ cache_available = 0
  BY <1>1, Kinds DEF CacheInv, Progress
<1>3. op.b \in Seq(Int) /\ Len(op.b) \in Nat
  BY <1>2, Parameters, LenProperties DEF WriteOps
<1>4. spos \in Nat /\ cached_pos \in Nat /\ content \in Seq(Int)
  BY DEF CacheInv, Typed
<1>5. spos + Len(op.b) \in Nat /\ Stored(op.b) \in Seq(Int)
  <2> DEFINE n == Len(op.b)
  <2>1. n \in Nat
    BY <1>3
  <2> HIDE DEF n
  <2>2. spos + n \in Nat
    BY <1>4, <2>1
  <2>3. QED
    BY <1>3, <1>4, <2>2, StoredExact DEF n
<1>6. spos' \in Nat /\ content' \in Seq(Int)
  BY <1>1, <1>4, <1>5 DEF server
<1>7. QED
  BY <1>1, <1>2, <1>6, CacheDropped DEF CacheInv, Typed, client, cachev

-----------------------------------------------------------------------------
(***************************************************************************)
(* Seeking.                                                                *)
(***************************************************************************)
LEMMA CacheSeeks ==
  ASSUME CacheInv, NEW off \in Offsets, NEW whence \in Whences, _tnfs_cache_seek(off, whence)
  PROVE  CacheInv'
<1> DEFINE d == Destination(off, whence)
<1>1. /\ op = Idle /\ op' = Idle /\ cached_pos' = d /\ cache_start <= d
      /\ UNCHANGED <<server, file_position, file_size, cachev>>
  BY DEF _tnfs_cache_seek, InCache
<1>2. cached_pos \in Nat /\ file_size \in Nat /\ cache_start \in Nat /\ ~ Filling
  BY <1>1, Kinds DEF CacheInv, Typed
<1>3. d \in Int
  BY <1>2, Parameters DEF Destination
<1> HIDE DEF d
<1>4. cached_pos' \in Nat
  BY <1>1, <1>2, <1>3
<1>5. QED
  BY <1>1, <1>2, <1>4, CacheKept

LEMMA Lseeks ==
  ASSUME CacheInv, NEW off \in Offsets, NEW whence \in Whences, tnfs_lseek(off, whence)
  PROVE  CacheInv'
<1>1. /\ op' = Idle /\ spos' \in 0 .. MaxLen /\ file_position' \in 0 .. MaxLen
      /\ cached_pos' = file_position' /\ cache_available' = 0
      /\ UNCHANGED <<content, file_size, cache_start, cache>>
  BY DEF tnfs_lseek
<1>2. QED
  BY <1>1, Parameters, CacheDropped DEF CacheInv, Typed

LEMMA LseekGivesUp ==
  ASSUME CacheInv, NEW off \in Offsets, NEW whence \in Whences, LseekFails(off, whence)
  PROVE  CacheInv'
<1>1. /\ op' = Idle /\ (spos' = spos \/ spos' \in 0 .. MaxLen)
      /\ cache_available' = 0
      /\ UNCHANGED <<content, file_position, file_size, cached_pos, cache_start, cache>>
  BY DEF LseekFails
<1>2. QED
  BY <1>1, Parameters, CacheDropped DEF CacheInv, Typed

-----------------------------------------------------------------------------
LEMMA CacheInitially == Init => CacheInv
<1> SUFFICES ASSUME Init PROVE CacheInv
  OBVIOUS
<1>1. op = Idle /\ Len(<<>>) = 0 /\ <<>> \in Seq(Int) /\ Len(Content0) \in Nat
  BY Parameters, LenProperties DEF Init
<1>2. Typed
  BY <1>1, Parameters DEF Init, Typed
<1>3. op.kind = "none" /\ ~ Filling
  BY <1>1, <1>2, Kinds
<1>4. Progress
  BY <1>1, <1>3, Parameters DEF Init, Progress
<1>5. AheadTrue
  BY <1>3 DEF Init, AheadTrue, Ahead
<1>6. QED
  BY <1>2, <1>4, <1>5 DEF CacheInv

LEMMA CacheInductive == CacheInv /\ [Next]_vars => CacheInv'
<1> SUFFICES ASSUME CacheInv, [Next]_vars PROVE CacheInv'
  OBVIOUS
<1>1. ASSUME NEW n \in 1 .. MaxRead, tnfs_read(n) PROVE CacheInv'
  BY <1>1, ReadStarts
<1>2. ASSUME NEW b \in Buffers, tnfs_write(b) PROVE CacheInv'
  BY <1>2, WriteStarts
<1>3. ASSUME NEW off \in Offsets, NEW whence \in Whences, _tnfs_cache_seek(off, whence) PROVE CacheInv'
  BY <1>3, CacheSeeks
<1>4. ASSUME NEW off \in Offsets, NEW whence \in Whences, tnfs_lseek(off, whence) PROVE CacheInv'
  BY <1>4, Lseeks
<1>5. ASSUME NEW off \in Offsets, NEW whence \in Whences, LseekFails(off, whence) PROVE CacheInv'
  BY <1>5, LseekGivesUp
<1>6. CASE Step
  BY <1>6, ReadFromCache, FillReads, FillEnds, FillGivesUp, WriteSeeks, DataWritten, WriteGivesUp DEF Step
<1>7. CASE UNCHANGED vars
  <2>1. UNCHANGED <<content, spos, file_position, file_size, cached_pos, cache_start, cache_available, cache, op>>
    BY <1>7 DEF vars, server, client, cachev
  <2>2. QED
    BY <2>1 DEF CacheInv, Typed, Progress, AheadTrue, Ahead, Filling
<1>8. QED
  BY <1>1, <1>2, <1>3, <1>4, <1>5, <1>6, <1>7 DEF Next

LEMMA CacheInvariant == Spec => []CacheInv
BY CacheInitially, CacheInductive, PTL DEF Spec

\* CacheTrue: the valid part of the read-ahead cache of tnfsFileHandleInfo lies
\* within its buffer and, while file_position is the server's offset, holds the
\* file's bytes at the positions it claims: for every file, cache size, sequence of
\* calls and transaction fault.
THEOREM CacheHoldsFile == Spec => []CacheTrue
<1>1. CacheInv => CacheTrue
  <2> SUFFICES ASSUME CacheInv PROVE CacheTrue
    OBVIOUS
  <2>1. /\ cache_available \in Nat /\ Len(cache) \in Nat /\ Len(content) \in Nat /\ cache_start \in Nat
        /\ cache_available <= Len(cache) /\ Len(cache) <= CacheSize
    BY LenProperties DEF CacheInv, Typed, Progress
  <2>2. ASSUME file_position = spos, NEW i \in 0 .. cache_available - 1
        PROVE  cache_start + i < Len(content) /\ cache[i + 1] = content[cache_start + i + 1]
    <3>1. Ahead = cache_available
      <4>1. cache_available > 0
        BY <2>1, <2>2
      <4>2. ~ Filling
        BY <2>1, <4>1 DEF CacheInv, Progress
      <4>3. QED
        BY <4>2 DEF Ahead
    <3>2. i + 1 \in 1 .. Ahead /\ cache_start + (i + 1) = cache_start + i + 1 /\ i \in Nat
      BY <2>1, <2>2, <3>1
    <3>3. cache_start + (i + 1) <= Len(content) /\ cache[i + 1] = content[cache_start + (i + 1)]
      BY <2>2, <3>2 DEF CacheInv, AheadTrue
    <3>4. QED
      BY <2>1, <3>2, <3>3
  <2>3. QED
    BY <2>1, <2>2 DEF CacheTrue
<1>2. QED
  BY <1>1, CacheInvariant, PTL

\* PositionsAgree: once file_position is the server's offset, only a request that the
\* server executed and no reply confirmed parts them, as tnfs_read, tnfs_write and
\* tnfs_lseek move both by the same amount.  A seek from the end of the file is left
\* out: tnfs_lseek computes it from file_size, which tnfs_write does not update.
THEOREM OffsetsAgree ==
  ASSUME "END" \notin Whences
  PROVE  Spec => PositionsAgree
<1> DEFINE Together == file_position = spos /\ (result'.res # "FAIL" \/ spos' = spos)
                         => file_position' = spos'
<1>1. ASSUME Next PROVE Together
  <2> SUFFICES ASSUME file_position = spos, result'.res # "FAIL" \/ spos' = spos
               PROVE  file_position' = spos'
    OBVIOUS
  <2>1. ASSUME NEW n \in 1 .. MaxRead, tnfs_read(n) PROVE file_position' = spos'
    BY <2>1 DEF tnfs_read, server, client
  <2>2. ASSUME NEW b \in Buffers, tnfs_write(b) PROVE file_position' = spos'
    BY <2>2 DEF tnfs_write, server
  <2>3. ASSUME NEW off \in Offsets, NEW whence \in Whences, _tnfs_cache_seek(off, whence)
        PROVE  file_position' = spos'
    BY <2>3 DEF _tnfs_cache_seek, server
  <2>4. ASSUME NEW off \in Offsets, NEW whence \in Whences, tnfs_lseek(off, whence)
        PROVE  file_position' = spos'
    <3>1. whence \in {"SET", "CUR"}
      BY Parameters
    <3>2. ServerTarget(off, whence) = ClientTarget(off, whence)
      BY <3>1 DEF ServerTarget, ClientTarget
    <3>3. QED
      BY <2>4, <3>2 DEF tnfs_lseek
  <2>5. ASSUME NEW off \in Offsets, NEW whence \in Whences, LseekFails(off, whence)
        PROVE  file_position' = spos'
    <3>1. result'.res = "FAIL" /\ file_position' = file_position
      BY <2>5 DEF LseekFails
    <3>2. QED
      BY <3>1
  <2>6. CASE _tnfs_read_from_cache
    BY <2>6 DEF _tnfs_read_from_cache, server
  <2>7. CASE FillRead
    BY <2>7 DEF FillRead
  <2>8. CASE FillEof
    BY <2>8 DEF FillEof, server
  <2>9. CASE FillFails
    <3>1. result'.res = "FAIL" /\ file_position' = file_position
      BY <2>9 DEF FillFails, ReadReturns, client
    <3>2. QED
      BY <3>1
  <2>10. CASE WriteSeek
    BY <2>10 DEF WriteSeek
  <2>11. CASE WriteData
    BY <2>11 DEF WriteData
  <2>12. CASE WriteFails
    <3>1. result'.res = "FAIL" /\ file_position' = file_position
      BY <2>12 DEF WriteFails, client
    <3>2. QED
      BY <3>1
  <2>13. QED
    BY <1>1, <2>1, <2>2, <2>3, <2>4, <2>5, <2>6, <2>7, <2>8, <2>9, <2>10, <2>11, <2>12 DEF Next, Step
<1>2. [Next]_vars => [Together]_vars
  BY <1>1
<1>3. QED
  BY <1>2, PTL DEF Spec, PositionsAgree

-----------------------------------------------------------------------------
(***************************************************************************)
(* The cached file is a file.                                              *)
(***************************************************************************)
\* No transaction fails, no seek is relative to the caller or goes before the start,
\* and the file does not grow: outside of this the client's view of its positions or
\* of the file's size parts from the server's.
Undisturbed ==
  Faults = {} /\ "CUR" \notin Whences /\ Offsets \subseteq Nat /\ MaxLen <= Len(Content0)

\* The caller is in the part that was read ahead or at its end, and a read in
\* progress has the bytes between its start and the caller.
Exact ==
  /\ file_position = spos /\ Len(content) = file_size /\ file_size = Len(Content0)
  /\ cached_pos <= file_position /\ file_position <= Len(content)
  /\ Filling => cached_pos = cache_start
  /\ ~ Filling /\ cache_available > 0 => cache_start <= cached_pos
  /\ ~ Filling /\ cache_available = 0 /\ op.kind # "write" => cached_pos = file_position
  /\ op.kind = "write" => cached_pos + Len(op.b) <= MaxLen
  /\ op.kind = "read" => /\ cached_pos = op.start + Len(op.out) /\ op.n \in 1 .. MaxRead
                         /\ \A i \in 1 .. Len(op.out) : op.out[i] = content[op.start + i]

Refines == [Abs!Next]_(Abs!fvars)

LEMMA Stutter ==
  ASSUME UNCHANGED <<content, result, IF op.kind = "read" THEN op.start ELSE cached_pos>>
  PROVE  Refines
BY DEF Refines, Abs!fvars

\* A read that returns what lies between its start and where it leaves the caller, and
\* is short only at the end of the file.
LEMMA ReadAnswers ==
  ASSUME CacheInv, Exact, op \in ReadOps,
         NEW STATE out, out \in Seq(Int), Len(out) <= op.n,
         op.start + Len(out) <= Len(content),
         \A i \in 1 .. Len(out) : out[i] = content[op.start + i],
         \/ ReadReturns("OK", out) /\ Len(out) = op.n
         \/ ReadReturns("EOF", out) /\ Len(out) < op.n /\ op.start + Len(out) = Len(content),
         cached_pos' = op.start + Len(out), content' = content
  PROVE  Refines
<1> DEFINE res == IF Len(out) = op.n THEN "OK" ELSE "EOF"
<1>0. /\ op' = Idle /\ result' = [op |-> "read", res |-> res, start |-> op.start, n |-> op.n, out |-> out]
      /\ \/ res = "OK" /\ Len(out) = op.n
         \/ res = "EOF" /\ Len(out) < op.n /\ op.start + Len(out) = Len(content)
  <2> DEFINE l == Len(out)
             n == op.n
  <2>1. l \in Nat /\ n \in Nat
    BY LenProperties DEF ReadOps
  <2> HIDE DEF l, n
  <2>2. l < n => l # n
    BY <2>1
  <2>3. CASE l = n
    BY <2>2, <2>3 DEF ReadReturns, l, n
  <2>4. CASE l # n
    BY <2>4 DEF ReadReturns, l, n
  <2>5. QED
    BY <2>3, <2>4
<1> HIDE DEF res
<1> DEFINE n == op.n
           p == op.start
           l == Len(out)
           k == Abs!Clip(content, p, n)
<1>1. n \in Nat /\ p \in Nat /\ l \in Nat /\ Len(content) \in Nat /\ n \in 1 .. MaxRead /\ content \in Seq(Int)
  BY Kinds, LenProperties DEF ReadOps, Exact, CacheInv, Typed
<1>2. op.kind = "read" /\ op'.kind = "none"
  BY <1>0, KindsNext, Kinds DEF CacheInv
<1>3. result' = [op |-> "read", res |-> res, start |-> p, n |-> n, out |-> out]
  BY <1>0
<1>4. /\ p + l <= Len(content) /\ l <= n
      /\ \/ res = "OK" /\ l = n
         \/ res = "EOF" /\ l < n /\ p + l = Len(content)
      /\ cached_pos' = p + l
      /\ \A i \in 1 .. l : out[i] = content[p + i]
  BY <1>0
<1> HIDE DEF n, p, l
<1>5. k = l
  BY <1>1, <1>4 DEF Abs!Clip
<1>6. res = IF k = n THEN "OK" ELSE "EOF"
  BY <1>1, <1>4, <1>5
<1> HIDE DEF k
<1>7. out = Abs!At(content, p, k)
  <2>1. /\ SubSeq(content, p + 1, p + l) \in Seq(Int) /\ Len(SubSeq(content, p + 1, p + l)) = l
        /\ \A i \in 1 .. l : SubSeq(content, p + 1, p + l)[i] = content[p + i]
    BY <1>1, <1>4, Piece
  <2>2. Len(out) = l
    BY DEF l
  <2>3. out = SubSeq(content, p + 1, p + l)
    BY <1>4, <2>1, <2>2, SeqEqual
  <2>4. QED
    BY <1>5, <2>3 DEF Abs!At
<1>8. /\ p = IF op.kind = "read" THEN op.start ELSE cached_pos
      /\ (IF op.kind = "read" THEN op.start ELSE cached_pos)' = p + k
  BY <1>2, <1>4, <1>5 DEF p
<1>9. Abs!Read(n)
  BY <1>3, <1>6, <1>7, <1>8 DEF Abs!Read, k
<1>10. QED
  BY <1>1, <1>9 DEF Refines, Abs!Next

\* Types that the steps below use.
LEMMA Numbers ==
  ASSUME CacheInv
  PROVE  /\ content \in Seq(Int) /\ Len(content) \in Nat /\ spos \in Nat /\ cached_pos \in Nat
         /\ file_position \in Nat /\ file_size \in Nat /\ cache_start \in Nat /\ cache_available \in Nat
         /\ cache \in Seq(Int) /\ Len(cache) \in Nat
         /\ op \in ReadOps => /\ op.n \in Nat /\ op.out \in Seq(Int) /\ Len(op.out) \in Nat
                              /\ op.start \in Nat /\ op.todo \in Nat /\ op.kind = "read"
         /\ op \in WriteOps => op.b \in Seq(Int) /\ Len(op.b) \in Nat /\ op.kind = "write" /\ ~ Filling
         /\ op = Idle => op.kind = "none" /\ ~ Filling
<1>1. /\ content \in Seq(Int) /\ spos \in Nat /\ cached_pos \in Nat
      /\ file_position \in Nat /\ file_size \in Nat /\ cache_start \in Nat /\ cache_available \in Nat
      /\ cache \in Seq(Int)
  BY DEF CacheInv, Typed
<1>2. /\ op \in ReadOps => /\ op.n \in Nat /\ op.out \in Seq(Int)
                           /\ op.start \in Nat /\ op.todo \in Nat /\ op.kind = "read"
      /\ op \in WriteOps => op.b \in Seq(Int) /\ op.kind = "write" /\ ~ Filling
      /\ op = Idle => op.kind = "none" /\ ~ Filling
  BY Kinds, Parameters DEF ReadOps, WriteOps, CacheInv
<1>3. QED
  BY <1>1, <1>2, LenProperties

LEMMA ReadStartsExact ==
  ASSUME CacheInv, Exact, NEW n \in 1 .. MaxRead, tnfs_read(n)
  PROVE  Exact' /\ Refines
<1>1. op = Idle /\ UNCHANGED <<server, client, result>>
  BY DEF tnfs_read
<1>2. IsRead(op', n, <<>>, cached_pos, "cache", 0)
  BY ReadStarts
<1>3. /\ op'.kind = "read" /\ ~ Filling' /\ op'.n = n /\ op'.out = <<>> /\ op'.start = cached_pos
      /\ op.kind = "none" /\ ~ Filling
  BY <1>1, <1>2, KindsNext, Numbers DEF IsRead, Filling
<1>4. cached_pos = cached_pos + Len(<<>>) /\ Len(<<>>) = 0
  BY Numbers
<1>5. Exact'
  BY <1>1, <1>3, <1>4 DEF Exact, server, client, cachev
<1>6. QED
  BY <1>1, <1>3, <1>5, Stutter DEF server, client

\* What a look at the cache adds continues the read, and empties the part that was read
\* ahead unless the read is complete.
LEMMA GotExact ==
  ASSUME CacheInv, Exact, op \in ReadOps, op.pc = "cache"
  PROVE  /\ cached_pos + Len(Got) <= file_position
         /\ \A i \in 1 .. Len(Got) : Got[i] = content[cached_pos + i]
         /\ Len(op.out) + Len(Got) < op.n => cached_pos + Len(Got) = file_position
         /\ cache_available > 0 => cache_start <= cached_pos
<1>1. ~ Filling /\ op.kind = "read"
  BY Numbers DEF Filling
<1>2. CASE cache_available = 0
  <2>1. Got = <<>> /\ cached_pos = file_position
    BY <1>1, <1>2 DEF Got, Exact
  <2>2. QED
    BY <1>2, <2>1, Numbers
<1>3. CASE cache_available # 0
  <2> DEFINE g == Len(Got)
             left == op.n - Len(op.out)
             m == cached_pos - cache_start
  <2>1. cache_available > 0 /\ cache_start <= cached_pos /\ cached_pos <= file_position
    BY <1>1, <1>3, Numbers DEF Exact
  <2>2. cache_start + cache_available = file_position /\ file_position = spos
    BY <2>1 DEF CacheInv, Progress, Exact
  <2>3. /\ Got \in Seq(Int) /\ g <= left
        /\ g > 0 => cached_pos + g <= cache_start + cache_available
        /\ \A i \in 1 .. g : Got[i] = cache[m + i]
        /\ g < left => cached_pos < cache_start \/ cached_pos + g >= cache_start + cache_available
    BY <2>1, CacheAdds
  <2>4. g \in Nat
    BY <2>3, LenProperties
  <2>5. \A i \in 1 .. cache_available : cache[i] = content[cache_start + i]
    BY <1>1, <2>2 DEF CacheInv, AheadTrue, Ahead
  <2>6. Len(op.out) + g < op.n => g < left
    <3> DEFINE a == Len(op.out)
               n == op.n
    <3>1. a \in Nat /\ n \in Nat
      BY Numbers
    <3> HIDE DEF a, n, g
    <3>2. a + g < n => g < n - a
      BY <2>4, <3>1
    <3>3. QED
      BY <3>2 DEF a, n
  <2> HIDE DEF g, left
  <2>0. cached_pos \in Nat /\ cache_start \in Nat /\ cache_available \in Nat /\ file_position \in Nat
    BY Numbers
  <2>7. cached_pos + g <= file_position
    BY <2>0, <2>1, <2>2, <2>3, <2>4
  <2>8. g < left => cached_pos + g = file_position
    <3>1. g < left => cached_pos < cache_start \/ cached_pos + g >= cache_start + cache_available
      BY <2>3
    <3>2. QED
      BY <2>0, <2>1, <2>2, <2>4, <2>7, <3>1
  <2>9. ASSUME NEW i \in 1 .. g PROVE Got[i] = content[cached_pos + i]
    <3>1. m + i \in 1 .. cache_available /\ cache_start + (m + i) = cached_pos + i
      BY <2>0, <2>1, <2>2, <2>4, <2>7, <2>9
    <3> HIDE DEF m
    <3>2. QED
      BY <2>3, <2>5, <2>9, <3>1
  <2>10. QED
    BY <2>1, <2>6, <2>7, <2>8, <2>9 DEF g
<1>4. QED
  BY <1>2, <1>3

\* Adding bytes at the caller's position to what a read has.
LEMMA ReadContinues ==
  ASSUME CacheInv, Exact, op \in ReadOps, op.pc = "cache"
  PROVE  /\ Len(op.out \o Got) = Len(op.out) + Len(Got) /\ op.out \o Got \in Seq(Int)
         /\ cached_pos + Len(Got) = op.start + Len(op.out \o Got)
         /\ \A i \in 1 .. Len(op.out \o Got) : (op.out \o Got)[i] = content[op.start + i]
         /\ Len(Got) \in Nat
<1> DEFINE a == op.out
           p == op.start
           out == op.out \o Got
<1>1. /\ a \in Seq(Int) /\ Len(a) \in Nat /\ p \in Nat /\ op.kind = "read" /\ cached_pos \in Nat
  BY Numbers
<1>2. cached_pos = p + Len(a) /\ \A i \in 1 .. Len(a) : a[i] = content[p + i]
  BY <1>1 DEF Exact
<1>3. Got \in Seq(Int) /\ Len(Got) \in Nat
  <2>1. CASE cache_available = 0
    BY <2>1 DEF Got
  <2>2. CASE cache_available # 0
    <3>1. cache_available > 0
      BY <2>2, Numbers
    <3>2. QED
      BY <3>1, CacheAdds, LenProperties
  <2>3. QED
    BY <2>1, <2>2
<1>4. \A i \in 1 .. Len(Got) : Got[i] = content[cached_pos + i]
  BY GotExact
<1>5. /\ out \in Seq(Int) /\ Len(out) = Len(a) + Len(Got)
      /\ \A i \in 1 .. Len(a) + Len(Got) : out[i] = IF i <= Len(a) THEN a[i] ELSE Got[i - Len(a)]
  BY <1>1, <1>3, ConcatProperties
<1> HIDE DEF a, p, out
<1>6. cached_pos + Len(Got) = p + Len(out)
  BY <1>1, <1>2, <1>3, <1>5
<1>7. ASSUME NEW i \in 1 .. Len(out) PROVE out[i] = content[p + i]
  <2>1. CASE i <= Len(a)
    BY <1>1, <1>2, <1>3, <1>5, <1>7, <2>1
  <2>2. CASE i > Len(a)
    <3>1. i - Len(a) \in 1 .. Len(Got) /\ cached_pos + (i - Len(a)) = p + i /\ out[i] = Got[i - Len(a)]
      BY <1>1, <1>2, <1>3, <1>5, <1>7, <2>2
    <3>2. QED
      BY <1>4, <3>1
  <2>3. QED
    BY <1>1, <1>3, <1>5, <1>7, <2>1, <2>2
<1>8. QED
  BY <1>3, <1>5, <1>6, <1>7 DEF a, p, out

\* A call that returns: nothing is filled, and the caller is where it was left.
LEMMA ReturnExact ==
  ASSUME CacheInv, Exact, op' = Idle, UNCHANGED <<server, file_position, file_size, cachev>>,
         cached_pos' <= file_position,
         cache_available > 0 => cache_start <= cached_pos',
         cache_available = 0 => cached_pos' = file_position
  PROVE  Exact'
<1>1. op'.kind = "none" /\ ~ Filling'
  BY KindsNext
<1>2. QED
  BY <1>1 DEF Exact, server, cachev

LEMMA ReadFromCacheExact ==
  ASSUME CacheInv, Exact, _tnfs_read_from_cache
  PROVE  Exact' /\ Refines
<1>1. /\ op \in ReadOps /\ op.pc = "cache" /\ UNCHANGED <<server, file_position, file_size>>
      /\ op.kind = "read" /\ ~ Filling
  BY ReadLooks, Numbers DEF Filling
<1> DEFINE g == Len(Got)
           n == op.n
           a == Len(op.out)
           p == op.start
<1>2. /\ g \in Nat /\ n \in Nat /\ a \in Nat /\ p \in Nat /\ cached_pos \in Nat /\ file_position \in Nat
      /\ cache_available \in Nat /\ cache_start \in Nat /\ Len(content) \in Nat
  BY <1>1, Numbers, ReadContinues
<1>3. /\ cached_pos = p + a /\ cached_pos <= file_position /\ file_position <= Len(content) /\ a < n
      /\ cached_pos + g <= file_position /\ (cache_available > 0 => cache_start <= cached_pos)
      /\ (cache_available = 0 => cached_pos = file_position) /\ (a + g < n => cached_pos + g = file_position)
      /\ file_size = Len(content)
  BY <1>1, GotExact DEF Exact, CacheInv, Progress
<1>4. CASE AtEndOfFile /\ ReadReturns("EOF", op.out) /\ UNCHANGED <<cachev, cached_pos>>
  <2>1. op' = Idle
    BY <1>4 DEF ReadReturns
  <2>2. Exact'
    BY <1>1, <1>2, <1>3, <1>4, <2>1, ReturnExact
  <2>3. p + a = Len(content) /\ a <= n /\ a < n
    <3> HIDE DEF p, a, n, g
    <3>1. QED
      BY <1>2, <1>3, <1>4 DEF AtEndOfFile
  <2>4. /\ op.out \in Seq(Int) /\ (\A i \in 1 .. Len(op.out) : op.out[i] = content[op.start + i])
        /\ op.start + Len(op.out) <= Len(content) /\ cached_pos' = op.start + Len(op.out) /\ content' = content
    <3>1. p + a <= Len(content)
      BY <1>2, <2>3
    <3>2. QED
      BY <1>1, <1>3, <1>4, <3>1, Numbers DEF Exact, server
  <2>5. Refines
    BY <1>1, <1>4, <2>3, <2>4, ReadAnswers
  <2>6. QED
    BY <2>2, <2>5
<1>5. CASE /\ ReadReturns("OK", op.out \o Got) /\ UNCHANGED cachev
           /\ a + g = n /\ cached_pos' = cached_pos + g
  <2>1. op' = Idle
    BY <1>5 DEF ReadReturns
  <2>2. Exact'
    <3>1. cached_pos' <= file_position /\ (cache_available > 0 => cache_start <= cached_pos')
      <4> HIDE DEF g, n, a, p
      <4>1. QED
        BY <1>2, <1>3, <1>5
    <3>2. cache_available = 0 => cached_pos' = file_position
      <4> HIDE DEF g, n, a, p
      <4>1. QED
        BY <1>2, <1>3, <1>5
    <3>3. QED
      BY <1>1, <1>5, <2>1, <3>1, <3>2, ReturnExact
  <2>3. /\ Len(op.out \o Got) = op.n /\ op.out \o Got \in Seq(Int) /\ Len(op.out \o Got) <= op.n
        /\ cached_pos' = op.start + Len(op.out \o Got) /\ op.start + Len(op.out \o Got) <= Len(content)
        /\ \A i \in 1 .. Len(op.out \o Got) : (op.out \o Got)[i] = content[op.start + i]
    <3> DEFINE out == op.out \o Got
    <3>1. /\ Len(out) = a + g /\ out \in Seq(Int) /\ cached_pos + g = p + Len(out)
          /\ \A i \in 1 .. Len(out) : out[i] = content[p + i]
      BY <1>1, ReadContinues
    <3> HIDE DEF out, a, g, n, p
    <3>2. /\ Len(out) = n /\ Len(out) <= n /\ cached_pos' = p + Len(out) /\ p + Len(out) <= Len(content)
      BY <1>2, <1>3, <1>5, <3>1
    <3>3. QED
      BY <3>1, <3>2 DEF out, n, p
  <2>4. content' = content
    BY <1>1 DEF server
  <2>5. Refines
    <3> DEFINE out == op.out \o Got
    <3>1. /\ Len(out) = op.n /\ out \in Seq(Int) /\ Len(out) <= op.n
          /\ cached_pos' = op.start + Len(out) /\ op.start + Len(out) <= Len(content)
          /\ \A i \in 1 .. Len(out) : out[i] = content[op.start + i]
          /\ ReadReturns("OK", out)
      BY <1>5, <2>3
    <3> HIDE DEF out
    <3>2. QED
      BY <1>1, <2>4, <3>1, ReadAnswers
  <2>6. QED
    BY <2>2, <2>5
<1>6. CASE /\ StartFill(op.out \o Got)
           /\ a + g < n /\ cached_pos' = cached_pos + g
  <2>1. /\ op' = [op EXCEPT !.out = op.out \o Got, !.pc = "fill", !.todo = CacheSize]
        /\ cache_available' = 0 /\ cache_start' = file_position /\ cache' = <<>> /\ result' = result
    BY <1>6 DEF StartFill
  <2>2. IsRead(op', op.n, op.out \o Got, op.start, "fill", CacheSize)
    <3> DEFINE out == op.out \o Got
    <3>1. out \in Seq(Int) /\ CacheSize \in Nat
      BY <1>1, Parameters, ReadContinues
    <3> HIDE DEF out
    <3>2. IsRead([op EXCEPT !.out = out, !.pc = "fill", !.todo = CacheSize], op.n, out, op.start, "fill", CacheSize)
      BY <1>1, <3>1, ReadUpdated
    <3>3. QED
      BY <2>1, <3>2 DEF out
  <2>3. /\ op' \in ReadOps /\ op'.kind = "read" /\ Filling'
        /\ op'.out = op.out \o Got /\ op'.start = op.start /\ op'.n = op.n
    BY <2>2, KindsNext DEF IsRead, Filling
  <2>4. /\ cached_pos' = file_position /\ cached_pos' = op.start + Len(op.out \o Got)
        /\ \A i \in 1 .. Len(op.out \o Got) : (op.out \o Got)[i] = content[op.start + i]
    BY <1>1, <1>3, <1>6, ReadContinues
  <2>5. Exact'
    <3>1. /\ content' = content /\ spos' = spos /\ file_position' = file_position /\ file_size' = file_size
      BY <1>1 DEF server
    <3>2. op.n \in 1 .. MaxRead
      BY <1>1 DEF Exact
    <3>3. /\ file_position = spos /\ Len(content) = file_size /\ file_size = Len(Content0)
          /\ file_position <= Len(content) /\ file_position <= file_position
      BY <1>2 DEF Exact
    <3> HIDE DEF g, n, a, p
    <3>4. QED
      BY <2>1, <2>3, <2>4, <3>1, <3>2, <3>3 DEF Exact
  <2>6. Refines
    BY <1>1, <2>1, <2>3, Stutter DEF server
  <2>7. QED
    BY <2>5, <2>6
<1>7. QED
  BY <1>4, <1>5, <1>6, ReadLooks

LEMMA FillReadsExact ==
  ASSUME CacheInv, Exact, FillRead
  PROVE  Exact' /\ Refines
<1>1. PICK k \in Nat :
         /\ k > 0 /\ spos + k <= Len(content) /\ op \in ReadOps
         /\ spos' = spos + k /\ file_position' = file_position + k
         /\ \/ /\ cache_available' = CacheSize
               /\ IsRead(op', op.n, op.out, op.start, "cache", 0)
            \/ IsRead(op', op.n, op.out, op.start, "fill", op.todo - k)
         /\ UNCHANGED <<content, file_size, cached_pos, cache_start, result>>
  BY FillAdds
<1>2. /\ op' \in ReadOps /\ op'.kind = "read" /\ op'.n = op.n /\ op'.out = op.out /\ op'.start = op.start
      /\ Filling' \/ (~ Filling' /\ cache_available' = CacheSize)
  BY <1>1, KindsNext DEF IsRead, Filling
<1>3. Filling /\ op.kind = "read" /\ cached_pos = cache_start
  BY DEF FillRead, Filling, Exact
<1>4. /\ cached_pos' <= file_position' /\ file_position' <= Len(content') /\ file_position' = spos'
  <2>1. cached_pos <= file_position /\ file_position = spos
    BY DEF Exact
  <2>2. cached_pos <= file_position + k /\ file_position + k <= Len(content)
    BY <1>1, <2>1, Numbers
  <2>3. QED
    BY <1>1, <2>1, <2>2
<1>5. Filling' => cached_pos' = cache_start'
  BY <1>1, <1>3
<1>6. CacheSize > 0 /\ cache_start <= cache_start
  BY Parameters, Numbers
<1>7. /\ cached_pos' = op'.start + Len(op'.out) /\ op'.n \in 1 .. MaxRead
      /\ \A i \in 1 .. Len(op'.out) : op'.out[i] = content'[op'.start + i]
  BY <1>1, <1>2, <1>3 DEF Exact
<1>8. Len(content') = file_size' /\ file_size' = Len(Content0)
  BY <1>1 DEF Exact
<1>9. ~ Filling' => cache_start' <= cached_pos' /\ cache_available' # 0
  BY <1>1, <1>2, <1>3, <1>6
<1>10. Exact'
  BY <1>2, <1>4, <1>5, <1>7, <1>8, <1>9 DEF Exact
<1>11. Refines
  BY <1>1, <1>2, <1>3, Stutter
<1>12. QED
  BY <1>10, <1>11

LEMMA FillEndsExact ==
  ASSUME CacheInv, Exact, FillEof
  PROVE  Exact' /\ Refines
<1>1. /\ op \in ReadOps /\ Filling /\ op.kind = "read" /\ spos >= Len(content) /\ cached_pos = cache_start
      /\ UNCHANGED <<server, file_position, file_size, cached_pos, cache_start, cache>>
      /\ \/ op.todo < CacheSize /\ IsRead(op', op.n, op.out, op.start, "cache", op.todo)
            /\ cache_available' = Len(cache) /\ UNCHANGED result
         \/ op.todo = CacheSize /\ ReadReturns("EOF", op.out) /\ UNCHANGED cache_available
  BY FillEnds DEF FillEof, Filling, Exact
<1> DEFINE t == op.todo
           p == op.start
           a == Len(op.out)
           n == op.n
<1>2. /\ t \in Nat /\ p \in Nat /\ a \in Nat /\ n \in Nat /\ cache_available = 0
      /\ Len(cache) = CacheSize - t /\ cache_start + Len(cache) = file_position
      /\ cached_pos = p + a /\ a < n /\ file_position = spos /\ file_position <= Len(content)
  BY <1>1, Numbers DEF CacheInv, Progress, Exact
<1>3. /\ cached_pos \in Nat /\ file_position \in Nat /\ cache_start \in Nat /\ Len(cache) \in Nat
      /\ CacheSize \in Nat /\ Len(content) \in Nat
  BY Numbers, Parameters
<1>4. CASE /\ t < CacheSize /\ IsRead(op', op.n, op.out, op.start, "cache", op.todo)
           /\ cache_available' = Len(cache) /\ UNCHANGED result
  <2>1. /\ op' \in ReadOps /\ op'.kind = "read" /\ op'.n = op.n /\ op'.out = op.out /\ op'.start = op.start
        /\ ~ Filling'
    BY <1>4, KindsNext DEF IsRead, Filling
  <2>2. Len(cache) > 0 /\ cache_start <= cached_pos
    <3> HIDE DEF t, p, a, n
    <3>1. QED
      BY <1>1, <1>2, <1>3, <1>4
  <2>3. /\ cached_pos' = op'.start + Len(op'.out) /\ op'.n \in 1 .. MaxRead
        /\ \A i \in 1 .. Len(op'.out) : op'.out[i] = content'[op'.start + i]
    BY <1>1, <2>1 DEF Exact, server
  <2>4. cache_available' # 0 /\ cache_start' <= cached_pos'
    BY <1>1, <1>3, <1>4, <2>2
  <2>5. /\ cached_pos' <= file_position' /\ file_position' <= Len(content') /\ file_position' = spos'
        /\ Len(content') = file_size' /\ file_size' = Len(Content0)
    BY <1>1 DEF Exact, server
  <2>6. Exact'
    BY <2>1, <2>3, <2>4, <2>5 DEF Exact
  <2>7. Refines
    BY <1>1, <1>4, <2>1, Stutter DEF server
  <2>8. QED
    BY <2>6, <2>7
<1>5. CASE t = CacheSize /\ ReadReturns("EOF", op.out) /\ UNCHANGED cache_available
  <2>1. op' = Idle /\ UNCHANGED <<server, file_position, file_size, cachev>>
    BY <1>1, <1>5 DEF ReadReturns, cachev
  <2>2. cached_pos' = file_position /\ cached_pos' <= file_position /\ p + a = Len(content) /\ p + a <= Len(content)
    <3> HIDE DEF t, p, a, n
    <3>1. cached_pos' = cached_pos
      BY <1>1
    <3>2. QED
      BY <1>1, <1>2, <1>3, <1>5, <3>1
  <2>3. ~ (cache_available > 0)
    BY <1>2
  <2>4. Exact'
    BY <2>1, <2>2, <2>3, ReturnExact
  <2>5. a <= n /\ cached_pos' = p + a /\ content' = content
    <3>1. cached_pos' = p + a /\ content' = content
      BY <1>1, <1>2 DEF server
    <3> HIDE DEF a, n
    <3>2. QED
      BY <1>2, <3>1
  <2>6. op.out \in Seq(Int) /\ \A i \in 1 .. Len(op.out) : op.out[i] = content[op.start + i]
    BY <1>1, Numbers DEF Exact
  <2>7. Refines
    BY <1>1, <1>2, <1>5, <2>2, <2>5, <2>6, ReadAnswers
  <2>8. QED
    BY <2>4, <2>7
<1>6. QED
  BY <1>1, <1>4, <1>5

LEMMA WriteStartsExact ==
  ASSUME CacheInv, Exact, NEW b \in Buffers, tnfs_write(b)
  PROVE  Exact' /\ Refines
<1>1. /\ op = Idle /\ cached_pos + Len(b) <= MaxLen /\ cache_available' = 0
      /\ UNCHANGED <<server, file_position, file_size, cached_pos, cache_start, cache, result>>
  BY DEF tnfs_write
<1>2. op' \in WriteOps /\ op'.b = b
  BY WriteStarts
<1>3. op'.kind = "write" /\ ~ Filling' /\ op.kind = "none"
  BY <1>1, <1>2, KindsNext, Numbers
<1>4. Exact'
  BY <1>1, <1>2, <1>3 DEF Exact, server
<1>5. Refines
  BY <1>1, <1>3, Stutter DEF server
<1>6. QED
  BY <1>4, <1>5

LEMMA WriteSeeksExact ==
  ASSUME CacheInv, Exact, WriteSeek, MaxLen <= Len(Content0)
  PROVE  Exact' /\ Refines
<1>1. /\ op \in WriteOps /\ op' \in WriteOps /\ op'.b = op.b /\ op.kind = "write" /\ op.b \in Seq(Int)
  BY WriteSeeks, Numbers
<1>2. /\ spos' = cached_pos /\ file_position' = cached_pos
      /\ UNCHANGED <<content, file_size, cached_pos, cachev, result>>
  BY DEF WriteSeek
<1>3. op'.kind = "write" /\ ~ Filling'
  BY <1>1, KindsNext
<1>4. cached_pos + Len(op.b) <= MaxLen /\ cache_available = 0 /\ Len(content) = Len(Content0)
  BY <1>1 DEF Exact, CacheInv, Progress
<1>5. cached_pos <= cached_pos /\ cached_pos <= Len(content)
  <2> DEFINE l == Len(op.b)
  <2>1. l \in Nat /\ cached_pos + l <= MaxLen
    BY <1>1, <1>4, Numbers
  <2> HIDE DEF l
  <2>2. QED
    BY <1>4, <2>1, Numbers, Parameters
<1>6. Exact'
  <2>1. Len(content') = file_size' /\ file_size' = Len(Content0) /\ cache_available' = 0
    BY <1>2, <1>4 DEF Exact, cachev
  <2>2. cached_pos' + Len(op'.b) <= MaxLen
    BY <1>1, <1>2, <1>4
  <2>3. file_position' = spos' /\ cached_pos' <= file_position' /\ file_position' <= Len(content')
    BY <1>2, <1>5
  <2>4. ~ (cache_available' > 0)
    BY <2>1
  <2>5. QED
    BY <1>3, <2>1, <2>2, <2>3, <2>4 DEF Exact
<1>7. Refines
  BY <1>1, <1>2, <1>3, Stutter
<1>8. QED
  BY <1>6, <1>7

LEMMA DataWrittenExact ==
  ASSUME CacheInv, Exact, WriteData, MaxLen <= Len(Content0)
  PROVE  Exact' /\ Refines
<1>1. op \in WriteOps /\ op.b \in Seq(Int) /\ op.pc = "write" /\ UNCHANGED <<file_size, cachev>>
  BY DataWritten
<1>2. /\ op.kind = "write" /\ cached_pos = file_position /\ cache_available = 0 /\ file_position = spos
      /\ cached_pos + Len(op.b) <= MaxLen /\ Len(content) = file_size /\ file_size = Len(Content0)
      /\ op.b \in Buffers
  BY <1>1, Numbers DEF CacheInv, Progress, Exact, WriteOps
<1> DEFINE b == op.b
<1>3. PICK k \in 1 .. Len(b) :
        /\ SubSeq(b, 1, k) \in Seq(Int) /\ Len(SubSeq(b, 1, k)) = k
        /\ content' = Stored(SubSeq(b, 1, k))
        /\ spos' = spos + k /\ file_position' = file_position + k /\ cached_pos' = file_position'
        /\ op' = Idle /\ result' = [op |-> "write", res |-> "OK", n |-> k]
  BY DataWritten
<1>4. Len(b) \in Nat /\ k \in Nat /\ k <= Len(b)
  BY <1>1, LenProperties
<1>5. b \in Buffers /\ cached_pos + Len(b) <= MaxLen
  BY <1>2
<1> HIDE DEF b
<1>6. spos + k <= Len(content)
  BY <1>2, <1>4, <1>5, Numbers, Parameters
<1>7. Len(content') = Len(content)
  <2> DEFINE d == SubSeq(b, 1, k)
  <2>1. d \in Seq(Int) /\ Len(d) = k /\ content' = Stored(d)
    BY <1>3
  <2> HIDE DEF d
  <2>2. Len(Stored(d)) = IF spos + Len(d) > Len(content) THEN spos + Len(d) ELSE Len(content)
    BY <2>1, Numbers, StoredExact
  <2>3. ~ (spos + k > Len(content))
    BY <1>4, <1>6, Numbers
  <2>4. QED
    BY <2>1, <2>2, <2>3
<1>8. op'.kind = "none" /\ ~ Filling'
  BY <1>3, KindsNext
<1>9. Exact'
  <2>1. /\ file_position' = spos' /\ Len(content') = file_size' /\ file_size' = Len(Content0)
        /\ file_position' <= Len(content') /\ cached_pos' = file_position' /\ cache_available' = 0
    BY <1>1, <1>2, <1>3, <1>6, <1>7 DEF cachev
  <2>2. file_position' \in Nat
    BY <1>3, <1>4, Numbers
  <2>3. cached_pos' <= file_position' /\ ~ (cache_available' > 0)
    BY <2>1, <2>2
  <2>4. QED
    BY <1>8, <2>1, <2>3 DEF Exact
<1>10. /\ (IF op.kind = "read" THEN op.start ELSE cached_pos) = spos
       /\ (IF op.kind = "read" THEN op.start ELSE cached_pos)' = spos + k
  BY <1>2, <1>3, <1>8
<1>11. Stored(SubSeq(b, 1, k)) = Abs!Patch(content, spos, SubSeq(b, 1, k))
  BY DEF Stored, Abs!Patch
<1>12. Abs!Write(b, k)
  BY <1>3, <1>10, <1>11 DEF Abs!Write
<1>13. QED
  BY <1>5, <1>9, <1>12 DEF Refines, Abs!Next

\* A seek that succeeds, for the caller.
LEMMA SeekAnswers ==
  ASSUME CacheInv, NEW off \in Offsets, NEW whence \in Whences, op = Idle, op' = Idle,
         SeekResult(off, whence, "OK"), Destination(off, whence) >= 0,
         cached_pos' = Destination(off, whence), Len(content) = file_size, content' = content
  PROVE  Refines
<1>1. op.kind = "none" /\ op'.kind = "none"
  BY KindsNext, Numbers
<1> DEFINE pos == IF op.kind = "read" THEN op.start ELSE cached_pos
<1>2. pos = cached_pos /\ pos' = cached_pos'
  BY <1>1
<1>3. whence \in {"SET", "CUR", "END"}
  BY Parameters
<1>4. Abs!Target(off, whence) = Destination(off, whence)
  BY <1>2, <1>3 DEF Abs!Target, Destination
<1>5. Abs!Seek(off, whence)
  BY <1>2, <1>4 DEF Abs!Seek, SeekResult
<1>6. QED
  BY <1>3, <1>5 DEF Refines, Abs!Next

LEMMA CacheSeeksExact ==
  ASSUME CacheInv, Exact, NEW off \in Offsets, NEW whence \in Whences, _tnfs_cache_seek(off, whence)
  PROVE  Exact' /\ Refines
<1> DEFINE d == Destination(off, whence)
<1>1. /\ op = Idle /\ op' = Idle /\ cached_pos' = d /\ cache_start <= d /\ SeekResult(off, whence, "OK")
      /\ cache_available > 0 /\ d < cache_start + cache_available
      /\ UNCHANGED <<server, file_position, file_size, cachev>>
  BY DEF _tnfs_cache_seek, InCache
<1>2. d \in Int
  BY Numbers, Parameters DEF Destination
<1>3. cache_start + cache_available = file_position
  BY <1>1 DEF CacheInv, Progress
<1> HIDE DEF d
<1>4. d >= 0 /\ d <= file_position /\ cache_available # 0
  BY <1>1, <1>2, <1>3, Numbers
<1>5. Exact'
  BY <1>1, <1>4, ReturnExact
<1>6. Len(content) = file_size /\ content' = content
  BY <1>1 DEF Exact, server
<1>7. Refines
  BY <1>1, <1>4, <1>6, SeekAnswers DEF d
<1>8. QED
  BY <1>5, <1>7

LEMMA LseeksExact ==
  ASSUME CacheInv, Exact, Undisturbed, NEW off \in Offsets, NEW whence \in Whences, tnfs_lseek(off, whence)
  PROVE  Exact' /\ Refines
<1> DEFINE d == Destination(off, whence)
<1>1. whence \in {"SET", "END"} /\ Len(content) = file_size /\ file_size = Len(Content0) /\ MaxLen <= Len(Content0)
  BY Parameters DEF Undisturbed, Exact
<1>2. ServerTarget(off, whence) = d /\ ClientTarget(off, whence) = d
  BY <1>1 DEF ServerTarget, ClientTarget, Destination
<1>3. /\ op = Idle /\ op' = Idle /\ d \in 0 .. MaxLen /\ spos' = d /\ file_position' = d /\ cached_pos' = d
      /\ cache_available' = 0 /\ SeekResult(off, whence, "OK") /\ UNCHANGED <<content, file_size, cache_start, cache>>
  BY <1>2 DEF tnfs_lseek
<1> HIDE DEF d
<1>4. d \in Nat /\ d >= 0 /\ d <= Len(content)
  BY <1>1, <1>3, Numbers, Parameters
<1>5. op'.kind = "none" /\ ~ Filling'
  BY <1>3, KindsNext
<1>6. Exact'
  <2>1. cached_pos' <= file_position' /\ file_position' <= Len(content') /\ ~ (cache_available' > 0)
    BY <1>3, <1>4
  <2>2. QED
    BY <1>1, <1>3, <1>5, <2>1 DEF Exact
<1>7. Refines
  BY <1>1, <1>3, <1>4, SeekAnswers DEF d
<1>8. QED
  BY <1>6, <1>7

LEMMA NothingFails ==
  ASSUME CacheInv, Undisturbed
  PROVE  /\ ~ FillFails /\ ~ WriteFails
         /\ \A off \in Offsets, whence \in Whences : ~ LseekFails(off, whence)
<1>1. Faults = {} /\ Offsets \subseteq Nat
  BY DEF Undisturbed
<1>2. ASSUME NEW off \in Offsets, NEW whence \in Whences PROVE ~ LseekFails(off, whence)
  <2>1. ServerTarget(off, whence) \in Nat
    <3>1. whence \in {"SET", "END"} /\ off \in Nat
      BY <1>1, Parameters DEF Undisturbed
    <3>2. QED
      BY <3>1, Numbers DEF ServerTarget
  <2>2. ~ (ServerTarget(off, whence) < 0)
    BY <2>1
  <2>3. QED
    BY <1>1, <2>2 DEF LseekFails, Unanswered
<1>3. QED
  BY <1>1, <1>2 DEF FillFails, WriteFails

LEMMA ExactStep ==
  ASSUME Undisturbed, CacheInv, Exact, [Next]_vars
  PROVE  Exact' /\ Refines
<1>0. MaxLen <= Len(Content0)
  BY DEF Undisturbed
<1>1. ASSUME NEW n \in 1 .. MaxRead, tnfs_read(n) PROVE Exact' /\ Refines
  BY <1>1, ReadStartsExact
<1>2. ASSUME NEW b \in Buffers, tnfs_write(b) PROVE Exact' /\ Refines
  BY <1>2, WriteStartsExact
<1>3. ASSUME NEW off \in Offsets, NEW whence \in Whences, _tnfs_cache_seek(off, whence) PROVE Exact' /\ Refines
  BY <1>3, CacheSeeksExact
<1>4. ASSUME NEW off \in Offsets, NEW whence \in Whences, tnfs_lseek(off, whence) PROVE Exact' /\ Refines
  BY <1>4, LseeksExact
<1>5. CASE Step
  BY <1>0, <1>5, NothingFails, ReadFromCacheExact, FillReadsExact, FillEndsExact, WriteSeeksExact, DataWrittenExact
  DEF Step
<1>6. CASE UNCHANGED vars
  <2>1. /\ UNCHANGED <<content, spos, file_position, file_size, cached_pos, cache_start, cache_available, cache, op>>
        /\ UNCHANGED result
    BY <1>6 DEF vars, server, client, cachev
  <2>2. Exact'
    BY <2>1 DEF Exact, Filling
  <2>3. QED
    BY <2>1, <2>2, Stutter
<1>7. QED
  BY <1>1, <1>2, <1>3, <1>4, <1>5, <1>6, NothingFails DEF Next

\* AbstractFile: while nothing disturbs them, tnfs_read, tnfs_write and tnfs_lseek with
\* the read-ahead cache are the atomic operations of a file on the server's content and
\* the caller's position: every read returns the bytes at that position and is short only
\* at the end of the file, every write lands there, for every length of the file, of the
\* cache and of the server's answers.
THEOREM CachedFileIsFile ==
  ASSUME Undisturbed
  PROVE  Spec => AbstractFile
<1>1. Init => Exact /\ Abs!Init
  <2> SUFFICES ASSUME Init PROVE Exact /\ Abs!Init
    OBVIOUS
  <2>1. CacheInv /\ op.kind = "none" /\ ~ Filling
    <3>1. CacheInv /\ op = Idle
      BY CacheInitially DEF Init
    <3>2. QED
      BY <3>1, Numbers
  <2>2. Abs!Init
    BY <2>1 DEF Init, Abs!Init, NoResult
  <2>3. Len(Content0) \in Nat
    BY Parameters, LenProperties
  <2>4. /\ content = Content0 /\ spos = 0 /\ file_position = 0 /\ file_size = Len(Content0) /\ cached_pos = 0
        /\ cache_available = 0
    BY DEF Init
  <2>5. Exact
    BY <2>1, <2>3, <2>4 DEF Exact
  <2>6. QED
    BY <2>2, <2>5
<1>2. CacheInv /\ Exact /\ [Next]_vars => CacheInv' /\ Exact' /\ [Abs!Next]_(Abs!fvars)
  BY CacheInductive, ExactStep DEF Refines
<1>3. QED
  BY <1>1, <1>2, CacheInitially, PTL DEF Spec, AbstractFile, Abs!Spec
=============================================================================
