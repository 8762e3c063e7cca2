------------------------ MODULE FujiDirectory_proof ------------------------
(***************************************************************************)
(* Proofs about reading directories: the directory cache (TnfsDir) under   *)
(* the commands of the FUJI device (FujiDirectory), for every set of       *)
(* directories, every size of the cache and of the blocks, and every fault.*)
(***************************************************************************)
EXTENDS FujiDirectory, WellFoundedInduction, TLAPS

(***************************************************************************)
(* The directory cache.                                                    *)
(***************************************************************************)
\* A set of naturals has a smallest one.
LEMMA Smallest ==
  ASSUME NEW S, S \subseteq Nat, S # {}
  PROVE  Min(S) \in S
<1> DEFINE R == OpToRel(<, Nat)
<1>1. IsWellFoundedOn(R, Nat)
  BY NatLessThanWellFounded, Zenon
<1> HIDE DEF R
<1>2. PICK x \in S : \A y \in S : ~ (<<y, x>> \in R)
  BY <1>1, WFMin
<1>3. \A y \in S : x <= y
  <2>1. R = {ss \in Nat \X Nat : ss[1] < ss[2]}
    BY Zenon DEF R, OpToRel
  <2>2. \A y \in Nat, z \in Nat : y < z => <<y, z>> \in R
    BY <2>1
  <2>3. \A y \in S : ~ (y < x)
    BY <1>2, <2>2, Zenon
  <2>4. QED
    BY <2>3
<1>4. QED
  BY <1>3 DEF Min

Places == {c \in [dir : Dirs, pos : Nat] : c.pos <= Size[c.dir]}
Servers == [Ids -> Places \cup {NoDir}]

\* The cache holds entries of some directory.
CacheFilled == count > 0 => \E d \in Dirs : first + count <= Size[d]

\* Types.
DirTyped ==
  /\ dir_handle \in Ids \cup {Closed}
  /\ first \in Positions /\ count \in 0 .. MaxCache /\ current \in 0 .. count
  /\ eof \in BOOLEAN
  /\ CacheFilled
  /\ srv \in Servers
  /\ user \in Places \cup {Lost}

\* While the user counts on a position, the cache and the server agree with it:
\* the next entry is the cache's current one, or the server's, and the server is
\* at the end of the cache.
Follows ==
  user # Lost =>
    /\ dir_handle # Closed
    /\ Alive => Here.dir = user.dir
    /\ count > 0 => /\ first + current = user.pos /\ first + count <= Size[user.dir]
                    /\ eof <=> first + count = Size[user.dir]
                    /\ Alive => Here.pos = first + count
    /\ count = 0 => ~ eof /\ (Alive => Here.pos = user.pos)

\* What the last read and the last tell returned.
ReadExact ==
  got.call = "read" /\ got.res # "FAIL" /\ got.user # Lost =>
    /\ got.res = "OK"  => got.pos = got.user.pos
    /\ got.res = "EOF" => got.user.pos = Size[got.user.dir]

DirInv == DirTyped /\ Follows /\ ReadExact /\ TellExact

LEMMA Sizes ==
  /\ Size \in [Dirs -> Nat] /\ MaxCache \in Nat /\ MaxCache > 0 /\ MaxId \in Nat
  /\ Positions \subseteq Nat /\ 0 \in Positions
  /\ \A c \in Places : c.pos \in Positions /\ c.dir \in Dirs /\ c.pos \in Nat /\ Size[c.dir] \in Nat
                       /\ c.pos <= Size[c.dir]
<1>1. Size \in [Dirs -> Nat] /\ MaxCache \in Nat /\ MaxCache > 0 /\ MaxId \in Nat
  BY DirAssumption
<1>2. \A d \in Dirs : Size[d] \in Nat
  BY <1>1
<1>3. Positions \subseteq Nat /\ 0 \in Positions
  BY <1>2 DEF Positions
<1>4. ASSUME NEW c \in Places
      PROVE  c.pos \in Positions /\ c.dir \in Dirs /\ c.pos \in Nat /\ Size[c.dir] \in Nat /\ c.pos <= Size[c.dir]
  <2>1. c.dir \in Dirs /\ c.pos \in Nat /\ c.pos <= Size[c.dir] /\ Size[c.dir] \in Nat
    BY <1>2 DEF Places
  <2>2. c.pos \in 0 .. Size[c.dir]
    BY <2>1
  <2>3. QED
    BY <2>1, <2>2 DEF Positions
<1>5. QED
  BY <1>1, <1>3, <1>4

LEMMA PlaceOf ==
  ASSUME NEW d \in Dirs, NEW p \in Nat, p <= Size[d]
  PROVE  [dir |-> d, pos |-> p] \in Places
BY DEF Places

\* The server moves the position of the open handle.
LEMMA ServerMoves ==
  ASSUME DirTyped, Alive, NEW p \in Nat, p <= Size[Here.dir]
  PROVE  /\ Here \in Places /\ dir_handle \in Ids
         /\ Moved(p) \in Servers
         /\ Moved(p)[dir_handle].pos = p /\ Moved(p)[dir_handle].dir = Here.dir
<1>1. dir_handle \in Ids /\ srv[dir_handle] \in Places /\ srv \in Servers
  BY DEF DirTyped, Alive, Servers
<1> DEFINE c == [srv[dir_handle] EXCEPT !.pos = p]
<1>2. c \in Places /\ c.pos = p /\ c.dir = Here.dir
  BY <1>1 DEF Places, Here
<1>3. Moved(p) = [srv EXCEPT ![dir_handle] = c]
  BY <1>1 DEF Moved
<1> HIDE DEF c
<1>4. Moved(p) \in Servers /\ Moved(p)[dir_handle] = c
  BY <1>1, <1>2, <1>3 DEF Servers
<1>5. QED
  BY <1>1, <1>2, <1>4 DEF Here

\* The server opens a handle of its own choice.
LEMMA ServerOpens ==
  ASSUME DirTyped, FreeIds # {}, NEW d \in Dirs
  PROVE  /\ Min(FreeIds) \in Ids /\ [dir |-> d, pos |-> 0] \in Places
         /\ [srv EXCEPT ![Min(FreeIds)] = [dir |-> d, pos |-> 0]] \in Servers
<1>1. FreeIds \subseteq Ids /\ Ids \subseteq Nat
  BY Sizes DEF FreeIds, Ids
<1>2. Min(FreeIds) \in Ids
  BY <1>1, Smallest
<1>3. [dir |-> d, pos |-> 0] \in Places
  BY Sizes, PlaceOf
<1> DEFINE c == [dir |-> d, pos |-> 0]
<1> HIDE DEF c
<1>4. [srv EXCEPT ![Min(FreeIds)] = c] \in Servers
  BY <1>2, <1>3 DEF Servers, DirTyped, c
<1>5. QED
  BY <1>2, <1>3, <1>4 DEF c

-----------------------------------------------------------------------------
LEMMA CacheDropped ==
  ASSUME DirTyped, empty_dircache
  PROVE  /\ first' \in Positions /\ count' \in 0 .. MaxCache /\ current' \in 0 .. count' /\ eof' \in BOOLEAN
         /\ count' = 0 /\ ~ eof' /\ CacheFilled'
<1>1. count' = 0 /\ current' = 0 /\ eof' = FALSE /\ first' = first
  BY DEF empty_dircache
<1>2. MaxCache \in Nat
  BY Sizes
<1>3. count' \in 0 .. MaxCache /\ current' \in 0 .. count'
  BY <1>1, <1>2
<1>4. first' \in Positions /\ eof' \in BOOLEAN /\ ~ eof'
  BY <1>1 DEF DirTyped
<1>5. QED
  BY <1>1, <1>3, <1>4 DEF CacheFilled

\* A call that fails: the cache is dropped, and the user counts on nothing.
LEMMA FailingStep ==
  ASSUME DirInv, empty_dircache, NEW call, Fails(call), dir_handle' \in Ids \cup {Closed}, srv' \in Servers
  PROVE  DirInv' /\ user' = Lost /\ got'.res = "FAIL"
<1>1. user' = Lost /\ got'.res = "FAIL"
  BY DEF Fails
<1>2. DirTyped'
  BY <1>1, CacheDropped DEF DirInv, DirTyped
<1>3. ReadExact' /\ TellExact'
  BY <1>1 DEF ReadExact, TellExact
<1>4. QED
  BY <1>1, <1>2, <1>3 DEF DirInv, Follows

\* The cache is dropped and the server is where the user counts on it to be.
LEMMA PlacingStep ==
  ASSUME DirInv, empty_dircache, srv' \in Servers, dir_handle' \in Ids, user' \in Places,
         srv'[dir_handle'].dir = user'.dir, srv'[dir_handle'].pos = user'.pos,
         got'.call \in {"open", "seek"}
  PROVE  DirInv'
<1>1. DirTyped'
  BY CacheDropped DEF DirInv, DirTyped
<1>2. ReadExact' /\ TellExact'
  BY DEF ReadExact, TellExact
<1>3. dir_handle' # Closed
  BY Sizes DEF Ids, Closed
<1>4. Follows'
  BY <1>3 DEF Follows, Here, empty_dircache
<1>5. QED
  BY <1>1, <1>2, <1>4 DEF DirInv

LEMMA OpenStep ==
  ASSUME DirInv, NEW d \in Dirs, tnfs_opendirx(d) \/ OpenFails(d)
  PROVE  DirInv'
<1>1. DirTyped /\ srv \in Servers /\ dir_handle \in Ids \cup {Closed}
  BY DEF DirInv, DirTyped
<1>2. CASE tnfs_opendirx(d)
  <2> DEFINE c == [dir |-> d, pos |-> 0]
             i == Min(FreeIds)
  <2>1. /\ FreeIds # {} /\ empty_dircache /\ srv' = [srv EXCEPT ![i] = c]
        /\ dir_handle' = i /\ user' = c /\ got'.call = "open"
    BY <1>2 DEF tnfs_opendirx
  <2>2. i \in Ids /\ c \in Places /\ srv' \in Servers
    BY <1>1, <2>1, ServerOpens
  <2>3. srv'[i] = c
    <3> HIDE DEF c, i
    <3>1. QED
      BY <1>1, <2>1, <2>2 DEF Servers
  <2> HIDE DEF c, i
  <2>4. QED
    BY <2>1, <2>2, <2>3, PlacingStep
<1>3. CASE OpenFails(d)
  <2>1. srv' \in Servers
    BY <1>1, <1>3, ServerOpens DEF OpenFails
  <2>2. empty_dircache /\ Fails("open") /\ dir_handle' = dir_handle
    BY <1>3 DEF OpenFails
  <2>3. QED
    BY <1>1, <2>1, <2>2, FailingStep
<1>4. QED
  BY <1>2, <1>3

LEMMA SeekStep ==
  ASSUME DirInv, NEW p \in Nat, tnfs_seekdir(p) \/ SeekdirFails(p)
  PROVE  /\ DirInv'
         /\ tnfs_seekdir(p) => user' = [dir |-> Here.dir, pos |-> p] /\ p <= Size[Here.dir] /\ Alive
         /\ ~ tnfs_seekdir(p) => user' = Lost
<1>1. DirTyped /\ srv \in Servers /\ dir_handle \in Ids \cup {Closed}
  BY DEF DirInv, DirTyped
<1>2. CASE tnfs_seekdir(p)
  <2>1. /\ Alive /\ p <= Size[Here.dir] /\ empty_dircache /\ srv' = Moved(p) /\ dir_handle' = dir_handle
        /\ user' = [dir |-> Here.dir, pos |-> p] /\ got'.call = "seek"
    BY <1>2 DEF tnfs_seekdir
  <2>2. /\ Here \in Places /\ dir_handle \in Ids /\ srv' \in Servers
        /\ srv'[dir_handle].pos = p /\ srv'[dir_handle].dir = Here.dir
    BY <1>1, <2>1, ServerMoves
  <2>3. user' \in Places /\ user'.dir = Here.dir /\ user'.pos = p
    BY <2>1, <2>2, Sizes, PlaceOf
  <2>4. DirInv'
    BY <2>1, <2>2, <2>3, PlacingStep
  <2>5. QED
    BY <1>2, <2>1, <2>4
<1>3. CASE SeekdirFails(p)
  <2>1. srv' \in Servers
    BY <1>1, <1>3, ServerMoves DEF SeekdirFails
  <2>2. empty_dircache /\ Fails("seek") /\ dir_handle' = dir_handle
    BY <1>3 DEF SeekdirFails
  <2>3. DirInv' /\ user' = Lost
    BY <1>1, <2>1, <2>2, FailingStep
  <2>4. QED
    BY <1>2, <2>3
<1>4. QED
  BY <1>2, <1>3

\* Entries of the cache.
LEMMA CacheRead ==
  ASSUME DirInv, next_dircache_entry
  PROVE  /\ DirInv' /\ got'.res = "OK" /\ got'.pos \in Positions
         /\ UNCHANGED <<dir_handle, srv>>
         /\ user # Lost => /\ user' \in Places /\ got'.pos = user.pos
                           /\ user'.pos = user.pos + 1 /\ user'.dir = user.dir
<1>1. /\ dir_handle # Closed /\ current < count /\ current' = current + 1
      /\ got' = [call |-> "read", res |-> "OK", pos |-> first + current, user |-> user]
      /\ user' = IF user # Lost THEN [user EXCEPT !.pos = @ + 1] ELSE Lost
      /\ UNCHANGED <<dir_handle, first, count, eof, srv>>
  BY DEF next_dircache_entry, Cached, Entry, Known
<1>2. DirTyped /\ Follows /\ first \in Nat /\ count \in Nat /\ current \in Nat
  BY Sizes DEF DirInv, DirTyped
<1>3. count > 0 /\ current' \in 0 .. count
  BY <1>1, <1>2
<1>a. CacheFilled' /\ got'.pos \in Positions
  <2>1. PICK d \in Dirs : first + count <= Size[d]
    BY <1>2, <1>3 DEF DirTyped, CacheFilled
  <2>2. first + current \in 0 .. Size[d]
    BY <1>1, <1>2, <2>1, Sizes
  <2>3. QED
    BY <1>1, <1>2, <2>1, <2>2 DEF Positions, CacheFilled
<1>4. CASE user = Lost
  <2>1. user' = Lost /\ got'.user = Lost
    BY <1>1, <1>4
  <2>2. DirTyped'
    BY <1>1, <1>2, <1>3, <1>a, <2>1 DEF DirTyped
  <2>3. ReadExact' /\ TellExact' /\ Follows'
    BY <2>1 DEF ReadExact, TellExact, Follows
  <2>4. QED
    BY <1>1, <1>4, <1>a, <2>2, <2>3 DEF DirInv
<1>5. CASE user # Lost
  <2>1. user \in Places /\ user.pos \in Nat /\ Size[user.dir] \in Nat
    BY <1>2, <1>5, Sizes DEF DirTyped
  <2>2. first + current = user.pos /\ user.pos + 1 <= Size[user.dir]
    BY <1>1, <1>2, <1>3, <1>5, <2>1 DEF Follows
  <2>3. user' = [user EXCEPT !.pos = user.pos + 1]
    BY <1>1, <1>5
  <2>4. user' \in Places /\ user'.pos = user.pos + 1 /\ user'.dir = user.dir
    BY <2>1, <2>2, <2>3 DEF Places
  <2>5. DirTyped'
    BY <1>1, <1>2, <1>3, <1>a, <2>4 DEF DirTyped
  <2>6. Follows'
    BY <1>1, <1>2, <1>3, <1>5, <2>2, <2>4 DEF Follows, Alive, Here
  <2>7. ReadExact' /\ TellExact'
    BY <1>1, <2>2 DEF ReadExact, TellExact
  <2>8. QED
    BY <1>1, <1>a, <2>2, <2>4, <2>5, <2>6, <2>7 DEF DirInv
<1>6. QED
  BY <1>4, <1>5

\* A page from the server.
LEMMA ServerRead ==
  ASSUME DirInv, tnfs_readdirx
  PROVE  /\ DirInv' /\ got'.res = "OK" /\ got'.pos \in Positions
         /\ dir_handle' = dir_handle /\ Alive /\ Here'.dir = Here.dir
         /\ user # Lost => /\ user' \in Places /\ got'.pos = user.pos
                           /\ user'.pos = user.pos + 1 /\ user'.dir = user.dir
<1>1. PICK k \in 1 .. MaxCache :
        /\ Here.pos + k <= Size[Here.dir]
        /\ first' = Here.pos /\ count' = k /\ current' = 1
        /\ eof' = (Here.pos + k = Size[Here.dir])
        /\ srv' = Moved(Here.pos + k)
  BY DEF tnfs_readdirx
<1>2. /\ dir_handle # Closed /\ ~ (current < count) /\ ~ eof /\ Alive
      /\ got' = [call |-> "read", res |-> "OK", pos |-> Here.pos, user |-> user]
      /\ user' = IF user # Lost THEN [user EXCEPT !.pos = @ + 1] ELSE Lost
      /\ dir_handle' = dir_handle
  BY DEF tnfs_readdirx, Asks, Cached, Entry, Known
<1>3. DirTyped /\ Follows /\ first \in Nat /\ count \in Nat /\ current \in 0 .. count /\ MaxCache \in Nat
  BY Sizes DEF DirInv, DirTyped
<1>4. Here \in Places
  BY <1>2, <1>3 DEF DirTyped, Alive, Here, Servers
<1>5. Here.pos \in Nat /\ Here.pos \in Positions /\ Size[Here.dir] \in Nat
  BY <1>4, Sizes
<1>6. Here.pos + k \in Nat
  BY <1>1, <1>3, <1>5
<1>7. srv' \in Servers /\ Here'.pos = Here.pos + k /\ Here'.dir = Here.dir
  BY <1>1, <1>2, <1>3, <1>6, ServerMoves DEF Here
<1>8. first' \in Positions /\ count' \in 0 .. MaxCache /\ current' \in 0 .. count' /\ eof' \in BOOLEAN /\ count' > 0
  BY <1>1, <1>3, <1>5
<1>a. CacheFilled'
  BY <1>1, <1>4, Sizes DEF CacheFilled
<1>9. CASE user = Lost
  <2>1. user' = Lost /\ got'.user = Lost
    BY <1>2, <1>9
  <2>2. DirTyped'
    BY <1>2, <1>3, <1>7, <1>8, <1>a, <2>1 DEF DirTyped
  <2>3. ReadExact' /\ TellExact' /\ Follows'
    BY <2>1 DEF ReadExact, TellExact, Follows
  <2>4. QED
    BY <1>2, <1>5, <1>7, <1>9, <2>2, <2>3 DEF DirInv
<1>10. CASE user # Lost
  <2>1. user \in Places /\ user.pos \in Nat /\ Size[user.dir] \in Nat
    BY <1>3, <1>10, Sizes DEF DirTyped
  <2>2. Here.dir = user.dir /\ Here.pos = user.pos
    BY <1>2, <1>3, <1>10, <2>1 DEF Follows
  <2>3. user' = [user EXCEPT !.pos = user.pos + 1]
    BY <1>2, <1>10
  <2>4. user' \in Places /\ user'.pos = user.pos + 1 /\ user'.dir = user.dir
    BY <1>1, <1>3, <2>1, <2>2, <2>3 DEF Places
  <2>5. DirTyped'
    BY <1>2, <1>3, <1>7, <1>8, <1>a, <2>4 DEF DirTyped
  <2>6. Follows'
    <3>1. first' + current' = user'.pos /\ first' + count' = Here.pos + k /\ Size[user'.dir] = Size[Here.dir]
      BY <1>1, <1>5, <2>2, <2>4
    <3>2. eof' <=> first' + count' = Size[user'.dir]
      BY <1>1, <3>1
    <3>3. first' + count' <= Size[user'.dir] /\ Here'.pos = first' + count' /\ Here'.dir = user'.dir
      BY <1>1, <1>7, <2>2, <2>4, <3>1
    <3>4. count' # 0 /\ dir_handle' # Closed
      BY <1>1, <1>2
    <3>5. QED
      BY <3>1, <3>2, <3>3, <3>4 DEF Follows
  <2>7. ReadExact' /\ TellExact'
    BY <1>2, <2>2 DEF ReadExact, TellExact
  <2>8. QED
    BY <1>2, <1>5, <1>7, <2>2, <2>4, <2>5, <2>6, <2>7 DEF DirInv
<1>11. QED
  BY <1>9, <1>10

\* The end of the directory.
LEMMA EndRead ==
  ASSUME DirInv, ReaddirEof \/ ReaddirNoMore
  PROVE  DirInv' /\ got'.res = "EOF" /\ user' = user /\ (user # Lost => user.pos = Size[user.dir])
<1>1. /\ dir_handle # Closed /\ ~ (current < count) /\ dir_handle' = dir_handle /\ srv' = srv /\ user' = user
      /\ got' = [call |-> "read", res |-> "EOF", user |-> user]
  BY DEF ReaddirEof, ReaddirNoMore, EndOfFile, Cached, Asks
<1>2. DirTyped /\ Follows /\ first \in Nat /\ count \in Nat /\ current \in 0 .. count /\ MaxCache \in Nat
  BY Sizes DEF DirInv, DirTyped
<1>3. user # Lost => user \in Places /\ user.pos \in Nat /\ Size[user.dir] \in Nat /\ user.pos <= Size[user.dir]
  BY <1>2, Sizes DEF DirTyped
<1>4. CASE ReaddirEof
  <2>1. eof /\ UNCHANGED <<first, count, current, eof>>
    BY <1>4 DEF ReaddirEof, cachev
  <2>2. user # Lost => user.pos = Size[user.dir]
    BY <1>1, <1>2, <1>3, <2>1 DEF Follows
  <2>3. DirTyped' /\ Follows'
    BY <1>1, <1>2, <2>1 DEF DirTyped, Follows, Alive, Here, CacheFilled
  <2>4. ReadExact' /\ TellExact'
    BY <1>1, <2>2 DEF ReadExact, TellExact
  <2>5. QED
    BY <1>1, <2>2, <2>3, <2>4 DEF DirInv
<1>5. CASE ReaddirNoMore
  <2>1. ~ eof /\ Alive /\ Here.pos >= Size[Here.dir] /\ empty_dircache
    BY <1>5 DEF ReaddirNoMore, Asks
  <2>2. user # Lost => Here.pos = user.pos /\ Here.dir = user.dir
    BY <1>1, <1>2, <1>3, <2>1 DEF Follows
  <2>3. user # Lost => user.pos = Size[user.dir]
    BY <1>3, <2>1, <2>2
  <2>4. DirTyped' /\ count' = 0 /\ ~ eof'
    BY <1>1, <1>2, <2>1, CacheDropped DEF DirTyped
  <2>5. Follows'
    BY <1>1, <2>2, <2>4 DEF Follows, Alive, Here
  <2>6. ReadExact' /\ TellExact'
    BY <1>1, <2>3 DEF ReadExact, TellExact
  <2>7. QED
    BY <1>1, <2>3, <2>4, <2>5, <2>6 DEF DirInv
<1>6. QED
  BY <1>4, <1>5

\* A call that loses its answer, or never reaches the server.
LEMMA FailedCalls ==
  ASSUME DirInv, ReaddirFails \/ ClosedirFails \/ tnfs_closedir
  PROVE  DirInv' /\ user' = Lost /\ (~ tnfs_closedir => got'.res = "FAIL")
<1>1. DirTyped /\ srv \in Servers /\ dir_handle \in Ids \cup {Closed}
  BY DEF DirInv, DirTyped
<1>2. [srv EXCEPT ![dir_handle] = NoDir] \in Servers
  BY <1>1 DEF Servers
<1>3. CASE ReaddirFails
  <2>1. empty_dircache /\ Fails("read") /\ dir_handle' = dir_handle
    BY <1>3 DEF ReaddirFails
  <2>2. srv' \in Servers
    <3>1. CASE srv' = srv
      BY <1>1, <3>1
    <3>2. ASSUME NEW k \in 1 .. MaxCache, Alive, Here.pos + k <= Size[Here.dir], srv' = Moved(Here.pos + k)
          PROVE  srv' \in Servers
      <4>1. Here.pos \in Nat /\ MaxCache \in Nat
        BY <1>1, <3>2, Sizes DEF DirTyped, Alive, Here, Servers
      <4>2. Here.pos + k \in Nat
        BY <4>1
      <4>3. QED
        BY <1>1, <3>2, <4>2, ServerMoves
    <3>3. QED
      BY <1>3, <3>1, <3>2 DEF ReaddirFails
  <2>3. QED
    BY <1>1, <1>3, <2>1, <2>2, FailingStep
<1>4. CASE ClosedirFails
  <2>1. empty_dircache /\ Fails("close") /\ dir_handle' = dir_handle /\ srv' \in Servers
    BY <1>1, <1>2, <1>4 DEF ClosedirFails
  <2>2. QED
    BY <1>1, <2>1, FailingStep
<1>5. CASE tnfs_closedir
  <2>1. /\ empty_dircache /\ dir_handle' = Closed /\ srv' \in Servers /\ user' = Lost
        /\ got' = [call |-> "close", res |-> "OK"]
    BY <1>2, <1>5 DEF tnfs_closedir
  <2>2. DirTyped'
    BY <1>1, <2>1, CacheDropped DEF DirTyped
  <2>3. ReadExact' /\ TellExact' /\ Follows'
    BY <2>1 DEF ReadExact, TellExact, Follows
  <2>4. QED
    BY <1>5, <2>1, <2>2, <2>3 DEF DirInv
<1>6. QED
  BY <1>3, <1>4, <1>5

\* Telling the position.
LEMMA TellStep ==
  ASSUME DirInv, tnfs_telldir \/ TelldirFails
  PROVE  /\ DirInv' /\ UNCHANGED <<dir_handle, first, count, current, eof, srv, user>>
         /\ got'.res \in {"OK", "FAIL"}
         /\ user # Lost /\ got'.res = "OK" => got'.pos = user.pos
<1>1. UNCHANGED <<dir_handle, first, count, current, eof, srv, user>> /\ got'.call = "tell" /\ got'.res \in {"OK", "FAIL"}
  BY DEF tnfs_telldir, TelldirFails, cachev
<1>2. DirTyped /\ Follows /\ first \in Nat /\ count \in Nat /\ current \in 0 .. count
  BY Sizes DEF DirInv, DirTyped
<1>3. ASSUME tnfs_telldir
      PROVE  got'.user = user /\ (user # Lost => got'.pos = user.pos)
  <2>1. /\ dir_handle # Closed /\ (current < count \/ Alive)
        /\ got'.user = user /\ got'.pos = IF current < count THEN first + current ELSE Here.pos
    BY <1>3 DEF tnfs_telldir, Cached, tell_dircache_entry
  <2>2. user # Lost => user.pos \in Nat
    BY <1>2, Sizes DEF DirTyped
  <2>3. QED
    BY <1>2, <2>1, <2>2 DEF Follows
<1>4. TellExact' /\ (user # Lost /\ got'.res = "OK" => got'.pos = user.pos)
  <2>1. CASE tnfs_telldir
    BY <1>3, <2>1 DEF TellExact
  <2>2. CASE TelldirFails
    BY <2>2 DEF TellExact, TelldirFails
  <2>3. QED
    BY <2>1, <2>2
<1>5. DirTyped' /\ Follows' /\ ReadExact'
  BY <1>1, <1>2 DEF DirTyped, Follows, ReadExact, Alive, Here, CacheFilled
<1>6. QED
  BY <1>1, <1>4, <1>5 DEF DirInv

\* Losing the session takes the handle with it; the cache stays good.
LEMMA ExpiryStep ==
  ASSUME DirInv, SessionExpires \/ UNCHANGED vars
  PROVE  DirInv' /\ user' = user
<1>1. UNCHANGED <<dir_handle, first, count, current, eof, user, got>> /\ (srv' = srv \/ srv' = [i \in Ids |-> NoDir])
  BY DEF SessionExpires, vars, cachev
<1>2. srv' \in Servers /\ (Alive' => Alive /\ Here' = Here)
  BY <1>1 DEF DirInv, DirTyped, Servers, Alive, Here
<1>3. DirTyped' /\ Follows'
  BY <1>1, <1>2 DEF DirInv, DirTyped, Follows, CacheFilled
<1>4. ReadExact' /\ TellExact'
  BY <1>1 DEF DirInv, ReadExact, TellExact
<1>5. QED
  BY <1>1, <1>3, <1>4 DEF DirInv

LEMMA InitDir == ASSUME Init PROVE DirInv
<1>1. DirTyped
  <2>1. dir_handle \in Ids \cup {Closed} /\ user \in Places \cup {Lost} /\ eof \in BOOLEAN
    BY DEF Init
  <2>2. first \in Positions /\ count \in 0 .. MaxCache /\ current \in 0 .. count
    BY Sizes DEF Init
  <2>3. srv \in Servers
    BY DEF Init, Servers
  <2>4. CacheFilled
    BY DEF Init, CacheFilled
  <2>5. QED
    BY <2>1, <2>2, <2>3, <2>4 DEF DirTyped
<1>2. Follows /\ ReadExact /\ TellExact
  BY DEF Init, Follows, ReadExact, TellExact
<1>3. QED
  BY <1>1, <1>2 DEF DirInv

\* What the invariant gives.
LEMMA DirInvGives == ASSUME DirInv PROVE TypeOK /\ ListingExact
<1>1. TypeOK
  <2>1. \A i \in Ids : srv[i] # NoDir => srv[i].dir \in Dirs /\ srv[i].pos \in 0 .. Size[srv[i].dir]
    BY Sizes DEF DirInv, DirTyped, Servers
  <2>2. QED
    BY <2>1 DEF DirInv, DirTyped, TypeOK
<1>2. CacheBehindServer
  BY DEF DirInv, Follows, CacheBehindServer
<1>3. QED
  BY <1>1, <1>2 DEF DirInv, ListingExact, ReadExact

LEMMA LostNoPlace == Lost \notin Places /\ NoDir \notin Places
<1>1. \A c \in Places : DOMAIN c = {"dir", "pos"}
  BY DEF Places
<1>2. DOMAIN Lost = {"dir"} /\ DOMAIN NoDir = {"dir"}
  BY DEF Lost, NoDir
<1>3. QED
  BY <1>1, <1>2

\* Whatever is asked of an open handle, it stays a handle of its directory.
LEMMA HandleKept ==
  ASSUME DirInv, dir_nextfile \/ dir_tell \/ SessionExpires \/ UNCHANGED vars
  PROVE  Alive' => Alive /\ Here'.dir = Here.dir
<1>1. DirTyped
  BY DEF DirInv
<1>2. CASE tnfs_readdirx
  BY <1>2, ServerRead
<1>3. CASE ReaddirFails
  <2>1. dir_handle' = dir_handle
    BY <1>3 DEF ReaddirFails
  <2>2. CASE srv' = srv
    BY <2>1, <2>2 DEF Alive, Here
  <2>3. ASSUME NEW k \in 1 .. MaxCache, Alive, Here.pos + k <= Size[Here.dir], srv' = Moved(Here.pos + k)
        PROVE  Here'.dir = Here.dir
    <3>1. Here.pos \in Nat /\ MaxCache \in Nat
      BY <1>1, <2>3, Sizes DEF DirTyped, Alive, Here, Servers
    <3>2. Here.pos + k \in Nat
      BY <3>1
    <3>3. QED
      BY <1>1, <2>1, <2>3, <3>2, ServerMoves DEF Here
  <2>4. QED
    BY <1>3, <2>2, <2>3 DEF ReaddirFails
<1>4. CASE SessionExpires
  <2>1. dir_handle' = dir_handle /\ srv' = [i \in Ids |-> NoDir]
    BY <1>4 DEF SessionExpires
  <2>2. QED
    BY <1>1, <2>1 DEF DirTyped, Alive
<1>5. CASE next_dircache_entry \/ ReaddirEof \/ ReaddirNoMore \/ dir_tell \/ UNCHANGED vars
  <2>1. dir_handle' = dir_handle /\ srv' = srv
    BY <1>5 DEF next_dircache_entry, ReaddirEof, ReaddirNoMore, dir_tell, tnfs_telldir, TelldirFails, vars
  <2>2. QED
    BY <2>1 DEF Alive, Here
<1>6. QED
  BY <1>2, <1>3, <1>4, <1>5 DEF dir_nextfile

\* Reading the next entry, whatever the outcome.
LEMMA NextFile ==
  ASSUME DirInv, dir_nextfile
  PROVE  /\ DirInv' /\ got'.res \in {"OK", "EOF", "FAIL"}
         /\ got'.res = "OK" => got'.pos \in Positions
         /\ user # Lost /\ got'.res = "OK" =>
              /\ user' # Lost /\ got'.pos = user.pos /\ user'.pos = user.pos + 1 /\ user'.dir = user.dir
         /\ user # Lost /\ got'.res # "OK" => user' = Lost \/ (user' = user /\ user.pos = Size[user.dir])
<1>1. CASE next_dircache_entry
  BY <1>1, CacheRead, LostNoPlace
<1>2. CASE tnfs_readdirx
  BY <1>2, ServerRead, LostNoPlace
<1>3. CASE ReaddirEof \/ ReaddirNoMore
  BY <1>3, EndRead
<1>4. CASE ReaddirFails
  <2>1. ~ tnfs_closedir => got'.res = "FAIL"
    BY <1>4, FailedCalls
  <2>2. got'.res = "FAIL"
    BY <1>4 DEF ReaddirFails, Fails
  <2>3. QED
    BY <1>4, <2>2, FailedCalls
<1>5. QED
  BY <1>1, <1>2, <1>3, <1>4 DEF dir_nextfile

-----------------------------------------------------------------------------
(***************************************************************************)
(* The blocks.  While one is filled for a computer that knows its          *)
(* position, the list holds the entries from that position on, the user of *)
(* the directory is behind the last of them, and the position to return to *)
(* is that one or could not be told.                                       *)
(***************************************************************************)
Blocks == [op : {"tell", "read", "seek"}, max : BlockSizes, start : Places \cup {Lost}, initial : Nat,
           list : Seq(Nat), total : Int, before : Nat]

CmdTyped ==
  \/ cmd = Idle
  \/ cmd.op = "open" /\ cmd.dir \in Dirs /\ reply = NoReply
  \/ cmd \in Blocks

\* Where the block has got to.
Reached == cmd.start.pos + Len(cmd.list)

BlockExact ==
  cmd \in Blocks /\ cmd.start # Lost =>
    /\ Alive => Here.dir = cmd.start.dir
    /\ Reached <= Size[cmd.start.dir]
    /\ \A i \in 1 .. Len(cmd.list) : cmd.list[i] = cmd.start.pos + i - 1
    /\ cmd.initial \in {cmd.start.pos, FNFS_INVALID_DIRPOS}
    /\ cmd.list = <<>> => cmd.total = HeaderBytes
    /\ cmd.op \in {"tell", "read"} => user # Lost /\ user.dir = cmd.start.dir /\ user.pos = Reached
    /\ cmd.op \in {"read", "seek"} => cmd.before \in {Reached, FNFS_INVALID_DIRPOS}
    /\ cmd.op = "seek" => cmd.list # <<>>

\* An entry fits into an empty block, and a position into its 16 bits.
EntriesFit ==
  /\ \A d \in Dirs : Size[d] < FNFS_INVALID_DIRPOS
  /\ \A max \in BlockSizes :
       /\ HeaderBytes + OffsetBytes + EndBytes <= max
       /\ \A p \in Positions : HeaderBytes + OffsetBytes + Charge[p] <= max

FujiInv == DirInv /\ CmdTyped /\ (EntriesFit => BlockExact)

\* The commands do not look like one another.
LEMMA Kinds ==
  /\ cmd = Idle => cmd.op = "idle" /\ ~ Filling /\ cmd \notin Blocks
  /\ cmd \in Blocks => Filling /\ cmd # Idle
  /\ CmdTyped /\ Filling => cmd \in Blocks
  /\ cmd.op = "open" => ~ Filling /\ cmd \notin Blocks /\ cmd # Idle
<1>1. cmd = Idle => cmd.op = "idle"
  BY DEF Idle
<1>2. cmd \in Blocks => cmd.op \in {"tell", "read", "seek"}
  BY DEF Blocks
<1>3. QED
  BY <1>1, <1>2 DEF Filling, CmdTyped

\* The same after a step.
LEMMA KindsNext ==
  /\ cmd' = Idle => ~ Filling' /\ cmd' \notin Blocks
  /\ cmd' \in Blocks => Filling'
  /\ cmd'.op = "open" => ~ Filling' /\ cmd' \notin Blocks
<1>1. cmd' = Idle => cmd'.op = "idle"
  BY DEF Idle
<1>2. cmd' \in Blocks => cmd'.op \in {"tell", "read", "seek"}
  BY DEF Blocks
<1>3. QED
  BY <1>1, <1>2 DEF Filling

(***************************************************************************)
(* The steps of the promise.                                               *)
(***************************************************************************)
\* A place, as the promise writes it.
LEMMA PlaceParts ==
  ASSUME NEW c \in Places
  PROVE  c = [dir |-> c.dir, pos |-> c.pos] /\ c.pos \in 0 .. Size[c.dir] /\ c.dir \in Dirs
<1>1. c = [dir |-> c.dir, pos |-> c.pos]
  BY DEF Places
<1>2. QED
  BY <1>1, Sizes

\* With no block in progress the cursor is where the user of the directory is.
LEMMA Anywhere ==
  ASSUME DirInv', ~ Filling'
  PROVE  Promise!Anywhere
<1>1. user' \in Places \cup {Lost}
  BY DEF DirInv, DirTyped
<1>2. CASE user' = Lost
  BY <1>2 DEF Promise!Anywhere, Promise!Lost, Lost
<1>3. CASE user' \in Places
  <2>1. user' = [dir |-> user'.dir, pos |-> user'.pos] /\ user'.pos \in 0 .. Size[user'.dir] /\ user'.dir \in Dirs
    BY <1>3, PlaceParts
  <2>2. QED
    BY <2>1 DEF Promise!Anywhere
<1>4. QED
  BY <1>1, <1>2, <1>3

\* A page of n entries for a computer that knows its position.
LEMMA PageStep ==
  ASSUME NEW c \in Places, c = IF Filling THEN cmd.start ELSE user, ~ Filling',
         NEW l \in Seq(Nat), NEW end \in BOOLEAN, NEW f, f \subseteq {c.pos},
         NEW m, m = IF end THEN Len(l) + 1 ELSE Len(l),
         reply' = [list |-> l, count |-> m, first |-> f, end |-> end],
         \A i \in 1 .. Len(l) : l[i] = c.pos + i - 1, c.pos + Len(l) <= Size[c.dir], Len(l) > 0 \/ end,
         \/ user' = Lost
         \/ user' \in Places /\ user'.dir = c.dir /\ user'.pos = c.pos + Len(l) /\ (end => user'.pos = Size[c.dir])
  PROVE  Promise!Page
<1> DEFINE n == Len(l)
<1>1. c.pos \in Nat /\ Size[c.dir] \in Nat /\ n \in Nat
  BY Sizes
<1>2. l = [i \in 1 .. n |-> c.pos + i - 1]
  BY <1>1
<1>3. n \in 0 .. Size[c.dir] - c.pos
  BY <1>1
<1>4. c # Lost
  BY LostNoPlace
<1>5. Promise!Entries(c.pos, n) = l
  BY <1>2 DEF Promise!Entries
<1>6. reply'.first = f
  OBVIOUS
<1> HIDE DEF n
<1>7. user' # Lost => user' = [c EXCEPT !.pos = @ + n] /\ (end => user'.pos = Size[c.dir])
  <2> SUFFICES ASSUME user' # Lost PROVE user' = [c EXCEPT !.pos = @ + n] /\ (end => user'.pos = Size[c.dir])
    OBVIOUS
  <2>1. user' \in [dir : Dirs, pos : Nat] /\ c \in [dir : Dirs, pos : Nat]
    BY DEF Places
  <2>2. QED
    BY <2>1 DEF n
<1>8. QED
  BY <1>3, <1>4, <1>5, <1>6, <1>7 DEF Promise!Page, Promise!Lost, Lost, n

-----------------------------------------------------------------------------
(***************************************************************************)
(* The steps of the commands: each keeps the invariant and is a step of    *)
(* the promise.                                                            *)
(***************************************************************************)
Kept == EntriesFit /\ Countable' => [Promise!Next]_(Promise!vars)

\* The cursor and the page as the promise sees them.
LEMMA Stutter ==
  ASSUME (IF Filling THEN cmd.start ELSE user)' = (IF Filling THEN cmd.start ELSE user), reply' = reply
  PROVE  Kept
BY DEF Kept, Promise!vars

\* Commands that place the cursor, or forget it.
LEMMA MoveSteps ==
  ASSUME FujiInv,
         \/ \E d \in Dirs : sio_open_directory(d)
         \/ OpenAfterClose
         \/ sio_close_directory
         \/ \E p \in Positions : sio_set_directory_position(p)
  PROVE  FujiInv' /\ Kept
<1>1. DirInv /\ CmdTyped
  BY DEF FujiInv
<1>2. dir_close \/ UNCHANGED vars => DirInv'
  BY <1>1, FailedCalls, ExpiryStep DEF dir_close
<1>3. \A d \in Dirs : dir_open(d) => DirInv'
  BY <1>1, OpenStep DEF dir_open
<1>4. \A p \in Positions : dir_seek(p) => DirInv'
  BY <1>1, Sizes, SeekStep DEF dir_seek
<1>5. DirInv' /\ reply' = NoReply /\ (cmd' = Idle \/ (cmd'.op = "open" /\ cmd'.dir \in Dirs))
  <2>1. ASSUME NEW d \in Dirs, sio_open_directory(d)
        PROVE  DirInv' /\ reply' = NoReply /\ (cmd' = Idle \/ (cmd'.op = "open" /\ cmd'.dir \in Dirs))
    BY <1>2, <1>3, <2>1 DEF sio_open_directory
  <2>2. CASE OpenAfterClose
    <3>1. cmd.op = "open" /\ cmd.dir \in Dirs /\ reply = NoReply
      BY <1>1, <2>2, Kinds DEF OpenAfterClose, CmdTyped
    <3>2. QED
      BY <1>3, <2>2, <3>1 DEF OpenAfterClose
  <2>3. CASE sio_close_directory
    BY <1>2, <2>3 DEF sio_close_directory
  <2>4. ASSUME NEW p \in Positions, sio_set_directory_position(p)
        PROVE  DirInv' /\ reply' = NoReply /\ cmd' = Idle
    BY <1>4, <2>4 DEF sio_set_directory_position
  <2>5. QED
    BY <2>1, <2>2, <2>3, <2>4
<1>6. ~ Filling' /\ cmd' \notin Blocks
  BY <1>5, KindsNext
<1>7. FujiInv'
  BY <1>5, <1>6 DEF FujiInv, CmdTyped, BlockExact
<1>8. Promise!Move
  BY <1>5, <1>6, Anywhere DEF Promise!Move, Promise!NoPage, NoReply
<1>9. QED
  BY <1>7, <1>8 DEF Kept, Promise!Next

\* GET POSITION, and the loss of the session, change nothing the computer sees.
LEMMA QuietSteps ==
  ASSUME FujiInv,
         \/ sio_get_directory_position
         \/ SessionExpires /\ UNCHANGED fujivars
         \/ UNCHANGED allvars
  PROVE  FujiInv' /\ Kept
<1>1. DirInv /\ CmdTyped
  BY DEF FujiInv
<1>2. UNCHANGED <<open, cmd, reply>>
  BY DEF sio_get_directory_position, fujivars, allvars
<1>3. dir_tell \/ SessionExpires \/ UNCHANGED vars
  BY DEF sio_get_directory_position, allvars
<1>4. DirInv' /\ user' = user
  BY <1>1, <1>3, TellStep, ExpiryStep DEF dir_tell
<1>5. Alive' => Alive /\ Here'.dir = Here.dir
  BY <1>1, <1>3, HandleKept
<1>6. CmdTyped'
  BY <1>1, <1>2 DEF CmdTyped
<1>7. BlockExact => BlockExact'
  BY <1>2, <1>4, <1>5 DEF BlockExact, Reached
<1>8. FujiInv'
  BY <1>4, <1>6, <1>7 DEF FujiInv
<1>9. Kept
  BY <1>2, <1>4, Stutter DEF Filling
<1>10. QED
  BY <1>8, <1>9

\* READ ENTRY is a page of one entry, or of the end mark alone.
LEMMA EntryStep ==
  ASSUME FujiInv, sio_read_directory_entry
  PROVE  FujiInv' /\ Kept
<1>1. DirInv /\ CmdTyped /\ cmd = Idle /\ cmd' = Idle /\ dir_nextfile
  BY DEF FujiInv, sio_read_directory_entry
<1>2. ~ Filling /\ ~ Filling' /\ cmd' \notin Blocks
  BY <1>1, Kinds, KindsNext
<1>3. /\ DirInv' /\ got'.res \in {"OK", "EOF", "FAIL"}
      /\ got'.res = "OK" => got'.pos \in Positions
      /\ user # Lost /\ got'.res = "OK" =>
           /\ user' # Lost /\ got'.pos = user.pos /\ user'.pos = user.pos + 1 /\ user'.dir = user.dir
      /\ user # Lost /\ got'.res # "OK" => user' = Lost \/ (user' = user /\ user.pos = Size[user.dir])
  BY <1>1, NextFile
<1>4. FujiInv'
  BY <1>1, <1>2, <1>3 DEF FujiInv, CmdTyped, BlockExact
<1>5. user \in Places \cup {Lost} /\ user' \in Places \cup {Lost}
  BY <1>1, <1>3 DEF DirInv, DirTyped
<1>6. CASE user = Lost
  <2>1. Promise!PageLost
    BY <1>2, <1>3, <1>6, Anywhere DEF Promise!PageLost, Promise!Lost, Lost
  <2>2. QED
    BY <1>4, <2>1 DEF Kept, Promise!Next
<1>7. CASE user # Lost
  <2>1. user \in Places /\ user.pos \in Nat /\ Size[user.dir] \in Nat /\ user.pos <= Size[user.dir]
    BY <1>5, <1>7, Sizes
  <2>4. user = IF Filling THEN cmd.start ELSE user
    BY <1>2
  <2>5. ASSUME got'.res = "OK" PROVE Promise!Page
    <3> DEFINE l == <<user.pos>>
    <3>1. got'.pos = user.pos /\ user' \in Places /\ user'.dir = user.dir /\ user'.pos = user.pos + 1
      BY <1>3, <1>5, <1>7, <2>5
    <3>2. reply' = [list |-> l, count |-> 1, first |-> {}, end |-> FALSE]
      BY <2>5, <3>1 DEF sio_read_directory_entry, NoReply
    <3>3. l \in Seq(Nat) /\ Len(l) = 1 /\ \A i \in 1 .. Len(l) : l[i] = user.pos + i - 1
      BY <2>1
    <3>4. user.pos + 1 <= Size[user.dir]
      BY <3>1, Sizes
    <3> HIDE DEF l
    <3>5. 1 = IF FALSE THEN Len(l) + 1 ELSE Len(l)
      BY <3>3
    <3>6. /\ user'.pos = user.pos + Len(l) /\ user.pos + Len(l) <= Size[user.dir] /\ Len(l) > 0
          /\ {} \subseteq {user.pos} /\ FALSE \in BOOLEAN
      BY <3>1, <3>3, <3>4
    <3>7. QED
      BY <1>2, <2>1, <2>4, <3>1, <3>2, <3>3, <3>5, <3>6, PageStep
  <2>6. ASSUME got'.res # "OK" PROVE Promise!Page
    <3> DEFINE l == <<>>
    <3>1. user' = Lost \/ (user' = user /\ user.pos = Size[user.dir])
      BY <1>3, <1>7, <2>6
    <3>2. reply' = [list |-> l, count |-> 1, first |-> {}, end |-> TRUE]
      BY <2>6 DEF sio_read_directory_entry, NoReply
    <3>3. l \in Seq(Nat) /\ Len(l) = 0 /\ \A i \in 1 .. Len(l) : l[i] = user.pos + i - 1
      OBVIOUS
    <3> HIDE DEF l
    <3>4. 1 = IF TRUE THEN Len(l) + 1 ELSE Len(l)
      BY <3>3
    <3>5. user.pos + Len(l) <= Size[user.dir] /\ {} \subseteq {user.pos} /\ TRUE \in BOOLEAN /\ user.pos + Len(l) = user.pos
      BY <2>1, <3>3
    <3>6. QED
      BY <1>2, <2>1, <2>4, <3>1, <3>2, <3>3, <3>4, <3>5, PageStep
  <2>7. Promise!Page
    BY <2>5, <2>6
  <2>8. QED
    BY <1>4, <2>7 DEF Kept, Promise!Next
<1>8. QED
  BY <1>6, <1>7

\* What dir_tell returned to the loop.
LEMMA ToldStep ==
  ASSUME DirInv, dir_tell
  PROVE  /\ DirInv' /\ user' = user /\ (Alive' => Alive /\ Here'.dir = Here.dir)
         /\ Told \in Nat /\ (user # Lost => Told \in {user.pos, FNFS_INVALID_DIRPOS})
<1>1. /\ DirInv' /\ UNCHANGED <<dir_handle, first, count, current, eof, srv, user>>
      /\ got'.res \in {"OK", "FAIL"}
      /\ user # Lost /\ got'.res = "OK" => got'.pos = user.pos
  BY TellStep DEF dir_tell
<1>2. FNFS_INVALID_DIRPOS \in Nat
  BY DEF FNFS_INVALID_DIRPOS
<1>3. got'.res = "OK" => got'.pos \in Nat
  <2> SUFFICES ASSUME got'.res = "OK" PROVE got'.pos \in Nat
    OBVIOUS
  <2>1. tnfs_telldir
    BY DEF dir_tell, TelldirFails
  <2>2. (current < count \/ Alive) /\ got'.pos = IF current < count THEN first + current ELSE Here.pos
    BY <2>1 DEF tnfs_telldir, Cached, tell_dircache_entry
  <2>3. first + current \in Nat
    BY Sizes DEF DirInv, DirTyped
  <2>4. Alive => Here.pos \in Nat
    BY Sizes DEF DirInv, DirTyped, Servers, Alive, Here
  <2>5. QED
    BY <2>2, <2>3, <2>4
<1>4. Alive' => Alive /\ Here'.dir = Here.dir
  BY HandleKept
<1> HIDE DEF FNFS_INVALID_DIRPOS
<1>5. QED
  BY <1>1, <1>2, <1>3, <1>4 DEF Told

\* READ BLOCK begins at the position of the directory's user.
LEMMA BlockBegins ==
  ASSUME FujiInv, NEW max \in BlockSizes, sio_read_directory_block(max)
  PROVE  FujiInv' /\ Kept
<1> USE DEF HeaderBytes
<1>1. DirInv /\ cmd = Idle /\ dir_tell /\ reply' = reply
  BY DEF FujiInv, sio_read_directory_block
<1>2. cmd' = [op |-> "tell", max |-> max, start |-> user, initial |-> Told, list |-> <<>>,
              total |-> HeaderBytes, before |-> 0]
  BY DEF sio_read_directory_block
<1>3. /\ DirInv' /\ user' = user /\ (Alive' => Alive /\ Here'.dir = Here.dir)
      /\ Told \in Nat /\ (user # Lost => Told \in {user.pos, FNFS_INVALID_DIRPOS})
  BY <1>1, ToldStep
<1>4. user \in Places \cup {Lost}
  BY <1>1 DEF DirInv, DirTyped
<1> DEFINE told == Told
<1> HIDE DEF told
<1>5. cmd' = [op |-> "tell", max |-> max, start |-> user, initial |-> told, list |-> <<>>,
              total |-> HeaderBytes, before |-> 0] /\ told \in Nat
  BY <1>2, <1>3 DEF told
<1>6. cmd' \in Blocks
  BY <1>4, <1>5 DEF Blocks
<1>7. /\ cmd'.op = "tell" /\ cmd'.start = user /\ cmd'.initial = told /\ cmd'.list = <<>> /\ cmd'.total = HeaderBytes
  BY <1>5
<1>8. BlockExact'
  <2> SUFFICES ASSUME user # Lost PROVE BlockExact'
    BY <1>7 DEF BlockExact
  <2>1. user.pos \in Nat /\ user.pos <= Size[user.dir]
    BY <1>4, Sizes
  <2>2. Reached' = user.pos
    BY <1>7, <2>1 DEF Reached
  <2>3. Alive => Here.dir = user.dir
    BY <1>1 DEF DirInv, Follows
  <2>4. told \in {user.pos, FNFS_INVALID_DIRPOS}
    BY <1>3 DEF told
  <2>5. \A i \in 1 .. Len(cmd'.list) : cmd'.list[i] = cmd'.start.pos + i - 1
    BY <1>7
  <2>6. QED
    BY <1>3, <1>7, <2>1, <2>2, <2>3, <2>4, <2>5 DEF BlockExact
<1>9. FujiInv'
  BY <1>3, <1>6, <1>8 DEF FujiInv, CmdTyped
<1>10. ~ Filling /\ Filling'
  BY <1>1, <1>6, Kinds, KindsNext
<1>11. Kept
  BY <1>1, <1>7, <1>10, Stutter
<1>12. QED
  BY <1>9, <1>11

\* The loop tells its position before each entry.
LEMMA BlockTells ==
  ASSUME FujiInv, BlockTell
  PROVE  FujiInv' /\ Kept
<1>1. DirInv /\ cmd.op = "tell" /\ dir_tell /\ reply' = reply /\ cmd' = [cmd EXCEPT !.op = "read", !.before = Told]
  BY DEF FujiInv, BlockTell
<1>2. cmd \in Blocks /\ Filling
  BY <1>1, Kinds DEF FujiInv, Filling
<1>3. /\ DirInv' /\ user' = user /\ (Alive' => Alive /\ Here'.dir = Here.dir)
      /\ Told \in Nat /\ (user # Lost => Told \in {user.pos, FNFS_INVALID_DIRPOS})
  BY <1>1, ToldStep
<1> DEFINE told == Told
           c == [cmd EXCEPT !.op = "read"]
<1>4. told \in Nat /\ cmd' = [c EXCEPT !.before = told]
  BY <1>1, <1>3
<1> HIDE DEF told
<1>5. /\ c \in Blocks /\ c.op = "read" /\ c.max = cmd.max /\ c.start = cmd.start /\ c.initial = cmd.initial
      /\ c.list = cmd.list /\ c.total = cmd.total
  BY <1>2 DEF Blocks
<1> HIDE DEF c
<1>6. cmd' \in Blocks
  BY <1>4, <1>5 DEF Blocks
<1>7. /\ cmd'.op = "read" /\ cmd'.max = cmd.max /\ cmd'.start = cmd.start /\ cmd'.initial = cmd.initial
      /\ cmd'.list = cmd.list /\ cmd'.total = cmd.total /\ cmd'.before = told
  BY <1>4, <1>5 DEF Blocks
<1>8. BlockExact => BlockExact'
  BY <1>1, <1>2, <1>3, <1>7 DEF BlockExact, Reached, told
<1>9. FujiInv'
  BY <1>3, <1>6, <1>8 DEF FujiInv, CmdTyped
<1>10. Filling'
  BY <1>6, KindsNext
<1>11. Kept
  BY <1>1, <1>2, <1>7, <1>10, Stutter
<1>12. QED
  BY <1>9, <1>11

\* An entry, or its absence, read for a block whose computer knows its position.
LEMMA BlockReads ==
  ASSUME FujiInv, EntriesFit, cmd.op = "read", cmd \in Blocks, cmd.start # Lost, dir_nextfile
  PROVE  /\ BlockExact /\ cmd.start \in Places /\ Reached \in Nat
         /\ Alive' => Here'.dir = cmd.start.dir
         /\ got'.res = "OK" => /\ got'.pos = Reached /\ user' # Lost /\ user' \in Places
                               /\ user'.dir = cmd.start.dir /\ user'.pos = Reached + 1
                               /\ Reached + 1 <= Size[cmd.start.dir]
         /\ got'.res # "OK" => user' = Lost \/ (user' = user /\ user.dir = cmd.start.dir /\ user.pos = Reached
                                                /\ user \in Places /\ user.pos = Size[cmd.start.dir])
<1>1. DirInv /\ BlockExact
  BY DEF FujiInv
<1>2. /\ Alive => Here.dir = cmd.start.dir
      /\ user # Lost /\ user.dir = cmd.start.dir /\ user.pos = Reached
  BY <1>1 DEF BlockExact
<1>3. cmd.start \in Places /\ user \in Places
  BY <1>1, <1>2 DEF Blocks, DirInv, DirTyped
<1>4. /\ DirInv'
      /\ got'.res = "OK" =>
           /\ user' # Lost /\ got'.pos = user.pos /\ user'.pos = user.pos + 1 /\ user'.dir = user.dir
      /\ got'.res # "OK" => user' = Lost \/ (user' = user /\ user.pos = Size[user.dir])
  BY <1>1, <1>2, NextFile
<1>5. Alive' => Alive /\ Here'.dir = Here.dir
  BY <1>1, HandleKept
<1>6. user' # Lost => user' \in Places /\ user'.pos <= Size[user'.dir]
  BY <1>4, Sizes DEF DirInv, DirTyped
<1>7. Reached \in Nat
  BY <1>2, <1>3, Sizes
<1>8. QED
  BY <1>1, <1>2, <1>3, <1>4, <1>5, <1>6, <1>7

\* A number below the modulus is its own remainder.
LEMMA Remainder == \A a, b \in Nat : a < b => a % b = a
OBVIOUS

\* The block is sent.
LEMMA BlockSent ==
  ASSUME FujiInv, cmd \in Blocks, DirInv', cmd' = Idle, NEW l \in Seq(Nat), NEW end \in BOOLEAN,
         reply' = [list |-> l, count |-> (Len(l) + (IF end THEN 1 ELSE 0)) % MaxEntries,
                   first |-> {cmd.initial} \ {FNFS_INVALID_DIRPOS}, end |-> end],
         EntriesFit /\ cmd.start # Lost =>
           /\ \A i \in 1 .. Len(l) : l[i] = cmd.start.pos + i - 1
           /\ cmd.start.pos + Len(l) <= Size[cmd.start.dir]
           /\ Len(l) > 0 \/ end
           /\ \/ user' = Lost
              \/ /\ user' \in Places /\ user'.dir = cmd.start.dir /\ user'.pos = cmd.start.pos + Len(l)
                 /\ end => user'.pos = Size[cmd.start.dir]
  PROVE  FujiInv' /\ Kept
<1>1. Filling /\ ~ Filling' /\ cmd' \notin Blocks
  BY Kinds, KindsNext
<1>2. FujiInv'
  BY <1>1 DEF FujiInv, CmdTyped, BlockExact
<1>3. CASE cmd.start = Lost
  <2>1. Promise!PageLost
    BY <1>1, <1>3, Anywhere DEF Promise!PageLost, Promise!Lost, Lost
  <2>2. QED
    BY <1>2, <2>1 DEF Kept, Promise!Next
<1>4. ASSUME cmd.start # Lost, EntriesFit, Countable'
      PROVE  Promise!Page
  <2>1. cmd.start \in Places /\ cmd.start = IF Filling THEN cmd.start ELSE user
    BY <1>1, <1>4 DEF Blocks
  <2>2. {cmd.initial} \ {FNFS_INVALID_DIRPOS} \subseteq {cmd.start.pos}
    BY <1>4 DEF FujiInv, BlockExact
  <2>3. (Len(l) + (IF end THEN 1 ELSE 0)) % MaxEntries = IF end THEN Len(l) + 1 ELSE Len(l)
    <3>1. Len(l) \in Nat /\ MaxEntries \in Nat
      BY BlockAssumption
    <3>2. reply'.list = l /\ reply'.end = end
      OBVIOUS
    <3>3. Len(l) + (IF end THEN 1 ELSE 0) < MaxEntries
      BY <1>4, <3>2 DEF Countable
    <3>4. PICK k : k = IF end THEN Len(l) + 1 ELSE Len(l)
      OBVIOUS
    <3>5. k \in Nat /\ k = Len(l) + (IF end THEN 1 ELSE 0)
      BY <3>1, <3>4
    <3>6. k % MaxEntries = k
      BY <3>1, <3>3, <3>5, Remainder
    <3>7. QED
      BY <3>4, <3>5, <3>6
  <2> DEFINE f == {cmd.initial} \ {FNFS_INVALID_DIRPOS}
             m == (Len(l) + (IF end THEN 1 ELSE 0)) % MaxEntries
  <2> HIDE DEF f, m
  <2>4. reply' = [list |-> l, count |-> m, first |-> f, end |-> end]
    BY DEF f, m
  <2>5. f \subseteq {cmd.start.pos} /\ m = IF end THEN Len(l) + 1 ELSE Len(l)
    BY <2>2, <2>3 DEF f, m
  <2>6. QED
    BY <1>1, <1>4, <2>1, <2>4, <2>5, PageStep
<1>5. QED
  BY <1>2, <1>3, <1>4 DEF Kept, Promise!Next

\* The end of the directory, or a failure, ends the block with the end mark.
LEMMA BlockEnds ==
  ASSUME FujiInv, BlockEnd
  PROVE  FujiInv' /\ Kept
<1>1. /\ cmd.op = "read" /\ dir_nextfile /\ got'.res # "OK" /\ cmd' = Idle
      /\ reply' = [list |-> cmd.list, count |-> (Len(cmd.list) + (IF TRUE THEN 1 ELSE 0)) % MaxEntries,
                    first |-> {cmd.initial} \ {FNFS_INVALID_DIRPOS}, end |-> TRUE]
  BY DEF BlockEnd, Finish
<1>2. cmd \in Blocks /\ DirInv
  BY <1>1, Kinds DEF FujiInv, Filling
<1>3. DirInv' /\ cmd.list \in Seq(Nat)
  BY <1>1, <1>2, NextFile DEF Blocks
<1>4. ASSUME EntriesFit, cmd.start # Lost
      PROVE  /\ \A i \in 1 .. Len(cmd.list) : cmd.list[i] = cmd.start.pos + i - 1
             /\ cmd.start.pos + Len(cmd.list) <= Size[cmd.start.dir]
             /\ \/ user' = Lost
                \/ /\ user' \in Places /\ user'.dir = cmd.start.dir /\ user'.pos = cmd.start.pos + Len(cmd.list)
                   /\ user'.pos = Size[cmd.start.dir]
  <2>1. BlockExact /\ (user' = Lost \/ (user' = user /\ user.dir = cmd.start.dir /\ user.pos = Reached
                                          /\ user \in Places /\ user.pos = Size[cmd.start.dir]))
    BY <1>1, <1>2, <1>4, BlockReads
  <2>2. QED
    BY <1>2, <1>4, <2>1 DEF BlockExact, Reached
<1> DEFINE l == cmd.list
<1> HIDE DEF l
<1>5. QED
  BY <1>1, <1>2, <1>3, <1>4, BlockSent

\* An entry that fits is added; 256 of them end the block.
LEMMA BlockAdds ==
  ASSUME FujiInv, BlockAdd
  PROVE  FujiInv' /\ Kept
<1> DEFINE l == Append(cmd.list, got'.pos)
           n == cmd.total + OffsetBytes + Bytes[got'.pos]
           c == [cmd EXCEPT !.op = "tell", !.list = l, !.total = n]
<1>1. cmd.op = "read" /\ dir_nextfile /\ got'.res = "OK"
  BY DEF BlockAdd
<1>2. cmd \in Blocks /\ DirInv
  BY <1>1, Kinds DEF FujiInv, Filling
<1>3. DirInv' /\ got'.pos \in Positions /\ Positions \subseteq Nat
  BY <1>1, <1>2, NextFile, Sizes
<1>4. l \in Seq(Nat) /\ n \in Int
  <2>1. Bytes[got'.pos] \in Nat
    BY <1>3, BlockAssumption
  <2>2. cmd.list \in Seq(Nat) /\ cmd.total \in Int
    BY <1>2 DEF Blocks
  <2>3. l \in Seq(Nat)
    <3> DEFINE x == got'.pos
               s == cmd.list
    <3>1. x \in Nat /\ s \in Seq(Nat)
      BY <1>3, <2>2
    <3> HIDE DEF x, s
    <3>2. Append(s, x) \in Seq(Nat)
      BY <3>1
    <3>3. QED
      BY <3>2 DEF x, s
  <2>4. OffsetBytes \in Nat
    BY DEF OffsetBytes
  <2>5. QED
    BY <2>1, <2>2, <2>3, <2>4
<1>5. IF Len(c.list) < MaxEntries THEN cmd' = c /\ reply' = reply
      ELSE /\ cmd' = Idle
           /\ reply' = [list |-> c.list, count |-> (Len(c.list) + (IF FALSE THEN 1 ELSE 0)) % MaxEntries,
                         first |-> {c.initial} \ {FNFS_INVALID_DIRPOS}, end |-> FALSE]
  BY DEF BlockAdd, Finish
<1> DEFINE c1 == [cmd EXCEPT !.op = "tell"]
           c2 == [c1 EXCEPT !.list = l]
<1>6. c = [c2 EXCEPT !.total = n]
  BY <1>2 DEF Blocks
<1> HIDE DEF l, n
<1>7. c1 \in Blocks /\ c1.op = "tell" /\ c1.start = cmd.start /\ c1.initial = cmd.initial
  BY <1>2 DEF Blocks
<1> HIDE DEF c1
<1>8. c2 \in Blocks /\ c2.op = "tell" /\ c2.start = cmd.start /\ c2.initial = cmd.initial /\ c2.list = l
  BY <1>4, <1>7 DEF Blocks
<1> HIDE DEF c2, c
<1>9. c \in Blocks /\ c.op = "tell" /\ c.start = cmd.start /\ c.initial = cmd.initial /\ c.list = l
  BY <1>4, <1>6, <1>8 DEF Blocks
<1>10. ASSUME EntriesFit, cmd.start # Lost
       PROVE  /\ \A i \in 1 .. Len(l) : l[i] = cmd.start.pos + i - 1
              /\ cmd.start.pos + Len(l) <= Size[cmd.start.dir] /\ Len(l) > 0
              /\ user' \in Places /\ user'.dir = cmd.start.dir /\ user'.pos = cmd.start.pos + Len(l)
              /\ (Alive' => Here'.dir = cmd.start.dir) /\ user' # Lost
              /\ cmd.initial \in {cmd.start.pos, FNFS_INVALID_DIRPOS}
  <2>1. /\ BlockExact /\ cmd.start \in Places /\ Reached \in Nat /\ (Alive' => Here'.dir = cmd.start.dir)
        /\ got'.pos = Reached /\ user' # Lost /\ user' \in Places
        /\ user'.dir = cmd.start.dir /\ user'.pos = Reached + 1 /\ Reached + 1 <= Size[cmd.start.dir]
    BY <1>1, <1>2, <1>10, BlockReads
  <2>2. /\ \A i \in 1 .. Len(cmd.list) : cmd.list[i] = cmd.start.pos + i - 1
        /\ cmd.initial \in {cmd.start.pos, FNFS_INVALID_DIRPOS}
    BY <1>2, <1>10, <2>1 DEF BlockExact
  <2>3. cmd.list \in Seq(Nat) /\ Len(cmd.list) \in Nat /\ cmd.start.pos \in Nat
    BY <1>2, <2>1, Sizes DEF Blocks
  <2> DEFINE a == cmd.start.pos
             s == cmd.list
  <2>a. Reached = a + Len(s)
    BY DEF Reached
  <2>b. a \in Nat /\ s \in Seq(Nat) /\ Len(s) \in Nat /\ \A i \in 1 .. Len(s) : s[i] = a + i - 1
    BY <2>2, <2>3
  <2>c. l = Append(s, Reached)
    BY <2>1 DEF l
  <2> HIDE DEF a, s
  <2>4. Len(l) = Len(s) + 1 /\ l[Len(s) + 1] = Reached /\ \A i \in 1 .. Len(s) : l[i] = s[i]
    BY <2>1, <2>b, <2>c
  <2>5. a + Len(l) = Reached + 1
    BY <2>4, <2>a, <2>b
  <2>6. \A i \in 1 .. Len(l) : l[i] = a + i - 1
    <3> SUFFICES ASSUME NEW i \in 1 .. Len(l) PROVE l[i] = a + i - 1
      OBVIOUS
    <3>1. CASE i \in 1 .. Len(s)
      BY <2>4, <2>b, <3>1
    <3>2. CASE i = Len(s) + 1
      BY <2>4, <2>a, <2>b, <3>2
    <3>3. QED
      BY <2>4, <2>b, <3>1, <3>2
  <2>7. QED
    BY <2>1, <2>2, <2>4, <2>5, <2>6, <2>b DEF a
<1>11. CASE Len(c.list) < MaxEntries
  <2>1. cmd' = c /\ reply' = reply
    BY <1>5, <1>11
  <2>2. ASSUME EntriesFit PROVE BlockExact'
    <3> SUFFICES ASSUME cmd.start # Lost PROVE BlockExact'
      BY <1>9, <2>1 DEF BlockExact
    <3>1. cmd'.op = "tell" /\ cmd'.start = cmd.start /\ cmd'.initial = cmd.initial /\ cmd'.list = l
      BY <1>9, <2>1
    <3>2. l # <<>>
      BY <1>10, <2>2
    <3>3. Reached' = cmd.start.pos + Len(l)
      BY <3>1 DEF Reached
    <3>4. QED
      BY <1>10, <2>2, <3>1, <3>2, <3>3 DEF BlockExact
  <2>3. FujiInv'
    BY <1>3, <1>9, <2>1, <2>2 DEF FujiInv, CmdTyped
  <2>4. Filling /\ Filling'
    BY <1>2, <1>9, <2>1, Kinds, KindsNext
  <2>5. Kept
    BY <1>9, <2>1, <2>4, Stutter
  <2>6. QED
    BY <2>3, <2>5
<1>12. CASE ~ (Len(c.list) < MaxEntries)
  <2>1. /\ cmd' = Idle /\ FALSE \in BOOLEAN
        /\ reply' = [list |-> l, count |-> (Len(l) + (IF FALSE THEN 1 ELSE 0)) % MaxEntries,
                      first |-> {cmd.initial} \ {FNFS_INVALID_DIRPOS}, end |-> FALSE]
    BY <1>5, <1>9, <1>12
  <2>2. QED
    BY <1>2, <1>3, <1>4, <1>10, <2>1, BlockSent
<1>13. QED
  BY <1>11, <1>12

\* An entry that does not fit: there is one in the block already.
LEMMA BlockFills ==
  ASSUME FujiInv, BlockFull
  PROVE  FujiInv' /\ Kept
<1>1. /\ cmd.op = "read" /\ dir_nextfile /\ cmd' = [cmd EXCEPT !.op = "seek"] /\ reply' = reply
      /\ ~ Fits(IF got'.res = "OK" THEN Charge[got'.pos] ELSE EndBytes)
  BY DEF BlockFull
<1>2. cmd \in Blocks /\ DirInv
  BY <1>1, Kinds DEF FujiInv, Filling
<1>3. DirInv' /\ (got'.res = "OK" => got'.pos \in Positions)
  BY <1>1, <1>2, NextFile
<1>4. /\ cmd' \in Blocks /\ cmd'.op = "seek" /\ cmd'.start = cmd.start /\ cmd'.initial = cmd.initial
      /\ cmd'.list = cmd.list /\ cmd'.total = cmd.total /\ cmd'.before = cmd.before
  BY <1>1, <1>2 DEF Blocks
<1>5. ASSUME EntriesFit, cmd.start # Lost
      PROVE  BlockExact'
  <2>1. BlockExact /\ (Alive' => Here'.dir = cmd.start.dir)
    BY <1>1, <1>2, <1>5, BlockReads
  <2>2. cmd.list # <<>>
    <3> SUFFICES ASSUME cmd.list = <<>> PROVE FALSE
      OBVIOUS
    <3>1. cmd.total = HeaderBytes /\ cmd.max \in BlockSizes
      BY <1>2, <1>5, <2>1 DEF BlockExact, Blocks
    <3>2. HeaderBytes + OffsetBytes + EndBytes <= cmd.max
      BY <1>5, <3>1 DEF EntriesFit
    <3>3. got'.res = "OK" => HeaderBytes + OffsetBytes + Charge[got'.pos] <= cmd.max
      BY <1>3, <1>5, <3>1 DEF EntriesFit
    <3>4. QED
      BY <1>1, <3>1, <3>2, <3>3 DEF Fits
  <2>3. QED
    BY <1>1, <1>2, <1>4, <1>5, <2>1, <2>2 DEF BlockExact, Reached
<1>6. FujiInv'
  <2>1. EntriesFit => BlockExact'
    BY <1>4, <1>5 DEF BlockExact
  <2>2. QED
    BY <1>3, <1>4, <2>1 DEF FujiInv, CmdTyped
<1>7. Filling /\ Filling'
  BY <1>2, <1>4, Kinds, KindsNext
<1>8. Kept
  BY <1>1, <1>4, <1>7, Stutter
<1>9. QED
  BY <1>6, <1>8

\* ... and the loop goes back to where it was before it read that entry.
LEMMA BlockSeeksBack ==
  ASSUME FujiInv, BlockSeekBack
  PROVE  FujiInv' /\ Kept
<1>1. /\ cmd.op = "seek" /\ dir_seek(cmd.before) /\ cmd' = Idle
      /\ reply' = [list |-> cmd.list, count |-> (Len(cmd.list) + (IF FALSE THEN 1 ELSE 0)) % MaxEntries,
                    first |-> {cmd.initial} \ {FNFS_INVALID_DIRPOS}, end |-> FALSE]
  BY DEF BlockSeekBack, Finish
<1>2. cmd \in Blocks /\ DirInv
  BY <1>1, Kinds DEF FujiInv, Filling
<1>3. cmd.before \in Nat /\ cmd.list \in Seq(Nat)
  BY <1>2 DEF Blocks
<1> DEFINE p == cmd.before
<1>4. /\ DirInv'
      /\ tnfs_seekdir(p) => user' = [dir |-> Here.dir, pos |-> p] /\ p <= Size[Here.dir] /\ Alive
      /\ ~ tnfs_seekdir(p) => user' = Lost
  BY <1>1, <1>2, <1>3, SeekStep DEF dir_seek
<1>5. user' \in Places \cup {Lost}
  BY <1>4 DEF DirInv, DirTyped
<1>6. ASSUME EntriesFit, cmd.start # Lost
      PROVE  /\ \A i \in 1 .. Len(cmd.list) : cmd.list[i] = cmd.start.pos + i - 1
             /\ cmd.start.pos + Len(cmd.list) <= Size[cmd.start.dir] /\ Len(cmd.list) > 0
             /\ \/ user' = Lost
                \/ user' \in Places /\ user'.dir = cmd.start.dir /\ user'.pos = cmd.start.pos + Len(cmd.list)
  <2>1. BlockExact
    BY <1>6 DEF FujiInv
  <2>2. /\ Alive => Here.dir = cmd.start.dir
        /\ Reached <= Size[cmd.start.dir]
        /\ \A i \in 1 .. Len(cmd.list) : cmd.list[i] = cmd.start.pos + i - 1
        /\ p \in {Reached, FNFS_INVALID_DIRPOS}
        /\ cmd.list # <<>>
    BY <1>1, <1>2, <1>6, <2>1 DEF BlockExact
  <2>3. cmd.start.dir \in Dirs /\ Size[cmd.start.dir] \in Nat
    BY <1>2, <1>6, Sizes DEF Blocks
  <2>4. Size[cmd.start.dir] < FNFS_INVALID_DIRPOS
    BY <1>6, <2>3 DEF EntriesFit
  <2>5. CASE tnfs_seekdir(p)
    <3>1. user' = [dir |-> cmd.start.dir, pos |-> p] /\ p <= Size[cmd.start.dir]
      BY <1>4, <2>2, <2>5
    <3>2. p # FNFS_INVALID_DIRPOS
      BY <2>3, <2>4, <3>1 DEF FNFS_INVALID_DIRPOS
    <3>3. p = Reached
      BY <2>2, <3>2
    <3>4. user'.dir = cmd.start.dir /\ user'.pos = Reached
      BY <3>1, <3>3
    <3>5. user' \in Places
      BY <1>3, <2>3, <3>1, PlaceOf
    <3>6. Len(cmd.list) > 0
      BY <1>3, <2>2
    <3>7. QED
      BY <2>2, <3>4, <3>5, <3>6 DEF Reached
  <2>6. CASE ~ tnfs_seekdir(p)
    <3>1. Len(cmd.list) > 0
      BY <1>3, <2>2
    <3>2. QED
      BY <1>4, <2>2, <2>6, <3>1 DEF Reached
  <2>7. QED
    BY <2>5, <2>6
<1>7. FALSE \in BOOLEAN
  OBVIOUS
<1>8. QED
  BY <1>1, <1>2, <1>3, <1>4, <1>6, <1>7, BlockSent

-----------------------------------------------------------------------------
LEMMA FujiStep ==
  ASSUME FujiInv, [FujiNext]_allvars
  PROVE  FujiInv' /\ Kept
BY MoveSteps, QuietSteps, EntryStep, BlockBegins, BlockTells, BlockEnds, BlockAdds, BlockFills, BlockSeeksBack
   DEF FujiNext

LEMMA FujiStart == FujiInit => FujiInv
<1> SUFFICES ASSUME FujiInit PROVE FujiInv
  OBVIOUS
<1>1. DirInv /\ cmd = Idle
  BY InitDir DEF FujiInit
<1>2. QED
  BY <1>1, Kinds DEF FujiInv, CmdTyped, BlockExact

\* The state of the directory cache is typed, its cursor within the cache and
\* the cache within its array, under every sequence of directory commands.
THEOREM DirectoryTyped == FujiSpec => []TypeOK
<1>1. FujiInv /\ [FujiNext]_allvars => FujiInv'
  BY FujiStep
<1>2. FujiInv => TypeOK
  BY DirInvGives DEF FujiInv
<1>3. QED
  BY <1>1, <1>2, FujiStart, PTL DEF FujiSpec

\* ListingExact: a read of a directory returns the entry at the position that
\* the last open, seek and the reads since imply, and reports the end exactly
\* behind the last entry, through the cache and across lost sessions.
THEOREM ListingsExact == FujiSpec => []ListingExact
<1>1. FujiInv /\ [FujiNext]_allvars => FujiInv'
  BY FujiStep
<1>2. FujiInv => ListingExact
  BY DirInvGives DEF FujiInv
<1>3. QED
  BY <1>1, <1>2, FujiStart, PTL DEF FujiSpec

\* AbstractDirectory: the commands of the FUJI device implement DirectorySpec,
\* pages of consecutive entries that begin where the last page ended, with their
\* true number, provided an entry fits into an empty block and a position into
\* 16 bits (EntriesFit), and as long as no page has 256 entries (Countable).
THEOREM PagesAreConsecutive ==
  ASSUME EntriesFit
  PROVE  FujiSpec /\ []Countable => AbstractDirectory
<1>1. FujiInit => Promise!Init
  <2> SUFFICES ASSUME FujiInit PROVE Promise!Init
    OBVIOUS
  <2>1. cmd = Idle /\ user = Lost /\ reply = NoReply
    BY DEF FujiInit, Init
  <2>2. ~ Filling
    BY <2>1, Kinds
  <2>3. QED
    BY <2>1, <2>2 DEF Promise!Init, Promise!NoPage, Promise!Lost, NoReply, Lost
<1>2. FujiInv /\ [FujiNext]_allvars /\ Countable' => FujiInv' /\ [Promise!Next]_(Promise!vars)
  BY FujiStep DEF Kept
<1>3. QED
  BY <1>1, <1>2, FujiStart, PTL DEF FujiSpec, AbstractDirectory, Promise!Spec
=============================================================================
