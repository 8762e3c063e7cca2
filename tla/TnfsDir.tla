------------------------------ MODULE TnfsDir ------------------------------
(***************************************************************************)
(* Reading a directory of a TNFS host (lib/TNFSlib/tnfslib.cpp:            *)
(* tnfs_opendirx .. tnfs_closedir) through the directory cache of          *)
(* tnfsMountInfo.  One READDIRX brings several entries; read, tell and     *)
(* seek then work on the cache, on the server, or on both.                 *)
(*                                                                         *)
(* A directory is its number of entries, and an entry its position.  The   *)
(* server (external) keeps a directory and a position for each open        *)
(* handle; it loses them with the session, which the transaction engine    *)
(* replaces (TnfsTransaction).                                             *)
(***************************************************************************)
EXTENDS Integers, FiniteSets, FiniteSetsExt

CONSTANTS
  Dirs, Size,   \* directories, and the number of entries of each
  MaxCache,     \* TNFS_MAX_DIRCACHE_ENTRIES
  MaxId,        \* bound: largest directory handle of the server
  Faults        \* "expiry", "unsent" (the server saw nothing), "unanswered"

ASSUME DirAssumption ==
  /\ Size \in [Dirs -> Nat]
  /\ MaxCache \in Nat \ {0} /\ MaxId \in Nat
  /\ Faults \subseteq {"expiry", "unsent", "unanswered"}

VARIABLES
  dir_handle,                 \* m_info->dir_handle
  first, count, current,      \* _dir_cache: dirpos of its first entry, number of
                              \* entries, and the next one to return
  eof,                        \* _dir_cache_eof
  srv,                        \* server: directory and position of each handle
  user,                       \* the directory and the position the user counts on
  got                         \* what the last call returned

cachev == <<first, count, current, eof>>
vars == <<dir_handle, cachev, srv, user, got>>

Ids == 0 .. MaxId
NoDir == [dir |-> "none"]
Closed == -1              \* TNFS_INVALID_HANDLE
Lost == [dir |-> "lost"]  \* a call failed: the user counts on nothing
Positions == {0} \cup UNION {0 .. Size[d] : d \in Dirs}

Init ==
  /\ dir_handle = Closed
  /\ first = 0 /\ count = 0 /\ current = 0 /\ eof = FALSE
  /\ srv = [i \in Ids |-> NoDir]
  /\ user = Lost
  /\ got = [call |-> "none", res |-> "OK"]

-----------------------------------------------------------------------------
empty_dircache == count' = 0 /\ current' = 0 /\ eof' = FALSE /\ UNCHANGED first

Known == user # Lost

\* The call fails, after whatever it did to the cache.
Fails(call) ==
  /\ user' = Lost
  /\ got' = [call |-> call, res |-> "FAIL"]

Alive == dir_handle # Closed /\ srv[dir_handle] # NoDir
Here == srv[dir_handle]
Moved(p) == [srv EXCEPT ![dir_handle].pos = p]

FreeIds == {i \in Ids : srv[i] = NoDir}

\* The handle of a directory that is still open is overwritten.  Opening names a
\* path, so it also works when the session has to be mounted again.
tnfs_opendirx(d) ==
  /\ FreeIds # {}
  /\ empty_dircache
  /\ srv' = [srv EXCEPT ![Min(FreeIds)] = [dir |-> d, pos |-> 0]]
  /\ dir_handle' = Min(FreeIds)
  /\ user' = [dir |-> d, pos |-> 0]
  /\ got' = [call |-> "open", res |-> "OK"]

\* No reply, or an error: the old handle stays, without its cache.
OpenFails(d) ==
  /\ \/ ("unsent" \in Faults \/ FreeIds = {}) /\ UNCHANGED srv
     \/ /\ "unanswered" \in Faults /\ FreeIds # {}
        /\ srv' = [srv EXCEPT ![Min(FreeIds)] = [dir |-> d, pos |-> 0]]
  /\ empty_dircache
  /\ Fails("open")
  /\ UNCHANGED dir_handle

-----------------------------------------------------------------------------
Entry(p) ==
  /\ got' = [call |-> "read", res |-> "OK", pos |-> p, user |-> user]
  /\ user' = IF Known THEN [user EXCEPT !.pos = @ + 1] ELSE Lost

\* Mutant: the test for the last entry is off by one.
Cached_OffByOne == current <= count

Cached == current < count

\* tnfs_readdirx, from the cache.
next_dircache_entry ==
  /\ dir_handle # Closed /\ Cached
  /\ current' = current + 1
  /\ Entry(first + current)
  /\ UNCHANGED <<dir_handle, first, count, eof, srv>>

EndOfFile == got' = [call |-> "read", res |-> "EOF", user |-> user] /\ UNCHANGED user

ReaddirEof ==
  /\ dir_handle # Closed /\ ~ Cached /\ eof
  /\ EndOfFile
  /\ UNCHANGED <<dir_handle, cachev, srv>>

Asks == dir_handle # Closed /\ ~ Cached /\ ~ eof

\* Mutant: the entry returned at once is returned again by the next read.
tnfs_readdirx_Twice ==
  /\ Asks /\ Alive /\ Here.pos < Size[Here.dir]
  /\ \E k \in 1 .. MaxCache :
       /\ Here.pos + k <= Size[Here.dir]
       /\ first' = Here.pos /\ count' = k /\ current' = 0
       /\ eof' = (Here.pos + k = Size[Here.dir])
       /\ srv' = Moved(Here.pos + k)
  /\ Entry(Here.pos)
  /\ UNCHANGED dir_handle

\* The server returns as many entries as fit a packet, says whether they are the
\* last, and the first of them is returned.
tnfs_readdirx ==
  /\ Asks /\ Alive /\ Here.pos < Size[Here.dir]
  /\ \E k \in 1 .. MaxCache :
       /\ Here.pos + k <= Size[Here.dir]
       /\ first' = Here.pos /\ count' = k /\ current' = 1
       /\ eof' = (Here.pos + k = Size[Here.dir])
       /\ srv' = Moved(Here.pos + k)
  /\ Entry(Here.pos)
  /\ UNCHANGED dir_handle

\* There is nothing after the position: the server answers END_OF_FILE.
ReaddirNoMore ==
  /\ Asks /\ Alive /\ Here.pos >= Size[Here.dir]
  /\ empty_dircache
  /\ EndOfFile
  /\ UNCHANGED <<dir_handle, srv>>

ReaddirFails ==
  /\ Asks
  /\ \/ (~ Alive \/ "unsent" \in Faults) /\ UNCHANGED srv
     \/ /\ Alive /\ "unanswered" \in Faults
        /\ \E k \in 1 .. MaxCache :
             Here.pos + k <= Size[Here.dir] /\ srv' = Moved(Here.pos + k)
  /\ empty_dircache
  /\ Fails("read")
  /\ UNCHANGED dir_handle

-----------------------------------------------------------------------------
tell_dircache_entry == first + current

\* From the cache while it has an entry left, else from the server.
tnfs_telldir ==
  /\ dir_handle # Closed
  /\ Cached \/ Alive
  /\ got' = [call |-> "tell", res |-> "OK", user |-> user,
             pos |-> IF Cached THEN tell_dircache_entry ELSE Here.pos]
  /\ UNCHANGED <<dir_handle, cachev, srv, user>>

TelldirFails ==
  /\ dir_handle # Closed /\ ~ Cached
  /\ ~ Alive \/ Faults \cap {"unsent", "unanswered"} # {}
  /\ got' = [call |-> "tell", res |-> "FAIL"]
  /\ UNCHANGED <<dir_handle, cachev, srv, user>>

tnfs_seekdir(p) ==
  /\ Alive /\ p <= Size[Here.dir]
  /\ empty_dircache
  /\ srv' = Moved(p)
  /\ user' = [dir |-> Here.dir, pos |-> p]
  /\ got' = [call |-> "seek", res |-> "OK"]
  /\ UNCHANGED dir_handle

\* Also when the server refuses a position behind the end.
SeekdirFails(p) ==
  /\ dir_handle # Closed
  /\ \/ (~ Alive \/ "unsent" \in Faults) /\ UNCHANGED srv
     \/ Alive /\ p > Size[Here.dir] /\ UNCHANGED srv
     \/ Alive /\ "unanswered" \in Faults /\ p <= Size[Here.dir] /\ srv' = Moved(p)
  /\ empty_dircache
  /\ Fails("seek")
  /\ UNCHANGED dir_handle

\* The handle is forgotten only when the server confirms.
tnfs_closedir ==
  /\ Alive
  /\ empty_dircache
  /\ srv' = [srv EXCEPT ![dir_handle] = NoDir]
  /\ dir_handle' = Closed
  /\ user' = Lost
  /\ got' = [call |-> "close", res |-> "OK"]

ClosedirFails ==
  /\ dir_handle # Closed
  /\ \/ (~ Alive \/ "unsent" \in Faults) /\ UNCHANGED srv
     \/ Alive /\ "unanswered" \in Faults /\ srv' = [srv EXCEPT ![dir_handle] = NoDir]
  /\ empty_dircache
  /\ Fails("close")
  /\ UNCHANGED dir_handle

SessionExpires ==
  /\ "expiry" \in Faults
  /\ \E i \in Ids : srv[i] # NoDir
  /\ srv' = [i \in Ids |-> NoDir]
  /\ UNCHANGED <<dir_handle, cachev, user, got>>

Next ==
  \/ \E d \in Dirs : tnfs_opendirx(d)
  \/ \E d \in Dirs : OpenFails(d)
  \/ next_dircache_entry
  \/ ReaddirEof
  \/ tnfs_readdirx
  \/ ReaddirNoMore
  \/ ReaddirFails
  \/ tnfs_telldir
  \/ TelldirFails
  \/ \E p \in Positions : tnfs_seekdir(p)
  \/ \E p \in Positions : SeekdirFails(p)
  \/ tnfs_closedir
  \/ ClosedirFails
  \/ SessionExpires

Spec == Init /\ [][Next]_vars

-----------------------------------------------------------------------------
\* Type correctness; the cursor stays within the cache and the cache within the
\* array that holds it.
TypeOK ==
  /\ dir_handle \in Ids \cup {Closed}
  /\ first \in Positions /\ count \in 0 .. MaxCache /\ current \in 0 .. count
  /\ eof \in BOOLEAN
  /\ \A i \in Ids : srv[i] # NoDir => srv[i].dir \in Dirs /\ srv[i].pos \in 0 .. Size[srv[i].dir]

\* The position telldir reports is the one a later seekdir returns to (the FUJI
\* device tells, reads an entry that does not fit its page, and seeks back).
TellExact ==
  got.call = "tell" /\ got.res = "OK" /\ got.user # Lost => got.pos = got.user.pos

\* While the cache is not exhausted, the server is exactly at its end, so that
\* the next READDIRX continues where the cache stops.
CacheBehindServer ==
  user # Lost /\ Alive /\ count > 0 => Here.pos = first + count

\* Paging through a directory returns every entry once and in order: a read that
\* succeeds returns the entry at the position that the last open, seek and the
\* reads since imply, and the end is reported exactly behind the last entry,
\* wherever the pages of the cache fall and also after the session was lost.
\* Positions told can be returned to, and the server stays at the cache's end.
ListingExact ==
  /\ got.call = "read" /\ got.res # "FAIL" /\ got.user # Lost =>
       /\ got.res = "OK"  => got.pos = got.user.pos
       /\ got.res = "EOF" => got.user.pos = Size[got.user.dir]
  /\ TellExact
  /\ CacheBehindServer
=============================================================================
