---------------------------- MODULE TnfsHandles ----------------------------
(***************************************************************************)
(* The files open on one TNFS host: the table of tnfsFileHandleInfo in     *)
(* tnfsMountInfo, which all of them share, tnfs_open and tnfs_close, and   *)
(* FileHandlerTNFS (lib/FileSystem/fnFileTNFS.cpp), which reopens its file *)
(* when a server session is lost.                                          *)
(*                                                                         *)
(* A handler knows its file by the server's handle id alone; the table is  *)
(* searched for that id at every call.  Each transaction is one step, and  *)
(* the session may expire between any two.  Of the read-ahead cache, which *)
(* TnfsFile is about, an entry has what a recovery depends on: how much of *)
(* the file before file_position is in it, and where the server took it.   *)
(*                                                                         *)
(* The server (external) loses all handles with the session, and gives the *)
(* lowest free id to the next file that is opened, also one that the       *)
(* client's table still has from the lost session.  The engine below       *)
(* (TnfsTransaction) mounts again by itself: a path command is then        *)
(* repeated, a command on a handle ends with BAD_FILENUM.                  *)
(***************************************************************************)
EXTENDS Integers, FiniteSets, FiniteSetsExt

CONSTANTS
  Files,        \* the files that are used, each by one handler at a time
  OpenModes,    \* the modes that users open files in, "r" and "rw"
  MaxHandles,   \* TNFS_MAX_FILE_HANDLES
  CacheSize,    \* units of the file that the read-ahead cache holds
  MaxRead,      \* bound: units of a read, which one packet can carry
  MaxId,        \* bound: largest handle id the server gives
  MaxPos,       \* bound: positions, and the size of the files
  MaxTroubles,  \* bound: sessions and transactions lost
  Faults        \* what happens: "expiry", and "unsent" or "unanswered" as in TnfsFile

ASSUME HandlesAssumption ==
  /\ IsFiniteSet(Files) /\ OpenModes \subseteq {"r", "rw"}
  /\ MaxHandles \in Nat /\ CacheSize \in Nat \ {0} /\ MaxRead \in Nat \ {0}
  /\ MaxId \in Nat /\ MaxPos \in Nat /\ MaxTroubles \in Nat
  /\ Faults \subseteq {"expiry", "unsent", "unanswered"}

VARIABLES
  table,     \* _file_handles: every entry's id, file name, positions and cache
  handle,    \* _handle of every file's handler, Closed when it has none
  op,        \* the call in progress
  got,       \* what the last call transferred
  want,      \* the position each file's user counts on, Unknown after a failure
  srv,       \* server: file, offset and mode behind each handle id
  expired,   \* server: the session is gone and the client does not know yet
  troubles,  \* bound: faults so far
  mixed      \* history: files whose handler's id was given to another, or is another's

vars == <<table, handle, op, got, want, srv, expired, troubles, mixed>>

Slots == 1 .. MaxHandles
Ids == 0 .. MaxId
Units == 0 .. MaxRead - 1
Closed == -1
Unknown == -1
NoEntry == [id |-> -1]
NoHandle == [file |-> "none"]
Idle == [call |-> "none"]
Nothing == [call |-> "none"]
NoData == [d \in Units |-> NoHandle]

Init ==
  /\ table = [s \in Slots |-> NoEntry]
  /\ handle = [f \in Files |-> Closed]
  /\ op = Idle
  /\ got = Nothing
  /\ want = [f \in Files |-> Unknown]
  /\ srv = [i \in Ids |-> NoHandle]
  /\ expired = FALSE /\ troubles = 0 /\ mixed = {}

-----------------------------------------------------------------------------
UsedSlots == {s \in Slots : table[s] # NoEntry}
FreeSlots == Slots \ UsedSlots
Holding(h) == {s \in UsedSlots : table[s].id = h}

\* Mutant: the search stops at the first entry, whatever its id.
get_filehandleinfo_First(h) == IF UsedSlots = {} THEN 0 ELSE Min(UsedSlots)

\* The first slot that holds the id; 0 when there is none.
get_filehandleinfo(h) == IF Holding(h) = {} THEN 0 ELSE Min(Holding(h))

\* A unit of a file.
At(f, p) == [file |-> f, pos |-> p]

\* Mutant: the members have no initial value.
NewEntry_NoInit(f) == [id |-> 0, file |-> f, pos |-> MaxPos + 1, fpos |-> 0, avail |-> 0, from |-> At(f, 0)]

\* tnfsFileHandleInfo as new_filehandleinfo makes it: cached_pos, file_position
\* and cache_available, and "from", where the server took the cache's first unit;
\* the name is that of the file which tnfs_open is about to ask for.
NewEntry(f) == [id |-> 0, file |-> f, pos |-> 0, fpos |-> 0, avail |-> 0, from |-> At(f, 0)]

\* The cache ends at file_position.
Cached(e, p) == e.fpos - e.avail <= p /\ p < e.fpos
CachedUnit(e, p) == At(e.from.file, e.from.pos + p - (e.fpos - e.avail))

\* The entry without its cache.
Dropped(e) == [e EXCEPT !.avail = 0, !.from = At(e.file, 0)]

\* The call ends; its user is at the position next.
Ends(next) == op' = Idle /\ got' = Nothing /\ want' = [want EXCEPT ![op.f] = next]

\* The position after n units.  The user cannot know it after a read that left out a
\* part, or when another handler moves the same entry.
Onward(n) == IF want[op.f] = Unknown \/ op.part > 0 \/ op.f \in mixed THEN Unknown ELSE want[op.f] + n

\* A read or write of n units succeeds.
Transferred(n, data) ==
  /\ op' = Idle
  /\ got' = [call |-> op.call, f |-> op.f, want |-> want[op.f], n |-> n, part |-> op.part, data |-> data]
  /\ want' = [want EXCEPT ![op.f] = Onward(n)]

Trouble(fault) == fault \in Faults /\ troubles < MaxTroubles /\ troubles' = troubles + 1

-----------------------------------------------------------------------------
(***************************************************************************)
(* The calls of FileSystemTNFS and FileHandlerTNFS.                        *)
(***************************************************************************)
Call(call, f, arg, pc) == [call |-> call, f |-> f, arg |-> arg, pc |-> pc,
                           slot |-> 0, old |-> 0, pos |-> 0, again |-> FALSE,
                           done |-> 0, part |-> 0, have |-> 0, data |-> NoData]

\* tnfs_open takes a slot first; without one it fails before any transaction.
filehandler_open(f, mode) ==
  /\ op = Idle /\ handle[f] = Closed
  /\ IF FreeSlots = {}
     THEN UNCHANGED <<table, op>>
     ELSE LET s == Min(FreeSlots)
          IN  /\ table' = [table EXCEPT ![s] = NewEntry(f)]
              /\ op' = [Call("open", f, mode, "stat") EXCEPT !.slot = s]
  /\ got' = Nothing
  /\ mixed' = mixed \ {f}
  /\ UNCHANGED <<handle, want, srv, expired, troubles>>

StartCall(call, f, arg) ==
  /\ op = Idle /\ handle[f] # Closed
  /\ op' = Call(call, f, arg, "fd")
  /\ got' = Nothing
  /\ UNCHANGED <<table, handle, want, srv, expired, troubles, mixed>>

-----------------------------------------------------------------------------
(***************************************************************************)
(* tnfs_open, for the user or for a recovery: STAT, then OPEN.  Both name  *)
(* a path, so a lost session is mounted again and the command repeated.    *)
(***************************************************************************)
tnfs_stat ==
  /\ op.call # "none" /\ op.pc = "stat"
  /\ op' = [op EXCEPT !.pc = "open"]
  /\ expired' = FALSE
  /\ UNCHANGED <<table, handle, got, want, srv, troubles, mixed>>

\* Ids the server may answer with; it takes the lowest one.
FreeIds == {i \in Ids : srv[i] = NoHandle}

\* Other handlers that have the id i, from a session that is gone; the id is not this
\* handler's alone when there is one, or when another entry has it.
Sharing(i) == {g \in Files \ {op.f} : handle[g] = i}
Shared(i) == Sharing(i) # {} \/ Holding(i) \ {op.slot, op.old} # {}

\* What the server opens.  _bad_fd_recovery reopens for reading only, whatever
\* the mode was.
OpenedFile == [file |-> table[op.slot].file, pos |-> 0,
               mode |-> IF op.old = 0 THEN op.arg ELSE "r"]

\* Mutant: the entry to delete is looked up by id after _handle was updated.
Opened_DeleteById(i) ==
  table' = IF op.old # 0 THEN [table EXCEPT ![op.slot] = NoEntry]
           ELSE [table EXCEPT ![op.slot] = [@ EXCEPT !.id = i]]

\* The entry becomes valid; a recovery also deletes the one it replaces.
Opened(i) ==
  table' = [s \in Slots |-> IF s = op.slot THEN [table[s] EXCEPT !.id = i]
                            ELSE IF s = op.old THEN NoEntry ELSE table[s]]

tnfs_open ==
  /\ op.call # "none" /\ op.pc = "open"
  /\ FreeIds # {}
  /\ LET i == Min(FreeIds)
     IN  /\ srv' = [srv EXCEPT ![i] = OpenedFile]
         /\ Opened(i)
         /\ handle' = [handle EXCEPT ![op.f] = i]
         /\ mixed' = IF Shared(i) THEN mixed \cup Sharing(i) \cup {op.f} ELSE mixed
  /\ IF op.old = 0 THEN Ends(0)
     ELSE op' = [op EXCEPT !.pc = "seekback"] /\ UNCHANGED <<got, want>>
  /\ expired' = FALSE
  /\ UNCHANGED troubles

\* No reply, or the server has no handle left: the new entry is given up, and
\* with it the recovery and the call it was made for.
OpenFails ==
  /\ op.call # "none" /\ op.pc \in {"stat", "open"}
  /\ \/ Trouble("unsent") /\ UNCHANGED <<srv, expired, mixed>>
     \/ op.pc = "open" /\ FreeIds = {} /\ expired' = FALSE /\ UNCHANGED <<srv, troubles, mixed>>
     \/ /\ Trouble("unanswered") /\ op.pc = "open" /\ ~ expired /\ FreeIds # {}
        /\ srv' = [srv EXCEPT ![Min(FreeIds)] = OpenedFile]
        /\ mixed' = mixed \cup Sharing(Min(FreeIds))
        /\ UNCHANGED expired
  /\ table' = [table EXCEPT ![op.slot] = NoEntry]
  /\ Ends(Unknown)
  /\ UNCHANGED handle

-----------------------------------------------------------------------------
(***************************************************************************)
(* Commands on a handle: the table is searched for the handler's id, and   *)
(* the command sent with that id.                                          *)
(***************************************************************************)
Id == handle[op.f]
Slot == get_filehandleinfo(Id)
OnHandle(pc) == op.call # "none" /\ op.pc = pc
Alive == ~ expired /\ srv[Id] # NoHandle

\* The end of the file is found in the entry before anything is sent, else by
\* the server.  Bound: files do not grow beyond MaxPos.
AtEnd == op.pc = "fd" /\ op.call = "read" /\ table[Slot].pos >= MaxPos
Room == table[Slot].fpos < MaxPos /\ srv[Id].pos < MaxPos

\* tnfs_read takes what the cache has; when that is not all, the cache is emptied and
\* filled anew.
_tnfs_read_from_cache ==
  /\ OnHandle("fd") /\ op.call = "read" /\ Slot # 0 /\ ~ AtEnd
  /\ LET e == table[Slot]
         k == IF Cached(e, e.pos) THEN Min({e.fpos - e.pos, op.arg - op.done}) ELSE 0
         data == [d \in Units |-> IF op.done <= d /\ d < op.done + k THEN CachedUnit(e, e.pos + d - op.done)
                                  ELSE op.data[d]]
     IN  IF op.done + k = op.arg
         THEN /\ table' = [table EXCEPT ![Slot] = [e EXCEPT !.pos = @ + k]]
              /\ Transferred(op.arg, data)
         ELSE /\ table' = [table EXCEPT ![Slot] = [Dropped(e) EXCEPT !.pos = @ + k]]
              /\ op' = [op EXCEPT !.pc = "fill", !.done = @ + k, !.have = 0, !.data = data]
              /\ UNCHANGED <<got, want>>
  /\ UNCHANGED <<handle, srv, expired, troubles, mixed>>

\* _tnfs_fill_cache: one READ, until the cache is full or the server says END_OF_FILE.
_tnfs_fill_cache ==
  /\ OnHandle("fill") /\ Slot # 0 /\ Alive
  /\ \/ /\ Room
        /\ LET e == table[Slot]
               n == op.have + 1
           IN  /\ table' = [table EXCEPT ![Slot] =
                              [e EXCEPT !.fpos = @ + 1, !.avail = IF n = CacheSize THEN n ELSE 0,
                                        !.from = IF n = 1 THEN At(srv[Id].file, srv[Id].pos) ELSE @]]
               /\ op' = [op EXCEPT !.have = n, !.pc = IF n = CacheSize THEN "fd" ELSE "fill"]
        /\ srv' = [srv EXCEPT ![Id].pos = @ + 1]
     \/ /\ ~ Room /\ op.have > 0
        /\ table' = [table EXCEPT ![Slot].avail = op.have]
        /\ op' = [op EXCEPT !.pc = "fd"]
        /\ UNCHANGED srv
  /\ UNCHANGED <<handle, got, want, expired, troubles, mixed>>

\* tnfs_write drops the cache and moves the server to cached_pos if it is elsewhere,
\* then sends the data, on a handle opened for it.
Apart == table[Slot].pos # table[Slot].fpos

WriteSeek ==
  /\ OnHandle("fd") /\ op.call = "write" /\ Slot # 0 /\ Alive /\ Apart
  /\ srv' = [srv EXCEPT ![Id].pos = table[Slot].pos]
  /\ table' = [table EXCEPT ![Slot] = [Dropped(@) EXCEPT !.fpos = table[Slot].pos]]
  /\ UNCHANGED <<handle, op, got, want, expired, troubles, mixed>>

tnfs_write ==
  /\ OnHandle("fd") /\ op.call = "write" /\ Slot # 0 /\ Alive /\ ~ Apart
  /\ srv[Id].mode = "rw" /\ Room
  /\ srv' = [srv EXCEPT ![Id].pos = @ + 1]
  /\ LET new_pos == table[Slot].fpos + 1
     IN  table' = [table EXCEPT ![Slot] = [Dropped(@) EXCEPT !.pos = new_pos, !.fpos = new_pos]]
  /\ Transferred(1, [NoData EXCEPT ![0] = At(srv[Id].file, srv[Id].pos)])
  /\ UNCHANGED <<handle, expired, troubles, mixed>>

\* A seek of the user, or one to put a reopened file where the lost one was.
Seeking == (OnHandle("fd") /\ op.call = "seek") \/ OnHandle("seekback")
Target == IF op.pc = "seekback" THEN op.pos ELSE op.arg
SeekReturns(next) ==
  IF op.pc = "seekback" THEN op' = [op EXCEPT !.pc = "fd", !.again = TRUE] /\ UNCHANGED <<got, want>>
                        ELSE Ends(next)

\* Within the cache only cached_pos moves, which puts nothing right after a failure.
_tnfs_cache_seek ==
  /\ Seeking /\ Slot # 0 /\ Cached(table[Slot], Target)
  /\ table' = [table EXCEPT ![Slot].pos = Target]
  /\ SeekReturns(IF want[op.f] = Unknown THEN Unknown ELSE op.arg)
  /\ UNCHANGED <<handle, srv, expired, troubles, mixed>>

tnfs_lseek ==
  /\ Seeking /\ Slot # 0 /\ ~ Cached(table[Slot], Target) /\ Alive
  /\ srv' = [srv EXCEPT ![Id].pos = Target]
  /\ table' = [table EXCEPT ![Slot] = [Dropped(@) EXCEPT !.pos = Target, !.fpos = Target]]
  /\ SeekReturns(op.arg)
  /\ UNCHANGED <<handle, expired, troubles, mixed>>

\* Something is to be sent: a READ, the LSEEK or WRITE of a write, or an LSEEK.
Sending == \/ OnHandle("fill") \/ (OnHandle("fd") /\ op.call = "write")
           \/ (Seeking /\ ~ Cached(table[Slot], Target))

\* Mutant: the last known position is read from the new entry.
_bad_fd_recovery_NewPos ==
  /\ op.call \in {"read", "seek"} /\ op.pc \in {"fd", "fill"} /\ Slot # 0 /\ Sending /\ ~ Alive
  /\ ~ op.again /\ FreeSlots # {}
  /\ LET s == Min(FreeSlots)
     IN  /\ table' = [table EXCEPT ![Slot] = Dropped(@), ![s] = NewEntry(table[Slot].file)]
         /\ op' = [op EXCEPT !.pc = "stat", !.slot = s, !.old = Slot, !.pos = 0, !.part = op.done, !.done = 0]
  /\ expired' = FALSE
  /\ UNCHANGED <<handle, got, want, srv, troubles, mixed>>

\* BAD_FILENUM: the id is not one of the current session.  read and seek try to
\* recover, once, if there is a slot for the new entry; write does not.  The file is
\* to go on at cached_pos, which the part of a read that came from the cache has
\* moved; the retry reads the whole size again, to the start of the buffer.
_bad_fd_recovery ==
  /\ op.call \in {"read", "seek"} /\ op.pc \in {"fd", "fill"} /\ Slot # 0 /\ Sending /\ ~ Alive
  /\ ~ op.again /\ FreeSlots # {}
  /\ LET s == Min(FreeSlots)
     IN  /\ table' = [table EXCEPT ![Slot] = Dropped(@), ![s] = NewEntry(table[Slot].file)]
         /\ op' = [op EXCEPT !.pc = "stat", !.slot = s, !.old = Slot, !.pos = table[Slot].pos,
                             !.part = op.done, !.done = 0]
  /\ expired' = FALSE
  /\ UNCHANGED <<handle, got, want, srv, troubles, mixed>>

\* The command's effect on the server, when only the replies are lost.
Executed ==
  \/ Seeking /\ srv' = [srv EXCEPT ![Id].pos = Target]
  \/ op.call = "write" /\ Apart /\ srv' = [srv EXCEPT ![Id].pos = table[Slot].pos]
  \/ /\ (op.call = "write" /\ ~ Apart) \/ op.pc = "fill"
     /\ Room /\ srv' = [srv EXCEPT ![Id].pos = @ + 1]

\* What the server refuses: to read at the end of the file, to write there or on a
\* handle opened for reading.
Refuses ==
  \/ op.pc = "fill" /\ ~ Room /\ op.have = 0
  \/ op.pc = "fd" /\ op.call = "write" /\ ~ Apart /\ (~ Room \/ srv[Id].mode = "r")

\* Everything else that ends a call on a handle: no entry has the id, the end of the
\* file (a short read), an id that is bad and not recovered, a refusal, no reply.  The
\* cache is dropped before anything is sent.
HandleFails ==
  /\ OnHandle("fill") \/ (OnHandle("fd") /\ op.call # "close") \/ OnHandle("seekback")
  /\ \/ Slot = 0 /\ UNCHANGED <<table, srv, expired, troubles>>
     \/ Slot # 0 /\ AtEnd /\ UNCHANGED <<table, srv, expired, troubles>>
     \/ /\ Slot # 0 /\ Sending /\ table' = [table EXCEPT ![Slot] = Dropped(@)]
        /\ \/ /\ ~ Alive /\ expired' = FALSE /\ UNCHANGED <<srv, troubles>>
              /\ op.call = "write" \/ op.again \/ op.pc = "seekback" \/ FreeSlots = {}
           \/ Alive /\ Refuses /\ UNCHANGED <<srv, expired, troubles>>
           \/ Trouble("unsent") /\ UNCHANGED <<srv, expired>>
           \/ Alive /\ Trouble("unanswered") /\ Executed /\ UNCHANGED expired
  /\ Ends(Unknown)
  /\ UNCHANGED <<handle, mixed>>

\* FileHandlerTNFS::close forgets the handle whatever tnfs_close says; the entry
\* goes when any reply came, and stays when none did.
close ==
  /\ OnHandle("fd") /\ op.call = "close"
  /\ \/ Slot = 0 /\ UNCHANGED <<table, srv, expired, troubles>>
     \/ /\ Slot # 0
        /\ table' = [table EXCEPT ![Slot] = NoEntry]
        /\ srv' = IF Alive THEN [srv EXCEPT ![Id] = NoHandle] ELSE srv
        /\ expired' = FALSE
        /\ UNCHANGED troubles
     \/ Slot # 0 /\ Trouble("unsent") /\ UNCHANGED <<table, srv, expired>>
     \/ /\ Slot # 0 /\ Alive /\ Trouble("unanswered")
        /\ srv' = [srv EXCEPT ![Id] = NoHandle]
        /\ UNCHANGED <<table, expired>>
  /\ handle' = [handle EXCEPT ![op.f] = Closed]
  /\ Ends(Unknown)
  /\ UNCHANGED mixed

-----------------------------------------------------------------------------
\* The server forgets the session: a timeout or a restart.
SessionExpires ==
  /\ Trouble("expiry")
  /\ ~ expired /\ expired' = TRUE
  /\ srv' = [i \in Ids |-> NoHandle]
  /\ UNCHANGED <<table, handle, op, got, want, mixed>>

Next ==
  \/ \E f \in Files, mode \in OpenModes : filehandler_open(f, mode)
  \/ \E f \in Files, n \in 1 .. MaxRead : StartCall("read", f, n)
  \/ \E f \in Files, call \in {"write", "close"} : StartCall(call, f, 1)
  \/ \E f \in Files, p \in 0 .. MaxPos : StartCall("seek", f, p)
  \/ tnfs_stat
  \/ tnfs_open
  \/ OpenFails
  \/ _tnfs_read_from_cache
  \/ _tnfs_fill_cache
  \/ WriteSeek
  \/ tnfs_write
  \/ _tnfs_cache_seek
  \/ tnfs_lseek
  \/ _bad_fd_recovery
  \/ HandleFails
  \/ close
  \/ SessionExpires

Spec == Init /\ [][Next]_vars

-----------------------------------------------------------------------------
Places == [file : Files, pos : 0 .. MaxPos]
Entries == [id : Ids, file : Files, pos : 0 .. MaxPos, fpos : 0 .. MaxPos, avail : 0 .. CacheSize, from : Places]
Opening == op.call # "none" /\ op.pc \in {"stat", "open"}

\* Type correctness; an open in progress owns the slot it took.
TypeOK ==
  /\ table \in [Slots -> Entries \cup {NoEntry}]
  /\ handle \in [Files -> Ids \cup {Closed}]
  /\ want \in [Files -> Nat \cup {Unknown}]
  /\ \A i \in Ids : srv[i] # NoHandle => srv[i].file \in Files /\ srv[i].pos \in 0 .. MaxPos
  /\ expired \in BOOLEAN /\ troubles \in 0 .. MaxTroubles /\ mixed \subseteq Files
  /\ Opening => table[op.slot] # NoEntry

\* Whenever the table is searched, a handler that is open finds its own entry
\* under its id, however many files were opened, closed without an answer, and
\* reopened by a recovery around it.  (During tnfs_open it may not: the new
\* entry has id 0 until the server's answer.)  It is not claimed of the handlers
\* that came to share an id, because the server of a new session gave one that
\* the table still had from the lost session: get_filehandleinfo compares the id
\* alone.  The claim is that nobody else is affected, whatever those two do.
HandleResolves ==
  ~ Opening => \A f \in Files \ mixed : handle[f] # Closed =>
                 LET s == get_filehandleinfo(handle[f])
                 IN  s # 0 /\ table[s].file = f

Succeeded == got # Nothing /\ got.f \notin mixed

\* Every unit of a read or write that succeeds is of the handler's file, from the
\* server or from the cache, with the same exception.
OwnFile ==
  Succeeded => \A d \in 0 .. got.n - 1 : got.data[d].file = got.f

\* ... and at the position its user counts on, also when the file was reopened in the
\* middle of the call, except that a read which had taken a part from the cache before
\* the session was found lost (fnFileTNFS.cpp:99) skips exactly that part.
PositionKept ==
  Succeeded /\ got.want # Unknown
    => \A d \in 0 .. got.n - 1 : got.data[d].pos = got.want + got.part + d
=============================================================================
