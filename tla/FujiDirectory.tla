--------------------------- MODULE FujiDirectory ---------------------------
(***************************************************************************)
(* The directory commands of the FUJI device (lib/device/sio/fuji.cpp) on  *)
(* a TNFS host: TnfsDir composed with the commands that call it.  A block  *)
(* read is a loop of tell, read and, when the entry does not fit, seek     *)
(* back; the server may lose the session between any two of these calls.   *)
(*                                                                         *)
(* An entry of a block is charged for before it is added, and the charge   *)
(* may exceed the bytes added (util_ellipsize returns the size of the      *)
(* buffer for a shortened name).                                           *)
(***************************************************************************)
EXTENDS TnfsDir, Sequences

CONSTANTS
  Bytes, Charge,  \* bytes an entry adds to a block, and is charged for
  BlockSizes,     \* response_max of the block reads the computer asks for
  MaxEntries      \* the loop's bound on num_entries, 256

ASSUME BlockAssumption ==
  /\ Bytes \in [Positions -> Nat] /\ Charge \in [Positions -> Nat]
  /\ \A p \in Positions : Bytes[p] <= Charge[p]
  /\ BlockSizes \subseteq Nat /\ MaxEntries \in Nat /\ MaxEntries > 1

VARIABLES
  open,   \* _current_open_directory_slot # -1
  cmd,    \* the command in progress: a block being filled, or a directory to open
  reply   \* the last page sent to the computer

fujivars == <<open, cmd, reply>>
allvars == <<vars, fujivars>>

HeaderBytes == 9
OffsetBytes == 2
EndBytes == 2
FNFS_INVALID_DIRPOS == 65535

Idle == [op |-> "idle"]
NoReply == [list |-> <<>>, count |-> 0, first |-> {}, end |-> FALSE]

FujiInit == Init /\ open = FALSE /\ cmd = Idle /\ reply = NoReply

(***************************************************************************)
(* Calls of the host, whatever their outcome.                              *)
(***************************************************************************)
dir_close == tnfs_closedir \/ ClosedirFails \/ (dir_handle = Closed /\ UNCHANGED vars)
dir_open(d) == tnfs_opendirx(d) \/ OpenFails(d)
dir_nextfile ==
  next_dircache_entry \/ ReaddirEof \/ tnfs_readdirx \/ ReaddirNoMore \/ ReaddirFails
dir_tell == tnfs_telldir \/ TelldirFails
dir_seek(p) == tnfs_seekdir(p) \/ SeekdirFails(p)

\* What dir_tell returned.
Told == IF got'.res = "OK" THEN got'.pos ELSE FNFS_INVALID_DIRPOS

(***************************************************************************)
(* OPEN, CLOSE, GET POSITION, SET POSITION and READ ENTRY.                 *)
(***************************************************************************)
\* A directory that is open is closed first.
sio_open_directory(d) ==
  /\ cmd = Idle
  /\ reply' = NoReply
  /\ IF open THEN dir_close /\ open' = FALSE /\ cmd' = [op |-> "open", dir |-> d]
     ELSE dir_open(d) /\ open' = (got'.res = "OK") /\ UNCHANGED cmd

OpenAfterClose ==
  /\ cmd.op = "open"
  /\ dir_open(cmd.dir)
  /\ open' = (got'.res = "OK")
  /\ cmd' = Idle
  /\ UNCHANGED reply

sio_close_directory ==
  /\ cmd = Idle
  /\ IF open THEN dir_close ELSE UNCHANGED vars
  /\ open' = FALSE
  /\ reply' = NoReply
  /\ UNCHANGED cmd

sio_get_directory_position ==
  /\ cmd = Idle /\ open
  /\ dir_tell
  /\ UNCHANGED fujivars

sio_set_directory_position(p) ==
  /\ cmd = Idle /\ open
  /\ dir_seek(p)
  /\ reply' = NoReply
  /\ UNCHANGED <<open, cmd>>

\* One entry, or the end mark when there is none, also after an error.
sio_read_directory_entry ==
  /\ cmd = Idle /\ open
  /\ dir_nextfile
  /\ reply' = [NoReply EXCEPT !.list = IF got'.res = "OK" THEN <<got'.pos>> ELSE <<>>,
                              !.count = 1,
                              !.end = got'.res # "OK"]
  /\ UNCHANGED <<open, cmd>>

(***************************************************************************)
(* READ BLOCK.                                                             *)
(***************************************************************************)
\* The block as it is sent: the number of entries, the end mark among them, in
\* one byte.  A first position that could not be told is sent as
\* FNFS_INVALID_DIRPOS.
Finish(b, end) ==
  /\ cmd' = Idle
  /\ reply' = [list |-> b.list, count |-> (Len(b.list) + (IF end THEN 1 ELSE 0)) % MaxEntries,
               first |-> {b.initial} \ {FNFS_INVALID_DIRPOS}, end |-> end]

sio_read_directory_block(max) ==
  /\ cmd = Idle /\ open
  /\ dir_tell
  /\ cmd' = [op |-> "tell", max |-> max, start |-> user, initial |-> Told,
             list |-> <<>>, total |-> HeaderBytes, before |-> 0]
  /\ UNCHANGED <<open, reply>>

\* The position is not looked at here, although it may be invalid.
BlockTell ==
  /\ cmd.op = "tell"
  /\ dir_tell
  /\ cmd' = [cmd EXCEPT !.op = "read", !.before = Told]
  /\ UNCHANGED <<open, reply>>

Fits(size) == cmd.total + OffsetBytes + size <= cmd.max

\* No entry: the end mark is added, also after an error.
BlockEnd ==
  /\ cmd.op = "read"
  /\ dir_nextfile /\ got'.res # "OK"
  /\ Fits(EndBytes)
  /\ Finish(cmd, TRUE)
  /\ UNCHANGED open

\* An entry that fits is added; a full block ends the loop.
BlockAdd ==
  /\ cmd.op = "read"
  /\ dir_nextfile /\ got'.res = "OK"
  /\ Fits(Charge[got'.pos])
  /\ LET b == [cmd EXCEPT !.op = "tell", !.list = Append(@, got'.pos),
                          !.total = @ + OffsetBytes + Bytes[got'.pos]]
     IN IF Len(b.list) < MaxEntries THEN cmd' = b /\ UNCHANGED reply ELSE Finish(b, FALSE)
  /\ UNCHANGED open

BlockFull ==
  /\ cmd.op = "read"
  /\ dir_nextfile
  /\ ~ Fits(IF got'.res = "OK" THEN Charge[got'.pos] ELSE EndBytes)
  /\ cmd' = [cmd EXCEPT !.op = "seek"]
  /\ UNCHANGED <<open, reply>>

\* Mutant: the position is not restored.
BlockSeekBack_Skip ==
  /\ cmd.op = "seek"
  /\ UNCHANGED vars
  /\ Finish(cmd, FALSE)
  /\ UNCHANGED open

\* "reset to previous pos": whether it succeeds is not looked at.
BlockSeekBack ==
  /\ cmd.op = "seek"
  /\ dir_seek(cmd.before)
  /\ Finish(cmd, FALSE)
  /\ UNCHANGED open

FujiNext ==
  \/ \E d \in Dirs : sio_open_directory(d)
  \/ OpenAfterClose
  \/ sio_close_directory
  \/ sio_get_directory_position
  \/ \E p \in Positions : sio_set_directory_position(p)
  \/ sio_read_directory_entry
  \/ \E max \in BlockSizes : sio_read_directory_block(max)
  \/ BlockTell
  \/ BlockEnd
  \/ BlockAdd
  \/ BlockFull
  \/ BlockSeekBack
  \/ SessionExpires /\ UNCHANGED fujivars

FujiSpec == FujiInit /\ [][FujiNext]_allvars

(***************************************************************************)
(* The promise to the computer.  Its cursor stands still while a block is  *)
(* filled, and is unknown while a directory is replaced by another.        *)
(***************************************************************************)
\* Every page has fewer entries than the byte that counts them can say.
Countable == Len(reply.list) + (IF reply.end THEN 1 ELSE 0) < MaxEntries

Filling == cmd.op \in {"tell", "read", "seek"}

Promise ==
  INSTANCE DirectorySpec WITH
    cursor <- IF Filling THEN cmd.start ELSE user,
    page <- reply

\* Every page holds consecutive entries that begin where the last page ended,
\* the end mark means the end unless a call failed, the position in the header
\* is the one of the first entry, the number of entries is the true one, and no
\* page is empty, wherever the pages of the client's cache fall and whatever
\* fails between the calls of one block.  It holds of blocks that take an entry
\* when they are empty, and fewer than MaxEntries.  The format has "max 255"
\* (fuji.cpp:1163), the loop goes on to 256 (fuji.cpp:1071) and the block then
\* says 0: with a block that large this fails.
AbstractDirectory == Promise!Spec
=============================================================================
