# FujiNet-PC: a TLA+ verification project

FujiNet-PC is the PC build of the FujiNet firmware: a program that plays the
peripherals of an 8-bit computer (disks, printer, modem, network adapter) for an
emulator or a real machine, and gets what it serves from the network. This
directory holds TLA+ models of its core, the TLC configurations that check them
on small instances, and TLAPS proofs. File names below are relative to `src/lib`
unless they start with `src/`.

Contents: 1 inventory, 2 plan, 3 modules and the code, 4 runs, 5 proofs,
6 what is only model-checked and what is not modelled.

## 1. Inventory

The program is one thread. `fn_service_loop` (`src/src/main.cpp`) calls, in turn,
`SYSTEM_BUS.service()` (one bus command, handled to its end),
`fnHTTPD.service()` (web requests) and `taskMgr.service()` (one step of each
background task). What makes it hard is not threads: it is everything *outside*
that moves while one of these calls is waiting: the UDP network and the TNFS
server, the NetSIO hub and the emulator, the browser.

| Component | State | Operations | Hard behaviour | What makes it correct |
|---|---|---|---|---|
| Task manager, `task/` | map of 8-bit ids to tasks, hand-kept count, next id | submit, pause, resume, abort, complete, service, destructor | orders of these calls; id wrap; a task ended by several paths | count = map, one owner per task, file closed once, tasks get started |
| TNFS transactions, `TNFSlib/tnfslib.cpp` | session, 8-bit sequence number, one packet buffer per transaction, retry counter | transaction, mount, umount, recovery | loss, duplication, reordering, session expiry inside a call, nested mounts | the result is the reply to this request, a retry does not execute it twice, calls return |
| TNFS file and cache, `tnfslib.cpp` | server offset, caller position, size, cache window | read, write, seek | several transactions per call, any of them failing | it behaves like a file |
| TNFS handle table, `tnfslibMountInfo.cpp`, `FileSystem/fnFileTNFS.cpp` | table of entries by handle id, id held by each handler | open, read, write, seek, close, recovery | session lost between any two transactions; ids reused; entries leaked | a handler works on its own file at its own position |
| TNFS directories, `tnfslib.cpp`, `tnfslibMountInfo.cpp` | directory handle, cached page, cursor, end flag | open, read, tell, seek, close | server a page ahead of the reader; expiry in mid-listing | every entry once, in order; positions can be returned to |
| NetSIO port, `bus/sio/siocom/netsio.cpp` | connection, command/motor lines, pending sync request, credit, receive ring | begin/end, keep-alive, handle message, read, write, sync response | messages handled while waiting for credit or data; reconnect | a sync request is answered once and by its own command; the loop comes back |
| SIO bus, `bus/sio/sio.cpp` | daisy chain, active device, baud rate, failure counter | service, process command frame, ACK/NAK/COMPLETE | early returns, missing bytes, a new command during an old one | one answer per command frame |
| N: device, `device/sio/network.cpp`; protocol adapters, `network-protocol/` | protocol object, buffers, JSON parser, interrupt timer | open, close, read, write, status, special | re-open without close; failure halfway through open | resources have one owner; status is truthful |
| Fuji device, `device/sio/fuji.cpp`; slots, `fuji/` | host and disk slots, current directory, boot mode | mount host, mount image, directory paging, save | paging of entries by tell/seek-back; slots whose host is remounted | every entry shown once; a mounted slot has an open image |
| Disk and media, `device/sio/disk.cpp`, `media/atari/` | image, sector size, last sector | read, write, format, status | sector arithmetic at the boundaries | a sector maps to its bytes |
| Web server, `http/` | requests in progress | dispatch, configure, browse, download | connection closed while a task uses it | (library callbacks; downloads and eject modelled) |
| Sockets `tcpip/`, buffers `utils/cbuf` | receive buffers | read, write, available, stop | short reads, closed peers | bytes in order, once |
| IWM over SLIP, `bus/iwm`, `slip/` (Apple build) | request queue, frame decoder | requests, responses | a reader thread and the main loop | frames survive, requests in order |
| Modem, PCLink, cassette, printer, FTP, HTTP client, configuration, JSON, CP/M, speech | per device | per device | mostly byte pumps and text | see `PROJECT.json` |

How they interact. The Fuji device mounts hosts (`fujiHost`), a host owns a file
system; the TNFS one owns a `tnfsMountInfo`, the shared state of session, open files
and directory. Disk images, N: channels on TNFS URLs and web downloads hold
`FileHandlerTNFS` objects, which know their file by the server's handle id alone and
find the rest in the mount's table. Every TNFS call is a sequence of transactions; a
transaction that learns that its session is gone mounts again *inside itself*. So the
stack is

    emulator, hub | SIO bus and devices        (SioBus)
    host and disk slots, mounts                (FujiSlots)
    disk images / directory commands / N:      (DiskImage / FujiDirectory / NetworkChannel)
    FileHandlerTNFS / FileSystemTNFS           (TnfsHandles)
        tnfs_read / write / lseek + cache      (TnfsFile, promises FileSpec)
        tnfs_opendirx / readdirx / ... + cache (TnfsDir)
            _tnfs_transaction + recovery       (TnfsTransaction)
                UDP, server                    (external)

and a layer's module models the layer below by what that layer's properties allow: a
transaction succeeds, fails without having been executed ("unsent"), or was executed
and not confirmed ("unanswered"); after an expiry a path command is repeated in a new
session and a handle command comes back with BAD_FILENUM. That these are the cases is
what `AtMostOnce`, `ReplyIsOurs` and `RecoveryOutcome` check one layer down. (A datagram that
arrives after a later call was served is a case of its own, which the layers above leave
out: see "Departures".)

The hazards found in the survey, each at its line, are listed in `PROJECT.json` with
the properties that would catch them.

## 2. Plan

Done, in this order: TaskManager and its proof; TnfsTransaction; FileSpec and
TnfsFile; TnfsHandles; TnfsDir; SioBus (port, hub, bus and device handlers together);
DiskImage; DirectorySpec and FujiDirectory, which composes TnfsDir with the commands
that call it; FujiSlots; NetworkChannel.

To do:

1. **Sockets** (receive buffer of `fnTcpClient`, packet buffer of `fnUDP`) and the TCP
   protocol of the N: device over them; writing on an N: channel.
2. **DirCache** (SD card, SMB, FTP) as a second implementation of DirectorySpec.
3. ATX images and FORMAT in DiskImage.
4. SLIP decoder and request queue of the IWM bus.

Theorems: every safety property of a run is a theorem (section 5). TnfsFile, TnfsHandles,
TaskManager, TnfsTransaction, FujiDirectory (with TnfsDir), FujiSlots and SioBus have their
proofs in a module named after them with `_proof`; the two devices that a computer reads
from, DiskImage and NetworkChannel, share `Devices_proof`. To come: what TnfsTransaction
keeps across the wrap of its one-byte sequence number.

## 3. Modules and the code

`PROJECT.json` "map" gives the lines of every definition. Definitions that begin with
the name of another and an underscore suffix, under a comment "Mutant", are deliberate
errors used to show that the properties can fail; the specifications do not use them.

**TaskManager** (`task/fnTaskManager.cpp`, `fnTask.cpp`, the download task of
`http/httpServiceBrowser.cpp`). `task_map`, `next_tid`, `task_count` are the members of
the same names; `state` is the `_state` of each task object; `open_fh` counts the file
handles a task object holds. `submit_task`, `pause_task`, `resume_task`, `abort_task`,
`service` (a whole turn: start or step every active task, then abort those that failed
and complete those that ended) and `shutdown` (the destructor) are the operations. Ids
are `0 .. MaxTid` with arithmetic modulo `MaxTid + 1`, so 255 in the code. A submit that
finds no id leaves a "LEAKED" object, as the code does.

**TnfsTransaction** (`_tnfs_transaction`, `_tnfs_session_recovery`, `tnfs_mount`,
`tnfs_umount`). `frames` is the stack of running transactions, an outer command and the
MOUNT or UNMOUNT its recovery runs. A frame holds the packet buffer, which serves for
the request and for everything received, as in the code. Its `body` is the number of the
call the payload belongs to, or Junk when it was overwritten. A socket is known by the depth
of its frame and the sequence number it was opened for; `exec[i][s]` says whether session
`s` executed call `i` never, once or more often. Closing a socket ends the replies to it
and not the requests sent from it: those are kept in `late` and may reach the server, more
than once, at any later time. The server remembers one reply per session, so that such a
request is new to it once a later call was executed; `overtaken` records the sessions where
that happened. Actions: a call starts
(`Command`, `tnfs_mount`, `tnfs_umount`), `Send`, `SendFails`, `Timeout`, `GiveUp`,
`Breakout` (bus shutting down), and what a received datagram does (`OutOfOrder`,
`TryAgain`, `SessionExpired`, `Reply`). External: the server (executes a request, repeats
its last reply for a repeated sequence number, rejects unknown sessions, forgets sessions
at any time) and the network (loses, duplicates, reorders). Commands are PATH (can be
repeated in a new session) and FD (works on a handle), the distinction
`_tnfs_session_recovery` makes. Two faults are switched on by runs that need them:
"stale" (replies to an earlier transaction reach a later one, because the port number is
used again) and "again" (the server answers TRY_AGAIN).

**FileSpec** is what a caller expects of an open file: one content, one position, atomic
reads, writes and seeks. A failed write or seek changes nothing; a failed read has
delivered, and moved over, some first part of what was asked for.

**TnfsFile** (`tnfs_read`, `_tnfs_read_from_cache`, `_tnfs_fill_cache`, `tnfs_write`,
`tnfs_lseek`, `_tnfs_cache_seek`). `file_position`, `file_size`, `cached_pos`,
`cache_start`, `cache_available`, `cache` are the fields of `tnfsFileHandleInfo`;
`content` and `spos` are the server's file and offset. One step per transaction; a fill
takes as many READs as the server needs to fill it. It implements FileSpec under a
refinement mapping that takes the caller's position: `cached_pos`, or, while a read is in
progress, the position where it began.

**TnfsHandles** (`tnfs_open`, `tnfs_close`, the table in `tnfslibMountInfo.cpp`,
`FileHandlerTNFS`, `FileSystemTNFS::filehandler_open`). `table` is `_file_handles`,
`handle` the `_handle` of each handler, `op` the call in progress with its recovery.
`want` and `got` record what users count on and what a call delivered, unit by unit. The
server gives the lowest free id, also one that the client's table still has from a lost
session; `mixed` are the files whose handlers came to share an id in this way. Of the
read-ahead cache, which is TnfsFile's subject, an entry has what a recovery depends on: how
much of the file before `file_position` it holds, and where the server took it. A read takes
what the cache has, then fills it with one READ after another, any of which can find the
session gone; `_bad_fd_recovery` then reopens at `cached_pos`, which that part has moved,
and reads the whole size again (`part` is what was taken before).

**TnfsDir** (`tnfs_opendirx`, `tnfs_readdirx`, `tnfs_telldir`, `tnfs_seekdir`,
`tnfs_closedir`, the directory cache). An entry is its position in the directory; the
cache is the window `first .. first + count - 1` with the cursor `current`.

**DirectorySpec** is what the computer may count on when it pages through a directory: a
cursor in a sequence of entries, pages of consecutive entries from the cursor on with their
true number, an end mark. After a failing call the cursor is unknown until the directory is opened or
positioned again.

**FujiDirectory** (`sio_open_directory`, `sio_read_directory_block`,
`sio_read_directory_entry`, get and set position, close, in `device/sio/fuji.cpp`; the
directory calls of `fnFsTNFS.cpp`) extends TnfsDir. A block read is one step for each call
of the host: tell, read, and seek back when the entry does not fit, so that the session can
be lost between any two. Entries have a size, and a charge that may be larger: the code
counts a shortened name with the size of its buffer. It implements DirectorySpec with the
cursor standing still while a block is filled, as long as the number of entries fits into
its byte (`Countable`).

**SioBus** (`bus/sio/sio.cpp`, `siocom/netsio.cpp`, the bus side of `device/sio/disk.cpp`
and `network.cpp`). `port` holds the members of `NetSioPort` by name, `bus` those of
`systemBus` and the boot disk, `pc` and `todo` the place in `service`, `_sio_process_cmd`
and the running handler: a handler is the sequence of bus operations its code makes,
`sio_ack`, `bus_to_computer` and so on being the sub-sequences. `inq` and `outq` are the
datagrams under way. Every wait of the code is a state in which datagrams go on being
handled: for a byte (`ReadByte`), for the command line (`WaitDeassert`), for credit
(`wait_for_credit`). External: the emulator, which is halted while a sync request of its
own is unanswered, sends the data frame it was asked for, and may give a command up at any
time; the hub, which delivers in order (one local UDP path) and grants credit. A data byte
is known by the command it belongs to and whether port and peer had the same speed when it
came, which is when the code corrupts it. Timeouts happen only when nothing is under way
(`Quiet`): a timeout that outruns a datagram on its way is not modelled. The NetSIO numbers
are one per command (8 bits in the code: the hub has one outstanding).

**DiskImage** (`media/atari/diskType*.cpp` and `device/sio/disk.cpp`). `disk` holds the
members of the MediaType object, `fh` is `_disk_fileh`, `pos` the position of each open
handle. A sector operation records which bytes of the file it touched. A failing file
operation leaves the position where it was or where it was to go. The read of a XEX file
compares a `size_t` with 0, so that one that comes up short counts as a success and its
sector as read (`ReadXexShort`); `slipped` records this until the next seek. Sector 0 and
those past the end are refused to READ and to writes, and read by HSIO READ. The reference is the
layout of the formats (`LayoutOffset`, `LayoutLen`), written without the code's cases.

**FujiSlots** (`fuji/fujiHost.cpp`, `fujiDisk.cpp`, the slot commands of
`device/sio/fuji.cpp`, eject in `http/httpService.cpp`). `host` is `_fnHosts`, `disk`
`_fnDisks`, `medium` the file system whose handle each disk device holds, `config` the
saved mounts. File system objects are numbered as they are created; `live` are those not
deleted, `running` those started. Using a deleted or missing object, or a host slot that
does not exist, sets `crash`. `rash` records that the computer gave one of the orders of
commands, five in all, listed at `NoDeadFileSystem`, after which the code does use such an object. MOUNT
ALL is one step for each slot and stops at the first failure.

**NetworkChannel** (`device/sio/network.cpp`, `network-protocol/FS.cpp`, `Protocol.cpp`,
`TNFS.cpp`, `fnjson/fnjson.cpp`). `protocol`, `json`, `channelMode`,
`json_bytes_remaining` and `rx` (the receive buffer) are the members; `file` is what each
protocol object knows of its file and the server's position in it. `status` is what the
computer was last told, `got` what it has read. A read may fail, with or without having
moved the position (`torn`). The loop of `FNJSON::parse` is one step per block
(`ParseBlock`, `ParseEnd`); a fetch that fails there is tried again, and a loop that can no
longer end sets `run` to "endless".

MC modules give the constants that a .cfg file cannot.

## 4. Runs

### Passing

| Run | Shows | Instance |
|---|---|---|
| `task_safety` | `TypeOK`, `CountExact`, `MapOwns`, `FileClosedOnce`; a submitted task is started (`SubmittedTaskStarts`) | 4 tasks, ids of 2 bits: the counter wraps and the map fills within a few steps |
| `tnfs_recovery` | `ReplyIsOurs`, `AtMostOnce`, `MountGivesSession`, `RecoveryOutcome`, `RetriesCarryRequest`, `CallsReturn` | 2 calls, 2 attempts each, requests that arrive at any time after their call, 3 sessions of which one is of an old server: a session can be lost before, during and after a call, and a recovery can succeed, fail, or reach an old server |
| `tnfs_late_replies` | a transaction that waits for the number it was given never returns another call's reply (`NoForeignReply`) | 2 calls, 2 attempts, 2 sessions, the faults "again" and "stale", at most 9 datagrams under way (`MaxDatagrams`): a reply of the first call is read by the second, sent back by its retry and answered |
| `tnfs_file_abstract` | TnfsFile implements FileSpec (`AbstractFile`) | 5 bytes, cache of 3, reads of 1 to 4, writes of 2: requests inside, at the edge of, across and outside the cache, a short last fill. No faults, absolute and end-relative seeks, files that do not grow (see "Departures") |
| `tnfs_file_faults` | `CacheTrue`, `PositionsAgree`, `OpsReturn` when any transaction may fail, executed or not | 3 bytes, cache of 2, seeks back and forth |
| `tnfs_handles` | `HandleResolves`, `OwnFile`, `PositionKept` | 2 files opened for writing (a recovery reopens them for reading), 3 slots, 2 ids, a cache of 1 unit and reads of 2, 2 troubles: both files open while one recovers, a read cut between cache and server, an id of the lost session given to the other file, a table filled by an unanswered close, a second expiry during a recovery. Files are interchangeable, so they are a symmetry set |
| `fuji_directory` | FujiDirectory implements DirectorySpec (`AbstractDirectory`); `ListingExact`: entries in order, told positions right, cache behind the server | an empty directory and one of 5 entries, server pages of 1 to 3, blocks of up to 4 entries, one entry charged for more than it takes, 2 server handles: full, short, last and empty pages, block ends inside, at and across page ends, a leaked handle. The loop's bound of 256 entries is scaled to 5, so that the fullest blocks are what 255 entries are to 256 |
| `sio_bus` | `AnsweredOnce`, `AnswerIsOwn`, `SpeedFound`, `CommandEnds`, `DeviceReturns` | 3 commands of 6 kinds (data to and from the computer, error byte instead of an acknowledge, speed change, the two of the CONFIG boot), 2 speeds, 1 fault (command given up, connection lost or remade), credit 2: one command is disturbed anywhere, the next overtakes it, a third meets the device at rest. The kinds "control", "nak" and "none" add no other order of bus operations than a part of these |
| `disk_image` | `RangeExact`, `CursorTrue`, `NoHandleLeft` | 5 images (short and long sectors, high score sector, XEX of exactly one piece and of two and a rest), the sectors at each boundary, 0 and past the end, 2 failing operations of which a XEX read may come up short, 3 handles |
| `fuji_slots` | `NoDeadFileSystem`, `DrivesPermuted`, `SavedSlotsReturn` | 2 hosts, 2 disks, 2 file system objects, 5 commands in any order: mount two things, change one, unmount, use |
| `network_channel` | `StreamExact`, `ParsedWhole`, `ParserHasProtocol` | files of up to 3 bytes in blocks of 2, 2 protocol objects, two failing reads, in any command or in the parser's loop; everything else unbounded in length |

Bounds. The properties compare one call with its neighbours, one cache window with the
positions around it, one recovering file with one other, so two or three of a kind make
every case distinct; a larger instance repeats them. `MaxTroubles`, `MaxSessions`,
`MaxCalls`, `MaxDatagrams`, `MaxCommands`, `MaxFaults`, `MaxFs`, `MaxObjects`, `MaxLen` and `MaxPos` bound only how long the environment goes on. Sequence
numbers keep their 8 bits (`SeqMod` = 256): a smaller modulus would confuse datagrams
that the real one keeps apart. For what section 5 lists, the proofs remove the bounds. The
largest instances have 3.2 million states (`network_channel`), 1.8 million (`tnfs_handles`)
and 1.3 million (`tnfs_late_replies`); each run takes less than five minutes.

Fairness. TaskManager: weak fairness of `service`, which the main loop calls on every
turn. TnfsTransaction: `WF_vars(Send \/ SendFails \/ Timeout \/ GiveUp)`: the loop in
`_tnfs_transaction` goes on to send, to end its wait, which `timeout_ms` bounds, or to give up;
nothing is assumed of the server or the network. `CallsReturn` rests on the server
handing out finitely many sessions: a recovery resets the retry counter, so a server that
loses a session after every mount could hold the call for as long as it goes on.
TnfsFile: of the next step of the call in progress; a call is not interrupted between its
transactions. SioBus: of the device's step (one thread that never blocks: its waits are
polling loops), and of the hub's delivering, granting credit and sending the data frame the
device asked for, without which a halted emulator could not run on whatever the device
does. `CommandEnds` is stated for commands that are not given up and connections that are
not lost. `DeviceReturns` is stated of every behaviour: the device gets back to its loop again
and again, or it stays for ever in the wait for a checksum byte (`sio.cpp:90`), which has no
time limit, and then the command it waits for was given up or its connection lost.
The other modules have safety properties only.

Deadlock is checked except in TaskManager (after shutdown nothing happens),
TnfsTransaction, SioBus and FujiSlots (after the last call or command nothing happens) and
NetworkChannel (the program may have died).

### Finding: the run that ends in a violation

| Run | The code | What it departs from |
|---|---|---|
| `task_id_wrap` (`FreeTidFound`) | after id 255 `_next_tid` is 0, `get_free_tid` starts there and returns 0; no task can be submitted from then on | its comments: "skip ID 0", "wrapped around, no free ID" |

### Departures

Met while modelling; the modules contain this behaviour unless said otherwise, and the
properties above are stated so that they hold of the code as it is. Those marked * can be
seen by changing one constant of a configuration, as given.

- Late replies with retries: a datagram with a wrong sequence number has replaced the
  request, and the retry sends it and expects its number, so that the server's repeated
  reply becomes the result of the wrong call (`tnfslib.cpp:1290`). `tnfs-protocol.md:110`
  says that such datagrams are discarded. `NoForeignReply` says that this is the only way: a
  transaction that still waits for the number it was given never takes a foreign reply.
  Without that condition (`Top.expect = Top.sock[2]`) TLC finds it violated in the run
  `tnfs_late_replies`.
- A request that reaches the server after a later call was executed is new to it, since it
  remembers one number per session, and is executed again; a retry of the later call then is
  new as well. `AtMostOnce` says of which sessions it does not claim that every command ran
  once (`overtaken`). The client has no means against it.
- TRY_AGAIN overwrites the first bytes of the request, which is sent again like that after
  the back-off (`tnfslib.cpp:1283`, 1298): `RetriesCarryRequest` is checked without "again".
- * A relative seek that leaves the cache is relative to the read-ahead offset
  (`tnfslib.cpp:626`; `tnfs-protocol.md:827`): `AbstractFile` fails with "CUR" in `Whences`.
- * After a fill that failed halfway, or a failed seek, the next read reports the end of
  the file (`tnfslib.cpp:390`, 609): `AbstractFile` fails with "unsent" in `Faults`.
- `file_size` does not grow with the file (`tnfslib.cpp:628`).
- When the server of a new session gives an id that the table still has from the lost one,
  which is the normal case, two handlers have the same id and each reads through whichever
  entry comes first (`tnfslibMountInfo.cpp:101`). The properties of TnfsHandles say that
  handlers which do not share their id stay unaffected; with `mixed` taken out of them, they
  fail.
- A read that takes a part from the cache and then finds the session lost is repeated in
  whole from the position after that part: the part is skipped and the call reports success
  (`fnFileTNFS.cpp:99-104`, `tnfslib.cpp:460`). `PositionKept` says that exactly that part is
  skipped.
- A read of a XEX file that comes up short is taken for a whole one, because `read < 0` never
  holds of a `size_t` (`diskTypeXex.cpp:185-209`): success is reported, and the next sector is
  read without a seek from where the file was left. `RangeExact` and `CursorTrue` except the
  reads up to the next seek (`Strayed`).
- * The offset of sector 4 and above of an image with 512-byte sectors is `n * 512 + 16`,
  one sector too far (`diskTypeAtr.cpp:20-52`; sectors 1 to 3 are at `(n-1) * 512 + 16`):
  `RangeExact` fails with such an image in `MCImages`.
- * HSIO PUT ends its case with `break` and not `return`, so that its handler sends a NAK
  after the outcome (`disk.cpp:361-365`, 464). With the kind "hsput" in `Kinds`
  `CommandEnds` fails: while the NAK waits for credit the next command is received, and
  the flush that ends it discards that command's frame.
- A high-score write whose handle cannot be opened calls a method of a null pointer, and
  one without a host sets `_disk_fileh` to null (`diskTypeAtr.cpp:124-163`; left out of the
  model); one that fails later leaves a handle open, as does a mount that fails.
- Renaming a host that is unmounted calls a method of a null pointer (`fujiHost.cpp:28`);
  renaming one whose images are mounted deletes their file system. Eject on the web page
  reads all slots back from the configuration (`httpService.cpp:561`, `fuji.cpp:1680`), and
  with them the slot of a mounted disk that was not saved, which UNMOUNT HOST then does not
  find. These and the other orders, five in all, under which an image outlives its file
  system are named at `NoDeadFileSystem`.
- MOUNT ALL uses a slot's host number before it is compared, and then only with 255
  (`fuji.cpp:572`); `image_rotate` reads one past its slots (`fuji.cpp:901`); MOUNT HOST
  numbers hosts from 0 and UNMOUNT HOST from 1, and takes success of `umount` for an error
  (`fuji.cpp:1474`, 1501); eject admits one slot too many (`httpService.cpp:531`).
- * 256 entries in a directory block are counted as 0 (`fuji.cpp:1071`), where the format has
  "Num Entries in block (max 255)" (`fuji.cpp:1163`). DirectorySpec promises the true number:
  `AbstractDirectory` fails with `MaxEntries` = 4, where a block can be as full as that, and
  the theorem is for behaviours in which none is (`Countable`).
- * The wait for the checksum of a data frame has no time limit (`sio.cpp:90`): a command given
  up at that point holds the program. `DeviceReturns` names it; without its second part it
  fails.
- The read that ends the CONFIG boot returns without an answer (`sio.cpp:252`), so that the
  emulator waits for its timeout; WRITE to a closed N: channel answers 'E' where the
  computer expects an acknowledge (`network.cpp:341`).
- A change of speed while the port is down is kept by the bus and not by the port
  (`sio.cpp:562`) until the next change.
- N: a READ of more than is there sends what lies behind the buffer (`network.cpp:289`); a
  fetch that fails after moving the position loses bytes (`Protocol.cpp:166`); after a STATUS
  a JSON document of one block is gone; JSON commands on a closed channel use a null or
  deleted protocol; the file commands forget the protocol of an open channel
  (`network.cpp:1235`); a fetch in the parser's loop that fails after moving the position
  leaves bytes out of the document, and since the number of bytes left then never becomes 0
  the loop does not end (`fnjson.cpp:290-301`). `ParsedWhole` and `ParserHasProtocol` except
  this case.

## 5. Proofs

TLAPS proves 38 theorems in 8 modules, for every value of the constants that satisfies the
named assumptions of the modules. The inductive invariants were checked with TLC, on the
runs' instances or smaller ones, before they were proved. A proof has one lemma per action, or per kind of action where
several end in the same step, and one step per part of the invariant that the action can
disturb.

| Module | Theorems (property) | Beyond the module's assumptions |
|---|---|---|
| `TaskManager_proof` | `TaskManagerSafe` (`CountExact`), `TypeCorrect` (`TypeOK`), `TasksOwned` (`MapOwns`), `FilesClosed` (`FileClosedOnce`) | nothing |
| `TnfsTransaction_proof` | `TransactionsTyped` (`TypeOK`), `RetriesAreTheRequest` (`RetriesCarryRequest`), `CommandsExecutedOnce` (`AtMostOnce`), `MountsGiveSession` (`MountGivesSession`), `RecoveriesTruthful` (`RecoveryOutcome`), `RepliesAreOurs` and `UnwrappedRepliesAreOurs` (`ReplyIsOurs`) | `Faults = {}`; `RepliesAreOurs` also `[]Unremembered`, `UnwrappedRepliesAreOurs` also `[]Unwrapped` |
| | `NumbersUnheard`, `LateRepliesNotForeign` and `UnwrappedNotForeign` (`NoForeignReply`) | any faults and any number of attempts; `[]Unwrapped`, `[]Unheard` and `[]Unwrapped` |
| `TnfsFile_proof` | `CacheHoldsFile` (`CacheTrue`), `OffsetsAgree` (`PositionsAgree`), `CachedFileIsFile` (`AbstractFile`) | first none; second no end-relative seeks; third `Undisturbed` |
| `TnfsHandles_proof` | `HandlesTyped` (`TypeOK`), `HandlesResolve` (`HandleResolves`), `TransfersOnOwnFile` (`OwnFile`), `RecoveryKeepsPosition` (`PositionKept`) | nothing |
| `FujiDirectory_proof` | `DirectoryTyped` (`TypeOK`), `ListingsExact` (`ListingExact`), `PagesAreConsecutive` (`AbstractDirectory`) | the last one `EntriesFit` and `[]Countable` |
| `SioBus_proof` | `RequestsAnsweredOnce` (`AnsweredOnce`), `SpeedIsFound` (`SpeedFound`), `AnswersAreOwn` (`AnswerIsOwn`) | nothing |
| `FujiSlots_proof` | `SlotsTyped` (`TypeOK`), `FileSystemsOutliveImages` (`NoDeadFileSystem`), `DrivesAnswered` (`DrivesPermuted`), `SlotsSurvive` (`SavedSlotsReturn`) | nothing |
| `Devices_proof` | `StreamsAreExact` (`StreamExact`), `ParsedDocumentsAreWhole` (`ParsedWhole`), `ParsersHaveProtocols` (`ParserHasProtocol`) | nothing |
| | `DiskTyped` (`TypeOK`), `HandlesClosed` (`NoHandleLeft`), `SeekOmittedSafely` (`CursorTrue`), `SectorsExact` (`RangeExact`) | the last two say of which images: `Placed`, `Created` |

**TaskManager.** The inductive invariant is the conjunction of the four properties; none is
inductive alone. The count can only be kept exact if the ids a call removes are in the map
and if a submit uses a free key (`FreeTid`). The map owns its objects only if a submitted
object was in no map before, which is the "exactly while" of `MapOwns`. A file is closed
once only because no two ids lead to one object: otherwise a turn of `service` that ends
both would close it twice (`CloseOnce`). And `task_count` fits in its byte because the keys
are within `1 .. MaxTid`, 0 never being one (`UsedFinite`). `RemovePreserves` is the lemma
that abort and service both end in.

**TnfsTransaction.** With `Faults = {}` requests and replies are still lost, duplicated and
reordered, sessions vanish at any moment, mounts meet old servers and the bus may shut
down, and a request may reach the server long after its call; excluded are TRY_AGAIN answers and reused ports, under which the code does not keep
these properties (see "Departures"). `Inv` says: the stack is empty, one transaction with
its purpose (`Alone`), or a command with the mount or unmount of its recovery above it
(`Nested`); each frame's packet is its own request again (`Own`); what is in flight on an
open socket belongs
to an active transaction, and a mount's answer is a session newer than the one of the
interrupted command on a handle (`Delivery`); a session that executed the current call
remembers its number, unless it was overtaken, and for a command on a handle it is the
packet's session (`Once`). `Behind` is about the requests that outlived their sockets: they
are of an earlier call, of the session that executed it if any did, and a session that was
not overtaken remembers a call no earlier than any it executed, so that what it would execute
once more it either recognises or is overtaken by.
`AtMostOnce` needs the last part: the server recognises a repetition by the number it
remembers. `BAD_FILENUM` is truthful because the new session is newer. None of this depends
on the width of the sequence number; two consecutive numbers must differ (`NextNumber`).
`ReplyIsOurs` does depend on it: an open session that still remembers the number the next
transaction gets, from 256 transactions ago, answers with the old reply. With `SeqMod` = 2
TLC finds that behaviour; the theorem's hypothesis `Unremembered` (no open session
remembers, and no late command has, the number given next) excludes it, and holds in every state of the run
`tnfs_recovery`. Its invariant `Fresh` adds that a number remembered by an open session, if
it is the running command's, is remembered with the running call's reply.

The last part of the module is for any faults and any number of attempts, where a late reply
to an earlier call can arrive at a reused port, TRY_AGAIN or a foreign datagram overwrites
the packet, and a retry sends what they left. `LateRepliesNotForeign` is about transactions
that wait for the number they were given. Its invariant `Undiverted` says: what is carried is
the running call's payload or none (`Carried`), and whatever reply, late request or remembered
reply has the number that an active transaction was given is the running call's
(`Attributed`), whatever number that transaction waits for meanwhile. A transaction keeps
this when it starts only if nothing has the number it is given, which is the hypothesis
`Unheard`. `NumbersUnheard` discharges it, and `Unremembered` above, until the byte comes
round: all numbers in packets, replies and sessions are below the counter (`Older`). The
recursion of recoveries under "stale" is cut off in the model (`DepthBound`), and so in these
theorems.

**TnfsFile.** `CacheInv` ties the cache to the client's offset, at which the part read ahead
always ends (`Progress`), and says that, while client and server agree on the offset, that
part is in the file; it holds with transactions failing before or after they are executed.
`PositionsAgree` is an action property; end-relative seeks are left out of the theorem
because `tnfs_lseek` computes the new offset from a size that `tnfs_write` does not update.
The refinement of FileSpec is proved step by step with `Exact` (the caller is within or at
the end of what was read ahead; a read in progress has the bytes from its start to the
caller): the caller's step maps to a FileSpec step when the call returns, the others to
stutters. `Undisturbed` is the instance of the run `tnfs_file_abstract`: no failing
transaction, no relative seek, no growing file. Each of these breaks the refinement, which
is what "Departures" lists.

**TnfsHandles.** `Inv` speaks of the handlers that share their id with nobody (`Clean`), since
the code does not look whether the table holds the id it is given. For each of them
(`Sound`): exactly one entry has its id and it is of its file (`Sole`); cache and server handle
are of that file (`OfFile`); and while its user counts on a position, the server is at
`file_position`, the cache ends there, and the entry is where the user is, advanced by what
the call in progress has read, or a recovery remembers the place (`PlacedAt`). `Buffer` says
the same of the part a read has already delivered. The sharing ones may do to their entries
what they like: that `mixed` takes in all of them at the moment an id is given out is what
keeps the others apart.

**FujiDirectory.** `DirInv` holds of the directory cache whatever commands use it: while the
reader counts on a position, the next entry is the cache's current one or the server's, and
the server is at the end of the cache (`Follows`). The refinement of DirectorySpec adds
`BlockExact`: a block being filled holds consecutive entries from the reader's cursor on.
It needs `Countable`, without which the count byte is not the number of entries, and
`EntriesFit`: an entry, or the end mark, fits into an empty block. The code does not
ensure that for blocks of one page and the longest names (9 + 2 + 255 bytes in 256): the
block then is sent empty, without an end mark and without progress.

**SioBus.** `OnePlace`: a sync request is in one place only, still to be issued, on its way,
pending in the port, or answered; and a response is the first datagram in a buffer of those
to be sent. A step moves at most one request from one place to the next (the lemmas
`Move...`), so none is answered twice. The handlers, which are sequences of bus operations,
enter that proof only through what each operation does to the pending request.

`SpeedFound` and `AnswerIsOwn` need the whole conversation. While nothing is disturbed the
emulator, the hub's queues, the port and the device are in one of sixteen phases
(`Conversation`): at rest, a command coming, its bytes swallowed at the wrong speed, its
frame awaited, here, being checked, a handler starting, answering, sending data, controlling,
requesting a data frame with or without the sync request that goes with it, the data here,
and the outcome being written. Each phase says what is in the two queues, which sync request
the port holds, which operations of the handler are left and what the emulator will do with
the bytes under way (`Mute`, `NoEnd`); an action leads from a phase to the same or the next.
That the conversation resumes after a fault needs the rest of the invariant, which holds
always (`Orderly`: nothing is left to do or to send outside a handler, and a credit under
way was asked for): the history flag `disturbed` is cleared when the device is at rest, and
`Resting` then has to hold. `SpeedSought` ties the count of rejected frames to the device's
own counter and to the toggle it leads to.

**FujiSlots.** `HostsOK`: a file system object exists as long as a host points to it, and
belongs to one host. `Sound`, which holds until one of the five named orders of commands is
given: the slot of a mounted image leads to its file system, which is started; that is what
the next mount, unmount or rename relies on. `DrivesPermuted` rests on the rotation being
one-to-one (`Rotation`), `SavedSlotsReturn` on `Agree` (the saved mounts are those of the
slots since they were saved).

**NetworkChannel.** `InOrder`, of a channel that is open, whose reader was polite and whose
file no failed read has moved: what was read and what is buffered, one after the other, are
the bytes up to the server's position, and `fileSize` is the rest; STATUS told of no more
than is buffered, and of the end only when all is. A polite read then takes from the buffer
alone, which is why a READ never meets the branch that pads with what lies behind it.
`ParsedWhole` needs `Untouched` (from OPEN to the first STATUS nothing is fetched: the poll
only interrupts while `forceStatus` is set), and inside the loop `Collected`: what is in the parse buffer are the bytes up to the
server's position, and `fileSize` is the rest. `ParserHasProtocol` needs `OpenOwns` (an open
channel's protocol is the parser's and alive; until a read fails it waits for no more than
the file has, so the loop of `parse` ends) and `ClosedEmpty` (a closed channel has an empty
buffer and no file: the next OPEN starts clean although `CloseOld` only empties the buffer
when there is a protocol).

**DiskImage.** `Typed` gives the first theorem and, with `NoHandleLeft`, the second. The
sector arithmetic is in lemmas of its own: `AtrLayout` (offset and size as the layout says,
and for 512-byte sectors beyond the third one sector too far), `HeaderSectors` (the sector
count returns from the paragraphs in the header), `SectorInFile`. `CursorTrue` is inductive
with `Typed` for images whose sectors have 128 or 256 bytes (`Placed`); `RangeExact` follows
for those whose size is the one `create` gives them (`Created`) and for XEX files; both except
a XEX file after a short read, until a seek or a new mount (`Strayed`).

Models that were changed while proving. In TnfsHandles the step `Executed` was a CASE with
overlapping guards (the seek back of a recovery inside a seek call), of which TLC took the
first and the semantics takes any; it now is a disjunction with the guards that the code's
control gives. In NetworkChannel the history flag `torn` was set anew by every failing read,
so that a second one that moved nothing hid the first: `InOrder` was not inductive, and with
two failing reads TLC found `StreamExact` violated. The flag now stays, and the run has two
failing reads. In TnfsTransaction sockets were counted, which no invariant could bound. In
DiskImage, SioBus, FujiDirectory and TnfsDir assumptions that the proofs need and the code
justifies were named or completed.

## 6. Only model-checked, and not modelled

Only model-checked: the liveness properties (`SubmittedTaskStarts`, `CallsReturn`,
`OpsReturn`, `CommandEnds`, `DeviceReturns`), which need fairness and are outside the
prover's reach. (`FreeTidFound` is shown violated by the run `task_id_wrap`.) The theorems
above hold under the conditions in the table's last column; outside them the runs, where
they go beyond, are all there is.

Abstracted: packet layouts, strings and paths, times (a timeout may happen whenever the
code is waiting), the contents of files beyond a few distinct bytes, directory entries
beyond their position and size. SMB and FTP hosts are taken to behave like TNFS ones. The false success of a transaction while the bus is shutting down
is modelled (`Breakout`); the properties speak of calls returned before it.

Not modelled: the components listed in `PROJECT.json` as not_modelled, and of those
listed as partly what their notes say. Of the bus: the overrun of the receive ring (1024
bytes, emptied by every command), the motor line, COLD_RESET, and the cassette, modem, CP/M
and UDP stream modes of `service`. Of the disk device: ATX, FORMAT, percom. Of the N: device:
writing, directories, login and special commands, end-of-line translation, the adapters
other than files. Of the web server: mount and eject from the file browser
(`httpServiceBrowser.cpp:190-264`), page generation. Sockets, the directory cache of the other file systems and the IWM bus
are next in the plan; vendored libraries, the ESP32 builds for other computers, printer
emulation and operating-system wrappers are left out for good. They make up most of the
tree, so that the mapped lines are a small share of all.
