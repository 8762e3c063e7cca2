--------------------------- MODULE NetworkChannel ---------------------------
(***************************************************************************)
(* One N: channel (lib/device/sio/network.cpp) with a protocol that reads  *)
(* files (lib/network-protocol/FS.cpp and TNFS.cpp on Protocol.cpp) and    *)
(* the JSON parser (lib/fnjson/fnjson.cpp).                                *)
(*                                                                         *)
(* STATUS is not a plain question: it fetches the bytes it reports into    *)
(* the receive buffer, and the interrupt poll between two commands does    *)
(* the same.  The device, the protocol and the parser share that buffer;   *)
(* the parser keeps a pointer of its own to the protocol.                  *)
(*                                                                         *)
(* A byte is the pair of the protocol object it was read by and its place  *)
(* in the file; the value of a JSON query is one byte.  Requests fit into  *)
(* one block.  Writing, directories, end-of-line translation and the other *)
(* protocols are left out.                                                 *)
(***************************************************************************)
EXTENDS Integers, Sequences

CONSTANTS
  MaxLen,      \* the longest file
  Block,       \* bytes fetched by a STATUS: 512
  MaxBuffer,   \* bound on the receive buffer
  MaxObjects,  \* bound on the protocol objects created
  MaxFailures  \* bound on failing reads

ASSUME ChannelAssumption ==
  /\ MaxLen \in Nat /\ Block \in Nat \ {0}
  /\ MaxBuffer \in Nat /\ MaxObjects \in Nat /\ MaxFailures \in Nat

VARIABLES
  protocol,     \* the protocol object, or None
  made, live,   \* protocol objects created so far, and those not deleted
  file,         \* of each: its length, the bytes consumed, fileSize, whether the
                \* file is there on the server, and (history) whether a read that
                \* failed has moved the position
  forceStatus,  \* of each: STATUS is awaited
  json,         \* the protocol of the parser; None when there is no parser
  document,     \* what the parser has parsed
  json_bytes_remaining,
  channelMode,
  rx,           \* receiveBuffer
  status,       \* the last answer to STATUS: bytes waiting, end of file
  failures,     \* failing reads so far
  run,          \* "idle", "parsing" inside the loop of FNJSON::parse, or what the
                \* program died of
  open,         \* history: the last OPEN succeeded and was not closed
  rash,         \* history: a command came that this channel cannot serve
  got,          \* history: what was read since OPEN
  polite,       \* history: reads asked for no more than STATUS had told
  fresh         \* history: "opened", then "parsing" and "parsed" if nothing else was
                \* asked before

objects == <<protocol, made, live, json>>
history == <<open, rash>>
reader == <<got, polite, fresh>>
channelVars == <<objects, file, forceStatus, document, json_bytes_remaining, channelMode,
                 rx, status, failures, run, history, reader>>

None == 0
Objects == 1 .. MaxObjects
Unopened == [len |-> 0, pos |-> 0, fileSize |-> 0, there |-> FALSE, torn |-> FALSE]
JsonByte == <<None, 0>>
Junk == <<None, 1>>
Reset == [waiting |-> 0, eof |-> FALSE]

Least(a, b) == IF a < b THEN a ELSE b
\* n bytes of the file of p from its position on; there may be none left.
Bytes(p, n) == [i \in 1 .. n |-> IF file[p].pos + i <= file[p].len THEN <<p, file[p].pos + i>> ELSE Junk]
Whole(p) == [i \in 1 .. file[p].len |-> <<p, i>>]

ChannelInit ==
  /\ protocol = None /\ made = 0 /\ live = {} /\ json = None
  /\ file = [p \in Objects |-> Unopened]
  /\ forceStatus = [p \in Objects |-> FALSE]
  /\ document = <<>> /\ json_bytes_remaining = 0 /\ channelMode = "PROTOCOL"
  /\ rx = <<>> /\ status = Reset
  /\ failures = 0 /\ run = "idle"
  /\ open = FALSE /\ rash = FALSE
  /\ got = <<>> /\ polite = TRUE /\ fresh = "no"

(***************************************************************************)
(* The protocol.                                                           *)
(***************************************************************************)
\* Mutant: the size is counted down whether or not the bytes came.
read_file_CountFirst(p, n) ==
  LET f == file[p]
      moved == [f EXCEPT !.pos = Least(@ + n, f.len), !.fileSize = @ - n]
  IN {[rx |-> Bytes(p, n), file |-> moved, failed |-> 0],
      [rx |-> <<>>, file |-> moved, failed |-> 1]}

\* NetworkProtocolFS::read_file on an empty buffer: what may come of it.  The
\* server may have less than asked for: the rest is what malloc returned; at the
\* end of the file the read is refused.  A read that fails on the way may or may
\* not have moved the position of the file.
read_file(p, n) ==
  LET f == file[p] IN
  IF ~ f.there \/ f.pos = f.len THEN {[rx |-> <<>>, file |-> f, failed |-> 0]}
  ELSE {[rx |-> Bytes(p, n), failed |-> 0,
         file |-> [f EXCEPT !.pos = Least(@ + n, f.len), !.fileSize = @ - n]]}
       \cup {[rx |-> <<>>, failed |-> 1, file |-> [f EXCEPT !.pos = @ + moved, !.torn = @ \/ moved > 0]] :
               moved \in 0 .. Least(n, f.len - f.pos)}

\* Bytes that are in the buffer come first, alone.
read(p, n) ==
  IF rx = <<>> THEN read_file(p, n) ELSE {[rx |-> rx, file |-> file[p], failed |-> 0]}

\* status_file and NetworkProtocol::status: what is reported is fetched first.  A
\* negative size is a large number of bytes, which the server does not have.
Fetch(p) ==
  IF rx = <<>> /\ file[p].fileSize > 0
    THEN read_file(p, Least(file[p].fileSize, Block))
    ELSE {[rx |-> rx, file |-> file[p], failed |-> 0]}

\* Outcome r of a read by p; the buffer is left to the caller.
Took(p, r) ==
  /\ failures + r.failed <= MaxFailures
  /\ failures' = failures + r.failed
  /\ file' = [file EXCEPT ![p] = r.file]

(***************************************************************************)
(* Commands of the computer, and the poll between them.                    *)
(***************************************************************************)
Alive == run = "idle"

\* Mutant: a parser that exists is used again.
json_of_channel_Keep(p) == IF json = None THEN p ELSE json

\* OPEN makes a parser for the new channel and forgets the one before.
json_of_channel(p) == p

\* OPEN begins by closing and deleting the protocol that is there, which empties
\* the buffer.
CloseOld == rx' = IF protocol = None THEN rx ELSE <<>>

\* What the objects know without the one that is deleted.
Remaining(of, blank) == [p \in Objects |-> IF p = protocol THEN blank ELSE of[p]]

\* OPEN fails: the URL is invalid (no object is made), or the protocol cannot
\* open the file (the object is deleted again, and with it what is buffered).
OpenFails(instantiated) ==
  /\ Alive
  /\ IF instantiated THEN made < MaxObjects /\ made' = made + 1 /\ rx' = <<>>
                     ELSE CloseOld /\ UNCHANGED made
  /\ live' = live \ {protocol}
  /\ protocol' = None /\ channelMode' = "PROTOCOL" /\ status' = Reset
  /\ file' = Remaining(file, Unopened) /\ forceStatus' = Remaining(forceStatus, FALSE)
  /\ open' = FALSE /\ got' = <<>> /\ polite' = TRUE /\ fresh' = "no"
  /\ UNCHANGED <<json, document, json_bytes_remaining, failures, run, rash>>

sio_open(len) ==
  /\ Alive /\ made < MaxObjects
  /\ made' = made + 1
  /\ CloseOld
  /\ live' = (live \ {protocol}) \cup {made'}
  /\ protocol' = made'
  /\ file' = [Remaining(file, Unopened) EXCEPT ![made'] = [len |-> len, pos |-> 0, fileSize |-> len, there |-> TRUE, torn |-> FALSE]]
  /\ forceStatus' = [Remaining(forceStatus, FALSE) EXCEPT ![made'] = TRUE]
  /\ json' = json_of_channel(made') /\ document' = <<>>
  /\ channelMode' = "PROTOCOL" /\ status' = Reset
  /\ open' = TRUE /\ got' = <<>> /\ polite' = TRUE /\ fresh' = "opened"
  /\ UNCHANGED <<json_bytes_remaining, failures, run, rash>>

sio_close ==
  /\ Alive
  /\ CloseOld
  /\ live' = live \ {protocol}
  /\ protocol' = None /\ status' = Reset
  /\ IF protocol = None THEN UNCHANGED <<json, document>> ELSE json' = None /\ document' = <<>>
  /\ file' = Remaining(file, Unopened) /\ forceStatus' = Remaining(forceStatus, FALSE)
  /\ open' = FALSE /\ got' = <<>> /\ polite' = TRUE /\ fresh' = "no"
  /\ UNCHANGED <<made, json_bytes_remaining, channelMode, failures, run, rash>>

\* READ: n bytes of the buffer, and what lies behind it, go to the computer.
sio_read(n) ==
  /\ Alive /\ protocol # None
  /\ \E r \in IF channelMode = "JSON" THEN {[rx |-> rx, file |-> file[protocol], failed |-> 0]}
                                      ELSE read(protocol, n) :
       /\ Took(protocol, r)
       /\ rx' = SubSeq(r.rx, n + 1, Len(r.rx))
       /\ polite' = (polite /\ n <= status.waiting /\ channelMode = "PROTOCOL")
       /\ got' = IF polite' THEN got \o [i \in 1 .. n |-> IF i <= Len(r.rx) THEN r.rx[i] ELSE Junk] ELSE <<>>
  /\ json_bytes_remaining' = IF channelMode = "PROTOCOL" THEN json_bytes_remaining
                             ELSE IF n > json_bytes_remaining THEN 0 ELSE json_bytes_remaining - n
  /\ status' = [status EXCEPT !.waiting = IF n > @ THEN 0 ELSE @ - n]
  /\ fresh' = "no"
  /\ UNCHANGED <<objects, forceStatus, document, channelMode, run, history>>

sio_status ==
  /\ Alive /\ protocol # None
  /\ IF channelMode = "JSON"
       THEN /\ status' = [waiting |-> json_bytes_remaining, eof |-> json_bytes_remaining = 0]
            /\ UNCHANGED <<rx, file, failures>>
       ELSE \E r \in Fetch(protocol) :
              /\ Took(protocol, r) /\ rx' = r.rx
              /\ status' = [waiting |-> Len(r.rx), eof |-> file[protocol].fileSize <= 0]
  /\ forceStatus' = [forceStatus EXCEPT ![protocol] = FALSE]
  /\ fresh' = "no"
  /\ UNCHANGED <<objects, document, json_bytes_remaining, channelMode, run, history, got, polite>>

\* Mutant: the first STATUS is not waited for.
sio_poll_interrupt_AtOnce ==
  /\ Alive /\ protocol # None
  /\ \E r \in Fetch(protocol) : Took(protocol, r) /\ rx' = r.rx
  /\ UNCHANGED <<objects, forceStatus, document, json_bytes_remaining, channelMode, status, run,
                 history, reader>>

\* Until the first STATUS the computer is only interrupted.
sio_poll_interrupt ==
  /\ Alive /\ protocol # None
  /\ ~ forceStatus[protocol]
  /\ \E r \in Fetch(protocol) : Took(protocol, r) /\ rx' = r.rx
  /\ UNCHANGED <<objects, forceStatus, document, json_bytes_remaining, channelMode, status, run,
                 history, reader>>

sio_set_channel_mode(mode) ==
  /\ Alive
  /\ channelMode' = mode
  /\ polite' = (polite /\ mode = "PROTOCOL")
  /\ UNCHANGED <<objects, file, forceStatus, document, json_bytes_remaining, rx, status, failures,
                 run, history, got, fresh>>

\* FNJSON::parse empties the parse buffer and goes into its loop.
sio_parse_json ==
  /\ Alive /\ channelMode = "JSON"
  /\ rash' = (rash \/ ~ open)
  /\ IF json \notin live
       THEN run' = (IF json = None THEN "null" ELSE "dead") /\ UNCHANGED <<document, polite, fresh>>
       ELSE /\ run' = "parsing" /\ document' = <<>> /\ polite' = FALSE
            /\ fresh' = IF fresh = "opened" THEN "parsing" ELSE "no"
  /\ UNCHANGED <<objects, file, forceStatus, json_bytes_remaining, channelMode, rx, status, failures,
                 open, got>>

\* A turn of the loop: STATUS fetches the next block, which goes to the parse
\* buffer; a fetch that failed is tried again, from where it left the position.
\* A file that is gone, or at its end before fileSize is 0, is asked for ever.
ParseBlock ==
  /\ run = "parsing" /\ file[json].fileSize > 0
  /\ IF rx = <<>> /\ (~ file[json].there \/ file[json].pos = file[json].len)
       THEN run' = "endless" /\ UNCHANGED <<file, failures, document, rx>>
       ELSE /\ \E r \in Fetch(json) : Took(json, r) /\ document' = document \o r.rx
            /\ rx' = <<>>
            /\ UNCHANGED run
  /\ UNCHANGED <<objects, forceStatus, json_bytes_remaining, channelMode, status, history, reader>>

\* The loop ends when the first STATUS of a turn says that nothing is left.
ParseEnd ==
  /\ run = "parsing" /\ file[json].fileSize <= 0
  /\ run' = "idle"
  /\ fresh' = IF fresh = "parsing" THEN "parsed" ELSE "no"
  /\ UNCHANGED <<objects, file, forceStatus, document, json_bytes_remaining, channelMode, rx, status,
                 failures, history, got, polite>>

\* A query adds its value, if it finds one, to the buffer.
sio_set_json_query ==
  /\ Alive /\ channelMode = "JSON"
  /\ Len(rx) < MaxBuffer
  /\ rash' = (rash \/ ~ open)
  /\ IF json = None THEN run' = "null" /\ UNCHANGED <<rx, json_bytes_remaining>>
     ELSE \E found \in BOOLEAN :
            /\ found => document # <<>>
            /\ rx' = IF found THEN Append(rx, JsonByte) ELSE rx
            /\ json_bytes_remaining' = IF found THEN 1 ELSE 0
            /\ UNCHANGED run
  /\ UNCHANGED <<objects, file, forceStatus, document, channelMode, status, failures, open, reader>>

\* With a parser it sets how values are written, which is left out here.
sio_set_json_parameters ==
  /\ Alive /\ channelMode = "JSON"
  /\ json = None
  /\ run' = "null"
  /\ rash' = (rash \/ ~ open)
  /\ UNCHANGED <<objects, file, forceStatus, document, json_bytes_remaining, channelMode, rx, status,
                 failures, open, reader>>

\* RENAME, DELETE, MKDIR...  A protocol is made for the command and stays; the
\* one before is forgotten.  With an invalid URL the command is given to the
\* protocol that is there, which mounts again and loses its file.
sio_do_idempotent_command_80(url) ==
  /\ Alive
  /\ CASE url = "valid" -> /\ made < MaxObjects /\ made' = made + 1
                           /\ protocol' = made' /\ live' = live \cup {made'}
                           /\ UNCHANGED file
       [] url = "scheme" -> protocol' = None /\ UNCHANGED <<made, live, file>>
       [] url = "invalid" -> /\ file' = [p \in Objects |-> IF p = protocol THEN [file[p] EXCEPT !.there = FALSE]
                                                                           ELSE file[p]]
                             /\ UNCHANGED <<protocol, made, live>>
  /\ rash' = (rash \/ open)
  /\ UNCHANGED <<json, forceStatus, document, json_bytes_remaining, channelMode, rx, status, failures,
                 run, open, reader>>

ChannelNext ==
  \/ \E instantiated \in BOOLEAN : OpenFails(instantiated)
  \/ \E len \in 0 .. MaxLen : sio_open(len)
  \/ sio_close
  \/ \E n \in 1 .. Block : sio_read(n)
  \/ sio_status
  \/ sio_poll_interrupt
  \/ \E mode \in {"PROTOCOL", "JSON"} : sio_set_channel_mode(mode)
  \/ sio_parse_json
  \/ ParseBlock
  \/ ParseEnd
  \/ sio_set_json_query
  \/ sio_set_json_parameters
  \/ \E url \in {"valid", "scheme", "invalid"} : sio_do_idempotent_command_80(url)

ChannelSpec == ChannelInit /\ [][ChannelNext]_channelVars

(***************************************************************************)
(* Properties.                                                             *)
(***************************************************************************)
\* A computer that opens a file and reads no more than STATUS told it gets the
\* bytes of the file in order, each once, however polls, STATUS and short READs
\* follow each other; and when STATUS says that nothing is waiting and the file
\* is at its end, it has all of them.  Not so once a failed read has moved the
\* position of the file, or after a command the channel cannot serve.
StreamExact ==
  open /\ polite /\ ~ rash /\ ~ file[protocol].torn =>
    /\ got = SubSeq(Whole(protocol), 1, Len(got))
    /\ status.waiting = 0 /\ status.eof => got = Whole(protocol)

\* An application that parses right after OPEN, whatever the polls in between,
\* gets the whole document, however many reads fail on the way: the poll does not
\* fetch before the first STATUS, and the loop tries again.  Not so once a failed
\* read has moved the position of the file: its bytes are missing.  (After a
\* STATUS a document of one block is lost: the file is at its end.)
ParsedWhole == fresh = "parsed" /\ ~ rash /\ ~ file[json].torn => document = Whole(json)

\* OPEN without CLOSE, failing OPENs and CLOSE in any order leave the parser with
\* no protocol that is deleted, as long as the computer gives JSON commands only
\* on an open channel and file commands (rename, delete...) only on a closed one;
\* and parsing goes on for ever only after a failed read that moved the position.
ParserHasProtocol ==
  ~ rash => run \notin {"null", "dead"} /\ (run = "endless" => file[json].torn)
=============================================================================
