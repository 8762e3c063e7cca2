--------------------------- MODULE Devices_proof ---------------------------
(***************************************************************************)
(* Proofs about the two devices a computer reads from: the network channel *)
(* (NetworkChannel), for every file length, block size and number of       *)
(* protocol objects and failing reads, and the disk drive (DiskImage), for *)
(* every set of images, sectors and handles.                               *)
(***************************************************************************)
EXTENDS DiskImage, NetworkChannel, SequenceTheorems, TLAPS

-----------------------------------------------------------------------------
(***************************************************************************)
(* The network channel.                                                    *)
(***************************************************************************)
Places == (0 .. MaxObjects) \X Nat
Files == [len : Nat, pos : Nat, fileSize : Int, there : BOOLEAN, torn : BOOLEAN]

ChannelTyped ==
  /\ protocol \in Objects \cup {None} /\ json \in Objects \cup {None} /\ made \in 0 .. MaxObjects
  /\ live \subseteq Objects
  /\ file \in [Objects -> Files] /\ \A p \in Objects : file[p].pos <= file[p].len
  /\ forceStatus \in [Objects -> BOOLEAN]
  /\ document \in Seq(Places) /\ rx \in Seq(Places) /\ got \in Seq(Places)
  /\ json_bytes_remaining \in Nat /\ failures \in Nat
  /\ status \in [waiting : Nat, eof : BOOLEAN]
  /\ open \in BOOLEAN /\ rash \in BOOLEAN /\ polite \in BOOLEAN

\* Objects that have not been made have no file, and only an open channel is fresh.
Unmade == \A p \in Objects : p > made => ~ file[p].there /\ file[p].fileSize <= 0
FreshOpen == fresh # "no" => open

\* An open channel's protocol is the parser's and is not deleted; until a failed
\* read has moved the position it does not wait for more bytes than the file has.
OpenOwns ==
  (open /\ ~ rash) =>
    /\ protocol \in Objects /\ json = protocol /\ protocol \in live /\ file[protocol].there
    /\ ~ file[protocol].torn => file[protocol].fileSize <= file[protocol].len - file[protocol].pos
\* A closed channel has nothing in its buffer, and no file to fill it from.
ClosedEmpty ==
  (~ open /\ ~ rash) =>
    rx = <<>> /\ (protocol # None => ~ file[protocol].there /\ file[protocol].fileSize <= 0)

\* Nothing has been fetched before the document is parsed.
Untouched ==
  (fresh = "opened" /\ ~ rash) =>
    /\ rx = <<>> /\ document = <<>> /\ forceStatus[protocol]
    /\ file[protocol].pos = 0 /\ file[protocol].fileSize = file[protocol].len

\* What was read and what is buffered are the bytes up to the file's position; STATUS told
\* of no more than is buffered, and of the end of the file only when all of it is.
InOrder ==
  (open /\ polite /\ ~ rash /\ ~ file[protocol].torn) =>
    /\ channelMode = "PROTOCOL"
    /\ file[protocol].fileSize = file[protocol].len - file[protocol].pos
    /\ Len(got) + Len(rx) = file[protocol].pos
    /\ \A i \in 1 .. Len(got) : got[i] = <<protocol, i>>
    /\ \A i \in 1 .. Len(rx) : rx[i] = <<protocol, Len(got) + i>>
    /\ status.waiting <= Len(rx)
    /\ status.eof => file[protocol].pos = file[protocol].len /\ status.waiting = Len(rx)

ChannelInv ==
  /\ ChannelTyped /\ Unmade /\ FreshOpen /\ OpenOwns /\ ClosedEmpty /\ Untouched /\ InOrder
  /\ ParsedWhole /\ ParserHasProtocol

LEMMA ChannelSizes ==
  /\ MaxLen \in Nat /\ Block \in Nat /\ Block > 0 /\ MaxBuffer \in Nat /\ MaxObjects \in Nat /\ MaxFailures \in Nat
  /\ Objects \subseteq Nat /\ None \notin Objects /\ 0 \in 0 .. MaxObjects
  /\ Junk \in Places /\ JsonByte \in Places /\ \A p \in Objects, i \in Nat : <<p, i>> \in Places
<1>1. /\ MaxLen \in Nat /\ Block \in Nat /\ Block > 0 /\ MaxBuffer \in Nat /\ MaxObjects \in Nat /\ MaxFailures \in Nat
  BY ChannelAssumption
<1>2. Objects \subseteq Nat /\ None \notin Objects /\ 0 \in 0 .. MaxObjects /\ Objects \subseteq 0 .. MaxObjects
  BY <1>1 DEF Objects, None
<1>3. Junk \in Places /\ JsonByte \in Places /\ \A p \in Objects, i \in Nat : <<p, i>> \in Places
  BY <1>2 DEF Places, Junk, JsonByte, None
<1>4. QED
  BY <1>1, <1>2, <1>3

LEMMA FileFields ==
  /\ \A f \in Files : f.len \in Nat /\ f.pos \in Nat /\ f.fileSize \in Int /\ f.there \in BOOLEAN /\ f.torn \in BOOLEAN
  /\ Unopened \in Files /\ Unopened.pos = 0 /\ Unopened.len = 0 /\ ~ Unopened.there /\ Unopened.fileSize = 0
BY DEF Files, Unopened

LEMMA LeastIs ==
  ASSUME NEW a \in Int, NEW b \in Int
  PROVE  Least(a, b) \in {a, b} /\ Least(a, b) <= a /\ Least(a, b) <= b
BY DEF Least

LEMMA BytesRead ==
  ASSUME ChannelTyped, NEW p \in Objects, NEW n \in Nat
  PROVE  /\ Bytes(p, n) \in Seq(Places) /\ Len(Bytes(p, n)) = n
         /\ \A i \in 1 .. n : file[p].pos + i <= file[p].len => Bytes(p, n)[i] = <<p, file[p].pos + i>>
<1>1. file[p].pos \in Nat /\ file[p].len \in Nat
  BY FileFields DEF ChannelTyped
<1>2. \A i \in 1 .. n : <<p, file[p].pos + i>> \in Places /\ Junk \in Places
  BY <1>1, ChannelSizes
<1>3. QED
  BY <1>1, <1>2 DEF Bytes

\* What a read of n bytes may come to: nothing at the end of the file, the bytes, or a
\* failure that may have moved the position.
TurnedDown(p, r) == r.rx = <<>> /\ r.file = file[p] /\ r.failed = 0 /\ (~ file[p].there \/ file[p].pos = file[p].len)
Brought(p, n, r) ==
  /\ r.rx = Bytes(p, n) /\ r.failed = 0 /\ file[p].there /\ file[p].pos # file[p].len
  /\ r.file.pos = Least(file[p].pos + n, file[p].len) /\ r.file.fileSize = file[p].fileSize - n
  /\ r.file.torn = file[p].torn
Broken(p, r) ==
  /\ r.rx = <<>> /\ r.failed = 1 /\ file[p].there /\ file[p].pos # file[p].len
  /\ r.file.fileSize = file[p].fileSize
  /\ r.file.torn \/ (r.file.pos = file[p].pos /\ r.file.torn = file[p].torn)
Outcome(p, r) ==
  /\ r.file \in Files /\ r.file.pos <= r.file.len /\ r.file.len = file[p].len /\ r.file.there = file[p].there
  /\ file[p].torn => r.file.torn
  /\ r.rx \in Seq(Places) /\ r.failed \in Nat

LEMMA ReadFile ==
  ASSUME ChannelTyped, NEW p \in Objects, NEW n \in Nat, NEW r \in read_file(p, n)
  PROVE  Outcome(p, r) /\ (TurnedDown(p, r) \/ Brought(p, n, r) \/ Broken(p, r))
<1>0. PICK f \in Files : f = file[p]
  BY DEF ChannelTyped
<1>1. /\ f.len \in Nat /\ f.pos \in Nat /\ f.fileSize \in Int /\ f.there \in BOOLEAN /\ f.torn \in BOOLEAN /\ f.pos <= f.len
      /\ <<>> \in Seq(Places)
  BY <1>0, FileFields DEF ChannelTyped
<1>2. CASE ~ f.there \/ f.pos = f.len
  <2>1. r = [rx |-> <<>>, file |-> f, failed |-> 0]
    BY <1>0, <1>2 DEF read_file
  <2>2. QED
    BY <1>0, <1>1, <1>2, <2>1 DEF Outcome, TurnedDown
<1>3. CASE /\ f.there /\ f.pos # f.len
           /\ r = [rx |-> Bytes(p, n), failed |-> 0, file |-> [f EXCEPT !.pos = Least(@ + n, f.len), !.fileSize = @ - n]]
  <2>1. PICK q \in Nat : q = Least(f.pos + n, f.len) /\ q <= f.len
    BY <1>1, LeastIs
  <2>2. PICK s \in Int : s = f.fileSize - n
    BY <1>1
  <2>3. PICK g : g = [f EXCEPT !.pos = q, !.fileSize = s]
    OBVIOUS
  <2>4. r.rx = Bytes(p, n) /\ r.failed = 0 /\ r.file = g
    BY <1>3, <2>1, <2>2, <2>3
  <2>5. g \in Files /\ g.pos = q /\ g.fileSize = s /\ g.len = f.len /\ g.there = f.there /\ g.torn = f.torn
    BY <2>1, <2>2, <2>3 DEF Files
  <2>6. QED
    BY <1>0, <1>3, <2>1, <2>2, <2>4, <2>5, BytesRead DEF Outcome, Brought
<1>4. CASE /\ f.there /\ f.pos # f.len
           /\ \E moved \in 0 .. Least(n, f.len - f.pos) :
                r = [rx |-> <<>>, failed |-> 1, file |-> [f EXCEPT !.pos = @ + moved, !.torn = @ \/ moved > 0]]
  <2>1. PICK moved \in 0 .. Least(n, f.len - f.pos) :
          r = [rx |-> <<>>, failed |-> 1, file |-> [f EXCEPT !.pos = @ + moved, !.torn = @ \/ moved > 0]]
    BY <1>4
  <2>2. moved \in Nat /\ f.pos + moved <= f.len
    BY <1>1, <2>1, LeastIs
  <2>3. PICK q \in Nat : q = f.pos + moved
    BY <1>1, <2>2
  <2>4. PICK t \in BOOLEAN : t = (f.torn \/ moved > 0)
    OBVIOUS
  <2>5. PICK g : g = [f EXCEPT !.pos = q, !.torn = t]
    OBVIOUS
  <2>6. r.rx = <<>> /\ r.failed = 1 /\ r.file = g
    BY <2>1, <2>3, <2>4, <2>5
  <2>7. g \in Files /\ g.pos = q /\ g.torn = t /\ g.fileSize = f.fileSize /\ g.len = f.len /\ g.there = f.there
    BY <2>3, <2>4, <2>5 DEF Files
  <2>8. f.torn => t
    <3>1. CASE t = TRUE
      BY <3>1
    <3>2. CASE t = FALSE
      <4>1. ~ (f.torn \/ moved > 0)
        BY <2>4, <3>2, Zenon
      <4>2. QED
        BY <4>1
    <3>3. QED
      BY <2>4, <3>1, <3>2
  <2>9. t \/ (q = f.pos /\ t = f.torn)
    <3>1. CASE t = TRUE
      BY <3>1
    <3>2. CASE t = FALSE
      <4>1. ~ (f.torn \/ moved > 0)
        BY <2>4, <3>2, Zenon
      <4>2. ~ f.torn /\ f.torn \in BOOLEAN /\ moved = 0
        BY <1>1, <2>2, <4>1
      <4>3. f.torn = FALSE
        BY <4>2, Zenon
      <4>4. QED
        BY <1>1, <2>3, <3>2, <4>2, <4>3
    <3>3. QED
      BY <2>4, <3>1, <3>2
  <2>10. Outcome(p, r)
    <3>1. r.file.torn = t /\ file[p].torn = f.torn
      BY <1>0, <2>6, <2>7, Zenon
    <3>2. file[p].torn => r.file.torn
      BY <2>8, <3>1, Zenon
    <3>3. r.file \in Files /\ r.file.pos <= r.file.len /\ r.file.len = file[p].len /\ r.file.there = file[p].there
      BY <1>0, <1>1, <2>2, <2>3, <2>6, <2>7
    <3>4. r.rx \in Seq(Places) /\ r.failed \in Nat
      BY <1>1, <2>6
    <3>5. QED
      BY <3>2, <3>3, <3>4 DEF Outcome
  <2>11. Broken(p, r)
    <3>1. r.file.torn \/ (r.file.pos = file[p].pos /\ r.file.torn = file[p].torn)
      BY <1>0, <2>6, <2>7, <2>9, Zenon
    <3>2. QED
      BY <1>0, <1>4, <2>6, <2>7, <3>1 DEF Broken
  <2>12. QED
    BY <2>10, <2>11
<1>5. QED
  BY <1>0, <1>2, <1>3, <1>4 DEF read_file

LEMMA TakenIn ==
  ASSUME ChannelTyped, NEW p \in Objects, NEW r, Outcome(p, r), Took(p, r)
  PROVE  /\ file' \in [Objects -> Files] /\ file'[p] = r.file /\ \A q \in Objects : q # p => file'[q] = file[q]
         /\ \A q \in Objects : file'[q].pos <= file'[q].len
         /\ failures' \in Nat /\ failures' = failures + r.failed
<1>1. file \in [Objects -> Files] /\ failures \in Nat /\ \A q \in Objects : file[q].pos <= file[q].len
  BY DEF ChannelTyped
<1>2. r.file \in Files /\ r.failed \in Nat /\ r.file.pos <= r.file.len
  BY DEF Outcome
<1>3. file' = [file EXCEPT ![p] = r.file] /\ failures' = failures + r.failed
  BY DEF Took
<1>4. QED
  BY <1>1, <1>2, <1>3

LEMMA ModeKeeps ==
  ASSUME ChannelInv, NEW mode \in {"PROTOCOL", "JSON"}, sio_set_channel_mode(mode)
  PROVE  ChannelInv'
<1>1. polite' \in BOOLEAN /\ (polite' => polite /\ channelMode' = "PROTOCOL")
  BY DEF sio_set_channel_mode
<1>2. UNCHANGED <<protocol, made, live, json, file, forceStatus, document, json_bytes_remaining, rx, status, failures,
                  run, open, rash, got, fresh>>
  BY DEF sio_set_channel_mode, objects, history
<1>3. ChannelTyped' /\ Unmade' /\ FreshOpen' /\ OpenOwns' /\ ClosedEmpty' /\ Untouched'
  BY <1>1, <1>2 DEF ChannelInv, ChannelTyped, Unmade, FreshOpen, OpenOwns, ClosedEmpty, Untouched
<1>4. InOrder'
  BY <1>1, <1>2 DEF ChannelInv, InOrder
<1>5. ParsedWhole' /\ ParserHasProtocol'
  BY <1>2 DEF ChannelInv, ParsedWhole, ParserHasProtocol, Whole
<1>6. QED
  BY <1>3, <1>4, <1>5 DEF ChannelInv

LEMMA ParametersKeep ==
  ASSUME ChannelInv, sio_set_json_parameters
  PROVE  ChannelInv'
<1>1. /\ json = None /\ rash' = (rash \/ ~ open)
      /\ UNCHANGED <<protocol, made, live, json, file, forceStatus, document, json_bytes_remaining, channelMode, rx,
                     status, failures, open, got, polite, fresh>>
  BY DEF sio_set_json_parameters, objects, reader
<1>2. open \in BOOLEAN /\ rash \in BOOLEAN /\ rash' \in BOOLEAN
  BY <1>1 DEF ChannelInv, ChannelTyped
<1>3. rash'
  BY <1>1, <1>2, ChannelSizes DEF ChannelInv, OpenOwns
<1>4. ChannelTyped' /\ Unmade' /\ FreshOpen'
  BY <1>1, <1>2 DEF ChannelInv, ChannelTyped, Unmade, FreshOpen
<1>5. OpenOwns' /\ ClosedEmpty' /\ Untouched' /\ InOrder' /\ ParsedWhole' /\ ParserHasProtocol'
  BY <1>3 DEF OpenOwns, ClosedEmpty, Untouched, InOrder, ParsedWhole, ParserHasProtocol
<1>6. QED
  BY <1>4, <1>5 DEF ChannelInv

LEMMA QueryKeeps ==
  ASSUME ChannelInv, sio_set_json_query
  PROVE  ChannelInv'
<1>1. /\ channelMode = "JSON" /\ rash' = (rash \/ ~ open)
      /\ UNCHANGED <<protocol, made, live, json, file, forceStatus, document, channelMode,
                     status, failures, open, got, polite, fresh>>
  BY DEF sio_set_json_query, objects, reader
<1>2. open \in BOOLEAN /\ rash \in BOOLEAN /\ rash' \in BOOLEAN
  BY <1>1 DEF ChannelInv, ChannelTyped
<1>3. rx' \in Seq(Places) /\ json_bytes_remaining' \in Nat /\ (document = <<>> => rx' = rx)
  <2>1. rx \in Seq(Places) /\ json_bytes_remaining \in Nat /\ JsonByte \in Places
    BY ChannelSizes DEF ChannelInv, ChannelTyped
  <2>2. Append(rx, JsonByte) \in Seq(Places)
    BY <2>1
  <2>3. CASE json = None
    BY <2>1, <2>3 DEF sio_set_json_query
  <2>4. CASE json # None
    <3>1. PICK found \in BOOLEAN : /\ found => document # <<>>
                                   /\ rx' = IF found THEN Append(rx, JsonByte) ELSE rx
                                   /\ json_bytes_remaining' = IF found THEN 1 ELSE 0
      BY <2>4 DEF sio_set_json_query
    <3>2. QED
      BY <2>1, <2>2, <3>1
  <2>5. QED
    BY <2>3, <2>4
<1>4. ChannelTyped' /\ Unmade' /\ FreshOpen'
  BY <1>1, <1>2, <1>3 DEF ChannelInv, ChannelTyped, Unmade, FreshOpen
<1>5. CASE rash'
  <2>1. OpenOwns' /\ ClosedEmpty' /\ Untouched' /\ InOrder' /\ ParsedWhole' /\ ParserHasProtocol'
    BY <1>5 DEF OpenOwns, ClosedEmpty, Untouched, InOrder, ParsedWhole, ParserHasProtocol
  <2>2. QED
    BY <1>4, <2>1 DEF ChannelInv
<1>6. CASE ~ rash'
  <2>1. ~ rash /\ open
    BY <1>1, <1>2, <1>6
  <2>2. json \in Objects
    BY <2>1 DEF ChannelInv, OpenOwns
  <2>3. json # None /\ run' = run
    BY <2>2, ChannelSizes DEF sio_set_json_query
  <2>4. OpenOwns' /\ ClosedEmpty'
    BY <1>1, <2>1 DEF ChannelInv, OpenOwns, ClosedEmpty
  <2>5. Untouched'
    BY <1>1, <1>3, <2>1 DEF ChannelInv, Untouched
  <2>6. InOrder'
    BY <1>1, <2>1 DEF ChannelInv, InOrder
  <2>7. ParsedWhole' /\ ParserHasProtocol'
    BY <1>1, <2>1, <2>3 DEF ChannelInv, ParsedWhole, ParserHasProtocol, Whole
  <2>8. QED
    BY <1>4, <2>4, <2>5, <2>6, <2>7 DEF ChannelInv
<1>7. QED
  BY <1>5, <1>6

LEMMA CommandKeeps ==
  ASSUME ChannelInv, NEW url \in {"valid", "scheme", "invalid"}, sio_do_idempotent_command_80(url)
  PROVE  ChannelInv'
<1>1. /\ rash' = (rash \/ open)
      /\ UNCHANGED <<json, forceStatus, document, json_bytes_remaining, channelMode, rx, status, failures,
                     run, open, got, polite, fresh>>
  BY DEF sio_do_idempotent_command_80, reader
<1>2. /\ open \in BOOLEAN /\ rash \in BOOLEAN /\ rash' \in BOOLEAN /\ made \in Nat /\ made <= MaxObjects
      /\ protocol \in Objects \cup {None} /\ live \subseteq Objects /\ file \in [Objects -> Files]
      /\ \A p \in Objects : file[p] \in Files /\ file[p].pos <= file[p].len
  BY <1>1, ChannelSizes DEF ChannelInv, ChannelTyped
<1>3. /\ protocol' \in Objects \cup {None} /\ made' \in 0 .. MaxObjects
      /\ file' \in [Objects -> Files] /\ \A p \in Objects : file'[p].pos <= file'[p].len
      /\ \A p \in Objects : p > made' => ~ file'[p].there /\ file'[p].fileSize <= 0
      /\ (~ open /\ ~ rash) => (protocol' # None => ~ file'[protocol'].there /\ file'[protocol'].fileSize <= 0)
      /\ live' \subseteq Objects
  <2>1. CASE url = "valid"
    <3>1. made < MaxObjects /\ made' = made + 1 /\ protocol' = made + 1 /\ file' = file /\ live' = live \cup {made + 1}
      BY <2>1 DEF sio_do_idempotent_command_80
    <3>2. made + 1 \in Objects /\ made + 1 > made
      BY <1>2, <3>1, ChannelSizes DEF Objects
    <3>4. ~ file'[protocol'].there /\ file'[protocol'].fileSize <= 0
      BY <3>1, <3>2 DEF ChannelInv, Unmade
    <3>5. \A p \in Objects : p > made + 1 => p > made
      BY <1>2, ChannelSizes
    <3>6. QED
      BY <1>2, <3>1, <3>2, <3>4, <3>5, ChannelSizes DEF ChannelInv, Unmade
  <2>2. CASE url = "scheme"
    <3>1. made' = made /\ protocol' = None /\ file' = file /\ live' = live
      BY <2>2 DEF sio_do_idempotent_command_80
    <3>2. QED
      BY <1>2, <3>1, ChannelSizes DEF ChannelInv, Unmade
  <2>3. CASE url = "invalid"
    <3>1. /\ made' = made /\ protocol' = protocol /\ live' = live
          /\ file' = [p \in Objects |-> IF p = protocol THEN [file[p] EXCEPT !.there = FALSE] ELSE file[p]]
      BY <2>3 DEF sio_do_idempotent_command_80
    <3>2. ASSUME NEW p \in Objects
          PROVE  /\ file'[p] \in Files /\ file'[p].pos <= file'[p].len
                 /\ p > made => ~ file'[p].there /\ file'[p].fileSize <= 0
                 /\ p # protocol => file'[p] = file[p]
                 /\ p = protocol => ~ file'[p].there /\ file'[p].fileSize = file[p].fileSize
      <4>1. PICK g : g = [file[p] EXCEPT !.there = FALSE]
        OBVIOUS
      <4>2. g \in Files /\ g.pos = file[p].pos /\ g.len = file[p].len /\ g.fileSize = file[p].fileSize /\ ~ g.there
        BY <1>2, <4>1 DEF Files
      <4>3. file'[p] = IF p = protocol THEN g ELSE file[p]
        BY <3>1, <4>1
      <4>4. QED
        BY <1>2, <4>2, <4>3 DEF ChannelInv, Unmade
    <3>3. file' \in [Objects -> Files]
      BY <3>1, <3>2
    <3>4. (~ open /\ ~ rash) => (protocol' # None => ~ file'[protocol'].there /\ file'[protocol'].fileSize <= 0)
      <4>1. SUFFICES ASSUME ~ open, ~ rash, protocol # None
                     PROVE  ~ file'[protocol].there /\ file'[protocol].fileSize <= 0
        BY <3>1
      <4>2. protocol \in Objects /\ file[protocol].fileSize <= 0
        BY <1>2, <4>1 DEF ChannelInv, ClosedEmpty
      <4>3. QED
        BY <3>2, <4>2
    <3>5. made' \in 0 .. MaxObjects /\ protocol' \in Objects \cup {None} /\ live' \subseteq Objects
      BY <1>2, <3>1, ChannelSizes
    <3>6. QED
      BY <3>1, <3>2, <3>3, <3>4, <3>5
  <2>4. QED
    BY <2>1, <2>2, <2>3
<1>4. ChannelTyped' /\ Unmade' /\ FreshOpen'
  BY <1>1, <1>2, <1>3 DEF ChannelInv, ChannelTyped, Unmade, FreshOpen
<1>5. CASE rash'
  <2>1. OpenOwns' /\ ClosedEmpty' /\ Untouched' /\ InOrder' /\ ParsedWhole' /\ ParserHasProtocol'
    BY <1>5 DEF OpenOwns, ClosedEmpty, Untouched, InOrder, ParsedWhole, ParserHasProtocol
  <2>2. QED
    BY <1>4, <2>1 DEF ChannelInv
<1>6. CASE ~ rash'
  <2>1. ~ rash /\ ~ open /\ ~ open'
    BY <1>1, <1>2, <1>6
  <2>2. fresh' = "no"
    BY <1>1, <2>1 DEF ChannelInv, FreshOpen
  <2>3. OpenOwns' /\ Untouched' /\ InOrder' /\ ParsedWhole'
    BY <2>1, <2>2 DEF OpenOwns, Untouched, InOrder, ParsedWhole
  <2>4. ClosedEmpty'
    BY <1>1, <1>3, <2>1 DEF ChannelInv, ClosedEmpty
  <2>5. ParserHasProtocol'
    <3>1. run = "idle" /\ run' = run
      BY <1>1 DEF sio_do_idempotent_command_80, Alive
    <3>2. QED
      BY <3>1 DEF ParserHasProtocol
  <2>6. QED
    BY <1>4, <2>3, <2>4, <2>5 DEF ChannelInv
<1>7. QED
  BY <1>5, <1>6

LEMMA BufferEmptied ==
  ASSUME ChannelInv, CloseOld
  PROVE  rx' \in Seq(Places) /\ (~ rash => rx' = <<>>)
<1>1. rx \in Seq(Places) /\ <<>> \in Seq(Places) /\ open \in BOOLEAN
  BY DEF ChannelInv, ChannelTyped
<1>2. CASE protocol # None
  BY <1>1, <1>2 DEF CloseOld
<1>3. CASE protocol = None
  <2>1. rx' = rx
    BY <1>3 DEF CloseOld
  <2>2. ~ rash => ~ open
    BY <1>3, ChannelSizes DEF ChannelInv, OpenOwns
  <2>3. QED
    BY <1>1, <2>1, <2>2 DEF ChannelInv, ClosedEmpty
<1>4. QED
  BY <1>2, <1>3

LEMMA Remains ==
  ASSUME ChannelInv, NEW g, g = Remaining(file, Unopened), NEW s, s = Remaining(forceStatus, FALSE)
  PROVE  /\ g \in [Objects -> Files] /\ s \in [Objects -> BOOLEAN]
         /\ \A p \in Objects : g[p].pos <= g[p].len
         /\ \A p \in Objects : p > made => ~ g[p].there /\ g[p].fileSize <= 0
<1>1. /\ file \in [Objects -> Files] /\ \A p \in Objects : file[p].pos <= file[p].len
      /\ forceStatus \in [Objects -> BOOLEAN]
      /\ \A p \in Objects : p > made => ~ file[p].there /\ file[p].fileSize <= 0
  BY DEF ChannelInv, ChannelTyped, Unmade
<1>2. \A p \in Objects : g[p] = IF p = protocol THEN Unopened ELSE file[p]
  BY DEF Remaining
<1>3. g \in [Objects -> Files]
  BY <1>1, FileFields DEF Remaining
<1>4. s \in [Objects -> BOOLEAN]
  <2>1. \A p \in Objects : (IF p = protocol THEN FALSE ELSE forceStatus[p]) \in BOOLEAN
    BY <1>1, Zenon
  <2>2. QED
    BY <2>1, Zenon DEF Remaining
<1>5. /\ \A p \in Objects : g[p].pos <= g[p].len
      /\ \A p \in Objects : p > made => ~ g[p].there /\ g[p].fileSize <= 0
  BY <1>1, <1>2, FileFields
<1>6. QED
  BY <1>3, <1>4, <1>5, Zenon

\* A step that leaves the channel closed and keeps what the parser died of.
LEMMA ShutKeeps ==
  ASSUME ChannelInv, run = "idle", rx' \in Seq(Places), ~ rash => rx' = <<>>, made' \in 0 .. MaxObjects, made' >= made,
         live' \subseteq live, protocol' = None, json' \in {json, None}, document' \in {document, <<>>}, status' = Reset,
         file' = Remaining(file, Unopened), forceStatus' = Remaining(forceStatus, FALSE),
         open' = FALSE, got' = <<>>, polite' = TRUE, fresh' = "no",
         UNCHANGED <<json_bytes_remaining, failures, run, rash>>
  PROVE  ChannelInv'
<1>1. ChannelTyped'
  <2>1. status' \in [waiting : Nat, eof : BOOLEAN]
    BY DEF Reset
  <2>2. /\ file' \in [Objects -> Files] /\ forceStatus' \in [Objects -> BOOLEAN]
        /\ \A p \in Objects : file'[p].pos <= file'[p].len
    BY Remains
  <2>3. /\ json' \in Objects \cup {None} /\ protocol' \in Objects \cup {None} /\ document' \in Seq(Places)
        /\ got' \in Seq(Places) /\ json_bytes_remaining' \in Nat /\ failures' \in Nat
    <3>1. <<>> \in Seq(Places)
      OBVIOUS
    <3>2. json' \in Objects \cup {None} /\ protocol' \in Objects \cup {None}
      BY Zenon DEF ChannelInv, ChannelTyped
    <3>3. document' \in Seq(Places)
      BY <3>1, Zenon DEF ChannelInv, ChannelTyped
    <3>4. got' \in Seq(Places) /\ json_bytes_remaining' \in Nat /\ failures' \in Nat
      BY <3>1, Zenon DEF ChannelInv, ChannelTyped
    <3>5. QED
      BY <3>2, <3>3, <3>4
  <2>4. open' \in BOOLEAN /\ rash' \in BOOLEAN /\ polite' \in BOOLEAN
    BY Zenon DEF ChannelInv, ChannelTyped
  <2>5. QED
    BY <2>1, <2>2, <2>3, <2>4 DEF ChannelInv, ChannelTyped
<1>2. Unmade'
  <2>1. made \in Nat /\ made' \in Nat
    BY ChannelSizes DEF ChannelInv, ChannelTyped
  <2>2. \A p \in Objects : p > made' => p > made
    BY <2>1, ChannelSizes
  <2>3. QED
    BY <2>2, Remains DEF Unmade
<1>3. FreshOpen' /\ OpenOwns' /\ ClosedEmpty' /\ Untouched' /\ InOrder' /\ ParsedWhole'
  BY DEF FreshOpen, OpenOwns, ClosedEmpty, Untouched, InOrder, ParsedWhole
<1>4. ParserHasProtocol'
  BY DEF ChannelInv, ParserHasProtocol
<1>5. QED
  BY <1>1, <1>2, <1>3, <1>4 DEF ChannelInv

LEMMA CloseKeeps ==
  ASSUME ChannelInv, sio_close
  PROVE  ChannelInv'
<1>1. rx' \in Seq(Places) /\ (~ rash => rx' = <<>>)
  BY BufferEmptied DEF sio_close
<1>2. made' = made /\ made' \in 0 .. MaxObjects /\ made' >= made
  BY ChannelSizes DEF sio_close, ChannelInv, ChannelTyped
<1>3. live' \subseteq live /\ json' \in {json, None} /\ document' \in {document, <<>>}
  BY DEF sio_close
<1>4. QED
  BY <1>1, <1>2, <1>3, ShutKeeps DEF sio_close, Alive

LEMMA OpenFailsKeeps ==
  ASSUME ChannelInv, NEW instantiated \in BOOLEAN, OpenFails(instantiated)
  PROVE  ChannelInv'
<1>0. made \in 0 .. MaxObjects /\ MaxObjects \in Nat /\ <<>> \in Seq(Places)
  BY ChannelSizes DEF ChannelInv, ChannelTyped
<1>1. rx' \in Seq(Places) /\ (~ rash => rx' = <<>>)
  BY <1>0, BufferEmptied DEF OpenFails
<1>2. made' \in 0 .. MaxObjects /\ made' >= made
  BY <1>0 DEF OpenFails
<1>3. live' \subseteq live /\ json' \in {json, None} /\ document' \in {document, <<>>}
  BY DEF OpenFails
<1>4. QED
  BY <1>1, <1>2, <1>3, ShutKeeps DEF OpenFails, Alive

LEMMA OpenKeeps ==
  ASSUME ChannelInv, NEW len \in 0 .. MaxLen, sio_open(len)
  PROVE  ChannelInv'
<1>0. made \in Nat /\ made < MaxObjects /\ MaxObjects \in Nat /\ len \in Nat /\ <<>> \in Seq(Places)
  BY ChannelSizes DEF ChannelInv, ChannelTyped, sio_open
<1>1. PICK m : m = made + 1
  OBVIOUS
<1>2. m \in Objects /\ m \in 0 .. MaxObjects /\ m \in Nat
  BY <1>0, <1>1 DEF Objects
<1>3. PICK h : h = [len |-> len, pos |-> 0, fileSize |-> len, there |-> TRUE, torn |-> FALSE]
  OBVIOUS
<1>4. h \in Files /\ h.pos = 0 /\ h.len = len /\ h.fileSize = len /\ h.there /\ ~ h.torn
  BY <1>0, <1>3 DEF Files
<1>5. PICK g, s : g = Remaining(file, Unopened) /\ s = Remaining(forceStatus, FALSE)
  OBVIOUS
<1>6. /\ g \in [Objects -> Files] /\ s \in [Objects -> BOOLEAN]
      /\ \A p \in Objects : g[p].pos <= g[p].len
      /\ \A p \in Objects : p > made => ~ g[p].there /\ g[p].fileSize <= 0
  BY <1>5, Remains
<1>7. /\ made' = m /\ protocol' = m /\ json' = m /\ document' = <<>> /\ live' = (live \ {protocol}) \cup {m}
      /\ channelMode' = "PROTOCOL" /\ status' = Reset
      /\ open' = TRUE /\ got' = <<>> /\ polite' = TRUE /\ fresh' = "opened"
      /\ UNCHANGED <<json_bytes_remaining, failures, run, rash>>
  BY <1>1 DEF sio_open, json_of_channel
<1>8. file' = [g EXCEPT ![m] = h] /\ forceStatus' = [s EXCEPT ![m] = TRUE]
  BY <1>1, <1>3, <1>5, <1>7 DEF sio_open
<1>9. /\ file' \in [Objects -> Files] /\ file'[m] = h /\ \A p \in Objects : p # m => file'[p] = g[p]
  BY <1>2, <1>4, <1>6, <1>8
<1>10. forceStatus' \in [Objects -> BOOLEAN] /\ forceStatus'[m] = TRUE
  BY <1>2, <1>6, <1>8, Zenon
<1>11. rx' \in Seq(Places) /\ (~ rash => rx' = <<>>)
  BY BufferEmptied DEF sio_open
<1>12. status' \in [waiting : Nat, eof : BOOLEAN] /\ status'.waiting = 0 /\ ~ status'.eof
  BY <1>7 DEF Reset
<1>13. ChannelTyped'
  <2>1. protocol' \in Objects \cup {None} /\ json' \in Objects \cup {None} /\ made' \in 0 .. MaxObjects /\ live' \subseteq Objects
    BY <1>2, <1>7 DEF ChannelInv, ChannelTyped
  <2>2. \A p \in Objects : file'[p].pos <= file'[p].len
    BY <1>0, <1>4, <1>6, <1>9
  <2>3. document' \in Seq(Places) /\ got' \in Seq(Places) /\ json_bytes_remaining' \in Nat /\ failures' \in Nat
    BY <1>0, <1>7, Zenon DEF ChannelInv, ChannelTyped
  <2>4. open' \in BOOLEAN /\ rash' \in BOOLEAN /\ polite' \in BOOLEAN
    BY <1>7, Zenon DEF ChannelInv, ChannelTyped
  <2>5. QED
    BY <1>9, <1>10, <1>11, <1>12, <2>1, <2>2, <2>3, <2>4 DEF ChannelTyped
<1>14. Unmade' /\ FreshOpen'
  <2>1. \A p \in Objects : p > m => p > made /\ p # m
    BY <1>0, <1>1, ChannelSizes
  <2>2. QED
    BY <1>6, <1>7, <1>9, <2>1 DEF Unmade, FreshOpen
<1>15. OpenOwns'
  BY <1>0, <1>2, <1>4, <1>7, <1>9 DEF OpenOwns
<1>16. ClosedEmpty' /\ ParsedWhole'
  BY <1>7 DEF ClosedEmpty, ParsedWhole
<1>17. Untouched'
  <2>1. file'[protocol'].pos = 0 /\ file'[protocol'].fileSize = file'[protocol'].len
    BY <1>4, <1>7, <1>9
  <2>2. forceStatus'[protocol']
    BY <1>7, <1>10, Zenon
  <2>3. QED
    BY <1>7, <1>11, <2>1, <2>2 DEF Untouched
<1>18. InOrder'
  <2>1. SUFFICES ASSUME ~ rash' PROVE InOrder'
    BY DEF InOrder
  <2>2. rx' = <<>> /\ Len(rx') = 0 /\ Len(got') = 0 /\ channelMode' = "PROTOCOL"
    BY <1>7, <1>11, <2>1
  <2>3. file'[protocol'].pos = 0 /\ file'[protocol'].fileSize = len /\ file'[protocol'].len = len
    BY <1>4, <1>7, <1>9
  <2>4. QED
    BY <1>0, <1>12, <2>2, <2>3 DEF InOrder
<1>19. ParserHasProtocol'
  BY <1>7 DEF ParserHasProtocol, sio_open, Alive
<1>20. QED
  BY <1>13, <1>14, <1>15, <1>16, <1>17, <1>18, <1>19 DEF ChannelInv

LEMMA FetchComes ==
  ASSUME ChannelTyped, NEW p \in Objects, NEW r \in Fetch(p)
  PROVE  /\ Outcome(p, r)
         /\ \/ r.rx = rx /\ r.file = file[p] /\ r.failed = 0 /\ ~ (rx = <<>> /\ file[p].fileSize > 0)
            \/ /\ rx = <<>> /\ file[p].fileSize > 0
               /\ \E n \in Nat : /\ n <= file[p].fileSize
                                 /\ TurnedDown(p, r) \/ Brought(p, n, r) \/ Broken(p, r)
<1>1. file[p] \in Files /\ file[p].fileSize \in Int /\ file[p].pos <= file[p].len /\ rx \in Seq(Places)
  BY FileFields DEF ChannelTyped
<1>2. CASE rx = <<>> /\ file[p].fileSize > 0
  <2>1. PICK n : n = Least(file[p].fileSize, Block)
    OBVIOUS
  <2>2. n \in Nat /\ n <= file[p].fileSize
    BY <1>1, <1>2, <2>1, ChannelSizes, LeastIs
  <2>3. r \in read_file(p, n)
    BY <1>2, <2>1 DEF Fetch
  <2>4. QED
    BY <1>2, <2>2, <2>3, ReadFile
<1>3. CASE ~ (rx = <<>> /\ file[p].fileSize > 0)
  <2>1. r = [rx |-> rx, file |-> file[p], failed |-> 0]
    BY <1>3 DEF Fetch
  <2>2. QED
    BY <1>1, <1>3, <2>1 DEF Outcome
<1>4. QED
  BY <1>2, <1>3

\* The bytes that are read and buffered are those up to the file's position.
Streamed(g, b) ==
  /\ channelMode = "PROTOCOL"
  /\ g.fileSize = g.len - g.pos
  /\ Len(got) + Len(b) = g.pos
  /\ \A i \in 1 .. Len(got) : got[i] = <<protocol, i>>
  /\ \A i \in 1 .. Len(b) : b[i] = <<protocol, Len(got) + i>>

LEMMA FetchStreams ==
  ASSUME ChannelInv, NEW r \in Fetch(protocol), open, polite, ~ rash, ~ r.file.torn
  PROVE  /\ protocol \in Objects /\ ~ file[protocol].torn /\ Streamed(r.file, r.rx)
         /\ rx = <<>> \/ r.rx = rx
         /\ file[protocol].fileSize <= 0 => r.rx = rx /\ r.file = file[protocol]
<1>1. protocol \in Objects /\ ChannelTyped
  BY DEF ChannelInv, OpenOwns
<1>2. Outcome(protocol, r) /\ ~ file[protocol].torn
  BY <1>1, FetchComes DEF Outcome
<1>3. PICK f \in Files : f = file[protocol]
  BY <1>1 DEF ChannelTyped
<1>4. f.len \in Nat /\ f.pos \in Nat /\ f.fileSize \in Int /\ f.pos <= f.len
  BY <1>1, <1>3, FileFields DEF ChannelTyped
<1>5. Streamed(f, rx)
  BY <1>2, <1>3 DEF ChannelInv, InOrder, Streamed
<1>6. CASE r.rx = rx /\ r.file = f
  BY <1>1, <1>2, <1>3, <1>5, <1>6
<1>7. CASE rx = <<>> /\ f.fileSize > 0 /\ TurnedDown(protocol, r)
  BY <1>1, <1>2, <1>3, <1>5, <1>7 DEF TurnedDown
<1>8. CASE rx = <<>> /\ f.fileSize > 0 /\ \E n \in Nat : n <= f.fileSize /\ Brought(protocol, n, r)
  <2>1. PICK n \in Nat : n <= f.fileSize /\ Brought(protocol, n, r)
    BY <1>8
  <2>2. r.rx = Bytes(protocol, n) /\ r.file.pos = Least(f.pos + n, f.len) /\ r.file.fileSize = f.fileSize - n /\ r.file.len = f.len
    BY <1>2, <1>3, <2>1 DEF Brought, Outcome
  <2>3. f.fileSize = f.len - f.pos /\ Len(got) = f.pos /\ Len(got) \in Nat
    BY <1>4, <1>5, <1>8 DEF Streamed, ChannelInv, ChannelTyped
  <2>4. r.file.pos = f.pos + n /\ f.pos + n <= f.len
    BY <1>4, <2>1, <2>2, <2>3 DEF Least
  <2>5. Len(r.rx) = n /\ \A i \in 1 .. n : f.pos + i <= f.len => r.rx[i] = <<protocol, f.pos + i>>
    BY <1>1, <1>3, <2>2, BytesRead
  <2>6. \A i \in 1 .. n : f.pos + i <= f.len
    BY <1>4, <2>4
  <2>7. \A i \in 1 .. Len(r.rx) : r.rx[i] = <<protocol, Len(got) + i>>
    BY <2>3, <2>5, <2>6
  <2>8. r.file.fileSize = r.file.len - r.file.pos /\ Len(got) + Len(r.rx) = r.file.pos
    BY <1>4, <2>2, <2>3, <2>4, <2>5
  <2>9. Streamed(r.file, r.rx)
    BY <1>5, <2>7, <2>8 DEF Streamed
  <2>10. QED
    BY <1>1, <1>2, <1>3, <1>4, <1>8, <2>9
<1>9. CASE rx = <<>> /\ f.fileSize > 0 /\ Broken(protocol, r)
  <2>1. r.rx = rx /\ r.file.pos = f.pos /\ r.file.fileSize = f.fileSize /\ r.file.len = f.len
    BY <1>2, <1>3, <1>9 DEF Broken, Outcome
  <2>2. Streamed(r.file, r.rx)
    BY <1>5, <2>1 DEF Streamed
  <2>3. QED
    BY <1>1, <1>2, <1>3, <1>4, <1>9, <2>1, <2>2
<1>10. QED
  BY <1>1, <1>3, <1>6, <1>7, <1>8, <1>9, FetchComes

\* What the device finds after it asked the protocol for bytes: what is buffered, or what
\* a read brought.
Found(p, r) ==
  /\ Outcome(p, r)
  /\ \/ r.rx = rx /\ r.file = file[p] /\ r.failed = 0
     \/ rx = <<>> /\ \E n \in Nat : TurnedDown(p, r) \/ Brought(p, n, r) \/ Broken(p, r)

LEMMA FoundKeeps ==
  ASSUME ChannelInv, run \in {"idle", "parsing"}, protocol # None, NEW r, Found(protocol, r), Took(protocol, r),
         UNCHANGED <<protocol, made, live, json, run, open, rash>>
  PROVE  /\ file' \in [Objects -> Files] /\ file'[protocol] = r.file
         /\ \A q \in Objects : file'[q].pos <= file'[q].len /\ file'[q].len = file[q].len
         /\ failures' \in Nat /\ r.rx \in Seq(Places)
         /\ Unmade' /\ OpenOwns' /\ ParserHasProtocol'
         /\ (~ open /\ ~ rash) => r.rx = <<>> /\ r.file = file[protocol]
<1>1. protocol \in Objects /\ ChannelTyped
  BY DEF ChannelInv, ChannelTyped
<1>2. Outcome(protocol, r) /\ r.failed \in Nat /\ r.rx \in Seq(Places)
  BY DEF Found, Outcome
<1>3. /\ file' \in [Objects -> Files] /\ file'[protocol] = r.file
      /\ \A q \in Objects : q # protocol => file'[q] = file[q]
      /\ \A q \in Objects : file'[q].pos <= file'[q].len
      /\ failures' \in Nat /\ failures' = failures + r.failed
  BY <1>1, <1>2, TakenIn
<1>4. \A q \in Objects : file'[q].len = file[q].len /\ file'[q].there = file[q].there
  BY <1>2, <1>3 DEF Outcome
<1>5. ~ file[protocol].there => r.file = file[protocol] /\ r.rx \in {rx, <<>>}
  BY DEF Found, TurnedDown, Brought, Broken
<1>6. Unmade'
  BY <1>3, <1>5 DEF ChannelInv, Unmade
<1>7. file[protocol].torn => r.file.torn
  BY <1>2 DEF Outcome
<1>8. OpenOwns'
  <2>1. SUFFICES ASSUME open, ~ rash
                 PROVE  /\ json = protocol /\ protocol \in live /\ file'[protocol].there
                        /\ ~ r.file.torn => file'[protocol].fileSize <= file'[protocol].len - file'[protocol].pos
    BY <1>1, <1>3 DEF OpenOwns
  <2>2. /\ json = protocol /\ protocol \in live /\ file[protocol].there
        /\ ~ file[protocol].torn => file[protocol].fileSize <= file[protocol].len - file[protocol].pos
    BY <2>1 DEF ChannelInv, OpenOwns
  <2>3. PICK f \in Files : f = file[protocol]
    BY <1>1 DEF ChannelTyped
  <2>4. f.len \in Nat /\ f.pos \in Nat /\ f.fileSize \in Int /\ f.pos <= f.len
    BY <1>1, <2>3, FileFields DEF ChannelTyped
  <2>5. ASSUME ~ r.file.torn PROVE r.file.fileSize <= r.file.len - r.file.pos
    <3>1. f.fileSize <= f.len - f.pos /\ r.file.len = f.len
      BY <1>2, <1>7, <2>2, <2>3, <2>5 DEF Outcome
    <3>2. CASE r.file = f
      BY <3>1, <3>2
    <3>3. CASE \E n \in Nat : Brought(protocol, n, r)
      <4>1. PICK n \in Nat : r.file.pos = Least(f.pos + n, f.len) /\ r.file.fileSize = f.fileSize - n
        BY <2>3, <3>3 DEF Brought
      <4>2. r.file.pos <= f.pos + n /\ r.file.pos \in Int
        BY <2>4, <4>1, LeastIs
      <4>3. QED
        BY <2>4, <3>1, <4>1, <4>2
    <3>4. CASE Broken(protocol, r)
      BY <2>3, <2>5, <3>1, <3>4 DEF Broken
    <3>5. QED
      BY <2>3, <3>2, <3>3, <3>4 DEF Found, TurnedDown
  <2>6. QED
    BY <1>1, <1>3, <1>4, <2>2, <2>5
<1>9. ParserHasProtocol'
  BY DEF ParserHasProtocol
<1>10. (~ open /\ ~ rash) => r.rx = <<>> /\ r.file = file[protocol]
  BY <1>5 DEF ChannelInv, ClosedEmpty
<1>11. QED
  BY <1>2, <1>3, <1>4, <1>6, <1>8, <1>9, <1>10

LEMMA FetchKeeps ==
  ASSUME ChannelInv, run = "idle", protocol # None, NEW r \in Fetch(protocol), Took(protocol, r), rx' = r.rx,
         UNCHANGED <<protocol, made, live, json, run, open, rash>>
  PROVE  /\ file' \in [Objects -> Files] /\ file'[protocol] = r.file
         /\ \A q \in Objects : file'[q].pos <= file'[q].len /\ file'[q].len = file[q].len
         /\ failures' \in Nat /\ rx' \in Seq(Places)
         /\ Unmade' /\ OpenOwns' /\ ClosedEmpty' /\ ParserHasProtocol'
<1>1. protocol \in Objects /\ ChannelTyped
  BY DEF ChannelInv, ChannelTyped
<1>2. Found(protocol, r)
  BY <1>1, FetchComes DEF Found
<1>3. /\ file' \in [Objects -> Files] /\ file'[protocol] = r.file
      /\ \A q \in Objects : file'[q].pos <= file'[q].len /\ file'[q].len = file[q].len
      /\ failures' \in Nat /\ r.rx \in Seq(Places)
      /\ Unmade' /\ OpenOwns' /\ ParserHasProtocol'
      /\ (~ open /\ ~ rash) => r.rx = <<>> /\ r.file = file[protocol]
  BY <1>2, FoundKeeps
<1>4. ClosedEmpty'
  BY <1>3 DEF ChannelInv, ClosedEmpty
<1>5. QED
  BY <1>3, <1>4

LEMMA PollKeeps ==
  ASSUME ChannelInv, sio_poll_interrupt
  PROVE  ChannelInv'
<1>1. PICK r \in Fetch(protocol) : Took(protocol, r) /\ rx' = r.rx
  BY DEF sio_poll_interrupt
<1>2. protocol # None /\ ~ forceStatus[protocol] /\ run = "idle"
  BY DEF sio_poll_interrupt, Alive
<1>3. UNCHANGED <<protocol, made, live, json, forceStatus, document, json_bytes_remaining, channelMode, status, run,
                  open, rash, got, polite, fresh>>
  BY DEF sio_poll_interrupt, objects, history, reader
<1>4. /\ file' \in [Objects -> Files] /\ file'[protocol] = r.file
      /\ \A q \in Objects : file'[q].pos <= file'[q].len /\ file'[q].len = file[q].len
      /\ failures' \in Nat /\ rx' \in Seq(Places)
      /\ Unmade' /\ OpenOwns' /\ ClosedEmpty' /\ ParserHasProtocol'
  BY <1>1, <1>2, <1>3, FetchKeeps
<1>5. ChannelTyped' /\ FreshOpen'
  BY <1>3, <1>4 DEF ChannelInv, ChannelTyped, FreshOpen
<1>6. Untouched'
  BY <1>2, <1>3 DEF ChannelInv, Untouched
<1>7. InOrder'
  <2>1. SUFFICES ASSUME open, polite, ~ rash, ~ r.file.torn
                 PROVE  /\ Streamed(r.file, r.rx) /\ status.waiting <= Len(r.rx)
                        /\ status.eof => r.file.pos = r.file.len /\ status.waiting = Len(r.rx)
    BY <1>1, <1>3, <1>4 DEF InOrder, Streamed
  <2>2. /\ protocol \in Objects /\ ~ file[protocol].torn /\ Streamed(r.file, r.rx)
        /\ rx = <<>> \/ r.rx = rx
        /\ file[protocol].fileSize <= 0 => r.rx = rx /\ r.file = file[protocol]
    BY <2>1, FetchStreams
  <2>3. /\ status.waiting <= Len(rx)
        /\ status.eof => file[protocol].pos = file[protocol].len /\ status.waiting = Len(rx)
        /\ file[protocol].fileSize = file[protocol].len - file[protocol].pos
    BY <2>1, <2>2 DEF ChannelInv, InOrder
  <2>4. /\ status.waiting \in Nat /\ Len(rx) \in Nat /\ Len(r.rx) \in Nat
        /\ file[protocol].pos \in Nat /\ file[protocol].len \in Nat
    BY <1>1, <1>4, <2>2, FileFields DEF ChannelInv, ChannelTyped
  <2>5. status.waiting <= Len(r.rx)
    BY <2>2, <2>3, <2>4
  <2>6. ASSUME status.eof PROVE r.file.pos = r.file.len /\ status.waiting = Len(r.rx)
    <3>1. file[protocol].fileSize <= 0
      BY <2>3, <2>4, <2>6
    <3>2. QED
      BY <2>2, <2>3, <2>6, <3>1
  <2>7. QED
    BY <2>2, <2>5, <2>6
<1>8. ParsedWhole'
  <2>1. SUFFICES ASSUME fresh = "parsed", ~ rash, ~ file'[json].torn PROVE document = Whole(json)'
    BY <1>3 DEF ParsedWhole
  <2>2. json \in Objects /\ json = protocol /\ ChannelTyped
    BY <2>1 DEF ChannelInv, FreshOpen, OpenOwns
  <2>3. document = Whole(json)
    <3>1. Outcome(protocol, r)
      BY <1>1, <2>2, FetchComes
    <3>2. ~ file[json].torn
      BY <1>4, <2>1, <2>2, <3>1 DEF Outcome
    <3>3. QED
      BY <2>1, <3>2 DEF ChannelInv, ParsedWhole
  <2>4. QED
    BY <1>3, <1>4, <2>2, <2>3 DEF Whole
<1>9. QED
  BY <1>4, <1>5, <1>6, <1>7, <1>8 DEF ChannelInv

LEMMA StatusKeeps ==
  ASSUME ChannelInv, sio_status
  PROVE  ChannelInv'
<1>1. protocol # None /\ protocol \in Objects /\ forceStatus \in [Objects -> BOOLEAN]
  BY DEF sio_status, ChannelInv, ChannelTyped
<1>2. fresh' = "no" /\ forceStatus' = [forceStatus EXCEPT ![protocol] = FALSE]
  BY DEF sio_status
<1>3. UNCHANGED <<protocol, made, live, json, document, json_bytes_remaining, channelMode, run, open, rash, got, polite>>
  BY DEF sio_status, objects, history
<1>4. forceStatus' \in [Objects -> BOOLEAN]
  BY <1>1, <1>2, Zenon
<1>5. FreshOpen' /\ Untouched' /\ ParsedWhole'
  BY <1>2 DEF FreshOpen, Untouched, ParsedWhole
<1>6. CASE channelMode = "JSON"
  <2>1. status' = [waiting |-> json_bytes_remaining, eof |-> json_bytes_remaining = 0] /\ UNCHANGED <<rx, file, failures>>
    BY <1>6 DEF sio_status
  <2>2. status' \in [waiting : Nat, eof : BOOLEAN]
    BY <2>1 DEF ChannelInv, ChannelTyped
  <2>3. ChannelTyped' /\ Unmade' /\ OpenOwns' /\ ClosedEmpty' /\ ParserHasProtocol'
    BY <1>3, <1>4, <2>1, <2>2
       DEF ChannelInv, ChannelTyped, Unmade, OpenOwns, ClosedEmpty, ParserHasProtocol
  <2>4. InOrder'
    BY <1>3, <1>6, <2>1 DEF ChannelInv, InOrder
  <2>5. QED
    BY <1>5, <2>3, <2>4 DEF ChannelInv
<1>7. CASE channelMode # "JSON"
  <2>1. PICK r \in Fetch(protocol) :
          /\ Took(protocol, r) /\ rx' = r.rx
          /\ status' = [waiting |-> Len(r.rx), eof |-> file[protocol].fileSize <= 0]
    BY <1>7 DEF sio_status
  <2>2. /\ file' \in [Objects -> Files] /\ file'[protocol] = r.file
        /\ \A q \in Objects : file'[q].pos <= file'[q].len /\ file'[q].len = file[q].len
        /\ failures' \in Nat /\ rx' \in Seq(Places)
        /\ Unmade' /\ OpenOwns' /\ ClosedEmpty' /\ ParserHasProtocol'
    BY <1>1, <1>3, <2>1, FetchKeeps DEF sio_status, Alive
  <2>3. Len(r.rx) \in Nat
    BY <2>1, <2>2
  <2>4. /\ status' \in [waiting : Nat, eof : BOOLEAN] /\ status'.waiting = Len(r.rx)
        /\ status'.eof => file[protocol].fileSize <= 0
    <3>1. PICK e \in BOOLEAN : e = (file[protocol].fileSize <= 0)
      <4>1. (file[protocol].fileSize <= 0) \in BOOLEAN
        OBVIOUS
      <4>2. QED
        BY <4>1, Zenon
    <3>2. status' = [waiting |-> Len(r.rx), eof |-> e]
      BY <2>1, <3>1
    <3>3. status' \in [waiting : Nat, eof : BOOLEAN] /\ status'.waiting = Len(r.rx) /\ status'.eof = e
      BY <2>3, <3>2
    <3>4. status'.eof => file[protocol].fileSize <= 0
      BY <3>1, <3>3, Zenon
    <3>5. QED
      BY <3>3, <3>4
  <2>5. ChannelTyped'
    BY <1>3, <1>4, <2>2, <2>4 DEF ChannelInv, ChannelTyped
  <2>6. InOrder'
    <3>1. SUFFICES ASSUME open, polite, ~ rash, ~ r.file.torn
                   PROVE  Streamed(r.file, r.rx) /\ (status'.eof => r.file.pos = r.file.len)
      BY <1>3, <2>1, <2>2, <2>3, <2>4 DEF InOrder, Streamed
    <3>2. /\ Streamed(r.file, r.rx) /\ ~ file[protocol].torn
          /\ file[protocol].fileSize <= 0 => r.rx = rx /\ r.file = file[protocol]
      BY <2>1, <3>1, FetchStreams
    <3>3. ASSUME status'.eof PROVE r.file.pos = r.file.len
      <4>1. r.file = file[protocol] /\ file[protocol].fileSize <= 0
        BY <2>4, <3>2, <3>3
      <4>2. file[protocol].fileSize = file[protocol].len - file[protocol].pos
        BY <3>1, <3>2 DEF ChannelInv, InOrder
      <4>3. file[protocol].pos \in Nat /\ file[protocol].len \in Nat /\ file[protocol].pos <= file[protocol].len
        BY <1>1, FileFields DEF ChannelInv, ChannelTyped
      <4>4. QED
        BY <4>1, <4>2, <4>3
    <3>4. QED
      BY <3>2, <3>3
  <2>7. QED
    BY <1>5, <2>2, <2>5, <2>6 DEF ChannelInv
<1>8. QED
  BY <1>6, <1>7

LEMMA ParseStarts ==
  ASSUME ChannelInv, sio_parse_json
  PROVE  ChannelInv'
<1>1. /\ rash' = (rash \/ ~ open) /\ run = "idle"
      /\ UNCHANGED <<protocol, made, live, json, file, forceStatus, json_bytes_remaining, channelMode, rx, status, failures, open, got>>
  BY DEF sio_parse_json, objects, Alive
<1>2. open \in BOOLEAN /\ rash \in BOOLEAN /\ rash' \in BOOLEAN
  BY <1>1 DEF ChannelInv, ChannelTyped
<1>3. ~ rash' => ~ rash /\ open
  BY <1>1, <1>2
<1>4. ~ rash' => json \in live
  BY <1>3 DEF ChannelInv, OpenOwns
<1>5. \/ json \notin live /\ UNCHANGED <<document, polite, fresh>>
      \/ /\ json \in live /\ run' = "parsing" /\ document' = <<>> /\ polite' = FALSE
         /\ fresh' = IF fresh = "opened" THEN "parsing" ELSE "no"
  BY DEF sio_parse_json
<1>6. document' \in Seq(Places) /\ polite' \in BOOLEAN
  <2>1. <<>> \in Seq(Places) /\ document \in Seq(Places) /\ polite \in BOOLEAN
    BY DEF ChannelInv, ChannelTyped
  <2>2. QED
    BY <1>5, <2>1, Zenon
<1>7. ChannelTyped' /\ Unmade' /\ FreshOpen'
  BY <1>1, <1>2, <1>5, <1>6 DEF ChannelInv, ChannelTyped, Unmade, FreshOpen
<1>8. OpenOwns' /\ ClosedEmpty'
  BY <1>1, <1>3 DEF ChannelInv, OpenOwns, ClosedEmpty
<1>9. Untouched' /\ InOrder' /\ ParsedWhole' /\ ParserHasProtocol'
  BY <1>4, <1>5 DEF Untouched, InOrder, ParsedWhole, ParserHasProtocol
<1>10. QED
  BY <1>7, <1>8, <1>9 DEF ChannelInv

\* Inside the loop the parser has its protocol, nothing else looks at the buffer, and what was
\* collected is the file up to its position.
InLoop ==
  run = "parsing" => json \in live /\ ~ polite /\ fresh \notin {"opened", "parsed"} /\ (~ rash => open)
Collected ==
  fresh = "parsing" =>
    /\ run # "idle"
    /\ (~ rash /\ ~ file[json].torn) =>
         /\ rx = <<>> /\ Len(document) = file[json].pos
         /\ file[json].fileSize = file[json].len - file[json].pos
         /\ \A i \in 1 .. Len(document) : document[i] = <<json, i>>
ParseInv == InLoop /\ Collected

\* The parser finds the protocol and nothing fetched.
LEMMA ParseStartsFresh ==
  ASSUME ChannelInv, ParseInv, sio_parse_json
  PROVE  ParseInv'
<1>1. /\ rash' = (rash \/ ~ open) /\ run = "idle"
      /\ UNCHANGED <<json, live, file, rx, open>>
  BY DEF sio_parse_json, objects, Alive
<1>2. open \in BOOLEAN /\ rash \in BOOLEAN
  BY <1>1 DEF ChannelInv, ChannelTyped
<1>3. ~ rash' => ~ rash /\ open
  BY <1>1, <1>2
<1>4. CASE json \notin live
  <2>1. UNCHANGED fresh /\ run' # "parsing"
    BY <1>4 DEF sio_parse_json
  <2>2. QED
    BY <1>1, <2>1 DEF ParseInv, InLoop, Collected
<1>5. CASE json \in live
  <2>1. /\ run' = "parsing" /\ document' = <<>> /\ polite' = FALSE
        /\ fresh' = IF fresh = "opened" THEN "parsing" ELSE "no"
    BY <1>5 DEF sio_parse_json
  <2>2. InLoop'
    BY <1>1, <1>3, <1>5, <2>1 DEF InLoop
  <2>3. ASSUME fresh' = "parsing", ~ rash'
        PROVE  rx = <<>> /\ file[json].pos = 0 /\ file[json].fileSize = file[json].len
    BY <1>3, <2>1, <2>3 DEF ChannelInv, Untouched, OpenOwns
  <2>4. json \in Objects /\ file[json].len \in Nat
    BY <1>5, FileFields DEF ChannelInv, ChannelTyped
  <2>5. Len(document') = 0
    BY <2>1
  <2>6. Collected'
    BY <1>1, <2>1, <2>3, <2>4, <2>5 DEF Collected
  <2>7. QED
    BY <2>2, <2>6 DEF ParseInv
<1>6. QED
  BY <1>4, <1>5

\* A block that is added to the bytes of file p collected so far.
LEMMA BlockAdded ==
  ASSUME NEW p, NEW d \in Seq(Places), NEW b \in Seq(Places), NEW c \in Nat,
         c = Len(d), \A i \in 1 .. c : d[i] = <<p, i>>,
         \A i \in 1 .. Len(b) : b[i] = <<p, c + i>>
  PROVE  /\ d \o b \in Seq(Places) /\ Len(d \o b) = c + Len(b)
         /\ \A i \in 1 .. Len(d \o b) : (d \o b)[i] = <<p, i>>
<1>1. PICK e : e = d \o b
  OBVIOUS
<1>2. PICK m \in Nat : m = Len(b)
  OBVIOUS
<1>3. e \in Seq(Places) /\ Len(e) = c + m /\ \A i \in 1 .. c + m : e[i] = IF i <= c THEN d[i] ELSE b[i - c]
  BY <1>1, <1>2
<1>4. ASSUME NEW i \in 1 .. c + m PROVE e[i] = <<p, i>>
  <2>1. CASE i <= c
    BY <1>3, <2>1
  <2>2. CASE i > c
    <3>1. i - c \in 1 .. m /\ c + (i - c) = i
      BY <2>2
    <3>2. e[i] = b[i - c]
      BY <1>3, <2>2
    <3>3. QED
      BY <1>2, <3>1, <3>2
  <2>3. QED
    BY <2>1, <2>2
<1>5. QED
  BY <1>1, <1>2, <1>3, <1>4

LEMMA BlockTyped ==
  ASSUME ChannelInv, NEW p \in Objects, NEW r \in Fetch(p), Took(p, r)
  PROVE  /\ Found(p, r) /\ r.rx \in Seq(Places)
         /\ file' \in [Objects -> Files] /\ file'[p] = r.file
         /\ \A q \in Objects : q # p => file'[q] = file[q]
         /\ \A q \in Objects : file'[q].pos <= file'[q].len /\ file'[q].len = file[q].len
         /\ failures' \in Nat
<1>1. ChannelTyped
  BY DEF ChannelInv
<1>2. Found(p, r)
  BY <1>1, FetchComes DEF Found
<1>3. Outcome(p, r) /\ r.failed \in Nat /\ r.rx \in Seq(Places)
  BY <1>2 DEF Found, Outcome
<1>4. /\ file' \in [Objects -> Files] /\ file'[p] = r.file
      /\ \A q \in Objects : q # p => file'[q] = file[q]
      /\ \A q \in Objects : file'[q].pos <= file'[q].len
      /\ failures' \in Nat
  BY <1>1, <1>3, TakenIn
<1>5. \A q \in Objects : file'[q].len = file[q].len
  BY <1>3, <1>4 DEF Outcome
<1>6. QED
  BY <1>2, <1>3, <1>4, <1>5

LEMMA BlockKeeps ==
  ASSUME ChannelInv, ParseInv, ParseBlock
  PROVE  ChannelInv' /\ ParseInv'
<1>1. /\ UNCHANGED <<protocol, made, live, json, forceStatus, json_bytes_remaining, channelMode, status, open, rash, got, polite, fresh>>
      /\ run = "parsing" /\ file[json].fileSize > 0
  BY DEF ParseBlock, objects, history, reader
<1>2. /\ json \in live /\ json \in Objects /\ polite = FALSE /\ fresh \notin {"opened", "parsed"} /\ (~ rash => open)
      /\ ~ rash => json = protocol /\ protocol # None
  BY <1>1, ChannelSizes DEF ParseInv, InLoop, ChannelInv, ChannelTyped, OpenOwns
<1>3. FreshOpen' /\ Untouched' /\ InOrder' /\ ParsedWhole' /\ ClosedEmpty'
  BY <1>1, <1>2 DEF ChannelInv, FreshOpen, Untouched, InOrder, ParsedWhole, ClosedEmpty
<1>4. CASE rx = <<>> /\ (~ file[json].there \/ file[json].pos = file[json].len)
  <2>1. run' = "endless" /\ UNCHANGED <<file, failures, document, rx>>
    BY <1>4 DEF ParseBlock
  <2>2. ChannelTyped' /\ Unmade' /\ OpenOwns'
    BY <1>1, <2>1 DEF ChannelInv, ChannelTyped, Unmade, OpenOwns
  <2>3. file[json].fileSize \in Int /\ file[json].pos \in Nat /\ file[json].len \in Nat
    BY <1>2, FileFields DEF ChannelInv, ChannelTyped
  <2>4. ~ rash => file[json].torn
    BY <1>1, <1>2, <1>4, <2>3 DEF ChannelInv, OpenOwns
  <2>5. ParserHasProtocol'
    BY <1>1, <2>1, <2>4 DEF ParserHasProtocol
  <2>6. ParseInv'
    BY <1>1, <2>1 DEF ParseInv, InLoop, Collected
  <2>7. QED
    BY <1>3, <2>2, <2>5, <2>6 DEF ChannelInv
<1>5. CASE ~ (rx = <<>> /\ (~ file[json].there \/ file[json].pos = file[json].len))
  <2>1. PICK r \in Fetch(json) : Took(json, r) /\ document' = document \o r.rx
    BY <1>5 DEF ParseBlock
  <2>2. rx' = <<>> /\ run' = run
    BY <1>5 DEF ParseBlock
  <2>3. /\ Found(json, r) /\ r.rx \in Seq(Places)
        /\ file' \in [Objects -> Files] /\ file'[json] = r.file
        /\ \A q \in Objects : q # json => file'[q] = file[q]
        /\ \A q \in Objects : file'[q].pos <= file'[q].len /\ file'[q].len = file[q].len
        /\ failures' \in Nat
    BY <1>2, <2>1, BlockTyped
  <2>4. document \in Seq(Places) /\ document' \in Seq(Places) /\ <<>> \in Seq(Places)
    BY <2>1, <2>3 DEF ChannelInv, ChannelTyped
  <2>5. ChannelTyped'
    BY <1>1, <2>2, <2>3, <2>4 DEF ChannelInv, ChannelTyped
  <2>6. Unmade'
    <3>1. ~ file[json].there => r.file = file[json]
      BY <2>3 DEF Found, TurnedDown, Brought, Broken
    <3>2. QED
      BY <1>1, <2>3, <3>1 DEF ChannelInv, Unmade
  <2>7. OpenOwns' /\ ParserHasProtocol'
    <3>1. CASE rash
      BY <1>1, <3>1 DEF OpenOwns, ParserHasProtocol
    <3>2. CASE ~ rash
      <4>1. Found(protocol, r) /\ Took(protocol, r)
        BY <1>2, <2>1, <2>3, <3>2
      <4>2. QED
        BY <1>1, <1>2, <2>2, <3>2, <4>1, FoundKeeps
    <3>3. QED
      BY <3>1, <3>2
  <2>8. InLoop'
    BY <1>1, <2>2 DEF ParseInv, InLoop
  <2>9. Collected'
    <3>1. SUFFICES ASSUME fresh = "parsing", ~ rash, ~ r.file.torn
                   PROVE  /\ Len(document') = r.file.pos
                          /\ r.file.fileSize = r.file.len - r.file.pos
                          /\ \A i \in 1 .. Len(document') : document'[i] = <<json, i>>
      BY <1>1, <2>2, <2>3 DEF Collected
    <3>2. ~ file[json].torn /\ r.file.len = file[json].len
      BY <2>3, <3>1 DEF Found, Outcome
    <3>3. /\ rx = <<>> /\ Len(document) = file[json].pos
          /\ file[json].fileSize = file[json].len - file[json].pos
          /\ \A i \in 1 .. Len(document) : document[i] = <<json, i>>
      BY <3>1, <3>2 DEF ParseInv, Collected
    <3>4. PICK f \in Files : f = file[json]
      BY <1>2 DEF ChannelInv, ChannelTyped
    <3>5. f.len \in Nat /\ f.pos \in Nat /\ f.fileSize \in Int
      BY <3>4, FileFields
    <3>6. PICK n \in Nat : n = Least(f.fileSize, Block) /\ n <= f.fileSize
      BY <1>1, <3>4, <3>5, ChannelSizes, LeastIs DEF Least
    <3>7. r \in read_file(json, n)
      BY <1>1, <2>1, <3>3, <3>4, <3>6 DEF Fetch
    <3>8. TurnedDown(json, r) \/ Brought(json, n, r) \/ Broken(json, r)
      BY <1>2, <3>7, ReadFile DEF ChannelInv
    <3>9. CASE Brought(json, n, r)
      <4>1. /\ r.rx = Bytes(json, n) /\ Len(r.rx) = n
            /\ \A i \in 1 .. n : f.pos + i <= f.len => r.rx[i] = <<json, f.pos + i>>
        BY <1>2, <3>4, <3>9, BytesRead DEF ChannelInv, Brought
      <4>2. r.file.pos = f.pos + n /\ r.file.fileSize = f.fileSize - n
        BY <3>3, <3>4, <3>5, <3>6, <3>9, LeastIs DEF Brought, Least
      <4>3. \A i \in 1 .. Len(r.rx) : r.rx[i] = <<json, f.pos + i>>
        BY <3>3, <3>4, <3>5, <3>6, <4>1
      <4>4. Len(document') = f.pos + n /\ \A i \in 1 .. Len(document') : document'[i] = <<json, i>>
        <5>1. PICK d \in Seq(Places), b \in Seq(Places), c \in Nat, p \in Objects :
                 d = document /\ b = r.rx /\ c = f.pos /\ p = json
          BY <1>2, <2>3, <2>4, <3>5
        <5>2. c = Len(d) /\ (\A i \in 1 .. c : d[i] = <<p, i>>) /\ \A i \in 1 .. Len(b) : b[i] = <<p, c + i>>
          BY <3>3, <3>4, <4>3, <5>1
        <5>3. Len(d \o b) = c + Len(b) /\ \A i \in 1 .. Len(d \o b) : (d \o b)[i] = <<p, i>>
          BY <5>2, BlockAdded
        <5>4. document' = d \o b /\ Len(b) = n
          BY <2>1, <4>1, <5>1
        <5>5. PICK e : e = document'
          OBVIOUS
        <5>6. e = d \o b /\ Len(e) = c + n /\ \A i \in 1 .. Len(e) : e[i] = <<p, i>>
          BY <5>3, <5>4, <5>5
        <5>7. QED
          BY <5>1, <5>5, <5>6
      <4>5. QED
        BY <3>2, <3>3, <3>4, <3>5, <4>2, <4>4
    <3>10. CASE Broken(json, r) \/ TurnedDown(json, r)
      <4>1. r.rx = <<>> /\ r.file.pos = f.pos /\ r.file.fileSize = f.fileSize
        BY <3>1, <3>4, <3>10 DEF Broken, TurnedDown
      <4>2. document' = document
        BY <2>1, <2>4, <4>1
      <4>3. QED
        BY <3>2, <3>3, <3>4, <4>1, <4>2
    <3>11. QED
      BY <3>8, <3>9, <3>10
  <2>10. QED
    BY <1>3, <2>5, <2>6, <2>7, <2>8, <2>9 DEF ChannelInv, ParseInv
<1>6. QED
  BY <1>4, <1>5

LEMMA EndKeeps ==
  ASSUME ChannelInv, ParseInv, ParseEnd
  PROVE  ChannelInv' /\ ParseInv'
<1>1. /\ UNCHANGED <<protocol, made, live, json, file, forceStatus, document, json_bytes_remaining, channelMode, rx, status,
                     failures, open, rash, got, polite>>
      /\ run = "parsing" /\ file[json].fileSize <= 0 /\ run' = "idle"
      /\ fresh' = IF fresh = "parsing" THEN "parsed" ELSE "no"
  BY DEF ParseEnd, objects, history
<1>2. json \in live /\ json \in Objects /\ polite = FALSE
  BY <1>1 DEF ParseInv, InLoop, ChannelInv, ChannelTyped
<1>3. ChannelTyped' /\ Unmade' /\ FreshOpen'
  BY <1>1 DEF ChannelInv, ChannelTyped, Unmade, FreshOpen
<1>4. OpenOwns' /\ ClosedEmpty'
  BY <1>1 DEF ChannelInv, OpenOwns, ClosedEmpty
<1>5. Untouched' /\ InOrder' /\ ParserHasProtocol' /\ ParseInv'
  BY <1>1, <1>2 DEF Untouched, InOrder, ParserHasProtocol, ParseInv, InLoop, Collected
<1>6. ParsedWhole'
  <2>1. SUFFICES ASSUME fresh = "parsing", ~ rash, ~ file[json].torn PROVE document = Whole(json)
    BY <1>1 DEF ParsedWhole, Whole
  <2>2. /\ Len(document) = file[json].pos /\ file[json].fileSize = file[json].len - file[json].pos
        /\ \A i \in 1 .. Len(document) : document[i] = <<json, i>>
    BY <2>1 DEF ParseInv, Collected
  <2>3. PICK n \in Nat : n = file[json].len
    BY <1>2, FileFields DEF ChannelInv, ChannelTyped
  <2>4. file[json].pos \in Nat /\ file[json].pos <= n /\ file[json].fileSize \in Int
    BY <1>2, <2>3, FileFields DEF ChannelInv, ChannelTyped
  <2>5. Len(document) = n
    BY <1>1, <2>2, <2>3, <2>4
  <2>6. PICK w : w = Whole(json)
    OBVIOUS
  <2>7. w = [i \in 1 .. n |-> <<json, i>>]
    BY <2>3, <2>6 DEF Whole
  <2>8. w \in Seq(Places) /\ Len(w) = n /\ \A i \in 1 .. n : w[i] = <<json, i>>
    BY <1>2, <2>7, ChannelSizes
  <2>9. document \in Seq(Places)
    BY DEF ChannelInv, ChannelTyped
  <2>10. document = w
    BY <2>2, <2>5, <2>8, <2>9, SeqEqual
  <2>11. QED
    BY <2>6, <2>10
<1>7. QED
  BY <1>3, <1>4, <1>5, <1>6 DEF ChannelInv

\* Every other command finds the program outside the loop and leaves it there.
LEMMA OthersDoNotParse ==
  ASSUME ParseInv, run = "idle", run' # "parsing", fresh' \in {fresh, "opened", "no"}
  PROVE  ParseInv'
BY DEF ParseInv, InLoop, Collected

\* The first n bytes of a buffer, padded, and what stays of it.
Handed(b, n) == [i \in 1 .. n |-> IF i <= Len(b) THEN b[i] ELSE Junk]
Left(b, n) == SubSeq(b, n + 1, Len(b))

LEMMA HandedAndLeft ==
  ASSUME NEW b \in Seq(Places), NEW n \in Nat
  PROVE  /\ Handed(b, n) \in Seq(Places) /\ Len(Handed(b, n)) = n
         /\ \A i \in 1 .. n : i <= Len(b) => Handed(b, n)[i] = b[i]
         /\ Left(b, n) \in Seq(Places)
         /\ n <= Len(b) => Len(Left(b, n)) = Len(b) - n
         /\ \A i \in 1 .. Len(b) - n : Left(b, n)[i] = b[n + i]
         /\ b = <<>> => Left(b, n) = <<>>
<1>1. PICK l \in Nat : l = Len(b)
  OBVIOUS
<1>2. \A i \in 1 .. l : b[i] \in Places
  BY <1>1
<1>3. Handed(b, n) \in Seq(Places) /\ Len(Handed(b, n)) = n /\ \A i \in 1 .. n : i <= l => Handed(b, n)[i] = b[i]
  <2>1. \A i \in 1 .. n : (IF i <= l THEN b[i] ELSE Junk) \in Places
    BY <1>2, ChannelSizes
  <2>2. Handed(b, n) = [i \in 1 .. n |-> IF i <= l THEN b[i] ELSE Junk]
    BY <1>1 DEF Handed
  <2>3. QED
    BY <2>1, <2>2
<1>4. n + 1 \in Int /\ l \in Int /\ \A i \in n + 1 .. l : b[i] \in Places
  BY <1>1, <1>2
<1>5. PICK m \in Int : m = n + 1
  BY <1>4
<1>6. /\ SubSeq(b, m, l) \in Seq(Places)
      /\ Len(SubSeq(b, m, l)) = IF m <= l THEN l - m + 1 ELSE 0
      /\ \A i \in 1 .. l - m + 1 : SubSeq(b, m, l)[i] = b[m + i - 1]
  BY <1>4, <1>5, SubSeqProperties
<1>7. Left(b, n) = SubSeq(b, m, l)
  BY <1>1, <1>5 DEF Left
<1>8. /\ Left(b, n) \in Seq(Places)
      /\ n <= l => Len(Left(b, n)) = l - n
  BY <1>5, <1>6, <1>7
<1>9. \A i \in 1 .. l - n : Left(b, n)[i] = b[n + i]
  <2>1. SUFFICES ASSUME NEW i \in 1 .. l - n PROVE Left(b, n)[i] = b[n + i]
    OBVIOUS
  <2>2. i \in 1 .. l - m + 1 /\ m + i - 1 = n + i
    BY <1>5, <2>1
  <2>3. QED
    BY <1>6, <1>7, <2>2
<1>10. b = <<>> => Left(b, n) = <<>>
  BY <1>1, <1>5, <1>7, SubSeqEmpty
<1>11. QED
  BY <1>1, <1>3, <1>8, <1>9, <1>10

\* Two sequences that hold the places of file p one after the other.
Consecutive(p, g, b) ==
  /\ \A i \in 1 .. Len(g) : g[i] = <<p, i>>
  /\ \A i \in 1 .. Len(b) : b[i] = <<p, Len(g) + i>>

\* n bytes of b go to the end of g.
Passed(g, b, n, g2, b2) == g2 = g \o Handed(b, n) /\ b2 = Left(b, n)

\* A polite read takes from the front of what is buffered.
LEMMA TakenInOrder ==
  ASSUME NEW p, NEW g \in Seq(Places), NEW b \in Seq(Places), NEW n \in Nat, n <= Len(b),
         NEW g2, NEW b2, Passed(g, b, n, g2, b2), Consecutive(p, g, b)
  PROVE  Len(g2) = Len(g) + n /\ Len(b2) = Len(b) - n /\ Consecutive(p, g2, b2)
<1>0. /\ \A i \in 1 .. Len(g) : g[i] = <<p, i>>
      /\ \A i \in 1 .. Len(b) : b[i] = <<p, Len(g) + i>>
  BY DEF Consecutive
<1>1. PICK k \in Nat, l \in Nat : k = Len(g) /\ l = Len(b)
  OBVIOUS
<1>2. PICK h \in Seq(Places) : /\ h = Handed(b, n) /\ Len(h) = n /\ \A i \in 1 .. n : i <= l => h[i] = b[i]
  BY <1>1, HandedAndLeft
<1>3. Len(g2) = k + n /\ \A i \in 1 .. k + n : g2[i] = IF i <= k THEN g[i] ELSE h[i - k]
  <2>1. g2 = g \o h
    BY <1>2 DEF Passed
  <2>2. /\ Len(g \o h) = Len(g) + Len(h)
        /\ \A i \in 1 .. Len(g) + Len(h) : (g \o h)[i] = IF i <= Len(g) THEN g[i] ELSE h[i - Len(g)]
    BY <1>2, ConcatProperties
  <2>3. QED
    BY <1>1, <1>2, <2>1, <2>2
<1>4. b2 \in Seq(Places) /\ Len(b2) = l - n /\ \A i \in 1 .. l - n : b2[i] = b[n + i]
  BY <1>1, HandedAndLeft DEF Passed
<1>5. ASSUME NEW i \in 1 .. k + n PROVE g2[i] = <<p, i>>
  <2>1. CASE i <= k
    BY <1>0, <1>1, <1>3, <2>1
  <2>2. CASE i > k
    <3>1. i - k \in 1 .. n
      BY <1>1, <2>2
    <3>2. PICK j \in 1 .. n : j = i - k
      BY <3>1
    <3>3. j <= l /\ j \in 1 .. l /\ k + j = i
      BY <1>1, <2>2, <3>2
    <3>4. g2[i] = b[j]
      BY <1>2, <1>3, <2>2, <3>2, <3>3
    <3>5. QED
      BY <1>0, <1>1, <3>3, <3>4
  <2>3. i <= k \/ i > k
    BY <1>1, <1>5
  <2>4. QED
    BY <2>1, <2>2, <2>3
<1>6. ASSUME NEW i \in 1 .. l - n PROVE b2[i] = <<p, k + n + i>>
  <2>1. n + i \in 1 .. l /\ k + (n + i) = k + n + i
    BY <1>1
  <2>2. b[n + i] = <<p, k + (n + i)>>
    BY <1>0, <1>1, <2>1
  <2>3. QED
    BY <1>4, <2>1, <2>2
<1>7. QED
  BY <1>1, <1>3, <1>4, <1>5, <1>6 DEF Consecutive

LEMMA ReadKeeps ==
  ASSUME ChannelInv, NEW n \in 1 .. Block, sio_read(n)
  PROVE  ChannelInv'
<1>0. n \in Nat /\ n >= 1
  BY ChannelSizes
<1>1. protocol # None /\ protocol \in Objects /\ ChannelTyped
  BY DEF sio_read, ChannelInv, ChannelTyped
<1>2. UNCHANGED <<protocol, made, live, json, forceStatus, document, channelMode, run, open, rash>>
  BY DEF sio_read, objects, history
<1>3. PICK r \in IF channelMode = "JSON" THEN {[rx |-> rx, file |-> file[protocol], failed |-> 0]} ELSE read(protocol, n) :
        /\ Took(protocol, r)
        /\ rx' = Left(r.rx, n)
        /\ polite' = (polite /\ n <= status.waiting /\ channelMode = "PROTOCOL")
        /\ got' = IF polite' THEN got \o Handed(r.rx, n) ELSE <<>>
  BY DEF sio_read, Left, Handed
<1>4. file[protocol] \in Files /\ rx \in Seq(Places) /\ got \in Seq(Places) /\ <<>> \in Seq(Places)
      /\ file[protocol].pos <= file[protocol].len
  BY <1>1 DEF ChannelTyped
<1>5. Found(protocol, r) /\ (rx # <<>> => r.rx = rx /\ r.file = file[protocol])
  <2>1. CASE channelMode = "JSON" \/ rx # <<>>
    <3>1. r = [rx |-> rx, file |-> file[protocol], failed |-> 0]
      BY <1>3, <2>1 DEF read
    <3>2. QED
      BY <1>4, <3>1 DEF Found, Outcome
  <2>2. CASE channelMode # "JSON" /\ rx = <<>>
    <3>1. r \in read_file(protocol, n)
      BY <1>3, <2>2 DEF read
    <3>2. Outcome(protocol, r) /\ (TurnedDown(protocol, r) \/ Brought(protocol, n, r) \/ Broken(protocol, r))
      BY <1>0, <1>1, <3>1, ReadFile
    <3>3. QED
      BY <1>0, <2>2, <3>2 DEF Found
  <2>3. QED
    BY <2>1, <2>2
<1>6. /\ file' \in [Objects -> Files] /\ file'[protocol] = r.file
      /\ \A q \in Objects : file'[q].pos <= file'[q].len /\ file'[q].len = file[q].len
      /\ failures' \in Nat /\ r.rx \in Seq(Places)
      /\ Unmade' /\ OpenOwns' /\ ParserHasProtocol'
      /\ (~ open /\ ~ rash) => r.rx = <<>> /\ r.file = file[protocol]
  BY <1>1, <1>2, <1>3, <1>5, FoundKeeps DEF sio_read, Alive
<1>7. fresh' = "no"
  BY DEF sio_read
<1>8. FreshOpen' /\ Untouched' /\ ParsedWhole'
  BY <1>7 DEF FreshOpen, Untouched, ParsedWhole
<1>9. ClosedEmpty'
  <2>1. r.rx = <<>> => rx' = <<>>
    BY <1>0, <1>3, <1>6, HandedAndLeft
  <2>2. QED
    BY <1>2, <1>6, <2>1 DEF ChannelInv, ClosedEmpty
<1>10. PICK w \in Nat : w = IF n > status.waiting THEN 0 ELSE status.waiting - n
  <2>1. status.waiting \in Nat
    BY <1>1 DEF ChannelTyped
  <2>2. QED
    BY <1>0, <2>1
<1>11. status \in [waiting : Nat, eof : BOOLEAN] /\ status' = [status EXCEPT !.waiting = w]
  BY <1>1, <1>10 DEF sio_read, ChannelTyped
<1>12. status' \in [waiting : Nat, eof : BOOLEAN] /\ status'.waiting = w /\ status'.eof = status.eof
  BY <1>11
<1>13. polite' \in BOOLEAN /\ (polite' => polite /\ n <= status.waiting /\ channelMode = "PROTOCOL")
  BY <1>3
<1>14. ChannelTyped'
  <2>1. got' \in Seq(Places)
    <3>1. Handed(r.rx, n) \in Seq(Places)
      BY <1>0, <1>6, HandedAndLeft
    <3>2. got \o Handed(r.rx, n) \in Seq(Places)
      BY <1>4, <3>1, ConcatProperties
    <3>3. QED
      BY <1>3, <1>4, <3>2
  <2>2. rx' \in Seq(Places)
    BY <1>0, <1>3, <1>6, HandedAndLeft
  <2>3. json_bytes_remaining' \in Nat
    <3>1. json_bytes_remaining \in Nat
      BY <1>1 DEF ChannelTyped
    <3>2. QED
      BY <1>0, <3>1 DEF sio_read
  <2>4. QED
    BY <1>1, <1>2, <1>6, <1>12, <1>13, <2>1, <2>2, <2>3 DEF ChannelTyped
<1>15. InOrder'
  <2>1. SUFFICES ASSUME open, polite', ~ rash, ~ file'[protocol].torn PROVE InOrder'
    BY <1>2 DEF InOrder
  <2>2. polite /\ n <= status.waiting /\ channelMode = "PROTOCOL" /\ ~ file[protocol].torn
    BY <1>5, <1>6, <1>13, <2>1 DEF Found, Outcome
  <2>3. /\ file[protocol].fileSize = file[protocol].len - file[protocol].pos
        /\ Len(got) + Len(rx) = file[protocol].pos
        /\ \A i \in 1 .. Len(got) : got[i] = <<protocol, i>>
        /\ \A i \in 1 .. Len(rx) : rx[i] = <<protocol, Len(got) + i>>
        /\ status.waiting <= Len(rx)
        /\ status.eof => file[protocol].pos = file[protocol].len /\ status.waiting = Len(rx)
    BY <2>1, <2>2 DEF ChannelInv, InOrder
  <2>4. PICK k \in Nat, l \in Nat, v \in Nat : k = Len(got) /\ l = Len(rx) /\ v = status.waiting
    BY <1>4, <1>11
  <2>5. n <= l /\ l # 0 /\ w = v - n /\ w <= l - n
    BY <1>0, <1>10, <2>2, <2>3, <2>4
  <2>6. rx # <<>>
    BY <2>4, <2>5
  <2>7. r.rx = rx /\ file'[protocol] = file[protocol]
    BY <1>5, <1>6, <2>6
  <2>8. got' = got \o Handed(rx, n) /\ rx' = Left(rx, n)
    BY <1>3, <2>1, <2>7
  <2>9. /\ Len(got') = k + n /\ Len(rx') = l - n
        /\ \A i \in 1 .. Len(got') : got'[i] = <<protocol, i>>
        /\ \A i \in 1 .. Len(rx') : rx'[i] = <<protocol, Len(got') + i>>
    <3>1. n <= Len(rx)
      BY <2>4, <2>5
    <3>2. PICK g2, b2 : g2 = got' /\ b2 = rx'
      OBVIOUS
    <3>3. Passed(got, rx, n, g2, b2)
      BY <2>8, <3>2 DEF Passed
    <3>4. Consecutive(protocol, got, rx)
      BY <2>3 DEF Consecutive
    <3>5. Len(g2) = Len(got) + n /\ Len(b2) = Len(rx) - n /\ Consecutive(protocol, g2, b2)
      BY <1>0, <1>4, <3>1, <3>3, <3>4, TakenInOrder
    <3>6. QED
      BY <2>4, <3>2, <3>5 DEF Consecutive
  <2>10. Len(got') + Len(rx') = file'[protocol].pos
    BY <1>0, <2>3, <2>4, <2>7, <2>9
  <2>11. status'.waiting <= Len(rx') /\ (status'.eof => file'[protocol].pos = file'[protocol].len /\ status'.waiting = Len(rx'))
    <3>1. status'.waiting <= Len(rx')
      BY <1>12, <2>5, <2>9
    <3>2. ASSUME status'.eof PROVE file'[protocol].pos = file'[protocol].len /\ status'.waiting = Len(rx')
      <4>1. status.eof
        BY <1>12, <3>2
      <4>2. file[protocol].pos = file[protocol].len /\ v = l
        BY <2>3, <2>4, <4>1
      <4>3. QED
        BY <1>0, <1>12, <2>5, <2>7, <2>9, <4>2
    <3>3. QED
      BY <3>1, <3>2
  <2>12. file'[protocol].fileSize = file'[protocol].len - file'[protocol].pos
    BY <2>3, <2>7
  <2>13. QED
    BY <1>2, <2>2, <2>9, <2>10, <2>11, <2>12 DEF InOrder
<1>16. QED
  BY <1>6, <1>8, <1>9, <1>14, <1>15 DEF ChannelInv

LEMMA ChannelStarts ==
  ASSUME ChannelInit
  PROVE  ChannelInv
<1>1. ChannelTyped
  <2>1. /\ protocol \in Objects \cup {None} /\ json \in Objects \cup {None} /\ made \in 0 .. MaxObjects /\ live \subseteq Objects
        /\ document \in Seq(Places) /\ rx \in Seq(Places) /\ got \in Seq(Places)
        /\ json_bytes_remaining \in Nat /\ failures \in Nat
    BY ChannelSizes DEF ChannelInit
  <2>2. file \in [Objects -> Files] /\ \A p \in Objects : file[p].pos <= file[p].len
    BY FileFields DEF ChannelInit
  <2>3. forceStatus \in [Objects -> BOOLEAN] /\ open \in BOOLEAN /\ rash \in BOOLEAN /\ polite \in BOOLEAN
    BY Zenon DEF ChannelInit
  <2>4. status \in [waiting : Nat, eof : BOOLEAN]
    BY DEF ChannelInit, Reset
  <2>5. QED
    BY <2>1, <2>2, <2>3, <2>4 DEF ChannelTyped
<1>2. Unmade
  BY FileFields DEF ChannelInit, Unmade
<1>3. QED
  BY <1>1, <1>2 DEF ChannelInit, ChannelInv, FreshOpen, OpenOwns, ClosedEmpty, Untouched, InOrder, ParsedWhole, ParserHasProtocol

LEMMA ChannelStutters ==
  ASSUME ChannelInv, UNCHANGED channelVars
  PROVE  ChannelInv'
<1>1. UNCHANGED <<protocol, made, live, json, file, forceStatus, document, json_bytes_remaining, channelMode, rx, status,
                  failures, run, open, rash, got, polite, fresh>>
  BY DEF channelVars, objects, history, reader
<1>2. ChannelTyped' /\ Unmade' /\ FreshOpen' /\ OpenOwns' /\ ClosedEmpty'
  BY <1>1 DEF ChannelInv, ChannelTyped, Unmade, FreshOpen, OpenOwns, ClosedEmpty
<1>3. Untouched' /\ InOrder'
  BY <1>1 DEF ChannelInv, Untouched, InOrder
<1>4. ParsedWhole' /\ ParserHasProtocol'
  BY <1>1 DEF ChannelInv, ParsedWhole, ParserHasProtocol, Whole
<1>5. QED
  BY <1>2, <1>3, <1>4 DEF ChannelInv

LEMMA ParseKeeps ==
  ASSUME ChannelInv, ParseInv, [ChannelNext]_channelVars
  PROVE  ChannelInv' /\ ParseInv'
<1>1. CASE sio_parse_json
  BY <1>1, ParseStarts, ParseStartsFresh
<1>2. CASE ParseBlock \/ ParseEnd
  BY <1>2, BlockKeeps, EndKeeps
<1>3. CASE \/ \E instantiated \in BOOLEAN : OpenFails(instantiated)
           \/ \E len \in 0 .. MaxLen : sio_open(len)
           \/ sio_close
  <2>1. run = "idle" /\ run' = run /\ fresh' \in {"opened", "no"}
    BY <1>3 DEF OpenFails, sio_open, sio_close, Alive
  <2>2. QED
    BY <1>3, <2>1, OpenFailsKeeps, OpenKeeps, CloseKeeps, OthersDoNotParse
<1>4. CASE sio_status \/ sio_poll_interrupt \/ \E n \in 1 .. Block : sio_read(n)
  <2>1. run = "idle" /\ run' = run /\ fresh' \in {fresh, "no"}
    BY <1>4 DEF sio_status, sio_poll_interrupt, sio_read, Alive, reader
  <2>2. QED
    BY <1>4, <2>1, StatusKeeps, PollKeeps, ReadKeeps, OthersDoNotParse
<1>5. CASE \/ \E mode \in {"PROTOCOL", "JSON"} : sio_set_channel_mode(mode)
           \/ sio_set_json_query \/ sio_set_json_parameters
           \/ \E url \in {"valid", "scheme", "invalid"} : sio_do_idempotent_command_80(url)
  <2>1. run = "idle" /\ run' \in {run, "null"} /\ fresh' = fresh
    BY <1>5 DEF sio_set_channel_mode, sio_set_json_query, sio_set_json_parameters, sio_do_idempotent_command_80, Alive, reader
  <2>2. QED
    BY <1>5, <2>1, ModeKeeps, QueryKeeps, ParametersKeep, CommandKeeps, OthersDoNotParse
<1>6. CASE UNCHANGED channelVars
  <2>1. UNCHANGED <<protocol, made, live, json, file, document, rx, run, open, rash, polite, fresh>>
    BY <1>6 DEF channelVars, objects, history, reader
  <2>2. ParseInv'
    BY <2>1 DEF ParseInv, InLoop, Collected
  <2>3. QED
    BY <1>6, <2>2, ChannelStutters
<1>7. QED
  BY <1>1, <1>2, <1>3, <1>4, <1>5, <1>6 DEF ChannelNext

LEMMA ChannelHolds == ChannelSpec => []ChannelInv
<1>1. ChannelInit => ChannelInv /\ ParseInv
  BY ChannelStarts DEF ChannelInit, ParseInv, InLoop, Collected
<1>2. (ChannelInv /\ ParseInv) /\ [ChannelNext]_channelVars => (ChannelInv /\ ParseInv)'
  BY ParseKeeps
<1>3. QED
  BY <1>1, <1>2, PTL DEF ChannelSpec

\* What was read is a beginning of the file, and all of it when nothing is left.
LEMMA InOrderExact ==
  ASSUME ChannelInv
  PROVE  StreamExact
<1>1. SUFFICES ASSUME open, polite, ~ rash, ~ file[protocol].torn
               PROVE  /\ got = SubSeq(Whole(protocol), 1, Len(got))
                      /\ (status.waiting = 0 /\ status.eof) => got = Whole(protocol)
  BY DEF StreamExact
<1>2. /\ protocol \in Objects /\ Len(got) + Len(rx) = file[protocol].pos
      /\ \A i \in 1 .. Len(got) : got[i] = <<protocol, i>>
      /\ status.eof => file[protocol].pos = file[protocol].len /\ status.waiting = Len(rx)
  BY <1>1 DEF ChannelInv, OpenOwns, InOrder
<1>3. PICK k \in Nat, l \in Nat, n \in Nat : k = Len(got) /\ l = Len(rx) /\ n = file[protocol].len
  BY <1>2, FileFields DEF ChannelInv, ChannelTyped
<1>4. k <= n
  BY <1>2, <1>3 DEF ChannelInv, ChannelTyped
<1>5. PICK w : w = Whole(protocol)
  OBVIOUS
<1>6. w = [i \in 1 .. n |-> <<protocol, i>>]
  BY <1>3, <1>5 DEF Whole
<1>7. \A i \in 1 .. k : w[i] = <<protocol, i>> /\ w[i] \in Places
  BY <1>2, <1>4, <1>6, ChannelSizes
<1>8. got \in Seq(Places)
  BY DEF ChannelInv, ChannelTyped
<1>9. got = SubSeq(w, 1, k)
  <2>1. /\ SubSeq(w, 1, k) \in Seq(Places)
        /\ Len(SubSeq(w, 1, k)) = IF 1 <= k THEN k - 1 + 1 ELSE 0
        /\ \A i \in 1 .. k - 1 + 1 : SubSeq(w, 1, k)[i] = w[1 + i - 1]
    BY <1>7, SubSeqProperties
  <2>2. PICK s \in Seq(Places) : s = SubSeq(w, 1, k)
    BY <2>1
  <2>3. Len(s) = k /\ \A i \in 1 .. k : s[i] = w[i]
    BY <2>1, <2>2
  <2>4. Len(s) = Len(got) /\ \A i \in 1 .. Len(s) : s[i] = got[i]
    BY <1>2, <1>3, <1>7, <2>3
  <2>5. s = got
    BY <1>8, <2>4, SeqEqual
  <2>6. QED
    BY <2>2, <2>5
<1>10. ASSUME status.waiting = 0, status.eof PROVE got = w
  <2>1. k = n
    BY <1>2, <1>3, <1>10
  <2>2. w \in Seq(Places) /\ Len(w) = n
    BY <1>6, <1>7, <2>1
  <2>3. \A i \in 1 .. Len(got) : got[i] = w[i]
    BY <1>2, <1>3, <1>7
  <2>4. QED
    BY <1>3, <1>8, <2>1, <2>2, <2>3, SeqEqual
<1>11. QED
  BY <1>3, <1>5, <1>9, <1>10

\* A computer that reads no more than STATUS told it gets the bytes of the file in order, each
\* once, and all of them when STATUS says so, whatever polls, STATUS and reads of any length
\* come between, for every file length and block size.
THEOREM StreamsAreExact == ChannelSpec => []StreamExact
BY ChannelHolds, InOrderExact, PTL

\* FNJSON::parse right after OPEN gets the whole document, however often the channel is polled
\* before and however many reads fail in the loop, unless one of them has moved the position.
THEOREM ParsedDocumentsAreWhole == ChannelSpec => []ParsedWhole
<1>1. ChannelInv => ParsedWhole
  BY DEF ChannelInv
<1>2. QED
  BY <1>1, ChannelHolds, PTL

\* Whatever order OPEN, failing OPEN and CLOSE come in, the parser is never used without a
\* protocol or with one that was deleted, and the loop goes on for ever only
\* after a failed read that has moved the position.
THEOREM ParsersHaveProtocols == ChannelSpec => []ParserHasProtocol
<1>1. ChannelInv => ParserHasProtocol
  BY DEF ChannelInv
<1>2. QED
  BY <1>1, ChannelHolds, PTL

-----------------------------------------------------------------------------
(***************************************************************************)
(* The disk drive.                                                         *)
(***************************************************************************)
LastSectors == 0 .. INVALID_SECTOR_VALUE
DiskRecords ==
  [type : {"UNKNOWN", "ATR", "XEX"}, sector_size : {128, 256, 512}, num_sectors : Nat,
   last_sector : LastSectors]

\* What the code keeps, with the sector that may be remembered.
Typed ==
  /\ image \in Images
  /\ disk \in DiskRecords
  /\ disk.type # "UNKNOWN" => disk.type = image.type /\ disk.sector_size = image.sector_size
  /\ fh \in Handles \cup {0} /\ opened \subseteq Handles
  /\ fh = 0 <=> disk.type = "UNKNOWN"
  /\ pos \in [Handles -> Int]
  /\ faults \in Nat /\ slipped \in BOOLEAN

USE DEF Header, FIRST_XEX_SECTOR, VTOC_SECTOR, DIRECTORY_START,
        DIRECTORY_END, BOOTLOADER_END, SECTOR_LINK_SIZE, DataPerSector

-----------------------------------------------------------------------------
(***************************************************************************)
(* Sector arithmetic.                                                      *)
(***************************************************************************)
\* What the formats say of an image.
LEMMA ImageTypes ==
  ASSUME NEW i \in Images
  PROVE  /\ i.type \in {"ATR", "XEX"} /\ i.size \in Nat /\ i.size < FarAway /\ i.sectors \in Nat
         /\ i.sector_size \in {128, 256, 512}
         /\ i.type = "XEX" => i.sector_size = 256
<1>1. CASE i.type = "XEX"
  BY <1>1, ImagesAssumption
<1>2. CASE i.type = "ATR"
  BY <1>2, ImagesAssumption
<1>3. QED
  BY <1>1, <1>2, ImagesAssumption

\* The sectors that the header of a new image says are the ones it was made with.
LEMMA HeaderSectors ==
  ASSUME NEW n \in Nat, NEW ss \in {128, 256, 512}
  PROVE  mount_num_sectors(ss, create_paragraphs(ss, n)) = n
<1>1. CASE ss = 128
  BY <1>1 DEF mount_num_sectors, create_paragraphs, TotalSize
<1>2. CASE ss = 256
  BY <1>2 DEF mount_num_sectors, create_paragraphs, TotalSize
<1>3. CASE ss = 512
  BY <1>3 DEF mount_num_sectors, create_paragraphs, TotalSize
<1>4. QED
  BY <1>1, <1>2, <1>3

\* A sector number is counted for every image.
LEMMA SectorCount ==
  ASSUME NEW i \in Images
  PROVE  /\ num_sectors(i) \in Nat
         /\ i.type = "ATR" => num_sectors(i) = i.sectors
<1>1. CASE i.type = "XEX"
  <2>1. i.size \div 253 \in Nat /\ i.size \in Nat
    BY ImageTypes
  <2>2. num_sectors(i) = xex_num_sectors(i.size)
    BY <1>1 DEF num_sectors
  <2>3. xex_num_sectors(i.size) \in Nat
    BY <2>1 DEF xex_num_sectors
  <2>4. QED
    BY <1>1, <2>2, <2>3
<1>2. CASE i.type = "ATR"
  BY <1>2, ImageTypes, HeaderSectors DEF num_sectors
<1>3. QED
  BY <1>1, <1>2, ImageTypes

\* Offset and size of a sector are those of the layout, unless sectors have 512
\* bytes: the code then places every sector but the first three one too far.
LEMMA AtrLayout ==
  ASSUME NEW i, i.type = "ATR", NEW n \in Nat \ {0}
  PROVE  /\ i.sector_size \in {128, 256}
            => /\ _sector_to_offset(i.sector_size, n) = LayoutOffset(i, n)
               /\ sector_size(i.sector_size, n) = LayoutSize(i, n)
               /\ LayoutOffset(i, n + 1) = LayoutOffset(i, n) + LayoutSize(i, n)
         /\ i.sector_size = 512
            => _sector_to_offset(512, n) = LayoutOffset(i, n) + (IF n <= 3 THEN 0 ELSE 512)
<1>1. CASE i.sector_size = 128
  BY <1>1 DEF _sector_to_offset, sector_size, LayoutOffset, LayoutSize
<1>2. CASE i.sector_size = 256
  BY <1>2 DEF _sector_to_offset, sector_size, LayoutOffset, LayoutSize
<1>3. CASE i.sector_size = 512
  BY <1>3 DEF _sector_to_offset, LayoutOffset
<1>4. QED
  BY <1>1, <1>2, <1>3

-----------------------------------------------------------------------------
(***************************************************************************)
(* Types.                                                                  *)
(***************************************************************************)
\* A sector that is remembered, or forgotten, changes nothing else of the disk.
LEMMA Remember ==
  ASSUME disk \in DiskRecords, NEW n \in LastSectors, disk' = [disk EXCEPT !.last_sector = n]
  PROVE  /\ disk' \in DiskRecords
         /\ disk'.type = disk.type /\ disk'.sector_size = disk.sector_size
         /\ disk'.num_sectors = disk.num_sectors /\ disk'.last_sector = n
<1>1. disk' \in DiskRecords
  BY DEF DiskRecords
<1>2. disk'.type = disk.type
  BY DEF DiskRecords
<1>3. disk'.sector_size = disk.sector_size
  BY DEF DiskRecords
<1>4. disk'.num_sectors = disk.num_sectors
  BY DEF DiskRecords
<1>5. disk'.last_sector = n
  BY DEF DiskRecords
<1>6. QED
  BY <1>1, <1>2, <1>3, <1>4, <1>5

\* A sector number may be remembered, and so may that there is none.
LEMMA SectorNumbers ==
  ASSUME NEW n \in Sectors
  PROVE  /\ n \in LastSectors /\ n \in Nat
         /\ n < INVALID_SECTOR_VALUE /\ INVALID_SECTOR_VALUE \in Nat
<1>1. n \in Nat /\ n < INVALID_SECTOR_VALUE
  BY SectorsAssumption
<1>2. INVALID_SECTOR_VALUE \in Nat
  BY SMT DEF INVALID_SECTOR_VALUE
<1>3. QED
  BY <1>1, <1>2 DEF LastSectors

\* There is a value for no sector.
LEMMA NoSector == INVALID_SECTOR_VALUE \in LastSectors
BY SMT DEF LastSectors, INVALID_SECTOR_VALUE

\* A file operation that fails.
LEMMA FailsTyped ==
  ASSUME Typed, disk.type # "UNKNOWN", NEW op, NEW n, NEW offset \in Int, Fails(op, n, offset)
  PROVE  /\ disk' = [disk EXCEPT !.last_sector = INVALID_SECTOR_VALUE]
         /\ INVALID_SECTOR_VALUE \in LastSectors
         /\ pos' \in [Handles -> Int]
         /\ io' = IOError(op, n)
<1>1. fh \in Handles
  BY DEF Typed
<1>2. QED
  BY <1>1, NoSector DEF Fails, Anywhere, Typed

\* The offsets the code computes are integers.
LEMMA Offsets ==
  ASSUME Typed, disk.type # "UNKNOWN", NEW n \in Nat
  PROVE  /\ _sector_to_offset(disk.sector_size, n) \in Nat
         /\ sector_size(disk.sector_size, n) \in {128, 256, 512}
         /\ xex_offset(n) \in Int
         /\ pos[fh] \in Int /\ fh \in Handles /\ fh # 0
         /\ \A off \in Int : Start(n, off) \in {pos[fh], off} /\ Start(n, off) \in Int
         /\ image.size \in Nat
<1>1. disk.sector_size \in {128, 256, 512}
  BY DEF Typed, DiskRecords
<1>2. /\ _sector_to_offset(disk.sector_size, n) \in Nat
      /\ sector_size(disk.sector_size, n) \in {128, 256, 512}
  <2>1. CASE disk.sector_size = 128
    BY <2>1 DEF _sector_to_offset, sector_size, FarAway
  <2>2. CASE disk.sector_size = 256
    BY <2>2 DEF _sector_to_offset, sector_size, FarAway
  <2>3. CASE disk.sector_size = 512
    BY <2>3 DEF _sector_to_offset, sector_size, FarAway
  <2>4. QED
    BY <1>1, <2>1, <2>2, <2>3
<1>3. fh \in Handles /\ pos[fh] \in Int /\ fh # 0
  BY DEF Typed, Handles
<1>4. image.size \in Nat
  BY ImageTypes DEF Typed
<1>5. QED
  BY <1>2, <1>3, <1>4 DEF xex_offset, Start

\* The smaller and the larger of two integers.
LEMMA MinMax ==
  ASSUME NEW a \in Int, NEW b \in Int
  PROVE  /\ Min2(a, b) \in {a, b} /\ Min2(a, b) <= a /\ Min2(a, b) <= b /\ Min2(a, b) \in Int
         /\ Max2(a, b) \in {a, b} /\ Max2(a, b) >= a /\ Max2(a, b) >= b /\ Max2(a, b) \in Int
BY DEF Min2, Max2

\* An operation on a sector keeps the types.
LEMMA SectorStep ==
  ASSUME Typed, disk.type # "UNKNOWN", NEW s \in LastSectors, disk' = [disk EXCEPT !.last_sector = s],
         image' = image, fh' = fh, opened' = opened, pos' \in [Handles -> Int], faults' \in Nat, slipped' \in BOOLEAN
  PROVE  Typed'
<1>1. disk' \in DiskRecords /\ disk'.type = disk.type /\ disk'.sector_size = disk.sector_size
  BY Remember DEF Typed
<1>2. QED
  BY <1>1 DEF Typed

\* A step keeps the types.
LEMMA TypedStep ==
  ASSUME Typed, [Next]_vars
  PROVE  Typed'
<1>a. ASSUME disk.type # "UNKNOWN", UNCHANGED <<image, fh, opened>>, NEW op, NEW n, NEW offset \in Int,
             Fails(op, n, offset), faults' \in Nat, slipped' \in BOOLEAN
      PROVE  Typed'
  <2>1. /\ disk' = [disk EXCEPT !.last_sector = INVALID_SECTOR_VALUE]
        /\ INVALID_SECTOR_VALUE \in LastSectors /\ pos' \in [Handles -> Int]
    BY <1>a, FailsTyped
  <2>2. QED
    BY <1>a, <2>1, SectorStep
<1>b. ASSUME Fault PROVE faults' \in Nat
  BY <1>b DEF Fault, Typed
<1>1. ASSUME NEW i \in Images, NEW h \in Handles, mount(i, h) PROVE Typed'
  <2>1. disk' = [type |-> i.type, sector_size |-> i.sector_size,
                 num_sectors |-> num_sectors(i), last_sector |-> INVALID_SECTOR_VALUE]
    BY <1>1 DEF mount
  <2>2. disk' \in DiskRecords
    BY <2>1, SectorCount, ImageTypes, NoSector DEF DiskRecords
  <2>3. disk'.type = i.type /\ disk'.sector_size = i.sector_size /\ i.type # "UNKNOWN"
    BY <2>1, ImageTypes
  <2>4. image' = i /\ fh' = h /\ opened' \subseteq Handles /\ faults' = faults /\ slipped' = FALSE /\ h # 0
    <3>1. h # 0
      BY DEF Handles
    <3>2. image' = i /\ fh' = h /\ opened' \subseteq Handles /\ faults' = faults /\ slipped' = FALSE
      BY <1>1 DEF mount, Typed
    <3>3. QED
      BY <3>1, <3>2
  <2>5. pos' \in [Handles -> Int]
    BY <1>1 DEF mount, Typed
  <2>6. QED
    BY <2>2, <2>3, <2>4, <2>5 DEF Typed
<1>2. ASSUME NEW i \in Images, NEW h \in Handles, MountFails(i, h) PROVE Typed'
  <2>1. disk' \in DiskRecords /\ disk'.type = "UNKNOWN"
    BY <1>2, NoSector DEF MountFails, NoDisk, DiskRecords
  <2>2. pos' \in [Handles -> Int] /\ image' = i /\ fh' = 0 /\ opened' \subseteq Handles /\ slipped' = FALSE
    BY <1>2 DEF MountFails, Typed
  <2>3. QED
    BY <1>2, <1>b, <2>1, <2>2 DEF MountFails, Typed
<1>3. CASE unmount
  <2>1. disk' \in DiskRecords /\ disk'.type = "UNKNOWN"
    BY <1>3, NoSector DEF unmount, NoDisk, DiskRecords
  <2>2. pos' \in [Handles -> Int] /\ image' = image /\ fh' = 0 /\ opened' \subseteq Handles
    BY <1>3 DEF unmount, Typed
  <2>3. QED
    BY <1>3, <2>1, <2>2 DEF unmount, Typed
<1>4. ASSUME NEW n \in Sectors, ReadAtr(n) PROVE Typed'
  <2> DEFINE len == sector_size(disk.sector_size, n)
             offset == _sector_to_offset(disk.sector_size, n)
             start == Start(n, offset)
  <2>1. /\ offset \in Int /\ start + len \in Int /\ fh \in Handles /\ n \in LastSectors
        /\ disk.type # "UNKNOWN"
    BY <1>4, Offsets, SectorNumbers DEF ReadAtr
  <2>2. UNCHANGED <<image, fh, opened>> /\ slipped' \in BOOLEAN
    BY <1>4 DEF ReadAtr, Typed
  <2>3. CASE disk' = [disk EXCEPT !.last_sector = n] /\ pos' = [pos EXCEPT ![fh] = start + len] /\ UNCHANGED faults
    BY <2>1, <2>2, <2>3, SectorStep DEF Typed
  <2>4. CASE Fails("read", n, offset) /\ (UNCHANGED faults \/ Fault)
    BY <1>a, <1>b, <2>1, <2>2, <2>4 DEF Typed
  <2>5. QED
    BY <1>4, <2>3, <2>4 DEF ReadAtr
<1>5. ASSUME NEW n \in Sectors, ReadFaked(n) PROVE Typed'
  BY <1>5, SectorStep, NoSector DEF ReadFaked, Typed
<1>6. ASSUME NEW n \in Sectors, ReadXex(n) PROVE Typed'
  <2> DEFINE offset == xex_offset(n)
             start == Start(n, offset)
             len == Max2(0, Min2(253, image.size - start))
  <2>1. /\ offset \in Int /\ start \in Int /\ image.size \in Nat /\ fh \in Handles /\ n \in LastSectors
        /\ disk.type # "UNKNOWN" /\ pos[fh] \in Int
    BY <1>6, Offsets, SectorNumbers DEF ReadXex
  <2>2. len \in Int /\ Max2(0, offset) \in Int
    <3> DEFINE rest == image.size - start
               piece == Min2(253, rest)
    <3> HIDE DEF start, offset
    <3>1. rest \in Int
      BY <2>1
    <3> HIDE DEF rest
    <3>2. piece \in Int
      BY <3>1, MinMax
    <3> HIDE DEF piece
    <3>3. Max2(0, piece) \in Int
      BY <3>2, MinMax
    <3>4. offset \in Int
      BY <2>1
    <3>5. Max2(0, offset) \in Int
      BY <3>4, MinMax
    <3>6. QED
      BY <3>3, <3>5 DEF piece, rest
  <2>3. UNCHANGED <<image, fh, opened>> /\ slipped' \in BOOLEAN
    BY <1>6 DEF ReadXex, Typed
  <2>4. CASE disk' = [disk EXCEPT !.last_sector = n] /\ pos' = [pos EXCEPT ![fh] = start + len] /\ UNCHANGED faults
    <3> HIDE DEF start, len, offset
    <3> QED BY <2>1, <2>2, <2>3, <2>4, SectorStep DEF Typed
  <2>5. CASE /\ Fails("read", n, pos[fh]) \/ Fails("read", n, Max2(0, offset))
             /\ UNCHANGED faults \/ Fault
    BY <1>a, <1>b, <2>1, <2>2, <2>3, <2>5 DEF Typed
  <2>6. QED
    BY <1>6, <2>4, <2>5 DEF ReadXex
<1>7. ASSUME NEW n \in Sectors, WriteAtr(n) PROVE Typed'
  <2> DEFINE len == sector_size(disk.sector_size, n)
             offset == _sector_to_offset(disk.sector_size, n)
  <2>1. /\ offset \in Int /\ offset + len \in Int /\ fh \in Handles /\ n \in LastSectors
        /\ disk.type # "UNKNOWN"
    BY <1>7, Offsets, SectorNumbers DEF WriteAtr
  <2>2. UNCHANGED <<image, fh, opened>> /\ slipped' \in BOOLEAN
    BY <1>7 DEF WriteAtr, Typed
  <2>3. CASE disk' = [disk EXCEPT !.last_sector = n] /\ pos' = [pos EXCEPT ![fh] = offset + len] /\ UNCHANGED faults
    BY <2>1, <2>2, <2>3, SectorStep DEF Typed
  <2>4. CASE Fails("write", n, offset) /\ Fault
    BY <1>a, <1>b, <2>1, <2>2, <2>4 DEF Typed
  <2>5. QED
    BY <1>7, <2>3, <2>4 DEF WriteAtr
<1>8. ASSUME NEW n \in Sectors, NEW h \in Handles, WriteHighScore(n, h) PROVE Typed'
  BY <1>8, SectorStep, NoSector DEF WriteHighScore, Typed
<1>9. ASSUME NEW n \in Sectors, NEW h \in Handles, WriteHighScoreFails(n, h) PROVE Typed'
  <2>1. /\ disk' = [disk EXCEPT !.last_sector = INVALID_SECTOR_VALUE] /\ image' = image /\ fh' = h
        /\ opened' = opened \cup {h} /\ pos' = [pos EXCEPT ![h] = 0] /\ disk.type # "UNKNOWN"
        /\ h # 0 /\ faults' \in Nat /\ slipped' = slipped
    BY <1>9, <1>b DEF WriteHighScoreFails, Handles
  <2>2. /\ disk' \in DiskRecords /\ disk'.type = disk.type /\ disk'.sector_size = disk.sector_size
    BY <2>1, Remember, NoSector DEF Typed
  <2>3. QED
    BY <2>1, <2>2 DEF Typed
<1>10. ASSUME NEW n \in Sectors, Refused(n) PROVE Typed'
  BY <1>10 DEF Refused, Typed
<1>11. CASE UNCHANGED vars
  BY <1>11 DEF vars, Typed
<1>13. ASSUME NEW n \in Sectors, ReadXexShort(n) PROVE Typed'
  <2> DEFINE start == Start(n, xex_offset(n))
             len == Max2(0, Min2(DataPerSector, image.size - start))
  <2>1. /\ start \in Int /\ image.size \in Nat /\ fh \in Handles /\ n \in LastSectors /\ disk.type # "UNKNOWN"
    BY <1>13, Offsets, SectorNumbers DEF ReadXexShort
  <2>2. PICK moved \in {0, 1, len} : pos' = [pos EXCEPT ![fh] = start + moved]
    <3>1. \E k \in {0, 1}, moved \in {0, 1, len} :
            /\ k <= moved /\ moved <= len /\ k < len
            /\ pos' = [pos EXCEPT ![fh] = start + moved]
            /\ io' = IO("read", n, start, k)
      BY <1>13, Zenon DEF ReadXexShort
    <3> HIDE DEF start, len
    <3>2. QED
      BY <3>1, Zenon
  <2>3. len \in Int
    <3> HIDE DEF start
    <3>1. image.size - start \in Int
      BY <2>1
    <3>2. QED
      BY <3>1, MinMax DEF Min2, Max2
  <2>4. start + moved \in Int
    <3> HIDE DEF start, len
    <3> QED BY <2>1, <2>2, <2>3
  <2>5. pos' \in [Handles -> Int]
    <3> HIDE DEF start, len
    <3> QED BY <2>1, <2>2, <2>4 DEF Typed
  <2>6. /\ disk' = [disk EXCEPT !.last_sector = n] /\ UNCHANGED <<image, fh, opened>> /\ slipped' \in BOOLEAN
        /\ faults' \in Nat
    BY <1>13, <1>b DEF ReadXexShort
  <2>7. QED
    BY <2>1, <2>5, <2>6, SectorStep
<1>12. QED
  BY <1>13, <1>1, <1>2, <1>3, <1>4, <1>5, <1>6, <1>7, <1>8, <1>9, <1>10, <1>11 DEF Next

\* Nothing is mounted at first.
LEMMA TypedInit ==
  ASSUME Init
  PROVE  Typed
<1>1. NoDisk \in DiskRecords /\ NoDisk.type = "UNKNOWN"
  BY NoSector DEF NoDisk, DiskRecords
<1>2. slipped \in BOOLEAN
  BY Zenon DEF Init
<1>3. QED
  BY <1>1, <1>2 DEF Init, Typed

\* The types hold throughout.
LEMMA TypedAlways == Spec => []Typed
<1>1. Typed /\ [Next]_vars => Typed'
  BY TypedStep
<1>2. QED
  BY TypedInit, <1>1, PTL DEF Spec

\* Types of the state the code keeps, and that a disk has a handle if and only
\* if an image is mounted.
THEOREM DiskTyped == Spec => []TypeOK
<1>1. Typed => TypeOK
  <2> SUFFICES ASSUME Typed PROVE TypeOK
    OBVIOUS
  <2>1. /\ disk.type \in {"UNKNOWN", "ATR", "XEX"} /\ disk.num_sectors \in Nat
        /\ disk.last_sector \in LastSectors
    BY DEF Typed, DiskRecords
  <2>2. disk.last_sector \in Nat
    BY <2>1 DEF LastSectors
  <2>3. QED
    BY <2>1, <2>2 DEF Typed, TypeOK
<1>2. QED
  BY <1>1, TypedAlways, PTL

\* As long as no file operation fails, mounting, unmounting and writing leave no
\* handle open but the one in use.
THEOREM HandlesClosed == Spec => []NoHandleLeft
<1>1. Init => NoHandleLeft
  BY DEF Init, NoHandleLeft
<1>2. Typed /\ NoHandleLeft /\ [Next]_vars => NoHandleLeft'
  <2> SUFFICES ASSUME Typed, NoHandleLeft, [Next]_vars PROVE NoHandleLeft'
    OBVIOUS
  <2>1. CASE Fault
    BY <2>1 DEF Fault, Typed, NoHandleLeft
  <2>2. ASSUME NEW i \in Images, NEW h \in Handles, mount(i, h) PROVE NoHandleLeft'
    <3>1. fh' = h /\ h # 0 /\ opened' = (opened \ {fh}) \cup {h} /\ faults' = faults
      BY <2>2 DEF mount, Handles
    <3>2. faults = 0 => opened \ {fh} = {}
      BY DEF NoHandleLeft
    <3>3. QED
      BY <3>1, <3>2 DEF NoHandleLeft
  <2>3. CASE unmount
    <3>1. fh # 0 /\ fh' = 0 /\ opened' = opened \ {fh} /\ faults' = faults
      BY <2>3 DEF unmount
    <3>2. QED
      BY <3>1 DEF NoHandleLeft
  <2>4. CASE UNCHANGED <<fh, opened, faults>>
    BY <2>4 DEF NoHandleLeft
  <2>5. QED
    BY <2>1, <2>2, <2>3, <2>4
       DEF Next, vars, MountFails, ReadAtr, ReadFaked, ReadXex, ReadXexShort, WriteAtr, WriteHighScore,
           WriteHighScoreFails, Refused
<1>3. QED
  BY <1>1, <1>2, TypedAlways, PTL DEF Spec

-----------------------------------------------------------------------------
(***************************************************************************)
(* The cursor, for images whose sectors do not have 512 bytes: AtrLayout   *)
(* says why.                                                               *)
(***************************************************************************)
\* A XEX image remembers only sectors of file data.
DataRemembered ==
  disk.type = "XEX" /\ disk.last_sector # INVALID_SECTOR_VALUE => disk.last_sector >= FIRST_XEX_SECTOR

\* A handle at p is where sector n starts, or both are past the end.
At(p, n) ==
  p = LayoutOffset(image, n) \/ (p >= image.size /\ LayoutOffset(image, n) >= image.size)

CursorInv == CursorTrue /\ DataRemembered

\* The layout places sectors at integers, the sectors of an ATR image and the
\* pieces of a XEX file above 0.
LEMMA LayoutTypes ==
  ASSUME NEW i \in Images, NEW n \in Nat \ {0}
  PROVE  /\ LayoutOffset(i, n) \in Int /\ LayoutSize(i, n) \in Nat \ {0}
         /\ i.type = "ATR" => LayoutOffset(i, n) >= 16
         /\ i.type = "XEX" => LayoutOffset(i, n) = xex_offset(n) /\ LayoutSize(i, n) = 253
         /\ i.type = "XEX" /\ n >= 369 => xex_offset(n) >= 0
         /\ i.type = "XEX" /\ n < 369 => xex_offset(n) < 0
<1>1. CASE i.type = "XEX"
  BY <1>1 DEF LayoutOffset, LayoutSize, xex_offset
<1>2. CASE i.type = "ATR"
  <2>1. CASE i.sector_size = 128
    BY <1>2, <2>1 DEF LayoutOffset, LayoutSize
  <2>2. CASE i.sector_size = 256
    BY <1>2, <2>2 DEF LayoutOffset, LayoutSize
  <2>3. CASE i.sector_size = 512
    BY <1>2, <2>3 DEF LayoutOffset, LayoutSize
  <2>4. QED
    BY <2>1, <2>2, <2>3, ImageTypes
<1>3. QED
  BY <1>1, <1>2, ImageTypes

\* Whether an operation seeks or not, it starts where its sector does.
LEMMA StartsAt ==
  ASSUME Typed, CursorInv, disk.type # "UNKNOWN", NEW n \in Sectors, ~ (Strayed /\ n = disk.last_sector + 1)
  PROVE  /\ At(Start(n, LayoutOffset(image, n)), n)
         /\ disk.type = "XEX" /\ n < FIRST_XEX_SECTOR
            => Start(n, LayoutOffset(image, n)) = LayoutOffset(image, n)
<1>1. n < INVALID_SECTOR_VALUE /\ n \in Nat /\ INVALID_SECTOR_VALUE \in Nat
  BY SectorNumbers
<1>2. disk.last_sector \in Nat
  BY DEF Typed, DiskRecords, LastSectors
<1>3. CASE n = disk.last_sector + 1
  <2>1. disk.last_sector # INVALID_SECTOR_VALUE
    BY <1>1, <1>2, <1>3
  <2>2. At(pos[fh], n)
    BY <1>3, <2>1 DEF CursorInv, CursorTrue, At
  <2>3. disk.type = "XEX" => ~ (n < 369)
    BY <1>2, <1>3, <2>1 DEF CursorInv, DataRemembered
  <2>4. QED
    BY <1>3, <2>2, <2>3 DEF Start
<1>4. CASE n # disk.last_sector + 1
  BY <1>4 DEF Start, At
<1>5. QED
  BY <1>3, <1>4

\* The code places the sectors of the image as the layout does.
Placed(i) == i.sector_size # 512

\* Where an operation on an ATR image starts and ends.
LEMMA AtrOperation ==
  ASSUME Typed, Placed(image), CursorInv, disk.type = "ATR", NEW n \in Sectors \ {0}
  PROVE  LET len == sector_size(disk.sector_size, n)
             offset == _sector_to_offset(disk.sector_size, n)
             start == Start(n, offset)
         IN /\ offset = LayoutOffset(image, n) /\ len = LayoutSize(image, n)
            /\ offset + len = LayoutOffset(image, n + 1)
            /\ start = offset \/ (start >= image.size /\ offset >= image.size)
            /\ offset \in Nat /\ start \in Int /\ len \in Nat \ {0} /\ image.size \in Nat
            /\ image \in Images
<1>1. image \in Images /\ image.type = "ATR" /\ disk.sector_size = image.sector_size
  BY DEF Typed
<1>2. image.sector_size \in {128, 256} /\ image.size \in Nat /\ n \in Nat \ {0}
  BY <1>1, ImageTypes, SectorNumbers DEF Placed
<1>3. /\ _sector_to_offset(image.sector_size, n) = LayoutOffset(image, n)
      /\ sector_size(image.sector_size, n) = LayoutSize(image, n)
      /\ LayoutOffset(image, n + 1) = LayoutOffset(image, n) + LayoutSize(image, n)
  BY <1>1, <1>2, AtrLayout
<1>4. /\ LayoutOffset(image, n) \in Int /\ LayoutSize(image, n) \in Nat \ {0}
      /\ LayoutOffset(image, n) >= 16
  BY <1>1, <1>2, LayoutTypes
<1>5. At(Start(n, LayoutOffset(image, n)), n)
  BY StartsAt DEF Strayed
<1>6. Start(n, LayoutOffset(image, n)) \in Int
  BY <1>2, <1>4, Offsets
<1>7. QED
  BY <1>1, <1>2, <1>3, <1>4, <1>5, <1>6 DEF At

\* Where an operation on a XEX image starts and ends.
LEMMA XexOperation ==
  ASSUME Typed, CursorInv, disk.type = "XEX", NEW n \in Sectors \ {0}, ~ (slipped /\ n = disk.last_sector + 1)
  PROVE  LET offset == xex_offset(n)
             start == Start(n, offset)
             len == Max2(0, Min2(253, image.size - start))
         IN /\ offset = LayoutOffset(image, n) /\ offset + 253 = LayoutOffset(image, n + 1)
            /\ start \in Int /\ offset \in Int /\ len \in Nat
            /\ len = Max2(0, Min2(253, image.size - offset))
            /\ len > 0 => start = offset
            /\ IF n < 369 THEN start < 0 ELSE start >= 0
            /\ start >= 0 => \/ start + len = offset + 253
                             \/ start + len >= image.size /\ offset + 253 >= image.size
<1> DEFINE offset == xex_offset(n)
           start == Start(n, offset)
           len == Max2(0, Min2(253, image.size - start))
<1>1. image \in Images /\ image.type = "XEX" /\ n \in Nat \ {0} /\ n + 1 \in Nat \ {0} /\ image.size \in Nat
  BY ImageTypes, SectorNumbers DEF Typed
<1>2. /\ offset \in Int /\ offset = LayoutOffset(image, n)
      /\ IF n < 369 THEN offset < 0 ELSE offset >= 0
  BY <1>1, LayoutTypes
<1>3. LayoutOffset(image, n + 1) = offset + 253
  BY <1>1 DEF LayoutOffset, xex_offset
<1>4. /\ start = offset \/ (start >= image.size /\ offset >= image.size)
      /\ n < 369 => start = offset
  BY <1>2, StartsAt DEF At, Strayed
<1>5. start \in Int
  BY <1>1, <1>2, Offsets
<1> HIDE DEF offset, start
<1>6. len \in Nat /\ len = Max2(0, Min2(253, image.size - offset))
  BY <1>1, <1>2, <1>4, <1>5 DEF Min2, Max2
<1>7. len > 0 => start = offset
  BY <1>1, <1>2, <1>4, <1>5 DEF Min2, Max2
<1>8. start >= 0 => \/ start + len = offset + 253
                    \/ start + len >= image.size /\ offset + 253 >= image.size
  BY <1>1, <1>2, <1>4, <1>5 DEF Min2, Max2
<1>9. IF n < 369 THEN start < 0 ELSE start >= 0
  BY <1>1, <1>2, <1>4, <1>5
<1>10. QED
  BY <1>2, <1>3, <1>5, <1>6, <1>7, <1>8, <1>9 DEF offset, start

\* A disk that remembers no sector has to seek.
LEMMA Forgets ==
  ASSUME disk'.last_sector = INVALID_SECTOR_VALUE
  PROVE  CursorInv'
BY DEF CursorInv, CursorTrue, DataRemembered

\* A disk that remembers a sector has its handle behind it.
LEMMA Remembers ==
  ASSUME Typed, disk.type # "UNKNOWN", NEW n \in Sectors, NEW p \in Int,
         disk' = [disk EXCEPT !.last_sector = n], pos' = [pos EXCEPT ![fh] = p],
         image' = image, fh' = fh, disk.type = "XEX" => n >= 369, Strayed' \/ At(p, n + 1)
  PROVE  CursorInv'
<1>1. disk'.type = disk.type /\ disk'.last_sector = n
  BY Remember, SectorNumbers DEF Typed
<1>2. pos'[fh'] = p
  BY DEF Typed
<1>3. QED
  BY <1>1, <1>2 DEF CursorInv, CursorTrue, DataRemembered, At

\* A failing operation is forgotten.
LEMMA FailsForgets ==
  ASSUME Typed, NEW op, NEW n, NEW offset, Fails(op, n, offset)
  PROVE  CursorInv'
<1>1. disk' = [disk EXCEPT !.last_sector = INVALID_SECTOR_VALUE]
  BY DEF Fails
<1>2. QED
  BY <1>1, Remember, NoSector, Forgets DEF Typed

\* Sector 0 of an ATR image is past the end of the file.
LEMMA ZeroRefused ==
  ASSUME Typed, ReadAtr(0)
  PROVE  /\ Fails("read", 0, _sector_to_offset(disk.sector_size, 0)) /\ image' = image
<1>1. disk.type # "UNKNOWN" /\ 0 \in Nat /\ image' = image
  BY DEF ReadAtr
<1>2. _sector_to_offset(disk.sector_size, 0) = FarAway
  BY DEF _sector_to_offset
<1>3. /\ sector_size(disk.sector_size, 0) \in Nat /\ image.size \in Nat /\ image.size < FarAway
      /\ FarAway \in Nat
  <2>1. sector_size(disk.sector_size, 0) \in {128, 256, 512}
    BY <1>1, Offsets
  <2>2. image.size \in Nat /\ image.size < FarAway
    BY ImageTypes DEF Typed
  <2>3. FarAway \in Nat
    BY DEF FarAway
  <2>4. QED
    BY <2>1, <2>2, <2>3
<1>4. disk.last_sector \in Nat
  BY DEF Typed, DiskRecords, LastSectors
<1>5. Start(0, FarAway) = FarAway
  BY <1>4 DEF Start
<1>6. ~ (Start(0, FarAway) + sector_size(disk.sector_size, 0) <= image.size)
  BY <1>3, <1>5
<1>7. QED
  BY <1>1, <1>2, <1>6 DEF ReadAtr

\* The sector after a piece of a XEX file is one.
LEMMA Continues ==
  ASSUME Typed, CursorInv, disk.type = "XEX", NEW n \in Sectors, n = disk.last_sector + 1
  PROVE  n >= 369
<1>1. n < INVALID_SECTOR_VALUE /\ n \in Nat /\ INVALID_SECTOR_VALUE \in Nat /\ disk.last_sector \in Nat
  BY SectorNumbers DEF Typed, DiskRecords, LastSectors
<1>2. disk.last_sector # INVALID_SECTOR_VALUE
  BY <1>1
<1>3. QED
  BY <1>1, <1>2 DEF CursorInv, DataRemembered

LEMMA StrayedFine ==
  ASSUME Typed, disk.type = "XEX", NEW n \in Sectors, disk' = [disk EXCEPT !.last_sector = n], slipped', n >= 369
  PROVE  CursorInv'
<1>1. disk'.type = "XEX" /\ disk'.last_sector = n
  BY Remember, SectorNumbers DEF Typed
<1>2. QED
  BY <1>1 DEF CursorInv, CursorTrue, DataRemembered, Strayed

\* Every step leaves the handle where the code believes it to be.
LEMMA CursorStep ==
  ASSUME Typed, Placed(image) => CursorInv, [Next]_vars, Placed(image)'
  PROVE  CursorInv'
<1>a. ASSUME image' = image PROVE Placed(image) /\ CursorInv
  BY <1>a DEF Placed
<1>1. ASSUME NEW i \in Images, NEW h \in Handles, mount(i, h) \/ MountFails(i, h) PROVE CursorInv'
  BY <1>1, Forgets DEF mount, MountFails, NoDisk
<1>2. CASE unmount
  BY <1>2, Forgets DEF unmount, NoDisk
<1>3. ASSUME NEW n \in Sectors, ReadAtr(n) PROVE CursorInv'
  <2> DEFINE len == sector_size(disk.sector_size, n)
             offset == _sector_to_offset(disk.sector_size, n)
             start == Start(n, offset)
  <2>1. disk.type = "ATR" /\ image' = image /\ fh' = fh
    BY <1>3 DEF ReadAtr
  <2>0. CASE n = 0
    BY <1>3, <2>0, ZeroRefused, FailsForgets
  <2>2. n # 0 => /\ offset + len = LayoutOffset(image, n + 1)
                 /\ start = offset \/ start >= image.size
                 /\ offset \in Nat /\ start \in Int /\ len \in Nat \ {0} /\ image.size \in Nat
    BY <1>a, <2>1, AtrOperation
  <2>3. CASE /\ n # 0 /\ start + len <= image.size
             /\ pos' = [pos EXCEPT ![fh] = start + len]
             /\ disk' = [disk EXCEPT !.last_sector = n]
    <3> HIDE DEF len, offset, start
    <3>1. start + len = LayoutOffset(image, n + 1) /\ start + len \in Int
      BY <2>2, <2>3
    <3>2. At(start + len, n + 1)
      BY <3>1 DEF At
    <3>3. QED
      BY <2>1, <2>3, <3>1, <3>2, Remembers
  <2>4. CASE Fails("read", n, offset)
    BY <2>4, FailsForgets
  <2>5. QED
    BY <1>3, <2>0, <2>3, <2>4 DEF ReadAtr
<1>4. ASSUME NEW n \in Sectors, ReadFaked(n) PROVE CursorInv'
  BY <1>4, Remember, NoSector, Forgets DEF ReadFaked, Typed
<1>5. ASSUME NEW n \in Sectors, ReadXex(n) PROVE CursorInv'
  <2> DEFINE offset == xex_offset(n)
             start == Start(n, offset)
             len == Max2(0, Min2(253, image.size - start))
  <2>1. disk.type = "XEX" /\ image' = image /\ fh' = fh /\ n > 3 /\ n \in Sectors \ {0}
    BY <1>5 DEF ReadXex
  <2>2. ~ (slipped /\ n = disk.last_sector + 1) =>
        /\ offset + 253 = LayoutOffset(image, n + 1)
        /\ start \in Int /\ len \in Nat
        /\ IF n < 369 THEN start < 0 ELSE start >= 0
        /\ start >= 0 => \/ start + len = offset + 253
                         \/ start + len >= image.size /\ offset + 253 >= image.size
    BY <1>a, <2>1, XexOperation
  <2>3. CASE /\ start >= 0
             /\ pos' = [pos EXCEPT ![fh] = start + len]
             /\ disk' = [disk EXCEPT !.last_sector = n]
             /\ slipped' = (slipped /\ n = disk.last_sector + 1)
    <3> HIDE DEF len, offset, start
    <3>1. CASE ~ (slipped /\ n = disk.last_sector + 1)
      <4>1. At(start + len, n + 1) /\ start + len \in Int /\ n >= 369
        BY <2>2, <2>3, <3>1, SectorNumbers DEF At
      <4>2. QED
        BY <2>1, <2>3, <4>1, Remembers
    <3>2. CASE slipped /\ n = disk.last_sector + 1
      <4>1. slipped'
        BY <2>3, <3>2
      <4>2. n >= 369
        BY <1>a, <2>1, <3>2, Continues
      <4>3. QED
        BY <2>1, <2>3, <4>1, <4>2, StrayedFine
    <3>3. QED
      BY <3>1, <3>2
  <2>4. CASE Fails("read", n, pos[fh]) \/ Fails("read", n, Max2(0, offset))
    BY <2>4, FailsForgets
  <2>5. QED
    BY <1>5, <2>3, <2>4 DEF ReadXex
<1>10. ASSUME NEW n \in Sectors, ReadXexShort(n) PROVE CursorInv'
  <2>1. /\ disk.type = "XEX" /\ image' = image /\ fh' = fh /\ n > 3 /\ slipped' = TRUE
        /\ disk' = [disk EXCEPT !.last_sector = n] /\ Start(n, xex_offset(n)) >= 0
    BY <1>10 DEF ReadXexShort
  <2>2. CASE n = disk.last_sector + 1
    BY <1>a, <2>1, <2>2, Continues, StrayedFine
  <2>3. CASE n # disk.last_sector + 1
    <3>1. xex_offset(n) >= 0 /\ n \in Nat
      BY <2>1, <2>3, SectorNumbers DEF Start
    <3>2. n >= 369
      BY <3>1 DEF xex_offset
    <3>3. QED
      BY <2>1, <3>2, StrayedFine
  <2>4. QED
    BY <2>2, <2>3
<1>6. ASSUME NEW n \in Sectors, WriteAtr(n) PROVE CursorInv'
  <2> DEFINE len == sector_size(disk.sector_size, n)
             offset == _sector_to_offset(disk.sector_size, n)
  <2>1. disk.type = "ATR" /\ image' = image /\ fh' = fh /\ n \in Sectors \ {0}
    BY <1>6 DEF WriteAtr
  <2>2. offset + len = LayoutOffset(image, n + 1) /\ offset \in Nat /\ len \in Nat
    BY <1>a, <2>1, AtrOperation
  <2>3. CASE /\ pos' = [pos EXCEPT ![fh] = offset + len]
             /\ disk' = [disk EXCEPT !.last_sector = n]
    <3> HIDE DEF len, offset
    <3>1. At(offset + len, n + 1) /\ offset + len \in Int
      BY <2>2 DEF At
    <3>2. QED
      BY <2>1, <2>3, <3>1, Remembers
  <2>4. CASE Fails("write", n, offset)
    BY <2>4, FailsForgets
  <2>5. QED
    BY <1>6, <2>3, <2>4 DEF WriteAtr
<1>7. ASSUME NEW n \in Sectors, NEW h \in Handles, WriteHighScore(n, h) \/ WriteHighScoreFails(n, h)
      PROVE  CursorInv'
  BY <1>7, Remember, NoSector, Forgets DEF WriteHighScore, WriteHighScoreFails, Typed
<1>8. CASE UNCHANGED <<image, disk, fh, pos, slipped>>
  BY <1>a, <1>8 DEF CursorInv, CursorTrue, DataRemembered, Strayed
<1>9. QED
  BY <1>10, <1>1, <1>2, <1>3, <1>4, <1>5, <1>6, <1>7, <1>8 DEF Next, vars, Refused

\* The cursor is true throughout.
LEMMA CursorAlways == Spec => [](Placed(image) => CursorInv)
<1>1. Init => CursorInv
  BY DEF Init, NoDisk, CursorInv, CursorTrue, DataRemembered
<1>2. Typed /\ (Placed(image) => CursorInv) /\ [Next]_vars => (Placed(image) => CursorInv)'
  BY CursorStep
<1>3. QED
  BY <1>1, <1>2, TypedAlways, PTL DEF Spec

\* The handle stands behind the last sector whenever the code omits a seek,
\* whatever was read, written, refused or failed before; but for a XEX file of
\* which a read came up short and was taken for a whole one (MediaTypeXEX::read).
THEOREM SeekOmittedSafely == Spec => [](Placed(image) => CursorTrue)
<1>1. CursorInv => CursorTrue
  BY DEF CursorInv
<1>2. QED
  BY <1>1, CursorAlways, PTL

-----------------------------------------------------------------------------
(***************************************************************************)
(* The bytes of a sector, in a file of the size create() gives it.         *)
(***************************************************************************)
Created(i) ==
  i.type = "ATR" => /\ Placed(i) /\ i.sectors >= 3
                    /\ i.size = create_file_size(i.sector_size, i.sectors)

\* A sector of a created image is in the file, all of it.
LEMMA SectorInFile ==
  ASSUME NEW i \in Images, i.type = "ATR", Created(i), NEW n \in Nat \ {0}, n <= i.sectors
  PROVE  /\ LayoutOffset(i, n) + LayoutSize(i, n) <= i.size
         /\ LayoutLen(i, n) = LayoutSize(i, n)
<1>1. i.size \in Nat /\ i.sectors \in Nat
  BY ImageTypes
<1>2. LayoutOffset(i, n) + LayoutSize(i, n) <= i.size
  <2>1. CASE i.sector_size = 128
    BY <1>1, <2>1 DEF Created, create_file_size, LayoutOffset, LayoutSize
  <2>2. CASE i.sector_size = 256
    BY <1>1, <2>2 DEF Created, create_file_size, LayoutOffset, LayoutSize
  <2>3. QED
    BY <2>1, <2>2, ImageTypes DEF Created, Placed
<1>3. LayoutOffset(i, n) \in Int /\ LayoutSize(i, n) \in Nat \ {0}
  BY LayoutTypes
<1>4. QED
  BY <1>1, <1>2, <1>3 DEF LayoutLen, Min2, Max2

\* What RangeExact says of the last operation.
OperationExact ==
  io.op \in {"read", "write"} =>
    /\ (~ io.err /\ ~ Strayed) => /\ io.len = LayoutLen(image, io.sector)
                                  /\ io.len > 0 => io.from = LayoutOffset(image, io.sector)
    /\ io.err => faults > 0 \/ (image.type = "XEX" /\ io.sector < VTOC_SECTOR) \/ io.sector = 0

\* The sectors counted at the mount are those of the image.
Counted == disk.type = "ATR" => disk.num_sectors = image.sectors

\* An operation of its whole sector is exact.
LEMMA WholeSector ==
  ASSUME NEW op, NEW n, NEW from, NEW len, io' = IO(op, n, from, len), image' = image,
         len = LayoutLen(image, n), len > 0 => from = LayoutOffset(image, n)
  PROVE  OperationExact'
<1>1. ~ io'.err /\ io'.len = len /\ io'.sector = n /\ io'.from = from
  BY DEF IO
<1>2. QED
  BY <1>1 DEF OperationExact

\* An operation that fails because the file did is exact.
LEMMA FaultyOperation ==
  ASSUME Typed, Fault, NEW op, NEW n, io' = IOError(op, n)
  PROVE  OperationExact'
<1>1. io'.err
  BY DEF IOError, NoIO
<1>2. faults' > 0
  BY DEF Fault, Typed
<1>3. QED
  BY <1>1, <1>2 DEF OperationExact

\* The count of the mount stays what it was.
LEMMA CountedStep ==
  ASSUME Typed, Counted, [Next]_vars
  PROVE  Counted'
<1>1. ASSUME NEW i \in Images, NEW h \in Handles, mount(i, h) PROVE Counted'
  BY <1>1, SectorCount DEF mount, Counted
<1>2. CASE disk' = NoDisk
  BY <1>2 DEF NoDisk, Counted
<1>3. ASSUME NEW s \in LastSectors, disk' = [disk EXCEPT !.last_sector = s], image' = image PROVE Counted'
  <2>1. disk'.type = disk.type /\ disk'.num_sectors = disk.num_sectors
    BY <1>3, Remember DEF Typed
  <2>2. QED
    BY <1>3, <2>1 DEF Counted
<1>4. CASE UNCHANGED <<disk, image>>
  BY <1>4 DEF Counted
<1>5. ASSUME NEW n \in Sectors,
             \/ ReadAtr(n) \/ ReadFaked(n) \/ ReadXex(n) \/ ReadXexShort(n) \/ WriteAtr(n)
             \/ \E h \in Handles : WriteHighScore(n, h) \/ WriteHighScoreFails(n, h)
      PROVE  Counted'
  <2>1. \/ disk' = [disk EXCEPT !.last_sector = n]
        \/ disk' = [disk EXCEPT !.last_sector = INVALID_SECTOR_VALUE]
    BY <1>5 DEF ReadAtr, ReadFaked, ReadXex, ReadXexShort, WriteAtr, WriteHighScore, WriteHighScoreFails, Fails
  <2>2. image' = image
    BY <1>5 DEF ReadAtr, ReadFaked, ReadXex, ReadXexShort, WriteAtr, WriteHighScore, WriteHighScoreFails
  <2>3. QED
    BY <1>3, <2>1, <2>2, SectorNumbers, NoSector
<1>6. QED
  BY <1>1, <1>2, <1>4, <1>5 DEF Next, vars, MountFails, unmount, Refused

\* Every operation is exact, of an image that is placed and created.
LEMMA OperationStep ==
  ASSUME Typed, Counted, Placed(image) => CursorInv, Created(image) => OperationExact,
         [Next]_vars, Created(image)'
  PROVE  OperationExact'
<1>a. ASSUME image' = image PROVE Created(image) /\ OperationExact /\ Placed(image) /\ CursorInv
  <2>1. Created(image) /\ OperationExact
    BY <1>a DEF Created, Placed
  <2>2. Placed(image)
    BY <2>1, ImageTypes DEF Typed, Created, Placed
  <2>3. QED
    BY <2>1, <2>2
<1>1. CASE io' = NoIO
  BY <1>1 DEF NoIO, OperationExact
<1>2. ASSUME NEW n \in Sectors, ReadAtr(n) PROVE OperationExact'
  <2> DEFINE len == sector_size(disk.sector_size, n)
             offset == _sector_to_offset(disk.sector_size, n)
             start == Start(n, offset)
  <2>1. disk.type = "ATR" /\ image' = image /\ n <= disk.num_sectors
    BY <1>2 DEF ReadAtr
  <2>0. CASE n = 0
    <3>1. Fails("read", 0, _sector_to_offset(disk.sector_size, 0))
      BY <1>2, <2>0, ZeroRefused
    <3>2. io' = IOError("read", 0)
      BY <3>1 DEF Fails
    <3>3. io'.err /\ io'.sector = 0
      BY <3>2 DEF IOError, NoIO
    <3>4. QED
      BY <3>3 DEF OperationExact
  <2>00. SUFFICES ASSUME n # 0 PROVE OperationExact'
    BY <2>0
  <2>2. /\ offset = LayoutOffset(image, n) /\ len = LayoutSize(image, n)
        /\ start = offset \/ (start >= image.size /\ offset >= image.size)
        /\ offset \in Nat /\ start \in Int /\ len \in Nat \ {0} /\ image.size \in Nat
    BY <1>a, <2>1, <2>00, AtrOperation
  <2>3. offset + len <= image.size /\ LayoutLen(image, n) = len
    BY <1>a, <2>1, <2>00, <2>2, SectorInFile, SectorNumbers DEF Typed, Counted
  <2>4. start = offset /\ start + len <= image.size
    <3> HIDE DEF len, offset, start
    <3> QED BY <2>2, <2>3
  <2>5. CASE io' = IO("read", n, start, len)
    BY <2>1, <2>2, <2>3, <2>4, <2>5, WholeSector
  <2>6. CASE start + len > image.size
    <3> HIDE DEF len, offset, start
    <3> QED BY <2>2, <2>4, <2>6
  <2>7. CASE Fault /\ Fails("read", n, offset)
    BY <2>7, FaultyOperation DEF Fails
  <2>8. QED
    BY <1>2, <2>5, <2>6, <2>7 DEF ReadAtr
<1>3. ASSUME NEW n \in Sectors, ReadFaked(n) PROVE OperationExact'
  <2>1. io'.op = "faked"
    BY <1>3 DEF ReadFaked, IO
  <2>2. QED
    BY <2>1 DEF OperationExact
<1>4. ASSUME NEW n \in Sectors, ReadXex(n) PROVE OperationExact'
  <2> DEFINE offset == xex_offset(n)
             start == Start(n, offset)
             len == Max2(0, Min2(253, image.size - start))
  <2>1. disk.type = "XEX" /\ image' = image /\ n \notin 360 .. 368 /\ n \in Sectors \ {0}
    BY <1>4 DEF ReadXex
  <2>0. CASE slipped /\ n = disk.last_sector + 1
    <3>1. CASE io' = IO("read", n, start, len) /\ slipped' = (slipped /\ n = disk.last_sector + 1) /\ disk' = [disk EXCEPT !.last_sector = n]
      <4>1. ~ io'.err /\ slipped' /\ disk'.type = "XEX"
        BY <2>0, <2>1, <3>1, Remember, SectorNumbers DEF IO, Typed
      <4>2. QED
        BY <4>1 DEF OperationExact, Strayed
    <3>2. QED
      BY <1>4, <2>0, <3>1 DEF ReadXex
  <2>00. SUFFICES ASSUME ~ (slipped /\ n = disk.last_sector + 1) PROVE OperationExact'
    BY <2>0
  <2>2. /\ offset = LayoutOffset(image, n) /\ start \in Int
        /\ len = Max2(0, Min2(253, image.size - offset))
        /\ len > 0 => start = offset
        /\ IF n < 369 THEN start < 0 ELSE start >= 0
    BY <1>a, <2>1, <2>00, XexOperation
  <2>3. image.type = "XEX" /\ n \in Nat
    BY <2>1, SectorNumbers DEF Typed
  <2>4. len = LayoutLen(image, n)
    BY <2>2, <2>3 DEF LayoutLen, LayoutSize
  <2>5. CASE io' = IO("read", n, start, len)
    <3> HIDE DEF len, offset, start
    <3> QED BY <2>1, <2>2, <2>4, <2>5, WholeSector
  <2>6. CASE n # disk.last_sector + 1 /\ offset < 0 /\ Fails("read", n, pos[fh])
    <3>0. start = offset
      BY <2>6 DEF Start
    <3>1. n < 360
      <4> HIDE DEF len, offset, start
      <4> QED BY <2>1, <2>2, <2>3, <2>6, <3>0
    <3>2. io' = IOError("read", n)
      BY <2>6 DEF Fails
    <3>3. io'.err /\ io'.sector = n
      BY <3>2 DEF IOError, NoIO
    <3>4. QED
      BY <2>1, <2>3, <3>1, <3>3 DEF OperationExact
  <2>7. CASE Fault /\ Fails("read", n, Max2(0, offset))
    BY <2>7, FaultyOperation DEF Fails
  <2>8. QED
    BY <1>4, <2>5, <2>6, <2>7 DEF ReadXex
<1>5. ASSUME NEW n \in Sectors, disk.type = "ATR", n \in 1 .. disk.num_sectors, image' = image,
             io' = IO("write", n, _sector_to_offset(disk.sector_size, n), sector_size(disk.sector_size, n))
      PROVE  OperationExact'
  <2> DEFINE len == sector_size(disk.sector_size, n)
             offset == _sector_to_offset(disk.sector_size, n)
  <2>1. offset = LayoutOffset(image, n) /\ len = LayoutSize(image, n)
    BY <1>a, <1>5, AtrOperation
  <2>2. LayoutLen(image, n) = len
    BY <1>a, <1>5, <2>1, SectorInFile, SectorNumbers DEF Typed, Counted
  <2>3. QED
    BY <1>5, <2>1, <2>2, WholeSector
<1>6. ASSUME NEW n \in Sectors, WriteAtr(n) PROVE OperationExact'
  <2>1. CASE Fault /\ Fails("write", n, _sector_to_offset(disk.sector_size, n))
    BY <2>1, FaultyOperation DEF Fails
  <2>2. QED
    BY <1>5, <1>6, <2>1 DEF WriteAtr
<1>7. ASSUME NEW n \in Sectors, NEW h \in Handles, WriteHighScore(n, h) PROVE OperationExact'
  BY <1>5, <1>7 DEF WriteHighScore
<1>8. ASSUME NEW n \in Sectors, NEW h \in Handles, WriteHighScoreFails(n, h) PROVE OperationExact'
  BY <1>8, FaultyOperation DEF WriteHighScoreFails
<1>9. ASSUME NEW n \in Sectors, Refused(n) PROVE OperationExact'
  <2>1. io'.op \in {"beyond", "readonly"}
    BY <1>9 DEF Refused, IOError, NoIO
  <2>2. QED
    BY <2>1 DEF OperationExact
<1>10. CASE UNCHANGED vars
  BY <1>a, <1>10 DEF vars, OperationExact, Strayed
<1>12. ASSUME NEW n \in Sectors, ReadXexShort(n) PROVE OperationExact'
  <2>1. /\ slipped' = TRUE /\ disk' = [disk EXCEPT !.last_sector = n] /\ disk.type = "XEX"
        /\ \E k, start : io' = IO("read", n, start, k)
    BY <1>12 DEF ReadXexShort
  <2>2. disk'.type = "XEX" /\ ~ io'.err
    BY <2>1, Remember, SectorNumbers DEF Typed, IO
  <2>3. QED
    BY <2>1, <2>2 DEF OperationExact, Strayed
<1>11. QED
  BY <1>12, <1>1, <1>2, <1>3, <1>4, <1>6, <1>7, <1>8, <1>9, <1>10 DEF Next, mount, MountFails, unmount

\* A sector operation that reports success touched exactly the bytes of its
\* sector, and none is refused unless a file operation failed.  Excepted are a
\* read of a XEX file that came up short and those that follow it without a seek.
THEOREM SectorsExact == Spec => [](Created(image) => RangeExact)
<1>1. Init => Counted /\ OperationExact
  BY DEF Init, NoDisk, NoIO, Counted, OperationExact
<1>2. Typed /\ Counted /\ [Next]_vars => Counted'
  BY CountedStep
<1>3. /\ Typed /\ Counted /\ (Placed(image) => CursorInv)
      /\ (Created(image) => OperationExact) /\ [Next]_vars
      => (Created(image) => OperationExact)'
  BY OperationStep
<1>4. Counted /\ (Created(image) => OperationExact) => (Created(image) => RangeExact)
  BY DEF Counted, OperationExact, RangeExact
<1>5. Spec => []Counted
  BY <1>1, <1>2, TypedAlways, PTL DEF Spec
<1>6. QED
  BY <1>1, <1>3, <1>4, <1>5, TypedAlways, CursorAlways, PTL DEF Spec
============================================================================
