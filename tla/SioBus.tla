------------------------------- MODULE SioBus -------------------------------
(***************************************************************************)
(* The Atari SIO bus served over NetSIO: the command loop of systemBus     *)
(* (lib/bus/sio/sio.cpp), the UDP port NetSioPort                          *)
(* (lib/bus/sio/siocom/netsio.cpp), and the way the disk and network       *)
(* devices answer a command (lib/device/sio/disk.cpp, network.cpp).        *)
(*                                                                         *)
(* The emulator with its NetSIO hub is external.  It sends a command as    *)
(* COMMAND_ON, the frame, COMMAND_OFF_SYNC with a sync number, and is      *)
(* halted until the device answers that number.  The device has one        *)
(* thread; whenever it waits (for a frame, data, a checksum, credit) it    *)
(* keeps handling messages, so a later command can overtake the one that   *)
(* is still being served.                                                  *)
(*                                                                         *)
(* A command is numbered by its issue; that number is its sync number.  The*)
(* hub may ask for another sync with the last byte of a data frame.        *)
(* What a handler does on the bus is a sequence of bus operations, taken   *)
(* from the code of the command.                                           *)
(***************************************************************************)
EXTENDS Integers, Sequences, FiniteSets, SequencesExt

CONSTANTS
  MaxCommands,   \* bound on the commands issued
  Kinds,         \* the kinds of command the emulator issues
  Speeds,        \* the speeds the emulator uses, of {"std", "high"}
  MaxFaults,     \* bound on commands abandoned and connections lost
  StatusWait,    \* status_wait_count of the boot disk
  InitialCredit  \* _credit of a new port

ASSUME BusAssumption ==
  /\ MaxCommands \in Nat /\ MaxFaults \in Nat /\ StatusWait \in Nat /\ InitialCredit \in Nat
  /\ Speeds \subseteq {"std", "high"}

\* COMMAND_FRAME_SPEED_CHANGE_THRESHOLD (sio.h)
Threshold == 2
None == -1

VARIABLES
  emu,     \* the emulator: its state, its command and that command's kind
  inq,     \* datagrams from the hub, not received yet
  outq,    \* datagrams to the hub, not received yet
  port,    \* the members of NetSioPort
  pc,      \* where the device thread is
  todo,    \* bus operations the running handler still has to do
  out,     \* datagrams of the current write, each waiting for credit
  buf,     \* bytes read so far for the frame or the data block
  cur,     \* the command being handled, 0 for none
  bus,     \* the members of systemBus and of the boot disk
  budget,  \* faults left
  hist     \* history: answers sent per command, frames rejected in a row,
           \* whether a command was abandoned while the device was busy

vars == <<emu, inq, outq, port, pc, todo, out, buf, cur, bus, budget, hist>>
dev == <<pc, todo, out, buf, cur>>

Commands == 1..MaxCommands
\* The sync number of the data frame of command k.
DataSyncOf(k) == k + MaxCommands
Syncs == 1..2*MaxCommands

(***************************************************************************)
(* Kinds of command, by what the handler does on the bus:                  *)
(*   read, index       a data frame to the computer (index then toggles    *)
(*                     the speed)                                          *)
(*   control           no data frame                                       *)
(*   put               a data frame from the computer                      *)
(*   hsput             the same with HSIO PUT, whose handler falls through *)
(*                     to a NAK; not among the Kinds of the run, because   *)
(*                     CommandEnds fails with it                           *)
(*   nak               refused by the device                               *)
(*   closed            WRITE to an N: channel that is not open             *)
(*   none              no device on the bus takes it                       *)
(*   status1, read1    STATUS and READ of D1, the CONFIG disk at boot      *)
(***************************************************************************)
ReadKinds == {"read", "index", "status1", "read1"}

(***************************************************************************)
(* Datagrams.  A byte is known by the command it belongs to, its place,    *)
(* and whether it was received at the speed it was sent with.              *)
(***************************************************************************)
Byte(k, part, ok) == [cmd |-> k, part |-> part, ok |-> ok]
OnMsg == [type |-> "ON"]
OffSync(k) == [type |-> "OFF_SYNC", num |-> k]
Data(k, parts) == [type |-> "DATA", cmd |-> k, parts |-> parts]
DataSync(k, part) == [type |-> "DATA_SYNC", cmd |-> k, parts |-> <<part>>, num |-> DataSyncOf(k)]
Speed(s) == [type |-> "SPEED", speed |-> s]
Credit(n) == [type |-> "CREDIT", credit |-> n]
SyncResponse(k, t, c, n) == [type |-> "SYNC_RESPONSE", num |-> k, ack |-> t, byte |-> c, size |-> n]
DataByte(c) == [type |-> "DATA", byte |-> c]

FrameParts == <<"frame1", "frame2">>
DataParts == <<"data", "cksum">>

(***************************************************************************)
(* NetSioPort::handle_netsio: what one received datagram does to the port. *)
(***************************************************************************)
RxPut(p, m) ==
  [p EXCEPT !.rx = @ \o [i \in 1..Len(m.parts) |->
                            Byte(m.cmd, m.parts[i], p.baud = p.baud_peer)]]

handle_netsio(p, m) ==
  CASE m.type = "ON" ->
         [p EXCEPT !.command_asserted = TRUE, !.sync_num = None,
                   !.sync_write_size = None, !.rx = <<>>]
    [] m.type = "OFF_SYNC" -> [p EXCEPT !.command_asserted = FALSE, !.sync_num = m.num]
    [] m.type = "DATA" -> RxPut(p, m)
    [] m.type = "DATA_SYNC" -> [RxPut(p, m) EXCEPT !.sync_num = m.num]
    [] m.type = "SPEED" -> [p EXCEPT !.baud_peer = m.speed]
    [] m.type = "CREDIT" -> [p EXCEPT !.credit = m.credit]

\* One call of handle_netsio that finds a datagram.
Receive ==
  /\ inq # <<>>
  /\ port.initialized
  /\ port' = handle_netsio(port, Head(inq))
  /\ inq' = Tail(inq)

(***************************************************************************)
(* NetSioPort::write(c) and send_sync_response: the datagrams a written    *)
(* byte becomes.  A pending sync request is cleared before any of them is  *)
(* sent.                                                                   *)
(***************************************************************************)
write(c) ==
  IF port.sync_num = None THEN <<DataByte(c)>>
  ELSE IF port.sync_write_size = None
       THEN <<SyncResponse(port.sync_num, "ACK", c, 0)>>
       ELSE <<SyncResponse(port.sync_num, "ACK", port.sync_ack_byte, port.sync_write_size),
              DataByte(c)>>

\* Mutant: only the size of the data frame is forgotten.
ClearSync_KeepNum(p) == [p EXCEPT !.sync_write_size = None]

ClearSync(p) == [p EXCEPT !.sync_num = None, !.sync_write_size = None]

\* Mutant: the speed is set to what it is.
Other_Same(s) == s

Other(s) == IF s = "std" THEN "high" ELSE "std"

\* systemBus::toggleBaudrate; a port that is not initialized keeps its speed.
toggleBaudrate ==
  /\ bus' = [bus EXCEPT !.sioBaud = Other(@)]
  /\ port' = IF port.initialized THEN [port EXCEPT !.baud = Other(bus.sioBaud)] ELSE port

(***************************************************************************)
(* What the handlers do on the bus, as sequences of bus operations: a      *)
(* letter is a byte written, "block" a data block written, "flush" the     *)
(* port's flush, "acked" the flush and set_command_processed that end      *)
(* sio_ack and sio_nak.                                                    *)
(***************************************************************************)
sio_ack == <<"A", "acked">>
sio_nak == <<"N", "acked">>
bus_to_computer(err) == <<IF err THEN "E" ELSE "C", "block", "K", "flush">>
bus_to_peripheral == <<"size", "data", "cksum">>
\* Mutant: the acknowledge does not wait for the size of the data frame.
sio_late_ack_Now == <<"A", "acked">>

sio_late_ack == <<"late">>

\* The boot disk handles D1 while CONFIG is booting.
BootWaits == bus.boot_config /\ bus.status_wait_count > 0

Handler(kind, err) ==
  CASE kind = "read" -> sio_ack \o bus_to_computer(err)
    [] kind = "index" -> sio_ack \o bus_to_computer(FALSE) \o <<"toggle">>
    [] kind = "control" -> sio_ack \o <<IF err THEN "E" ELSE "C">>
    [] kind = "put" -> sio_late_ack \o bus_to_peripheral \o <<"outcome">>
    [] kind = "hsput" -> sio_late_ack \o bus_to_peripheral \o <<"outcome">> \o sio_nak
    [] kind = "nak" -> sio_nak
    [] kind = "closed" -> <<"E">>
    [] kind \in {"status1", "read1"} /\ bus.boot_config /\ ~BootWaits ->
         sio_ack \o bus_to_computer(FALSE)
    [] OTHER -> <<>>

(***************************************************************************)
(* The initial state: port connected, nothing issued.                      *)
(***************************************************************************)
Init ==
  /\ emu = [st |-> "run", cmd |-> 0, speed |-> "std", kind |-> [k \in Commands |-> "none"]]
  /\ inq = <<>> /\ outq = <<>>
  /\ port = [rx |-> <<>>, command_asserted |-> FALSE, sync_num |-> None,
             sync_write_size |-> None, sync_ack_byte |-> "A", credit |-> InitialCredit,
             baud |-> "std", baud_peer |-> "std", initialized |-> TRUE]
  /\ pc = "idle" /\ todo = <<>> /\ out = <<>> /\ buf = <<>> /\ cur = 0
  /\ bus = [sioBaud |-> "std", command_frame_counter |-> 0, processed |-> FALSE,
            boot_config |-> TRUE, status_wait_count |-> StatusWait]
  /\ budget = MaxFaults
  /\ hist = [answers |-> [k \in Syncs |-> <<>>], rejects |-> 0, disturbed |-> FALSE]

(***************************************************************************)
(* The emulator and the hub (external).                                    *)
(***************************************************************************)
\* Nothing of an earlier command is left on the device side.
Quiescent == pc = "idle" /\ inq = <<>> /\ ~port.command_asserted

Issue(kind, s) ==
  LET k == emu.cmd + 1 IN
  /\ emu.st = "run" /\ emu.cmd < MaxCommands
  /\ port.initialized
  /\ emu' = [emu EXCEPT !.st = "halt", !.cmd = k, !.speed = s, !.kind[k] = kind]
  /\ inq' = inq \o (IF s = emu.speed THEN <<>> ELSE <<Speed(s)>>)
                \o <<OnMsg, Data(k, FrameParts), OffSync(k)>>
  /\ hist' = [hist EXCEPT !.disturbed = @ /\ ~Quiescent,
                          !.rejects = IF s = emu.speed /\ ~hist.disturbed THEN @ ELSE 0]
  /\ UNCHANGED <<outq, port, dev, bus, budget>>

\* The emulator runs on after an empty answer or a refusal; after 'A' it sends
\* the data frame it was asked for, or waits for the outcome.
OnSyncResponse(m) ==
  LET accepted == m.ack = "ACK" /\ m.byte = "A" IN
  IF emu.st = "halt" /\ m.num = emu.cmd
    THEN IF ~accepted THEN "run" ELSE IF m.size > 0 THEN "senddata" ELSE "await"
  ELSE IF emu.st = "halt2" /\ m.num = DataSyncOf(emu.cmd)
    THEN IF accepted THEN "await" ELSE "run"
  ELSE emu.st

Ends(c) == IF emu.kind[emu.cmd] \in ReadKinds THEN c = "K" ELSE c \in {"C", "E", "N"}

HubReceive ==
  /\ outq # <<>>
  /\ outq' = Tail(outq)
  /\ LET m == Head(outq) IN
       emu' = [emu EXCEPT !.st =
                 IF m.type = "SYNC_RESPONSE" THEN OnSyncResponse(m)
                 ELSE IF emu.st = "await" /\ Ends(m.byte) THEN "run" ELSE @]
  /\ UNCHANGED <<inq, port, dev, bus, budget, hist>>

\* With a sync request on its last byte, the emulator is halted until the data
\* frame is acknowledged.
SendData(sync) ==
  /\ emu.st = "senddata"
  /\ emu' = [emu EXCEPT !.st = IF sync THEN "halt2" ELSE "await"]
  /\ inq' = IF ~port.initialized THEN inq
            ELSE IF sync THEN inq \o <<Data(emu.cmd, <<"data">>), DataSync(emu.cmd, "cksum")>>
            ELSE Append(inq, Data(emu.cmd, DataParts))
  /\ UNCHANGED <<outq, port, dev, bus, budget, hist>>

\* The hub grants credit again once it has passed on what it was sent.
Grant ==
  /\ out # <<>> /\ port.credit = 0 /\ port.initialized
  /\ outq = <<>>
  /\ \A i \in 1..Len(inq) : inq[i].type # "CREDIT"
  /\ inq' = Append(inq, Credit(InitialCredit))
  /\ UNCHANGED <<emu, outq, port, dev, bus, budget, hist>>

\* A time-out of the computer's SIO routine, or a reset.
GiveUp ==
  /\ emu.st # "run" /\ budget > 0
  /\ emu' = [emu EXCEPT !.st = "run"]
  /\ budget' = budget - 1
  /\ hist' = [hist EXCEPT !.disturbed = @ \/ ~Quiescent]
  /\ UNCHANGED <<inq, outq, port, dev, bus>>

\* Nothing is under way that could still reach the device: a receive time-out
\* is longer than the delay of a datagram.
Quiet == inq = <<>> /\ outq = <<>> /\ emu.st # "senddata"

\* The operation the running handler is at.
Doing(op) == pc = "run" /\ out = <<>> /\ todo # <<>> /\ Head(todo) = op

\* The device is in a call of handle_netsio.
Polls ==
  \/ pc \in {"idle", "frame", "deassert", "check"}
  \/ /\ out # <<>>
     /\ port.credit = 0
  \/ Doing("data") \/ Doing("cksum")

(***************************************************************************)
(* The connection.  keep_alive suspends the port when the hub stops        *)
(* answering; begin restores it.  Credit, speed and a pending sync request *)
(* survive; what the old socket held does not.                             *)
(***************************************************************************)
Suspend ==
  /\ budget > 0 /\ port.initialized
  /\ Polls
  /\ port' = [port EXCEPT !.initialized = FALSE]
  /\ inq' = <<>>
  /\ budget' = budget - 1
  /\ hist' = [hist EXCEPT !.disturbed = TRUE]
  /\ UNCHANGED <<emu, outq, dev, bus>>

\* keep_alive finds the hub again at once: end() and begin() in one call.
Reconnect ==
  /\ budget > 0 /\ port.initialized
  /\ Polls
  /\ port' = [port EXCEPT !.command_asserted = FALSE, !.rx = <<>>]
  /\ inq' = <<>>
  /\ budget' = budget - 1
  /\ hist' = [hist EXCEPT !.disturbed = TRUE]
  /\ UNCHANGED <<emu, outq, dev, bus>>

\* begin(), called from resume_test() where the device polls the port.
begin ==
  /\ ~port.initialized
  /\ pc \in {"idle", "deassert"} \/ (Doing("cksum") /\ port.rx = <<>>)
  /\ port' = [port EXCEPT !.initialized = TRUE, !.command_asserted = FALSE, !.rx = <<>>]
  /\ UNCHANGED <<emu, inq, outq, dev, bus, budget, hist>>

(***************************************************************************)
(* systemBus::service and _sio_process_cmd.                                *)
(***************************************************************************)
\* A call of handle_netsio: one datagram if there is one.
HandleNetsio ==
  \/ Receive
  \/ /\ inq = <<>> \/ ~port.initialized
     /\ UNCHANGED <<inq, port>>

\* service() polls the command line and starts a command when it is asserted.
service ==
  /\ pc = "idle"
  /\ inq # <<>> \/ port.command_asserted
  /\ HandleNetsio
  /\ IF port'.command_asserted
       THEN /\ pc' = "frame" /\ buf' = <<>>
            /\ bus' = [bus EXCEPT !.processed = FALSE]
       ELSE UNCHANGED <<pc, buf, bus>>
  /\ UNCHANGED <<emu, outq, todo, out, cur, budget, hist>>

\* NetSioPort::read of one byte: taken from the buffer, or one more datagram.
ReadByte ==
  /\ port.initialized
  /\ IF port.rx # <<>>
       THEN /\ buf' = Append(buf, Head(port.rx))
            /\ port' = [port EXCEPT !.rx = Tail(@)]
            /\ UNCHANGED inq
       ELSE Receive /\ UNCHANGED buf

\* The receive times out, or the port is down.
ReadFails == ~port.initialized \/ (port.rx = <<>> /\ Quiet)

ReadFrame ==
  /\ pc = "frame"
  /\ ReadByte
  /\ pc' = IF Len(buf') = Len(FrameParts) THEN "deassert" ELSE "frame"
  /\ UNCHANGED <<emu, outq, todo, out, cur, bus, budget, hist>>

\* "Timeout waiting for data after CMD pin asserted": returns at once.
FrameTimeout ==
  /\ pc = "frame"
  /\ ReadFails
  /\ pc' = "idle"
  /\ UNCHANGED <<emu, inq, outq, port, todo, out, buf, cur, bus, budget, hist>>

WaitDeassert ==
  /\ pc = "deassert"
  /\ inq # <<>> \/ ~port.command_asserted
  /\ HandleNetsio
  /\ pc' = IF port'.command_asserted THEN "deassert" ELSE "check"
  /\ UNCHANGED <<emu, outq, todo, out, buf, cur, bus, budget, hist>>

\* "Timeout waiting for CMD pin de-assert": returns at once.
DeassertTimeout ==
  /\ pc = "deassert"
  /\ port.command_asserted /\ (Quiet \/ ~port.initialized)
  /\ pc' = "idle"
  /\ UNCHANGED <<emu, inq, outq, port, todo, out, buf, cur, bus, budget, hist>>

\* available(): looks at the socket only when the buffer is empty.
Available ==
  IF port.rx = <<>> THEN HandleNetsio ELSE UNCHANGED <<inq, port>>

\* The frame's checksum is right: both bytes of one command's frame.
FrameOk ==
  \E k \in Commands : buf = [i \in 1..2 |-> Byte(k, FrameParts[i], TRUE)]

\* A frame with a good checksum is given to its device.
Dispatch ==
  /\ pc = "check" /\ FrameOk
  /\ Available
  /\ LET k == buf[1].cmd
         kind == emu.kind[k] IN
       IF kind = "read1" /\ BootWaits
       THEN \* "Disabling CONFIG boot.": returns at once
            /\ pc' = "idle"
            /\ bus' = [bus EXCEPT !.command_frame_counter = 0, !.boot_config = FALSE]
            /\ UNCHANGED <<todo, cur>>
       ELSE /\ pc' = "run" /\ cur' = k
            /\ \E err \in BOOLEAN : todo' = Handler(kind, err)
            /\ bus' = [bus EXCEPT !.command_frame_counter = 0,
                                  !.status_wait_count =
                                     IF kind = "status1" /\ BootWaits THEN @ - 1 ELSE @]
  /\ hist' = [hist EXCEPT !.rejects = 0]
  /\ UNCHANGED <<emu, outq, out, buf, budget>>

\* A frame with a bad checksum counts towards a change of speed.
RejectFrame ==
  /\ pc = "check" /\ ~FrameOk
  /\ Available
  /\ pc' = "run" /\ cur' = buf[1].cmd
  /\ LET n == bus.command_frame_counter + 1 IN
       /\ bus' = [bus EXCEPT !.command_frame_counter = n % Threshold]
       /\ todo' = IF n = Threshold THEN <<"toggle">> ELSE <<>>
  /\ hist' = [hist EXCEPT !.rejects = IF port.baud = bus.sioBaud THEN @ + 1 ELSE 0]
  /\ UNCHANGED <<emu, outq, out, buf, budget>>

(***************************************************************************)
(* Sending: every datagram takes one credit, and while there is none the   *)
(* port goes on handling what it receives.                                 *)
(***************************************************************************)
Send ==
  /\ out # <<>> /\ port.initialized /\ port.credit > 0
  /\ LET m == Head(out) IN
       /\ outq' = Append(outq, m)
       /\ hist' = IF m.type = "SYNC_RESPONSE"
                    THEN [hist EXCEPT !.answers[m.num] = Append(@, m)] ELSE hist
  /\ out' = Tail(out)
  /\ port' = [port EXCEPT !.credit = @ - 1]
  /\ UNCHANGED <<emu, inq, pc, todo, buf, cur, bus, budget>>

wait_for_credit ==
  /\ out # <<>> /\ port.credit = 0
  /\ Receive
  /\ UNCHANGED <<emu, outq, dev, bus, budget, hist>>

\* With the port down a datagram is given up, its credit spent all the same.
SendFails ==
  /\ out # <<>> /\ ~port.initialized
  /\ out' = Tail(out)
  /\ port' = [port EXCEPT !.credit = IF @ > 0 THEN @ - 1 ELSE 0]
  /\ UNCHANGED <<emu, inq, outq, pc, todo, buf, cur, bus, budget, hist>>

(***************************************************************************)
(* The bus operations of a handler, one at a time.                         *)
(***************************************************************************)
WriteByte ==
  \E c \in {"A", "N", "C", "E", "K"} :
    /\ Doing(c)
    /\ todo' = Tail(todo)
    /\ IF port.initialized
         THEN out' = write(c) /\ port' = ClearSync(port)
         ELSE UNCHANGED <<out, port>>
    /\ UNCHANGED <<emu, inq, outq, pc, buf, cur, bus, budget, hist>>

WriteBlock ==
  /\ Doing("block")
  /\ todo' = Tail(todo)
  /\ out' = IF port.initialized THEN <<DataByte("block")>> ELSE <<>>
  /\ UNCHANGED <<emu, inq, outq, port, pc, buf, cur, bus, budget, hist>>

\* flush() discards received bytes; after an acknowledge the command counts
\* as processed.
Flush ==
  /\ Doing("flush") \/ Doing("acked")
  /\ port' = IF port.initialized THEN [port EXCEPT !.rx = <<>>] ELSE port
  /\ bus' = [bus EXCEPT !.processed = @ \/ Head(todo) = "acked"]
  /\ todo' = Tail(todo)
  /\ UNCHANGED <<emu, inq, outq, pc, out, buf, cur, budget, hist>>

\* sio_late_ack: the answer waits until the size of the data is known.
LateAckOp ==
  /\ Doing("late")
  /\ port' = [port EXCEPT !.sync_ack_byte = "A", !.sync_write_size = 0]
  /\ bus' = [bus EXCEPT !.processed = TRUE]
  /\ todo' = Tail(todo)
  /\ UNCHANGED <<emu, inq, outq, pc, out, buf, cur, budget, hist>>

\* Mutant: reading the data frame does not send the late acknowledge.
SetWriteSize_NoAck ==
  /\ Doing("size")
  /\ port' = [port EXCEPT !.sync_write_size = Len(DataParts)]
  /\ buf' = <<>>
  /\ todo' = Tail(todo)
  /\ UNCHANGED <<emu, inq, outq, pc, out, cur, bus, budget, hist>>

\* bus_to_peripheral: the size, then read() sends the late acknowledge.
SetWriteSize ==
  /\ Doing("size")
  /\ LET p == [port EXCEPT !.sync_write_size = Len(DataParts)] IN
       IF port.initialized /\ port.sync_num # None
       THEN /\ out' = <<SyncResponse(p.sync_num, "ACK", p.sync_ack_byte, p.sync_write_size)>>
            /\ port' = ClearSync(p)
       ELSE out' = <<>> /\ port' = p
  /\ buf' = <<>>
  /\ todo' = Tail(todo)
  /\ UNCHANGED <<emu, inq, outq, pc, cur, bus, budget, hist>>

ReadData ==
  /\ Doing("data")
  /\ ReadByte
  /\ todo' = IF Len(buf') = 1 THEN Tail(todo) ELSE todo
  /\ UNCHANGED <<emu, outq, pc, out, cur, bus, budget, hist>>

DataTimeout ==
  /\ Doing("data")
  /\ ReadFails
  /\ todo' = Tail(todo)
  /\ UNCHANGED <<emu, inq, outq, port, pc, out, buf, cur, bus, budget, hist>>

\* The received data and checksum belong together.
DataOk(b) ==
  /\ Len(b) = 2
  /\ b[1].part = "data" /\ b[2].part = "cksum" /\ b[1].cmd = b[2].cmd /\ b[1].ok /\ b[2].ok

\* Waits for the checksum for as long as it takes; then acknowledges or
\* refuses the data.
ReadChecksum ==
  /\ Doing("cksum")
  /\ ReadByte
  /\ IF buf' = buf THEN UNCHANGED todo
     ELSE todo' = (IF DataOk(buf') THEN sio_ack ELSE sio_nak) \o Tail(todo)
  /\ UNCHANGED <<emu, outq, pc, out, cur, bus, budget, hist>>

\* The port went down with bytes left in its buffer: read() returns -1.
ChecksumFails ==
  /\ Doing("cksum") /\ ~port.initialized /\ port.rx # <<>>
  /\ todo' = sio_nak \o Tail(todo)
  /\ UNCHANGED <<emu, inq, outq, port, pc, out, buf, cur, bus, budget, hist>>

\* sioDisk::sio_write: COMPLETE when the data was good and was written.
Outcome ==
  /\ Doing("outcome")
  /\ \E done \in BOOLEAN :
       /\ done => DataOk(buf)
       /\ todo' = <<IF done THEN "C" ELSE "E">> \o Tail(todo)
  /\ UNCHANGED <<emu, inq, outq, port, pc, out, buf, cur, bus, budget, hist>>

Toggle ==
  /\ Doing("toggle")
  /\ toggleBaudrate
  /\ todo' = Tail(todo)
  /\ UNCHANGED <<emu, inq, outq, pc, out, buf, cur, budget, hist>>

\* Mutant: a command nobody processed is not answered.
Return_Silent ==
  /\ pc = "run" /\ out = <<>> /\ todo = <<>>
  /\ pc' = "idle"
  /\ UNCHANGED <<emu, inq, outq, port, todo, out, buf, cur, bus, budget, hist>>

\* The end of _sio_process_cmd: a command nobody processed gets the empty
\* answer, if its sync request is still pending.
Return ==
  /\ pc = "run" /\ out = <<>> /\ todo = <<>>
  /\ IF ~bus.processed /\ port.sync_num # None
       THEN /\ out' = <<SyncResponse(port.sync_num, "EMPTY", "", 0)>>
            /\ port' = ClearSync(port)
            /\ pc' = "empty"
       ELSE /\ pc' = "idle"
            /\ UNCHANGED <<out, port>>
  /\ UNCHANGED <<emu, inq, outq, todo, buf, cur, bus, budget, hist>>

EmptyAckSent ==
  /\ pc = "empty" /\ out = <<>>
  /\ pc' = "idle"
  /\ UNCHANGED <<emu, inq, outq, port, todo, out, buf, cur, bus, budget, hist>>

Device ==
  \/ service \/ ReadFrame \/ FrameTimeout \/ WaitDeassert \/ DeassertTimeout
  \/ Dispatch \/ RejectFrame
  \/ Send \/ wait_for_credit \/ SendFails
  \/ WriteByte \/ WriteBlock \/ Flush \/ LateAckOp \/ SetWriteSize
  \/ ReadData \/ DataTimeout \/ ReadChecksum \/ ChecksumFails \/ Outcome \/ Toggle
  \/ Return \/ EmptyAckSent
  \/ begin

Hub == HubReceive \/ Grant \/ \E sync \in BOOLEAN : SendData(sync)

Next ==
  \/ \E kind \in Kinds, s \in Speeds : Issue(kind, s)
  \/ Hub
  \/ GiveUp
  \/ Suspend
  \/ Reconnect
  \/ Device

Spec == Init /\ [][Next]_vars
\* The device thread keeps running, and the hub keeps delivering and granting.
FairSpec ==
  /\ Spec
  /\ WF_vars(Device) /\ WF_vars(HubReceive) /\ WF_vars(Grant)
  /\ WF_vars(\E sync \in BOOLEAN : SendData(sync))

(***************************************************************************)
(* Properties.                                                             *)
(***************************************************************************)
\* No sync request is answered twice, whatever is abandoned or disconnected
\* meanwhile: send_sync_response forgets the request before it sends.
AnsweredOnce == \A k \in Syncs : Len(hist.answers[k]) <= 1

\* A sync request is answered by the handler of its own command, and with a
\* byte the computer can take for an acknowledge: 'A' with the size of the data
\* frame exactly for the commands that have one, otherwise 'A', 'N', or nothing.
\* The sync request of a data frame is answered by what is said of the data.
\* WRITE to a closed N: channel answers 'E'.  This holds as long as no command
\* is abandoned while the device is busy with it, and again once the device has
\* come to rest after that.
AnswersOwn ==
  \A k \in Commands :
    /\ (hist'.answers[k] # hist.answers[k] /\ ~hist.disturbed)
         => LET m == Last(hist'.answers[k]) IN
            /\ k = cur
            /\ m.byte \in {"", "A", "N"} \/ (m.byte = "E" /\ emu.kind[k] = "closed")
            /\ (m.size > 0) = (m.byte = "A" /\ emu.kind[k] \in {"put", "hsput"})
    /\ (hist'.answers[DataSyncOf(k)] # hist.answers[DataSyncOf(k)] /\ ~hist.disturbed)
         => LET m == Last(hist'.answers[DataSyncOf(k)]) IN
            /\ k = cur
            /\ m.byte = IF DataOk(buf) THEN "A" ELSE "N"
AnswerIsOwn == [][AnswersOwn]_vars

\* The device finds the computer's speed: at one speed at most two frames in a
\* row are rejected.  (While the port was down toggleBaudrate may have changed
\* the bus's speed and not the port's; the count starts when they agree again.)
SpeedFound == ~hist.disturbed => hist.rejects <= Threshold

\* A command that is not abandoned comes to its end: the emulator does not stay
\* halted or waiting.  Two commands are excepted.  The read that ends the CONFIG
\* boot is not answered at all; and HSIO PUT ("hsput", disk.cpp:346-365), which
\* Kinds has to leave out, falls through to the NAK behind the switch after its
\* outcome was sent: while that NAK waits for credit the next command is
\* received, and the flush that ends it discards the next command's frame.
CommandEnds ==
  \A k \in Commands :
    (emu.cmd = k /\ ~hist.disturbed /\ emu.kind[k] # "read1")
      ~> (emu.st = "run" \/ emu.cmd # k \/ hist.disturbed)

\* bus_to_peripheral waits for the checksum of a data frame (sio.cpp:90), and
\* nothing has come.
AwaitsChecksum == Doing("cksum") /\ port.rx = <<>>

\* The device thread, which also runs everything else, gets back to its loop
\* again and again, whatever is abandoned, overtaken or cut off.  One place may
\* hold it for good, the wait for a checksum, which has no time limit; and then
\* a command was abandoned or the connection lost while the device was busy.
DeviceReturns == []<>(pc = "idle") \/ <>[](AwaitsChecksum /\ hist.disturbed)
=============================================================================
