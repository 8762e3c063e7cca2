---------------------------- MODULE SioBus_proof ----------------------------
(***************************************************************************)
(* Proofs about SioBus, for every number of commands and faults, every set *)
(* of kinds of command and every credit.                                   *)
(***************************************************************************)
EXTENDS SioBus, SequenceTheorems, TLAPS

(***************************************************************************)
(* Types.                                                                  *)
(***************************************************************************)
PartNames == {"frame1", "frame2", "data", "cksum"}
ByteNames == {"", "A", "N", "C", "E", "K", "block"}
BothSpeeds == {"std", "high"}
RxBytes == [cmd : Commands, part : PartNames, ok : BOOLEAN]

Others == {OnMsg} \cup {Speed(s) : s \in Speeds} \cup {Credit(InitialCredit)}
          \cup {Data(k, FrameParts) : k \in Commands} \cup {Data(k, DataParts) : k \in Commands}
          \cup {Data(k, <<"data">>) : k \in Commands}
Requests == {OffSync(k) : k \in Commands} \cup {DataSync(k, "cksum") : k \in Commands}
InMsgs == Others \cup Requests

Responses == [type : {"SYNC_RESPONSE"}, num : Syncs, ack : {"ACK", "EMPTY"}, byte : ByteNames, size : Int]
OutMsgs == Responses \cup [type : {"DATA"}, byte : ByteNames]

Emulators == [st : {"run", "halt", "senddata", "halt2", "await"}, cmd : 0 .. MaxCommands,
              speed : BothSpeeds, kind : [Commands -> Kinds \cup {"none"}]]
Ports == [rx : Seq(RxBytes), command_asserted : BOOLEAN, sync_num : Syncs \cup {None},
          sync_write_size : Int, sync_ack_byte : {"A"}, credit : Int,
          baud : BothSpeeds, baud_peer : BothSpeeds, initialized : BOOLEAN]
Histories == [answers : [Syncs -> Seq(OutMsgs)], rejects : Int, disturbed : BOOLEAN]

Typed ==
  /\ emu \in Emulators /\ (emu.st # "run" => emu.cmd # 0)
  /\ inq \in Seq(InMsgs)
  /\ port \in Ports
  /\ out \in Seq(OutMsgs)
  /\ hist \in Histories

-----------------------------------------------------------------------------
\* The sizes.
LEMMA Sizes ==
  /\ MaxCommands \in Nat /\ InitialCredit \in Nat /\ Speeds \subseteq BothSpeeds
  /\ \A k \in Commands : k \in Syncs /\ DataSyncOf(k) \in Syncs /\ k # None /\ DataSyncOf(k) \notin Commands
  /\ \A k, j \in Commands : DataSyncOf(k) = DataSyncOf(j) => k = j
  /\ None \notin Syncs
<1>1. MaxCommands \in Nat /\ InitialCredit \in Nat /\ Speeds \subseteq BothSpeeds
  BY BusAssumption DEF BothSpeeds
<1>2. QED
  BY <1>1 DEF Commands, Syncs, DataSyncOf, None

\* What the messages from the hub say.
LEMMA Messages ==
  /\ \A m \in Others : m.type \notin {"OFF_SYNC", "DATA_SYNC"}
  /\ \A m \in Requests : m.type \in {"OFF_SYNC", "DATA_SYNC"} /\ m.num \in Syncs
  /\ \A k \in Commands : OffSync(k).num = k /\ DataSync(k, "cksum").num = DataSyncOf(k)
<1>1. ASSUME NEW m \in Others PROVE m.type \notin {"OFF_SYNC", "DATA_SYNC"}
  BY DEF Others, OnMsg, Speed, Credit, Data
<1>2. ASSUME NEW m \in Requests PROVE m.type \in {"OFF_SYNC", "DATA_SYNC"} /\ m.num \in Syncs
  BY Sizes DEF Requests, OffSync, DataSync
<1>3. QED
  BY <1>1, <1>2 DEF OffSync, DataSync

\* Data received is a sequence of bytes of one command.
LEMMA Received ==
  ASSUME NEW p \in Ports, NEW m, m.cmd \in Commands, m.parts \in Seq(PartNames)
  PROVE  /\ RxPut(p, m) \in Ports
         /\ RxPut(p, m).sync_num = p.sync_num
<1> DEFINE bytes == [i \in 1..Len(m.parts) |-> Byte(m.cmd, m.parts[i], p.baud = p.baud_peer)]
<1>1. \A i \in 1..Len(m.parts) : Byte(m.cmd, m.parts[i], p.baud = p.baud_peer) \in RxBytes
  BY DEF Byte, RxBytes
<1>2. bytes \in Seq(RxBytes)
  BY <1>1
<1>3. p.rx \in Seq(RxBytes)
  BY DEF Ports
<1> HIDE DEF bytes
<1>4. p.rx \o bytes \in Seq(RxBytes)
  BY <1>2, <1>3
<1>5. RxPut(p, m) = [p EXCEPT !.rx = p.rx \o bytes]
  BY DEF RxPut, bytes
<1>6. QED
  BY <1>4, <1>5 DEF Ports

\* A datagram of the hub leaves the port typed, and with its own request, none,
\* or the one it had.
LEMMA Handled ==
  ASSUME NEW p \in Ports, NEW m \in InMsgs
  PROVE  /\ handle_netsio(p, m) \in Ports
         /\ m \in Others => handle_netsio(p, m).sync_num \in {p.sync_num, None}
         /\ m \in Requests => handle_netsio(p, m).sync_num = m.num
<1>a. \A k \in Commands : k \in Syncs /\ DataSyncOf(k) \in Syncs
  BY Sizes
<1>1. CASE m = OnMsg
  <2>1. handle_netsio(p, m) = [p EXCEPT !.command_asserted = TRUE, !.sync_num = None,
                                        !.sync_write_size = None, !.rx = <<>>]
    BY <1>1 DEF handle_netsio, OnMsg
  <2> DEFINE q == handle_netsio(p, m)
  <2> q = [p EXCEPT !.command_asserted = TRUE, !.sync_num = None, !.sync_write_size = None, !.rx = <<>>]
    BY <2>1
  <2> HIDE DEF q
  <2>2. None \in Int /\ <<>> \in Seq(RxBytes)
    BY DEF None
  <2>3. q \in Ports
    BY <2>2 DEF Ports
  <2>4. q.sync_num = None
    BY DEF Ports
  <2>5. m \notin Requests
    BY <1>1, Messages DEF OnMsg
  <2>6. QED
    BY <2>3, <2>4, <2>5 DEF q
<1>2. ASSUME NEW k \in Commands, m = OffSync(k)
      PROVE  handle_netsio(p, m) \in Ports /\ handle_netsio(p, m).sync_num = m.num /\ m \notin Others
  <2>1. handle_netsio(p, m) = [p EXCEPT !.command_asserted = FALSE, !.sync_num = k] /\ m.num = k
    BY <1>2 DEF handle_netsio, OffSync
  <2>2. m \notin Others
    BY <1>2, Messages DEF OffSync
  <2>3. QED
    BY <1>a, <2>1, <2>2 DEF Ports
<1>3. ASSUME NEW k \in Commands, NEW parts \in Seq(PartNames), m = Data(k, parts)
      PROVE  /\ handle_netsio(p, m) \in Ports /\ handle_netsio(p, m).sync_num = p.sync_num
             /\ m \notin Requests
  <2>1. m.type = "DATA" /\ m.cmd = k /\ m.parts = parts
    BY <1>3 DEF Data
  <2>2. handle_netsio(p, m) = RxPut(p, m)
    BY <2>1 DEF handle_netsio
  <2>3. m \notin Requests
    BY <2>1, Messages
  <2>4. QED
    BY <2>1, <2>2, <2>3, Received
<1>4. ASSUME NEW k \in Commands, m = DataSync(k, "cksum")
      PROVE  handle_netsio(p, m) \in Ports /\ handle_netsio(p, m).sync_num = m.num /\ m \notin Others
  <2>1. m.type = "DATA_SYNC" /\ m.cmd = k /\ m.parts = <<"cksum">> /\ m.num = DataSyncOf(k)
    BY <1>4 DEF DataSync
  <2>2. handle_netsio(p, m) = [RxPut(p, m) EXCEPT !.sync_num = m.num]
    BY <2>1 DEF handle_netsio
  <2>3. m.parts \in Seq(PartNames)
    BY <2>1 DEF PartNames
  <2>4. RxPut(p, m) \in Ports
    BY <2>1, <2>3, Received
  <2>5. m \notin Others
    BY <2>1, Messages
  <2> DEFINE q == RxPut(p, m)
  <2> HIDE DEF q
  <2>6. [q EXCEPT !.sync_num = m.num] \in Ports /\ [q EXCEPT !.sync_num = m.num].sync_num = m.num
    BY <1>a, <2>1, <2>4 DEF Ports, q
  <2>7. QED
    BY <2>2, <2>5, <2>6 DEF q
<1>5. ASSUME NEW sp \in Speeds, m = Speed(sp)
      PROVE  /\ handle_netsio(p, m) \in Ports /\ handle_netsio(p, m).sync_num = p.sync_num
             /\ m \notin Requests
  <2>1. m.type = "SPEED" /\ m.speed = sp /\ sp \in BothSpeeds
    BY <1>5, Sizes DEF Speed
  <2>2. handle_netsio(p, m) = [p EXCEPT !.baud_peer = sp]
    BY <2>1 DEF handle_netsio
  <2>3. m \notin Requests
    BY <2>1, Messages
  <2>4. QED
    BY <2>1, <2>2, <2>3 DEF Ports
<1>6. CASE m = Credit(InitialCredit)
  <2>1. m.type = "CREDIT" /\ m.credit = InitialCredit /\ InitialCredit \in Nat
    BY <1>6, Sizes DEF Credit
  <2>2. handle_netsio(p, m) = [p EXCEPT !.credit = InitialCredit]
    BY <2>1 DEF handle_netsio
  <2>3. m \notin Requests
    BY <2>1, Messages
  <2>4. QED
    BY <2>1, <2>2, <2>3 DEF Ports
<1>7. FrameParts \in Seq(PartNames) /\ DataParts \in Seq(PartNames) /\ <<"data">> \in Seq(PartNames)
  BY DEF FrameParts, DataParts, PartNames
<1>8. QED
  BY <1>1, <1>2, <1>3, <1>4, <1>5, <1>6, <1>7 DEF InMsgs, Others, Requests

\* The same of a call of handle_netsio that finds a datagram.
LEMMA ReceiveStep ==
  ASSUME Typed, Receive
  PROVE  /\ inq' \in Seq(InMsgs) /\ port' \in Ports
         /\ Head(inq) \in InMsgs /\ inq' = Tail(inq) /\ inq # <<>>
         /\ Head(inq) \in Others => port'.sync_num \in {port.sync_num, None}
         /\ Head(inq) \in Requests => port'.sync_num = Head(inq).num
<1>1. inq \in Seq(InMsgs) /\ inq # <<>> /\ port' = handle_netsio(port, Head(inq)) /\ inq' = Tail(inq)
  BY DEF Receive, Typed
<1>2. Head(inq) \in InMsgs /\ inq' \in Seq(InMsgs)
  BY <1>1
<1>3. port \in Ports
  BY DEF Typed
<1> DEFINE m == Head(inq)
<1>4. m \in InMsgs /\ port' = handle_netsio(port, m)
  BY <1>1, <1>2
<1> HIDE DEF m
<1>5. /\ port' \in Ports
      /\ m \in Others => port'.sync_num \in {port.sync_num, None}
      /\ m \in Requests => port'.sync_num = m.num
  BY <1>3, <1>4, Handled
<1>6. QED
  BY <1>1, <1>2, <1>5 DEF m

-----------------------------------------------------------------------------
(***************************************************************************)
(* The inductive invariant.  The number of a sync request is in one place  *)
(* at a time: not issued yet, on its way to the device, pending in the     *)
(* port, in the datagrams of a write, or answered.                         *)
(***************************************************************************)
IsResponse(m) == m.type = "SYNC_RESPONSE"

\* With the emulator at e, the hub has not issued number k, and still may.
FreshAt(e, k) ==
  \/ k \in Commands /\ k > e.cmd
  \/ \E c \in Commands : /\ k = DataSyncOf(c)
                         /\ c > e.cmd \/ (c = e.cmd /\ e.st \in {"halt", "senddata"})

\* Number k is on its way to the device.
Waiting(k) == \E i \in 1..Len(inq) : inq[i] \in Requests /\ inq[i].num = k

\* Number k is neither answered nor being answered.
Unsent(k) ==
  /\ \A i \in 1..Len(out) : IsResponse(out[i]) => out[i].num # k
  /\ hist.answers[k] = <<>>

OnePlace ==
  /\ \A i, j \in 1..Len(inq) :
       inq[i] \in Requests /\ inq[j] \in Requests /\ inq[i].num = inq[j].num => i = j
  /\ \A k \in Syncs : Waiting(k) => port.sync_num # k /\ Unsent(k)
  /\ port.sync_num # None => Unsent(port.sync_num)
  /\ \A i \in 1..Len(out) : IsResponse(out[i]) => i = 1 /\ hist.answers[out[i].num] = <<>>
  /\ \A k \in Syncs : FreshAt(emu, k) => port.sync_num # k /\ Unsent(k) /\ ~ Waiting(k)
  /\ AnsweredOnce

\* No number becomes fresh.
FreshKept == \A k \in Syncs : FreshAt(emu', k) => FreshAt(emu, k)

(***************************************************************************)
(* The ways a number moves, whatever action moves it.                      *)
(***************************************************************************)
\* A pending request may be forgotten.
LEMMA MoveNone ==
  ASSUME Typed, OnePlace, FreshKept, UNCHANGED <<inq, out, hist.answers>>,
         port'.sync_num \in {port.sync_num, None}
  PROVE  OnePlace'
<1>1. \A k \in Syncs : Unsent(k)' <=> Unsent(k)
  BY DEF Unsent
<1>2. \A k \in Syncs : Waiting(k)' <=> Waiting(k)
  BY DEF Waiting
<1>3. port.sync_num \in Syncs \cup {None} /\ None \notin Syncs
  BY Sizes DEF Typed, Ports
<1>4. QED
  BY <1>1, <1>2, <1>3 DEF OnePlace, FreshKept, AnsweredOnce, Unsent

\* What was on its way may be lost.
LEMMA MoveLost ==
  ASSUME Typed, OnePlace, FreshKept, inq' = <<>>, UNCHANGED <<out, hist.answers>>,
         port'.sync_num = port.sync_num
  PROVE  OnePlace'
<1>1. \A k \in Syncs : Unsent(k)' <=> Unsent(k)
  BY DEF Unsent
<1>2. \A k \in Syncs : ~ Waiting(k)'
  BY DEF Waiting
<1>3. port.sync_num \in Syncs \cup {None} /\ None \notin Syncs
  BY Sizes DEF Typed, Ports
<1>4. QED
  BY <1>1, <1>2, <1>3 DEF OnePlace, FreshKept, AnsweredOnce, Unsent

\* A request that arrives is pending, and no longer on its way.
LEMMA MoveReceived ==
  ASSUME Typed, OnePlace, FreshKept, Receive, UNCHANGED <<out, hist.answers>>
  PROVE  OnePlace'
<1>1. /\ inq \in Seq(InMsgs) /\ inq' = Tail(inq) /\ inq # <<>> /\ Head(inq) \in InMsgs
      /\ Head(inq) \in Others => port'.sync_num \in {port.sync_num, None}
      /\ Head(inq) \in Requests => port'.sync_num = Head(inq).num
      /\ port' \in Ports
  BY ReceiveStep DEF Typed
<1>2. /\ Len(inq') = Len(inq) - 1 /\ Len(inq) \in Nat /\ Head(inq) = inq[1] /\ 1 \in 1..Len(inq)
      /\ \A i \in 1..Len(inq') : inq'[i] = inq[i + 1] /\ i + 1 \in 1..Len(inq) /\ i + 1 # 1
  BY <1>1
<1>3. \A k \in Syncs : Unsent(k)' <=> Unsent(k)
  BY DEF Unsent
<1>4. \A k \in Syncs : Waiting(k)' => Waiting(k) /\ (Head(inq) \in Requests => Head(inq).num # k)
  <2> SUFFICES ASSUME NEW k \in Syncs, NEW i \in 1..Len(inq'), inq'[i] \in Requests, inq'[i].num = k
               PROVE  Waiting(k) /\ (Head(inq) \in Requests => Head(inq).num # k)
    BY DEF Waiting
  <2>1. inq[i + 1] \in Requests /\ inq[i + 1].num = k /\ i + 1 \in 1..Len(inq) /\ i + 1 # 1
    BY <1>2
  <2>2. QED
    BY <1>2, <2>1 DEF Waiting, OnePlace
<1>5. /\ Head(inq) \in Requests => Head(inq).num \in Syncs /\ Waiting(Head(inq).num)
  BY <1>2, Messages DEF Waiting
<1>6. port.sync_num \in Syncs \cup {None} /\ None \notin Syncs
  BY Sizes DEF Typed, Ports
<1>7. \/ port'.sync_num \in {port.sync_num, None}
      \/ Head(inq) \in Requests /\ port'.sync_num = Head(inq).num
  BY <1>1 DEF InMsgs
<1>8. (\A k \in Syncs : Waiting(k) => port.sync_num # k /\ Unsent(k))'
  BY <1>3, <1>4, <1>5, <1>6, <1>7 DEF OnePlace
<1>9. (port.sync_num # None => Unsent(port.sync_num))'
  <2>1. CASE port'.sync_num \in {port.sync_num, None}
    BY <2>1 DEF OnePlace, Unsent
  <2>2. CASE Head(inq) \in Requests /\ port'.sync_num = Head(inq).num
    <3>1. Unsent(Head(inq).num)
      BY <1>5, <2>2 DEF OnePlace
    <3>2. QED
      BY <2>2, <3>1 DEF Unsent
  <2>3. QED
    BY <1>7, <2>1, <2>2
<1>10. (\A k \in Syncs : FreshAt(emu, k) => port.sync_num # k /\ Unsent(k) /\ ~ Waiting(k))'
  BY <1>3, <1>4, <1>5, <1>6, <1>7 DEF OnePlace, FreshKept
<1>11. (\A i, j \in 1..Len(inq) :
          inq[i] \in Requests /\ inq[j] \in Requests /\ inq[i].num = inq[j].num => i = j)'
  <2> SUFFICES ASSUME NEW i \in 1..Len(inq'), NEW j \in 1..Len(inq'),
                      inq'[i] \in Requests, inq'[j] \in Requests, inq'[i].num = inq'[j].num
               PROVE  i = j
    OBVIOUS
  <2>1. i + 1 = j + 1
    BY <1>2 DEF OnePlace
  <2>2. QED
    BY <1>2, <2>1
<1>12. QED
  BY <1>8, <1>9, <1>10, <1>11 DEF OnePlace, AnsweredOnce

\* The hub sends messages of which only the last may ask, with a fresh number.
LEMMA MoveAsked ==
  ASSUME Typed, OnePlace, FreshKept, NEW q \in Seq(InMsgs), inq' = inq \o q,
         \A i \in 1..Len(q) : q[i] \in Requests => i = Len(q) /\ FreshAt(emu, q[i].num) /\ ~ FreshAt(emu', q[i].num),
         UNCHANGED <<out, hist.answers>>, port' = port
  PROVE  OnePlace'
<1>1. inq \in Seq(InMsgs) /\ Len(inq) \in Nat /\ Len(q) \in Nat
  BY DEF Typed
<1>2. /\ Len(inq') = Len(inq) + Len(q)
      /\ \A i \in 1..Len(inq') : inq'[i] = IF i <= Len(inq) THEN inq[i] ELSE q[i - Len(inq)]
  BY <1>1
<1>3. \A k \in Syncs : Unsent(k)' <=> Unsent(k)
  BY DEF Unsent
<1>4. \A i \in 1..Len(inq') : inq'[i] \in Requests =>
        \/ i \in 1..Len(inq) /\ inq'[i] = inq[i]
        \/ i = Len(inq') /\ i \notin 1..Len(inq) /\ FreshAt(emu, inq'[i].num) /\ ~ FreshAt(emu', inq'[i].num)
  <2> SUFFICES ASSUME NEW i \in 1..Len(inq'), inq'[i] \in Requests, ~ (i <= Len(inq))
               PROVE  i = Len(inq') /\ i \notin 1..Len(inq) /\ FreshAt(emu, inq'[i].num) /\ ~ FreshAt(emu', inq'[i].num)
    BY <1>1, <1>2
  <2>1. i - Len(inq) \in 1..Len(q) /\ inq'[i] = q[i - Len(inq)]
    BY <1>1, <1>2
  <2>2. i - Len(inq) = Len(q) /\ FreshAt(emu, inq'[i].num) /\ ~ FreshAt(emu', inq'[i].num)
    BY <2>1
  <2>3. QED
    BY <1>1, <1>2, <2>2
<1>5. \A i \in 1..Len(inq') : inq'[i] \in Requests => inq'[i].num \in Syncs
  BY Messages
<1>6. \A k \in Syncs : Waiting(k)' => Waiting(k) \/ (FreshAt(emu, k) /\ ~ FreshAt(emu', k))
  BY <1>4 DEF Waiting
<1>7. (\A k \in Syncs : Waiting(k) => port.sync_num # k /\ Unsent(k))'
  BY <1>3, <1>6 DEF OnePlace
<1>8. (\A k \in Syncs : FreshAt(emu, k) => port.sync_num # k /\ Unsent(k) /\ ~ Waiting(k))'
  BY <1>3, <1>6 DEF OnePlace, FreshKept
<1>9. (\A i, j \in 1..Len(inq) :
         inq[i] \in Requests /\ inq[j] \in Requests /\ inq[i].num = inq[j].num => i = j)'
  <2> SUFFICES ASSUME NEW i \in 1..Len(inq'), NEW j \in 1..Len(inq'),
                      inq'[i] \in Requests, inq'[j] \in Requests, inq'[i].num = inq'[j].num
               PROVE  i = j
    OBVIOUS
  <2>1. \A x \in 1..Len(inq) : inq'[x] = inq[x] /\ inq'[x] \in Requests => Waiting(inq'[x].num)
    BY DEF Waiting
  <2>2. inq'[i].num \in Syncs /\ (FreshAt(emu, inq'[i].num) => ~ Waiting(inq'[i].num))
    BY <1>5 DEF OnePlace
  <2>3. CASE i \in 1..Len(inq) /\ inq'[i] = inq[i] /\ j \in 1..Len(inq) /\ inq'[j] = inq[j]
    BY <2>3 DEF OnePlace
  <2>4. CASE i = Len(inq') /\ FreshAt(emu, inq'[i].num)
    BY <1>4, <2>1, <2>2, <2>4
  <2>5. CASE j = Len(inq') /\ FreshAt(emu, inq'[j].num)
    BY <1>4, <2>1, <2>2, <2>5
  <2>6. QED
    BY <1>4, <2>3, <2>4, <2>5
<1>10. (port.sync_num # None => Unsent(port.sync_num))'
  BY DEF OnePlace, Unsent
<1>11. QED
  BY <1>7, <1>8, <1>9, <1>10 DEF OnePlace, AnsweredOnce

\* A datagram of a write leaves; a response is then an answer.
LEMMA MoveSent ==
  ASSUME Typed, OnePlace, FreshKept, out # <<>>, out' = Tail(out), inq' = inq,
         port'.sync_num = port.sync_num,
         hist'.answers = IF IsResponse(Head(out))
                           THEN [hist.answers EXCEPT ![Head(out).num] = Append(@, Head(out))]
                           ELSE hist.answers
  PROVE  OnePlace'
<1>1. out \in Seq(OutMsgs) /\ hist.answers \in [Syncs -> Seq(OutMsgs)]
  BY DEF Typed, Histories
<1>2. /\ Len(out') = Len(out) - 1 /\ Len(out) \in Nat /\ Head(out) = out[1] /\ 1 \in 1..Len(out)
      /\ out[1] \in OutMsgs
      /\ \A i \in 1..Len(out') : out'[i] = out[i + 1] /\ i + 1 \in 1..Len(out) /\ i + 1 # 1
  BY <1>1
<1>3. IsResponse(out[1]) => out[1].num \in Syncs /\ hist.answers[out[1].num] = <<>>
  BY <1>2 DEF OnePlace, IsResponse, OutMsgs, Responses
<1>4. \A i \in 1..Len(out') : ~ IsResponse(out'[i])
  BY <1>2 DEF OnePlace
<1>5. \A k \in Syncs : (IsResponse(out[1]) => out[1].num # k) => hist'.answers[k] = hist.answers[k]
  BY <1>1, <1>2, <1>3
<1>6. \A k \in Syncs : Unsent(k) => Unsent(k)'
  BY <1>2, <1>4, <1>5 DEF Unsent
<1>7. \A k \in Syncs : Waiting(k)' <=> Waiting(k)
  BY DEF Waiting
<1>8. AnsweredOnce'
  <2> SUFFICES ASSUME NEW k \in Syncs PROVE Len(hist'.answers[k]) <= 1
    BY DEF AnsweredOnce
  <2>1. CASE hist'.answers[k] = hist.answers[k]
    BY <2>1 DEF OnePlace, AnsweredOnce
  <2>2. CASE IsResponse(out[1]) /\ out[1].num = k
    <3>1. hist'.answers = [hist.answers EXCEPT ![k] = Append(hist.answers[k], out[1])]
      BY <1>2, <2>2
    <3>2. hist.answers[k] = <<>>
      BY <1>3, <2>2
    <3>3. hist'.answers[k] = Append(hist.answers[k], out[1])
      BY <1>1, <3>1
    <3>4. hist.answers[k] \in Seq(OutMsgs)
      BY <1>1
    <3>5. Len(hist'.answers[k]) = Len(hist.answers[k]) + 1
      BY <1>2, <3>3, <3>4
    <3>6. QED
      BY <3>2, <3>5
  <2>3. QED
    BY <1>5, <2>1, <2>2
<1>9. port.sync_num \in Syncs \cup {None}
  BY DEF Typed, Ports
<1>10. (port.sync_num # None => Unsent(port.sync_num))'
  <2>1. port.sync_num # None => Unsent(port.sync_num)'
    BY <1>6, <1>9 DEF OnePlace
  <2>2. QED
    BY <2>1 DEF Unsent
<1>11. QED
  BY <1>4, <1>6, <1>7, <1>8, <1>10 DEF OnePlace, FreshKept

\* A datagram of a write is given up.
LEMMA MoveGivenUp ==
  ASSUME Typed, OnePlace, FreshKept, out # <<>>, out' = Tail(out), inq' = inq,
         port'.sync_num = port.sync_num, hist' = hist
  PROVE  OnePlace'
<1>1. out \in Seq(OutMsgs)
  BY DEF Typed
<1>2. \A i \in 1..Len(out') : out'[i] = out[i + 1] /\ i + 1 \in 1..Len(out) /\ i + 1 # 1
  BY <1>1
<1>3. \A i \in 1..Len(out') : ~ IsResponse(out'[i])
  BY <1>2 DEF OnePlace
<1>4. \A k \in Syncs : Unsent(k) => Unsent(k)'
  BY <1>3 DEF Unsent
<1>5. \A k \in Syncs : Waiting(k)' <=> Waiting(k)
  BY DEF Waiting
<1>6. port.sync_num \in Syncs \cup {None}
  BY DEF Typed, Ports
<1>7. (port.sync_num # None => Unsent(port.sync_num))'
  <2>1. port.sync_num # None => Unsent(port.sync_num)'
    BY <1>4, <1>6 DEF OnePlace
  <2>2. QED
    BY <2>1 DEF Unsent
<1>8. QED
  BY <1>3, <1>4, <1>5, <1>7 DEF OnePlace, FreshKept, AnsweredOnce

\* A write: the pending request, if any, becomes the one response, or stays.
LEMMA MoveWritten ==
  ASSUME Typed, OnePlace, FreshKept, out = <<>>, out' \in Seq(OutMsgs), inq' = inq, hist' = hist,
         \/ /\ \A i \in 1..Len(out') : ~ IsResponse(out'[i])
            /\ port'.sync_num \in {port.sync_num, None}
         \/ /\ port.sync_num # None
            /\ \A i \in 1..Len(out') : IsResponse(out'[i]) => i = 1 /\ out'[i].num = port.sync_num
            /\ port'.sync_num = None
  PROVE  OnePlace'
<1>1. port.sync_num \in Syncs \cup {None} /\ None \notin Syncs
  BY Sizes DEF Typed, Ports
<1>2. \A k \in Syncs : Unsent(k) /\ k # port.sync_num => Unsent(k)'
  BY DEF Unsent
<1>3. \A k \in Syncs : Waiting(k)' <=> Waiting(k)
  BY DEF Waiting
<1>4. (port.sync_num # None => Unsent(port.sync_num))'
  BY DEF OnePlace, Unsent
<1>5. (\A i \in 1..Len(out) : IsResponse(out[i]) => i = 1 /\ hist.answers[out[i].num] = <<>>)'
  BY DEF OnePlace, Unsent
<1>6. QED
  BY <1>1, <1>2, <1>3, <1>4, <1>5 DEF OnePlace, FreshKept, AnsweredOnce

-----------------------------------------------------------------------------
(***************************************************************************)
(* The emulator and the hub.                                               *)
(***************************************************************************)
\* Issuing a command ends the freshness of its number alone.
LEMMA IssueMoves ==
  ASSUME Typed, OnePlace, NEW kind \in Kinds, NEW s \in Speeds, Issue(kind, s)
  PROVE  Typed' /\ OnePlace'
<1> DEFINE k == emu.cmd + 1
           x == IF s = emu.speed THEN <<>> ELSE <<Speed(s)>>
           y == <<OnMsg, Data(k, FrameParts), OffSync(k)>>
           e == [emu EXCEPT !.st = "halt", !.cmd = k, !.speed = s, !.kind[k] = kind]
<1>1. /\ emu' = e /\ inq' = inq \o x \o y /\ emu.cmd < MaxCommands
      /\ hist' = [hist EXCEPT !.disturbed = @ /\ ~Quiescent,
                              !.rejects = IF s = emu.speed /\ ~hist.disturbed THEN @ ELSE 0]
      /\ port' = port /\ out' = out
  BY DEF Issue, dev
<1>2. emu \in Emulators /\ emu.cmd \in 0 .. MaxCommands /\ MaxCommands \in Nat
  BY Sizes DEF Typed, Emulators
<1>3. k \in Commands /\ k > emu.cmd
  BY <1>1, <1>2 DEF Commands
<1>4. Speed(s) \in Others /\ OnMsg \in Others /\ Data(k, FrameParts) \in Others /\ OffSync(k) \in Requests
  BY <1>3 DEF Others, Requests
<1>5. emu' \in Emulators /\ emu'.cmd = k
  <2>1. s \in BothSpeeds
    BY Sizes
  <2>2. k \in 0 .. MaxCommands
    BY <1>3 DEF Commands
  <2> HIDE DEF k
  <2>3. e \in Emulators
    BY <1>2, <1>3, <2>1, <2>2 DEF Emulators
  <2>4. e.cmd = k
    BY <1>2 DEF Emulators
  <2>5. QED
    BY <1>1, <2>3, <2>4
<1>6. x \in Seq(InMsgs) /\ y \in Seq(InMsgs) /\ inq \in Seq(InMsgs)
  <2>1. Speed(s) \in InMsgs /\ OnMsg \in InMsgs /\ Data(k, FrameParts) \in InMsgs /\ OffSync(k) \in InMsgs
    BY <1>4 DEF InMsgs
  <2>2. QED
    BY <2>1 DEF Typed
<1>7. hist' \in Histories /\ hist'.answers = hist.answers
  <2> DEFINE h == [hist EXCEPT !.disturbed = @ /\ ~Quiescent,
                              !.rejects = IF s = emu.speed /\ ~hist.disturbed THEN @ ELSE 0]
  <2>1. hist \in Histories
    BY DEF Typed
  <2>2. (hist.disturbed /\ ~Quiescent) \in BOOLEAN /\ (IF s = emu.speed /\ ~hist.disturbed THEN hist.rejects ELSE 0) \in Int
    BY <2>1 DEF Histories
  <2>3. h \in Histories
    BY <2>1, <2>2 DEF Histories
  <2>4. h.answers = hist.answers
    BY <2>1 DEF Histories
  <2>5. QED
    BY <1>1, <2>3, <2>4
<1>8. Typed'
  <2>1. inq' \in Seq(InMsgs)
    BY <1>1, <1>6
  <2>2. QED
    BY <1>1, <1>2, <1>5, <1>7, <2>1 DEF Typed
<1>9. FreshAt(emu, k) /\ ~ FreshAt(emu', k) /\ FreshKept
  <2> HIDE DEF k
  <2>1. emu'.cmd = k /\ k \in Int /\ emu.cmd \in Int /\ Commands \subseteq Int
    BY <1>2, <1>3, <1>5 DEF Commands
  <2>2. ~ FreshAt(emu', k)
    BY <1>3, <2>1, Sizes DEF FreshAt
  <2>3. FreshKept
    <3>1. \A c \in Commands : c > k => c > emu.cmd
      BY <1>3, <2>1
    <3>2. \A j : FreshAt(emu', j) => FreshAt(emu, j)
      BY <1>3, <2>1, <3>1 DEF FreshAt
    <3>3. QED
      BY <3>2 DEF FreshKept
  <2>4. QED
    BY <1>3, <2>2, <2>3 DEF FreshAt
<1>10. OffSync(k).num = k /\ Others \cap Requests = {}
  BY Messages, <1>3
<1>11. /\ inq' = inq \o (x \o y)
       /\ x \o y \in Seq(InMsgs)
       /\ \A i \in 1..Len(x \o y) : (x \o y)[i] \in Requests => i = Len(x \o y) /\ (x \o y)[i] = OffSync(k)
  <2>1. inq' = inq \o (x \o y)
    <3> HIDE DEF x, y, e
    <3>1. (inq \o x) \o y = inq \o (x \o y)
      BY <1>6, ConcatAssociative
    <3>2. QED
      BY <1>1, <3>1
  <2>2. Len(x \o y) = Len(x) + 3
    BY <1>6
  <2>3. Len(x) \in 0 .. 1 /\ (Len(x) = 1 => x[1] = Speed(s))
    OBVIOUS
  <2>4. ASSUME NEW i \in 1..Len(x \o y), (x \o y)[i] \in Requests
        PROVE  i = Len(x \o y) /\ (x \o y)[i] = OffSync(k)
    <3>1. (x \o y)[i] = IF i <= Len(x) THEN x[i] ELSE y[i - Len(x)]
      BY <1>6, <2>2, <2>3
    <3>2. CASE i <= Len(x)
      BY <1>4, <1>10, <2>3, <2>4, <3>1, <3>2
    <3>3. CASE ~ (i <= Len(x))
      <4>1. i - Len(x) \in 1..3 /\ (x \o y)[i] = y[i - Len(x)]
        BY <2>2, <2>3, <3>1, <3>3
      <4>2. y[1] \notin Requests /\ y[2] \notin Requests
        BY <1>4, <1>10
      <4>3. i - Len(x) = 3
        BY <2>4, <4>1, <4>2
      <4>4. QED
        BY <2>2, <2>3, <4>1, <4>3
    <3>4. QED
      BY <3>2, <3>3
  <2>5. QED
    BY <1>6, <2>1, <2>4
<1> DEFINE q == x \o y
<1>12. /\ q \in Seq(InMsgs) /\ inq' = inq \o q
       /\ \A i \in 1..Len(q) : q[i] \in Requests => i = Len(q) /\ FreshAt(emu, q[i].num) /\ ~ FreshAt(emu', q[i].num)
  BY <1>9, <1>10, <1>11
<1> HIDE DEF q
<1>13. OnePlace'
  BY <1>1, <1>7, <1>9, <1>12, MoveAsked
<1>14. QED
  BY <1>8, <1>13

\* What the emulator hears, or gives up, makes no number fresh.
LEMMA EmulatorSteps ==
  ASSUME Typed, OnePlace, HubReceive \/ GiveUp
  PROVE  Typed' /\ OnePlace'
<1>1. emu \in Emulators /\ hist \in Histories
  BY DEF Typed
<1>2. PICK st \in {"run", "halt", "senddata", "halt2", "await"} :
        emu' = [emu EXCEPT !.st = st] /\ (st \in {"halt", "senddata"} => emu.st = "halt" \/ st = emu.st)
        /\ (st # "run" => emu.st # "run")
  <2>1. CASE GiveUp
    BY <2>1 DEF GiveUp
  <2>2. CASE HubReceive
    <3> DEFINE m == Head(outq)
               st == IF m.type = "SYNC_RESPONSE" THEN OnSyncResponse(m)
                     ELSE IF emu.st = "await" /\ Ends(m.byte) THEN "run" ELSE emu.st
    <3>1. emu' = [emu EXCEPT !.st = st]
      BY <2>2 DEF HubReceive
    <3>2. OnSyncResponse(m) \in {"run", "halt", "senddata", "halt2", "await"}
          /\ (OnSyncResponse(m) \in {"halt", "senddata"} => emu.st = "halt" \/ OnSyncResponse(m) = emu.st)
          /\ (OnSyncResponse(m) # "run" => emu.st # "run")
      BY <1>1 DEF OnSyncResponse, Emulators
    <3>3. emu.st \in {"run", "halt", "senddata", "halt2", "await"}
      BY <1>1 DEF Emulators
    <3>4. QED
      BY <3>1, <3>2, <3>3
  <2>3. QED
    BY <2>1, <2>2
<1>3. emu' \in Emulators /\ emu'.cmd = emu.cmd /\ emu'.st = st
  BY <1>1, <1>2 DEF Emulators
<1>4. FreshKept
  BY <1>2, <1>3 DEF FreshKept, FreshAt
<1>5. inq' = inq /\ port' = port /\ out' = out /\ hist' \in Histories /\ hist'.answers = hist.answers
  BY <1>1 DEF HubReceive, GiveUp, dev, Histories
<1>6. Typed'
  BY <1>2, <1>3, <1>5 DEF Typed
<1>7. OnePlace'
  BY <1>4, <1>5, MoveNone
<1>8. QED
  BY <1>6, <1>7

\* The data frame: the number of its sync request was fresh until now.
LEMMA SendDataMoves ==
  ASSUME Typed, OnePlace, NEW sync \in BOOLEAN, SendData(sync)
  PROVE  Typed' /\ OnePlace'
<1> DEFINE c == emu.cmd
           q == IF ~port.initialized THEN <<>>
                ELSE IF sync THEN <<Data(c, <<"data">>), DataSync(c, "cksum")>>
                ELSE <<Data(c, DataParts)>>
<1>1. /\ emu.st = "senddata" /\ emu' = [emu EXCEPT !.st = IF sync THEN "halt2" ELSE "await"]
      /\ port' = port /\ out' = out /\ hist' = hist
  BY DEF SendData, dev
<1>2. emu \in Emulators /\ inq \in Seq(InMsgs)
  BY DEF Typed
<1>3. emu' \in Emulators /\ emu'.cmd = c /\ emu'.st \in {"halt2", "await"}
  BY <1>1, <1>2 DEF Emulators
<1>4. inq' = inq \o q
  BY <1>2 DEF SendData
<1>5. FreshKept
  BY <1>1, <1>3 DEF FreshKept, FreshAt
<1>6. c \in Commands
  BY <1>1, <1>2 DEF Typed, Emulators, Commands
<1>7. /\ Data(c, <<"data">>) \in Others /\ Data(c, DataParts) \in Others
      /\ DataSync(c, "cksum") \in Requests /\ DataSync(c, "cksum").num = DataSyncOf(c)
      /\ Others \cap Requests = {}
  BY <1>6, Messages DEF Others, Requests
<1>8. q \in Seq(InMsgs)
  <2>1. Data(c, <<"data">>) \in InMsgs /\ Data(c, DataParts) \in InMsgs /\ DataSync(c, "cksum") \in InMsgs
    BY <1>7 DEF InMsgs
  <2>2. QED
    BY <2>1
<1>9. FreshAt(emu, DataSyncOf(c)) /\ ~ FreshAt(emu', DataSyncOf(c))
  <2>1. ~ (c > c)
    BY <1>6 DEF Commands
  <2>2. QED
    BY <1>1, <1>3, <1>6, <2>1, Sizes DEF FreshAt
<1>10. \A i \in 1..Len(q) : q[i] \in Requests => i = Len(q) /\ FreshAt(emu, q[i].num) /\ ~ FreshAt(emu', q[i].num)
  <2>1. CASE port.initialized /\ sync
    <3>1. Len(q) = 2 /\ q[1] = Data(c, <<"data">>) /\ q[2] = DataSync(c, "cksum")
      BY <2>1
    <3>2. QED
      BY <1>7, <1>9, <3>1
  <2>2. CASE ~ (port.initialized /\ sync)
    <3>1. \A i \in 1..Len(q) : q[i] = Data(c, DataParts)
      BY <2>2
    <3>2. QED
      BY <1>7, <3>1
  <2>3. QED
    BY <2>1, <2>2
<1>11. Typed'
  <2>1. inq' \in Seq(InMsgs)
    BY <1>2, <1>4, <1>8
  <2>2. c # 0
    BY <1>6 DEF Commands
  <2>3. QED
    BY <1>1, <1>3, <2>1, <2>2 DEF Typed
<1> HIDE DEF q
<1>12. OnePlace'
  BY <1>1, <1>4, <1>5, <1>8, <1>10, MoveAsked
<1>13. QED
  BY <1>11, <1>12

\* Credit asks for nothing.
LEMMA GrantMoves ==
  ASSUME Typed, OnePlace, Grant
  PROVE  Typed' /\ OnePlace'
<1> DEFINE q == <<Credit(InitialCredit)>>
<1>1. inq \in Seq(InMsgs) /\ Credit(InitialCredit) \in Others /\ Credit(InitialCredit) \notin Requests
  BY Messages DEF Typed, Others
<1>2. q \in Seq(InMsgs) /\ inq' = inq \o q
  BY <1>1 DEF Grant, InMsgs
<1>3. \A i \in 1..Len(q) : q[i] \notin Requests
  BY <1>1
<1>4. emu' = emu /\ port' = port /\ out' = out /\ hist' = hist
  BY DEF Grant, dev
<1>5. Typed'
  <2>1. inq' \in Seq(InMsgs)
    BY <1>1, <1>2
  <2>2. QED
    BY <1>4, <2>1 DEF Typed
<1> HIDE DEF q
<1>6. OnePlace'
  <2>1. FreshKept
    BY <1>4 DEF FreshKept
  <2>2. QED
    BY <1>2, <1>3, <1>4, <2>1, MoveAsked
<1>7. QED
  BY <1>5, <1>6

-----------------------------------------------------------------------------
(***************************************************************************)
(* The device.                                                             *)
(***************************************************************************)
\* A step that neither sends nor receives, and may forget a pending request.
LEMMA QuietStep ==
  ASSUME Typed, OnePlace, UNCHANGED <<emu, inq, out>>, port' \in Ports,
         port'.sync_num \in {port.sync_num, None}, hist' \in Histories, hist'.answers = hist.answers
  PROVE  Typed' /\ OnePlace'
<1>1. Typed'
  BY DEF Typed
<1>2. OnePlace'
  BY MoveNone DEF FreshKept
<1>3. QED
  BY <1>1, <1>2

\* A step that receives at most one datagram.
LEMMA ReceivingStep ==
  ASSUME Typed, OnePlace, UNCHANGED <<emu, out>>, hist' \in Histories, hist'.answers = hist.answers,
         \/ Receive
         \/ inq' = inq /\ port' \in Ports /\ port'.sync_num = port.sync_num
  PROVE  Typed' /\ OnePlace'
<1>1. CASE Receive
  <2>1. inq' \in Seq(InMsgs) /\ port' \in Ports
    BY <1>1, ReceiveStep
  <2>2. Typed'
    BY <2>1 DEF Typed
  <2>3. OnePlace'
    BY <1>1, MoveReceived DEF FreshKept
  <2>4. QED
    BY <2>2, <2>3
<1>2. CASE inq' = inq /\ port' \in Ports /\ port'.sync_num = port.sync_num
  BY <1>2, QuietStep
<1>3. QED
  BY <1>1, <1>2

\* Waiting for a command, its frame, data, a checksum or credit.
LEMMA PollMoves ==
  ASSUME Typed, OnePlace,
         \/ service \/ ReadFrame \/ WaitDeassert \/ Dispatch \/ RejectFrame
         \/ wait_for_credit \/ ReadData \/ ReadChecksum
  PROVE  Typed' /\ OnePlace'
<1>1. port \in Ports /\ hist \in Histories
  BY DEF Typed
<1>2. emu' = emu /\ out' = out
  BY DEF service, ReadFrame, WaitDeassert, Dispatch, RejectFrame, wait_for_credit, ReadData, ReadChecksum, dev
<1>3. hist' \in Histories /\ hist'.answers = hist.answers
  <2>1. CASE Dispatch
    BY <1>1, <2>1 DEF Dispatch, Histories
  <2>2. CASE RejectFrame
    BY <1>1, <2>2 DEF RejectFrame, Histories
  <2>3. CASE ~ Dispatch /\ ~ RejectFrame
    BY <1>1, <2>3 DEF service, ReadFrame, WaitDeassert, wait_for_credit, ReadData, ReadChecksum
  <2>4. QED
    BY <2>1, <2>2, <2>3
<1>4. HandleNetsio \/ Available => Receive \/ (inq' = inq /\ port' = port)
  BY DEF HandleNetsio, Available
<1>5. ReadByte => Receive \/ (inq' = inq /\ port' \in Ports /\ port'.sync_num = port.sync_num)
  <2>1. ASSUME port.rx # <<>>, port' = [port EXCEPT !.rx = Tail(@)]
        PROVE  port' \in Ports /\ port'.sync_num = port.sync_num
    <3>1. port.rx \in Seq(RxBytes)
      BY <1>1 DEF Ports
    <3>2. Tail(port.rx) \in Seq(RxBytes)
      BY <2>1, <3>1
    <3>3. QED
      BY <1>1, <2>1, <3>2 DEF Ports
  <2>2. QED
    BY <2>1 DEF ReadByte
<1>6. \/ Receive
      \/ inq' = inq /\ port' \in Ports /\ port'.sync_num = port.sync_num
  BY <1>1, <1>4, <1>5
     DEF service, ReadFrame, WaitDeassert, Dispatch, RejectFrame, wait_for_credit, ReadData, ReadChecksum
<1>7. QED
  BY <1>2, <1>3, <1>6, ReceivingStep

\* Steps that leave every request where it is.
LEMMA OtherMoves ==
  ASSUME Typed, OnePlace,
         \/ FrameTimeout \/ DeassertTimeout \/ Flush \/ LateAckOp \/ DataTimeout
         \/ ChecksumFails \/ Outcome \/ Toggle \/ EmptyAckSent \/ begin
  PROVE  Typed' /\ OnePlace'
<1>1. port \in Ports /\ hist \in Histories
  BY DEF Typed
<1>2. emu' = emu /\ inq' = inq /\ out' = out /\ hist' = hist
  BY DEF FrameTimeout, DeassertTimeout, Flush, LateAckOp, DataTimeout, ChecksumFails, Outcome, Toggle,
         EmptyAckSent, begin, dev
<1>3. port' \in Ports /\ port'.sync_num = port.sync_num
  <2>1. <<>> \in Seq(RxBytes) /\ \A x : Other(x) \in BothSpeeds
    BY DEF Other, BothSpeeds
  <2>2. CASE Flush
    <3>1. port' = port \/ port' = [port EXCEPT !.rx = <<>>]
      BY <2>2 DEF Flush
    <3>2. QED
      BY <1>1, <2>1, <3>1 DEF Ports
  <2>3. CASE LateAckOp
    <3> DEFINE q == [port EXCEPT !.sync_ack_byte = "A"]
    <3>1. q \in Ports /\ q.sync_num = port.sync_num
      BY <1>1 DEF Ports
    <3>2. port' = [q EXCEPT !.sync_write_size = 0]
      BY <2>3 DEF LateAckOp
    <3> HIDE DEF q
    <3>3. QED
      BY <3>1, <3>2 DEF Ports
  <2>4. CASE Toggle
    BY <1>1, <2>1, <2>4 DEF Toggle, toggleBaudrate, Ports
  <2>5. CASE begin
    BY <1>1, <2>1, <2>5 DEF begin, Ports
  <2>6. CASE FrameTimeout \/ DeassertTimeout \/ DataTimeout \/ ChecksumFails \/ Outcome \/ EmptyAckSent
    BY <1>1, <2>6 DEF FrameTimeout, DeassertTimeout, DataTimeout, ChecksumFails, Outcome, EmptyAckSent
  <2>7. QED
    BY <2>2, <2>3, <2>4, <2>5, <2>6
<1>4. QED
  BY <1>1, <1>2, <1>3, QuietStep

\* The connection is lost, with what was on its way.
LEMMA LossMoves ==
  ASSUME Typed, OnePlace, Suspend \/ Reconnect
  PROVE  Typed' /\ OnePlace'
<1>1. port \in Ports /\ hist \in Histories
  BY DEF Typed
<1>2. emu' = emu /\ inq' = <<>> /\ out' = out
  BY DEF Suspend, Reconnect, dev
<1>3. hist' \in Histories /\ hist'.answers = hist.answers
  BY <1>1 DEF Suspend, Reconnect, Histories
<1>4. <<>> \in Seq(RxBytes) /\ <<>> \in Seq(InMsgs)
  OBVIOUS
<1>5. port' \in Ports /\ port'.sync_num = port.sync_num
  BY <1>1, <1>4 DEF Suspend, Reconnect, Ports
<1>6. Typed'
  BY <1>2, <1>3, <1>4, <1>5 DEF Typed
<1>7. OnePlace'
  BY <1>2, <1>3, <1>5, MoveLost DEF FreshKept
<1>8. QED
  BY <1>6, <1>7

\* Sending, or failing to.
LEMMA SendMoves ==
  ASSUME Typed, OnePlace, Send \/ SendFails
  PROVE  Typed' /\ OnePlace'
<1>1. port \in Ports /\ hist \in Histories /\ out \in Seq(OutMsgs)
  BY DEF Typed
<1>2. emu' = emu /\ inq' = inq /\ out # <<>> /\ out' = Tail(out)
  BY DEF Send, SendFails
<1>3. port' \in Ports /\ port'.sync_num = port.sync_num
  <2>1. PICK n : port' = [port EXCEPT !.credit = n] /\ n \in {port.credit - 1, 0}
    BY DEF Send, SendFails
  <2>2. n \in Int
    BY <1>1, <2>1 DEF Ports
  <2>3. QED
    BY <1>1, <2>1, <2>2 DEF Ports
<1>4. out' \in Seq(OutMsgs) /\ Head(out) \in OutMsgs
  BY <1>1, <1>2
<1>5. FreshKept
  BY <1>2 DEF FreshKept
<1>6. CASE SendFails
  <2>1. hist' = hist
    BY <1>6 DEF SendFails
  <2>2. Typed'
    BY <1>2, <1>3, <1>4, <2>1 DEF Typed
  <2>3. QED
    BY <1>2, <1>3, <1>5, <2>1, <2>2, MoveGivenUp
<1>7. CASE Send
  <2> DEFINE m == Head(out)
             a == [hist.answers EXCEPT ![m.num] = Append(@, m)]
  <2>1. hist' = IF IsResponse(m) THEN [hist EXCEPT !.answers[m.num] = Append(@, m)] ELSE hist
    BY <1>7 DEF Send, IsResponse
  <2>2. hist.answers \in [Syncs -> Seq(OutMsgs)] /\ m \in OutMsgs
    BY <1>1, <1>4 DEF Histories
  <2>3. IsResponse(m) => m.num \in Syncs
    BY <2>2 DEF IsResponse, OutMsgs, Responses
  <2> HIDE DEF m
  <2>4. a \in [Syncs -> Seq(OutMsgs)]
    <3>1. \A k \in Syncs : Append(hist.answers[k], m) \in Seq(OutMsgs)
      BY <2>2
    <3>2. QED
      BY <2>2, <3>1
  <2>5. IsResponse(m) => hist' = [hist EXCEPT !.answers = a]
    BY <1>1, <2>1 DEF Histories
  <2> HIDE DEF a
  <2>6. hist' \in Histories /\ hist'.answers = IF IsResponse(m) THEN a ELSE hist.answers
    BY <1>1, <2>1, <2>4, <2>5 DEF Histories
  <2>7. Typed'
    BY <1>2, <1>3, <1>4, <2>6 DEF Typed
  <2>8. OnePlace'
    BY <1>2, <1>3, <1>5, <2>6, MoveSent DEF m, a
  <2>9. QED
    BY <2>7, <2>8
<1>8. QED
  BY <1>6, <1>7

\* A written byte answers a pending request, and the port forgets it.
LEMMA WriteMoves ==
  ASSUME Typed, OnePlace, WriteByte \/ WriteBlock \/ SetWriteSize \/ Return
  PROVE  Typed' /\ OnePlace'
<1>1. port \in Ports
  BY DEF Typed
<1>2. emu' = emu /\ inq' = inq /\ hist' = hist /\ out = <<>>
  BY DEF WriteByte, WriteBlock, SetWriteSize, Return, Doing
<1>3. ASSUME NEW p \in Ports PROVE ClearSync(p) \in Ports /\ ClearSync(p).sync_num = None
  <2>1. None \in Int
    BY DEF None
  <2>2. QED
    BY <2>1 DEF ClearSync, Ports
<1>4. ASSUME NEW k \in Syncs, NEW t \in {"ACK", "EMPTY"}, NEW c \in ByteNames, NEW n \in Int
      PROVE  /\ SyncResponse(k, t, c, n) \in OutMsgs /\ SyncResponse(k, t, c, n).num = k
             /\ DataByte(c) \in OutMsgs /\ ~ IsResponse(DataByte(c))
  BY DEF SyncResponse, DataByte, OutMsgs, Responses, IsResponse
<1>5. ASSUME NEW c \in ByteNames
      PROVE  DataByte(c) \in OutMsgs /\ ~ IsResponse(DataByte(c))
  BY DEF DataByte, OutMsgs, IsResponse
<1>6. /\ port.sync_num \in Syncs \cup {None} /\ port.sync_write_size \in Int
      /\ port.sync_ack_byte \in ByteNames
  BY <1>1 DEF Ports, ByteNames
<1>7. {"A", "N", "C", "E", "K", "block", ""} \subseteq ByteNames
  BY DEF ByteNames
<1> DEFINE Moved ==
      \/ /\ \A i \in 1..Len(out') : ~ IsResponse(out'[i])
         /\ port'.sync_num \in {port.sync_num, None}
      \/ /\ port.sync_num # None
         /\ \A i \in 1..Len(out') : IsResponse(out'[i]) => i = 1 /\ out'[i].num = port.sync_num
         /\ port'.sync_num = None
<1>a. ASSUME NEW m \in OutMsgs, out' = <<m>>
      PROVE  out' \in Seq(OutMsgs) /\ \A i \in 1..Len(out') : i = 1 /\ out'[i] = m
  BY <1>a
<1>b. ASSUME out' = <<>>
      PROVE  out' \in Seq(OutMsgs) /\ \A i \in 1..Len(out') : ~ IsResponse(out'[i])
  BY <1>b
<1>8. ASSUME NEW c \in ByteNames, out' = write(c), port' = ClearSync(port)
      PROVE  out' \in Seq(OutMsgs) /\ port' \in Ports /\ Moved
  <2>1. port' \in Ports /\ port'.sync_num = None
    BY <1>1, <1>3, <1>8
  <2>2. CASE port.sync_num = None
    <3>1. out' = <<DataByte(c)>>
      BY <1>8, <2>2 DEF write
    <3>2. QED
      BY <1>5, <1>a, <2>1, <3>1
  <2>3. CASE port.sync_num # None /\ port.sync_write_size = None
    <3>1. out' = <<SyncResponse(port.sync_num, "ACK", c, 0)>>
      BY <1>8, <2>3 DEF write
    <3>2. SyncResponse(port.sync_num, "ACK", c, 0) \in OutMsgs /\ SyncResponse(port.sync_num, "ACK", c, 0).num = port.sync_num
      BY <1>4, <1>6, <2>3
    <3>3. QED
      BY <1>a, <2>1, <2>3, <3>1, <3>2
  <2>4. CASE port.sync_num # None /\ port.sync_write_size # None
    <3> DEFINE r == SyncResponse(port.sync_num, "ACK", port.sync_ack_byte, port.sync_write_size)
    <3>1. out' = <<r, DataByte(c)>>
      BY <1>8, <2>4 DEF write
    <3>2. r \in OutMsgs /\ r.num = port.sync_num
      BY <1>4, <1>6, <2>4
    <3> HIDE DEF r
    <3>3. QED
      BY <1>5, <2>1, <2>4, <3>1, <3>2
  <2>5. QED
    BY <2>2, <2>3, <2>4
<1>9. out' \in Seq(OutMsgs) /\ port' \in Ports /\ Moved
  <2>1. CASE WriteByte
    <3>1. CASE port.initialized
      <4>1. PICK c \in {"A", "N", "C", "E", "K"} : out' = write(c) /\ port' = ClearSync(port)
        BY <2>1, <3>1 DEF WriteByte
      <4> HIDE DEF Moved
      <4>2. QED
        BY <1>7, <1>8, <4>1
    <3>2. CASE ~ port.initialized
      <4>1. out' = <<>> /\ port' = port
        BY <1>2, <2>1, <3>2 DEF WriteByte
      <4>2. QED
        BY <1>1, <4>1
    <3>3. QED
      BY <3>1, <3>2
  <2>2. CASE WriteBlock
    <3>1. port' = port /\ out' \in {<<>>, <<DataByte("block")>>}
      BY <2>2 DEF WriteBlock
    <3>2. QED
      BY <1>1, <1>5, <1>7, <1>a, <1>b, <3>1
  <2>3. CASE SetWriteSize
    <3> DEFINE p == [port EXCEPT !.sync_write_size = Len(DataParts)]
               r == SyncResponse(port.sync_num, "ACK", port.sync_ack_byte, p.sync_write_size)
    <3>1. p \in Ports /\ p.sync_num = port.sync_num /\ p.sync_ack_byte = port.sync_ack_byte
      BY <1>1 DEF Ports, DataParts
    <3>2. p.sync_write_size \in Int
      BY <3>1 DEF Ports
    <3>3. IF port.initialized /\ port.sync_num # None
            THEN out' = <<r>> /\ port' = ClearSync(p) ELSE out' = <<>> /\ port' = p
      BY <2>3, <3>1 DEF SetWriteSize
    <3>4. port.sync_num # None => r \in OutMsgs /\ r.num = port.sync_num
      BY <1>4, <1>6, <3>2
    <3> HIDE DEF p, r
    <3>5. CASE port.initialized /\ port.sync_num # None
      <4>1. out' = <<r>> /\ port' \in Ports /\ port'.sync_num = None /\ r \in OutMsgs /\ r.num = port.sync_num
        BY <1>3, <3>1, <3>3, <3>4, <3>5
      <4>2. QED
        BY <1>a, <3>5, <4>1
    <3>6. CASE ~ (port.initialized /\ port.sync_num # None)
      <4>1. out' = <<>> /\ port' \in Ports /\ port'.sync_num = port.sync_num
        BY <3>1, <3>3, <3>6
      <4>2. QED
        BY <1>b, <4>1
    <3>7. QED
      BY <3>5, <3>6
  <2>4. CASE Return
    <3> DEFINE r == SyncResponse(port.sync_num, "EMPTY", "", 0)
    <3>1. \/ out' = <<r>> /\ port' = ClearSync(port) /\ port.sync_num # None
          \/ out' = <<>> /\ port' = port
      BY <1>2, <2>4 DEF Return
    <3>2. port.sync_num # None => r \in OutMsgs /\ r.num = port.sync_num
      <4>1. "" \in ByteNames /\ "EMPTY" \in {"ACK", "EMPTY"} /\ 0 \in Int
        BY DEF ByteNames
      <4>2. QED
        BY <1>4, <1>6, <4>1
    <3> HIDE DEF r
    <3>3. CASE out' = <<r>> /\ port' = ClearSync(port) /\ port.sync_num # None
      <4>1. port' \in Ports /\ port'.sync_num = None /\ r \in OutMsgs /\ r.num = port.sync_num
        BY <1>1, <1>3, <3>2, <3>3
      <4>2. QED
        BY <1>a, <3>3, <4>1
    <3>4. CASE out' = <<>> /\ port' = port
      BY <1>1, <1>b, <3>4
    <3>5. QED
      BY <3>1, <3>3, <3>4
  <2>5. QED
    BY <2>1, <2>2, <2>3, <2>4
<1>10. Typed'
  BY <1>2, <1>9 DEF Typed
<1>11. OnePlace'
  BY <1>2, <1>9, MoveWritten DEF FreshKept
<1>12. QED
  BY <1>10, <1>11

-----------------------------------------------------------------------------
(***************************************************************************)
(* The theorem.                                                            *)
(***************************************************************************)
LEMMA InitPlaces ==
  ASSUME Init
  PROVE  Typed /\ OnePlace
<1>1. emu \in Emulators /\ emu.st = "run"
  BY Sizes DEF Init, Emulators, BothSpeeds
<1>2. inq = <<>> /\ out = <<>> /\ inq \in Seq(InMsgs) /\ out \in Seq(OutMsgs)
  BY DEF Init
<1>3. port \in Ports /\ port.sync_num = None
  <2>1. None \in Int /\ InitialCredit \in Int /\ <<>> \in Seq(RxBytes)
    BY Sizes DEF None
  <2>2. QED
    BY <2>1 DEF Init, Ports, BothSpeeds
<1>4. hist \in Histories /\ \A k \in Syncs : hist.answers[k] = <<>>
  <2>1. <<>> \in Seq(OutMsgs)
    OBVIOUS
  <2>2. QED
    BY <2>1 DEF Init, Histories
<1>5. Typed
  BY <1>1, <1>2, <1>3, <1>4 DEF Typed
<1>6. OnePlace
  <2>1. Len(inq) = 0 /\ Len(out) = 0
    BY <1>2
  <2>2. \A k \in Syncs : Unsent(k) /\ ~ Waiting(k) /\ port.sync_num # k
    BY <1>3, <1>4, <2>1, Sizes DEF Unsent, Waiting
  <2>3. AnsweredOnce
    BY <1>4 DEF AnsweredOnce
  <2>4. QED
    BY <1>3, <2>1, <2>2, <2>3 DEF OnePlace
<1>7. QED
  BY <1>5, <1>6

LEMMA StepPlaces ==
  ASSUME Typed, OnePlace, [Next]_vars
  PROVE  Typed' /\ OnePlace'
<1>1. CASE UNCHANGED vars
  <2>1. UNCHANGED <<emu, inq, out, port, hist>>
    BY <1>1 DEF vars
  <2>2. port \in Ports /\ hist \in Histories
    BY DEF Typed
  <2>3. QED
    BY <2>1, <2>2, QuietStep
<1>2. CASE \E kind \in Kinds, s \in Speeds : Issue(kind, s)
  BY <1>2, IssueMoves
<1>3. CASE Hub
  BY <1>3, EmulatorSteps, GrantMoves, SendDataMoves DEF Hub
<1>4. CASE GiveUp
  BY <1>4, EmulatorSteps
<1>5. CASE Suspend \/ Reconnect
  BY <1>5, LossMoves
<1>6. CASE Device
  BY <1>6, PollMoves, OtherMoves, SendMoves, WriteMoves DEF Device
<1>7. QED
  BY <1>1, <1>2, <1>3, <1>4, <1>5, <1>6 DEF Next

\* Every sync request of the hub is answered at most once, whatever commands are
\* abandoned, whatever arrives while the device waits for credit, and however
\* often the connection is lost: AnsweredOnce.
THEOREM RequestsAnsweredOnce == Spec => []AnsweredOnce
<1>1. Init => Typed /\ OnePlace
  BY InitPlaces
<1>2. Typed /\ OnePlace /\ [Next]_vars => (Typed /\ OnePlace)'
  BY StepPlaces
<1>3. OnePlace => AnsweredOnce
  BY DEF OnePlace
<1>4. QED
  BY <1>1, <1>2, <1>3, PTL DEF Spec

-----------------------------------------------------------------------------
(***************************************************************************)
(* The conversation.  As long as nothing disturbs it, emulator and device  *)
(* go through it together; the invariant says which phase they are in.     *)
(***************************************************************************)
\* What holds of the queues in every state, disturbed or not: credit is on its
\* way only to a write that waits for it, a port that is down has nothing to
\* receive, and the answers under way have been recorded.
Recorded ==
  /\ outq \in Seq(OutMsgs)
  /\ \A j \in 1..Len(outq) : IsResponse(outq[j]) => hist.answers[outq[j].num] # <<>>
AtRest ==
  /\ pc # "run" => todo = <<>>
  /\ pc \notin {"run", "empty"} => out = <<>>
Credited ==
  /\ ~port.initialized => inq = <<>>
  /\ \A i \in 1..Len(inq) : inq[i].type = "CREDIT" =>
       /\ out # <<>> /\ port.credit = 0
       /\ \A j \in 1..Len(inq) : inq[j].type = "CREDIT" => j = i
Buses == [sioBaud : BothSpeeds, command_frame_counter : 0 .. 1, processed : BOOLEAN,
          boot_config : BOOLEAN, status_wait_count : Int]
Orderly == Recorded /\ AtRest /\ Credited /\ bus \in Buses

(***************************************************************************)
(* The emulator's side: what it will do with the answers under way.        *)
(***************************************************************************)
Answers(m, n) == IsResponse(m) /\ m.num = n

\* The emulator heeds the byte at place j: it is past the answer to its command.
Heeds(j) == emu.st # "halt" \/ \E i \in 1..j : Answers(outq[i], emu.cmd)

\* No byte under way ends the command.
NoEnd == \A j \in 1..Len(outq) : outq[j].type = "DATA" /\ Ends(outq[j].byte) => ~Heeds(j)

\* The emulator is halted, and its command is not answered.
Mute ==
  /\ emu.st = "halt"
  /\ \A j \in 1..Len(outq) : ~Answers(outq[j], emu.cmd) /\ ~Answers(outq[j], DataSyncOf(emu.cmd))

\* The command is not at its end, for all that is under way.
Held ==
  /\ emu.st \in {"halt", "halt2", "await"}
  /\ NoEnd
  /\ \A j \in 1..Len(outq) :
       /\ Answers(outq[j], emu.cmd) /\ emu.st = "halt"
            => outq[j].ack = "ACK" /\ outq[j].byte = "A" /\ outq[j].size = 0
       /\ Answers(outq[j], DataSyncOf(emu.cmd)) => outq[j].ack = "ACK" /\ outq[j].byte = "A"

\* The emulator is asked, or will be, for the data frame.
Asked ==
  /\ emu.st \in {"halt", "senddata"}
  /\ NoEnd
  /\ \A j \in 1..Len(outq) :
       /\ ~Answers(outq[j], DataSyncOf(emu.cmd))
       /\ Answers(outq[j], emu.cmd) /\ emu.st = "halt"
            => outq[j].ack = "ACK" /\ outq[j].byte = "A" /\ outq[j].size > 0
  /\ emu.st = "halt" => \E j \in 1..Len(outq) : Answers(outq[j], emu.cmd)

\* The emulator may do anything but send a data frame.
Free ==
  /\ emu.st # "senddata"
  /\ emu.st = "halt" => \A j \in 1..Len(outq) : Answers(outq[j], emu.cmd) => outq[j].size = 0

(***************************************************************************)
(* The datagrams of a command, COMMAND_ON at place b of the queue; b is 0  *)
(* or less when the first ones have been received.                         *)
(***************************************************************************)
Stream(b) ==
  /\ b + 2 <= Len(inq)
  /\ \A i \in 1..Len(inq) :
       /\ i = b => inq[i] = OnMsg
       /\ i = b + 1 => inq[i] = Data(emu.cmd, FrameParts)
       /\ i = b + 2 => inq[i] = OffSync(emu.cmd)
       /\ i = b - 1 => inq[i].type \in {"SPEED", "CREDIT"}
       /\ i < b - 1 \/ i > b + 2 => inq[i].type = "CREDIT"
OnlyCredit == \A i \in 1..Len(inq) : inq[i].type = "CREDIT"

InStep == port.baud = port.baud_peer
FrameByte(part) == Byte(emu.cmd, part, InStep)
DataBytes == <<Byte(emu.cmd, "data", TRUE), Byte(emu.cmd, "cksum", TRUE)>>

(***************************************************************************)
(* What a handler has left to do.                                          *)
(***************************************************************************)
Ops == {"A", "N", "C", "E", "K", "block", "acked", "flush", "toggle",
        "late", "size", "data", "cksum", "outcome"}

ReadFlush == {<<"flush">>, <<"flush", "toggle">>}
ReadCksum == {<<"K", "flush">>, <<"K", "flush", "toggle">>}
ReadBlock == {<<"block", "K", "flush">>, <<"block", "K", "flush", "toggle">>}
ReadOutcome == {<<"C", "block", "K", "flush">>, <<"E", "block", "K", "flush">>,
                <<"C", "block", "K", "flush", "toggle">>}
ReadAcked == {<<"acked", "C", "block", "K", "flush">>, <<"acked", "E", "block", "K", "flush">>,
              <<"acked", "C", "block", "K", "flush", "toggle">>}
ReadAck == {<<"A", "acked", "C", "block", "K", "flush">>, <<"A", "acked", "E", "block", "K", "flush">>,
            <<"A", "acked", "C", "block", "K", "flush", "toggle">>}

ControlOutcome == {<<"C">>, <<"E">>}
ControlAcked == {<<"acked", "C">>, <<"acked", "E">>}
ControlAck == {<<"A", "acked", "C">>, <<"A", "acked", "E">>}

PutRest == {<<>>, <<"N", "acked">>}
PutEnd == {<<"C">>, <<"E">>, <<"C", "N", "acked">>, <<"E", "N", "acked">>}
PutOutcome == {<<"outcome">>, <<"outcome", "N", "acked">>}
PutAcked == {<<"acked", "outcome">>, <<"acked", "outcome", "N", "acked">>}
PutAck == {<<"A", "acked", "outcome">>, <<"A", "acked", "outcome", "N", "acked">>}
PutCksum == {<<"cksum", "outcome">>, <<"cksum", "outcome", "N", "acked">>}
PutData == {<<"data", "cksum", "outcome">>, <<"data", "cksum", "outcome", "N", "acked">>}
PutSize == {<<"size", "data", "cksum", "outcome">>, <<"size", "data", "cksum", "outcome", "N", "acked">>}
PutLate == {<<"late", "size", "data", "cksum", "outcome">>,
            <<"late", "size", "data", "cksum", "outcome", "N", "acked">>}

\* What may be left when the emulator has been told the end of the command.
Tails == {<<>>, <<"acked">>, <<"toggle">>, <<"N", "acked">>} \cup ReadFlush

(***************************************************************************)
(* The phases.                                                             *)
(***************************************************************************)
Kind == emu.kind[emu.cmd]
PutKinds == {"put", "hsput"}

\* The device has told the emulator the end of the command it handled, if any,
\* and will not write another answer.
Closing ==
  /\ ~port.command_asserted
  /\ \/ pc \in {"idle", "empty"} /\ out = <<>>
     \/ pc = "run" /\ port.sync_num = None /\ out = <<>> /\ todo \in Tails
     \/ pc = "run" /\ port.sync_num = None /\ out = <<DataByte("N")>> /\ todo = <<"acked">>

Resting == Closing /\ Free /\ OnlyCredit

\* A command is on its way to a device that is done with the one before.
Coming == Closing /\ Mute /\ \E b \in 1..Len(inq) : Stream(b)

\* The device receives the command while its last byte still waits for credit,
\* and will forget it.
Swallowing ==
  /\ Mute /\ (Stream(0) \/ Stream(-1))
  /\ pc = "run" /\ todo = <<"acked">> /\ out = <<DataByte("N")>> /\ port.credit = 0
  /\ port.command_asserted /\ port.sync_num = None
Swallowed ==
  /\ Mute /\ OnlyCredit
  /\ pc = "run" /\ ~port.command_asserted
  /\ \/ todo = <<"acked">> /\ out \in {<<>>, <<DataByte("N")>>}
     \/ todo = <<>> /\ out = <<>> /\ bus.processed

Asserted ==
  /\ Mute
  /\ port.command_asserted /\ port.sync_num = None /\ port.sync_write_size = None
FrameAwaited == Asserted /\ Stream(0) /\ pc = "frame" /\ buf = <<>> /\ port.rx = <<>>
FrameHere ==
  /\ Asserted /\ Stream(-1)
  /\ \/ pc = "frame" /\ buf = <<>> /\ port.rx = <<FrameByte("frame1"), FrameByte("frame2")>>
     \/ pc = "frame" /\ buf = <<FrameByte("frame1")>> /\ port.rx = <<FrameByte("frame2")>>
     \/ pc = "deassert" /\ buf = <<FrameByte("frame1"), FrameByte("frame2")>> /\ port.rx = <<>>
Checking ==
  /\ Mute /\ inq = <<>> /\ pc = "check"
  /\ ~port.command_asserted /\ port.sync_num = emu.cmd /\ port.sync_write_size = None
  /\ buf = <<FrameByte("frame1"), FrameByte("frame2")>> /\ port.rx = <<>>

\* The device handles the emulator's command.
Own == pc = "run" /\ cur = emu.cmd /\ ~port.command_asserted

Starting ==
  /\ Own /\ Mute /\ inq = <<>> /\ out = <<>> /\ port.sync_num = emu.cmd /\ port.rx = <<>>
  /\ port.sync_write_size = IF todo \in PutSize THEN 0 ELSE None
  /\ \/ todo \in {<<>>, <<"toggle">>}
     \/ Kind \in ReadKinds /\ todo \in ReadAck
     \/ Kind = "control" /\ todo \in ControlAck
     \/ Kind = "nak" /\ todo = <<"N", "acked">>
     \/ Kind = "closed" /\ todo = <<"E">>
     \/ Kind \in PutKinds /\ InStep /\ todo \in PutLate \cup PutSize

Answering ==
  /\ Mute /\ OnlyCredit /\ cur = emu.cmd /\ port.sync_num = None /\ ~port.command_asserted
  /\ \/ /\ pc = "run" /\ out = <<SyncResponse(emu.cmd, "ACK", "A", 0)>>
        /\ \/ Kind \in ReadKinds /\ todo \in ReadAcked
           \/ Kind = "control" /\ todo \in ControlAcked
     \/ /\ pc = "run" /\ out = <<SyncResponse(emu.cmd, "ACK", "N", 0)>>
        /\ Kind = "nak" /\ todo = <<"acked">>
     \/ /\ pc = "run" /\ out = <<SyncResponse(emu.cmd, "ACK", "E", 0)>>
        /\ Kind = "closed" /\ todo = <<>>
     \/ pc = "empty" /\ out = <<SyncResponse(emu.cmd, "EMPTY", "", 0)>>
     \/ /\ pc = "run" /\ out = <<SyncResponse(emu.cmd, "ACK", "A", 2)>>
        /\ Kind \in PutKinds /\ todo \in PutData
        /\ InStep /\ buf = <<>> /\ port.rx = <<>> /\ port.sync_write_size = None

Reading ==
  /\ Own /\ Held /\ OnlyCredit /\ port.sync_num = None /\ Kind \in ReadKinds
  /\ \/ out = <<>> /\ todo \in ReadAcked \cup ReadOutcome \cup ReadBlock \cup ReadCksum
     \/ (\E c \in {"C", "E"} : out = <<DataByte(c)>>) /\ todo \in ReadBlock
     \/ out = <<DataByte("block")>> /\ todo \in ReadCksum
     \/ out = <<DataByte("K")>> /\ todo \in ReadFlush

Controlling ==
  /\ Own /\ Held /\ OnlyCredit /\ port.sync_num = None /\ Kind = "control"
  /\ \/ out = <<>> /\ todo \in ControlAcked \cup ControlOutcome
     \/ (\E c \in {"C", "E"} : out = <<DataByte(c)>>) /\ todo = <<>>

\* The data frame is asked for, sent and received.
Receiving ==
  /\ Own /\ Kind \in PutKinds /\ InStep /\ out = <<>> /\ port.sync_write_size = None
Requesting ==
  /\ Receiving /\ Asked /\ inq = <<>> /\ todo \in PutData
  /\ buf = <<>> /\ port.rx = <<>> /\ port.sync_num = None
WithSync ==
  /\ Receiving /\ Held /\ emu.st = "halt2"
  /\ \/ /\ todo \in PutData /\ buf = <<>> /\ port.sync_num = None
        /\ \/ inq = <<Data(emu.cmd, <<"data">>), DataSync(emu.cmd, "cksum")>> /\ port.rx = <<>>
           \/ inq = <<DataSync(emu.cmd, "cksum")>> /\ port.rx = <<DataBytes[1]>>
     \/ /\ todo \in PutCksum /\ buf = <<DataBytes[1]>>
        /\ \/ inq = <<DataSync(emu.cmd, "cksum")>> /\ port.rx = <<>> /\ port.sync_num = None
           \/ inq = <<>> /\ port.rx = <<DataBytes[2]>> /\ port.sync_num = DataSyncOf(emu.cmd)
WithoutSync ==
  /\ Receiving /\ Held /\ emu.st = "await" /\ port.sync_num = None
  /\ \/ /\ todo \in PutData /\ buf = <<>>
        /\ \/ inq = <<Data(emu.cmd, DataParts)>> /\ port.rx = <<>>
           \/ inq = <<>> /\ port.rx = DataBytes
     \/ todo \in PutCksum /\ buf = <<DataBytes[1]>> /\ inq = <<>> /\ port.rx = <<DataBytes[2]>>
DataHere ==
  /\ Receiving /\ Held /\ inq = <<>> /\ todo \in PutAck /\ buf = DataBytes
  /\ port.sync_num \in {DataSyncOf(emu.cmd), None}

Writing ==
  /\ Own /\ Held /\ OnlyCredit /\ port.sync_num = None /\ Kind \in PutKinds
  /\ \/ /\ todo \in PutAcked /\ buf = DataBytes
        /\ out \in {<<>>, <<DataByte("A")>>, <<SyncResponse(DataSyncOf(emu.cmd), "ACK", "A", 0)>>}
     \/ out = <<>> /\ todo \in PutOutcome \cup PutEnd
     \/ (\E c \in {"C", "E"} : out = <<DataByte(c)>>) /\ todo \in PutRest

Conversation ==
  \/ Resting \/ Coming \/ Swallowing \/ Swallowed
  \/ FrameAwaited \/ FrameHere \/ Checking
  \/ Starting \/ Answering \/ Reading \/ Controlling
  \/ Requesting \/ WithSync \/ WithoutSync \/ DataHere \/ Writing

Calm == ~hist.disturbed => port.initialized /\ Conversation

\* At one speed the device rejects a frame, then another, then toggles.
SpeedSought ==
  (~hist.disturbed /\ hist.rejects > 0) =>
    /\ hist.rejects <= Threshold
    /\ \A i \in 1..Len(inq) : inq[i].type # "SPEED"
    /\ \/ InStep /\ todo = <<>>
       \/ ~InStep /\ port.baud = bus.sioBaud /\ todo = <<"toggle">>
       \/ hist.rejects = 1 /\ bus.command_frame_counter = 1 /\ todo = <<>>

-----------------------------------------------------------------------------
\* The handlers, operation by operation.
LEMMA Plans ==
  /\ \A t \in ReadAck : t # <<>> /\ Head(t) = "A" /\ Tail(t) \in ReadAcked
  /\ \A t \in ReadAcked : t # <<>> /\ Head(t) = "acked" /\ Tail(t) \in ReadOutcome
  /\ \A t \in ReadOutcome : t # <<>> /\ Head(t) \in {"C", "E"} /\ Tail(t) \in ReadBlock
  /\ \A t \in ReadBlock : t # <<>> /\ Head(t) = "block" /\ Tail(t) \in ReadCksum
  /\ \A t \in ReadCksum : t # <<>> /\ Head(t) = "K" /\ Tail(t) \in ReadFlush
  /\ \A t \in ReadFlush : t # <<>> /\ Head(t) = "flush" /\ Tail(t) \in {<<>>, <<"toggle">>}
  /\ \A t \in ControlAck : t # <<>> /\ Head(t) = "A" /\ Tail(t) \in ControlAcked
  /\ \A t \in ControlAcked : t # <<>> /\ Head(t) = "acked" /\ Tail(t) \in ControlOutcome
  /\ \A t \in ControlOutcome : t # <<>> /\ Head(t) \in {"C", "E"} /\ Tail(t) = <<>>
<1>1. QED
  BY DEF ReadAck, ReadAcked, ReadOutcome, ReadBlock, ReadCksum, ReadFlush,
         ControlAck, ControlAcked, ControlOutcome

LEMMA PutPlans ==
  /\ \A t \in PutLate : t # <<>> /\ Head(t) = "late" /\ Tail(t) \in PutSize
  /\ \A t \in PutSize : t # <<>> /\ Head(t) = "size" /\ Tail(t) \in PutData
  /\ \A t \in PutData : t # <<>> /\ Head(t) = "data" /\ Tail(t) \in PutCksum
  /\ \A t \in PutCksum : t # <<>> /\ Head(t) = "cksum" /\ Tail(t) \in PutOutcome
  /\ \A t \in PutAck : t # <<>> /\ Head(t) = "A" /\ Tail(t) \in PutAcked
  /\ \A t \in PutAcked : t # <<>> /\ Head(t) = "acked" /\ Tail(t) \in PutOutcome
  /\ \A t \in PutOutcome : t # <<>> /\ Head(t) = "outcome" /\ Tail(t) \in PutRest
  /\ \A t \in PutEnd : t # <<>> /\ Head(t) \in {"C", "E"} /\ Tail(t) \in PutRest
<1>1. QED
  BY DEF PutLate, PutSize, PutData, PutCksum, PutAck, PutAcked, PutOutcome, PutEnd, PutRest

\* The two steps that put operations before the rest.
LEMMA PutGrows ==
  /\ \A t \in PutOutcome : sio_ack \o t \in PutAck
  /\ \A t \in PutRest : \A c \in {"C", "E"} : <<c>> \o t \in PutEnd

<1>1. sio_ack \o <<"outcome">> = <<"A", "acked", "outcome">>
  <2> DEFINE s == sio_ack \o <<"outcome">>
             t == <<"A", "acked", "outcome">>
  <2>1. s \in Seq(Ops) /\ t \in Seq(Ops)
    BY DEF Ops, sio_ack
  <2>2. Len(s) = 3 /\ Len(t) = 3
    BY DEF sio_ack
  <2>3. \A i \in 1..3 : s[i] = t[i]
    BY DEF sio_ack
  <2>4. QED
    BY <2>1, <2>2, <2>3, SeqEqual
<1>2. sio_ack \o <<"outcome", "N", "acked">> = <<"A", "acked", "outcome", "N", "acked">>
  <2> DEFINE s == sio_ack \o <<"outcome", "N", "acked">>
             t == <<"A", "acked", "outcome", "N", "acked">>
  <2>1. s \in Seq(Ops) /\ t \in Seq(Ops)
    BY DEF Ops, sio_ack
  <2>2. Len(s) = 5 /\ Len(t) = 5
    BY DEF sio_ack
  <2>3. \A i \in 1..5 : s[i] = t[i]
    BY DEF sio_ack
  <2>4. QED
    BY <2>1, <2>2, <2>3, SeqEqual
<1>3. <<"C">> \o <<"N", "acked">> = <<"C", "N", "acked">>
  <2> DEFINE s == <<"C">> \o <<"N", "acked">>
             t == <<"C", "N", "acked">>
  <2>1. s \in Seq(Ops) /\ t \in Seq(Ops)
    BY DEF Ops
  <2>2. Len(s) = 3 /\ Len(t) = 3
    OBVIOUS
  <2>3. \A i \in 1..3 : s[i] = t[i]
    OBVIOUS
  <2>4. QED
    BY <2>1, <2>2, <2>3, SeqEqual
<1>4. <<"E">> \o <<"N", "acked">> = <<"E", "N", "acked">>
  <2> DEFINE s == <<"E">> \o <<"N", "acked">>
             t == <<"E", "N", "acked">>
  <2>1. s \in Seq(Ops) /\ t \in Seq(Ops)
    BY DEF Ops
  <2>2. Len(s) = 3 /\ Len(t) = 3
    OBVIOUS
  <2>3. \A i \in 1..3 : s[i] = t[i]
    OBVIOUS
  <2>4. QED
    BY <2>1, <2>2, <2>3, SeqEqual
<1>5. <<"C">> \o <<>> = <<"C">> /\ <<"E">> \o <<>> = <<"E">>
  <2>1. <<"C">> \in Seq(Ops) /\ <<"E">> \in Seq(Ops)
    BY DEF Ops
  <2>2. QED
    BY <2>1, ConcatEmptySeq
<1>6. QED
  BY <1>1, <1>2, <1>3, <1>4, <1>5 DEF PutOutcome, PutAck, PutRest, PutEnd

\* What the handlers do, kind by kind.
LEMMA Handlers ==
  ASSUME NEW kind, NEW err \in BOOLEAN
  PROVE  \/ Handler(kind, err) = <<>>
         \/ kind \in ReadKinds /\ Handler(kind, err) \in ReadAck
         \/ kind = "control" /\ Handler(kind, err) \in ControlAck
         \/ kind = "nak" /\ Handler(kind, err) = <<"N", "acked">>
         \/ kind = "closed" /\ Handler(kind, err) = <<"E">>
         \/ kind \in PutKinds /\ Handler(kind, err) \in PutLate
<1>1. sio_ack \o bus_to_computer(FALSE) = <<"A", "acked", "C", "block", "K", "flush">>
  <2> DEFINE s == sio_ack \o bus_to_computer(FALSE)
             t == <<"A", "acked", "C", "block", "K", "flush">>
  <2>1. s \in Seq(Ops) /\ t \in Seq(Ops)
    BY DEF Ops, sio_ack, bus_to_computer
  <2>2. Len(s) = 6 /\ Len(t) = 6
    BY DEF sio_ack, bus_to_computer
  <2>3. \A i \in 1..6 : s[i] = t[i]
    BY DEF sio_ack, bus_to_computer
  <2>4. QED
    BY <2>1, <2>2, <2>3, SeqEqual
<1>2. sio_ack \o bus_to_computer(TRUE) = <<"A", "acked", "E", "block", "K", "flush">>
  <2> DEFINE s == sio_ack \o bus_to_computer(TRUE)
             t == <<"A", "acked", "E", "block", "K", "flush">>
  <2>1. s \in Seq(Ops) /\ t \in Seq(Ops)
    BY DEF Ops, sio_ack, bus_to_computer
  <2>2. Len(s) = 6 /\ Len(t) = 6
    BY DEF sio_ack, bus_to_computer
  <2>3. \A i \in 1..6 : s[i] = t[i]
    BY DEF sio_ack, bus_to_computer
  <2>4. QED
    BY <2>1, <2>2, <2>3, SeqEqual
<1>3. sio_ack \o bus_to_computer(FALSE) \o <<"toggle">> = <<"A", "acked", "C", "block", "K", "flush", "toggle">>
  <2> DEFINE s == sio_ack \o bus_to_computer(FALSE) \o <<"toggle">>
             t == <<"A", "acked", "C", "block", "K", "flush", "toggle">>
  <2>1. s \in Seq(Ops) /\ t \in Seq(Ops)
    BY DEF Ops, sio_ack, bus_to_computer
  <2>2. Len(s) = 7 /\ Len(t) = 7
    BY DEF sio_ack, bus_to_computer
  <2>3. \A i \in 1..7 : s[i] = t[i]
    BY DEF sio_ack, bus_to_computer
  <2>4. QED
    BY <2>1, <2>2, <2>3, SeqEqual
<1>4. sio_ack \o <<"C">> = <<"A", "acked", "C">>
  <2> DEFINE s == sio_ack \o <<"C">>
             t == <<"A", "acked", "C">>
  <2>1. s \in Seq(Ops) /\ t \in Seq(Ops)
    BY DEF Ops, sio_ack
  <2>2. Len(s) = 3 /\ Len(t) = 3
    BY DEF sio_ack
  <2>3. \A i \in 1..3 : s[i] = t[i]
    BY DEF sio_ack
  <2>4. QED
    BY <2>1, <2>2, <2>3, SeqEqual
<1>5. sio_ack \o <<"E">> = <<"A", "acked", "E">>
  <2> DEFINE s == sio_ack \o <<"E">>
             t == <<"A", "acked", "E">>
  <2>1. s \in Seq(Ops) /\ t \in Seq(Ops)
    BY DEF Ops, sio_ack
  <2>2. Len(s) = 3 /\ Len(t) = 3
    BY DEF sio_ack
  <2>3. \A i \in 1..3 : s[i] = t[i]
    BY DEF sio_ack
  <2>4. QED
    BY <2>1, <2>2, <2>3, SeqEqual
<1>6. sio_late_ack \o bus_to_peripheral \o <<"outcome">> = <<"late", "size", "data", "cksum", "outcome">>
  <2> DEFINE s == sio_late_ack \o bus_to_peripheral \o <<"outcome">>
             t == <<"late", "size", "data", "cksum", "outcome">>
  <2>1. s \in Seq(Ops) /\ t \in Seq(Ops)
    BY DEF Ops, sio_late_ack, bus_to_peripheral
  <2>2. Len(s) = 5 /\ Len(t) = 5
    BY DEF sio_late_ack, bus_to_peripheral
  <2>3. \A i \in 1..5 : s[i] = t[i]
    BY DEF sio_late_ack, bus_to_peripheral
  <2>4. QED
    BY <2>1, <2>2, <2>3, SeqEqual
<1>7. sio_late_ack \o bus_to_peripheral \o <<"outcome">> \o sio_nak = <<"late", "size", "data", "cksum", "outcome", "N", "acked">>
  <2> DEFINE s == sio_late_ack \o bus_to_peripheral \o <<"outcome">> \o sio_nak
             t == <<"late", "size", "data", "cksum", "outcome", "N", "acked">>
  <2>1. s \in Seq(Ops) /\ t \in Seq(Ops)
    BY DEF Ops, sio_late_ack, bus_to_peripheral, sio_nak
  <2>2. Len(s) = 7 /\ Len(t) = 7
    BY DEF sio_late_ack, bus_to_peripheral, sio_nak
  <2>3. \A i \in 1..7 : s[i] = t[i]
    BY DEF sio_late_ack, bus_to_peripheral, sio_nak
  <2>4. QED
    BY <2>1, <2>2, <2>3, SeqEqual
<1>8. CASE kind \in {"read", "index", "control", "nak", "closed"}
  BY <1>1, <1>2, <1>3, <1>4, <1>5, <1>8 DEF Handler, ReadKinds, ReadAck, ControlAck, sio_nak
<1>9. CASE kind \in {"put", "hsput"}
  BY <1>6, <1>7, <1>9 DEF Handler, PutKinds, PutLate
<1>10. CASE kind \in {"status1", "read1"}
  BY <1>1, <1>10 DEF Handler, ReadKinds, ReadAck
<1>11. CASE kind \notin {"read", "index", "control", "nak", "closed", "put", "hsput", "status1", "read1"}
  BY <1>11 DEF Handler
<1>12. QED
  BY <1>8, <1>9, <1>10, <1>11

-----------------------------------------------------------------------------
(***************************************************************************)
(* What one received datagram does to the port, field by field.            *)
(***************************************************************************)
Bytes(k, parts, ok) == [i \in 1..Len(parts) |-> Byte(k, parts[i], ok)]

SameLine(p, q) ==
  /\ q.command_asserted = p.command_asserted /\ q.sync_num = p.sync_num
  /\ q.sync_write_size = p.sync_write_size /\ q.rx = p.rx

PortAfter(p, m, q) ==
  /\ q.initialized = p.initialized /\ q.baud = p.baud
  /\ m.type # "SPEED" => q.baud_peer = p.baud_peer
  /\ m.type # "CREDIT" => q.credit = p.credit
  /\ m.type \in {"SPEED", "CREDIT"} => SameLine(p, q)
  /\ m = OnMsg => /\ q.command_asserted = TRUE /\ q.sync_num = None
                  /\ q.sync_write_size = None /\ q.rx = <<>>
  /\ \A k \in Commands : m = OffSync(k) =>
       /\ q.command_asserted = FALSE /\ q.sync_num = k
       /\ q.sync_write_size = p.sync_write_size /\ q.rx = p.rx
  /\ \A k \in Commands : \A parts \in Seq(PartNames) : m = Data(k, parts) =>
       /\ q.command_asserted = p.command_asserted /\ q.sync_num = p.sync_num
       /\ q.sync_write_size = p.sync_write_size
       /\ q.rx = p.rx \o Bytes(k, parts, p.baud = p.baud_peer)
  /\ \A k \in Commands : m = DataSync(k, "cksum") =>
       /\ q.command_asserted = p.command_asserted /\ q.sync_num = DataSyncOf(k)
       /\ q.sync_write_size = p.sync_write_size
       /\ q.rx = p.rx \o Bytes(k, <<"cksum">>, p.baud = p.baud_peer)

LEMMA PortFields ==
  ASSUME NEW p \in Ports, NEW m \in InMsgs, NEW q, q = handle_netsio(p, m)
  PROVE  PortAfter(p, m, q)
<1> USE DEF PortAfter
<1>t. /\ OnMsg.type = "ON" /\ \A k \in Commands : OffSync(k).type = "OFF_SYNC"
      /\ \A k \in Commands : \A parts \in Seq(PartNames) : Data(k, parts).type = "DATA"
      /\ \A k \in Commands : DataSync(k, "cksum").type = "DATA_SYNC"
  BY DEF OnMsg, OffSync, Data, DataSync
<1>1. CASE m = OnMsg
  <2>1. q = [p EXCEPT !.command_asserted = TRUE, !.sync_num = None,
                      !.sync_write_size = None, !.rx = <<>>] /\ m.type = "ON"
    BY <1>1 DEF handle_netsio, OnMsg
  <2>2. /\ q.initialized = p.initialized /\ q.baud = p.baud /\ q.baud_peer = p.baud_peer /\ q.credit = p.credit
        /\ q.command_asserted = TRUE /\ q.sync_num = None /\ q.sync_write_size = None /\ q.rx = <<>>
    BY <2>1 DEF Ports
  <2>3. QED
    BY <1>t, <1>1, <2>2
<1>2. ASSUME NEW k \in Commands, m = OffSync(k)
      PROVE  /\ q.initialized = p.initialized /\ q.baud = p.baud /\ q.baud_peer = p.baud_peer /\ q.credit = p.credit
             /\ q.command_asserted = FALSE /\ q.sync_num = k
             /\ q.sync_write_size = p.sync_write_size /\ q.rx = p.rx
             /\ m.type = "OFF_SYNC" /\ m.num = k
  <2>1. q = [p EXCEPT !.command_asserted = FALSE, !.sync_num = k] /\ m.type = "OFF_SYNC" /\ m.num = k
    BY <1>2 DEF handle_netsio, OffSync
  <2>2. QED
    BY <2>1 DEF Ports
<1>3. ASSUME m.type = "DATA"
      PROVE  /\ q.initialized = p.initialized /\ q.baud = p.baud /\ q.baud_peer = p.baud_peer /\ q.credit = p.credit
             /\ q.command_asserted = p.command_asserted /\ q.sync_num = p.sync_num
             /\ q.sync_write_size = p.sync_write_size
             /\ q.rx = p.rx \o Bytes(m.cmd, m.parts, p.baud = p.baud_peer)
  <2> DEFINE r == p.rx \o Bytes(m.cmd, m.parts, p.baud = p.baud_peer)
  <2>1. q = [p EXCEPT !.rx = r]
    BY <1>3 DEF handle_netsio, RxPut, Bytes
  <2> HIDE DEF r
  <2>2. /\ q.initialized = p.initialized /\ q.baud = p.baud /\ q.baud_peer = p.baud_peer /\ q.credit = p.credit
        /\ q.command_asserted = p.command_asserted /\ q.sync_num = p.sync_num
        /\ q.sync_write_size = p.sync_write_size /\ q.rx = r
    BY <2>1 DEF Ports
  <2>3. QED
    BY <2>2 DEF r
<1>4. ASSUME m.type = "DATA_SYNC"
      PROVE  /\ q.initialized = p.initialized /\ q.baud = p.baud /\ q.baud_peer = p.baud_peer /\ q.credit = p.credit
             /\ q.command_asserted = p.command_asserted /\ q.sync_num = m.num
             /\ q.sync_write_size = p.sync_write_size
             /\ q.rx = p.rx \o Bytes(m.cmd, m.parts, p.baud = p.baud_peer)
  <2> DEFINE r == p.rx \o Bytes(m.cmd, m.parts, p.baud = p.baud_peer)
             x == [p EXCEPT !.rx = r]
             n == m.num
  <2>1. q = [x EXCEPT !.sync_num = n]
    BY <1>4 DEF handle_netsio, RxPut, Bytes
  <2> HIDE DEF r, n
  <2>2. q = [p EXCEPT !.rx = r, !.sync_num = n]
    BY <2>1 DEF Ports
  <2>3. /\ q.initialized = p.initialized /\ q.baud = p.baud /\ q.baud_peer = p.baud_peer /\ q.credit = p.credit
        /\ q.command_asserted = p.command_asserted /\ q.sync_num = n
        /\ q.sync_write_size = p.sync_write_size /\ q.rx = r
    BY <2>2 DEF Ports
  <2>4. QED
    BY <2>3 DEF r, n
<1>5. CASE m.type = "SPEED"
  <2> DEFINE v == m.speed
  <2>1. q = [p EXCEPT !.baud_peer = v]
    BY <1>5 DEF handle_netsio
  <2> HIDE DEF v
  <2>2. q.initialized = p.initialized /\ q.baud = p.baud /\ q.credit = p.credit /\ SameLine(p, q)
    BY <2>1 DEF Ports, SameLine
  <2>3. QED
    BY <1>t, <1>5, <2>2
<1>6. CASE m.type = "CREDIT"
  <2> DEFINE v == m.credit
  <2>1. q = [p EXCEPT !.credit = v]
    BY <1>6 DEF handle_netsio
  <2> HIDE DEF v
  <2>2. q.initialized = p.initialized /\ q.baud = p.baud /\ q.baud_peer = p.baud_peer /\ SameLine(p, q)
    BY <2>1 DEF Ports, SameLine
  <2>3. QED
    BY <1>t, <1>6, <2>2
<1>7. CASE \E k \in Commands : m = OffSync(k)
  <2>1. PICK k \in Commands : m = OffSync(k)
    BY <1>7
  <2>2. \A j \in Commands : m = OffSync(j) => j = k
    BY <2>1 DEF OffSync
  <2>3. QED
    BY <1>t, <1>2, <2>1, <2>2
<1>8. CASE m.type = "DATA"
  <2>1. \A k \in Commands : \A parts \in Seq(PartNames) : m = Data(k, parts) => m.cmd = k /\ m.parts = parts
    BY DEF Data
  <2>2. QED
    BY <1>t, <1>3, <1>8, <2>1
<1>9. CASE m.type = "DATA_SYNC"
  <2>1. \A k \in Commands : m = DataSync(k, "cksum") => m.cmd = k /\ m.parts = <<"cksum">> /\ m.num = DataSyncOf(k)
    BY DEF DataSync
  <2>2. QED
    BY <1>t, <1>4, <1>9, <2>1
<1>10. m = OnMsg \/ m.type \in {"SPEED", "CREDIT", "DATA", "DATA_SYNC"} \/ \E k \in Commands : m = OffSync(k)
  BY DEF InMsgs, Others, Requests, Speed, Credit, Data, DataSync
<1>11. QED
  BY <1>1, <1>5, <1>6, <1>7, <1>8, <1>9, <1>10

\* The bytes of a frame and of the data, received into an empty buffer.
LEMMA Buffered ==
  ASSUME NEW k \in Commands, NEW ok \in BOOLEAN
  PROVE  /\ <<>> \o Bytes(k, FrameParts, ok) = <<Byte(k, "frame1", ok), Byte(k, "frame2", ok)>>
         /\ <<>> \o Bytes(k, DataParts, ok) = <<Byte(k, "data", ok), Byte(k, "cksum", ok)>>
         /\ <<>> \o Bytes(k, <<"data">>, ok) = <<Byte(k, "data", ok)>>
         /\ <<>> \o Bytes(k, <<"cksum">>, ok) = <<Byte(k, "cksum", ok)>>
<1>1. \A part \in PartNames : Byte(k, part, ok) \in RxBytes
  BY DEF Byte, RxBytes
<1> DEFINE f1 == Byte(k, "frame1", ok)
           f2 == Byte(k, "frame2", ok)
           d1 == Byte(k, "data", ok)
           d2 == Byte(k, "cksum", ok)
<1>2. f1 \in RxBytes /\ f2 \in RxBytes /\ d1 \in RxBytes /\ d2 \in RxBytes
  BY <1>1 DEF PartNames
<1>3. /\ Bytes(k, FrameParts, ok) = <<f1, f2>> /\ Bytes(k, DataParts, ok) = <<d1, d2>>
      /\ Bytes(k, <<"data">>, ok) = <<d1>> /\ Bytes(k, <<"cksum">>, ok) = <<d2>>
  BY DEF Bytes, FrameParts, DataParts
<1> HIDE DEF f1, f2, d1, d2
<1>4. <<f1, f2>> \in Seq(RxBytes) /\ <<d1, d2>> \in Seq(RxBytes) /\ <<d1>> \in Seq(RxBytes) /\ <<d2>> \in Seq(RxBytes)
  BY <1>2
<1>5. /\ <<>> \o <<f1, f2>> = <<f1, f2>> /\ <<>> \o <<d1, d2>> = <<d1, d2>>
      /\ <<>> \o <<d1>> = <<d1>> /\ <<>> \o <<d2>> = <<d2>>
  BY <1>4, ConcatEmptySeq
<1>6. QED
  BY <1>3, <1>5 DEF f1, f2, d1, d2

\* The same of a call of handle_netsio that finds a datagram.
LEMMA Arrival ==
  ASSUME Typed, Receive
  PROVE  /\ inq # <<>> /\ inq \in Seq(InMsgs) /\ inq' = Tail(inq) /\ inq[1] \in InMsgs
         /\ port' \in Ports /\ port.initialized /\ PortAfter(port, inq[1], port')
         /\ Len(inq') = Len(inq) - 1 /\ Len(inq) \in Nat /\ Len(inq) >= 1
         /\ \A i \in 1..Len(inq') : inq'[i] = inq[i + 1] /\ i + 1 \in 1..Len(inq)
<1>1. inq \in Seq(InMsgs) /\ inq # <<>> /\ inq' = Tail(inq) /\ port \in Ports /\ port.initialized
  BY DEF Typed, Receive
<1>2. /\ Len(inq') = Len(inq) - 1 /\ Len(inq) \in Nat /\ Len(inq) >= 1 /\ Head(inq) = inq[1] /\ inq[1] \in InMsgs
      /\ \A i \in 1..Len(inq') : inq'[i] = inq[i + 1] /\ i + 1 \in 1..Len(inq)
  BY <1>1
<1>3. port' = handle_netsio(port, inq[1])
  BY <1>2 DEF Receive
<1>4. port' \in Ports
  BY <1>1, <1>2, <1>3, Handled
<1>5. PortAfter(port, inq[1], port')
  BY <1>1, <1>2, <1>3, PortFields
<1>6. QED
  BY <1>1, <1>2, <1>4, <1>5

-----------------------------------------------------------------------------
(***************************************************************************)
(* The queues stay orderly.                                                *)
(***************************************************************************)
\* A write that starts finds no credit under way.
LEMMA CreditedKept ==
  ASSUME Credited, inq' = inq, port'.initialized = port.initialized,
         \/ out' = out /\ port'.credit = port.credit
         \/ out = <<>>
         \/ port.credit # 0
         \/ ~port.initialized
  PROVE  Credited'
BY DEF Credited

LEMMA CreditedReceived ==
  ASSUME Typed, Credited, Receive, out' = out
  PROVE  Credited'
<1>1. /\ Len(inq') = Len(inq) - 1 /\ Len(inq) \in Nat /\ Len(inq) >= 1 /\ port.initialized
      /\ \A i \in 1..Len(inq') : inq'[i] = inq[i + 1] /\ i + 1 \in 1..Len(inq)
      /\ PortAfter(port, inq[1], port')
  BY Arrival
<1>2. port'.initialized = port.initialized /\ (inq[1].type # "CREDIT" => port'.credit = port.credit)
  BY <1>1 DEF PortAfter
<1>3. ASSUME NEW i \in 1..Len(inq'), inq'[i].type = "CREDIT"
      PROVE  /\ out' # <<>> /\ port'.credit = 0
             /\ \A j \in 1..Len(inq') : inq'[j].type = "CREDIT" => j = i
  <2>1. inq[i + 1].type = "CREDIT" /\ i + 1 \in 1..Len(inq) /\ 1 \in 1..Len(inq) /\ i + 1 # 1
    BY <1>1, <1>3
  <2>2. /\ out # <<>> /\ port.credit = 0
        /\ \A j \in 1..Len(inq) : inq[j].type = "CREDIT" => j = i + 1
    BY <2>1 DEF Credited
  <2>3. inq[1].type # "CREDIT"
    BY <2>1, <2>2
  <2>4. \A j \in 1..Len(inq') : inq'[j].type = "CREDIT" => j + 1 = i + 1
    BY <1>1, <2>2
  <2>5. \A j \in 1..Len(inq') : inq'[j].type = "CREDIT" => j = i
    BY <1>1, <2>4
  <2>6. QED
    BY <1>2, <2>2, <2>3, <2>5
<1>4. QED
  BY <1>1, <1>2, <1>3 DEF Credited

\* A datagram that is not credit, or credit for a write that waits.
LEMMA CreditedAppended ==
  ASSUME Typed, Credited, port' = port, out' = out, port.initialized,
         NEW q \in Seq(InMsgs), inq' = inq \o q,
         \/ \A i \in 1..Len(q) : q[i].type # "CREDIT"
         \/ /\ Len(q) = 1 /\ out # <<>> /\ port.credit = 0
            /\ \A i \in 1..Len(inq) : inq[i].type # "CREDIT"
  PROVE  Credited'
<1>1. inq \in Seq(InMsgs)
  BY DEF Typed
<1>2. /\ Len(inq') = Len(inq) + Len(q) /\ Len(inq) \in Nat /\ Len(q) \in Nat
      /\ \A i \in 1..Len(inq) : inq'[i] = inq[i]
      /\ \A i \in 1..Len(inq') : i > Len(inq) => inq'[i] = q[i - Len(inq)] /\ i - Len(inq) \in 1..Len(q)
  BY <1>1
<1>3. CASE \A i \in 1..Len(q) : q[i].type # "CREDIT"
  <2>1. \A i \in 1..Len(inq') : inq'[i].type = "CREDIT" => i \in 1..Len(inq) /\ inq[i].type = "CREDIT"
    BY <1>2, <1>3
  <2>2. QED
    BY <2>1 DEF Credited
<1>4. CASE /\ Len(q) = 1 /\ out # <<>> /\ port.credit = 0
           /\ \A i \in 1..Len(inq) : inq[i].type # "CREDIT"
  <2>1. \A i \in 1..Len(inq') : inq'[i].type = "CREDIT" => i = Len(inq) + 1
    BY <1>2, <1>4
  <2>2. QED
    BY <1>4, <2>1 DEF Credited
<1>5. QED
  BY <1>3, <1>4

\* What a command and a data frame put on the queue.
LEMMA Asks ==
  ASSUME Typed
  PROVE  /\ \A kind \in Kinds, s \in Speeds : Issue(kind, s) =>
              \E q \in Seq(InMsgs) :
                /\ inq' = inq \o q
                /\ Len(q) \in {3, 4} /\ (s = emu.speed => Len(q) = 3)
                /\ Len(q) = 4 => q[1].type = "SPEED"
                /\ q[Len(q) - 2] = OnMsg /\ q[Len(q) - 1] = Data(emu.cmd + 1, FrameParts)
                /\ q[Len(q)] = OffSync(emu.cmd + 1)
                /\ \A i \in 1..Len(q) : q[i].type # "CREDIT"
                /\ emu.cmd + 1 \in Commands
         /\ \A sync \in BOOLEAN : SendData(sync) =>
              \E q \in Seq(InMsgs) :
                /\ inq' = inq \o q /\ \A i \in 1..Len(q) : q[i].type # "CREDIT"
                /\ emu.cmd \in Commands
                /\ port.initialized /\ sync => q = <<Data(emu.cmd, <<"data">>), DataSync(emu.cmd, "cksum")>>
                /\ port.initialized /\ ~sync => q = <<Data(emu.cmd, DataParts)>>
                /\ ~port.initialized => q = <<>>
<1>0. emu \in Emulators /\ inq \in Seq(InMsgs) /\ MaxCommands \in Nat
  BY Sizes DEF Typed
<1>1. ASSUME NEW kind \in Kinds, NEW s \in Speeds, Issue(kind, s)
      PROVE  \E q \in Seq(InMsgs) :
                /\ inq' = inq \o q
                /\ Len(q) \in {3, 4} /\ (s = emu.speed => Len(q) = 3)
                /\ Len(q) = 4 => q[1].type = "SPEED"
                /\ q[Len(q) - 2] = OnMsg /\ q[Len(q) - 1] = Data(emu.cmd + 1, FrameParts)
                /\ q[Len(q)] = OffSync(emu.cmd + 1)
                /\ \A i \in 1..Len(q) : q[i].type # "CREDIT"
                /\ emu.cmd + 1 \in Commands
  <2> DEFINE k == emu.cmd + 1
             y == <<OnMsg, Data(k, FrameParts), OffSync(k)>>
             z == <<Speed(s), OnMsg, Data(k, FrameParts), OffSync(k)>>
             x == IF s = emu.speed THEN <<>> ELSE <<Speed(s)>>
  <2>1. k \in Commands
    BY <1>0, <1>1 DEF Issue, Emulators, Commands
  <2>2. Speed(s) \in InMsgs /\ OnMsg \in InMsgs /\ Data(k, FrameParts) \in InMsgs /\ OffSync(k) \in InMsgs
    BY <2>1 DEF InMsgs, Others, Requests
  <2>3. Speed(s).type = "SPEED" /\ OnMsg.type = "ON" /\ Data(k, FrameParts).type = "DATA" /\ OffSync(k).type = "OFF_SYNC"
    BY DEF Speed, OnMsg, Data, OffSync
  <2>4. inq' = (inq \o x) \o y
    BY <1>1 DEF Issue
  <2>5. emu.cmd + 1 = k
    OBVIOUS
  <2> HIDE DEF k
  <2>6. y \in Seq(InMsgs) /\ z \in Seq(InMsgs) /\ x \in Seq(InMsgs) /\ Len(y) = 3 /\ Len(z) = 4
    BY <2>2
  <2>7. CASE s = emu.speed
    <3>1. x = <<>>
      BY <2>7
    <3> HIDE DEF x, y
    <3>2. inq' = inq \o y
      BY <1>0, <2>4, <3>1, ConcatEmptySeq
    <3>3. /\ Len(y) \in {3, 4} /\ (s = emu.speed => Len(y) = 3) /\ (Len(y) = 4 => y[1].type = "SPEED")
          /\ y[Len(y) - 2] = OnMsg /\ y[Len(y) - 1] = Data(k, FrameParts) /\ y[Len(y)] = OffSync(k)
          /\ \A i \in 1..Len(y) : y[i].type # "CREDIT"
      BY <2>3, <2>6 DEF y
    <3>4. QED
      BY <2>1, <2>5, <2>6, <3>2, <3>3
  <2>8. CASE s # emu.speed
    <3>1. x = <<Speed(s)>>
      BY <2>8
    <3>2. <<Speed(s)>> \o y = z
      <4>1. <<Speed(s)>> \o y \in Seq(InMsgs) /\ Len(<<Speed(s)>> \o y) = 4
        BY <2>2, <2>6
      <4>2. \A i \in 1..4 : (<<Speed(s)>> \o y)[i] = z[i]
        BY <2>2, <2>6
      <4>3. QED
        BY <2>6, <4>1, <4>2, SeqEqual
    <3>3. inq' = inq \o z
      <4> HIDE DEF x, y, z
      <4>1. (inq \o x) \o y = inq \o (x \o y)
        BY <1>0, <2>6, ConcatAssociative
      <4>2. QED
        BY <2>4, <3>1, <3>2, <4>1
    <3>4. /\ Len(z) \in {3, 4} /\ (s = emu.speed => Len(z) = 3) /\ (Len(z) = 4 => z[1].type = "SPEED")
          /\ z[Len(z) - 2] = OnMsg /\ z[Len(z) - 1] = Data(k, FrameParts) /\ z[Len(z)] = OffSync(k)
          /\ \A i \in 1..Len(z) : z[i].type # "CREDIT"
      BY <2>3, <2>6, <2>8
    <3> HIDE DEF z
    <3>5. QED
      BY <2>1, <2>5, <2>6, <3>3, <3>4
  <2>9. QED
    BY <2>7, <2>8
<1>2. ASSUME NEW sync \in BOOLEAN, SendData(sync)
      PROVE  \E q \in Seq(InMsgs) :
                /\ inq' = inq \o q /\ \A i \in 1..Len(q) : q[i].type # "CREDIT"
                /\ emu.cmd \in Commands
                /\ port.initialized /\ sync => q = <<Data(emu.cmd, <<"data">>), DataSync(emu.cmd, "cksum")>>
                /\ port.initialized /\ ~sync => q = <<Data(emu.cmd, DataParts)>>
                /\ ~port.initialized => q = <<>>
  <2> DEFINE k == emu.cmd
  <2>1. k \in Commands
    BY <1>0, <1>2 DEF Typed, SendData, Emulators, Commands
  <2>2. Data(k, <<"data">>) \in InMsgs /\ Data(k, DataParts) \in InMsgs /\ DataSync(k, "cksum") \in InMsgs
    BY <2>1 DEF InMsgs, Others, Requests
  <2>3. Data(k, <<"data">>).type = "DATA" /\ Data(k, DataParts).type = "DATA" /\ DataSync(k, "cksum").type = "DATA_SYNC"
    BY DEF Data, DataSync
  <2>4. PICK q : q = IF ~port.initialized THEN <<>>
                     ELSE IF sync THEN <<Data(k, <<"data">>), DataSync(k, "cksum")>>
                     ELSE <<Data(k, DataParts)>>
    OBVIOUS
  <2>5. inq' = inq \o q
    BY <1>0, <1>2, <2>4 DEF SendData
  <2> HIDE DEF k
  <2>6. q \in Seq(InMsgs) /\ \A i \in 1..Len(q) : q[i].type # "CREDIT"
    BY <2>2, <2>3, <2>4
  <2>7. QED
    BY <2>1, <2>4, <2>5, <2>6 DEF k
<1>3. QED
  BY <1>1, <1>2

LEMMA StepCredited ==
  ASSUME Typed, Orderly, [Next]_vars
  PROVE  Credited'
<1>0. port \in Ports /\ inq \in Seq(InMsgs) /\ Credited
  BY DEF Typed, Orderly
<1>1. CASE \E kind \in Kinds, s \in Speeds : Issue(kind, s)
  <2>1. PICK kind \in Kinds, s \in Speeds : Issue(kind, s)
    BY <1>1
  <2>2. PICK q \in Seq(InMsgs) : inq' = inq \o q /\ \A i \in 1..Len(q) : q[i].type # "CREDIT"
    BY <2>1, Asks
  <2>3. port' = port /\ out' = out /\ port.initialized
    BY <2>1 DEF Issue, dev
  <2>4. QED
    BY <1>0, <2>2, <2>3, CreditedAppended
<1>2. CASE HubReceive \/ GiveUp \/ UNCHANGED vars
  <2>1. inq' = inq /\ port' = port /\ out' = out
    BY <1>2 DEF HubReceive, GiveUp, dev, vars
  <2>2. QED
    BY <1>0, <2>1, CreditedKept
<1>3. CASE \E sync \in BOOLEAN : SendData(sync)
  <2>1. PICK sync \in BOOLEAN : SendData(sync)
    BY <1>3
  <2>2. PICK q \in Seq(InMsgs) : /\ inq' = inq \o q /\ \A i \in 1..Len(q) : q[i].type # "CREDIT"
                                 /\ ~port.initialized => q = <<>>
    BY <2>1, Asks
  <2>3. port' = port /\ out' = out
    BY <2>1 DEF SendData, dev
  <2>4. CASE port.initialized
    BY <1>0, <2>2, <2>3, <2>4, CreditedAppended
  <2>5. CASE ~port.initialized
    <3>1. inq' = inq
      BY <1>0, <2>2, <2>5, ConcatEmptySeq
    <3>2. QED
      BY <1>0, <2>3, <3>1, CreditedKept
  <2>6. QED
    BY <2>4, <2>5
<1>4. CASE Grant
  <2> DEFINE q == <<Credit(InitialCredit)>>
  <2>1. Credit(InitialCredit) \in InMsgs
    BY DEF InMsgs, Others
  <2>2. q \in Seq(InMsgs) /\ Len(q) = 1 /\ inq' = inq \o q
    BY <1>0, <1>4, <2>1 DEF Grant
  <2>3. /\ port' = port /\ out' = out /\ port.initialized /\ out # <<>> /\ port.credit = 0
        /\ \A i \in 1..Len(inq) : inq[i].type # "CREDIT"
    BY <1>4 DEF Grant, dev
  <2> HIDE DEF q
  <2>4. QED
    BY <1>0, <2>2, <2>3, CreditedAppended
<1>5. CASE Suspend \/ Reconnect \/ begin
  <2>1. inq' = <<>>
    BY <1>0, <1>5 DEF Suspend, Reconnect, begin, Credited
  <2>2. QED
    BY <2>1 DEF Credited
<1>6. CASE \/ service \/ ReadFrame \/ WaitDeassert \/ Dispatch \/ RejectFrame
           \/ wait_for_credit \/ ReadData \/ ReadChecksum
  <2>1. out' = out
    BY <1>6 DEF service, ReadFrame, WaitDeassert, Dispatch, RejectFrame, wait_for_credit, ReadData, ReadChecksum, dev
  <2>2. HandleNetsio \/ Available => Receive \/ (inq' = inq /\ port' = port)
    BY DEF HandleNetsio, Available
  <2>3. ReadByte => Receive \/ (inq' = inq /\ port'.initialized = port.initialized /\ port'.credit = port.credit)
    BY <1>0 DEF ReadByte, Ports
  <2>4. Receive \/ (inq' = inq /\ port'.initialized = port.initialized /\ port'.credit = port.credit)
    BY <1>6, <2>2, <2>3
       DEF service, ReadFrame, WaitDeassert, Dispatch, RejectFrame, wait_for_credit, ReadData, ReadChecksum
  <2>5. QED
    BY <1>0, <2>1, <2>4, CreditedReceived, CreditedKept
<1>7. CASE FrameTimeout \/ DeassertTimeout \/ DataTimeout \/ ChecksumFails \/ Outcome \/ EmptyAckSent
  <2>1. inq' = inq /\ port' = port /\ out' = out
    BY <1>7 DEF FrameTimeout, DeassertTimeout, DataTimeout, ChecksumFails, Outcome, EmptyAckSent
  <2>2. QED
    BY <1>0, <2>1, CreditedKept
<1>8. CASE Send \/ SendFails
  <2>1. inq' = inq /\ port'.initialized = port.initialized /\ (port.credit # 0 \/ ~port.initialized)
    <3>1. CASE Send
      <4>1. inq' = inq /\ port' = [port EXCEPT !.credit = @ - 1] /\ port.credit > 0
        BY <3>1 DEF Send
      <4>2. QED
        BY <1>0, <4>1 DEF Ports
    <3>2. CASE SendFails
      BY <1>0, <3>2 DEF SendFails, Ports
    <3>3. QED
      BY <1>8, <3>1, <3>2
  <2>2. QED
    BY <1>0, <2>1, CreditedKept
<1>9. CASE WriteByte \/ WriteBlock \/ Flush \/ LateAckOp \/ SetWriteSize \/ Toggle \/ Return
  <2>1. inq' = inq /\ out = <<>>
    BY <1>9 DEF WriteByte, WriteBlock, Flush, LateAckOp, SetWriteSize, Toggle, Return, Doing
  <2>2. port'.initialized = port.initialized
    <3>0. ClearSync(port).initialized = port.initialized
      BY <1>0 DEF ClearSync, Ports
    <3>1. CASE WriteByte \/ WriteBlock \/ Return
      BY <3>0, <3>1 DEF WriteByte, WriteBlock, Return
    <3>5. CASE Flush \/ Toggle
      BY <1>0, <3>5 DEF Flush, Toggle, toggleBaudrate, Ports
    <3>2. CASE LateAckOp
      BY <1>0, <3>2 DEF LateAckOp, Ports
    <3>3. CASE SetWriteSize
      BY <1>0, <3>3 DEF SetWriteSize, ClearSync, Ports
    <3>4. QED
      BY <1>9, <3>1, <3>2, <3>3, <3>5
  <2>3. QED
    BY <1>0, <2>1, <2>2, CreditedKept
<1>10. QED
  BY <1>1, <1>2, <1>3, <1>4, <1>5, <1>6, <1>7, <1>8, <1>9 DEF Next, Hub, Device

LEMMA StepAtRest ==
  ASSUME AtRest, [Next]_vars
  PROVE  AtRest'
<1> USE DEF AtRest
<1>1. CASE \/ \E kind \in Kinds, s \in Speeds : Issue(kind, s)
           \/ Hub \/ GiveUp \/ Suspend \/ Reconnect \/ begin \/ UNCHANGED vars
  BY <1>1 DEF Issue, Hub, HubReceive, Grant, SendData, GiveUp, Suspend, Reconnect, begin, vars, dev
<1>2. CASE service \/ ReadFrame \/ FrameTimeout \/ WaitDeassert \/ DeassertTimeout \/ EmptyAckSent
  BY <1>2 DEF service, ReadFrame, FrameTimeout, WaitDeassert, DeassertTimeout, EmptyAckSent
<1>3. CASE Dispatch \/ RejectFrame
  BY <1>3 DEF Dispatch, RejectFrame
<1>4. CASE wait_for_credit
  BY <1>4 DEF wait_for_credit, dev
<1>5. CASE Send \/ SendFails
  BY <1>5 DEF Send, SendFails
<1>6. CASE \/ WriteByte \/ WriteBlock \/ Flush \/ LateAckOp \/ SetWriteSize \/ ReadData \/ DataTimeout
           \/ ReadChecksum \/ ChecksumFails \/ Outcome \/ Toggle
  <2>1. pc = "run" /\ pc' = pc
    BY <1>6 DEF WriteByte, WriteBlock, Flush, LateAckOp, SetWriteSize, ReadData, DataTimeout,
           ReadChecksum, ChecksumFails, Outcome, Toggle, Doing
  <2>2. QED
    BY <2>1
<1>7. CASE Return
  BY <1>7 DEF Return
<1>8. QED
  BY <1>1, <1>2, <1>3, <1>4, <1>5, <1>6, <1>7 DEF Next, Device

LEMMA StepRecorded ==
  ASSUME Typed, Recorded, [Next]_vars
  PROVE  Recorded'
<1>0. hist \in Histories /\ out \in Seq(OutMsgs) /\ outq \in Seq(OutMsgs)
  BY DEF Typed, Recorded
<1>1. CASE HubReceive
  <2>1. outq # <<>> /\ outq' = Tail(outq) /\ hist' = hist
    BY <1>1 DEF HubReceive
  <2>2. /\ outq' \in Seq(OutMsgs) /\ Len(outq') = Len(outq) - 1 /\ Len(outq) \in Nat
        /\ \A j \in 1..Len(outq') : outq'[j] = outq[j + 1] /\ j + 1 \in 1..Len(outq)
    BY <1>0, <2>1
  <2>3. QED
    BY <2>1, <2>2 DEF Recorded
<1>2. CASE Send
  <2>1. PICK m : m = Head(out)
    OBVIOUS
  <2>2. m \in OutMsgs
    BY <1>0, <1>2, <2>1 DEF Send
  <2>3. /\ outq' = Append(outq, m)
        /\ hist' = IF m.type = "SYNC_RESPONSE"
                    THEN [hist EXCEPT !.answers[m.num] = Append(@, m)] ELSE hist
    BY <1>2, <2>1 DEF Send
  <2>4. \A n \in Syncs : hist.answers[n] # <<>> => hist'.answers[n] # <<>>
    <3>1. \A n \in Syncs : hist.answers[n] \in Seq(OutMsgs)
      BY <1>0 DEF Histories
    <3>2. CASE m.type = "SYNC_RESPONSE"
      <4>1. m.num \in Syncs
        BY <2>2, <3>2 DEF OutMsgs, Responses
      <4>2. hist'.answers = [hist.answers EXCEPT ![m.num] = Append(@, m)]
        BY <1>0, <2>3, <3>2 DEF Histories
      <4>3. \A n \in Syncs : hist'.answers[n] = IF n = m.num THEN Append(hist.answers[n], m) ELSE hist.answers[n]
        BY <1>0, <4>1, <4>2 DEF Histories
      <4>4. \A n \in Syncs : Append(hist.answers[n], m) # <<>>
        BY <2>2, <3>1
      <4>5. QED
        BY <4>3, <4>4
    <3>3. CASE m.type # "SYNC_RESPONSE"
      BY <2>3, <3>3
    <3>4. QED
      BY <3>2, <3>3
  <2>5. m.type = "SYNC_RESPONSE" => hist'.answers[m.num] # <<>>
    <3> SUFFICES ASSUME m.type = "SYNC_RESPONSE" PROVE hist'.answers[m.num] # <<>>
      OBVIOUS
    <3>1. m.num \in Syncs /\ hist.answers[m.num] \in Seq(OutMsgs)
      BY <1>0, <2>2 DEF OutMsgs, Responses, Histories
    <3>2. hist'.answers[m.num] = Append(hist.answers[m.num], m)
      BY <1>0, <2>3, <3>1 DEF Histories
    <3>3. Append(hist.answers[m.num], m) # <<>>
      BY <2>2, <3>1
    <3>4. QED
      BY <3>2, <3>3
  <2>6. /\ outq' \in Seq(OutMsgs) /\ Len(outq') = Len(outq) + 1 /\ Len(outq) \in Nat
        /\ \A j \in 1..Len(outq) : outq'[j] = outq[j]
        /\ outq'[Len(outq) + 1] = m
    BY <1>0, <2>2, <2>3
  <2>7. ASSUME NEW j \in 1..Len(outq'), IsResponse(outq'[j])
        PROVE  hist'.answers[outq'[j].num] # <<>>
    <3>1. CASE j = Len(outq) + 1
      BY <2>5, <2>6, <2>7, <3>1 DEF IsResponse
    <3>2. CASE j \in 1..Len(outq)
      <4>1. IsResponse(outq[j]) /\ outq[j] \in OutMsgs /\ outq'[j] = outq[j]
        BY <1>0, <2>6, <2>7, <3>2
      <4>2. outq[j].num \in Syncs
        BY <4>1 DEF IsResponse, OutMsgs, Responses
      <4>3. hist.answers[outq[j].num] # <<>>
        BY <3>2, <4>1 DEF Recorded
      <4>4. QED
        BY <2>4, <4>1, <4>2, <4>3
    <3>3. QED
      BY <2>6, <3>1, <3>2
  <2>8. QED
    BY <2>6, <2>7 DEF Recorded
<1>3. CASE ~HubReceive /\ ~Send
  <2>1. outq' = outq
    BY <1>3 DEF Next, Issue, Hub, Grant, SendData, GiveUp, Suspend, Reconnect, Device, service, ReadFrame,
      FrameTimeout, WaitDeassert, DeassertTimeout, Dispatch, RejectFrame, wait_for_credit, SendFails, WriteByte,
      WriteBlock, Flush, LateAckOp, SetWriteSize, ReadData, DataTimeout, ReadChecksum, ChecksumFails, Outcome,
      Toggle, Return, EmptyAckSent, begin, vars
  <2>2. hist'.answers = hist.answers
    BY <1>0, <1>3 DEF Next, Issue, Hub, Grant, SendData, GiveUp, Suspend, Reconnect, Device, service, ReadFrame,
      FrameTimeout, WaitDeassert, DeassertTimeout, Dispatch, RejectFrame, wait_for_credit, SendFails, WriteByte,
      WriteBlock, Flush, LateAckOp, SetWriteSize, ReadData, DataTimeout, ReadChecksum, ChecksumFails, Outcome,
      Toggle, Return, EmptyAckSent, begin, vars, Histories
  <2>3. QED
    BY <2>1, <2>2 DEF Recorded
<1>4. QED
  BY <1>1, <1>2, <1>3

LEMMA StepBus ==
  ASSUME bus \in Buses, [Next]_vars
  PROVE  bus' \in Buses
<1>1. CASE bus' = bus
  BY <1>1
<1>2. CASE service
  BY <1>2 DEF service, Buses
<1>3. CASE Dispatch
  <2>1. PICK w \in Int : \/ bus' = [bus EXCEPT !.command_frame_counter = 0, !.boot_config = FALSE]
                        \/ bus' = [bus EXCEPT !.command_frame_counter = 0, !.status_wait_count = w]
    <3> DEFINE w == IF emu.kind[buf[1].cmd] = "status1" /\ BootWaits
                    THEN bus.status_wait_count - 1 ELSE bus.status_wait_count
    <3>1. \/ bus' = [bus EXCEPT !.command_frame_counter = 0, !.boot_config = FALSE]
          \/ bus' = [bus EXCEPT !.command_frame_counter = 0, !.status_wait_count = w]
      BY <1>3 DEF Dispatch
    <3>2. w \in Int
      BY DEF Buses
    <3> HIDE DEF w
    <3>3. QED
      BY <3>1, <3>2
  <2>2. CASE bus' = [bus EXCEPT !.command_frame_counter = 0, !.boot_config = FALSE]
    <3>1. [bus EXCEPT !.command_frame_counter = 0] \in Buses
      BY DEF Buses
    <3>2. PICK x \in Buses : x = [bus EXCEPT !.command_frame_counter = 0]
      BY <3>1
    <3>3. bus' = [x EXCEPT !.boot_config = FALSE]
      BY <2>2, <3>2
    <3>4. QED
      BY <3>2, <3>3 DEF Buses
  <2>3. CASE bus' = [bus EXCEPT !.command_frame_counter = 0, !.status_wait_count = w]
    <3>1. [bus EXCEPT !.command_frame_counter = 0] \in Buses
      BY DEF Buses
    <3>2. PICK x \in Buses : x = [bus EXCEPT !.command_frame_counter = 0]
      BY <3>1
    <3>3. bus' = [x EXCEPT !.status_wait_count = w]
      BY <2>3, <3>2
    <3>4. QED
      BY <2>1, <3>2, <3>3 DEF Buses
  <2>4. QED
    BY <2>1, <2>2, <2>3
<1>4. CASE RejectFrame
  <2>1. PICK n : n = bus.command_frame_counter + 1
    OBVIOUS
  <2>2. bus' = [bus EXCEPT !.command_frame_counter = n % 2] /\ n \in 1 .. 2
    BY <1>4, <2>1 DEF RejectFrame, Threshold, Buses
  <2>3. n % 2 \in 0 .. 1
    BY <2>2
  <2>4. QED
    BY <2>2, <2>3 DEF Buses
<1>5. CASE Flush \/ LateAckOp
  BY <1>5 DEF Flush, LateAckOp, Buses
<1>6. CASE Toggle
  BY <1>6 DEF Toggle, toggleBaudrate, Other, Buses, BothSpeeds
<1>7. bus' = bus \/ service \/ Dispatch \/ RejectFrame \/ Flush \/ LateAckOp \/ Toggle
  BY DEF Next, Issue, Hub, HubReceive, Grant, SendData, GiveUp, Suspend, Reconnect, Device, ReadFrame,
      FrameTimeout, WaitDeassert, DeassertTimeout, Send, wait_for_credit, SendFails, WriteByte,
      WriteBlock, SetWriteSize, ReadData, DataTimeout, ReadChecksum, ChecksumFails, Outcome,
      Return, EmptyAckSent, begin, vars
<1>8. QED
  BY <1>1, <1>2, <1>3, <1>4, <1>5, <1>6, <1>7

LEMMA StepOrderly ==
  ASSUME Typed, Orderly, [Next]_vars
  PROVE  Orderly'
BY StepCredited, StepAtRest, StepRecorded, StepBus DEF Orderly

LEMMA InitOrderly ==
  ASSUME Init
  PROVE  Orderly
<1>1. outq = <<>> /\ inq = <<>> /\ out = <<>> /\ todo = <<>> /\ pc = "idle"
  BY DEF Init
<1>2. bus \in Buses
  BY BusAssumption DEF Init, Buses, BothSpeeds
<1>3. QED
  BY <1>1, <1>2 DEF Orderly, Recorded, AtRest, Credited

-----------------------------------------------------------------------------
(***************************************************************************)
(* What the emulator hears.                                                *)
(***************************************************************************)
\* A number that is asked for, on its way or pending, is not answered.
LEMMA NotAnswered ==
  ASSUME Typed, OnePlace, Orderly, NEW n \in Syncs,
         FreshAt(emu, n) \/ Waiting(n) \/ port.sync_num = n
  PROVE  \A j \in 1..Len(outq) : ~Answers(outq[j], n)
<1>1. hist.answers[n] = <<>>
  BY Sizes DEF OnePlace, Unsent
<1>2. QED
  BY <1>1 DEF Orderly, Recorded, Answers

LEMMA Hearing ==
  ASSUME Typed, Orderly, HubReceive
  PROVE  /\ emu'.cmd = emu.cmd /\ emu'.kind = emu.kind /\ emu'.speed = emu.speed
         /\ Mute => Mute'
         /\ Held => Held'
         /\ Asked => Asked'
         /\ Free => Free'
         /\ Held /\ emu.st = "await" => emu'.st = "await"
         /\ /\ emu.st = "halt2" /\ \A j \in 1..Len(outq) : ~Answers(outq[j], DataSyncOf(emu.cmd))
            => emu'.st = "halt2"
<1>0. emu \in Emulators /\ outq \in Seq(OutMsgs) /\ outq # <<>> /\ outq' = Tail(outq)
  BY DEF Typed, Orderly, Recorded, HubReceive
<1> DEFINE m == outq[1]
           k == emu.cmd
           st == IF m.type = "SYNC_RESPONSE" THEN OnSyncResponse(m)
                 ELSE IF emu.st = "await" /\ Ends(m.byte) THEN "run" ELSE emu.st
<1>1. /\ Len(outq') = Len(outq) - 1 /\ Len(outq) \in Nat /\ 1 \in 1..Len(outq) /\ Head(outq) = m /\ m \in OutMsgs
      /\ \A j \in 1..Len(outq') : outq'[j] = outq[j + 1] /\ j + 1 \in 1..Len(outq)
  BY <1>0
<1>2. emu' = [emu EXCEPT !.st = st]
  BY <1>1 DEF HubReceive
<1>3. emu'.cmd = emu.cmd /\ emu'.kind = emu.kind /\ emu'.speed = emu.speed /\ emu'.st = st
  <2> HIDE DEF st
  <2>1. QED
    BY <1>0, <1>2 DEF Emulators
<1>5. /\ emu.st = "halt" /\ ~Answers(m, k) => st = "halt"
      /\ emu.st = "halt" /\ Answers(m, k) =>
           /\ st \in {"run", "senddata", "await"}
           /\ m.ack = "ACK" /\ m.byte = "A" /\ m.size > 0 => st = "senddata"
           /\ m.ack = "ACK" /\ m.byte = "A" /\ m.size = 0 => st = "await"
           /\ m.size = 0 => st # "senddata"
      /\ emu.st = "halt2" /\ ~Answers(m, DataSyncOf(k)) => st = "halt2"
      /\ emu.st = "halt2" /\ Answers(m, DataSyncOf(k)) =>
           /\ st \in {"run", "await"}
           /\ m.ack = "ACK" /\ m.byte = "A" => st = "await"
      /\ emu.st = "await" => st \in {"run", "await"} /\ (st = "run" => m.type = "DATA" /\ Ends(m.byte))
      /\ emu.st = "senddata" => st = "senddata"
      /\ emu.st = "run" => st = "run"
  <2>1. m.type \in {"SYNC_RESPONSE", "DATA"} /\ (m.type = "SYNC_RESPONSE" => m.size \in Int)
    BY <1>1 DEF OutMsgs, Responses
  <2>2. CASE m.type = "DATA"
    BY <2>2 DEF Answers, IsResponse
  <2>3. CASE m.type = "SYNC_RESPONSE"
    <3>1. st = OnSyncResponse(m) /\ m.size \in Int
      BY <2>1, <2>3
    <3> HIDE DEF st
    <3>2. QED
      BY <2>3, <3>1 DEF Answers, IsResponse, OnSyncResponse
  <2>4. QED
    BY <2>1, <2>2, <2>3
<1>6. emu.st \in {"run", "halt", "senddata", "halt2", "await"}
  BY <1>0 DEF Emulators
<1> HIDE DEF st
<1>7. \A n : \A j \in 1..Len(outq') : Answers(outq[j], n)' <=> Answers(outq[j + 1], n)
  BY <1>1 DEF Answers, IsResponse
<1>8. \A j \in 1..Len(outq') : Heeds(j)' => Heeds(j + 1)
  <2> SUFFICES ASSUME NEW j \in 1..Len(outq'), Heeds(j)'
               PROVE  Heeds(j + 1)
    OBVIOUS
  <2>1. CASE emu.st # "halt"
    BY <2>1 DEF Heeds
  <2>2. CASE emu.st = "halt" /\ Answers(m, k)
    BY <1>1, <2>2 DEF Heeds
  <2>3. CASE emu.st = "halt" /\ ~Answers(m, k)
    <3>1. emu'.st = "halt"
      BY <1>3, <1>5, <2>3
    <3>2. PICK i \in 1..j : Answers(outq'[i], emu'.cmd)
      BY <3>1 DEF Heeds, Answers
    <3>3. i + 1 \in 1..(j + 1) /\ outq'[i] = outq[i + 1]
      BY <1>1
    <3>4. QED
      BY <1>3, <3>2, <3>3 DEF Heeds
  <2>4. QED
    BY <2>1, <2>2, <2>3
<1>9. NoEnd => NoEnd'
  <2> SUFFICES ASSUME NoEnd, NEW j \in 1..Len(outq'), outq'[j].type = "DATA", Ends(outq[j].byte)', Heeds(j)'
               PROVE  FALSE
    BY DEF NoEnd
  <2>1. Ends(outq[j + 1].byte) /\ outq[j + 1].type = "DATA" /\ j + 1 \in 1..Len(outq) /\ Heeds(j + 1)
    BY <1>1, <1>3, <1>8 DEF Ends
  <2>2. QED
    BY <2>1 DEF NoEnd
<1>10. Mute => Mute'
  <2>1. Mute => emu.st = "halt" /\ ~Answers(m, k)
    BY <1>1 DEF Mute
  <2>2. QED
    BY <1>1, <1>3, <1>5, <2>1 DEF Mute, Answers
<1>11. Held => Held'
  <2> SUFFICES ASSUME Held PROVE Held'
    OBVIOUS
  <2>1. emu.st = "await" => ~(m.type = "DATA" /\ Ends(m.byte))
    BY <1>1 DEF Held, NoEnd, Heeds
  <2>2. /\ emu.st = "halt" /\ Answers(m, k) => m.ack = "ACK" /\ m.byte = "A" /\ m.size = 0
        /\ Answers(m, DataSyncOf(k)) => m.ack = "ACK" /\ m.byte = "A"
    BY <1>1 DEF Held
  <2>3. emu'.st \in {"halt", "halt2", "await"} /\ (emu'.st = "halt" => emu.st = "halt")
    BY <1>3, <1>5, <2>1, <2>2 DEF Held
  <2>4. NoEnd'
    BY <1>9 DEF Held
  <2>5. ASSUME NEW j \in 1..Len(outq')
        PROVE  /\ Answers(outq'[j], emu'.cmd) /\ emu'.st = "halt"
                     => outq'[j].ack = "ACK" /\ outq'[j].byte = "A" /\ outq'[j].size = 0
               /\ Answers(outq'[j], DataSyncOf(emu'.cmd)) => outq'[j].ack = "ACK" /\ outq'[j].byte = "A"
    <3>1. j + 1 \in 1..Len(outq) /\ outq'[j] = outq[j + 1]
      BY <1>1
    <3>2. QED
      BY <1>3, <2>3, <3>1 DEF Held
  <2>6. QED
    BY <2>3, <2>4, <2>5 DEF Held, Answers
<1>12. Asked => Asked'
  <2> SUFFICES ASSUME Asked PROVE Asked'
    OBVIOUS
  <2>1. emu.st = "halt" /\ Answers(m, k) => m.ack = "ACK" /\ m.byte = "A" /\ m.size > 0
    BY <1>1 DEF Asked
  <2>2. /\ emu'.st \in {"halt", "senddata"}
        /\ emu'.st = "halt" => emu.st = "halt" /\ ~Answers(m, k)
    BY <1>3, <1>5, <2>1 DEF Asked
  <2>3. NoEnd'
    BY <1>9 DEF Asked
  <2>4. ASSUME NEW j \in 1..Len(outq')
        PROVE  /\ ~Answers(outq'[j], DataSyncOf(emu'.cmd))
               /\ Answers(outq'[j], emu'.cmd) /\ emu'.st = "halt"
                     => outq'[j].ack = "ACK" /\ outq'[j].byte = "A" /\ outq'[j].size > 0
    <3>1. j + 1 \in 1..Len(outq) /\ outq'[j] = outq[j + 1]
      BY <1>1
    <3>2. QED
      BY <1>3, <2>2, <3>1 DEF Asked
  <2>5. ASSUME emu'.st = "halt" PROVE \E j \in 1..Len(outq') : Answers(outq'[j], emu'.cmd)
    <3>1. PICK j \in 1..Len(outq) : Answers(outq[j], k)
      BY <2>2, <2>5 DEF Asked
    <3>2. j # 1
      BY <2>2, <2>5, <3>1
    <3>3. j - 1 \in 1..Len(outq') /\ (j - 1) + 1 = j
      BY <1>1, <3>2
    <3>4. outq'[j - 1] = outq[j]
      BY <1>1, <3>3
    <3>5. QED
      BY <1>3, <3>1, <3>3, <3>4
  <2>6. QED
    BY <2>2, <2>3, <2>4, <2>5 DEF Asked, Answers
<1>13. Free => Free'
  <2> SUFFICES ASSUME Free PROVE Free'
    OBVIOUS
  <2>1. emu.st = "halt" /\ Answers(m, k) => m.size = 0
    BY <1>1 DEF Free
  <2>2. emu'.st # "senddata" /\ (emu'.st = "halt" => emu.st = "halt")
    BY <1>3, <1>5, <1>6, <2>1 DEF Free
  <2>3. QED
    BY <1>1, <1>3, <2>2 DEF Free, Answers
<1>14. Held /\ emu.st = "await" => emu'.st = "await"
  <2>1. Held /\ emu.st = "await" => ~(m.type = "DATA" /\ Ends(m.byte))
    BY <1>1 DEF Held, NoEnd, Heeds
  <2>2. QED
    BY <1>3, <1>5, <2>1
<1>15. QED
  BY <1>1, <1>3, <1>5, <1>10, <1>11, <1>12, <1>13, <1>14

LEMMA HeldFree ==
  /\ Mute => Held /\ Free
  /\ Held => Free
<1>1. Mute => Held
  BY DEF Mute, Held, NoEnd, Heeds
<1>2. Held => Free
  BY DEF Held, Free
<1>3. QED
  BY <1>1, <1>2

\* What the device says.
LEMMA Saying ==
  ASSUME Typed, Orderly, NEW m \in OutMsgs, outq' = Append(outq, m), emu' = emu
  PROVE  /\ Free /\ (m.type = "DATA" \/ m.size = 0) => Free'
         /\ Mute /\ m.type = "DATA" => Mute'
         /\ Held /\ m.type = "DATA" /\ ~Ends(m.byte) => Held'
         /\ Mute /\ m = SyncResponse(emu.cmd, "ACK", "A", 0) => Held'
         /\ Held /\ m = SyncResponse(DataSyncOf(emu.cmd), "ACK", "A", 0) => Held'
         /\ Mute /\ m = SyncResponse(emu.cmd, "ACK", "A", 2) => Asked'
<1>0. outq \in Seq(OutMsgs)
  BY DEF Orderly, Recorded
<1>n. PICK n : n = Len(outq) + 1
  OBVIOUS
<1>1. /\ Len(outq') = n /\ Len(outq) \in Nat /\ outq'[n] = m
      /\ \A j \in 1..Len(outq) : outq'[j] = outq[j]
      /\ \A j \in 1..Len(outq') : j \in 1..Len(outq) \/ j = n
  BY <1>0, <1>n
<1>k. emu.st # "run" => DataSyncOf(emu.cmd) # emu.cmd
  <2>1. emu \in Emulators /\ (emu.st # "run" => emu.cmd # 0)
    BY DEF Typed
  <2>2. emu.st # "run" => emu.cmd \in Commands
    BY <2>1, Sizes DEF Emulators, Commands
  <2>3. QED
    BY <2>2, Sizes
<1>2. m.type = "DATA" => \A x : ~Answers(m, x)
  BY DEF Answers, IsResponse
<1>3. \A j \in 1..Len(outq) : Heeds(j)' => Heeds(j)
  <2> SUFFICES ASSUME NEW j \in 1..Len(outq), Heeds(j)' PROVE Heeds(j)
    OBVIOUS
  <2>1. \A i \in 1..j : outq'[i] = outq[i]
    BY <1>1
  <2>2. QED
    BY <2>1 DEF Heeds, Answers
<1>4. NoEnd /\ ~(m.type = "DATA" /\ Ends(m.byte) /\ Heeds(n)') => NoEnd'
  <2> SUFFICES ASSUME NoEnd, ~(m.type = "DATA" /\ Ends(m.byte) /\ Heeds(n)'),
                      NEW j \in 1..Len(outq'), outq'[j].type = "DATA", Ends(outq[j].byte)', Heeds(j)'
               PROVE  FALSE
    BY DEF NoEnd
  <2>1. CASE j = n
    BY <1>1, <2>1 DEF Ends
  <2>2. CASE j \in 1..Len(outq)
    BY <1>1, <1>3, <2>2 DEF NoEnd, Ends
  <2>3. QED
    BY <1>1, <2>1, <2>2
<1>5. Free /\ (m.type = "DATA" \/ m.size = 0) => Free'
  BY <1>1, <1>2 DEF Free, Answers
<1>6. Mute /\ m.type = "DATA" => Mute'
  BY <1>1, <1>2 DEF Mute, Answers
<1>7. Held /\ m.type = "DATA" /\ ~Ends(m.byte) => Held'
  <2> SUFFICES ASSUME Held, m.type = "DATA", ~Ends(m.byte) PROVE Held'
    OBVIOUS
  <2>1. NoEnd'
    BY <1>4 DEF Held
  <2>2. \A j \in 1..Len(outq') : \A x : Answers(outq'[j], x) => j \in 1..Len(outq) /\ outq'[j] = outq[j]
    BY <1>1, <1>2
  <2>3. QED
    BY <2>1, <2>2 DEF Held, Answers
<1>8. Mute /\ m = SyncResponse(emu.cmd, "ACK", "A", 0) => Held'
  <2> SUFFICES ASSUME Mute, m = SyncResponse(emu.cmd, "ACK", "A", 0) PROVE Held'
    OBVIOUS
  <2>1. m.type = "SYNC_RESPONSE" /\ m.num = emu.cmd /\ m.ack = "ACK" /\ m.byte = "A" /\ m.size = 0
    BY DEF SyncResponse
  <2>2. NoEnd'
    BY <1>4, <2>1, HeldFree DEF Held
  <2>3. QED
    BY <1>k, <1>1, <2>1, <2>2 DEF Mute, Held, Answers
<1>9. Held /\ m = SyncResponse(DataSyncOf(emu.cmd), "ACK", "A", 0) => Held'
  <2> SUFFICES ASSUME Held, m = SyncResponse(DataSyncOf(emu.cmd), "ACK", "A", 0) PROVE Held'
    OBVIOUS
  <2>1. m.type = "SYNC_RESPONSE" /\ m.num = DataSyncOf(emu.cmd) /\ m.ack = "ACK" /\ m.byte = "A" /\ m.size = 0
    BY DEF SyncResponse
  <2>2. NoEnd'
    BY <1>4, <2>1 DEF Held
  <2>3. emu.st \in {"halt", "halt2", "await"} /\ emu.st # "run"
    BY DEF Held
  <2>4. QED
    BY <1>k, <1>1, <2>1, <2>2, <2>3 DEF Held, Answers
<1>10. Mute /\ m = SyncResponse(emu.cmd, "ACK", "A", 2) => Asked'
  <2> SUFFICES ASSUME Mute, m = SyncResponse(emu.cmd, "ACK", "A", 2) PROVE Asked'
    OBVIOUS
  <2>1. m.type = "SYNC_RESPONSE" /\ m.num = emu.cmd /\ m.ack = "ACK" /\ m.byte = "A" /\ m.size = 2
    BY DEF SyncResponse
  <2>2. NoEnd'
    BY <1>4, <2>1, HeldFree DEF Held
  <2>3. n \in 1..Len(outq') /\ Answers(outq'[n], emu.cmd)
    BY <1>n, <1>1, <2>1 DEF Answers, IsResponse
  <2>4. \A j \in 1..Len(outq) : ~Answers(outq[j], emu.cmd) /\ ~Answers(outq[j], DataSyncOf(emu.cmd))
    BY DEF Mute
  <2>7. emu.st = "halt"
    BY DEF Mute
  <2>5. \A j \in 1..Len(outq') : ~Answers(outq'[j], DataSyncOf(emu.cmd))
    BY <1>k, <1>1, <2>1, <2>4, <2>7 DEF Answers
  <2>6. \A j \in 1..Len(outq') : Answers(outq'[j], emu.cmd) =>
            outq'[j].ack = "ACK" /\ outq'[j].byte = "A" /\ outq'[j].size > 0
    BY <1>1, <2>1, <2>4 DEF Answers
  <2>8. QED
    BY <2>2, <2>3, <2>5, <2>6, <2>7 DEF Asked, Answers
<1>11. QED
  BY <1>5, <1>6, <1>7, <1>8, <1>9, <1>10

-----------------------------------------------------------------------------
(***************************************************************************)
(* What the device may do next, and what that changes.                     *)
(***************************************************************************)
LEMMA Turn ==
  ASSUME Device, port.initialized, AtRest
  PROVE  /\ pc = "idle" => service
         /\ pc = "frame" => ReadFrame \/ FrameTimeout
         /\ pc = "deassert" => WaitDeassert \/ DeassertTimeout
         /\ pc = "check" => Dispatch \/ RejectFrame
         /\ out # <<>> => Send \/ wait_for_credit
         /\ pc = "empty" /\ out = <<>> => EmptyAckSent
         /\ pc = "run" /\ out = <<>> /\ todo = <<>> => Return
         /\ pc = "run" /\ out = <<>> /\ todo # <<>> =>
              \/ WriteByte /\ Head(todo) \in {"A", "N", "C", "E", "K"}
              \/ WriteBlock /\ Head(todo) = "block"
              \/ Flush /\ Head(todo) \in {"flush", "acked"}
              \/ LateAckOp /\ Head(todo) = "late"
              \/ SetWriteSize /\ Head(todo) = "size"
              \/ (ReadData \/ DataTimeout) /\ Head(todo) = "data"
              \/ ReadChecksum /\ Head(todo) = "cksum"
              \/ Outcome /\ Head(todo) = "outcome"
              \/ Toggle /\ Head(todo) = "toggle"
<1>1. /\ service => pc = "idle"
      /\ ReadFrame \/ FrameTimeout => pc = "frame"
      /\ WaitDeassert \/ DeassertTimeout => pc = "deassert"
      /\ Dispatch \/ RejectFrame => pc = "check"
      /\ EmptyAckSent => pc = "empty" /\ out = <<>>
      /\ Return => pc = "run" /\ out = <<>> /\ todo = <<>>
  BY DEF service, ReadFrame, FrameTimeout, WaitDeassert, DeassertTimeout, Dispatch, RejectFrame, EmptyAckSent, Return
<1>2. Send \/ wait_for_credit => out # <<>>
  BY DEF Send, wait_for_credit
<1>3. SendFails \/ ChecksumFails \/ begin => ~port.initialized
  BY DEF SendFails, ChecksumFails, begin
<1>4. /\ WriteByte => \E c \in {"A", "N", "C", "E", "K"} : Doing(c)
      /\ WriteBlock => Doing("block")
      /\ Flush => Doing("flush") \/ Doing("acked")
      /\ LateAckOp => Doing("late")
      /\ SetWriteSize => Doing("size")
      /\ ReadData \/ DataTimeout => Doing("data")
      /\ ReadChecksum => Doing("cksum")
      /\ Outcome => Doing("outcome")
      /\ Toggle => Doing("toggle")
  BY DEF WriteByte, WriteBlock, Flush, LateAckOp, SetWriteSize, ReadData, DataTimeout, ReadChecksum, Outcome, Toggle
<1>5. \A op : Doing(op) => pc = "run" /\ out = <<>> /\ todo # <<>> /\ Head(todo) = op
  BY DEF Doing
<1>6. /\ WriteByte => pc = "run" /\ out = <<>> /\ todo # <<>> /\ Head(todo) \in {"A", "N", "C", "E", "K"}
      /\ WriteBlock => pc = "run" /\ out = <<>> /\ todo # <<>> /\ Head(todo) = "block"
      /\ Flush => pc = "run" /\ out = <<>> /\ todo # <<>> /\ Head(todo) \in {"flush", "acked"}
      /\ LateAckOp => pc = "run" /\ out = <<>> /\ todo # <<>> /\ Head(todo) = "late"
      /\ SetWriteSize => pc = "run" /\ out = <<>> /\ todo # <<>> /\ Head(todo) = "size"
      /\ ReadData \/ DataTimeout => pc = "run" /\ out = <<>> /\ todo # <<>> /\ Head(todo) = "data"
      /\ ReadChecksum => pc = "run" /\ out = <<>> /\ todo # <<>> /\ Head(todo) = "cksum"
      /\ Outcome => pc = "run" /\ out = <<>> /\ todo # <<>> /\ Head(todo) = "outcome"
      /\ Toggle => pc = "run" /\ out = <<>> /\ todo # <<>> /\ Head(todo) = "toggle"
  BY <1>4, <1>5
<1>7. pc \notin {"run", "empty"} => out = <<>>
  BY DEF AtRest
<1>8. QED
  BY <1>1, <1>2, <1>3, <1>6, <1>7 DEF Device

\* The port is as it was, but for what follows.
SameSpeed == port'.baud = port.baud /\ port'.baud_peer = port.baud_peer /\ port'.initialized = port.initialized

LEMMA WriteByteEffect ==
  ASSUME Typed, port.initialized, WriteByte
  PROVE  /\ UNCHANGED <<emu, inq, outq, pc, buf, cur, bus, hist>>
         /\ todo' = Tail(todo)
         /\ port.sync_num = None => out' = <<DataByte(Head(todo))>>
         /\ port.sync_num # None /\ port.sync_write_size = None =>
              out' = <<SyncResponse(port.sync_num, "ACK", Head(todo), 0)>>
         /\ port'.sync_num = None /\ port'.sync_write_size = None /\ port'.rx = port.rx
         /\ port'.command_asserted = port.command_asserted /\ SameSpeed
<1>1. PICK c \in {"A", "N", "C", "E", "K"} :
        /\ Head(todo) = c /\ todo' = Tail(todo) /\ out' = write(c) /\ port' = ClearSync(port)
        /\ UNCHANGED <<emu, inq, outq, pc, buf, cur, bus, hist>>
  BY DEF WriteByte, Doing
<1>2. port \in Ports
  BY DEF Typed
<1>3. /\ port'.sync_num = None /\ port'.sync_write_size = None /\ port'.rx = port.rx
      /\ port'.command_asserted = port.command_asserted /\ SameSpeed
  BY <1>1, <1>2 DEF ClearSync, Ports, SameSpeed
<1>4. /\ port.sync_num = None => write(c) = <<DataByte(c)>>
      /\ port.sync_num # None /\ port.sync_write_size = None =>
           write(c) = <<SyncResponse(port.sync_num, "ACK", c, 0)>>
  BY DEF write
<1>5. QED
  BY <1>1, <1>3, <1>4

LEMMA WriteBlockEffect ==
  ASSUME port.initialized, WriteBlock
  PROVE  /\ UNCHANGED <<emu, inq, outq, port, pc, buf, cur, bus, hist>>
         /\ todo' = Tail(todo) /\ out' = <<DataByte("block")>>
BY DEF WriteBlock

LEMMA FlushEffect ==
  ASSUME Typed, port.initialized, Flush
  PROVE  /\ UNCHANGED <<emu, inq, outq, pc, out, buf, cur, hist>>
         /\ todo' = Tail(todo) /\ port'.rx = <<>>
         /\ port'.sync_num = port.sync_num /\ port'.sync_write_size = port.sync_write_size
         /\ port'.command_asserted = port.command_asserted /\ port'.credit = port.credit /\ SameSpeed
<1>1. port \in Ports
  BY DEF Typed
<1>2. port' = [port EXCEPT !.rx = <<>>]
  BY DEF Flush
<1>3. QED
  BY <1>1, <1>2 DEF Flush, SameSpeed, Ports

LEMMA SendEffect ==
  ASSUME Typed, Send, NEW m, out = <<m>>
  PROVE  /\ UNCHANGED <<emu, inq, pc, todo, buf, cur, bus>>
         /\ outq' = Append(outq, m) /\ out' = <<>> /\ m \in OutMsgs /\ port.credit > 0
         /\ hist'.disturbed = hist.disturbed
         /\ SameLine(port, port') /\ SameSpeed
<1>1. port \in Ports /\ hist \in Histories /\ out \in Seq(OutMsgs)
  BY DEF Typed
<1>2. Head(out) = m /\ Tail(out) = <<>> /\ m \in OutMsgs
  BY <1>1
<1>3. /\ outq' = Append(outq, m) /\ out' = <<>> /\ port' = [port EXCEPT !.credit = @ - 1] /\ port.credit > 0
      /\ UNCHANGED <<emu, inq, pc, todo, buf, cur, bus>>
  BY <1>2 DEF Send
<1>4. hist'.disturbed = hist.disturbed
  BY <1>1 DEF Send, Histories
<1>5. SameLine(port, port') /\ SameSpeed
  BY <1>1, <1>3 DEF SameLine, SameSpeed, Ports
<1>6. QED
  BY <1>2, <1>3, <1>4, <1>5

\* The emulator is where it was.
LEMMA SameEmulator ==
  ASSUME emu' = emu, outq' = outq
  PROVE  /\ Mute => Mute'
         /\ Held => Held'
         /\ Asked => Asked'
         /\ Free => Free'
         /\ Kind' = Kind
<1>1. \A j, n : Answers(outq[j], n)' <=> Answers(outq[j], n)
  BY DEF Answers, IsResponse
<1>2. NoEnd => NoEnd'
  BY <1>1 DEF NoEnd, Heeds, Ends
<1>3. QED
  BY <1>1, <1>2 DEF Mute, Held, Asked, Free, Kind

-----------------------------------------------------------------------------
(***************************************************************************)
(* The queue to the device, when a datagram is taken from it or credit is  *)
(* put on it.                                                              *)
(***************************************************************************)
LEMMA Shift ==
  ASSUME Typed, Receive, emu' = emu
  PROVE  /\ \A b \in Int : Stream(b) => Stream(b - 1)'
         /\ OnlyCredit => OnlyCredit' /\ inq[1].type = "CREDIT"
         /\ Stream(-1) => OnlyCredit' /\ inq[1] = OffSync(emu.cmd)
         /\ Stream(0) => inq[1] = Data(emu.cmd, FrameParts)
         /\ Stream(1) => inq[1] = OnMsg
         /\ \A b \in Int : Stream(b) /\ b > 1 => inq[1].type \in {"SPEED", "CREDIT"}
<1>1. /\ Len(inq') = Len(inq) - 1 /\ Len(inq) \in Nat /\ Len(inq) >= 1 /\ 1 \in 1..Len(inq)
      /\ \A i \in 1..Len(inq') : inq'[i] = inq[i + 1] /\ i + 1 \in 1..Len(inq)
  BY Arrival
<1>2. ASSUME NEW b \in Int, Stream(b) PROVE Stream(b - 1)'
  <2>1. (b - 1) + 2 <= Len(inq')
    BY <1>1, <1>2 DEF Stream
  <2>2. ASSUME NEW i \in 1..Len(inq')
        PROVE  /\ i = b - 1 => inq'[i] = OnMsg
               /\ i = (b - 1) + 1 => inq'[i] = Data(emu.cmd, FrameParts)
               /\ i = (b - 1) + 2 => inq'[i] = OffSync(emu.cmd)
               /\ i = (b - 1) - 1 => inq'[i].type \in {"SPEED", "CREDIT"}
               /\ i < (b - 1) - 1 \/ i > (b - 1) + 2 => inq'[i].type = "CREDIT"
    <3>1. PICK j \in 1..Len(inq) : j = i + 1 /\ inq'[i] = inq[j]
      BY <1>1
    <3>2. /\ j = b => inq[j] = OnMsg
          /\ j = b + 1 => inq[j] = Data(emu.cmd, FrameParts)
          /\ j = b + 2 => inq[j] = OffSync(emu.cmd)
          /\ j = b - 1 => inq[j].type \in {"SPEED", "CREDIT"}
          /\ j < b - 1 \/ j > b + 2 => inq[j].type = "CREDIT"
      BY <1>2 DEF Stream
    <3>3. QED
      BY <3>1, <3>2
  <2>3. QED
    BY <2>1, <2>2 DEF Stream
<1>3. OnlyCredit => OnlyCredit' /\ inq[1].type = "CREDIT"
  BY <1>1 DEF OnlyCredit
<1>4. Stream(-1) => OnlyCredit' /\ inq[1] = OffSync(emu.cmd)
  <2> SUFFICES ASSUME Stream(-1) PROVE OnlyCredit' /\ inq[1] = OffSync(emu.cmd)
    OBVIOUS
  <2>1. \A j \in 1..Len(inq) : j > 1 => inq[j].type = "CREDIT"
    BY DEF Stream
  <2>2. \A i \in 1..Len(inq') : inq'[i].type = "CREDIT"
    BY <1>1, <2>1
  <2>3. inq[1] = OffSync(emu.cmd)
    BY <1>1 DEF Stream
  <2>4. QED
    BY <2>2, <2>3 DEF OnlyCredit
<1>5. Stream(0) => inq[1] = Data(emu.cmd, FrameParts)
  BY <1>1 DEF Stream
<1>6. Stream(1) => inq[1] = OnMsg
  BY <1>1 DEF Stream
<1>7. ASSUME NEW b \in Int, Stream(b), b > 1 PROVE inq[1].type \in {"SPEED", "CREDIT"}
  <2>1. CASE b = 2
    BY <1>1, <1>7, <2>1 DEF Stream
  <2>2. CASE b > 2
    BY <1>1, <1>7, <2>2 DEF Stream
  <2>3. QED
    BY <1>7, <2>1, <2>2
<1>8. QED
  BY <1>2, <1>3, <1>4, <1>5, <1>6, <1>7

LEMMA Granted ==
  ASSUME Typed, Grant
  PROVE  /\ OnlyCredit => OnlyCredit'
         /\ \A b \in Int : Stream(b) => Stream(b)'
         /\ Len(inq') = Len(inq) + 1 /\ Len(inq) \in Nat
<1> DEFINE m == Credit(InitialCredit)
<1>1. m \in InMsgs /\ m.type = "CREDIT"
  BY DEF InMsgs, Others, Credit
<1>2. inq \in Seq(InMsgs) /\ inq' = Append(inq, m) /\ emu' = emu
  BY DEF Typed, Grant
<1> HIDE DEF m
<1>3. /\ Len(inq') = Len(inq) + 1 /\ Len(inq) \in Nat
      /\ \A i \in 1..Len(inq) : inq'[i] = inq[i]
      /\ inq'[Len(inq) + 1] = m
      /\ \A i \in 1..Len(inq') : i \in 1..Len(inq) \/ i = Len(inq) + 1
  BY <1>1, <1>2
<1>4. OnlyCredit => OnlyCredit'
  BY <1>1, <1>3 DEF OnlyCredit
<1>5. ASSUME NEW b \in Int, Stream(b) PROVE Stream(b)'
  <2>1. b + 2 <= Len(inq)
    BY <1>5 DEF Stream
  <2>2. ASSUME NEW i \in 1..Len(inq')
        PROVE  /\ i = b => inq'[i] = OnMsg
               /\ i = b + 1 => inq'[i] = Data(emu.cmd, FrameParts)
               /\ i = b + 2 => inq'[i] = OffSync(emu.cmd)
               /\ i = b - 1 => inq'[i].type \in {"SPEED", "CREDIT"}
               /\ i < b - 1 \/ i > b + 2 => inq'[i].type = "CREDIT"
    <3>1. CASE i \in 1..Len(inq)
      BY <1>3, <1>5, <3>1 DEF Stream
    <3>2. CASE i = Len(inq) + 1
      BY <1>1, <1>3, <2>1, <3>2
    <3>3. QED
      BY <1>3, <3>1, <3>2
  <2>3. QED
    BY <1>2, <1>3, <2>1, <2>2 DEF Stream
<1>6. QED
  BY <1>3, <1>4, <1>5

LEMMA WaitEffect ==
  ASSUME Typed, wait_for_credit
  PROVE  /\ UNCHANGED <<emu, outq, pc, todo, out, buf, cur, bus, hist>>
         /\ Receive /\ port.credit = 0
         /\ inq[1].type \in {"SPEED", "CREDIT"} => SameLine(port, port') /\ port'.initialized = port.initialized
         /\ OnlyCredit => OnlyCredit' /\ SameLine(port, port') /\ SameSpeed
<1>1. /\ UNCHANGED <<emu, outq, pc, todo, out, buf, cur, bus, hist>>
      /\ Receive /\ port.credit = 0
  BY DEF wait_for_credit, dev
<1>2. PortAfter(port, inq[1], port')
  BY <1>1, Arrival
<1>3. OnlyCredit => OnlyCredit' /\ inq[1].type = "CREDIT"
  BY <1>1, Shift
<1>4. QED
  BY <1>1, <1>2, <1>3 DEF PortAfter, SameSpeed

LEMMA ReturnEffect ==
  ASSUME Typed, port.initialized, Return
  PROVE  /\ UNCHANGED <<emu, inq, outq, todo, buf, cur, bus, hist>>
         /\ bus.processed \/ port.sync_num = None => pc' = "idle" /\ out' = out /\ port' = port
         /\ \/ pc' = "idle" /\ out' = out /\ port' = port
            \/ /\ pc' = "empty" /\ port.sync_num # None /\ out' = <<SyncResponse(port.sync_num, "EMPTY", "", 0)>>
               /\ port'.sync_num = None /\ port'.command_asserted = port.command_asserted /\ SameSpeed
<1>1. port \in Ports
  BY DEF Typed
<1>2. ClearSync(port).sync_num = None /\ ClearSync(port).command_asserted = port.command_asserted
      /\ ClearSync(port).baud = port.baud /\ ClearSync(port).baud_peer = port.baud_peer
      /\ ClearSync(port).initialized = port.initialized
  BY <1>1 DEF ClearSync, Ports
<1>3. UNCHANGED <<emu, inq, outq, todo, buf, cur, bus, hist>>
  BY DEF Return
<1>4. bus.processed \/ port.sync_num = None => pc' = "idle" /\ out' = out /\ port' = port
  BY DEF Return
<1>5. ~(bus.processed \/ port.sync_num = None) =>
         /\ pc' = "empty" /\ out' = <<SyncResponse(port.sync_num, "EMPTY", "", 0)>> /\ port' = ClearSync(port)
  BY DEF Return
<1>6. QED
  BY <1>2, <1>3, <1>4, <1>5 DEF SameSpeed

LEMMA ToggleEffect ==
  ASSUME Typed, port.initialized, Toggle
  PROVE  /\ UNCHANGED <<emu, inq, outq, pc, out, buf, cur, hist>>
         /\ todo' = Tail(todo) /\ SameLine(port, port') /\ port'.initialized = port.initialized
<1>1. port \in Ports
  BY DEF Typed
<1>2. port' = [port EXCEPT !.baud = Other(bus.sioBaud)]
  BY DEF Toggle, toggleBaudrate
<1>3. SameLine(port, port') /\ port'.initialized = port.initialized
  BY <1>1, <1>2 DEF SameLine, Ports
<1>4. QED
  BY <1>3 DEF Toggle

-----------------------------------------------------------------------------
(***************************************************************************)
(* The device's steps, phase by phase.                                     *)
(***************************************************************************)
\* The end of a command, but for what is received meanwhile.
LEMMA ClosingStep ==
  ASSUME Typed, AtRest, port.initialized, Closing, Device, ~service, ~wait_for_credit
  PROVE  /\ Closing' /\ port'.initialized /\ UNCHANGED <<emu, inq>>
         /\ outq' = outq \/ (outq' = Append(outq, DataByte("N")) /\ DataByte("N") \in OutMsgs)
<1>1. CASE pc = "idle" /\ out = <<>>
  BY <1>1, Turn
<1>2. CASE pc = "empty" /\ out = <<>>
  <2>1. EmptyAckSent
    BY <1>2, Turn
  <2>2. QED
    BY <2>1 DEF EmptyAckSent, Closing
<1>3. CASE pc = "run" /\ port.sync_num = None /\ out = <<>> /\ todo \in Tails
  <2>1. CASE todo = <<>>
    <3>1. Return
      BY <1>3, <2>1, Turn
    <3>2. UNCHANGED <<emu, inq, outq>> /\ pc' = "idle" /\ out' = out /\ port' = port
      BY <1>3, <3>1, ReturnEffect
    <3>3. QED
      BY <1>3, <3>2 DEF Closing
  <2>2. CASE todo \in {<<"acked">>, <<"flush">>, <<"flush", "toggle">>}
    <3>1. todo # <<>> /\ Head(todo) \in {"flush", "acked"} /\ Tail(todo) \in {<<>>, <<"toggle">>}
      <4>1. todo = <<"acked">> => todo # <<>> /\ Head(todo) = "acked" /\ Tail(todo) = <<>>
        OBVIOUS
      <4>2. todo = <<"flush">> => todo # <<>> /\ Head(todo) = "flush" /\ Tail(todo) = <<>>
        OBVIOUS
      <4>3. todo = <<"flush", "toggle">> => todo # <<>> /\ Head(todo) = "flush" /\ Tail(todo) = <<"toggle">>
        OBVIOUS
      <4>4. QED
        BY <2>2, <4>1, <4>2, <4>3
    <3>5. Tail(todo) \in Tails
      BY <3>1 DEF Tails
    <3>2. Flush
      BY <1>3, <3>1, Turn
    <3>3. /\ UNCHANGED <<emu, inq, outq, pc, out>> /\ todo' = Tail(todo)
          /\ port'.sync_num = port.sync_num /\ port'.command_asserted = port.command_asserted /\ SameSpeed
      BY <3>2, FlushEffect
    <3>4. QED
      BY <1>3, <3>3, <3>5 DEF Closing, SameSpeed
  <2>3. CASE todo = <<"toggle">>
    <3>1. /\ todo # <<>> /\ Head(todo) = "toggle" /\ Tail(todo) \in Tails
      BY <2>3 DEF Tails
    <3>2. Toggle
      BY <1>3, <3>1, Turn
    <3>3. /\ UNCHANGED <<emu, inq, outq, pc, out>> /\ todo' = Tail(todo)
          /\ SameLine(port, port') /\ port'.initialized = port.initialized
      BY <3>2, ToggleEffect
    <3>4. QED
      BY <1>3, <3>1, <3>3 DEF Closing, SameLine
  <2>4. CASE todo = <<"N", "acked">>
    <3>1. /\ todo # <<>> /\ Head(todo) = "N" /\ Tail(todo) = <<"acked">>
      BY <2>4
    <3>2. WriteByte
      BY <1>3, <3>1, Turn
    <3>3. /\ UNCHANGED <<emu, inq, outq, pc>> /\ todo' = Tail(todo) /\ out' = <<DataByte("N")>>
          /\ port'.sync_num = None /\ port'.command_asserted = port.command_asserted /\ SameSpeed
      BY <1>3, <3>1, <3>2, WriteByteEffect
    <3>4. QED
      BY <1>3, <3>1, <3>3 DEF Closing, SameSpeed
  <2>5. QED
    BY <1>3, <2>1, <2>2, <2>3, <2>4 DEF Tails, ReadFlush
<1>4. CASE pc = "run" /\ port.sync_num = None /\ out = <<DataByte("N")>> /\ todo = <<"acked">>
  <2>1. Send
    BY <1>4, Turn
  <2>2. /\ UNCHANGED <<emu, inq, pc, todo>> /\ outq' = Append(outq, DataByte("N")) /\ out' = <<>>
        /\ DataByte("N") \in OutMsgs /\ SameLine(port, port') /\ SameSpeed
    BY <1>4, <2>1, SendEffect
  <2>3. QED
    BY <1>4, <2>2 DEF Closing, SameLine, SameSpeed, Tails
<1>5. QED
  BY <1>1, <1>2, <1>3, <1>4 DEF Closing

\* Credit waits for a write, so nothing is received between commands.
LEMMA NoCredit ==
  ASSUME Typed, Credited, OnlyCredit, out = <<>> \/ port.credit # 0
  PROVE  inq = <<>>
<1>1. inq \in Seq(InMsgs)
  BY DEF Typed
<1>2. \A i \in 1..Len(inq) : FALSE
  BY DEF Credited, OnlyCredit
<1>3. QED
  BY <1>1, <1>2

LEMMA RestingStep ==
  ASSUME Typed, Orderly, port.initialized, Resting, Device
  PROVE  port'.initialized /\ Resting'
<1>0. AtRest /\ Credited /\ Closing /\ Free /\ OnlyCredit
  BY DEF Orderly, Resting
<1>1. CASE service
  <2>1. pc = "idle" /\ (inq # <<>> \/ port.command_asserted)
    BY <1>1 DEF service
  <2>2. out = <<>> /\ ~port.command_asserted
    BY <1>0, <2>1 DEF AtRest, Closing
  <2>3. QED
    BY <1>0, <2>1, <2>2, NoCredit
<1>2. CASE wait_for_credit
  <2>1. /\ UNCHANGED <<emu, outq, pc, todo, out>> /\ OnlyCredit' /\ SameLine(port, port') /\ SameSpeed
    BY <1>0, <1>2, WaitEffect
  <2>2. Free'
    BY <1>0, <2>1, SameEmulator
  <2>3. Closing'
    BY <1>0, <2>1 DEF Closing, SameLine
  <2>4. QED
    BY <2>1, <2>2, <2>3 DEF Resting, SameSpeed
<1>3. CASE ~service /\ ~wait_for_credit
  <2>1. /\ Closing' /\ port'.initialized /\ UNCHANGED <<emu, inq>>
        /\ outq' = outq \/ (outq' = Append(outq, DataByte("N")) /\ DataByte("N") \in OutMsgs)
    BY <1>0, <1>3, ClosingStep
  <2>2. DataByte("N").type = "DATA"
    BY DEF DataByte
  <2>3. Free'
    BY <1>0, <2>1, <2>2, SameEmulator, Saying
  <2>4. QED
    BY <1>0, <2>1, <2>3 DEF Resting, OnlyCredit
<1>4. QED
  BY <1>1, <1>2, <1>3

LEMMA ComingStep ==
  ASSUME Typed, Orderly, port.initialized, Coming, Device
  PROVE  port'.initialized /\ (Coming' \/ FrameAwaited' \/ Swallowing')
<1>0. AtRest /\ Credited /\ Closing /\ Mute /\ inq \in Seq(InMsgs) /\ Len(inq) \in Nat
  BY DEF Orderly, Coming, Typed
<1>b. PICK b \in 1..Len(inq) : Stream(b)
  BY DEF Coming
<1>c. b \in Int /\ b >= 1 /\ b + 2 <= Len(inq) /\ inq # <<>>
  BY <1>0, <1>b DEF Stream
<1>r. ASSUME Receive, UNCHANGED <<emu, outq>>
      PROVE  /\ Mute' /\ port'.initialized
             /\ \/ b = 1 /\ Stream(0)' /\ port'.command_asserted = TRUE /\ port'.sync_num = None
                   /\ port'.sync_write_size = None /\ port'.rx = <<>> /\ port'.credit = port.credit
                \/ (\E c \in 1..Len(inq) : Stream(c))' /\ SameLine(port, port')
  <2>1. Mute'
    BY <1>0, <1>r, SameEmulator
  <2>2. PortAfter(port, inq[1], port') /\ Len(inq') = Len(inq) - 1
    BY <1>r, Arrival
  <2>3. port'.initialized
    BY <2>2 DEF PortAfter
  <2>4. CASE b = 1
    <3>1. Stream(0)' /\ inq[1] = OnMsg
      <4>1. Stream(1) /\ 1 \in Int
        BY <1>b, <2>4
      <4>2. Stream(1 - 1)' /\ inq[1] = OnMsg
        BY <1>r, <4>1, Shift
      <4>3. 1 - 1 = 0
        OBVIOUS
      <4>4. QED
        BY <4>2, <4>3
    <3>2. /\ port'.command_asserted = TRUE /\ port'.sync_num = None
          /\ port'.sync_write_size = None /\ port'.rx = <<>> /\ port'.credit = port.credit
      BY <2>2, <3>1 DEF PortAfter, OnMsg
    <3>3. QED
      BY <2>1, <2>3, <2>4, <3>1, <3>2
  <2>5. CASE b > 1
    <3>1. Stream(b - 1)' /\ inq[1].type \in {"SPEED", "CREDIT"}
      BY <1>b, <1>c, <1>r, <2>5, Shift
    <3>2. b - 1 \in 1..Len(inq')
      BY <1>0, <1>c, <2>2, <2>5
    <3>3. SameLine(port, port')
      BY <2>2, <3>1 DEF PortAfter
    <3>4. QED
      BY <2>1, <2>3, <3>1, <3>2, <3>3
  <2>6. b = 1 \/ b > 1
    BY <1>c
  <2>7. QED
    BY <2>4, <2>5, <2>6
<1>1. CASE service
  <2>1. /\ pc = "idle" /\ HandleNetsio /\ UNCHANGED <<emu, outq, todo, out>>
        /\ IF port'.command_asserted THEN pc' = "frame" /\ buf' = <<>> ELSE pc' = pc
    BY <1>1 DEF service
  <2>2. Receive
    BY <1>c, <2>1 DEF HandleNetsio
  <2>3. out = <<>> /\ ~port.command_asserted
    BY <1>0, <2>1 DEF AtRest, Closing
  <2>4. CASE /\ b = 1 /\ Stream(0)' /\ port'.command_asserted = TRUE /\ port'.sync_num = None
             /\ port'.sync_write_size = None /\ port'.rx = <<>>
    <3>1. pc' = "frame" /\ buf' = <<>>
      BY <2>1, <2>4
    <3>2. FrameAwaited'
      BY <1>r, <2>1, <2>2, <2>4, <3>1 DEF FrameAwaited, Asserted
    <3>3. QED
      BY <1>r, <2>1, <2>2, <3>2
  <2>5. CASE (\E c \in 1..Len(inq) : Stream(c))' /\ SameLine(port, port')
    <3>1. ~port'.command_asserted /\ pc' = "idle" /\ out' = <<>>
      BY <2>1, <2>3, <2>5 DEF SameLine
    <3>2. Closing'
      BY <3>1 DEF Closing
    <3>3. QED
      BY <1>r, <2>1, <2>2, <2>5, <3>2 DEF Coming
  <2>6. QED
    BY <1>r, <2>1, <2>2, <2>4, <2>5
<1>2. CASE wait_for_credit
  <2>1. UNCHANGED <<emu, outq, pc, todo, out>> /\ Receive /\ port.credit = 0 /\ out # <<>>
    BY <1>2, WaitEffect DEF wait_for_credit
  <2>2. pc = "run" /\ port.sync_num = None /\ out = <<DataByte("N")>> /\ todo = <<"acked">>
    BY <1>0, <2>1 DEF Closing
  <2>4. CASE /\ b = 1 /\ Stream(0)' /\ port'.command_asserted = TRUE /\ port'.sync_num = None
             /\ port'.credit = port.credit
    BY <1>r, <2>1, <2>2, <2>4 DEF Swallowing
  <2>5. CASE (\E c \in 1..Len(inq) : Stream(c))' /\ SameLine(port, port')
    <3>1. Closing'
      BY <1>0, <2>1, <2>2, <2>5 DEF Closing, SameLine
    <3>2. QED
      BY <1>r, <2>1, <2>5, <3>1 DEF Coming
  <2>6. QED
    BY <1>r, <2>1, <2>4, <2>5
<1>3. CASE ~service /\ ~wait_for_credit
  <2>1. /\ Closing' /\ port'.initialized /\ UNCHANGED <<emu, inq>>
        /\ outq' = outq \/ (outq' = Append(outq, DataByte("N")) /\ DataByte("N") \in OutMsgs)
    BY <1>0, <1>3, ClosingStep
  <2>2. DataByte("N").type = "DATA"
    BY DEF DataByte
  <2>3. Mute'
    BY <1>0, <2>1, <2>2, SameEmulator, Saying
  <2>4. Stream(b)' /\ b \in 1..Len(inq')
    BY <1>b, <2>1 DEF Stream
  <2>5. QED
    BY <2>1, <2>3, <2>4 DEF Coming
<1>4. QED
  BY <1>1, <1>2, <1>3

LEMMA SwallowingStep ==
  ASSUME Typed, Orderly, port.initialized, Swallowing, Device
  PROVE  port'.initialized /\ (Swallowing' \/ Swallowed')
<1>0. /\ Mute /\ (Stream(0) \/ Stream(-1))
      /\ pc = "run" /\ todo = <<"acked">> /\ out = <<DataByte("N")>> /\ port.credit = 0
      /\ port.command_asserted /\ port.sync_num = None /\ AtRest
  BY DEF Swallowing, Orderly
<1>k. emu.cmd \in Commands /\ FrameParts \in Seq(PartNames)
  BY <1>0, Sizes DEF Typed, Emulators, Mute, Commands, FrameParts, PartNames
<1>1. wait_for_credit
  <2>1. Send \/ wait_for_credit
    BY <1>0, Turn
  <2>2. QED
    BY <1>0, <2>1 DEF Send
<1>2. UNCHANGED <<emu, outq, pc, todo, out>> /\ Receive
  BY <1>1, WaitEffect
<1>3. PortAfter(port, inq[1], port') /\ port'.initialized
  BY <1>2, Arrival DEF PortAfter
<1>4. Mute'
  BY <1>0, <1>2, SameEmulator
<1>5. CASE Stream(0)
  <2>1. Stream(0 - 1)' /\ inq[1] = Data(emu.cmd, FrameParts)
    BY <1>2, <1>5, Shift
  <2>2. Stream(-1)'
    BY <2>1
  <2>3. inq[1].type = "DATA"
    BY <2>1 DEF Data
  <2>4. port'.command_asserted = port.command_asserted /\ port'.sync_num = port.sync_num /\ port'.credit = port.credit
    BY <1>k, <1>3, <2>1, <2>3 DEF PortAfter
  <2>5. QED
    BY <1>0, <1>2, <1>3, <1>4, <2>2, <2>4 DEF Swallowing
<1>6. CASE Stream(-1)
  <2>1. OnlyCredit' /\ inq[1] = OffSync(emu.cmd)
    BY <1>2, <1>6, Shift
  <2>2. port'.command_asserted = FALSE
    BY <1>k, <1>3, <2>1 DEF PortAfter
  <2>3. QED
    BY <1>0, <1>2, <1>3, <1>4, <2>1, <2>2 DEF Swallowed
<1>7. QED
  BY <1>0, <1>5, <1>6

LEMMA SwallowedStep ==
  ASSUME Typed, Orderly, port.initialized, Swallowed, Device
  PROVE  port'.initialized /\ (Swallowed' \/ Resting')
<1>0. Mute /\ OnlyCredit /\ pc = "run" /\ ~port.command_asserted /\ AtRest
  BY DEF Swallowed, Orderly
<1>1. CASE todo = <<"acked">> /\ out = <<>>
  <2>1. todo # <<>> /\ Head(todo) = "acked" /\ Tail(todo) = <<>>
    BY <1>1
  <2>2. Flush
    BY <1>0, <1>1, <2>1, Turn
  <2>3. /\ UNCHANGED <<emu, inq, outq, pc, out>> /\ todo' = <<>>
        /\ port'.command_asserted = port.command_asserted /\ port'.initialized
    BY <2>1, <2>2, FlushEffect DEF SameSpeed
  <2>4. bus'.processed
    BY <2>1, <2>2 DEF Flush, Orderly, Buses
  <2>5. Mute'
    BY <1>0, <2>3, SameEmulator
  <2>6. QED
    BY <1>0, <1>1, <2>3, <2>4, <2>5 DEF Swallowed, OnlyCredit
<1>2. CASE todo = <<"acked">> /\ out = <<DataByte("N")>>
  <2>1. Send \/ wait_for_credit
    BY <1>0, <1>2, Turn
  <2>2. CASE Send
    <3>1. /\ UNCHANGED <<emu, inq, pc, todo>> /\ outq' = Append(outq, DataByte("N")) /\ out' = <<>>
          /\ DataByte("N") \in OutMsgs /\ SameLine(port, port') /\ SameSpeed
      BY <1>2, <2>2, SendEffect
    <3>2. DataByte("N").type = "DATA"
      BY DEF DataByte
    <3>3. Mute'
      BY <1>0, <3>1, <3>2, Saying
    <3>4. QED
      BY <1>0, <1>2, <3>1, <3>3 DEF Swallowed, OnlyCredit, SameLine, SameSpeed
  <2>3. CASE wait_for_credit
    <3>1. /\ UNCHANGED <<emu, outq, pc, todo, out>> /\ OnlyCredit' /\ SameLine(port, port') /\ SameSpeed
      BY <1>0, <2>3, WaitEffect
    <3>2. Mute'
      BY <1>0, <3>1, SameEmulator
    <3>3. QED
      BY <1>0, <1>2, <3>1, <3>2 DEF Swallowed, SameLine, SameSpeed
  <2>4. QED
    BY <2>1, <2>2, <2>3
<1>3. CASE todo = <<>> /\ out = <<>> /\ bus.processed
  <2>1. Return
    BY <1>0, <1>3, Turn
  <2>2. UNCHANGED <<emu, inq, outq, todo>> /\ pc' = "idle" /\ out' = out /\ port' = port
    BY <1>3, <2>1, ReturnEffect
  <2>3. Free'
    BY <1>0, <2>2, SameEmulator, HeldFree
  <2>4. QED
    BY <1>0, <1>3, <2>2, <2>3 DEF Resting, Closing, OnlyCredit
<1>4. QED
  BY <1>1, <1>2, <1>3 DEF Swallowed

LEMMA Paired ==
  ASSUME NEW S, NEW a \in S, NEW b \in S
  PROVE  Append(<<a>>, b) = <<a, b>>
<1>1. Append(<<a>>, b) \in Seq(S) /\ <<a, b>> \in Seq(S) /\ Len(Append(<<a>>, b)) = 2
  OBVIOUS
<1>2. \A i \in 1..2 : Append(<<a>>, b)[i] = <<a, b>>[i]
  OBVIOUS
<1>3. QED
  BY <1>1, <1>2, SeqEqual

\* A command's own number.
LEMMA Numbered ==
  ASSUME Typed, emu.st # "run"
  PROVE  /\ emu.cmd \in Commands /\ emu.cmd # None /\ DataSyncOf(emu.cmd) # None /\ InStep \in BOOLEAN
         /\ FrameParts \in Seq(PartNames) /\ DataParts \in Seq(PartNames) /\ <<"data">> \in Seq(PartNames)
<1>1. emu.cmd \in Commands
  BY Sizes DEF Typed, Emulators, Commands
<1>2. QED
  BY <1>1, Sizes DEF FrameParts, DataParts, PartNames, InStep

LEMMA FrameAwaitedStep ==
  ASSUME Typed, Orderly, port.initialized, FrameAwaited, Device
  PROVE  port'.initialized /\ FrameHere'
<1>0. /\ Mute /\ port.command_asserted /\ port.sync_num = None /\ port.sync_write_size = None
      /\ Stream(0) /\ pc = "frame" /\ buf = <<>> /\ port.rx = <<>> /\ AtRest
  BY DEF FrameAwaited, Asserted, Orderly
<1>k. /\ emu.cmd \in Commands /\ FrameParts \in Seq(PartNames) /\ InStep \in BOOLEAN
      /\ inq \in Seq(InMsgs) /\ Len(inq) >= 2
  BY <1>0, Numbered DEF Mute, Typed, Stream
<1>1. ReadFrame
  <2>1. ~FrameTimeout
    BY <1>k DEF FrameTimeout, ReadFails, Quiet
  <2>2. QED
    BY <1>0, <2>1, Turn
<1>2. Receive /\ UNCHANGED <<emu, outq, buf>> /\ pc' = IF Len(buf) = Len(FrameParts) THEN "deassert" ELSE "frame"
  BY <1>0, <1>1 DEF ReadFrame, ReadByte
<1>3. pc' = "frame"
  BY <1>0, <1>2 DEF FrameParts
<1>4. PortAfter(port, inq[1], port')
  BY <1>2, Arrival
<1>5. Stream(0 - 1)' /\ inq[1] = Data(emu.cmd, FrameParts)
  BY <1>0, <1>2, Shift
<1>6. Stream(-1)' /\ inq[1].type = "DATA"
  BY <1>5 DEF Data
<1>7. /\ port'.command_asserted = port.command_asserted /\ port'.sync_num = port.sync_num
      /\ port'.sync_write_size = port.sync_write_size /\ port'.initialized = port.initialized
      /\ port'.rx = port.rx \o Bytes(emu.cmd, FrameParts, InStep)
      /\ port'.baud = port.baud /\ port'.baud_peer = port.baud_peer
  BY <1>k, <1>4, <1>5, <1>6 DEF PortAfter, InStep
<1>8. port'.rx = <<FrameByte("frame1"), FrameByte("frame2")>>
  BY <1>0, <1>k, <1>7, Buffered DEF FrameByte
<1>9. FrameByte("frame1")' = FrameByte("frame1") /\ FrameByte("frame2")' = FrameByte("frame2")
  BY <1>2, <1>7 DEF FrameByte, InStep
<1>10. Mute'
  BY <1>0, <1>2, SameEmulator
<1>11. Asserted'
  BY <1>0, <1>7, <1>10 DEF Asserted
<1>12. QED
  BY <1>0, <1>2, <1>3, <1>6, <1>7, <1>8, <1>9, <1>11 DEF FrameHere

LEMMA FrameHereStep ==
  ASSUME Typed, Orderly, port.initialized, FrameHere, Device
  PROVE  port'.initialized /\ (FrameHere' \/ Checking')
<1>0. /\ Mute /\ port.command_asserted /\ port.sync_num = None /\ port.sync_write_size = None
      /\ Stream(-1) /\ AtRest /\ Credited
  BY DEF FrameHere, Asserted, Orderly
<1>k. /\ emu.cmd \in Commands /\ InStep \in BOOLEAN /\ port \in Ports
      /\ inq \in Seq(InMsgs) /\ Len(inq) >= 1 /\ inq # <<>>
  BY <1>0, Numbered DEF Mute, Typed, Stream
<1> DEFINE f1 == FrameByte("frame1")
           f2 == FrameByte("frame2")
<1>1. ASSUME pc = "frame", port.rx # <<>>
      PROVE  /\ UNCHANGED <<emu, outq, inq>> /\ buf' = Append(buf, Head(port.rx))
             /\ pc' = IF Len(buf') = 2 THEN "deassert" ELSE "frame"
             /\ port'.rx = Tail(port.rx) /\ port'.initialized
             /\ FrameByte("frame1")' = f1 /\ FrameByte("frame2")' = f2
             /\ Asserted' /\ Stream(-1)'
  <2>1. ReadFrame
    BY <1>0, <1>1, Turn DEF FrameTimeout, ReadFails
  <2>2. /\ UNCHANGED <<emu, outq, inq>> /\ buf' = Append(buf, Head(port.rx))
        /\ pc' = IF Len(buf') = 2 THEN "deassert" ELSE "frame"
        /\ port' = [port EXCEPT !.rx = Tail(@)]
    BY <1>1, <2>1 DEF ReadFrame, ReadByte, FrameParts
  <2>3. /\ port'.rx = Tail(port.rx) /\ port'.initialized = port.initialized
        /\ port'.command_asserted = port.command_asserted /\ port'.sync_num = port.sync_num
        /\ port'.sync_write_size = port.sync_write_size /\ port'.baud = port.baud /\ port'.baud_peer = port.baud_peer
    BY <1>k, <2>2 DEF Ports
  <2>4. Mute'
    BY <1>0, <2>2, SameEmulator
  <2>5. Asserted'
    BY <1>0, <2>3, <2>4 DEF Asserted
  <2>6. Stream(-1)'
    BY <1>0, <2>2 DEF Stream
  <2>7. FrameByte("frame1")' = f1 /\ FrameByte("frame2")' = f2
    BY <2>2, <2>3 DEF FrameByte, InStep
  <2>8. QED
    BY <2>2, <2>3, <2>5, <2>6, <2>7
<1>2. CASE pc = "frame" /\ buf = <<>> /\ port.rx = <<f1, f2>>
  <2> HIDE DEF f1, f2
  <2>1. port.rx # <<>> /\ Head(port.rx) = f1 /\ Tail(port.rx) = <<f2>>
    BY <1>2
  <2>2. Append(<<>>, f1) = <<f1>> /\ Len(<<f1>>) = 1
    OBVIOUS
  <2>3. buf' = <<f1>> /\ port'.rx = <<f2>> /\ pc' = "frame"
    BY <1>1, <1>2, <2>1, <2>2
  <2>4. FrameHere'
    BY <1>1, <1>2, <2>1, <2>3 DEF FrameHere, f1, f2
  <2>5. QED
    BY <1>1, <1>2, <2>1, <2>4
<1>3. CASE pc = "frame" /\ buf = <<f1>> /\ port.rx = <<f2>>
  <2> HIDE DEF f1, f2
  <2>1. port.rx # <<>> /\ Head(port.rx) = f2 /\ Tail(port.rx) = <<>>
    BY <1>3
  <2>2. Append(<<f1>>, f2) = <<f1, f2>> /\ Len(<<f1, f2>>) = 2
    <3>1. f1 \in RxBytes /\ f2 \in RxBytes
      BY <1>k DEF f1, f2, FrameByte, Byte, RxBytes, PartNames
    <3>2. QED
      BY <3>1, Paired
  <2>3. buf' = <<f1, f2>> /\ port'.rx = <<>> /\ pc' = "deassert"
    BY <1>1, <1>3, <2>1, <2>2
  <2>4. FrameHere'
    BY <1>1, <1>3, <2>1, <2>3 DEF FrameHere, f1, f2
  <2>5. QED
    BY <1>1, <1>3, <2>1, <2>4
<1>4. CASE pc = "deassert" /\ buf = <<f1, f2>> /\ port.rx = <<>>
  <2> HIDE DEF f1, f2
  <2>1. WaitDeassert
    BY <1>0, <1>k, <1>4, Turn DEF DeassertTimeout, Quiet
  <2>2. /\ Receive /\ UNCHANGED <<emu, outq, buf, out>>
        /\ pc' = IF port'.command_asserted THEN "deassert" ELSE "check"
    BY <1>k, <2>1 DEF WaitDeassert, HandleNetsio
  <2>3. PortAfter(port, inq[1], port') /\ OnlyCredit' /\ inq[1] = OffSync(emu.cmd)
    BY <1>0, <2>2, Arrival, Shift
  <2>4. inq[1].type = "OFF_SYNC"
    BY <2>3 DEF OffSync
  <2>5. /\ port'.command_asserted = FALSE /\ port'.sync_num = emu.cmd /\ port'.initialized = port.initialized
        /\ port'.sync_write_size = None /\ port'.rx = <<>>
        /\ port'.baud = port.baud /\ port'.baud_peer = port.baud_peer
    BY <1>0, <1>k, <1>4, <2>3, <2>4 DEF PortAfter
  <2>6. FrameByte("frame1")' = f1 /\ FrameByte("frame2")' = f2
    BY <2>2, <2>5 DEF FrameByte, InStep, f1, f2
  <2>7. Credited' /\ out' = <<>> /\ inq' \in Seq(InMsgs)
    BY <1>0, <1>4, <2>2, CreditedReceived, ReceiveStep DEF AtRest
  <2>8. inq' = <<>>
    BY <2>3, <2>7 DEF OnlyCredit, Credited
  <2>9. Mute'
    BY <1>0, <2>2, SameEmulator
  <2>10. Checking'
    BY <1>4, <2>2, <2>5, <2>6, <2>8, <2>9 DEF Checking
  <2>11. QED
    BY <2>5, <2>10
<1>5. QED
  BY <1>2, <1>3, <1>4 DEF FrameHere

LEMMA NotSize ==
  \A t \in {<<>>, <<"toggle">>, <<"N", "acked">>, <<"E">>} \cup ReadAck \cup ControlAck \cup PutLate : t \notin PutSize
<1>1. \A t \in PutSize : t # <<>> /\ Head(t) = "size"
  BY PutPlans
<1>2. Head(<<"toggle">>) = "toggle" /\ Head(<<"N", "acked">>) = "N" /\ Head(<<"E">>) = "E"
  OBVIOUS
<1>3. (\A t \in ReadAck \cup ControlAck : Head(t) = "A") /\ (\A t \in PutLate : Head(t) = "late")
  BY Plans, PutPlans
<1>4. <<>> \notin PutSize /\ <<"toggle">> \notin PutSize /\ <<"N", "acked">> \notin PutSize /\ <<"E">> \notin PutSize
  BY <1>1, <1>2
<1>5. \A t \in ReadAck \cup ControlAck \cup PutLate : t \notin PutSize
  BY <1>1, <1>3
<1>6. QED
  BY <1>4, <1>5

LEMMA CheckingStep ==
  ASSUME Typed, Orderly, port.initialized, Checking, Device
  PROVE  port'.initialized /\ (Starting' \/ Resting')
<1>0. /\ Mute /\ inq = <<>> /\ pc = "check"
      /\ ~port.command_asserted /\ port.sync_num = emu.cmd /\ port.sync_write_size = None
      /\ buf = <<FrameByte("frame1"), FrameByte("frame2")>> /\ port.rx = <<>> /\ AtRest /\ out = <<>>
  BY DEF Checking, Orderly, AtRest
<1>1. buf[1] = FrameByte("frame1") /\ buf[1].cmd = emu.cmd /\ buf[1].ok = InStep
  BY <1>0 DEF FrameByte, Byte
<1>2. Dispatch \/ RejectFrame
  BY <1>0, Turn
<1>3. UNCHANGED <<emu, outq, out, buf>> /\ inq' = inq /\ port' = port
  BY <1>0, <1>2 DEF Dispatch, RejectFrame, Available, HandleNetsio, Receive
<1>4. Mute' /\ Free' /\ Kind' = Kind /\ (InStep => InStep')
  BY <1>0, <1>3, SameEmulator, HeldFree DEF InStep
<1>5. ASSUME pc' = "run", cur' = emu.cmd, todo' \notin PutSize,
             \/ todo' \in {<<>>, <<"toggle">>}
             \/ Kind \in ReadKinds /\ todo' \in ReadAck
             \/ Kind = "control" /\ todo' \in ControlAck
             \/ Kind = "nak" /\ todo' = <<"N", "acked">>
             \/ Kind = "closed" /\ todo' = <<"E">>
             \/ Kind \in PutKinds /\ InStep /\ todo' \in PutLate
      PROVE  Starting'
  <2>1. Own'
    BY <1>0, <1>3, <1>5 DEF Own
  <2>2. /\ inq' = <<>> /\ out' = <<>> /\ port'.sync_num = emu'.cmd /\ port'.rx = <<>>
        /\ port'.sync_write_size = IF todo' \in PutSize THEN 0 ELSE None
    BY <1>0, <1>3, <1>5
  <2>3. (\/ todo \in {<<>>, <<"toggle">>}
         \/ Kind \in ReadKinds /\ todo \in ReadAck
         \/ Kind = "control" /\ todo \in ControlAck
         \/ Kind = "nak" /\ todo = <<"N", "acked">>
         \/ Kind = "closed" /\ todo = <<"E">>
         \/ Kind \in PutKinds /\ InStep /\ todo \in PutLate \cup PutSize)'
    BY <1>4, <1>5
  <2>4. QED
    BY <1>4, <2>1, <2>2, <2>3 DEF Starting
<1>6. CASE Dispatch
  <2>1. InStep
    <3>1. PICK k \in Commands : buf = [i \in 1..2 |-> Byte(k, FrameParts[i], TRUE)]
      BY <1>6 DEF Dispatch, FrameOk
    <3>2. buf[1].ok = TRUE
      BY <3>1 DEF Byte
    <3>3. QED
      BY <1>1, <3>2 DEF InStep
  <2>2. \/ pc' = "idle"
        \/ /\ pc' = "run" /\ cur' = emu.cmd
           /\ \E err \in BOOLEAN : todo' = Handler(Kind, err)
    BY <1>1, <1>6 DEF Dispatch, Kind
  <2>3. CASE pc' = "idle"
    <3>1. Closing' /\ OnlyCredit'
      BY <1>0, <1>3, <2>3 DEF Closing, OnlyCredit
    <3>2. QED
      BY <1>3, <1>4, <3>1 DEF Resting
  <2>4. CASE /\ pc' = "run" /\ cur' = emu.cmd
             /\ \E err \in BOOLEAN : todo' = Handler(Kind, err)
    <3>1. PICK err \in BOOLEAN : todo' = Handler(Kind, err)
      BY <2>4
    <3>2. \/ todo' = <<>>
          \/ Kind \in ReadKinds /\ todo' \in ReadAck
          \/ Kind = "control" /\ todo' \in ControlAck
          \/ Kind = "nak" /\ todo' = <<"N", "acked">>
          \/ Kind = "closed" /\ todo' = <<"E">>
          \/ Kind \in PutKinds /\ todo' \in PutLate
      BY <3>1, Handlers
    <3>3. todo' \notin PutSize
      BY <3>2, NotSize
    <3>4. QED
      BY <1>3, <1>5, <2>1, <2>4, <3>2, <3>3
  <2>5. QED
    BY <2>2, <2>3, <2>4
<1>7. CASE RejectFrame
  <2>1. pc' = "run" /\ cur' = emu.cmd /\ todo' \in {<<>>, <<"toggle">>}
    BY <1>1, <1>7 DEF RejectFrame
  <2>2. todo' \notin PutSize
    BY <2>1, NotSize
  <2>3. QED
    BY <1>3, <1>5, <2>1, <2>2
<1>8. QED
  BY <1>2, <1>6, <1>7

LEMMA LateAckEffect ==
  ASSUME Typed, LateAckOp
  PROVE  /\ UNCHANGED <<emu, inq, outq, pc, out, buf, cur, hist>>
         /\ todo' = Tail(todo) /\ port'.sync_write_size = 0 /\ port'.sync_num = port.sync_num
         /\ port'.rx = port.rx /\ port'.command_asserted = port.command_asserted /\ SameSpeed
<1>1. port \in Ports /\ port' = [port EXCEPT !.sync_ack_byte = "A", !.sync_write_size = 0]
  BY DEF Typed, LateAckOp
<1>2. QED
  BY <1>1 DEF LateAckOp, Ports, SameSpeed

LEMMA SetWriteSizeEffect ==
  ASSUME Typed, port.initialized, port.sync_num # None, SetWriteSize
  PROVE  /\ UNCHANGED <<emu, inq, outq, pc, cur, bus, hist>>
         /\ todo' = Tail(todo) /\ out' = <<SyncResponse(port.sync_num, "ACK", "A", 2)>> /\ buf' = <<>>
         /\ port'.sync_num = None /\ port'.sync_write_size = None
         /\ port'.rx = port.rx /\ port'.command_asserted = port.command_asserted /\ SameSpeed
<1>1. port \in Ports /\ Len(DataParts) = 2
  BY DEF Typed, DataParts
<1>2. PICK p : p = [port EXCEPT !.sync_write_size = 2]
  OBVIOUS
<1>3. /\ out' = <<SyncResponse(p.sync_num, "ACK", p.sync_ack_byte, p.sync_write_size)>>
      /\ port' = ClearSync(p)
  BY <1>1, <1>2 DEF SetWriteSize
<1>4. /\ p.sync_num = port.sync_num /\ p.sync_ack_byte = "A" /\ p.sync_write_size = 2 /\ p \in Ports
      /\ p.rx = port.rx /\ p.command_asserted = port.command_asserted /\ p.baud = port.baud
      /\ p.baud_peer = port.baud_peer /\ p.initialized = port.initialized
  <2>1. p \in Ports
    BY <1>1, <1>2 DEF Ports
  <2>2. port.sync_ack_byte = "A"
    BY <1>1 DEF Ports
  <2>3. /\ p.sync_num = port.sync_num /\ p.sync_ack_byte = port.sync_ack_byte /\ p.sync_write_size = 2
        /\ p.rx = port.rx /\ p.command_asserted = port.command_asserted /\ p.baud = port.baud
        /\ p.baud_peer = port.baud_peer /\ p.initialized = port.initialized
    BY <1>1, <1>2 DEF Ports
  <2>4. QED
    BY <2>1, <2>2, <2>3
<1>5. /\ port'.sync_num = None /\ port'.sync_write_size = None
      /\ port'.rx = p.rx /\ port'.command_asserted = p.command_asserted /\ port'.baud = p.baud
      /\ port'.baud_peer = p.baud_peer /\ port'.initialized = p.initialized
  BY <1>3, <1>4 DEF ClearSync, Ports
<1>6. UNCHANGED <<emu, inq, outq, pc, cur, bus, hist>> /\ todo' = Tail(todo) /\ buf' = <<>>
  BY DEF SetWriteSize
<1>7. QED
  BY <1>3, <1>4, <1>5, <1>6 DEF SameSpeed

\* The handler's first operation; the answer follows from it.
LEMMA StartingStep ==
  ASSUME Typed, Orderly, port.initialized, Starting, Device
  PROVE  port'.initialized /\ (Starting' \/ Answering' \/ Resting')
<1>0. /\ pc = "run" /\ cur = emu.cmd /\ ~port.command_asserted
      /\ Mute /\ inq = <<>> /\ out = <<>> /\ port.sync_num = emu.cmd /\ port.rx = <<>>
      /\ port.sync_write_size = IF todo \in PutSize THEN 0 ELSE None
      /\ AtRest
  BY DEF Starting, Own, Orderly
<1>k. emu.cmd \in Commands /\ emu.cmd # None
  BY <1>0, Numbered DEF Mute
<1>w. ASSUME WriteByte, todo \notin PutSize,
             \/ Kind \in ReadKinds /\ Tail(todo) \in ReadAcked /\ Head(todo) = "A"
             \/ Kind = "control" /\ Tail(todo) \in ControlAcked /\ Head(todo) = "A"
             \/ Kind = "nak" /\ Tail(todo) = <<"acked">> /\ Head(todo) = "N"
             \/ Kind = "closed" /\ Tail(todo) = <<>> /\ Head(todo) = "E"
      PROVE  port'.initialized /\ Answering'
  <2>1. /\ UNCHANGED <<emu, inq, outq, pc, cur>> /\ todo' = Tail(todo)
        /\ out' = <<SyncResponse(emu.cmd, "ACK", Head(todo), 0)>>
        /\ port'.sync_num = None /\ port'.command_asserted = port.command_asserted /\ port'.initialized
    BY <1>0, <1>k, <1>w, WriteByteEffect DEF SameSpeed
  <2>2. Mute' /\ Kind' = Kind /\ OnlyCredit'
    BY <1>0, <2>1, SameEmulator DEF OnlyCredit
  <2>3. cur' = emu'.cmd /\ port'.sync_num = None /\ ~port'.command_asserted /\ pc' = "run"
    BY <1>0, <2>1
  <2>4. \/ out' = <<SyncResponse(emu'.cmd, "ACK", "A", 0)>> /\ Kind' \in ReadKinds /\ todo' \in ReadAcked
        \/ out' = <<SyncResponse(emu'.cmd, "ACK", "A", 0)>> /\ Kind' = "control" /\ todo' \in ControlAcked
        \/ out' = <<SyncResponse(emu'.cmd, "ACK", "N", 0)>> /\ Kind' = "nak" /\ todo' = <<"acked">>
        \/ out' = <<SyncResponse(emu'.cmd, "ACK", "E", 0)>> /\ Kind' = "closed" /\ todo' = <<>>
    BY <1>w, <2>1, <2>2
  <2>5. QED
    BY <2>1, <2>2, <2>3, <2>4 DEF Answering
<1>1. CASE todo = <<>>
  <2>1. Return
    BY <1>0, <1>1, Turn
  <2>2. UNCHANGED <<emu, inq, outq, cur>>
    BY <2>1, ReturnEffect
  <2>3. Mute' /\ Free' /\ OnlyCredit'
    BY <1>0, <2>2, SameEmulator, HeldFree DEF OnlyCredit
  <2>4. CASE pc' = "idle" /\ out' = out /\ port' = port
    BY <1>0, <2>3, <2>4 DEF Resting, Closing
  <2>5. CASE /\ pc' = "empty" /\ out' = <<SyncResponse(port.sync_num, "EMPTY", "", 0)>>
             /\ port'.sync_num = None /\ port'.command_asserted = port.command_asserted /\ SameSpeed
    BY <1>0, <2>2, <2>3, <2>5 DEF Answering, SameSpeed
  <2>6. QED
    BY <2>1, <2>4, <2>5, ReturnEffect
<1>2. CASE todo = <<"toggle">>
  <2>1. /\ todo # <<>> /\ Head(todo) = "toggle" /\ Tail(todo) = <<>>
    BY <1>2
  <2>2. Toggle
    BY <1>0, <2>1, Turn
  <2>3. /\ UNCHANGED <<emu, inq, outq, pc, out, cur>> /\ todo' = <<>>
        /\ SameLine(port, port') /\ port'.initialized
    BY <2>1, <2>2, ToggleEffect
  <2>4. Mute' /\ <<>> \notin PutSize /\ <<"toggle">> \notin PutSize
    BY <1>0, <2>3, SameEmulator, NotSize
  <2>5. QED
    BY <1>0, <1>2, <2>3, <2>4 DEF Starting, Own, SameLine
<1>3. CASE Kind \in ReadKinds /\ todo \in ReadAck
  <2>1. todo # <<>> /\ Head(todo) = "A" /\ Tail(todo) \in ReadAcked /\ todo \notin PutSize
    BY <1>3, Plans, NotSize
  <2>2. WriteByte
    BY <1>0, <2>1, Turn
  <2>3. QED
    BY <1>3, <1>w, <2>1, <2>2
<1>4. CASE Kind = "control" /\ todo \in ControlAck
  <2>1. todo # <<>> /\ Head(todo) = "A" /\ Tail(todo) \in ControlAcked /\ todo \notin PutSize
    BY <1>4, Plans, NotSize
  <2>2. WriteByte
    BY <1>0, <2>1, Turn
  <2>3. QED
    BY <1>4, <1>w, <2>1, <2>2
<1>5. CASE Kind = "nak" /\ todo = <<"N", "acked">>
  <2>1. todo # <<>> /\ Head(todo) = "N" /\ Tail(todo) = <<"acked">>
    BY <1>5
  <2>2. WriteByte /\ todo \notin PutSize
    BY <1>0, <1>5, <2>1, Turn, NotSize
  <2>3. QED
    BY <1>5, <1>w, <2>1, <2>2
<1>6. CASE Kind = "closed" /\ todo = <<"E">>
  <2>1. todo # <<>> /\ Head(todo) = "E" /\ Tail(todo) = <<>>
    BY <1>6
  <2>2. WriteByte /\ todo \notin PutSize
    BY <1>0, <1>6, <2>1, Turn, NotSize
  <2>3. QED
    BY <1>6, <1>w, <2>1, <2>2
<1>7. CASE Kind \in PutKinds /\ InStep /\ todo \in PutLate
  <2>1. todo # <<>> /\ Head(todo) = "late" /\ Tail(todo) \in PutSize
    BY <1>7, PutPlans
  <2>2. LateAckOp
    BY <1>0, <2>1, Turn
  <2>3. /\ UNCHANGED <<emu, inq, outq, pc, out, cur>> /\ todo' \in PutSize
        /\ port'.sync_write_size = 0 /\ port'.sync_num = port.sync_num
        /\ port'.rx = port.rx /\ port'.command_asserted = port.command_asserted /\ SameSpeed
    BY <2>1, <2>2, LateAckEffect
  <2>4. Mute' /\ Kind' = Kind /\ InStep'
    BY <1>0, <1>7, <2>3, SameEmulator DEF InStep, SameSpeed
  <2>5. QED
    BY <1>0, <1>7, <2>3, <2>4 DEF Starting, Own, SameSpeed
<1>8. CASE Kind \in PutKinds /\ InStep /\ todo \in PutSize
  <2>1. todo # <<>> /\ Head(todo) = "size" /\ Tail(todo) \in PutData
    BY <1>8, PutPlans
  <2>2. SetWriteSize
    BY <1>0, <2>1, Turn
  <2>3. /\ UNCHANGED <<emu, inq, outq, pc, cur>>
        /\ todo' = Tail(todo) /\ out' = <<SyncResponse(emu.cmd, "ACK", "A", 2)>> /\ buf' = <<>>
        /\ port'.sync_num = None /\ port'.sync_write_size = None
        /\ port'.rx = port.rx /\ port'.command_asserted = port.command_asserted /\ SameSpeed
    BY <1>0, <1>k, <2>2, SetWriteSizeEffect
  <2>4. Mute' /\ Kind' = Kind /\ InStep' /\ OnlyCredit'
    BY <1>0, <1>8, <2>3, SameEmulator DEF InStep, SameSpeed, OnlyCredit
  <2>5. QED
    BY <1>0, <1>8, <2>1, <2>3, <2>4 DEF Answering, SameSpeed
<1>9. QED
  BY <1>1, <1>2, <1>3, <1>4, <1>5, <1>6, <1>7, <1>8 DEF Starting

LEMMA AnsweringStep ==
  ASSUME Typed, Orderly, port.initialized, Answering, Device
  PROVE  port'.initialized /\ (Answering' \/ Reading' \/ Controlling' \/ Requesting' \/ Resting')
<1>0. /\ Mute /\ OnlyCredit /\ cur = emu.cmd /\ port.sync_num = None /\ ~port.command_asserted
      /\ AtRest /\ Credited
  BY DEF Answering, Orderly
<1>1. Send \/ wait_for_credit
  <2>1. out # <<>>
    <3>1. \A m : <<m>> # <<>>
      OBVIOUS
    <3>2. \E m : out = <<m>>
      BY DEF Answering
    <3>3. QED
      BY <3>1, <3>2
  <2>2. QED
    BY <1>0, <2>1, Turn
<1>2. CASE wait_for_credit
  <2>1. /\ UNCHANGED <<emu, outq, pc, todo, out, buf, cur>> /\ OnlyCredit'
        /\ SameLine(port, port') /\ SameSpeed
    BY <1>0, <1>2, WaitEffect
  <2>2. Mute' /\ Kind' = Kind /\ (InStep => InStep')
    BY <1>0, <2>1, SameEmulator DEF InStep, SameSpeed
  <2>3. port'.initialized /\ port'.sync_num = port.sync_num /\ port'.command_asserted = port.command_asserted
        /\ port'.sync_write_size = port.sync_write_size /\ port'.rx = port.rx
    BY <2>1 DEF SameLine, SameSpeed
  <2>4. Answering'
    BY <1>0, <2>1, <2>2, <2>3 DEF Answering
  <2>5. QED
    BY <2>3, <2>4
<1>3. CASE Send
  <2>0. ASSUME NEW m, out = <<m>>
        PROVE  /\ UNCHANGED <<emu, inq, pc, todo, buf, cur>> /\ outq' = Append(outq, m) /\ out' = <<>>
               /\ m \in OutMsgs /\ port'.initialized /\ port'.sync_num = None /\ ~port'.command_asserted
               /\ port'.sync_write_size = port.sync_write_size /\ port'.rx = port.rx
               /\ OnlyCredit' /\ inq' = <<>> /\ Kind' = Kind /\ (InStep => InStep')
    <3>1. /\ UNCHANGED <<emu, inq, pc, todo, buf, cur>> /\ outq' = Append(outq, m) /\ out' = <<>>
          /\ m \in OutMsgs /\ port.credit > 0 /\ SameLine(port, port') /\ SameSpeed
      BY <1>3, <2>0, SendEffect
    <3>2. port.credit # 0 /\ inq = <<>>
      BY <1>0, <3>1, NoCredit
    <3>3. QED
      BY <1>0, <3>1, <3>2 DEF SameLine, SameSpeed, OnlyCredit, Kind, InStep
  <2>1. CASE /\ pc = "run" /\ out = <<SyncResponse(emu.cmd, "ACK", "A", 0)>>
             /\ \/ Kind \in ReadKinds /\ todo \in ReadAcked
                \/ Kind = "control" /\ todo \in ControlAcked
    <3>1. Held'
      BY <1>0, <2>0, <2>1, Saying
    <3>2. QED
      BY <1>0, <2>0, <2>1, <3>1 DEF Reading, Controlling, Own
  <2>2. ASSUME NEW m, out = <<m>>, m.size = 0,
               \/ pc = "run" /\ todo \in Tails
               \/ pc = "empty"
        PROVE  port'.initialized /\ Resting'
    <3>1. Free'
      BY <1>0, <2>0, <2>2, Saying, HeldFree
    <3>2. Closing'
      BY <2>0, <2>2 DEF Closing
    <3>3. QED
      BY <2>0, <2>2, <3>1, <3>2 DEF Resting
  <2>3. CASE pc = "run" /\ out = <<SyncResponse(emu.cmd, "ACK", "N", 0)>> /\ todo = <<"acked">>
    <3>1. SyncResponse(emu.cmd, "ACK", "N", 0).size = 0 /\ todo \in Tails
      BY <2>3 DEF SyncResponse, Tails
    <3>2. QED
      BY <2>2, <2>3, <3>1
  <2>4. CASE pc = "run" /\ out = <<SyncResponse(emu.cmd, "ACK", "E", 0)>> /\ todo = <<>>
    <3>1. SyncResponse(emu.cmd, "ACK", "E", 0).size = 0 /\ todo \in Tails
      BY <2>4 DEF SyncResponse, Tails
    <3>2. QED
      BY <2>2, <2>4, <3>1
  <2>5. CASE pc = "empty" /\ out = <<SyncResponse(emu.cmd, "EMPTY", "", 0)>>
    <3>1. SyncResponse(emu.cmd, "EMPTY", "", 0).size = 0
      BY DEF SyncResponse
    <3>2. QED
      BY <2>2, <2>5, <3>1
  <2>6. CASE /\ pc = "run" /\ out = <<SyncResponse(emu.cmd, "ACK", "A", 2)>>
             /\ Kind \in PutKinds /\ todo \in PutData
             /\ InStep /\ buf = <<>> /\ port.rx = <<>> /\ port.sync_write_size = None
    <3>1. Asked'
      BY <1>0, <2>0, <2>6, Saying
    <3>2. QED
      BY <1>0, <2>0, <2>6, <3>1 DEF Requesting, Receiving, Own
  <2>7. QED
    BY <2>1, <2>3, <2>4, <2>5, <2>6 DEF Answering
<1>4. QED
  BY <1>1, <1>2, <1>3


LEMMA SpeakingStep ==
  ASSUME Typed, Orderly, port.initialized, Own, OnlyCredit, port.sync_num = None, Device,
         NEW m, out = <<m>>
  PROVE  /\ Own' /\ OnlyCredit' /\ port'.sync_num = None /\ port'.initialized /\ Kind' = Kind
         /\ todo' = todo /\ buf' = buf /\ emu' = emu /\ m \in OutMsgs /\ ~port'.command_asserted
         /\ \/ outq' = outq /\ out' = out
            \/ outq' = Append(outq, m) /\ out' = <<>>
<1>0. pc = "run" /\ cur = emu.cmd /\ ~port.command_asserted /\ AtRest /\ out # <<>> /\ m \in OutMsgs
  BY DEF Own, Orderly, Typed
<1>1. CASE Send
  <2>1. /\ UNCHANGED <<emu, inq, pc, todo, buf, cur>> /\ outq' = Append(outq, m) /\ out' = <<>>
        /\ SameLine(port, port') /\ SameSpeed
    BY <1>1, SendEffect
  <2>2. QED
    BY <1>0, <2>1 DEF Own, OnlyCredit, SameLine, SameSpeed, Kind
<1>2. CASE wait_for_credit
  <2>1. /\ UNCHANGED <<emu, outq, pc, todo, out, buf, cur>> /\ OnlyCredit'
        /\ SameLine(port, port') /\ SameSpeed
    BY <1>2, WaitEffect
  <2>2. QED
    BY <1>0, <2>1 DEF Own, SameLine, SameSpeed, Kind
<1>3. QED
  BY <1>0, <1>1, <1>2, Turn

LEMMA WorkingStep ==
  ASSUME Typed, Orderly, port.initialized, Own, OnlyCredit, port.sync_num = None, out = <<>>,
         WriteByte \/ WriteBlock \/ Flush
  PROVE  /\ Own' /\ OnlyCredit' /\ port'.sync_num = None /\ port'.initialized /\ Kind' = Kind
         /\ todo' = Tail(todo) /\ buf' = buf /\ emu' = emu /\ outq' = outq /\ ~port'.command_asserted
         /\ WriteByte => out' = <<DataByte(Head(todo))>>
         /\ WriteBlock => out' = <<DataByte("block")>>
         /\ Flush => out' = <<>>
<1>1. ASSUME WriteByte
      PROVE  /\ UNCHANGED <<emu, inq, outq, pc, buf, cur>> /\ todo' = Tail(todo)
             /\ out' = <<DataByte(Head(todo))>>
             /\ port'.sync_num = None /\ port'.command_asserted = port.command_asserted /\ port'.initialized
  BY <1>1, WriteByteEffect DEF SameSpeed
<1>2. ASSUME WriteBlock
      PROVE  /\ UNCHANGED <<emu, inq, outq, port, pc, buf, cur>> /\ todo' = Tail(todo)
             /\ out' = <<DataByte("block")>>
  BY <1>2, WriteBlockEffect
<1>3. ASSUME Flush
      PROVE  /\ UNCHANGED <<emu, inq, outq, pc, out, buf, cur>> /\ todo' = Tail(todo)
             /\ port'.sync_num = port.sync_num
             /\ port'.command_asserted = port.command_asserted /\ port'.initialized
  BY <1>3, FlushEffect DEF SameSpeed
<1>4. /\ UNCHANGED <<emu, inq, outq, pc, buf, cur>> /\ todo' = Tail(todo)
      /\ port'.sync_num = None /\ port'.command_asserted = port.command_asserted /\ port'.initialized
  BY <1>1, <1>2, <1>3
<1>5. Own' /\ OnlyCredit' /\ Kind' = Kind /\ ~port'.command_asserted
  BY <1>4 DEF Own, OnlyCredit, Kind
<1>6. QED
  BY <1>1, <1>2, <1>3, <1>4, <1>5

\* A byte is said: either it waits for credit, or the emulator will hear it.
LEMMA SpokenStep ==
  ASSUME Typed, Orderly, port.initialized, Own, Held, OnlyCredit, port.sync_num = None, Device,
         NEW c, out = <<DataByte(c)>>
  PROVE  /\ Own' /\ OnlyCredit' /\ port'.sync_num = None /\ port'.initialized /\ Kind' = Kind
         /\ todo' = todo /\ buf' = buf /\ emu' = emu
         /\ \/ out' = out /\ Held'
            \/ out' = <<>> /\ (~Ends(c) => Held') /\ (todo \in Tails => Resting')
<1>1. DataByte(c).type = "DATA" /\ DataByte(c).byte = c
  BY DEF DataByte
<1>2. PICK m : m = DataByte(c)
  OBVIOUS
<1>3. /\ Own' /\ OnlyCredit' /\ port'.sync_num = None /\ port'.initialized /\ Kind' = Kind
      /\ todo' = todo /\ buf' = buf /\ emu' = emu /\ m \in OutMsgs /\ ~port'.command_asserted
      /\ \/ outq' = outq /\ out' = out
         \/ outq' = Append(outq, m) /\ out' = <<>>
  BY <1>2, SpeakingStep
<1>4. CASE outq' = outq /\ out' = out
  BY <1>3, <1>4, SameEmulator
<1>5. CASE outq' = Append(outq, m) /\ out' = <<>>
  <2>1. Free' /\ (~Ends(c) => Held')
    BY <1>1, <1>2, <1>3, <1>5, Saying, HeldFree
  <2>2. todo \in Tails => Resting'
    BY <1>3, <1>5, <2>1 DEF Resting, Closing, Own
  <2>3. QED
    BY <1>3, <1>5, <2>1, <2>2
<1>6. QED
  BY <1>3, <1>4, <1>5

LEMMA ReadingStep ==
  ASSUME Typed, Orderly, port.initialized, Reading, Device
  PROVE  port'.initialized /\ (Reading' \/ Resting')
<1>0. Own /\ Held /\ OnlyCredit /\ port.sync_num = None /\ Kind \in ReadKinds /\ AtRest /\ pc = "run"
  BY DEF Reading, Orderly, Own
<1>w. ASSUME out = <<>>, WriteByte \/ WriteBlock \/ Flush
      PROVE  /\ port'.initialized /\ Own' /\ Held' /\ OnlyCredit' /\ port'.sync_num = None /\ Kind' \in ReadKinds
             /\ todo' = Tail(todo)
             /\ WriteByte => out' = <<DataByte(Head(todo))>>
             /\ WriteBlock => out' = <<DataByte("block")>>
             /\ Flush => out' = <<>>
  BY <1>0, <1>w, WorkingStep, SameEmulator
<1>1. CASE out = <<>> /\ todo \in ReadAcked
  <2>1. todo # <<>> /\ Head(todo) = "acked" /\ Tail(todo) \in ReadOutcome
    BY <1>1, Plans
  <2>2. Flush
    BY <1>0, <1>1, <2>1, Turn
  <2>3. QED
    BY <1>1, <1>w, <2>1, <2>2 DEF Reading
<1>2. CASE out = <<>> /\ todo \in ReadOutcome
  <2>1. todo # <<>> /\ Head(todo) \in {"C", "E"} /\ Tail(todo) \in ReadBlock
    BY <1>2, Plans
  <2>2. WriteByte
    BY <1>0, <1>2, <2>1, Turn
  <2>3. QED
    BY <1>2, <1>w, <2>1, <2>2 DEF Reading
<1>3. CASE out = <<>> /\ todo \in ReadBlock
  <2>1. todo # <<>> /\ Head(todo) = "block" /\ Tail(todo) \in ReadCksum
    BY <1>3, Plans
  <2>2. WriteBlock
    BY <1>0, <1>3, <2>1, Turn
  <2>3. QED
    BY <1>3, <1>w, <2>1, <2>2 DEF Reading
<1>4. CASE out = <<>> /\ todo \in ReadCksum
  <2>1. todo # <<>> /\ Head(todo) = "K" /\ Tail(todo) \in ReadFlush
    BY <1>4, Plans
  <2>2. WriteByte
    BY <1>0, <1>4, <2>1, Turn
  <2>3. QED
    BY <1>4, <1>w, <2>1, <2>2 DEF Reading
<1>5. CASE (\E c \in {"C", "E"} : out = <<DataByte(c)>>) /\ todo \in ReadBlock
  <2>1. PICK c \in {"C", "E"} : out = <<DataByte(c)>>
    BY <1>5
  <2>2. ~Ends(c)
    BY <1>0 DEF Ends, Kind
  <2>3. /\ Own' /\ OnlyCredit' /\ port'.sync_num = None /\ port'.initialized /\ Kind' = Kind
        /\ todo' = todo /\ Held' /\ (out' = out \/ out' = <<>>)
    BY <1>0, <2>1, <2>2, SpokenStep
  <2>4. QED
    BY <1>0, <1>5, <2>1, <2>3 DEF Reading
<1>6. CASE out = <<DataByte("block")>> /\ todo \in ReadCksum
  <2>2. ~Ends("block")
    BY <1>0 DEF Ends, Kind
  <2>3. /\ Own' /\ OnlyCredit' /\ port'.sync_num = None /\ port'.initialized /\ Kind' = Kind
        /\ todo' = todo /\ Held' /\ (out' = out \/ out' = <<>>)
    BY <1>0, <1>6, <2>2, SpokenStep
  <2>4. QED
    BY <1>0, <1>6, <2>3 DEF Reading
<1>7. CASE out = <<DataByte("K")>> /\ todo \in ReadFlush
  <2>1. todo \in Tails
    BY <1>7 DEF Tails
  <2>3. /\ Own' /\ OnlyCredit' /\ port'.sync_num = None /\ port'.initialized /\ Kind' = Kind
        /\ todo' = todo /\ ((out' = out /\ Held') \/ Resting')
    BY <1>0, <1>7, <2>1, SpokenStep
  <2>4. QED
    BY <1>0, <1>7, <2>3 DEF Reading
<1>8. QED
  BY <1>1, <1>2, <1>3, <1>4, <1>5, <1>6, <1>7 DEF Reading

LEMMA ControllingStep ==
  ASSUME Typed, Orderly, port.initialized, Controlling, Device
  PROVE  port'.initialized /\ (Controlling' \/ Resting')
<1>0. Own /\ Held /\ OnlyCredit /\ port.sync_num = None /\ Kind = "control" /\ AtRest /\ pc = "run"
  BY DEF Controlling, Orderly, Own
<1>w. ASSUME out = <<>>, WriteByte \/ WriteBlock \/ Flush
      PROVE  /\ port'.initialized /\ Own' /\ Held' /\ OnlyCredit' /\ port'.sync_num = None /\ Kind' = "control"
             /\ todo' = Tail(todo)
             /\ WriteByte => out' = <<DataByte(Head(todo))>>
             /\ Flush => out' = <<>>
  BY <1>0, <1>w, WorkingStep, SameEmulator
<1>1. CASE out = <<>> /\ todo \in ControlAcked
  <2>1. todo # <<>> /\ Head(todo) = "acked" /\ Tail(todo) \in ControlOutcome
    BY <1>1, Plans
  <2>2. Flush
    BY <1>0, <1>1, <2>1, Turn
  <2>3. QED
    BY <1>1, <1>w, <2>1, <2>2 DEF Controlling
<1>2. CASE out = <<>> /\ todo \in ControlOutcome
  <2>1. todo # <<>> /\ Head(todo) \in {"C", "E"} /\ Tail(todo) = <<>>
    BY <1>2, Plans
  <2>2. WriteByte
    BY <1>0, <1>2, <2>1, Turn
  <2>3. QED
    BY <1>2, <1>w, <2>1, <2>2 DEF Controlling
<1>3. CASE (\E c \in {"C", "E"} : out = <<DataByte(c)>>) /\ todo = <<>>
  <2>1. PICK c \in {"C", "E"} : out = <<DataByte(c)>>
    BY <1>3
  <2>2. todo \in Tails
    BY <1>3 DEF Tails
  <2>3. /\ Own' /\ OnlyCredit' /\ port'.sync_num = None /\ port'.initialized /\ Kind' = Kind
        /\ todo' = todo /\ ((out' = out /\ Held') \/ Resting')
    BY <1>0, <2>1, <2>2, SpokenStep
  <2>4. QED
    BY <1>0, <1>3, <2>1, <2>3 DEF Controlling
<1>4. QED
  BY <1>1, <1>2, <1>3 DEF Controlling

\* The device cannot time out while the emulator is being asked for the data.
LEMMA RequestingStep ==
  ASSUME Typed, Orderly, port.initialized, Requesting
  PROVE  ~Device
<1> SUFFICES ASSUME Device PROVE FALSE
  OBVIOUS
<1>0. /\ Asked /\ inq = <<>> /\ todo \in PutData /\ port.rx = <<>> /\ pc = "run" /\ out = <<>> /\ AtRest
      /\ outq \in Seq(OutMsgs)
  BY DEF Requesting, Receiving, Own, Orderly, Recorded
<1>1. todo # <<>> /\ Head(todo) = "data"
  BY <1>0, PutPlans
<1>2. ReadData \/ DataTimeout
  BY <1>0, <1>1, Turn
<1>3. CASE ReadData
  BY <1>0, <1>3 DEF ReadData, ReadByte, Receive
<1>4. CASE DataTimeout
  <2>1. outq = <<>> /\ emu.st # "senddata"
    BY <1>4 DEF DataTimeout, ReadFails, Quiet
  <2>2. \E j \in 1..Len(outq) : TRUE
    BY <1>0, <2>1 DEF Asked
  <2>3. QED
    BY <2>1, <2>2
<1>5. QED
  BY <1>2, <1>3, <1>4

\* A byte of the data is taken from the buffer.
LEMMA TakingStep ==
  ASSUME Typed, Orderly, port.initialized, Receiving, Device, todo \in PutData \cup PutCksum, port.rx # <<>>
  PROVE  /\ UNCHANGED <<emu, inq, outq>> /\ Receiving' /\ port'.initialized
         /\ buf' = Append(buf, Head(port.rx)) /\ port'.rx = Tail(port.rx) /\ port'.sync_num = port.sync_num
         /\ todo \in PutData => todo' = IF Len(buf') = 1 THEN Tail(todo) ELSE todo
         /\ (todo \in PutCksum /\ buf' # buf) => todo' = (IF DataOk(buf') THEN sio_ack ELSE sio_nak) \o Tail(todo)
<1>0. /\ pc = "run" /\ cur = emu.cmd /\ ~port.command_asserted /\ Kind \in PutKinds /\ InStep /\ out = <<>>
      /\ port.sync_write_size = None /\ AtRest /\ port \in Ports
  BY DEF Receiving, Own, Orderly, Typed
<1>1. /\ todo # <<>> /\ (todo \in PutData => Head(todo) = "data") /\ (todo \in PutCksum => Head(todo) = "cksum")
  BY PutPlans
<1>2. (todo \in PutData => ReadData) /\ (todo \in PutCksum => ReadChecksum)
  BY <1>0, <1>1, Turn DEF DataTimeout, ReadFails
<1>3. /\ UNCHANGED <<emu, outq, pc, out, cur>> /\ ReadByte
      /\ todo \in PutData => todo' = IF Len(buf') = 1 THEN Tail(todo) ELSE todo
      /\ (todo \in PutCksum /\ buf' # buf) => todo' = (IF DataOk(buf') THEN sio_ack ELSE sio_nak) \o Tail(todo)
  <2>1. CASE todo \in PutData
    <3>1. ReadData /\ Head(todo) = "data"
      BY <1>1, <1>2, <2>1
    <3>2. todo \notin PutCksum
      BY <1>1, <3>1
    <3>3. QED
      BY <3>1, <3>2 DEF ReadData
  <2>2. CASE todo \in PutCksum
    <3>1. ReadChecksum /\ Head(todo) = "cksum"
      BY <1>1, <1>2, <2>2
    <3>2. todo \notin PutData
      BY <1>1, <3>1
    <3>3. QED
      BY <3>1, <3>2 DEF ReadChecksum
  <2>3. QED
    BY <2>1, <2>2
<1>4. buf' = Append(buf, Head(port.rx)) /\ inq' = inq /\ port' = [port EXCEPT !.rx = Tail(@)]
  BY <1>3 DEF ReadByte
<1>5. /\ port'.rx = Tail(port.rx) /\ port'.sync_num = port.sync_num /\ port'.initialized = port.initialized
      /\ port'.command_asserted = port.command_asserted /\ port'.sync_write_size = port.sync_write_size
      /\ port'.baud = port.baud /\ port'.baud_peer = port.baud_peer
  BY <1>0, <1>4 DEF Ports
<1>6. Receiving'
  BY <1>0, <1>3, <1>5 DEF Receiving, Own, Kind, InStep
<1>7. QED
  BY <1>3, <1>4, <1>5, <1>6

\* A datagram with data is received.
LEMMA GettingStep ==
  ASSUME Typed, Orderly, port.initialized, Receiving, Device, emu.st # "run",
         \/ todo \in PutData /\ buf = <<>>
         \/ todo \in PutCksum,
         port.rx = <<>>, inq # <<>>,
         inq[1] \in {Data(emu.cmd, <<"data">>), Data(emu.cmd, DataParts), DataSync(emu.cmd, "cksum")}
  PROVE  /\ UNCHANGED <<emu, outq, buf, todo>> /\ inq' = Tail(inq) /\ Receiving' /\ port'.initialized
         /\ inq[1] = Data(emu.cmd, <<"data">>) =>
              port'.sync_num = port.sync_num /\ port'.rx = <<Byte(emu.cmd, "data", TRUE)>>
         /\ inq[1] = Data(emu.cmd, DataParts) => port'.sync_num = port.sync_num /\ port'.rx = DataBytes
         /\ inq[1] = DataSync(emu.cmd, "cksum") =>
              port'.sync_num = DataSyncOf(emu.cmd) /\ port'.rx = <<Byte(emu.cmd, "cksum", TRUE)>>
<1>0. /\ pc = "run" /\ cur = emu.cmd /\ ~port.command_asserted /\ Kind \in PutKinds /\ InStep /\ out = <<>>
      /\ port.sync_write_size = None /\ AtRest /\ port \in Ports
  BY DEF Receiving, Own, Orderly, Typed
<1>k. emu.cmd \in Commands /\ DataParts \in Seq(PartNames) /\ <<"data">> \in Seq(PartNames)
  BY Numbered
<1>1. /\ todo # <<>> /\ (todo \in PutData => Head(todo) = "data") /\ (todo \in PutCksum => Head(todo) = "cksum")
  BY PutPlans
<1>2. (todo \in PutData => ReadData) /\ (todo \in PutCksum => ReadChecksum)
  BY <1>0, <1>1, Turn DEF DataTimeout, ReadFails, Quiet
<1>3. UNCHANGED <<emu, outq, pc, out, cur, buf, todo>> /\ Receive
  <2>1. CASE todo \in PutData /\ buf = <<>>
    <3>1. ReadData
      BY <1>2, <2>1
    <3>2. Receive /\ UNCHANGED <<emu, outq, pc, out, cur, buf>> /\ todo' = IF Len(buf) = 1 THEN Tail(todo) ELSE todo
      BY <3>1 DEF ReadData, ReadByte
    <3>3. QED
      BY <2>1, <3>2
  <2>2. CASE todo \in PutCksum
    <3>1. ReadChecksum
      BY <1>2, <2>2
    <3>2. QED
      BY <3>1 DEF ReadChecksum, ReadByte
  <2>3. QED
    BY <2>1, <2>2
<1>4. PortAfter(port, inq[1], port') /\ inq' = Tail(inq)
  BY <1>3, Arrival
<1>5. inq[1].type \in {"DATA", "DATA_SYNC"}
  BY DEF Data, DataSync
<1>6. /\ port'.initialized = port.initialized /\ port'.baud = port.baud /\ port'.baud_peer = port.baud_peer
  BY <1>4, <1>5 DEF PortAfter
<1>7. /\ port'.command_asserted = port.command_asserted /\ port'.sync_write_size = port.sync_write_size
      /\ inq[1] = Data(emu.cmd, <<"data">>) =>
           port'.sync_num = port.sync_num /\ port'.rx = <<>> \o Bytes(emu.cmd, <<"data">>, TRUE)
      /\ inq[1] = Data(emu.cmd, DataParts) =>
           port'.sync_num = port.sync_num /\ port'.rx = <<>> \o Bytes(emu.cmd, DataParts, TRUE)
      /\ inq[1] = DataSync(emu.cmd, "cksum") =>
           port'.sync_num = DataSyncOf(emu.cmd) /\ port'.rx = <<>> \o Bytes(emu.cmd, <<"cksum">>, TRUE)
  <2>1. (port.baud = port.baud_peer) = TRUE
    BY <1>0 DEF InStep
  <2>2. CASE inq[1] = Data(emu.cmd, <<"data">>)
    <3>1. inq[1].type = "DATA" /\ inq[1].parts = <<"data">>
      BY <2>2 DEF Data
    <3>2. inq[1] # Data(emu.cmd, DataParts) /\ inq[1] # DataSync(emu.cmd, "cksum")
      BY <3>1 DEF Data, DataSync, DataParts
    <3>3. QED
      BY <1>k, <1>4, <2>1, <2>2, <3>2 DEF PortAfter
  <2>3. CASE inq[1] = Data(emu.cmd, DataParts)
    <3>1. inq[1].type = "DATA" /\ inq[1].parts = DataParts
      BY <2>3 DEF Data
    <3>2. inq[1] # Data(emu.cmd, <<"data">>) /\ inq[1] # DataSync(emu.cmd, "cksum")
      BY <3>1 DEF Data, DataSync, DataParts
    <3>3. QED
      BY <1>k, <1>4, <2>1, <2>3, <3>2 DEF PortAfter
  <2>4. CASE inq[1] = DataSync(emu.cmd, "cksum")
    <3>1. inq[1].type = "DATA_SYNC"
      BY <2>4 DEF DataSync
    <3>2. inq[1] # Data(emu.cmd, <<"data">>) /\ inq[1] # Data(emu.cmd, DataParts)
      BY <3>1 DEF Data
    <3>3. QED
      BY <1>k, <1>4, <2>1, <2>4, <3>2 DEF PortAfter
  <2>5. QED
    BY <2>2, <2>3, <2>4
<1>8. Receiving'
  BY <1>0, <1>3, <1>6, <1>7 DEF Receiving, Own, Kind, InStep
<1>9. QED
  BY <1>k, <1>3, <1>4, <1>6, <1>7, <1>8, Buffered DEF DataBytes

\* The whole data frame is there: it is acknowledged.
LEMMA DataTaken ==
  ASSUME Typed, Orderly, port.initialized, Receiving, Held, Device, todo \in PutCksum, inq = <<>>,
         buf = <<DataBytes[1]>>, port.rx = <<DataBytes[2]>>, port.sync_num \in {DataSyncOf(emu.cmd), None}
  PROVE  port'.initialized /\ DataHere'
<1>1. emu.cmd \in Commands
  BY Numbered DEF Held
<1>2. PICK d1 \in RxBytes : d1 = Byte(emu.cmd, "data", TRUE)
  BY <1>1 DEF Byte, RxBytes, PartNames
<1>3. PICK d2 \in RxBytes : d2 = Byte(emu.cmd, "cksum", TRUE)
  BY <1>1 DEF Byte, RxBytes, PartNames
<1>4. DataBytes = <<d1, d2>> /\ buf = <<d1>> /\ port.rx = <<d2>>
  BY <1>2, <1>3 DEF DataBytes
<1>5. port.rx # <<>> /\ Head(port.rx) = d2 /\ Append(<<d1>>, d2) = <<d1, d2>> /\ <<d1, d2>> # <<d1>>
  <2>1. Append(<<d1>>, d2) = <<d1, d2>>
    BY Paired
  <2>2. Len(<<d1, d2>>) # Len(<<d1>>)
    OBVIOUS
  <2>3. QED
    BY <1>4, <2>1, <2>2
<1>6. /\ UNCHANGED <<emu, inq, outq>> /\ Receiving' /\ port'.initialized
      /\ buf' = Append(buf, Head(port.rx)) /\ port'.sync_num = port.sync_num
      /\ buf' # buf => todo' = (IF DataOk(buf') THEN sio_ack ELSE sio_nak) \o Tail(todo)
  BY <1>5, TakingStep
<1>7. buf' = <<d1, d2>> /\ todo' = (IF DataOk(buf') THEN sio_ack ELSE sio_nak) \o Tail(todo)
  BY <1>4, <1>5, <1>6
<1>8. DataOk(buf')
  BY <1>2, <1>3, <1>7 DEF DataOk, Byte
<1>9. todo' \in PutAck
  BY <1>7, <1>8, PutPlans, PutGrows
<1>10. Held'
  BY <1>6, SameEmulator
<1>11. buf' = DataBytes' /\ DataSyncOf(emu.cmd)' = DataSyncOf(emu.cmd)
  BY <1>4, <1>6, <1>7 DEF DataBytes, DataSyncOf
<1>12. QED
  BY <1>6, <1>9, <1>10, <1>11 DEF DataHere

LEMMA WithSyncStep ==
  ASSUME Typed, Orderly, port.initialized, WithSync, Device
  PROVE  port'.initialized /\ (WithSync' \/ DataHere')
<1>0. Receiving /\ Held /\ emu.st = "halt2"
  BY DEF WithSync
<1>1. PICK d1 : d1 = DataBytes[1]
  OBVIOUS
<1>2. PICK d2 : d2 = DataBytes[2]
  OBVIOUS
<1>3. d1 = Byte(emu.cmd, "data", TRUE) /\ d2 = Byte(emu.cmd, "cksum", TRUE) /\ emu.st # "run"
  BY <1>0, <1>1, <1>2 DEF DataBytes
<1>4. ASSUME emu' = emu, outq' = outq
      PROVE  /\ Held' /\ emu'.st = "halt2" /\ DataBytes'[1] = d1 /\ DataBytes'[2] = d2
             /\ DataSync(emu'.cmd, "cksum") = DataSync(emu.cmd, "cksum")
             /\ DataSyncOf(emu'.cmd) = DataSyncOf(emu.cmd)
  BY <1>0, <1>1, <1>2, <1>4, SameEmulator DEF DataBytes
<1>5. CASE /\ todo \in PutData /\ buf = <<>> /\ port.sync_num = None
           /\ inq = <<Data(emu.cmd, <<"data">>), DataSync(emu.cmd, "cksum")>> /\ port.rx = <<>>
  <2>1. inq # <<>> /\ inq[1] = Data(emu.cmd, <<"data">>) /\ Tail(inq) = <<DataSync(emu.cmd, "cksum")>>
    BY <1>5
  <2>2. /\ UNCHANGED <<emu, outq, buf, todo>> /\ inq' = Tail(inq) /\ Receiving' /\ port'.initialized
        /\ port'.sync_num = None /\ port'.rx = <<d1>>
    BY <1>0, <1>3, <1>5, <2>1, GettingStep
  <2>3. QED
    BY <1>4, <1>5, <2>1, <2>2 DEF WithSync
<1>6. CASE /\ todo \in PutData /\ buf = <<>> /\ port.sync_num = None
           /\ inq = <<DataSync(emu.cmd, "cksum")>> /\ port.rx = <<d1>>
  <2>1. /\ port.rx # <<>> /\ Head(port.rx) = d1 /\ Tail(port.rx) = <<>> /\ Append(<<>>, d1) = <<d1>>
        /\ Len(<<d1>>) = 1 /\ Tail(todo) \in PutCksum
    BY <1>6, PutPlans
  <2>2. /\ UNCHANGED <<emu, inq, outq>> /\ Receiving' /\ port'.initialized
        /\ buf' = Append(buf, Head(port.rx)) /\ port'.rx = Tail(port.rx) /\ port'.sync_num = port.sync_num
        /\ todo' = IF Len(buf') = 1 THEN Tail(todo) ELSE todo
    BY <1>0, <1>6, <2>1, TakingStep
  <2>3. buf' = <<d1>> /\ todo' \in PutCksum /\ port'.rx = <<>>
    BY <1>6, <2>1, <2>2
  <2>4. QED
    BY <1>4, <1>6, <2>2, <2>3 DEF WithSync
<1>7. CASE /\ todo \in PutCksum /\ buf = <<d1>>
           /\ inq = <<DataSync(emu.cmd, "cksum")>> /\ port.rx = <<>> /\ port.sync_num = None
  <2>1. inq # <<>> /\ inq[1] = DataSync(emu.cmd, "cksum") /\ Tail(inq) = <<>>
    BY <1>7
  <2>2. /\ UNCHANGED <<emu, outq, buf, todo>> /\ inq' = Tail(inq) /\ Receiving' /\ port'.initialized
        /\ port'.sync_num = DataSyncOf(emu.cmd) /\ port'.rx = <<d2>>
    BY <1>0, <1>3, <1>7, <2>1, GettingStep
  <2>3. QED
    BY <1>4, <1>7, <2>1, <2>2 DEF WithSync
<1>8. CASE /\ todo \in PutCksum /\ buf = <<d1>>
           /\ inq = <<>> /\ port.rx = <<d2>> /\ port.sync_num = DataSyncOf(emu.cmd)
  BY <1>0, <1>1, <1>2, <1>8, DataTaken
<1>9. QED
  BY <1>1, <1>2, <1>5, <1>6, <1>7, <1>8 DEF WithSync

LEMMA WithoutSyncStep ==
  ASSUME Typed, Orderly, port.initialized, WithoutSync, Device
  PROVE  port'.initialized /\ (WithoutSync' \/ DataHere')
<1>0. Receiving /\ Held /\ emu.st = "await" /\ port.sync_num = None
  BY DEF WithoutSync
<1>1. PICK d1 : d1 = DataBytes[1]
  OBVIOUS
<1>2. PICK d2 : d2 = DataBytes[2]
  OBVIOUS
<1>3. DataBytes = <<d1, d2>> /\ emu.st # "run"
  BY <1>0, <1>1, <1>2 DEF DataBytes
<1>4. ASSUME emu' = emu, outq' = outq
      PROVE  Held' /\ emu'.st = "await" /\ DataBytes'[1] = d1 /\ DataBytes'[2] = d2 /\ DataBytes' = DataBytes
  BY <1>0, <1>1, <1>2, <1>4, SameEmulator DEF DataBytes
<1>5. CASE todo \in PutData /\ buf = <<>> /\ inq = <<Data(emu.cmd, DataParts)>> /\ port.rx = <<>>
  <2>1. inq # <<>> /\ inq[1] = Data(emu.cmd, DataParts) /\ Tail(inq) = <<>>
    BY <1>5
  <2>2. /\ UNCHANGED <<emu, outq, buf, todo>> /\ inq' = Tail(inq) /\ Receiving' /\ port'.initialized
        /\ port'.sync_num = None /\ port'.rx = DataBytes
    BY <1>0, <1>3, <1>5, <2>1, GettingStep
  <2>3. QED
    BY <1>4, <1>5, <2>1, <2>2 DEF WithoutSync
<1>6. CASE todo \in PutData /\ buf = <<>> /\ inq = <<>> /\ port.rx = DataBytes
  <2>1. /\ port.rx # <<>> /\ Head(port.rx) = d1 /\ Tail(port.rx) = <<d2>> /\ Append(<<>>, d1) = <<d1>>
        /\ Len(<<d1>>) = 1 /\ Tail(todo) \in PutCksum
    BY <1>3, <1>6, PutPlans
  <2>2. /\ UNCHANGED <<emu, inq, outq>> /\ Receiving' /\ port'.initialized
        /\ buf' = Append(buf, Head(port.rx)) /\ port'.rx = Tail(port.rx) /\ port'.sync_num = port.sync_num
        /\ todo' = IF Len(buf') = 1 THEN Tail(todo) ELSE todo
    BY <1>0, <1>6, <2>1, TakingStep
  <2>3. buf' = <<d1>> /\ todo' \in PutCksum /\ port'.rx = <<d2>>
    BY <1>6, <2>1, <2>2
  <2>4. QED
    BY <1>0, <1>4, <1>6, <2>2, <2>3 DEF WithoutSync
<1>7. CASE todo \in PutCksum /\ buf = <<d1>> /\ inq = <<>> /\ port.rx = <<d2>>
  BY <1>0, <1>1, <1>2, <1>7, DataTaken
<1>8. QED
  BY <1>1, <1>2, <1>5, <1>6, <1>7 DEF WithoutSync

LEMMA DataHereStep ==
  ASSUME Typed, Orderly, port.initialized, DataHere, Device
  PROVE  port'.initialized /\ Writing'
<1>0. /\ Receiving /\ Held /\ inq = <<>> /\ todo \in PutAck /\ buf = DataBytes
      /\ port.sync_num \in {DataSyncOf(emu.cmd), None} /\ AtRest
      /\ pc = "run" /\ cur = emu.cmd /\ ~port.command_asserted /\ Kind \in PutKinds /\ out = <<>>
      /\ port.sync_write_size = None
  BY DEF DataHere, Receiving, Own, Orderly
<1>1. todo # <<>> /\ Head(todo) = "A" /\ Tail(todo) \in PutAcked
  BY <1>0, PutPlans
<1>2. WriteByte
  BY <1>0, <1>1, Turn
<1>3. DataSyncOf(emu.cmd) # None
  BY <1>0, Numbered DEF Held
<1>4. /\ UNCHANGED <<emu, inq, outq, pc, buf, cur>> /\ todo' \in PutAcked
      /\ out' \in {<<DataByte("A")>>, <<SyncResponse(DataSyncOf(emu.cmd), "ACK", "A", 0)>>}
      /\ port'.sync_num = None /\ port'.command_asserted = port.command_asserted /\ port'.initialized
  BY <1>0, <1>1, <1>2, <1>3, WriteByteEffect DEF SameSpeed
<1>5. Held' /\ Own' /\ OnlyCredit' /\ Kind' = Kind /\ buf' = DataBytes'
  BY <1>0, <1>4, SameEmulator DEF Own, OnlyCredit, DataBytes
<1>6. DataSyncOf(emu'.cmd) = DataSyncOf(emu.cmd)
  BY <1>4
<1>7. QED
  BY <1>0, <1>4, <1>5, <1>6 DEF Writing

LEMMA WritingStep ==
  ASSUME Typed, Orderly, port.initialized, Writing, Device
  PROVE  port'.initialized /\ (Writing' \/ Resting')
<1>0. Own /\ Held /\ OnlyCredit /\ port.sync_num = None /\ Kind \in PutKinds /\ AtRest /\ pc = "run"
  BY DEF Writing, Orderly, Own
<1>k. PutRest \subseteq Tails
  BY DEF PutRest, Tails
<1>w. ASSUME out = <<>>, WriteByte \/ WriteBlock \/ Flush
      PROVE  /\ port'.initialized /\ Own' /\ Held' /\ OnlyCredit' /\ port'.sync_num = None /\ Kind' \in PutKinds
             /\ todo' = Tail(todo)
             /\ WriteByte => out' = <<DataByte(Head(todo))>>
             /\ Flush => out' = <<>>
  BY <1>0, <1>w, WorkingStep, SameEmulator
<1>1. CASE todo \in PutAcked /\ out = <<>>
  <2>1. todo # <<>> /\ Head(todo) = "acked" /\ Tail(todo) \in PutOutcome
    BY <1>1, PutPlans
  <2>2. Flush
    BY <1>0, <1>1, <2>1, Turn
  <2>3. QED
    BY <1>1, <1>w, <2>1, <2>2 DEF Writing
<1>2. CASE todo \in PutAcked /\ buf = DataBytes /\ out = <<DataByte("A")>>
  <2>1. ~Ends("A")
    BY <1>0 DEF Ends, Kind, PutKinds, ReadKinds
  <2>2. /\ Own' /\ OnlyCredit' /\ port'.sync_num = None /\ port'.initialized /\ Kind' = Kind
        /\ todo' = todo /\ buf' = buf /\ emu' = emu /\ Held' /\ (out' = out \/ out' = <<>>)
    BY <1>0, <1>2, <2>1, SpokenStep
  <2>3. DataBytes' = DataBytes
    BY <2>2 DEF DataBytes
  <2>4. QED
    BY <1>0, <1>2, <2>2, <2>3 DEF Writing
<1>3. CASE todo \in PutAcked /\ buf = DataBytes /\ out = <<SyncResponse(DataSyncOf(emu.cmd), "ACK", "A", 0)>>
  <2>1. PICK m : m = SyncResponse(DataSyncOf(emu.cmd), "ACK", "A", 0)
    OBVIOUS
  <2>2. /\ Own' /\ OnlyCredit' /\ port'.sync_num = None /\ port'.initialized /\ Kind' = Kind
        /\ todo' = todo /\ buf' = buf /\ emu' = emu /\ m \in OutMsgs
        /\ \/ outq' = outq /\ out' = out
           \/ outq' = Append(outq, m) /\ out' = <<>>
    BY <1>0, <1>3, <2>1, SpeakingStep
  <2>3. Held' /\ (out' = out \/ out' = <<>>)
    BY <1>0, <2>1, <2>2, SameEmulator, Saying
  <2>4. DataBytes' = DataBytes /\ DataSyncOf(emu.cmd)' = DataSyncOf(emu.cmd)
    BY <2>2 DEF DataBytes, DataSyncOf
  <2>5. QED
    BY <1>0, <1>3, <2>2, <2>3, <2>4 DEF Writing
<1>4. CASE out = <<>> /\ todo \in PutOutcome
  <2>1. todo # <<>> /\ Head(todo) = "outcome" /\ Tail(todo) \in PutRest
    BY <1>4, PutPlans
  <2>2. Outcome
    BY <1>0, <1>4, <2>1, Turn
  <2>3. UNCHANGED <<emu, inq, outq, port, pc, out, cur>> /\ \E c \in {"C", "E"} : todo' = <<c>> \o Tail(todo)
    BY <2>2 DEF Outcome
  <2>4. todo' \in PutEnd
    BY <2>1, <2>3, PutGrows
  <2>5. Held' /\ Own' /\ OnlyCredit' /\ Kind' = Kind
    BY <1>0, <2>3, SameEmulator DEF Own, OnlyCredit
  <2>6. QED
    BY <1>0, <1>4, <2>3, <2>4, <2>5 DEF Writing
<1>5. CASE out = <<>> /\ todo \in PutEnd
  <2>1. todo # <<>> /\ Head(todo) \in {"C", "E"} /\ Tail(todo) \in PutRest
    BY <1>5, PutPlans
  <2>2. WriteByte
    BY <1>0, <1>5, <2>1, Turn
  <2>3. QED
    BY <1>5, <1>w, <2>1, <2>2 DEF Writing
<1>6. CASE (\E c \in {"C", "E"} : out = <<DataByte(c)>>) /\ todo \in PutRest
  <2>1. PICK c \in {"C", "E"} : out = <<DataByte(c)>>
    BY <1>6
  <2>2. todo \in Tails
    BY <1>k, <1>6
  <2>3. /\ Own' /\ OnlyCredit' /\ port'.sync_num = None /\ port'.initialized /\ Kind' = Kind
        /\ todo' = todo /\ ((out' = out /\ Held') \/ Resting')
    BY <1>0, <2>1, <2>2, SpokenStep
  <2>4. QED
    BY <1>0, <1>6, <2>1, <2>3 DEF Writing
<1>7. QED
  BY <1>1, <1>2, <1>3, <1>4, <1>5, <1>6 DEF Writing

-----------------------------------------------------------------------------
(***************************************************************************)
(* The hub's steps.                                                        *)
(***************************************************************************)
\* The phase is the same while the device does nothing and the emulator hears
\* only what it was meant to.
LEMMA Steady ==
  ASSUME Typed, AtRest, Conversation, UNCHANGED <<port, pc, todo, out, buf, cur, bus>>,
         emu'.cmd = emu.cmd, emu'.kind = emu.kind,
         Mute => Mute', Held => Held', Asked => Asked', Free => Free',
         (Held /\ emu.st = "await") => emu'.st = "await",
         WithSync => emu'.st = "halt2",
         \/ inq' = inq
         \/ /\ out # <<>> /\ Len(inq') = Len(inq) + 1
            /\ OnlyCredit => OnlyCredit'
            /\ \A b \in Int : Stream(b) => Stream(b)'
  PROVE  Conversation'
<1>0. inq \in Seq(InMsgs) /\ Len(inq) \in Nat
  BY DEF Typed
<1>1. /\ OnlyCredit => OnlyCredit'
      /\ \A b \in Int : Stream(b) => Stream(b)'
      /\ 1..Len(inq) \subseteq 1..Len(inq')
      /\ out = <<>> => inq' = inq
  <2>1. CASE inq' = inq
    <3>1. \A b \in Int : Stream(b) => Stream(b)'
      BY <2>1 DEF Stream
    <3>2. QED
      BY <2>1, <3>1 DEF OnlyCredit
  <2>2. CASE /\ out # <<>> /\ Len(inq') = Len(inq) + 1
             /\ OnlyCredit => OnlyCredit'
             /\ \A b \in Int : Stream(b) => Stream(b)'
    <3>1. 1..Len(inq) \subseteq 1..Len(inq')
      BY <1>0, <2>2
    <3>2. QED
      BY <2>2, <3>1
  <2>3. QED
    BY <2>1, <2>2
<1>2. Kind' = Kind /\ InStep' = InStep /\ DataBytes' = DataBytes /\ (Own => Own') /\ (Closing => Closing')
  <2>1. Closing => Closing'
    BY DEF Closing
  <2>2. QED
    BY <2>1 DEF Kind, InStep, DataBytes, Own
<1>3. FrameByte("frame1")' = FrameByte("frame1") /\ FrameByte("frame2")' = FrameByte("frame2")
  BY <1>2 DEF FrameByte
<1>4. CASE Resting
  BY <1>1, <1>2, <1>4 DEF Resting, Conversation
<1>5. CASE Coming
  <2>1. PICK b \in 1..Len(inq) : Stream(b)
    BY <1>5 DEF Coming
  <2>2. b \in Int /\ b \in 1..Len(inq')
    BY <1>0, <1>1, <2>1
  <2>3. (\E c \in 1..Len(inq) : Stream(c))'
    BY <1>1, <2>1, <2>2
  <2>4. QED
    BY <1>2, <1>5, <2>3 DEF Coming, Conversation
<1>6. CASE Swallowing
  <2>1. (Stream(0) \/ Stream(-1))'
    BY <1>1, <1>6 DEF Swallowing
  <2>2. QED
    BY <1>6, <2>1 DEF Swallowing, Conversation
<1>7. CASE Swallowed
  <2>1. Swallowed'
    BY <1>1, <1>7 DEF Swallowed
  <2>2. QED
    BY <2>1 DEF Conversation
<1>8. CASE FrameAwaited
  <2>1. Stream(0)'
    BY <1>1, <1>8 DEF FrameAwaited
  <2>2. QED
    BY <1>8, <2>1 DEF FrameAwaited, Asserted, Conversation
<1>9. CASE FrameHere
  <2>1. Stream(-1)'
    BY <1>1, <1>9 DEF FrameHere
  <2>2. FrameHere'
    BY <1>3, <1>9, <2>1 DEF FrameHere, Asserted
  <2>3. QED
    BY <2>2 DEF Conversation
<1>10. CASE Checking
  <2>1. out = <<>> /\ inq' = inq
    BY <1>1, <1>10 DEF AtRest, Checking
  <2>2. Checking'
    BY <1>3, <1>10, <2>1 DEF Checking
  <2>3. QED
    BY <2>2 DEF Conversation
<1>11. CASE Starting
  <2>1. Starting'
    BY <1>1, <1>2, <1>11 DEF Starting
  <2>2. QED
    BY <2>1 DEF Conversation
<1>12. CASE Answering
  <2>1. Answering'
    BY <1>1, <1>2, <1>12 DEF Answering
  <2>2. QED
    BY <2>1 DEF Conversation
<1>13. CASE Reading
  <2>1. Reading'
    BY <1>1, <1>2, <1>13 DEF Reading
  <2>2. QED
    BY <2>1 DEF Conversation
<1>14. CASE Controlling
  <2>1. Controlling'
    BY <1>1, <1>2, <1>14 DEF Controlling
  <2>2. QED
    BY <2>1 DEF Conversation
<1>15. Receiving => Receiving' /\ inq' = inq
  BY <1>1, <1>2 DEF Receiving
<1>16. CASE Requesting
  <2>1. Requesting'
    BY <1>15, <1>16 DEF Requesting
  <2>2. QED
    BY <2>1 DEF Conversation
<1>17. CASE WithSync
  <2>1. /\ DataSync(emu'.cmd, "cksum") = DataSync(emu.cmd, "cksum") /\ DataSyncOf(emu'.cmd) = DataSyncOf(emu.cmd)
        /\ Data(emu'.cmd, <<"data">>) = Data(emu.cmd, <<"data">>)
    OBVIOUS
  <2>2. WithSync'
    BY <1>2, <1>15, <1>17, <2>1 DEF WithSync
  <2>3. QED
    BY <2>2 DEF Conversation
<1>18. CASE WithoutSync
  <2>1. Data(emu'.cmd, DataParts) = Data(emu.cmd, DataParts)
    OBVIOUS
  <2>2. WithoutSync'
    BY <1>2, <1>15, <1>18, <2>1 DEF WithoutSync
  <2>3. QED
    BY <2>2 DEF Conversation
<1>19. CASE DataHere
  <2>1. DataSyncOf(emu'.cmd) = DataSyncOf(emu.cmd)
    OBVIOUS
  <2>2. DataHere'
    BY <1>2, <1>15, <1>19, <2>1 DEF DataHere
  <2>3. QED
    BY <2>2 DEF Conversation
<1>20. CASE Writing
  <2>1. DataSyncOf(emu'.cmd) = DataSyncOf(emu.cmd)
    OBVIOUS
  <2>2. Writing'
    BY <1>1, <1>2, <1>20, <2>1 DEF Writing
  <2>3. QED
    BY <2>2 DEF Conversation
<1>21. QED
  BY <1>4, <1>5, <1>6, <1>7, <1>8, <1>9, <1>10, <1>11, <1>12, <1>13, <1>14, <1>16, <1>17, <1>18, <1>19, <1>20
     DEF Conversation

LEMMA HearingStep ==
  ASSUME Typed, OnePlace, Orderly, Conversation, HubReceive
  PROVE  Conversation'
<1>1. UNCHANGED <<inq, port, pc, todo, out, buf, cur, bus>> /\ AtRest
  BY DEF HubReceive, dev, Orderly
<1>2. /\ emu'.cmd = emu.cmd /\ emu'.kind = emu.kind
      /\ Mute => Mute'
      /\ Held => Held'
      /\ Asked => Asked'
      /\ Free => Free'
      /\ (Held /\ emu.st = "await") => emu'.st = "await"
  BY Hearing
<1>3. WithSync => emu'.st = "halt2"
  <2> SUFFICES ASSUME WithSync PROVE emu'.st = "halt2"
    OBVIOUS
  <2>1. emu.st = "halt2" /\ emu.cmd \in Commands
    BY Numbered DEF WithSync
  <2>2. DataSyncOf(emu.cmd) \in Syncs
    BY <2>1, Sizes
  <2>3. Waiting(DataSyncOf(emu.cmd)) \/ port.sync_num = DataSyncOf(emu.cmd)
    <3>1. DataSync(emu.cmd, "cksum") \in Requests /\ DataSync(emu.cmd, "cksum").num = DataSyncOf(emu.cmd)
      BY <2>1 DEF Requests, DataSync
    <3>2. CASE inq = <<Data(emu.cmd, <<"data">>), DataSync(emu.cmd, "cksum")>>
      <4>1. 2 \in 1..Len(inq) /\ inq[2] = DataSync(emu.cmd, "cksum")
        BY <3>2
      <4>2. QED
        BY <3>1, <4>1 DEF Waiting
    <3>3. CASE inq = <<DataSync(emu.cmd, "cksum")>>
      <4>1. 1 \in 1..Len(inq) /\ inq[1] = DataSync(emu.cmd, "cksum")
        BY <3>3
      <4>2. QED
        BY <3>1, <4>1 DEF Waiting
    <3>4. QED
      BY <3>2, <3>3 DEF WithSync
  <2>4. \A j \in 1..Len(outq) : ~Answers(outq[j], DataSyncOf(emu.cmd))
    BY <2>2, <2>3, NotAnswered
  <2>5. QED
    BY <2>1, <2>4, Hearing
<1>4. QED
  BY <1>1, <1>2, <1>3, Steady

LEMMA GrantStep ==
  ASSUME Typed, Orderly, Conversation, Grant
  PROVE  Conversation'
<1>1. UNCHANGED <<emu, outq, port, pc, todo, out, buf, cur, bus>> /\ AtRest /\ out # <<>>
  BY DEF Grant, dev, Orderly
<1>2. (Mute => Mute') /\ (Held => Held') /\ (Asked => Asked') /\ (Free => Free')
  BY <1>1, SameEmulator
<1>3. emu'.cmd = emu.cmd /\ emu'.kind = emu.kind /\ emu'.st = emu.st /\ (WithSync => emu'.st = "halt2")
  BY <1>1 DEF WithSync
<1>4. /\ Len(inq') = Len(inq) + 1 /\ (OnlyCredit => OnlyCredit')
      /\ \A b \in Int : Stream(b) => Stream(b)'
  BY Granted
<1>5. QED
  BY <1>1, <1>2, <1>3, <1>4, Steady

LEMMA StutterStep ==
  ASSUME Typed, Orderly, Conversation, UNCHANGED vars
  PROVE  Conversation'
<1>1. UNCHANGED <<emu, inq, outq, port, pc, todo, out, buf, cur, bus>> /\ AtRest
  BY DEF vars, Orderly
<1>2. (Mute => Mute') /\ (Held => Held') /\ (Asked => Asked') /\ (Free => Free')
  BY <1>1, SameEmulator
<1>3. emu'.cmd = emu.cmd /\ emu'.kind = emu.kind /\ emu'.st = emu.st /\ (WithSync => emu'.st = "halt2")
  BY <1>1 DEF WithSync
<1>4. QED
  BY <1>1, <1>2, <1>3, Steady

\* Which phases let the emulator run, or send its data.
LEMMA Waits ==
  ASSUME Conversation
  PROVE  /\ emu.st = "run" => Resting
         /\ emu.st = "senddata" => Requesting
<1>1. /\ Mute => emu.st = "halt"
      /\ Held => emu.st \in {"halt", "halt2", "await"}
      /\ Asked => emu.st \in {"halt", "senddata"}
      /\ Free => emu.st # "senddata"
  BY DEF Mute, Held, Asked, Free
<1>2. /\ Coming \/ Swallowing \/ Swallowed \/ FrameAwaited \/ FrameHere \/ Checking \/ Starting \/ Answering => Mute
      /\ Reading \/ Controlling \/ WithSync \/ WithoutSync \/ DataHere \/ Writing => Held
      /\ Requesting => Asked
      /\ Resting => Free
  BY DEF Resting, Coming, Swallowing, Swallowed, FrameAwaited, FrameHere, Asserted, Checking, Starting, Answering,
         Reading, Controlling, Requesting, WithSync, WithoutSync, DataHere, Writing
<1>3. QED
  BY <1>1, <1>2 DEF Conversation

LEMMA SendDataStep ==
  ASSUME Typed, Orderly, port.initialized, Conversation, NEW sync \in BOOLEAN, SendData(sync)
  PROVE  Conversation'
<1>1. emu.st = "senddata" /\ Requesting
  BY Waits DEF SendData
<1>2. /\ Receiving /\ Asked /\ inq = <<>> /\ todo \in PutData /\ buf = <<>> /\ port.rx = <<>> /\ port.sync_num = None
  BY <1>1 DEF Requesting
<1>3. UNCHANGED <<outq, port, pc, todo, out, buf, cur>> /\ emu \in Emulators
      /\ emu' = [emu EXCEPT !.st = IF sync THEN "halt2" ELSE "await"]
  BY DEF SendData, dev, Typed
<1>4. emu'.cmd = emu.cmd /\ emu'.kind = emu.kind /\ emu'.st = IF sync THEN "halt2" ELSE "await"
  BY <1>3 DEF Emulators
<1>5. /\ sync => inq' = <<Data(emu.cmd, <<"data">>), DataSync(emu.cmd, "cksum")>>
      /\ ~sync => inq' = <<Data(emu.cmd, DataParts)>>
  <2>1. PICK q \in Seq(InMsgs) :
          /\ inq' = inq \o q
          /\ port.initialized /\ sync => q = <<Data(emu.cmd, <<"data">>), DataSync(emu.cmd, "cksum")>>
          /\ port.initialized /\ ~sync => q = <<Data(emu.cmd, DataParts)>>
    BY Asks
  <2>2. inq' = q
    BY <1>2, <2>1, ConcatEmptySeq
  <2>3. QED
    BY <2>1, <2>2
<1>6. Receiving'
  BY <1>2, <1>3, <1>4 DEF Receiving, Own, Kind, InStep
<1>7. Held'
  <2>1. emu'.st \in {"halt2", "await"} /\ emu'.st # "halt"
    BY <1>4
  <2>2. NoEnd'
    <3>1. \A j \in 1..Len(outq) : ~(outq[j].type = "DATA" /\ Ends(outq[j].byte))
      BY <1>1, <1>2 DEF Asked, NoEnd, Heeds
    <3>2. \A j \in 1..Len(outq') : ~(outq'[j].type = "DATA" /\ Ends(outq[j].byte)')
      BY <1>3, <1>4, <3>1 DEF Ends
    <3>3. QED
      BY <3>2 DEF NoEnd
  <2>3. \A j \in 1..Len(outq') : ~Answers(outq'[j], DataSyncOf(emu'.cmd))
    BY <1>2, <1>3, <1>4 DEF Asked
  <2>4. QED
    BY <2>1, <2>2, <2>3 DEF Held, Answers
<1>8. CASE sync
  <2>1. WithSync'
    BY <1>2, <1>3, <1>4, <1>5, <1>6, <1>7, <1>8 DEF WithSync
  <2>2. QED
    BY <2>1 DEF Conversation
<1>9. CASE ~sync
  <2>1. WithoutSync'
    BY <1>2, <1>3, <1>4, <1>5, <1>6, <1>7, <1>9 DEF WithoutSync
  <2>2. QED
    BY <2>1 DEF Conversation
<1>10. QED
  BY <1>8, <1>9

LEMMA IssueStep ==
  ASSUME Typed, OnePlace, Orderly, Closing, OnlyCredit, NEW kind \in Kinds, NEW s \in Speeds, Issue(kind, s)
  PROVE  Coming'
<1>1. PICK q \in Seq(InMsgs) :
        /\ inq' = inq \o q
        /\ Len(q) \in {3, 4}
        /\ Len(q) = 4 => q[1].type = "SPEED"
        /\ q[Len(q) - 2] = OnMsg /\ q[Len(q) - 1] = Data(emu.cmd + 1, FrameParts)
        /\ q[Len(q)] = OffSync(emu.cmd + 1)
        /\ emu.cmd + 1 \in Commands
  BY Asks
<1>k. PICK k \in Commands : k = emu.cmd + 1
  BY <1>1
<1>2. UNCHANGED <<outq, port, pc, todo, out>> /\ emu'.st = "halt" /\ emu'.cmd = k /\ inq \in Seq(InMsgs)
  BY <1>k DEF Issue, dev, Typed, Emulators
<1>3. Closing'
  BY <1>2 DEF Closing
<1>4. Mute'
  <2>1. k \in Syncs /\ DataSyncOf(k) \in Syncs /\ emu.cmd \in Int /\ k \in Int
    BY <1>k, Sizes DEF Typed, Emulators, Commands
  <2>2. FreshAt(emu, k) /\ FreshAt(emu, DataSyncOf(k))
    BY <1>k, <2>1 DEF FreshAt
  <2>3. \A j \in 1..Len(outq) : ~Answers(outq[j], k) /\ ~Answers(outq[j], DataSyncOf(k))
    BY <2>1, <2>2, NotAnswered
  <2>4. QED
    BY <1>2, <2>3 DEF Mute, Answers
<1>5. PICK n \in Nat : n = Len(inq)
  BY <1>2
<1>l. PICK l \in {3, 4} : l = Len(q)
  BY <1>1
<1>6. /\ Len(inq') = n + l
      /\ \A i \in 1..n : inq'[i] = inq[i]
      /\ \A i \in 1..Len(inq') : i > n => inq'[i] = q[i - n] /\ i - n \in 1..Len(q)
  BY <1>1, <1>2, <1>5, <1>l
<1>7. PICK b \in Nat : b = n + l - 2
  <2>1. n + l - 2 \in Nat
    BY <1>l
  <2>2. QED
    BY <2>1
<1>8. b \in 1..Len(inq') /\ b + 2 = Len(inq')
  BY <1>l, <1>6, <1>7
<1>9. ASSUME NEW i \in 1..Len(inq')
      PROVE  /\ i = b => inq'[i] = OnMsg
             /\ i = b + 1 => inq'[i] = Data(k, FrameParts)
             /\ i = b + 2 => inq'[i] = OffSync(k)
             /\ i = b - 1 => inq'[i].type \in {"SPEED", "CREDIT"}
             /\ i < b - 1 \/ i > b + 2 => inq'[i].type = "CREDIT"
  <2>0. i \in Int /\ i >= 1 /\ i <= b + 2 /\ n \in Nat /\ b \in Nat
    BY <1>8
  <2>1. CASE i > n
    <3>1. inq'[i] = q[i - n]
      BY <1>6, <2>1
    <3>2. CASE Len(q) = 3
      <4>1. b = n + 1
        BY <1>l, <1>7, <3>2
      <4>2. q[1] = OnMsg /\ q[2] = Data(k, FrameParts) /\ q[3] = OffSync(k)
        BY <1>1, <1>k, <3>2
      <4>3. i - n \in {1, 2, 3}
        BY <2>0, <2>1, <4>1
      <4>4. /\ i = b => i - n = 1
            /\ i = b + 1 => i - n = 2
            /\ i = b + 2 => i - n = 3
            /\ i # b - 1 /\ ~(i < b - 1) /\ ~(i > b + 2)
        BY <2>0, <2>1, <4>1
      <4>5. QED
        BY <3>1, <4>2, <4>4
    <3>3. CASE Len(q) = 4
      <4>1. b = n + 2
        BY <1>l, <1>7, <3>3
      <4>2. q[1].type = "SPEED" /\ q[2] = OnMsg /\ q[3] = Data(k, FrameParts) /\ q[4] = OffSync(k)
        BY <1>1, <1>k, <3>3
      <4>4. /\ i = b => i - n = 2
            /\ i = b + 1 => i - n = 3
            /\ i = b + 2 => i - n = 4
            /\ i = b - 1 => i - n = 1
            /\ ~(i < b - 1) /\ ~(i > b + 2)
        BY <2>0, <2>1, <4>1
      <4>5. QED
        BY <3>1, <4>2, <4>4
    <3>4. QED
      BY <1>1, <3>2, <3>3
  <2>2. CASE i <= n
    <3>1. i \in 1..n /\ inq'[i] = inq[i]
      BY <1>6, <2>0, <2>2
    <3>2. inq[i].type = "CREDIT"
      BY <1>5, <3>1 DEF OnlyCredit
    <3>3. b \in Nat /\ n \in Nat /\ (b = n + 1 \/ b = n + 2)
      <4>1. l = 3 \/ l = 4
        BY <1>1, <1>l
      <4>2. b = n + l - 2 /\ n \in Nat
        BY <1>7
      <4>3. QED
        BY <4>1, <4>2
    <3>4. QED
      BY <2>0, <2>2, <3>1, <3>2, <3>3
  <2>3. QED
    BY <2>0, <2>1, <2>2
<1>10. Stream(b)'
  BY <1>2, <1>8, <1>9 DEF Stream
<1>11. QED
  BY <1>3, <1>4, <1>8, <1>10 DEF Coming

LEMMA DeviceStep ==
  ASSUME Typed, Orderly, port.initialized, Conversation, Device
  PROVE  port'.initialized /\ Conversation'
BY RestingStep, ComingStep, SwallowingStep, SwallowedStep, FrameAwaitedStep, FrameHereStep, CheckingStep,
   StartingStep, AnsweringStep, ReadingStep, ControllingStep, RequestingStep, WithSyncStep, WithoutSyncStep,
   DataHereStep, WritingStep DEF Conversation

\* Only a fault disturbs the conversation.
LEMMA Undisturbed ==
  ASSUME Typed, Device
  PROVE  hist'.disturbed = hist.disturbed
<1>0. hist \in Histories
  BY DEF Typed
<1>1. CASE Send
  BY <1>0, <1>1 DEF Send, Histories
<1>2. CASE Dispatch \/ RejectFrame
  BY <1>0, <1>2 DEF Dispatch, RejectFrame, Histories
<1>3. CASE ~Send /\ ~Dispatch /\ ~RejectFrame
  <2>1. hist' = hist
    BY <1>3 DEF Device, service, ReadFrame, FrameTimeout, WaitDeassert, DeassertTimeout, wait_for_credit, SendFails,
      WriteByte, WriteBlock, Flush, LateAckOp, SetWriteSize, ReadData, DataTimeout, ReadChecksum, ChecksumFails,
      Outcome, Toggle, Return, EmptyAckSent, begin
  <2>2. QED
    BY <2>1
<1>4. QED
  BY <1>1, <1>2, <1>3

LEMMA StepCalm ==
  ASSUME Typed, OnePlace, Orderly, Calm, [Next]_vars
  PROVE  Calm'
<1> SUFFICES ASSUME ~hist'.disturbed PROVE port'.initialized /\ Conversation'
  BY DEF Calm
<1>0. hist \in Histories /\ AtRest
  BY DEF Typed, Orderly
<1>c. ~hist.disturbed => port.initialized /\ Conversation
  BY DEF Calm
<1>q. Quiescent => Closing /\ OnlyCredit
  BY <1>0 DEF Quiescent, Closing, OnlyCredit, AtRest
<1>1. CASE \E kind \in Kinds, s \in Speeds : Issue(kind, s)
  <2>1. PICK kind \in Kinds, s \in Speeds : Issue(kind, s)
    BY <1>1
  <2>2. port.initialized /\ port' = port /\ emu.st = "run"
    BY <2>1 DEF Issue
  <2>3. ~hist.disturbed \/ Quiescent
    <3>1. PICK r : hist' = [hist EXCEPT !.disturbed = @ /\ ~Quiescent, !.rejects = r]
      BY <2>1 DEF Issue
    <3>2. hist'.disturbed = (hist.disturbed /\ ~Quiescent)
      BY <1>0, <3>1 DEF Histories
    <3>3. QED
      BY <3>2
  <2>4. Closing /\ OnlyCredit
    BY <1>c, <1>q, <2>2, <2>3, Waits DEF Resting
  <2>5. Coming'
    BY <2>1, <2>4, IssueStep
  <2>6. QED
    BY <2>2, <2>5 DEF Conversation
<1>2. CASE HubReceive \/ Grant \/ (\E sync \in BOOLEAN : SendData(sync)) \/ UNCHANGED vars
  <2>1. hist' = hist /\ port' = port
    BY <1>2 DEF HubReceive, Grant, SendData, vars
  <2>2. port.initialized /\ Conversation
    BY <1>c, <2>1
  <2>3. QED
    BY <1>2, <2>1, <2>2, HearingStep, GrantStep, SendDataStep, StutterStep
<1>3. CASE GiveUp
  <2>1. /\ hist' = [hist EXCEPT !.disturbed = @ \/ ~Quiescent] /\ emu' = [emu EXCEPT !.st = "run"]
        /\ UNCHANGED <<inq, outq, port, pc, todo, out>>
    BY <1>3 DEF GiveUp, dev
  <2>2. ~hist.disturbed /\ Quiescent
    <3>1. hist'.disturbed = (hist.disturbed \/ ~Quiescent)
      BY <1>0, <2>1 DEF Histories
    <3>2. QED
      BY <3>1
  <2>3. Closing /\ OnlyCredit /\ port.initialized
    BY <1>c, <1>q, <2>2
  <2>4. emu'.st = "run"
    BY <2>1 DEF Typed, Emulators
  <2>5. Closing' /\ OnlyCredit' /\ Free'
    BY <2>1, <2>3, <2>4 DEF Closing, OnlyCredit, Free
  <2>6. QED
    BY <2>1, <2>3, <2>5 DEF Resting, Conversation
<1>4. CASE Suspend \/ Reconnect
  <2>1. hist' = [hist EXCEPT !.disturbed = TRUE]
    BY <1>4 DEF Suspend, Reconnect
  <2>2. hist'.disturbed
    BY <1>0, <2>1 DEF Histories
  <2>3. QED
    BY <2>2
<1>5. CASE Device
  BY <1>c, <1>5, Undisturbed, DeviceStep
<1>6. QED
  BY <1>1, <1>2, <1>3, <1>4, <1>5 DEF Next, Hub

LEMMA InitCalm ==
  ASSUME Init
  PROVE  Calm
<1>1. /\ outq = <<>> /\ inq = <<>> /\ out = <<>> /\ pc = "idle" /\ emu.st = "run"
      /\ port.initialized /\ ~port.command_asserted
  BY DEF Init
<1>2. Closing /\ OnlyCredit /\ Free
  BY <1>1 DEF Closing, OnlyCredit, Free
<1>3. QED
  BY <1>1, <1>2 DEF Calm, Conversation, Resting

-----------------------------------------------------------------------------
(***************************************************************************)
(* The search for the speed.                                               *)
(***************************************************************************)
NoSpeed == \A i \in 1..Len(inq) : inq[i].type # "SPEED"

\* A step that has nothing to do with the speed.
LEMMA SoughtKept ==
  ASSUME SpeedSought, hist'.disturbed = hist.disturbed, hist'.rejects = hist.rejects,
         (~hist.disturbed /\ hist.rejects > 0) =>
            /\ todo' = todo /\ port'.baud = port.baud /\ port'.baud_peer = port.baud_peer
            /\ bus'.sioBaud = bus.sioBaud /\ bus'.command_frame_counter = bus.command_frame_counter
            /\ NoSpeed'
  PROVE  SpeedSought'
BY DEF SpeedSought, InStep, NoSpeed

LEMMA SoughtReceived ==
  ASSUME Typed, Receive, NoSpeed
  PROVE  NoSpeed' /\ port'.baud = port.baud /\ port'.baud_peer = port.baud_peer
<1>1. /\ PortAfter(port, inq[1], port') /\ Len(inq) \in Nat /\ Len(inq) >= 1
      /\ \A i \in 1..Len(inq') : inq'[i] = inq[i + 1] /\ i + 1 \in 1..Len(inq)
  BY Arrival
<1>2. inq[1].type # "SPEED"
  BY <1>1 DEF NoSpeed
<1>3. QED
  BY <1>1, <1>2 DEF NoSpeed, PortAfter

LEMMA GoodFrame ==
  ASSUME NEW k \in Commands, NEW ok \in BOOLEAN
  PROVE  [i \in 1..2 |-> Byte(k, FrameParts[i], ok)] = <<Byte(k, "frame1", ok), Byte(k, "frame2", ok)>>
<1>1. Len(FrameParts) = 2
  BY DEF FrameParts
<1>2. [i \in 1..2 |-> Byte(k, FrameParts[i], ok)] = Bytes(k, FrameParts, ok)
  BY <1>1 DEF Bytes
<1>3. Bytes(k, FrameParts, ok) = <<Byte(k, "frame1", ok), Byte(k, "frame2", ok)>>
  BY DEF Bytes, FrameParts
<1>4. QED
  BY <1>2, <1>3

\* A frame is rejected only out of step, and a second one makes the bus toggle.
LEMMA RejectStep ==
  ASSUME Typed, Orderly, port.initialized, Conversation, SpeedSought, RejectFrame, ~hist.disturbed, hist'.rejects > 0
  PROVE  /\ hist'.rejects <= Threshold /\ NoSpeed'
         /\ \/ ~InStep' /\ port'.baud = bus'.sioBaud /\ todo' = <<"toggle">>
            \/ hist'.rejects = 1 /\ bus'.command_frame_counter = 1 /\ todo' = <<>>
<1>0. hist \in Histories /\ bus \in Buses /\ pc = "check" /\ todo = <<>> /\ ~FrameOk
  BY DEF Typed, Orderly, AtRest, RejectFrame
<1>1. Checking
  <2>1. /\ Resting \/ Coming => Closing
        /\ Closing \/ Swallowing \/ Swallowed \/ FrameAwaited \/ FrameHere \/ Starting => pc # "check"
        /\ Answering => pc # "check"
        /\ Reading \/ Controlling \/ Requesting \/ WithSync \/ WithoutSync \/ DataHere \/ Writing => Own
        /\ Own => pc # "check"
    BY DEF Resting, Coming, Closing, Swallowing, Swallowed, FrameAwaited, FrameHere, Starting, Answering,
           Reading, Controlling, Requesting, WithSync, WithoutSync, DataHere, Writing, Receiving, Own
  <2>2. QED
    BY <1>0, <2>1 DEF Conversation
<1>2. inq = <<>> /\ port.rx = <<>> /\ buf = <<FrameByte("frame1"), FrameByte("frame2")>> /\ emu.cmd \in Commands
  BY <1>1, Numbered DEF Checking, Mute
<1>3. inq' = inq /\ port' = port
  BY <1>2 DEF RejectFrame, Available, HandleNetsio, Receive
<1>4. ~InStep
  <2> SUFFICES ASSUME InStep PROVE FALSE
    OBVIOUS
  <2>1. buf = <<Byte(emu.cmd, "frame1", TRUE), Byte(emu.cmd, "frame2", TRUE)>>
    BY <1>2 DEF FrameByte, InStep
  <2>2. [i \in 1..2 |-> Byte(emu.cmd, FrameParts[i], TRUE)] = <<Byte(emu.cmd, "frame1", TRUE), Byte(emu.cmd, "frame2", TRUE)>>
    BY <1>2, GoodFrame
  <2>3. FrameOk
    BY <1>2, <2>1, <2>2 DEF FrameOk
  <2>4. QED
    BY <1>0, <2>3
<1>5. PICK n : n = bus.command_frame_counter + 1
  OBVIOUS
<1>6. n \in {1, 2} /\ bus.command_frame_counter \in {0, 1}
  BY <1>0, <1>5 DEF Buses
<1>7. /\ bus' = [bus EXCEPT !.command_frame_counter = n % 2]
      /\ todo' = IF n = 2 THEN <<"toggle">> ELSE <<>>
      /\ hist' = [hist EXCEPT !.rejects = IF port.baud = bus.sioBaud THEN @ + 1 ELSE 0]
  BY <1>5 DEF RejectFrame, Threshold
<1>8. bus'.sioBaud = bus.sioBaud /\ bus'.command_frame_counter = n % 2
  BY <1>0, <1>7 DEF Buses
<1>9. hist'.rejects = IF port.baud = bus.sioBaud THEN hist.rejects + 1 ELSE 0
  BY <1>0, <1>7 DEF Histories
<1>10. port.baud = bus.sioBaud /\ hist'.rejects = hist.rejects + 1 /\ hist.rejects \in Int
  BY <1>0, <1>9 DEF Histories
<1>11. NoSpeed'
  BY <1>2, <1>3 DEF NoSpeed
<1>12. <<"toggle">> # <<>> /\ Threshold = 2
  BY DEF Threshold
<1>13. CASE hist.rejects > 0
  <2>1. hist.rejects = 1 /\ bus.command_frame_counter = 1
    BY <1>0, <1>4, <1>12, <1>13 DEF SpeedSought
  <2>2. n = 2
    BY <1>5, <2>1
  <2>3. hist'.rejects = 2
    BY <1>10, <2>1
  <2>4. ~InStep'
    BY <1>3, <1>4 DEF InStep
  <2>5. QED
    BY <1>3, <1>7, <1>8, <1>10, <1>11, <1>12, <2>2, <2>3, <2>4
<1>14. CASE ~(hist.rejects > 0)
  <2>1. hist'.rejects = 1
    BY <1>10, <1>14
  <2>2. CASE n = 1
    BY <1>7, <1>8, <1>11, <1>12, <2>1, <2>2
  <2>3. CASE n = 2
    <3>1. ~InStep'
      BY <1>3, <1>4 DEF InStep
    <3>2. QED
      BY <1>3, <1>7, <1>8, <1>10, <1>11, <1>12, <2>1, <2>3, <3>1
  <2>4. QED
    BY <1>6, <2>2, <2>3
<1>15. QED
  BY <1>13, <1>14

LEMMA StepSought ==
  ASSUME Typed, Orderly, Calm, SpeedSought, [Next]_vars
  PROVE  SpeedSought'
<1>0. hist \in Histories /\ bus \in Buses /\ port \in Ports /\ AtRest
  BY DEF Typed, Orderly
<1>c. ~hist.disturbed => port.initialized /\ Conversation
  BY DEF Calm
<1>s. (~hist.disturbed /\ hist.rejects > 0) => NoSpeed /\ todo \in {<<>>, <<"toggle">>}
  BY DEF SpeedSought, NoSpeed
<1>t. <<"toggle">> # <<>> /\ Head(<<"toggle">>) = "toggle" /\ Tail(<<"toggle">>) = <<>>
  OBVIOUS
<1>1. CASE \E kind \in Kinds, s \in Speeds : Issue(kind, s)
  <2>1. PICK kind \in Kinds, s \in Speeds : Issue(kind, s)
    BY <1>1
  <2>2. PICK r : r = IF s = emu.speed /\ ~hist.disturbed THEN hist.rejects ELSE 0
    OBVIOUS
  <2>3. hist' = [hist EXCEPT !.disturbed = @ /\ ~Quiescent, !.rejects = r] /\ UNCHANGED <<port, todo, bus>>
    BY <2>1, <2>2 DEF Issue, dev
  <2>4. hist'.rejects = r
    BY <1>0, <2>3 DEF Histories
  <2> SUFFICES ASSUME ~hist'.disturbed, hist'.rejects > 0 PROVE SpeedSought'
    BY DEF SpeedSought
  <2>5. s = emu.speed /\ ~hist.disturbed /\ hist'.rejects = hist.rejects /\ hist.rejects > 0
    BY <2>2, <2>4
  <2>6. NoSpeed'
    <3>1. PICK q \in Seq(InMsgs) :
            /\ inq' = inq \o q /\ Len(q) = 3
            /\ q[Len(q) - 2] = OnMsg /\ q[Len(q) - 1] = Data(emu.cmd + 1, FrameParts)
            /\ q[Len(q)] = OffSync(emu.cmd + 1)
      BY <2>1, <2>5, Asks
    <3>2. q[1] = OnMsg /\ q[2] = Data(emu.cmd + 1, FrameParts) /\ q[3] = OffSync(emu.cmd + 1)
      BY <3>1
    <3>3. q[1].type = "ON" /\ q[2].type = "DATA" /\ q[3].type = "OFF_SYNC"
      BY <3>2 DEF OnMsg, Data, OffSync
    <3>4. \A i \in 1..Len(q) : q[i].type # "SPEED"
      BY <3>1, <3>3
    <3>5. inq \in Seq(InMsgs)
      BY DEF Typed
    <3>6. /\ \A i \in 1..Len(inq) : inq'[i] = inq[i]
          /\ \A i \in 1..Len(inq') : i \in 1..Len(inq) \/ (inq'[i] = q[i - Len(inq)] /\ i - Len(inq) \in 1..Len(q))
      <4>1. inq' = inq \o q /\ q \in Seq(InMsgs)
        BY <3>1
      <4>0. PICK a : a = Len(inq)
        OBVIOUS
      <4>b. PICK b : b = Len(q)
        OBVIOUS
      <4>2. a = Len(inq) /\ b = Len(q) /\ a \in Nat /\ b \in Nat
        BY <3>5, <4>0, <4>b, <4>1
      <4>3. Len(inq') = a + b
        BY <3>5, <4>1, <4>2
      <4>4. \A i \in 1..a : inq'[i] = inq[i]
        BY <3>5, <4>1, <4>2
      <4>5. \A i \in (a + 1)..(a + b) : inq'[i] = q[i - a]
        BY <3>5, <4>1, <4>2
      <4>6. \A i \in 1..(a + b) : i \in 1..a \/ (i \in (a + 1)..(a + b) /\ i - a \in 1..b)
        BY <4>2
      <4>7. QED
        BY <4>2, <4>3, <4>4, <4>5, <4>6
    <3>7. QED
      BY <1>s, <2>5, <3>4, <3>6 DEF NoSpeed
  <2>7. QED
    BY <2>3, <2>5, <2>6 DEF SpeedSought, InStep, NoSpeed
<1>2. CASE HubReceive \/ Grant \/ (\E sync \in BOOLEAN : SendData(sync)) \/ UNCHANGED vars
  <2>1. UNCHANGED <<hist, port, todo, bus>>
    BY <1>2 DEF HubReceive, Grant, SendData, vars, dev
  <2>2. NoSpeed => NoSpeed'
    <3>1. CASE HubReceive \/ UNCHANGED vars
      BY <3>1 DEF HubReceive, vars, NoSpeed
    <3>0. inq \in Seq(InMsgs)
      BY DEF Typed
    <3>2. CASE Grant
      <4>1. Credit(InitialCredit) \in InMsgs /\ Credit(InitialCredit).type # "SPEED"
        BY DEF InMsgs, Others, Credit
      <4>2. inq' = Append(inq, Credit(InitialCredit))
        BY <3>2 DEF Grant
      <4>3. \A i \in 1..Len(inq') : (i \in 1..Len(inq) /\ inq'[i] = inq[i]) \/ inq'[i] = Credit(InitialCredit)
        BY <3>0, <4>1, <4>2
      <4>4. QED
        BY <4>1, <4>3 DEF NoSpeed
    <3>3. CASE \E sync \in BOOLEAN : SendData(sync)
      <4>1. PICK sync \in BOOLEAN : SendData(sync)
        BY <3>3
      <4>2. PICK q \in Seq(InMsgs) :
              /\ inq' = inq \o q
              /\ port.initialized /\ sync => q = <<Data(emu.cmd, <<"data">>), DataSync(emu.cmd, "cksum")>>
              /\ port.initialized /\ ~sync => q = <<Data(emu.cmd, DataParts)>>
              /\ ~port.initialized => q = <<>>
        BY <4>1, Asks
      <4>3. /\ Data(emu.cmd, <<"data">>).type # "SPEED" /\ DataSync(emu.cmd, "cksum").type # "SPEED"
            /\ Data(emu.cmd, DataParts).type # "SPEED"
        BY DEF Data, DataSync
      <4>4. \A i \in 1..Len(q) : q[i].type # "SPEED"
        BY <1>0, <4>2, <4>3 DEF Ports
      <4>5. /\ \A i \in 1..Len(inq) : inq'[i] = inq[i]
            /\ \A i \in 1..Len(inq') : i \in 1..Len(inq) \/ (inq'[i] = q[i - Len(inq)] /\ i - Len(inq) \in 1..Len(q))
        BY <3>0, <4>2
      <4>6. QED
        BY <4>4, <4>5 DEF NoSpeed
    <3>4. QED
      BY <1>2, <3>1, <3>2, <3>3
  <2>3. QED
    BY <1>s, <2>1, <2>2, SoughtKept
<1>3. CASE GiveUp
  <2>1. hist' = [hist EXCEPT !.disturbed = @ \/ ~Quiescent] /\ UNCHANGED <<inq, port, todo, bus>>
    BY <1>3 DEF GiveUp, dev
  <2>2. hist'.disturbed = (hist.disturbed \/ ~Quiescent) /\ hist'.rejects = hist.rejects
    BY <1>0, <2>1 DEF Histories
  <2>3. QED
    BY <2>1, <2>2 DEF SpeedSought, InStep
<1>4. CASE Suspend \/ Reconnect
  <2>1. hist' = [hist EXCEPT !.disturbed = TRUE]
    BY <1>4 DEF Suspend, Reconnect
  <2>2. hist'.disturbed
    BY <1>0, <2>1 DEF Histories
  <2>3. QED
    BY <2>2 DEF SpeedSought
<1>5. CASE Dispatch
  <2>1. hist' = [hist EXCEPT !.rejects = 0]
    BY <1>5 DEF Dispatch
  <2>2. hist'.rejects = 0
    BY <1>0, <2>1 DEF Histories
  <2>3. QED
    BY <2>2 DEF SpeedSought
<1>6. CASE RejectFrame
  <2> SUFFICES ASSUME ~hist'.disturbed, hist'.rejects > 0 PROVE SpeedSought'
    BY DEF SpeedSought
  <2>1. ~hist.disturbed
    BY <1>6, Undisturbed DEF Device
  <2>2. QED
    BY <1>c, <1>6, <2>1, RejectStep DEF SpeedSought, NoSpeed
<1>7. CASE service \/ ReadFrame \/ WaitDeassert \/ wait_for_credit \/ ReadData \/ ReadChecksum
  <2>1. hist' = hist
    BY <1>7 DEF service, ReadFrame, WaitDeassert, wait_for_credit, ReadData, ReadChecksum
  <2> SUFFICES ASSUME ~hist.disturbed, hist.rejects > 0 PROVE SpeedSought'
    BY <2>1 DEF SpeedSought
  <2>2. ~ReadData /\ ~ReadChecksum
    BY <1>s, <1>t DEF ReadData, ReadChecksum, Doing
  <2>3. /\ todo' = todo /\ bus'.sioBaud = bus.sioBaud /\ bus'.command_frame_counter = bus.command_frame_counter
    <3>1. bus' = bus \/ bus' = [bus EXCEPT !.processed = FALSE]
      BY <1>7, <2>2 DEF service, ReadFrame, WaitDeassert, wait_for_credit
    <3>2. QED
      BY <1>0, <1>7, <2>2, <3>1 DEF service, ReadFrame, WaitDeassert, wait_for_credit, dev, Buses
  <2>4. Receive \/ (inq' = inq /\ port'.baud = port.baud /\ port'.baud_peer = port.baud_peer)
    <3>1. HandleNetsio => Receive \/ (inq' = inq /\ port' = port)
      BY DEF HandleNetsio
    <3>2. ReadByte => Receive \/ (inq' = inq /\ port'.baud = port.baud /\ port'.baud_peer = port.baud_peer)
      BY <1>0 DEF ReadByte, Ports
    <3>3. QED
      BY <1>7, <2>2, <3>1, <3>2 DEF service, ReadFrame, WaitDeassert, wait_for_credit
  <2>5. NoSpeed' /\ port'.baud = port.baud /\ port'.baud_peer = port.baud_peer
    <3>1. CASE Receive
      BY <1>s, <3>1, SoughtReceived
    <3>2. CASE inq' = inq /\ port'.baud = port.baud /\ port'.baud_peer = port.baud_peer
      BY <1>s, <3>2 DEF NoSpeed
    <3>3. QED
      BY <2>4, <3>1, <3>2
  <2>6. QED
    BY <2>1, <2>3, <2>5, SoughtKept
<1>8. CASE \/ WriteByte \/ WriteBlock \/ Flush \/ LateAckOp \/ SetWriteSize \/ DataTimeout
           \/ ChecksumFails \/ Outcome
  <2>1. hist' = hist
    BY <1>8 DEF WriteByte, WriteBlock, Flush, LateAckOp, SetWriteSize, DataTimeout, ChecksumFails, Outcome
  <2>2. todo # <<>> /\ Head(todo) # "toggle"
    BY <1>8 DEF WriteByte, WriteBlock, Flush, LateAckOp, SetWriteSize, DataTimeout, ChecksumFails, Outcome, Doing
  <2>3. ~(~hist.disturbed /\ hist.rejects > 0)
    BY <1>s, <1>t, <2>2
  <2>4. QED
    BY <2>1, <2>3 DEF SpeedSought
<1>9. CASE Toggle
  <2>1. hist' = hist /\ Doing("toggle") /\ inq' = inq /\ todo' = Tail(todo)
    BY <1>9 DEF Toggle
  <2> SUFFICES ASSUME ~hist.disturbed, hist.rejects > 0 PROVE SpeedSought'
    BY <2>1 DEF SpeedSought
  <2>2. todo # <<>>
    BY <2>1 DEF Doing
  <2>3. todo = <<"toggle">> /\ ~InStep /\ port.baud = bus.sioBaud /\ hist.rejects <= Threshold /\ NoSpeed
    BY <2>2 DEF SpeedSought, NoSpeed
  <2>4. port' = [port EXCEPT !.baud = Other(bus.sioBaud)]
    BY <1>c, <1>9 DEF Toggle, toggleBaudrate
  <2>5. port'.baud = Other(port.baud) /\ port'.baud_peer = port.baud_peer
    BY <1>0, <2>3, <2>4 DEF Ports
  <2>6. InStep'
    BY <1>0, <2>3, <2>5 DEF InStep, Other, Ports, BothSpeeds
  <2>7. todo' = <<>>
    BY <1>t, <2>1, <2>3
  <2>8. QED
    BY <2>1, <2>3, <2>6, <2>7 DEF SpeedSought, NoSpeed
<1>10. CASE Send \/ FrameTimeout \/ DeassertTimeout \/ Return \/ EmptyAckSent
  <2>1. UNCHANGED <<inq, todo, bus>> /\ hist'.rejects = hist.rejects
    BY <1>0, <1>10 DEF Send, FrameTimeout, DeassertTimeout, Return, EmptyAckSent, Histories
  <2>2. hist'.disturbed = hist.disturbed
    BY <1>10, Undisturbed DEF Device
  <2>3. port'.baud = port.baud /\ port'.baud_peer = port.baud_peer
    <3>1. port' = port \/ port' = [port EXCEPT !.credit = @ - 1] \/ port' = ClearSync(port)
      BY <1>10 DEF Send, FrameTimeout, DeassertTimeout, Return, EmptyAckSent
    <3>2. QED
      BY <1>0, <3>1 DEF ClearSync, Ports
  <2>4. NoSpeed => NoSpeed'
    BY <2>1 DEF NoSpeed
  <2>5. QED
    BY <1>s, <2>1, <2>2, <2>3, <2>4, SoughtKept
<1>11. CASE SendFails \/ begin
  <2>1. hist' = hist /\ ~port.initialized
    BY <1>11 DEF SendFails, begin
  <2>2. QED
    BY <1>c, <2>1 DEF SpeedSought
<1>12. QED
  BY <1>1, <1>2, <1>3, <1>4, <1>5, <1>6, <1>7, <1>8, <1>9, <1>10, <1>11 DEF Next, Hub, Device

LEMMA InitSought ==
  ASSUME Init
  PROVE  SpeedSought
<1>1. hist.rejects = 0
  BY DEF Init
<1>2. QED
  BY <1>1 DEF SpeedSought

-----------------------------------------------------------------------------
\* Whatever disturbed the bus before, once it has come to rest the device finds
\* the computer's speed: of the frames that come at one speed at most two in a
\* row are rejected: SpeedFound.
THEOREM SpeedIsFound == Spec => []SpeedFound
<1> DEFINE Inv == Typed /\ OnePlace /\ Orderly /\ Calm /\ SpeedSought
<1>1. Init => Inv
  BY InitPlaces, InitOrderly, InitCalm, InitSought
<1>2. Inv /\ [Next]_vars => Inv'
  BY StepPlaces, StepOrderly, StepCalm, StepSought
<1>3. Inv => SpeedFound
  <2>1. ASSUME Inv, ~hist.disturbed PROVE hist.rejects <= Threshold
    <3>1. hist.rejects \in Int
      BY <2>1 DEF Typed, Histories
    <3>2. CASE hist.rejects > 0
      BY <2>1, <3>2 DEF SpeedSought
    <3>3. CASE ~(hist.rejects > 0)
      BY <3>1, <3>3 DEF Threshold
    <3>4. QED
      BY <3>2, <3>3
  <2>2. QED
    BY <2>1 DEF SpeedFound
<1>4. QED
  BY <1>1, <1>2, <1>3, PTL DEF Spec

\* The two phases in which a sync response is at the head of the datagrams to
\* send; it answers the command being handled, as its handler chose.
LEMMA ResponseIsOwn ==
  ASSUME Typed, Orderly, Conversation, out # <<>>, Head(out).type = "SYNC_RESPONSE"
  PROVE  /\ cur = emu.cmd /\ emu.cmd \in Commands
         /\ \/ /\ Head(out).num = emu.cmd
               /\ \/ Head(out).byte = "A" /\ Head(out).size = 0 /\ Kind \notin PutKinds
                  \/ Head(out).byte = "A" /\ Head(out).size = 2 /\ Kind \in PutKinds
                  \/ Head(out).byte \in {"", "N"} /\ Head(out).size = 0
                  \/ Head(out).byte = "E" /\ Head(out).size = 0 /\ Kind = "closed"
            \/ /\ Head(out).num = DataSyncOf(emu.cmd)
               /\ Head(out).byte = "A" /\ buf = DataBytes
<1>1. ASSUME NEW c PROVE Head(<<DataByte(c)>>).type # "SYNC_RESPONSE"
  BY DEF DataByte
<1>2. Answering \/ (Writing /\ out = <<SyncResponse(DataSyncOf(emu.cmd), "ACK", "A", 0)>> /\ buf = DataBytes)
  <2>1. Resting \/ Coming => Closing
    BY DEF Resting, Coming
  <2>2. ~Closing
    BY <1>1 DEF Closing
  <2>3. ~Swallowing /\ ~Swallowed
    BY <1>1 DEF Swallowing, Swallowed
  <2>4. ~Reading /\ ~Controlling
    BY <1>1 DEF Reading, Controlling
  <2>5. ~FrameAwaited /\ ~FrameHere /\ ~Checking
    BY DEF FrameAwaited, FrameHere, Checking, Orderly, AtRest
  <2>6. ~Starting
    BY DEF Starting
  <2>7. ~Requesting /\ ~WithSync /\ ~WithoutSync /\ ~DataHere
    BY DEF Requesting, WithSync, WithoutSync, DataHere, Receiving
  <2>8. Writing => out = <<SyncResponse(DataSyncOf(emu.cmd), "ACK", "A", 0)>> /\ buf = DataBytes
    BY <1>1 DEF Writing
  <2>9. QED
    BY <2>1, <2>2, <2>3, <2>4, <2>5, <2>6, <2>7, <2>8 DEF Conversation
<1>3. cur = emu.cmd /\ emu.cmd \in Commands
  <2>1. (Answering => Mute) /\ (Writing => Held)
    BY DEF Answering, Writing
  <2>2. emu.st # "run"
    BY <1>2, <2>1 DEF Mute, Held
  <2>3. QED
    BY <1>2, <2>2, Numbered DEF Answering, Writing, Own
<1>4. ASSUME NEW k, NEW t, NEW c, NEW n, out = <<SyncResponse(k, t, c, n)>>
      PROVE  Head(out).num = k /\ Head(out).byte = c /\ Head(out).size = n
  BY <1>4 DEF SyncResponse
<1>5. CASE Answering
  <2>1. CASE out = <<SyncResponse(emu.cmd, "ACK", "A", 0)>> /\ (Kind \in ReadKinds \/ Kind = "control")
    <3>1. Head(out).num = emu.cmd /\ Head(out).byte = "A" /\ Head(out).size = 0
      BY <1>4, <2>1
    <3>2. Kind \notin PutKinds
      BY <2>1 DEF ReadKinds, PutKinds
    <3>3. QED
      BY <1>3, <3>1, <3>2
  <2>2. CASE out = <<SyncResponse(emu.cmd, "ACK", "N", 0)>>
    <3>1. Head(out).num = emu.cmd /\ Head(out).byte = "N" /\ Head(out).size = 0
      BY <1>4, <2>2
    <3>2. QED
      BY <1>3, <3>1
  <2>3. CASE out = <<SyncResponse(emu.cmd, "ACK", "E", 0)>> /\ Kind = "closed"
    <3>1. Head(out).num = emu.cmd /\ Head(out).byte = "E" /\ Head(out).size = 0
      BY <1>4, <2>3
    <3>2. QED
      BY <1>3, <2>3, <3>1
  <2>4. CASE out = <<SyncResponse(emu.cmd, "EMPTY", "", 0)>>
    <3>1. Head(out).num = emu.cmd /\ Head(out).byte = "" /\ Head(out).size = 0
      BY <1>4, <2>4
    <3>2. QED
      BY <1>3, <3>1
  <2>5. CASE out = <<SyncResponse(emu.cmd, "ACK", "A", 2)>> /\ Kind \in PutKinds
    <3>1. Head(out).num = emu.cmd /\ Head(out).byte = "A" /\ Head(out).size = 2
      BY <1>4, <2>5
    <3>2. QED
      BY <1>3, <2>5, <3>1
  <2>6. QED
    BY <1>5, <2>1, <2>2, <2>3, <2>4, <2>5 DEF Answering
<1>6. CASE Writing /\ out = <<SyncResponse(DataSyncOf(emu.cmd), "ACK", "A", 0)>> /\ buf = DataBytes
  <2>1. Head(out).num = DataSyncOf(emu.cmd) /\ Head(out).byte = "A"
    BY <1>4, <1>6
  <2>2. QED
    BY <1>3, <1>6, <2>1
<1>7. QED
  BY <1>2, <1>5, <1>6

\* Only sending changes the answers.
LEMMA AnswersKept ==
  ASSUME Typed, [Next]_vars, ~Send
  PROVE  hist'.answers = hist.answers
<1>0. hist \in Histories
  BY DEF Typed
<1>1. CASE \E kind \in Kinds, s \in Speeds : Issue(kind, s)
  BY <1>0, <1>1 DEF Issue, Histories
<1>2. CASE GiveUp \/ Suspend \/ Reconnect \/ Dispatch \/ RejectFrame
  BY <1>0, <1>2 DEF GiveUp, Suspend, Reconnect, Dispatch, RejectFrame, Histories
<1>3. CASE Hub \/ UNCHANGED vars
  BY <1>3 DEF Hub, HubReceive, Grant, SendData, vars
<1>4. CASE Device /\ ~Dispatch /\ ~RejectFrame
  BY <1>4 DEF Device, service, ReadFrame, FrameTimeout, WaitDeassert, DeassertTimeout, wait_for_credit, SendFails,
    WriteByte, WriteBlock, Flush, LateAckOp, SetWriteSize, ReadData, DataTimeout, ReadChecksum, ChecksumFails,
    Outcome, Toggle, Return, EmptyAckSent, begin
<1>5. QED
  BY <1>1, <1>2, <1>3, <1>4 DEF Next

LEMMA StepOwn ==
  ASSUME Typed, Orderly, Calm, [Next]_vars
  PROVE  AnswersOwn
<1> SUFFICES ASSUME Send, ~hist.disturbed PROVE AnswersOwn
  BY AnswersKept DEF AnswersOwn
<1>0. hist \in Histories /\ Conversation /\ out # <<>> /\ out \in Seq(OutMsgs)
  BY DEF Typed, Calm, Send
<1>1. CASE Head(out).type # "SYNC_RESPONSE"
  BY <1>1 DEF Send, AnswersOwn
<1>2. CASE Head(out).type = "SYNC_RESPONSE"
  <2>1. PICK m : m = Head(out)
    OBVIOUS
  <2>2. PICK n : n = Head(out).num
    OBVIOUS
  <2>3. /\ cur = emu.cmd /\ emu.cmd \in Commands
        /\ \/ /\ n = emu.cmd
              /\ \/ m.byte = "A" /\ m.size = 0 /\ Kind \notin PutKinds
                 \/ m.byte = "A" /\ m.size = 2 /\ Kind \in PutKinds
                 \/ m.byte \in {"", "N"} /\ m.size = 0
                 \/ m.byte = "E" /\ m.size = 0 /\ Kind = "closed"
           \/ n = DataSyncOf(emu.cmd) /\ m.byte = "A" /\ buf = DataBytes
    BY <1>0, <1>2, <2>1, <2>2, ResponseIsOwn
  <2>4. n \in Syncs /\ m \in OutMsgs
    <3>1. n \in Syncs
      BY <2>3, Sizes
    <3>2. m \in OutMsgs
      BY <1>0, <2>1
    <3>3. QED
      BY <3>1, <3>2
  <2>5. hist' = [hist EXCEPT !.answers[n] = Append(@, m)]
    BY <1>2, <2>1, <2>2 DEF Send
  <2>6. /\ hist'.answers[n] = Append(hist.answers[n], m)
        /\ \A j \in Syncs : j # n => hist'.answers[j] = hist.answers[j]
    BY <1>0, <2>4, <2>5 DEF Histories
  <2>7. Last(hist'.answers[n]) = m
    <3>1. PICK a \in Seq(OutMsgs) : a = hist.answers[n]
      BY <1>0, <2>4 DEF Histories
    <3>2. Last(Append(a, m)) = m
      BY <2>4 DEF Last
    <3>3. QED
      BY <2>6, <3>1, <3>2
  <2>8. DataOk(DataBytes)
    BY DEF DataOk, DataBytes, Byte
  <2> SUFFICES ASSUME NEW k \in Commands
               PROVE  /\ (hist'.answers[k] # hist.answers[k])
                           => LET w == Last(hist'.answers[k]) IN
                              /\ k = cur
                              /\ w.byte \in {"", "A", "N"} \/ (w.byte = "E" /\ emu.kind[k] = "closed")
                              /\ (w.size > 0) = (w.byte = "A" /\ emu.kind[k] \in {"put", "hsput"})
                      /\ (hist'.answers[DataSyncOf(k)] # hist.answers[DataSyncOf(k)])
                           => LET w == Last(hist'.answers[DataSyncOf(k)]) IN
                              /\ k = cur
                              /\ w.byte = IF DataOk(buf) THEN "A" ELSE "N"
    BY DEF AnswersOwn
  <2>9. ASSUME hist'.answers[k] # hist.answers[k]
        PROVE  /\ k = cur /\ Last(hist'.answers[k]) = m
               /\ m.byte \in {"", "A", "N"} \/ (m.byte = "E" /\ emu.kind[k] = "closed")
               /\ (m.size > 0) = (m.byte = "A" /\ emu.kind[k] \in {"put", "hsput"})
    <3>1. n = k
      BY <2>6, <2>9, Sizes
    <3>2. n = emu.cmd
      BY <2>3, <3>1, Sizes
    <3>3. n # DataSyncOf(emu.cmd)
      BY <2>3, <3>2, Sizes
    <3>4. /\ k = cur /\ Last(hist'.answers[k]) = m /\ Kind = emu.kind[k]
          /\ \/ m.byte = "A" /\ m.size = 0 /\ Kind \notin PutKinds
             \/ m.byte = "A" /\ m.size = 2 /\ Kind \in PutKinds
             \/ m.byte \in {"", "N"} /\ m.size = 0
             \/ m.byte = "E" /\ m.size = 0 /\ Kind = "closed"
      BY <2>3, <2>7, <3>1, <3>2, <3>3 DEF Kind
    <3>5. CASE m.byte = "A" /\ m.size = 2 /\ Kind \in PutKinds
      <4>1. (m.size > 0) = TRUE /\ (m.byte = "A" /\ emu.kind[k] \in {"put", "hsput"}) = TRUE
        BY <3>4, <3>5 DEF PutKinds
      <4>2. QED
        BY <3>4, <3>5, <4>1
    <3>6. CASE m.size = 0 /\ ~(m.byte = "A" /\ Kind \in PutKinds)
      <4>0. ~(m.size > 0) /\ ~(m.byte = "A" /\ emu.kind[k] \in {"put", "hsput"})
        <5>1. ~(m.size > 0)
          BY <3>6
        <5>2. Kind = emu.kind[k] /\ PutKinds = {"put", "hsput"}
          BY <3>4 DEF PutKinds
        <5>3. QED
          BY <3>6, <5>1, <5>2
      <4>1. (m.size > 0) = FALSE /\ (m.byte = "A" /\ emu.kind[k] \in {"put", "hsput"}) = FALSE
        BY <3>6, <4>0
      <4>2. m.byte \in {"", "A", "N"} \/ (m.byte = "E" /\ emu.kind[k] = "closed")
        BY <3>4
      <4>3. (m.size > 0) = (m.byte = "A" /\ emu.kind[k] \in {"put", "hsput"})
        BY <4>1
      <4>4. QED
        BY <3>4, <4>2, <4>3
    <3>7. QED
      BY <3>4, <3>5, <3>6
  <2>10. ASSUME hist'.answers[DataSyncOf(k)] # hist.answers[DataSyncOf(k)]
         PROVE  /\ k = cur /\ Last(hist'.answers[DataSyncOf(k)]) = m
                /\ m.byte = IF DataOk(buf) THEN "A" ELSE "N"
    <3>1. n = DataSyncOf(k)
      BY <2>6, <2>10, Sizes
    <3>2. n # emu.cmd
      BY <2>3, <3>1, Sizes
    <3>3. k = emu.cmd
      BY <2>3, <3>1, <3>2, Sizes
    <3>4. QED
      BY <2>3, <2>7, <2>8, <3>1, <3>2, <3>3
  <2>11. QED
    BY <2>9, <2>10
<1>3. QED
  BY <1>1, <1>2

\* A sync request is answered by the handler of its own command, with a byte the
\* computer can take for an acknowledge and with a size exactly when the command
\* has a data frame to come: AnswerIsOwn.
THEOREM AnswersAreOwn == Spec => AnswerIsOwn
<1> DEFINE Inv == Typed /\ OnePlace /\ Orderly /\ Calm
<1>1. Init => Inv
  BY InitPlaces, InitOrderly, InitCalm
<1>2. Inv /\ [Next]_vars => Inv'
  BY StepPlaces, StepOrderly, StepCalm
<1>3. Inv /\ [Next]_vars => [AnswersOwn]_vars
  BY StepOwn
<1>4. QED
  BY <1>1, <1>2, <1>3, PTL DEF Spec, AnswerIsOwn
=============================================================================
