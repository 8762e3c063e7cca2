---------------------- MODULE TnfsTransaction_proof ----------------------
(***************************************************************************)
(* Proofs about TnfsTransaction, for every number of calls, attempts and   *)
(* sessions: requests and replies are lost, duplicated and reordered,      *)
(* sessions vanish at any moment, mounts meet old servers and the bus may  *)
(* shut down.  The first parts are for a server that does not answer       *)
(* TRY_AGAIN and ports that are not used again (Faults = {}), the last one *)
(* is for any faults.                                                      *)
(***************************************************************************)
EXTENDS TnfsTransaction, SequenceTheorems, TLAPS

(***************************************************************************)
(* The inductive invariant.                                                *)
(***************************************************************************)
Commands == {"PATH", "FD"}
Requests == [type : {"req"}, sock : Sockets, pkt : Packets]
Replies == [type : {"rep"}, sock : Sockets, sess : 0 .. MaxSessions, seq : SeqNums, cmd : Cmds,
            res : {"OK", "INVALID_HANDLE"}, of : 0 .. MaxCalls]
Remembered == [sess : Sessions, res : {"OK"}, of : 0 .. MaxCalls, seq : SeqNums]
Returns == [cmd : Cmds \cup {"NONE"}, res : Results, of : 0 .. MaxCalls]

Typed ==
  /\ session \in 0 .. issued
  /\ current_sequence_num \in SeqNums
  /\ calls \in 0 .. MaxCalls
  /\ ret \in [Calls -> Returns]
  /\ shutting_down \in BOOLEAN
  /\ net \subseteq Requests \cup Replies
  /\ issued \in 0 .. MaxSessions /\ live \subseteq 1 .. issued
  /\ last \in [Sessions -> Remembered \cup {NoReply}]
  /\ \A s \in Sessions : last[s] \in Remembered => last[s].sess = s
  /\ exec \in [Calls -> [Sessions -> Nat]]

\* A transaction of the current call.  Its packet is its own request again whenever it
\* may be sent, and a mount or unmount took the last sequence number that was given.
Own(f, depth) ==
  /\ f.sock = <<depth, f.pkt.seq>> /\ f.expect = f.pkt.seq
  /\ f.pkt.cmd = f.cmd /\ f.pkt.body = calls
  /\ f.pc = "wait" => f.retry < MaxRetries
  /\ f.cmd = "FD" => f.pkt.sess <= issued
  /\ f.cmd = "MOUNT" => f.pkt.sess = NoSession
  /\ f.cmd \notin Commands => current_sequence_num = (f.pkt.seq + 1) % SeqMod

\* What the only transaction is there for, and what the one of a recovery is.
Sole(f, cmd, sess) ==
  \/ f.cmd \in Commands /\ f.then = "return" /\ cmd = f.cmd
  \/ f.cmd = "MOUNT" /\ f.then = "return" /\ cmd = "MOUNT" /\ sess = NoSession
  \/ f.cmd = "UNMOUNT" /\ f.then = "return" /\ cmd = "UNMOUNT"
  \/ f.cmd = "UNMOUNT" /\ f.then = "mount" /\ cmd = "MOUNT"
  \/ f.cmd = "UNMOUNT" /\ f.then = "refuse" /\ cmd = "MOUNT" /\ sess \in OldSessions
Inner(g, sess) ==
  \/ g.cmd = "MOUNT" /\ g.then = "return" /\ sess = NoSession
  \/ g.cmd = "UNMOUNT" /\ g.then = "refuse" /\ sess \in OldSessions

Alone(f) == frames = <<f>> /\ Own(f, 0) /\ Sole(f, ret[calls].cmd, session)
Nested(f, g) ==
  /\ frames = <<f, g>> /\ Own(f, 0) /\ Own(g, 1)
  /\ f.cmd \in Commands /\ f.then = "return" /\ ret[calls].cmd = f.cmd
  /\ Inner(g, session)
Stack ==
  \/ frames = <<>>
  \/ calls \in Calls /\ \E f \in Frames : Alone(f)
  \/ calls \in Calls /\ \E f, g \in Frames : Nested(f, g)

\* A datagram of transaction f: a request of its own, or a reply to one.  What is in
\* flight belongs to an active transaction; a mount is answered with a session that is
\* newer than the one of the command on a handle that it interrupts.
Belongs(m, f) ==
  /\ m.sock = f.sock
  /\ m.type = "req" => /\ m.pkt.seq = f.pkt.seq /\ m.pkt.cmd = f.cmd /\ m.pkt.body = f.pkt.body
                       /\ f.cmd = "FD" => m.pkt.sess = f.pkt.sess
  /\ m.type = "rep" => /\ m.seq = f.pkt.seq /\ m.cmd = f.cmd
                       /\ f.cmd = "FD" => m.sess = f.pkt.sess
                       /\ f.cmd = "MOUNT" => m.res = "OK"
InFlight(m, fs) == \E k \in 1 .. Len(fs) : Belongs(m, fs[k])
Newer(m, fs) ==
  (m.type = "rep" /\ m.cmd = "MOUNT") =>
    m.sess \in 1 .. issued /\ ((Len(fs) = 2 /\ fs[1].cmd = "FD") => fs[1].pkt.sess < m.sess)
Delivery == \A m \in net : InFlight(m, frames) /\ Newer(m, frames)

\* The server's record of the current call: a session that executed it remembers its
\* sequence number, and for a command on a handle that session is the packet's.
Marked(f, s) == /\ f.cmd \in Commands /\ (s \notin overtaken => last[s].seq = f.pkt.seq)
                /\ f.cmd = "FD" => s = f.pkt.sess
Once ==
  /\ AtMostOnce
  /\ \A i \in Calls, s \in Sessions : i > calls => exec[i][s] = 0
  /\ frames # <<>> => \A s \in Sessions : exec[calls][s] > 0 => Marked(frames[1], s)

Later == \A i \in Calls : i > calls => ret[i].res = "PENDING"

Inv == Typed /\ Stack /\ Delivery /\ Once /\ Later /\ MountGivesSession /\ RecoveryOutcome

-----------------------------------------------------------------------------
LEMMA Parameters ==
  /\ MaxCalls \in Nat /\ MaxRetries \in Nat /\ MaxRetries > 0 /\ MaxSessions \in Nat
  /\ OldSessions \subseteq 1 .. MaxSessions /\ SeqMod \in Nat /\ SeqMod > 1
BY TnfsAssumption

\* The next sequence number is another one.
LEMMA NextNumber ==
  ASSUME NEW n \in SeqNums
  PROVE  (n + 1) % SeqMod \in SeqNums /\ (n + 1) % SeqMod # n
<1>1. n \in Nat /\ n < SeqMod
  BY Parameters DEF SeqNums
<1>2. CASE n + 1 < SeqMod
  BY <1>1, <1>2, Parameters DEF SeqNums
<1>3. CASE n + 1 = SeqMod
  <2>1. (n + 1) % SeqMod = 0
    BY <1>1, <1>3, Parameters
  <2>2. QED
    BY <1>1, <1>3, <2>1, Parameters DEF SeqNums
<1>4. QED
  BY <1>1, <1>2, <1>3, Parameters

\* The stack of one transaction, and of two.
LEMMA OneDeep ==
  ASSUME NEW f \in Frames, frames = <<f>>
  PROVE  /\ Len(frames) = 1 /\ frames # <<>> /\ frames[1] = f /\ Top = f /\ Below = <<>>
         /\ \A h \in Frames : SetTop(h) = <<h>>
<1>1. Len(frames) = 1 /\ frames # <<>> /\ frames[1] = f /\ frames \in Seq(Frames)
  OBVIOUS
<1>2. Top = f
  BY <1>1 DEF Top
<1>3. Below = <<>>
  BY <1>1 DEF Below
<1>4. \A h \in Frames : SetTop(h) = <<h>>
  BY <1>1 DEF SetTop
<1>5. QED
  BY <1>1, <1>2, <1>3, <1>4

LEMMA TwoDeep ==
  ASSUME NEW f \in Frames, NEW g \in Frames, frames = <<f, g>>
  PROVE  /\ Len(frames) = 2 /\ frames # <<>> /\ frames[1] = f /\ frames[2] = g /\ Top = g /\ Below = <<f>>
         /\ \A h \in Frames : SetTop(h) = <<f, h>>
<1>1. Len(frames) = 2 /\ frames # <<>> /\ frames[1] = f /\ frames[2] = g /\ frames \in Seq(Frames)
  OBVIOUS
<1>2. Top = g
  BY <1>1 DEF Top
<1>3. Below = <<f>>
  <2> DEFINE b == SubSeq(frames, 1, 1)
  <2>1. b \in Seq(Frames) /\ Len(b) = 1 /\ b[1] = f
    <3>1. \A i \in 1 .. 1 : frames[i] \in Frames
      BY <1>1
    <3>2. QED
      BY <1>1, <3>1, SubSeqProperties
  <2> HIDE DEF b
  <2>2. b = <<f>>
    BY <2>1
  <2>3. QED
    BY <1>1, <2>2 DEF b, Below
<1>4. \A h \in Frames : SetTop(h) = <<f, h>>
  BY <1>1 DEF SetTop
<1>5. QED
  BY <1>1, <1>2, <1>3, <1>4

LEMMA Pushed ==
  ASSUME NEW f \in Frames, NEW g \in Frames
  PROVE  Append(<<f>>, g) = <<f, g>> /\ Append(<<>>, g) = <<g>>
<1> DEFINE s == Append(<<f>>, g)
<1>1. s \in Seq(Frames) /\ Len(s) = 2 /\ s[1] = f /\ s[2] = g
  <2>1. <<f>> \in Seq(Frames) /\ Len(<<f>>) = 1 /\ <<f>>[1] = f
    OBVIOUS
  <2>2. QED
    BY <2>1, AppendProperties
<1> HIDE DEF s
<1>2. s = <<f, g>>
  BY <1>1
<1>3. QED
  BY <1>2 DEF s

LEMMA Records ==
  /\ \A f \in Frames : /\ f.cmd \in Cmds /\ f.sock \in Sockets /\ f.expect \in SeqNums /\ f.pkt \in Packets
                         /\ f.retry \in 0 .. MaxRetries /\ f.pc \in {"send", "wait"}
  /\ \A p \in Packets : p.sess \in 0 .. MaxSessions /\ p.seq \in SeqNums /\ p.cmd \in Cmds /\ p.body \in 0 .. MaxCalls
  /\ \A m \in Requests : m.type = "req" /\ m.sock \in Sockets /\ m.pkt \in Packets
  /\ \A m \in Replies : /\ m.type = "rep" /\ m.sock \in Sockets /\ m.sess \in 0 .. MaxSessions /\ m.seq \in SeqNums
                          /\ m.cmd \in Cmds /\ m.res \in {"OK", "INVALID_HANDLE"} /\ m.of \in 0 .. MaxCalls
BY DEF Frames, Packets, Requests, Replies

\* What is in flight with one transaction active, and with two.
LEMMA FlightOne ==
  ASSUME NEW f, NEW m
  PROVE  InFlight(m, <<f>>) <=> Belongs(m, f)
<1>1. Len(<<f>>) = 1 /\ <<f>>[1] = f
  OBVIOUS
<1>2. QED
  BY <1>1 DEF InFlight

LEMMA FlightTwo ==
  ASSUME NEW f, NEW g, NEW m
  PROVE  InFlight(m, <<f, g>>) <=> (Belongs(m, f) \/ Belongs(m, g))
<1>1. Len(<<f, g>>) = 2 /\ <<f, g>>[1] = f /\ <<f, g>>[2] = g
  OBVIOUS
<1>2. QED
  BY <1>1 DEF InFlight

\* Nothing is in flight between calls.
LEMMA Quiet ==
  ASSUME Inv, frames = <<>>
  PROVE  net = {}
<1>1. Len(frames) = 0
  OBVIOUS
<1>2. \A m \in net : FALSE
  BY <1>1 DEF Inv, Delivery, InFlight
<1>3. QED
  BY <1>2

\* The kinds of stack.
LEMMA Active ==
  ASSUME Inv, frames # <<>>
  PROVE  calls \in Calls /\ ((\E f \in Frames : Alone(f)) \/ (\E f, g \in Frames : Nested(f, g)))
BY DEF Inv, Stack

-----------------------------------------------------------------------------
(***************************************************************************)
(* The server.                                                             *)
(***************************************************************************)
LEMMA StackKept ==
  ASSUME Inv, UNCHANGED client, issued' \in Nat, issued <= issued'
  PROVE  Stack'
<1>1. UNCHANGED <<session, current_sequence_num, frames, calls, ret>>
  BY DEF client
<1>2. ASSUME NEW f \in Frames, NEW d \in {0, 1}, Own(f, d) PROVE Own(f, d)'
  <2>1. f.pkt.sess \in Int /\ issued \in Int /\ issued' \in Int
    BY Records, Parameters DEF Inv, Typed
  <2>2. ASSUME f.cmd = "FD" PROVE f.pkt.sess <= issued'
    <3> DEFINE n == f.pkt.sess
    <3>1. n \in Int /\ n <= issued
      BY <1>2, <2>1, <2>2 DEF Own
    <3> HIDE DEF n
    <3>2. n <= issued'
      BY <2>1, <3>1
    <3>3. QED
      BY <3>2 DEF n
  <2>3. QED
    BY <1>1, <1>2, <2>2 DEF Own
<1>3. CASE frames = <<>>
  BY <1>1, <1>3 DEF Stack
<1>4. CASE calls \in Calls /\ \E f \in Frames : Alone(f)
  <2>1. PICK f \in Frames : Alone(f)
    BY <1>4
  <2>2. Alone(f)'
    BY <1>1, <1>2, <2>1 DEF Alone
  <2>3. QED
    BY <1>1, <1>4, <2>2 DEF Stack
<1>5. CASE calls \in Calls /\ \E f, g \in Frames : Nested(f, g)
  <2>1. PICK f \in Frames, g \in Frames : Nested(f, g)
    BY <1>5
  <2>2. Nested(f, g)'
    BY <1>1, <1>2, <2>1 DEF Nested
  <2>3. QED
    BY <1>1, <1>5, <2>2 DEF Stack
<1>6. QED
  BY <1>3, <1>4, <1>5 DEF Inv, Stack

\* The transaction a request belongs to.
LEMMA RequestOf ==
  ASSUME Inv, NEW m \in net, m.type = "req"
  PROVE  /\ m \in Requests /\ frames # <<>> /\ calls \in Calls
         /\ m.pkt.body = calls
         /\ m.pkt.cmd \in Commands => /\ m.pkt.cmd = frames[1].cmd /\ m.pkt.seq = frames[1].pkt.seq
                                      /\ m.sock = frames[1].sock
                                      /\ frames[1].cmd = "FD" => m.pkt.sess = frames[1].pkt.sess
<1>1. m \in Requests
  BY Records DEF Inv, Typed
<1>2. InFlight(m, frames)
  BY DEF Inv, Delivery
<1>3. frames # <<>>
  BY Quiet
<1>4. calls \in Calls
  BY <1>3, Active
<1>5. CASE \E f \in Frames : Alone(f)
  <2>1. PICK f \in Frames : Alone(f)
    BY <1>5
  <2>2. frames = <<f>> /\ Own(f, 0) /\ frames[1] = f
    BY <2>1, OneDeep DEF Alone
  <2>3. Belongs(m, f)
    BY <1>2, <2>2, FlightOne
  <2>4. QED
    BY <1>1, <1>3, <1>4, <2>2, <2>3 DEF Belongs, Own
<1>6. CASE \E f, g \in Frames : Nested(f, g)
  <2>1. PICK f \in Frames, g \in Frames : Nested(f, g)
    BY <1>6
  <2>2. frames = <<f, g>> /\ Own(f, 0) /\ Own(g, 1) /\ frames[1] = f /\ g.cmd \notin Commands
    BY <2>1, TwoDeep DEF Nested, Inner, Commands
  <2>3. Belongs(m, f) \/ Belongs(m, g)
    BY <1>2, <2>2, FlightTwo
  <2>4. QED
    BY <1>1, <1>3, <1>4, <2>2, <2>3 DEF Belongs, Own
<1>7. QED
  BY <1>3, <1>5, <1>6, Active

\* A reply joins what is in flight.
LEMMA ReplySent ==
  ASSUME Inv, UNCHANGED <<client, shutting_down>>, issued' \in Nat, issued <= issued',
         NEW m \in net, m.type = "req", NEW a \in Replies, net' = net \cup {a},
         a.sock = m.sock, a.seq = m.pkt.seq, a.cmd = m.pkt.cmd,
         m.pkt.cmd # "MOUNT" => a.sess = m.pkt.sess,
         m.pkt.cmd = "MOUNT" => a.res = "OK" /\ a.sess = issued' /\ issued' = issued + 1
  PROVE  Stack' /\ Delivery' /\ Later' /\ MountGivesSession' /\ RecoveryOutcome' /\ net' \subseteq Requests \cup Replies
<1>1. UNCHANGED <<session, current_sequence_num, frames, calls, ret, shutting_down>>
  BY DEF client
<1>2. Stack'
  BY StackKept
<1>3. frames # <<>> /\ frames' # <<>>
  BY <1>1, RequestOf
<1>4. Later' /\ MountGivesSession' /\ RecoveryOutcome'
  BY <1>1, <1>3 DEF Inv, Later, MountGivesSession, RecoveryOutcome
<1>5. net' \subseteq Requests \cup Replies
  BY DEF Inv, Typed
<1>6. a.type = "rep"
  BY Records
<1>7. \A f : Belongs(m, f) => Belongs(a, f)
  <2> SUFFICES ASSUME NEW f, Belongs(m, f) PROVE Belongs(a, f)
    OBVIOUS
  <2>1. /\ m.sock = f.sock /\ m.pkt.seq = f.pkt.seq /\ m.pkt.cmd = f.cmd
        /\ f.cmd = "FD" => m.pkt.sess = f.pkt.sess
    BY DEF Belongs
  <2>2. QED
    BY <1>6, <2>1 DEF Belongs
<1>8. \A n \in net' : InFlight(n, frames)
  <2>1. InFlight(m, frames) => InFlight(a, frames)
    BY <1>7 DEF InFlight
  <2>2. QED
    BY <2>1 DEF Inv, Delivery
<1>9. ASSUME NEW n \in net, Newer(n, frames) PROVE Newer(n, frames)'
  <2>1. issued \in Nat
    BY DEF Inv, Typed
  <2>2. 1 .. issued \subseteq 1 .. issued'
    BY <2>1
  <2>3. QED
    BY <1>1, <1>9, <2>2 DEF Newer
<1>10. Newer(a, frames)'
  <2> SUFFICES ASSUME m.pkt.cmd = "MOUNT"
               PROVE  /\ a.sess \in 1 .. issued'
                      /\ (Len(frames) = 2 /\ frames[1].cmd = "FD") => frames[1].pkt.sess < a.sess
    BY <1>1 DEF Newer
  <2>1. issued \in Nat /\ a.sess = issued + 1 /\ issued' = issued + 1
    BY DEF Inv, Typed
  <2>2. a.sess \in 1 .. issued'
    BY <2>1
  <2>3. ASSUME Len(frames) = 2, frames[1].cmd = "FD" PROVE frames[1].pkt.sess < a.sess
    <3>1. \A f \in Frames : ~ Alone(f)
      BY <2>3, OneDeep DEF Alone
    <3>2. PICK f \in Frames, g \in Frames : Nested(f, g)
      BY <1>3, <3>1, Active
    <3>3. frames[1] = f /\ f.pkt.sess <= issued /\ f.pkt.sess \in 0 .. MaxSessions
      BY <2>3, <3>2, TwoDeep, Records DEF Nested, Own
    <3> DEFINE n == f.pkt.sess
    <3>4. n <= issued /\ n \in Nat
      BY <3>3, Parameters
    <3> HIDE DEF n
    <3>5. n < issued + 1
      BY <2>1, <3>4
    <3>6. QED
      BY <2>1, <3>3, <3>5 DEF n
  <2>4. QED
    BY <2>2, <2>3
<1>11. Delivery'
  BY <1>1, <1>8, <1>9, <1>10 DEF Inv, Delivery
<1>12. QED
  BY <1>2, <1>4, <1>5, <1>11

LEMMA Answers ==
  ASSUME NEW m \in Requests, NEW sess \in 0 .. MaxSessions, NEW res \in {"OK", "INVALID_HANDLE"}, NEW of \in 0 .. MaxCalls,
         NEW r, r.sess = sess, r.res = res, r.of = of
  PROVE  /\ Answer(m, r) \in Replies /\ Answer(m, r).sock = m.sock /\ Answer(m, r).seq = m.pkt.seq
         /\ Answer(m, r).cmd = m.pkt.cmd /\ Answer(m, r).sess = sess /\ Answer(m, r).res = res /\ Answer(m, r).of = of
<1>1. m.sock \in Sockets /\ m.pkt.seq \in SeqNums /\ m.pkt.cmd \in Cmds
  BY Records
<1> DEFINE sk == m.sock
           sq == m.pkt.seq
           cm == m.pkt.cmd
<1>2. Answer(m, r) = [type |-> "rep", sock |-> sk, sess |-> sess, seq |-> sq, cmd |-> cm, res |-> res, of |-> of]
  BY DEF Answer
<1>3. sk \in Sockets /\ sq \in SeqNums /\ cm \in Cmds
  BY <1>1
<1> HIDE DEF sk, sq, cm
<1>4. Answer(m, r) \in Replies
  BY <1>2, <1>3 DEF Replies
<1>5. /\ Answer(m, r).sock = sk /\ Answer(m, r).seq = sq
      /\ Answer(m, r).cmd = cm /\ Answer(m, r).sess = sess /\ Answer(m, r).res = res /\ Answer(m, r).of = of
  BY <1>2
<1>6. QED
  BY <1>4, <1>5 DEF sk, sq, cm

\* A reply that changes neither what was executed nor what is remembered.
LEMMA PlainReply ==
  ASSUME Inv, UNCHANGED <<client, shutting_down, last, exec, overtaken>>, issued' \in 0 .. MaxSessions, issued <= issued',
         live' \subseteq 1 .. issued',
         NEW m \in net, m.type = "req", NEW a \in Replies, net' = net \cup {a},
         a.sock = m.sock, a.seq = m.pkt.seq, a.cmd = m.pkt.cmd,
         m.pkt.cmd # "MOUNT" => a.sess = m.pkt.sess,
         m.pkt.cmd = "MOUNT" => a.res = "OK" /\ a.sess = issued' /\ issued' = issued + 1
  PROVE  Inv'
<1>1. UNCHANGED <<session, current_sequence_num, frames, calls, ret, shutting_down, last, exec, overtaken>>
  BY DEF client
<1>2. issued' \in Nat /\ issued \in Nat
  BY Parameters DEF Inv, Typed
<1>3. Stack' /\ Delivery' /\ Later' /\ MountGivesSession' /\ RecoveryOutcome' /\ net' \subseteq Requests \cup Replies
  BY <1>2, ReplySent
<1>4. Typed'
  <2>1. session \in 0 .. issued'
    BY <1>2 DEF Inv, Typed
  <2>2. QED
    BY <1>1, <1>3, <2>1 DEF Inv, Typed
<1>5. Once'
  BY <1>1 DEF Inv, Once, AtMostOnce, Marked
<1>6. QED
  BY <1>3, <1>4, <1>5 DEF Inv

LEMMA MountsStep ==
  ASSUME Inv, NEW m \in net, ServerMounts(m)
  PROVE  Inv'
<1>1. /\ m.type = "req" /\ m.pkt.cmd = "MOUNT" /\ issued < MaxSessions /\ issued' = issued + 1
      /\ live' = live \cup {issued'} /\ UNCHANGED <<client, shutting_down, last, exec, overtaken>>
      /\ net' = net \cup {Answer(m, [sess |-> issued', res |-> "OK", of |-> Junk])}
  BY DEF ServerMounts, IsReq, Respond
<1>2. issued \in 0 .. MaxSessions /\ live \subseteq 1 .. issued
  BY DEF Inv, Typed
<1>3. issued' \in 0 .. MaxSessions /\ issued <= issued' /\ live' \subseteq 1 .. issued' /\ Junk \in 0 .. MaxCalls
  BY <1>1, <1>2, Parameters DEF Junk
<1>4. m \in Requests
  BY <1>1, RequestOf
<1> DEFINE r == [sess |-> issued', res |-> "OK", of |-> Junk]
<1>5. r.sess = issued' /\ r.res = "OK" /\ r.of = Junk
  OBVIOUS
<1>6. net' = net \cup {Answer(m, r)}
  BY <1>1
<1> HIDE DEF r
<1>7. /\ Answer(m, r) \in Replies /\ Answer(m, r).sock = m.sock /\ Answer(m, r).seq = m.pkt.seq
      /\ Answer(m, r).cmd = m.pkt.cmd /\ Answer(m, r).sess = issued' /\ Answer(m, r).res = "OK"
  BY <1>3, <1>4, <1>5, Answers
<1>8. QED
  BY <1>1, <1>3, <1>6, <1>7, PlainReply

\* The replies that only tell how the session is.
LEMMA ToldStep ==
  ASSUME Inv, NEW m \in net, m.type = "req", m.pkt.cmd # "MOUNT", NEW r, r.sess = m.pkt.sess, r.res \in {"OK", "INVALID_HANDLE"},
         r.of \in 0 .. MaxCalls, Respond(m, r),
         UNCHANGED <<client, shutting_down, last, issued, exec, overtaken>>, live' \subseteq live
  PROVE  Inv'
<1>1. m \in Requests
  BY RequestOf
<1>2. m.pkt.sess \in 0 .. MaxSessions
  BY <1>1, Records
<1>3. /\ Answer(m, r) \in Replies /\ Answer(m, r).sock = m.sock /\ Answer(m, r).seq = m.pkt.seq
      /\ Answer(m, r).cmd = m.pkt.cmd /\ Answer(m, r).sess = m.pkt.sess
  BY <1>1, <1>2, Answers
<1>4. issued' \in 0 .. MaxSessions /\ issued <= issued' /\ live' \subseteq 1 .. issued'
  BY Parameters DEF Inv, Typed
<1>5. net' = net \cup {Answer(m, r)}
  BY DEF Respond
<1>6. QED
  BY <1>3, <1>4, <1>5, PlainReply

LEMMA UnmountsStep ==
  ASSUME Inv, NEW m \in net, ServerUnmounts(m)
  PROVE  Inv'
<1>1. /\ m.type = "req" /\ m.pkt.cmd # "MOUNT" /\ live' \subseteq live
      /\ Respond(m, Plain(m, "OK")) /\ UNCHANGED <<client, shutting_down, last, issued, exec, overtaken>>
  BY DEF ServerUnmounts, AtServer, IsReq
<1>2. Plain(m, "OK").sess = m.pkt.sess /\ Plain(m, "OK").res = "OK" /\ Plain(m, "OK").of \in 0 .. MaxCalls
  BY Parameters DEF Plain, Junk
<1>3. QED
  BY <1>1, <1>2, ToldStep

LEMMA RejectsStep ==
  ASSUME Inv, NEW m \in net, ServerRejects(m)
  PROVE  Inv'
<1>1. /\ m.type = "req" /\ m.pkt.cmd # "MOUNT"
      /\ Respond(m, Plain(m, "INVALID_HANDLE")) /\ UNCHANGED <<client, shutting_down, server>>
  BY DEF ServerRejects, IsReq
<1>2. UNCHANGED <<live, last, issued, exec, overtaken>>
  BY <1>1 DEF server
<1>3. /\ Plain(m, "INVALID_HANDLE").sess = m.pkt.sess /\ Plain(m, "INVALID_HANDLE").res = "INVALID_HANDLE"
      /\ Plain(m, "INVALID_HANDLE").of \in 0 .. MaxCalls
  BY Parameters DEF Plain, Junk
<1>4. QED
  BY <1>1, <1>2, <1>3, ToldStep

\* What the last reply of a session says.
LEMMA LastReply ==
  ASSUME Inv, NEW s \in Sessions, NEW n \in SeqNums, last[s].seq = n
  PROVE  last[s] \in Remembered
<1>1. n # -1
  BY Parameters DEF SeqNums
<1>2. last[s] # NoReply
  BY <1>1 DEF NoReply
<1>3. QED
  BY <1>2 DEF Inv, Typed

LEMMA LiveSessions ==
  ASSUME Inv
  PROVE  live \subseteq Sessions
<1>1. issued \in 0 .. MaxSessions /\ live \subseteq 1 .. issued
  BY DEF Inv, Typed
<1>2. 1 .. issued \subseteq 1 .. MaxSessions
  BY <1>1, Parameters
<1>3. QED
  BY <1>1, <1>2 DEF Sessions

LEMMA RepeatsStep ==
  ASSUME Inv, NEW m \in net, ServerRepeats(m)
  PROVE  Inv'
<1> DEFINE s == m.pkt.sess
           n == m.pkt.seq
<1>1. /\ m.type = "req" /\ m.pkt.cmd # "MOUNT" /\ s \in live /\ last[s].seq = n
      /\ Respond(m, last[s]) /\ UNCHANGED <<client, shutting_down, server>>
  BY DEF ServerRepeats, AtServer, IsReq
<1>2. UNCHANGED <<live, last, issued, exec, overtaken>>
  BY <1>1 DEF server
<1>3. s \in Sessions
  BY <1>1, LiveSessions
<1>4. n \in SeqNums
  BY <1>1, RequestOf, Records
<1>5. last[s] \in Remembered
  BY <1>1, <1>3, <1>4, LastReply
<1>6. last[s].sess = s /\ last[s].res \in {"OK", "INVALID_HANDLE"} /\ last[s].of \in 0 .. MaxCalls
  BY <1>3, <1>5 DEF Inv, Typed, Remembered
<1>7. QED
  BY <1>1, <1>2, <1>6, ToldStep

\* The server executes a command: it has not executed it before in this session.
LEMMA ExecutesStep ==
  ASSUME Inv, NEW m \in net, ServerExecutes(m)
  PROVE  Inv'
<1> DEFINE s == m.pkt.sess
           n == m.pkt.seq
           b == m.pkt.body
           r == [sess |-> s, res |-> "OK", of |-> b, seq |-> n]
<1>1. /\ m.type = "req" /\ m.pkt.cmd \notin {"MOUNT", "UNMOUNT"} /\ s \in live /\ last[s].seq # n
      /\ last' = [last EXCEPT ![s] = r] /\ Respond(m, r)
      /\ exec' = IF b = Junk THEN exec ELSE [exec EXCEPT ![b][s] = IF @ = 0 THEN 1 ELSE Repeated]
      /\ overtaken' \in {overtaken, overtaken \cup {s}}
      /\ UNCHANGED <<client, shutting_down, live, issued>>
  BY DEF ServerExecutes, AtServer, IsReq
<1>2. UNCHANGED <<session, current_sequence_num, frames, calls, ret>>
  BY <1>1 DEF client
<1>3. m \in Requests /\ frames # <<>> /\ calls \in Calls /\ b = calls
  BY <1>1, RequestOf
<1>4. s \in Sessions /\ s \in 0 .. MaxSessions /\ n \in SeqNums /\ m.pkt.cmd \in Cmds
  <2>1. s \in Sessions
    BY <1>1, LiveSessions
  <2>2. QED
    BY <1>3, <2>1, Records
<1>5. m.pkt.cmd \in Commands
  BY <1>1, <1>4 DEF Cmds, Commands
<1>6. /\ m.pkt.cmd = frames[1].cmd /\ n = frames[1].pkt.seq
      /\ frames[1].cmd = "FD" => s = frames[1].pkt.sess
  BY <1>1, <1>5, RequestOf
<1>7. calls \in 1 .. MaxCalls /\ calls # Junk /\ calls \in 0 .. MaxCalls
  BY <1>3, Parameters DEF Calls, Junk
<1> HIDE DEF s, n, b
<1>8. r \in Remembered /\ r.sess = s /\ r.res = "OK" /\ r.of = calls /\ r.seq = n
  BY <1>3, <1>4, <1>7 DEF Remembered
<1> HIDE DEF r
<1>9. exec' = [exec EXCEPT ![calls][s] = IF @ = 0 THEN 1 ELSE Repeated]
  BY <1>1, <1>3, <1>7
<1>10. exec \in [Calls -> [Sessions -> Nat]] /\ last \in [Sessions -> Remembered \cup {NoReply}]
  BY DEF Inv, Typed
<1>11. /\ exec' \in [Calls -> [Sessions -> Nat]] /\ exec'[calls][s] = (IF exec[calls][s] = 0 THEN 1 ELSE Repeated)
       /\ \A t \in Sessions : t # s => exec'[calls][t] = exec[calls][t]
       /\ \A i \in Calls : i # calls => exec'[i] = exec[i]
  <2> DEFINE e == exec[calls]
             k == IF e[s] = 0 THEN 1 ELSE Repeated
             e1 == [e EXCEPT ![s] = k]
  <2>1. e \in [Sessions -> Nat] /\ k \in Nat
    BY <1>3, <1>4, <1>10 DEF Repeated
  <2>2. exec' = [exec EXCEPT ![calls] = e1]
    BY <1>3, <1>9, <1>10
  <2> HIDE DEF e, k
  <2>3. e1 \in [Sessions -> Nat] /\ e1[s] = k /\ \A t \in Sessions : t # s => e1[t] = e[t]
    BY <1>4, <2>1
  <2> HIDE DEF e1
  <2>4. exec' \in [Calls -> [Sessions -> Nat]] /\ exec'[calls] = e1 /\ \A i \in Calls : i # calls => exec'[i] = exec[i]
    BY <1>3, <1>10, <2>2, <2>3
  <2>5. QED
    BY <2>3, <2>4 DEF e, k
<1>12. /\ last' \in [Sessions -> Remembered \cup {NoReply}] /\ last'[s] = r
       /\ \A t \in Sessions : t # s => last'[t] = last[t]
  BY <1>1, <1>4, <1>8, <1>10
<1>13. \A t \in Sessions : exec[calls][t] > 0 => Marked(frames[1], t)
  BY <1>3 DEF Inv, Once
<1>14. s \notin overtaken => exec[calls][s] = 0
  <2> SUFFICES ASSUME s \notin overtaken PROVE exec[calls][s] = 0
    OBVIOUS
  <2>1. ~ (exec[calls][s] > 0)
    BY <1>1, <1>4, <1>6, <1>13 DEF Marked
  <2>2. exec[calls][s] \in Nat
    BY <1>3, <1>4, <1>10
  <2>3. QED
    BY <2>1, <2>2
<1>15. \A t \in Sessions : exec'[calls][t] > 0 => Marked(frames[1], t)'
  <2> SUFFICES ASSUME NEW t \in Sessions, exec'[calls][t] > 0 PROVE Marked(frames[1], t)'
    OBVIOUS
  <2>1. CASE t = s
    BY <1>2, <1>5, <1>6, <1>8, <1>12, <2>1 DEF Marked
  <2>2. CASE t # s
    BY <1>1, <1>2, <1>11, <1>12, <1>13, <2>2 DEF Marked
  <2>3. QED
    BY <2>1, <2>2
<1>16. Once'
  <2>1. AtMostOnce'
    <3> SUFFICES ASSUME NEW i \in Calls
                 PROVE  /\ \A t \in Sessions \ overtaken' : exec'[i][t] <= 1
                        /\ ret'[i].cmd = "FD" => \A t, u \in Sessions : exec'[i][t] > 0 /\ exec'[i][u] > 0 => t = u
      BY DEF AtMostOnce
    <3>1. /\ \A t \in Sessions \ overtaken : exec[i][t] <= 1
          /\ ret[i].cmd = "FD" => \A t, u \in Sessions : exec[i][t] > 0 /\ exec[i][u] > 0 => t = u
      BY DEF Inv, Once, AtMostOnce
    <3>2. CASE i # calls
      BY <1>1, <1>2, <1>11, <3>1, <3>2
    <3>3. CASE i = calls
      <4>1. \A t \in Sessions \ overtaken' : exec'[i][t] <= 1
        BY <1>1, <1>11, <1>14, <3>1, <3>3
      <4>2. ASSUME ret'[i].cmd = "FD", NEW t \in Sessions, NEW u \in Sessions, exec'[i][t] > 0, exec'[i][u] > 0
            PROVE  t = u
        <5>1. frames[1].cmd = "FD"
          <6>1. CASE \E f \in Frames : Alone(f)
            BY <1>2, <1>5, <1>6, <3>3, <4>2, <6>1, OneDeep DEF Alone, Sole, Commands
          <6>2. CASE \E f, g \in Frames : Nested(f, g)
            BY <1>2, <3>3, <4>2, <6>2, TwoDeep DEF Nested
          <6>3. QED
            BY <1>3, <6>1, <6>2, Active
        <5>2. QED
          BY <1>2, <1>15, <3>3, <4>2, <5>1 DEF Marked
      <4>3. QED
        BY <4>1, <4>2
    <3>4. QED
      BY <3>2, <3>3
  <2>2. \A i \in Calls, t \in Sessions : i > calls' => exec'[i][t] = 0
    <3>1. \A i \in Calls : i > calls => i # calls
      BY <1>7, Parameters DEF Calls
    <3>2. QED
      BY <1>2, <1>11, <3>1 DEF Inv, Once
  <2>3. QED
    BY <1>2, <1>15, <2>1, <2>2 DEF Once
<1>17. /\ Answer(m, r) \in Replies /\ Answer(m, r).sock = m.sock /\ Answer(m, r).seq = m.pkt.seq
       /\ Answer(m, r).cmd = m.pkt.cmd /\ Answer(m, r).sess = s
  BY <1>3, <1>4, <1>7, <1>8, Answers
<1>18. net' = net \cup {Answer(m, r)} /\ issued' \in Nat /\ issued <= issued'
  BY <1>1, Parameters DEF Respond, Inv, Typed
<1>19. Stack' /\ Delivery' /\ Later' /\ MountGivesSession' /\ RecoveryOutcome' /\ net' \subseteq Requests \cup Replies
  <2>1. m.pkt.cmd # "MOUNT" /\ m.type = "req" /\ UNCHANGED <<client, shutting_down>> /\ Answer(m, r).sess = m.pkt.sess
    BY <1>1, <1>17 DEF s
  <2>2. QED
    BY <1>17, <1>18, <2>1, ReplySent
<1>20. Typed'
  <2>1. \A t \in Sessions : last'[t] \in Remembered => last'[t].sess = t
    BY <1>8, <1>12 DEF Inv, Typed
  <2>2. QED
    BY <1>1, <1>2, <1>11, <1>12, <1>19, <2>1 DEF Inv, Typed
<1>21. QED
  BY <1>16, <1>19, <1>20 DEF Inv

\* Sessions vanish, and the bus shuts down.
LEMMA ExpiresStep ==
  ASSUME Inv, NEW s \in live, SessionExpires(s)
  PROVE  Inv'
<1>1. live' \subseteq live /\ UNCHANGED <<client, shutting_down, net, last, issued, exec, overtaken>>
  BY DEF SessionExpires, network
<1>2. UNCHANGED <<session, current_sequence_num, frames, calls, ret>>
  BY <1>1 DEF client
<1>3. Stack'
  BY <1>1, StackKept, Parameters DEF Inv, Typed
<1>4. Typed' /\ Later'
  BY <1>1, <1>2 DEF Inv, Typed, Later
<1>5. Delivery'
  BY <1>1, <1>2 DEF Inv, Delivery, Newer
<1>6. Once'
  BY <1>1, <1>2 DEF Inv, Once, AtMostOnce, Marked
<1>7. MountGivesSession' /\ RecoveryOutcome'
  BY <1>1, <1>2 DEF Inv, MountGivesSession, RecoveryOutcome, Completed, FileOrPath
<1>8. QED
  BY <1>3, <1>4, <1>5, <1>6, <1>7 DEF Inv

LEMMA ShutdownStep ==
  ASSUME Inv, BusShutsDown
  PROVE  Inv'
<1>1. shutting_down' = TRUE /\ UNCHANGED <<client, net, live, last, issued, exec, overtaken>>
  BY DEF BusShutsDown, server, network
<1>2. UNCHANGED <<session, current_sequence_num, frames, calls, ret>>
  BY <1>1 DEF client
<1>3. Stack'
  BY <1>1, StackKept, Parameters DEF Inv, Typed
<1>4. Typed' /\ Later'
  BY <1>1, <1>2 DEF Inv, Typed, Later
<1>5. Delivery'
  BY <1>1, <1>2 DEF Inv, Delivery, Newer
<1>6. Once'
  BY <1>1, <1>2 DEF Inv, Once, AtMostOnce, Marked
<1>7. MountGivesSession' /\ RecoveryOutcome'
  BY <1>1 DEF MountGivesSession, RecoveryOutcome
<1>8. QED
  BY <1>3, <1>4, <1>5, <1>6, <1>7 DEF Inv

-----------------------------------------------------------------------------
(***************************************************************************)
(* The client's transactions.                                              *)
(***************************************************************************)
\* The innermost transaction.
LEMMA OnTop ==
  ASSUME Inv, frames # <<>>
  PROVE  /\ calls \in Calls /\ Top \in Frames /\ (Own(Top, 0) \/ Own(Top, 1))
         /\ Top.cmd \in Commands => Alone(Top)
<1>1. CASE \E f \in Frames : Alone(f)
  <2>1. PICK f \in Frames : Alone(f)
    BY <1>1
  <2>2. Top = f
    BY <2>1, OneDeep DEF Alone
  <2>3. QED
    BY <2>1, <2>2, Active DEF Alone
<1>2. CASE \E f, g \in Frames : Nested(f, g)
  <2>1. PICK f \in Frames, g \in Frames : Nested(f, g)
    BY <1>2
  <2>2. Top = g /\ g.cmd \notin Commands
    BY <2>1, TwoDeep DEF Nested, Inner, Commands
  <2>3. QED
    BY <2>1, <2>2, Active DEF Nested
<1>3. QED
  BY <1>1, <1>2, Active

\* The transaction on top sends, waits or begins another attempt.
LEMMA TopStep ==
  ASSUME Inv, frames # <<>>, NEW h \in Frames, frames' = SetTop(h),
         h.cmd = Top.cmd, h.then = Top.then, h.sock = Top.sock, h.expect = Top.expect, h.pkt = Top.pkt,
         h.pc = "wait" => h.retry < MaxRetries,
         net' \subseteq net \cup {[type |-> "req", sock |-> Top.sock, pkt |-> Top.pkt]},
         UNCHANGED <<session, current_sequence_num, calls, ret, shutting_down, live, last, issued, exec, overtaken>>
  PROVE  Inv'
<1> DEFINE q == [type |-> "req", sock |-> Top.sock, pkt |-> Top.pkt]
<1>1. calls \in Calls /\ Top \in Frames /\ Top.pkt.cmd = Top.cmd
  BY OnTop DEF Own
<1>2. q \in Requests /\ q.type = "req" /\ q.sock = h.sock /\ q.pkt = h.pkt
  <2> DEFINE a == Top.sock
             b == Top.pkt
  <2>1. a \in Sockets /\ b \in Packets /\ a = h.sock /\ b = h.pkt
    BY <1>1, Records
  <2>2. q = [type |-> "req", sock |-> a, pkt |-> b]
    OBVIOUS
  <2> HIDE DEF a, b, q
  <2>3. q \in Requests /\ q.type = "req" /\ q.sock = a /\ q.pkt = b
    BY <2>1, <2>2 DEF Requests
  <2>4. QED
    BY <2>1, <2>3
<1>3. net' \subseteq net \cup {q}
  OBVIOUS
<1> HIDE DEF q
<1>4. Belongs(q, h)
  BY <1>1, <1>2 DEF Belongs
<1>5. \A m : Belongs(m, Top) <=> Belongs(m, h)
  BY DEF Belongs
<1>6. Typed'
  BY <1>2, <1>3 DEF Inv, Typed
<1>7. Later'
  BY DEF Inv, Later
<1>8. AtMostOnce' /\ \A i \in Calls, s \in Sessions : i > calls' => exec'[i][s] = 0
  BY DEF Inv, Once, AtMostOnce
<1>9. CASE \E f \in Frames : Alone(f)
  <2>1. PICK f \in Frames : Alone(f)
    BY <1>9
  <2>2. frames = <<f>> /\ Top = f /\ frames' = <<h>> /\ frames[1] = f
    BY <2>1, OneDeep DEF Alone
  <2>3. frames' # <<>> /\ Len(frames') = 1 /\ frames'[1] = h
    BY <2>2
  <2>4. Alone(h)'
    BY <2>1, <2>2 DEF Alone, Own, Sole
  <2>5. Stack'
    BY <1>1, <2>4 DEF Stack
  <2>6. \A m \in net' : Belongs(m, h)
    <3>1. \A m \in net : Belongs(m, f)
      BY <2>2, FlightOne DEF Inv, Delivery
    <3>2. QED
      BY <1>3, <1>4, <1>5, <2>2, <3>1
  <2>7. \A m \in net' : Newer(m, frames)'
    <3>1. \A m \in net : Newer(m, frames)
      BY DEF Inv, Delivery
    <3>2. QED
      BY <1>2, <1>3, <2>3, <3>1 DEF Newer
  <2>8. Delivery'
    BY <2>2, <2>6, <2>7, FlightOne DEF Delivery
  <2>9. Once'
    BY <1>8, <2>2, <2>3 DEF Inv, Once, Marked
  <2>10. QED
    BY <1>6, <1>7, <2>3, <2>5, <2>8, <2>9 DEF Inv, MountGivesSession, RecoveryOutcome
<1>10. CASE \E f, g \in Frames : Nested(f, g)
  <2>1. PICK f \in Frames, g \in Frames : Nested(f, g)
    BY <1>10
  <2>2. frames = <<f, g>> /\ Top = g /\ frames' = <<f, h>> /\ frames[1] = f /\ Len(frames) = 2
    BY <2>1, TwoDeep DEF Nested
  <2>3. frames' # <<>> /\ Len(frames') = 2 /\ frames'[1] = f
    BY <2>2
  <2>4. Nested(f, h)'
    <3>1. Own(f, 0)' /\ Own(h, 1)'
      BY <2>1, <2>2 DEF Nested, Own
    <3>2. Inner(h, session)'
      BY <2>1, <2>2 DEF Nested, Inner
    <3>3. QED
      BY <2>1, <2>2, <3>1, <3>2 DEF Nested
  <2>5. Stack'
    BY <1>1, <2>4 DEF Stack
  <2>6. \A m \in net' : Belongs(m, f) \/ Belongs(m, h)
    <3>1. \A m \in net : Belongs(m, f) \/ Belongs(m, g)
      BY <2>2, FlightTwo DEF Inv, Delivery
    <3>2. QED
      BY <1>3, <1>4, <1>5, <2>2, <3>1
  <2>7. \A m \in net' : Newer(m, frames)'
    <3>1. \A m \in net : Newer(m, frames)
      BY DEF Inv, Delivery
    <3>2. QED
      BY <1>2, <1>3, <2>2, <2>3, <3>1 DEF Newer
  <2>8. Delivery'
    BY <2>2, <2>6, <2>7, FlightTwo DEF Delivery
  <2>9. Once'
    BY <1>8, <2>2, <2>3 DEF Inv, Once, Marked
  <2>10. QED
    BY <1>6, <1>7, <2>3, <2>5, <2>8, <2>9 DEF Inv, MountGivesSession, RecoveryOutcome
<1>11. QED
  BY <1>9, <1>10, Active

LEMMA SendStep ==
  ASSUME Inv, Send
  PROVE  Inv'
<1> DEFINE f == Top
           g == [f EXCEPT !.pc = "wait"]
           h == [g EXCEPT !.expect = f.pkt.seq]
<1>1. /\ frames # <<>> /\ f.retry < MaxRetries
      /\ net' = net \cup {[type |-> "req", sock |-> f.sock, pkt |-> f.pkt]}
      /\ frames' = SetTop([f EXCEPT !.pc = "wait", !.expect = f.pkt.seq])
      /\ UNCHANGED <<session, current_sequence_num, calls, ret, shutting_down, live, last, issued, exec, overtaken>>
  BY DEF Send, Running, server
<1>2. f \in Frames /\ f.expect = f.pkt.seq
  BY <1>1, OnTop DEF Own
<1>3. [f EXCEPT !.pc = "wait", !.expect = f.pkt.seq] = h
  BY <1>2 DEF Frames
<1> HIDE DEF f
<1>4. /\ g \in Frames /\ g.cmd = f.cmd /\ g.then = f.then /\ g.sock = f.sock /\ g.expect = f.expect /\ g.pkt = f.pkt
      /\ g.retry = f.retry
  BY <1>2 DEF Frames
<1> HIDE DEF g
<1>5. f.pkt.seq \in SeqNums
  BY <1>2, Records
<1>6. /\ h \in Frames /\ h.cmd = f.cmd /\ h.then = f.then /\ h.sock = f.sock /\ h.expect = f.expect /\ h.pkt = f.pkt
      /\ h.retry = f.retry
  <2> DEFINE n == f.pkt.seq
  <2>1. n \in SeqNums /\ h = [g EXCEPT !.expect = n] /\ n = f.expect
    BY <1>2, <1>5
  <2> HIDE DEF n, h
  <2>2. /\ h \in Frames /\ h.cmd = g.cmd /\ h.then = g.then /\ h.sock = g.sock /\ h.expect = n /\ h.pkt = g.pkt
        /\ h.retry = g.retry
    BY <1>4, <2>1 DEF Frames
  <2>3. QED
    BY <1>4, <2>1, <2>2
<1> HIDE DEF h
<1>7. frames' = SetTop(h)
  BY <1>1, <1>3
<1>8. QED
  BY <1>1, <1>6, <1>7, TopStep DEF f

\* An attempt that ends without a reply.
LEMMA AttemptEnds ==
  ASSUME Inv, frames # <<>>, Top.retry < MaxRetries, NEW h, h = [Top EXCEPT !.pc = "send", !.retry = @ + 1], frames' = SetTop(h),
         UNCHANGED <<session, current_sequence_num, calls, ret, shutting_down, net, live, last, issued, exec, overtaken>>
  PROVE  Inv'
<1> DEFINE f == Top
           n == f.retry + 1
           g == [f EXCEPT !.pc = "send"]
<1>1. f \in Frames
  BY OnTop
<1>2. n \in 0 .. MaxRetries
  <2> DEFINE k == f.retry
  <2>1. k \in 0 .. MaxRetries /\ k < MaxRetries
    BY <1>1, Records
  <2> HIDE DEF k
  <2>2. k + 1 \in 0 .. MaxRetries
    BY <2>1, Parameters
  <2>3. QED
    BY <2>2 DEF k
<1>3. h = [g EXCEPT !.retry = n]
  BY <1>1 DEF Frames
<1> HIDE DEF n, f
<1>4. /\ g \in Frames /\ g.cmd = f.cmd /\ g.then = f.then /\ g.sock = f.sock /\ g.expect = f.expect /\ g.pkt = f.pkt
      /\ g.pc = "send"
  BY <1>1 DEF Frames
<1> HIDE DEF g
<1>5. /\ h \in Frames /\ h.cmd = g.cmd /\ h.then = g.then /\ h.sock = g.sock /\ h.expect = g.expect /\ h.pkt = g.pkt
      /\ h.pc = "send"
  BY <1>2, <1>3, <1>4 DEF Frames
<1>6. QED
  BY <1>4, <1>5, TopStep DEF f

LEMMA SendFailsStep ==
  ASSUME Inv, SendFails
  PROVE  Inv'
<1>1. /\ frames # <<>> /\ Top.retry < MaxRetries /\ Top.pc = "send" /\ frames' = SetTop([Top EXCEPT !.retry = @ + 1])
      /\ UNCHANGED <<session, current_sequence_num, calls, ret, shutting_down, net, live, last, issued, exec, overtaken>>
  BY DEF SendFails, Running, server, network
<1>2. Top \in Frames
  BY <1>1, OnTop
<1>3. [Top EXCEPT !.retry = @ + 1] = [Top EXCEPT !.pc = "send", !.retry = @ + 1]
  BY <1>1, <1>2 DEF Frames
<1>4. QED
  BY <1>1, <1>3, AttemptEnds

LEMMA TimeoutStep ==
  ASSUME Inv, Timeout
  PROVE  Inv'
<1>1. /\ frames # <<>> /\ Top.pc = "wait" /\ frames' = SetTop([Top EXCEPT !.pc = "send", !.retry = @ + 1])
      /\ UNCHANGED <<session, current_sequence_num, calls, ret, shutting_down, net, live, last, issued, exec, overtaken>>
  BY DEF Timeout, Running, server, network
<1>2. Top.retry < MaxRetries
  BY <1>1, OnTop DEF Own
<1>3. QED
  BY <1>1, <1>2, AttemptEnds

\* A transaction begins with its own request, under the next sequence number.
LEMMA Begins ==
  ASSUME Inv, NEW depth \in {0, 1}, NEW cmd \in Cmds, NEW then \in {"return", "mount", "refuse"}, NEW sess \in 0 .. MaxSessions,
         calls' \in 0 .. MaxCalls, current_sequence_num' = (current_sequence_num + 1) % SeqMod,
         cmd = "FD" => sess <= issued', cmd = "MOUNT" => sess = NoSession
  PROVE  \E h \in Frames : /\ h = NewFrame(depth, cmd, then, sess) /\ h.cmd = cmd /\ h.then = then
                           /\ h.pkt.seq = current_sequence_num /\ h.pkt.sess = sess /\ Own(h, depth)'
<1> DEFINE n == current_sequence_num
           c == calls'
           p == [sess |-> sess, seq |-> n, cmd |-> cmd, body |-> c]
           h == [cmd |-> cmd, then |-> then, retry |-> 0, pc |-> "send",
                 sock |-> <<depth, n>>, expect |-> n, pkt |-> p]
<1>1. h = NewFrame(depth, cmd, then, sess)
  BY DEF NewFrame
<1>2. n \in SeqNums /\ c \in 0 .. MaxCalls /\ 0 \in 0 .. MaxRetries
  BY Parameters DEF Inv, Typed
<1>3. PICK q : q = p
  OBVIOUS
<1> HIDE DEF n, c
<1>4. q \in Packets /\ q.sess = sess /\ q.seq = n /\ q.cmd = cmd /\ q.body = c
  BY <1>2, <1>3 DEF Packets
<1> HIDE DEF p
<1>5. <<depth, n>> \in Sockets
  BY <1>2 DEF Sockets
<1>6. PICK k : k = h
  OBVIOUS
<1>7. k = [cmd |-> cmd, then |-> then, retry |-> 0, pc |-> "send", sock |-> <<depth, n>>, expect |-> n, pkt |-> q]
  BY <1>3, <1>6
<1>8. /\ k \in Frames /\ k.cmd = cmd /\ k.then = then /\ k.pc = "send" /\ k.sock = <<depth, n>> /\ k.expect = n
      /\ k.pkt = q
  BY <1>2, <1>4, <1>5, <1>7 DEF Frames
<1>9. Own(k, depth)'
  BY <1>4, <1>8 DEF Own, n, c
<1>10. QED
  BY <1>1, <1>4, <1>6, <1>8, <1>9 DEF n

\* A call begins with one transaction.
LEMMA CallStep ==
  ASSUME Inv, NEW cmd \in Cmds, StartCall(cmd), UNCHANGED <<session, shutting_down, net, server>>,
         NEW c \in Cmds, NEW then \in {"return", "mount", "refuse"}, Enter(<<>>, c, then),
         \A f : f.cmd = c /\ f.then = then => Sole(f, cmd, session),
         c = "MOUNT" => session = NoSession
  PROVE  Inv'
<1>1. /\ frames = <<>> /\ calls < MaxCalls /\ calls' = calls + 1 /\ ret' = [ret EXCEPT ![calls'].cmd = cmd]
      /\ UNCHANGED <<session, shutting_down, net, live, last, issued, exec, overtaken>>
      /\ frames' = Append(<<>>, NewFrame(Len(<<>>), c, then, session'))
      /\ current_sequence_num' = (current_sequence_num + 1) % SeqMod
  BY DEF StartCall, Enter, server
<1>2. calls \in 0 .. MaxCalls /\ session \in 0 .. issued /\ issued \in 0 .. MaxSessions
      /\ ret \in [Calls -> Returns] /\ current_sequence_num \in SeqNums
  BY DEF Inv, Typed
<1>3. calls' \in Calls /\ calls' \in 0 .. MaxCalls /\ calls' > calls /\ \A i \in Calls : i > calls' => i > calls /\ i # calls'
  BY <1>1, <1>2, Parameters DEF Calls
<1>4. session \in 0 .. MaxSessions /\ session <= issued'
  BY <1>1, <1>2, Parameters
<1>5. PICK h \in Frames : h = NewFrame(0, c, then, session) /\ h.cmd = c /\ h.then = then /\ Own(h, 0)'
  BY <1>1, <1>3, <1>4, Begins
<1>6. frames' = <<h>>
  BY <1>1, <1>5
<1>7. frames' # <<>> /\ frames'[1] = h
  BY <1>6
<1>8. net = {} /\ net' = {}
  BY <1>1, Quiet
<1>9. /\ ret' \in [Calls -> Returns] /\ ret'[calls'].cmd = cmd /\ ret'[calls'].res = ret[calls'].res
      /\ \A i \in Calls : i # calls' => ret'[i] = ret[i]
  <2> DEFINE k == calls'
             r == [ret[k] EXCEPT !.cmd = cmd]
  <2>1. k \in Calls /\ ret[k] \in Returns
    BY <1>2, <1>3
  <2>2. ret' = [ret EXCEPT ![k] = r]
    BY <1>1, <1>2, <2>1
  <2> HIDE DEF k
  <2>3. r \in Returns /\ r.cmd = cmd /\ r.res = ret[k].res
    BY <2>1 DEF Returns
  <2> HIDE DEF r
  <2>4. ret' \in [Calls -> Returns] /\ ret'[k] = r /\ \A i \in Calls : i # k => ret'[i] = ret[i]
    BY <1>2, <2>1, <2>2, <2>3
  <2>5. QED
    BY <2>3, <2>4 DEF k
<1>10. Typed'
  <2>1. current_sequence_num' \in SeqNums
    BY <1>1, <1>2, NextNumber
  <2>2. net' \subseteq Requests \cup Replies
    BY <1>8
  <2>3. QED
    BY <1>1, <1>3, <1>9, <2>1, <2>2 DEF Inv, Typed
<1>11. Stack'
  <2>1. Sole(h, cmd, session)
    BY <1>5
  <2>2. Alone(h)'
    BY <1>1, <1>5, <1>6, <1>9, <2>1 DEF Alone
  <2>3. QED
    BY <1>3, <2>2 DEF Stack
<1>12. Delivery'
  BY <1>8 DEF Delivery
<1>13. Later'
  BY <1>3, <1>9 DEF Inv, Later
<1>14. Once'
  <2>1. \A s \in Sessions : exec[calls'][s] = 0
    BY <1>3 DEF Inv, Once
  <2>2. AtMostOnce'
    <3> SUFFICES ASSUME NEW i \in Calls
                 PROVE  /\ \A t \in Sessions \ overtaken : exec[i][t] <= 1
                        /\ ret'[i].cmd = "FD" => \A t, u \in Sessions : exec[i][t] > 0 /\ exec[i][u] > 0 => t = u
      BY <1>1 DEF AtMostOnce
    <3>1. /\ \A t \in Sessions \ overtaken : exec[i][t] <= 1
          /\ ret[i].cmd = "FD" => \A t, u \in Sessions : exec[i][t] > 0 /\ exec[i][u] > 0 => t = u
      BY DEF Inv, Once, AtMostOnce
    <3>2. CASE i = calls'
      BY <2>1, <3>1, <3>2
    <3>3. CASE i # calls'
      BY <1>9, <3>1, <3>3
    <3>4. QED
      BY <3>2, <3>3
  <2>3. \A i \in Calls, s \in Sessions : i > calls' => exec'[i][s] = 0
    BY <1>1, <1>3 DEF Inv, Once
  <2>4. \A s \in Sessions : exec'[calls'][s] > 0 => Marked(frames[1], s)'
    BY <1>1, <2>1
  <2>5. QED
    BY <2>2, <2>3, <2>4 DEF Once
<1>15. MountGivesSession' /\ RecoveryOutcome'
  BY <1>7 DEF MountGivesSession, RecoveryOutcome
<1>16. QED
  BY <1>10, <1>11, <1>12, <1>13, <1>14, <1>15 DEF Inv

LEMMA CommandStep ==
  ASSUME Inv, NEW cmd \in {"PATH", "FD"}, Command(cmd)
  PROVE  Inv'
<1>1. StartCall(cmd) /\ UNCHANGED <<session, shutting_down, net, server>> /\ Enter(<<>>, cmd, "return")
  BY DEF Command, network
<1>2. \A f : f.cmd = cmd /\ f.then = "return" => Sole(f, cmd, session)
  BY DEF Sole, Commands
<1>3. cmd \in Cmds /\ cmd # "MOUNT"
  BY DEF Cmds
<1>4. QED
  BY <1>1, <1>2, <1>3, CallStep

LEMMA UmountStep ==
  ASSUME Inv, tnfs_umount
  PROVE  Inv'
<1>1. StartCall("UNMOUNT") /\ UNCHANGED <<session, shutting_down, net, server>> /\ Enter(<<>>, "UNMOUNT", "return")
  BY DEF tnfs_umount, network
<1>2. \A f : f.cmd = "UNMOUNT" /\ f.then = "return" => Sole(f, "UNMOUNT", session)
  BY DEF Sole
<1>3. "UNMOUNT" \in Cmds
  BY DEF Cmds
<1>4. QED
  BY <1>1, <1>2, <1>3, CallStep

LEMMA MountStep ==
  ASSUME Inv, tnfs_mount
  PROVE  Inv'
<1>1. StartCall("MOUNT") /\ UNCHANGED <<session, shutting_down, net, server>>
  BY DEF tnfs_mount, network
<1>2. "UNMOUNT" \in Cmds /\ "MOUNT" \in Cmds
  BY DEF Cmds
<1>3. CASE session # NoSession
  <2>1. Enter(<<>>, "UNMOUNT", "mount")
    BY <1>3 DEF tnfs_mount, network
  <2>2. \A f : f.cmd = "UNMOUNT" /\ f.then = "mount" => Sole(f, "MOUNT", session)
    BY DEF Sole
  <2>3. QED
    BY <1>1, <1>2, <2>1, <2>2, CallStep
<1>4. CASE session = NoSession
  <2>1. Enter(<<>>, "MOUNT", "return")
    BY <1>4 DEF tnfs_mount, network
  <2>2. \A f : f.cmd = "MOUNT" /\ f.then = "return" => Sole(f, "MOUNT", session)
    BY <1>4 DEF Sole
  <2>3. QED
    BY <1>1, <1>2, <1>4, <2>1, <2>2, CallStep
<1>5. QED
  BY <1>3, <1>4

\* A datagram that is read is a reply to the transaction on top.
LEMMA TopReply ==
  ASSUME Inv, NEW m \in net, Arrives(m)
  PROVE  /\ frames # <<>> /\ m \in Replies /\ Belongs(m, Top) /\ Newer(m, frames) /\ ~ shutting_down /\ Top.pc = "wait"
         /\ m.type = "rep" /\ m.seq = Top.expect /\ m.cmd = Top.cmd
<1>1. /\ frames # <<>> /\ m.type = "rep" /\ ~ shutting_down /\ Top.pc = "wait"
      /\ m.sock = Top.sock \/ \A i \in 1 .. Len(frames) : m.sock # frames[i].sock
  BY DEF Arrives, Running
<1>2. InFlight(m, frames) /\ Newer(m, frames)
  BY DEF Inv, Delivery
<1>3. m \in Replies
  BY <1>1, Records DEF Inv, Typed
<1>4. m.sock = Top.sock
  BY <1>1, <1>2 DEF InFlight, Belongs
<1>5. Belongs(m, Top)
  <2>1. CASE \E f \in Frames : Alone(f)
    <3>1. PICK f \in Frames : Alone(f)
      BY <2>1
    <3>2. frames = <<f>> /\ Top = f
      BY <3>1, OneDeep DEF Alone
    <3>3. QED
      BY <1>2, <3>2, FlightOne
  <2>2. CASE \E f, g \in Frames : Nested(f, g)
    <3>1. PICK f \in Frames, g \in Frames : Nested(f, g)
      BY <2>2
    <3>2. frames = <<f, g>> /\ Top = g /\ Own(f, 0) /\ Own(g, 1)
      BY <3>1, TwoDeep DEF Nested
    <3>3. f.sock # g.sock
      BY <3>2 DEF Own
    <3>4. Belongs(m, f) \/ Belongs(m, g)
      BY <1>2, <3>2, FlightTwo
    <3>5. QED
      BY <1>4, <3>2, <3>3, <3>4 DEF Belongs
  <2>3. QED
    BY <1>1, <2>1, <2>2, Active
<1>6. m.seq = Top.expect /\ m.cmd = Top.cmd
  BY <1>1, <1>5, OnTop DEF Belongs, Own
<1>7. QED
  BY <1>1, <1>2, <1>3, <1>5, <1>6

\* The packet with a reply's header in it and the payload as it was.
LEMMA Restored ==
  ASSUME NEW o \in Packets, NEW m, m.sess \in 0 .. MaxSessions, m.seq \in SeqNums, m.cmd \in Cmds
  PROVE  LET p == [Overwrite(o, m) EXCEPT !.body = o.body]
         IN  p \in Packets /\ p.sess = m.sess /\ p.seq = m.seq /\ p.cmd = m.cmd /\ p.body = o.body
<1> DEFINE a == m.sess
           b == m.seq
           c == m.cmd
           d == o.body
           p1 == [o EXCEPT !.sess = a]
           p2 == [p1 EXCEPT !.seq = b]
           p3 == [p2 EXCEPT !.cmd = c]
           p4 == [p3 EXCEPT !.body = Junk]
           p == [p4 EXCEPT !.body = d]
<1>1. a \in 0 .. MaxSessions /\ b \in SeqNums /\ c \in Cmds /\ d \in 0 .. MaxCalls /\ Junk \in 0 .. MaxCalls
  BY Records, Parameters DEF Junk
<1>2. Overwrite(o, m) = [o EXCEPT !.sess = a, !.seq = b, !.cmd = c, !.body = Junk]
  BY DEF Overwrite
<1> HIDE DEF a, b, c, d
<1>3. [o EXCEPT !.sess = a, !.seq = b, !.cmd = c, !.body = Junk] = p4
  BY <1>1 DEF Packets
<1>4. p1 \in Packets /\ p1.sess = a
  BY <1>1 DEF Packets
<1> HIDE DEF p1
<1>5. p2 \in Packets /\ p2.sess = a /\ p2.seq = b
  BY <1>1, <1>4 DEF Packets
<1> HIDE DEF p2
<1>6. p3 \in Packets /\ p3.sess = a /\ p3.seq = b /\ p3.cmd = c
  BY <1>1, <1>5 DEF Packets
<1> HIDE DEF p3
<1>7. p4 \in Packets /\ p4.sess = a /\ p4.seq = b /\ p4.cmd = c
  BY <1>1, <1>6 DEF Packets
<1> HIDE DEF p4
<1>8. p \in Packets /\ p.sess = a /\ p.seq = b /\ p.cmd = c /\ p.body = d
  BY <1>1, <1>7 DEF Packets
<1>9. QED
  BY <1>2, <1>3, <1>8 DEF a, b, c, d

\* The session is gone: a mount begins above the command, which keeps its own request.
LEMMA ExpiredStep ==
  ASSUME Inv, NEW m \in net, SessionExpired(m)
  PROVE  Inv'
<1>1. /\ Arrives(m) /\ m.cmd \notin {"MOUNT", "UNMOUNT"} /\ session' = NoSession
      /\ UNCHANGED <<calls, ret, shutting_down, net, live, last, issued, exec, overtaken>>
      /\ current_sequence_num' = (current_sequence_num + 1) % SeqMod
  BY DEF SessionExpired, Enter, server, network
<1>2. /\ frames # <<>> /\ m \in Replies /\ Belongs(m, Top) /\ m.type = "rep" /\ m.seq = Top.expect /\ m.cmd = Top.cmd
      /\ Top.pc = "wait"
  BY <1>1, TopReply
<1>3. m.cmd \in Commands
  BY <1>1, <1>2, Records DEF Cmds, Commands
<1>4. PICK f \in Frames : f = Top /\ Alone(f) /\ calls \in Calls
  BY <1>2, <1>3, OnTop
<1>5. frames = <<f>> /\ Own(f, 0) /\ frames[1] = f /\ (\A h \in Frames : SetTop(h) = <<h>>)
  BY <1>4, OneDeep DEF Alone
<1>6. /\ f.pkt \in Packets /\ m.sess \in 0 .. MaxSessions /\ m.seq = f.pkt.seq /\ m.cmd = f.pkt.cmd
      /\ f.cmd = "FD" => m.sess = f.pkt.sess
  BY <1>2, <1>4, <1>5, Records DEF Own, Belongs
<1> DEFINE o == f.pkt
           p == [Overwrite(o, m) EXCEPT !.body = o.body]
<1>7. /\ p \in Packets /\ p.seq = o.seq /\ p.cmd = o.cmd /\ p.body = o.body
      /\ f.cmd = "FD" => p.sess = o.sess
  <2>1. o \in Packets /\ m.seq \in SeqNums /\ m.cmd \in Cmds
    BY <1>2, <1>6, Records
  <2>2. p \in Packets /\ p.sess = m.sess /\ p.seq = m.seq /\ p.cmd = m.cmd /\ p.body = o.body
    BY <1>6, <2>1, Restored
  <2>3. QED
    BY <1>6, <2>2
<1>8. PICK q \in Packets : q = p /\ q.seq = f.pkt.seq /\ q.cmd = f.pkt.cmd /\ q.body = f.pkt.body
                          /\ (f.cmd = "FD" => q.sess = f.pkt.sess)
  BY <1>7
<1> HIDE DEF p
<1>9. PICK k : k = [f EXCEPT !.pkt = q]
  OBVIOUS
<1>10. /\ k \in Frames /\ k.cmd = f.cmd /\ k.then = f.then /\ k.sock = f.sock /\ k.expect = f.expect /\ k.pkt = q
       /\ k.pc = f.pc /\ k.retry = f.retry
  BY <1>9 DEF Frames
<1>11. NoSession \in 0 .. MaxSessions /\ calls \in 0 .. MaxCalls /\ "MOUNT" \in Cmds
  BY Parameters DEF NoSession, Cmds, Inv, Typed
<1>12. PICK h \in Frames : h = NewFrame(1, "MOUNT", "return", NoSession) /\ h.cmd = "MOUNT" /\ h.then = "return" /\ Own(h, 1)'
  BY <1>1, <1>11, Begins
<1>13. frames' = <<k, h>>
  <2>1. frames' = Append(SetTop([Top EXCEPT !.pkt = p]), NewFrame(Len(SetTop([Top EXCEPT !.pkt = p])), "MOUNT", "return", session'))
    BY <1>4 DEF SessionExpired, Enter, p, network
  <2>2. SetTop([Top EXCEPT !.pkt = p]) = <<k>>
    BY <1>4, <1>5, <1>8, <1>9, <1>10
  <2>3. Len(<<k>>) = 1
    OBVIOUS
  <2>4. frames' = Append(<<k>>, h)
    BY <1>1, <1>12, <2>1, <2>2, <2>3
  <2>5. QED
    BY <1>10, <2>4, Pushed
<1>14. frames' # <<>> /\ Len(frames') = 2 /\ frames'[1] = k
  BY <1>13
<1>15. Typed'
  <2>1. current_sequence_num' \in SeqNums
    BY <1>1, NextNumber DEF Inv, Typed
  <2>2. session' \in 0 .. issued'
    BY <1>1 DEF Inv, Typed, NoSession
  <2>3. QED
    BY <1>1, <2>1, <2>2 DEF Inv, Typed
<1>16. Stack'
  <2>1. Own(k, 0)'
    BY <1>1, <1>3, <1>2, <1>4, <1>5, <1>8, <1>10 DEF Own, Commands
  <2>2. k.cmd \in Commands /\ k.then = "return" /\ ret'[calls'].cmd = k.cmd
    BY <1>1, <1>2, <1>3, <1>4, <1>10 DEF Alone, Sole, Commands
  <2>3. Inner(h, session')
    BY <1>1, <1>12 DEF Inner
  <2>4. Nested(k, h)'
    BY <1>12, <1>13, <2>1, <2>2, <2>3 DEF Nested
  <2>5. QED
    BY <1>1, <1>4, <1>10, <2>4 DEF Stack
<1>17. Delivery'
  <2>1. \A n \in net : Belongs(n, f) /\ n.type \in {"req", "rep"}
    BY <1>5, FlightOne, Records DEF Inv, Typed, Delivery
  <2>2. \A n \in net : Belongs(n, k)
    BY <1>8, <1>10, <2>1 DEF Belongs
  <2>3. \A n \in net : n.type = "rep" => n.cmd # "MOUNT"
    BY <1>2, <1>3, <1>4, <2>1 DEF Belongs, Commands
  <2>4. \A n \in net : Newer(n, frames)'
    BY <2>3 DEF Newer
  <2>5. QED
    BY <1>1, <1>13, <2>2, <2>4, FlightTwo DEF Delivery
<1>18. Once'
  <2>1. \A s \in Sessions : exec[calls][s] > 0 => Marked(f, s)
    BY <1>2, <1>5 DEF Inv, Once
  <2>2. \A s \in Sessions : exec'[calls'][s] > 0 => Marked(k, s)'
    BY <1>1, <1>8, <1>10, <2>1 DEF Marked
  <2>3. AtMostOnce' /\ \A i \in Calls, s \in Sessions : i > calls' => exec'[i][s] = 0
    BY <1>1 DEF Inv, Once, AtMostOnce
  <2>4. \A s \in Sessions : Marked(frames[1], s)' <=> Marked(k, s)'
    BY <1>14 DEF Marked
  <2>5. QED
    BY <2>2, <2>3, <2>4 DEF Once
<1>19. Later' /\ MountGivesSession' /\ RecoveryOutcome'
  BY <1>1, <1>14 DEF Inv, Later, MountGivesSession, RecoveryOutcome
<1>20. QED
  BY <1>15, <1>16, <1>17, <1>18, <1>19 DEF Inv

-----------------------------------------------------------------------------
(***************************************************************************)
(* A transaction returns.                                                  *)
(***************************************************************************)
\* What stays in flight: the datagrams of the transactions that stay.
LEMMA ClosedSockets ==
  ASSUME Faults = {}, CloseSockets
  PROVE  /\ net' \subseteq net /\ \A m \in net' : \E i \in 1 .. Len(frames') : m.sock = frames'[i].sock
<1>1. ~ ("stale" \in Faults)
  OBVIOUS
<1>2. QED
  BY <1>1 DEF CloseSockets, StillOpen

LEMMA LeftOpen ==
  ASSUME Faults = {}, CloseSockets, NEW h, Len(frames') = 1, frames'[1] = h
  PROVE  net' \subseteq net /\ \A m \in net' : m.sock = h.sock
BY ClosedSockets

LEMMA Told ==
  ASSUME Inv, calls \in Calls, NEW res \in Results, NEW of \in 0 .. MaxCalls, Finish(res, of)
  PROVE  /\ ret' \in [Calls -> Returns] /\ \A i \in Calls : i # calls => ret'[i] = ret[i]
         /\ ret'[calls].cmd = ret[calls].cmd /\ ret'[calls].res = res /\ ret'[calls].of = of
<1> DEFINE k == calls
           r == ret[k]
           r1 == [r EXCEPT !.res = res]
           r2 == [r1 EXCEPT !.of = of]
<1>1. ret \in [Calls -> Returns] /\ r \in Returns
  BY DEF Inv, Typed
<1>2. ret' = [ret EXCEPT ![k].res = res, ![k].of = of]
  BY DEF Finish
<1>3. ret' = [ret EXCEPT ![k] = r2]
  BY <1>1, <1>2
<1> HIDE DEF r
<1>4. r1 \in Returns /\ r1.cmd = r.cmd /\ r1.res = res
  BY <1>1 DEF Returns
<1> HIDE DEF r1
<1>5. r2 \in Returns /\ r2.cmd = r.cmd /\ r2.res = res /\ r2.of = of
  BY <1>4 DEF Returns
<1> HIDE DEF r2
<1>6. ret' \in [Calls -> Returns] /\ ret'[k] = r2 /\ \A i \in Calls : i # k => ret'[i] = ret[i]
  BY <1>1, <1>3, <1>5
<1>7. QED
  BY <1>5, <1>6 DEF r

\* The call is over.
LEMMA CallEnds ==
  ASSUME Inv, Faults = {}, calls \in Calls, CloseSockets, NEW res \in Results, NEW of \in 0 .. MaxCalls, Finish(res, of),
         UNCHANGED <<calls, shutting_down, live, last, issued, exec, overtaken>>, session' \in 0 .. issued,
         (~ shutting_down /\ ret[calls].cmd = "MOUNT" /\ res = "OK") => session' \in (1 .. issued) \ OldSessions,
         (~ shutting_down /\ ret[calls].cmd \in Commands /\ res = "BAD_FILENUM") =>
            ret[calls].cmd = "FD" /\ session' \in Sessions \ OldSessions /\ exec[calls][session'] = 0,
         (~ shutting_down /\ ret[calls].cmd \in Commands /\ res = "INVALID_HANDLE") =>
            session' \in {NoSession} \cup OldSessions
  PROVE  Inv'
<1>1. frames' = <<>> /\ current_sequence_num' = current_sequence_num
  BY DEF Finish
<1>2. /\ ret' \in [Calls -> Returns] /\ \A i \in Calls : i # calls => ret'[i] = ret[i]
      /\ ret'[calls].cmd = ret[calls].cmd /\ ret'[calls].res = res /\ ret'[calls].of = of
  BY Told
<1>3. net' = {}
  <2>1. Len(frames') = 0
    BY <1>1
  <2>2. \A m \in net' : FALSE
    BY <2>1, ClosedSockets
  <2>3. QED
    BY <2>2
<1>4. Typed'
  <2>1. net' \subseteq Requests \cup Replies
    BY <1>3
  <2>2. QED
    BY <1>1, <1>2, <2>1 DEF Inv, Typed
<1>5. Stack' /\ Delivery'
  BY <1>1, <1>3 DEF Stack, Delivery
<1>6. Later'
  <2>1. \A i \in Calls : i > calls => i # calls
    BY Parameters DEF Calls
  <2>2. QED
    BY <1>2, <2>1 DEF Inv, Later
<1>7. Once'
  <2>1. \A i \in Calls : ret'[i].cmd = ret[i].cmd
    BY <1>2
  <2>2. AtMostOnce'
    BY <2>1 DEF Inv, Once, AtMostOnce
  <2>3. QED
    BY <1>1, <2>2 DEF Inv, Once
<1>8. MountGivesSession'
  BY <1>2 DEF MountGivesSession, Completed
<1>9. RecoveryOutcome'
  BY <1>2 DEF RecoveryOutcome, Completed, FileOrPath, Commands
<1>10. QED
  BY <1>4, <1>5, <1>6, <1>7, <1>8, <1>9 DEF Inv

\* An unmount is followed by a mount, or the mount of an old server by an unmount.
LEMMA NextTransaction ==
  ASSUME Inv, Faults = {}, frames # <<>>, Top.cmd \notin Commands, NEW cmd \in {"MOUNT", "UNMOUNT"}, NEW then \in {"return", "refuse"},
         Enter(Below, cmd, then), CloseSockets, session' \in 0 .. issued, cmd = "MOUNT" => session' = NoSession,
         UNCHANGED <<calls, ret, shutting_down, live, last, issued, exec, overtaken>>,
         Below = <<>> => \A h : h.cmd = cmd /\ h.then = then => Sole(h, ret[calls].cmd, session'),
         Below # <<>> => \A h : h.cmd = cmd /\ h.then = then => Inner(h, session')
  PROVE  Inv'
<1>1. /\ frames' = Append(Below, NewFrame(Len(Below), cmd, then, session'))
      /\ current_sequence_num' = (current_sequence_num + 1) % SeqMod
  BY DEF Enter
<1>2. calls \in Calls /\ calls \in 0 .. MaxCalls /\ session' \in 0 .. MaxSessions /\ cmd \in Cmds /\ cmd \notin Commands
      /\ cmd # "FD"
  BY Active, Parameters DEF Inv, Typed, Cmds, Commands
<1>3. Typed'
  <2>1. current_sequence_num' \in SeqNums
    BY <1>1, NextNumber DEF Inv, Typed
  <2>2. net' \subseteq Requests \cup Replies
    BY ClosedSockets DEF Inv, Typed
  <2>3. QED
    BY <2>1, <2>2 DEF Inv, Typed
<1>4. Later'
  BY DEF Inv, Later
<1>5. AtMostOnce' /\ \A i \in Calls, s \in Sessions : i > calls' => exec'[i][s] = 0
  BY DEF Inv, Once, AtMostOnce
<1>6. \A s \in Sessions : exec[calls][s] > 0 => Marked(frames[1], s)
  BY DEF Inv, Once
<1>7. CASE \E f \in Frames : Alone(f)
  <2>1. PICK f \in Frames : Alone(f)
    BY <1>7
  <2>2. frames = <<f>> /\ Top = f /\ frames[1] = f /\ Below = <<>> /\ Own(f, 0)
    BY <2>1, OneDeep DEF Alone
  <2>3. Len(<<>>) = 0
    OBVIOUS
  <2>4. PICK h \in Frames : /\ h = NewFrame(0, cmd, then, session') /\ h.cmd = cmd /\ h.then = then
                            /\ h.pkt.seq = current_sequence_num /\ Own(h, 0)'
    BY <1>1, <1>2, Begins
  <2>5. frames' = <<h>>
    BY <1>1, <2>2, <2>3, <2>4, Pushed
  <2>6. frames' # <<>> /\ frames'[1] = h /\ Len(frames') = 1
    BY <2>5
  <2>7. Stack'
    <3>1. Alone(h)'
      BY <2>2, <2>4, <2>5 DEF Alone
    <3>2. QED
      BY <1>2, <3>1 DEF Stack
  <2>8. h.sock # f.sock
    <3>1. f.pkt.seq \in SeqNums /\ current_sequence_num = (f.pkt.seq + 1) % SeqMod
      BY <2>2, Records DEF Own
    <3>2. current_sequence_num # f.pkt.seq
      BY <3>1, NextNumber
    <3>3. h.sock = <<0, current_sequence_num>> /\ f.sock = <<0, f.pkt.seq>>
      BY <2>2, <2>4 DEF Own
    <3>4. QED
      BY <3>2, <3>3
  <2>9. net' = {}
    <3>1. \A m \in net : m.sock = f.sock
      BY <2>2, FlightOne DEF Inv, Delivery, Belongs
    <3>2. \A m \in net' : m.sock = h.sock
      BY <2>6, ClosedSockets
    <3>3. QED
      BY <2>8, <3>1, <3>2, ClosedSockets
  <2>10. Delivery'
    BY <2>9 DEF Delivery
  <2>11. Once'
    <3>1. \A s \in Sessions : ~ (exec[calls][s] > 0)
      BY <1>6, <2>2 DEF Marked
    <3>2. QED
      BY <1>5, <3>1 DEF Once
  <2>12. QED
    BY <1>3, <1>4, <2>6, <2>7, <2>10, <2>11 DEF Inv, MountGivesSession, RecoveryOutcome
<1>8. CASE \E f, g \in Frames : Nested(f, g)
  <2>1. PICK f \in Frames, g \in Frames : Nested(f, g)
    BY <1>8
  <2>2. frames = <<f, g>> /\ Top = g /\ frames[1] = f /\ Below = <<f>> /\ Own(f, 0) /\ Own(g, 1) /\ Len(frames) = 2
    BY <2>1, TwoDeep DEF Nested
  <2>3. Len(<<f>>) = 1 /\ <<f>> # <<>>
    OBVIOUS
  <2>4. PICK h \in Frames : /\ h = NewFrame(1, cmd, then, session') /\ h.cmd = cmd /\ h.then = then
                            /\ h.pkt.seq = current_sequence_num /\ Own(h, 1)'
    BY <1>1, <1>2, Begins
  <2>5. frames' = <<f, h>>
    BY <1>1, <2>2, <2>3, <2>4, Pushed
  <2>6. frames' # <<>> /\ frames'[1] = f /\ frames'[2] = h /\ Len(frames') = 2
    BY <2>5
  <2>7. Stack'
    <3>1. Own(f, 0)'
      BY <2>1, <2>2 DEF Nested, Own
    <3>2. Inner(h, session')
      BY <2>2, <2>3, <2>4
    <3>3. Nested(f, h)'
      BY <2>1, <2>4, <2>5, <3>1, <3>2 DEF Nested
    <3>4. QED
      BY <1>2, <3>3 DEF Stack
  <2>8. g.sock # h.sock /\ g.sock # f.sock
    <3>1. g.cmd \notin Commands /\ g.pkt.seq \in SeqNums /\ current_sequence_num = (g.pkt.seq + 1) % SeqMod
      BY <2>2, Records DEF Own
    <3>2. current_sequence_num # g.pkt.seq
      BY <3>1, NextNumber
    <3>3. h.sock = <<1, current_sequence_num>> /\ g.sock = <<1, g.pkt.seq>> /\ f.sock = <<0, f.pkt.seq>>
      BY <2>2, <2>4 DEF Own
    <3>4. QED
      BY <3>2, <3>3
  <2>9. \A m \in net' : m \in net /\ Belongs(m, f)
    <3>1. \A m \in net : Belongs(m, f) \/ Belongs(m, g)
      BY <2>2, FlightTwo DEF Inv, Delivery
    <3>2. \A m \in net' : m.sock = f.sock \/ m.sock = h.sock
      BY <2>6, ClosedSockets
    <3>3. \A m \in net' : m \in net /\ m.sock # g.sock
      BY <2>8, <3>2, ClosedSockets
    <3>4. QED
      BY <3>1, <3>3 DEF Belongs
  <2>10. Delivery'
    <3>1. \A m \in net' : m.type = "rep" => m.cmd # "MOUNT"
      BY <2>1, <2>9 DEF Belongs, Nested, Commands
    <3>2. \A m \in net' : Newer(m, frames)'
      BY <3>1 DEF Newer
    <3>3. QED
      BY <2>5, <2>9, <3>2, FlightTwo DEF Delivery
  <2>11. Once'
    BY <1>5, <1>6, <2>2, <2>6 DEF Once, Marked
  <2>12. QED
    BY <1>3, <1>4, <2>6, <2>7, <2>10, <2>11 DEF Inv, MountGivesSession, RecoveryOutcome
<1>9. QED
  BY <1>7, <1>8, Active

\* A command that names a path is tried again in the new session.
LEMMA Resumes ==
  ASSUME Inv, Faults = {}, calls \in Calls, NEW f \in Frames, NEW g \in Frames, Nested(f, g), f.cmd # "FD",
         frames' = <<[f EXCEPT !.pkt.sess = session', !.retry = 0, !.pc = "send"]>>, CloseSockets, session' \in 0 .. issued,
         UNCHANGED <<calls, ret, current_sequence_num, shutting_down, live, last, issued, exec, overtaken>>
  PROVE  Inv'
<1>1. frames = <<f, g>> /\ Own(f, 0) /\ Own(g, 1) /\ frames[1] = f /\ Len(frames) = 2
      /\ f.cmd \in Commands /\ f.then = "return" /\ ret[calls].cmd = f.cmd
  BY TwoDeep DEF Nested
<1> DEFINE n == session'
           o == f.pkt
           p == [o EXCEPT !.sess = n]
           f1 == [f EXCEPT !.pkt = p]
           f2 == [f1 EXCEPT !.retry = 0]
           f3 == [f2 EXCEPT !.pc = "send"]
<1>2. frames' = <<f3>>
  <2>1. [f EXCEPT !.pkt.sess = session', !.retry = 0, !.pc = "send"] = f3
    BY DEF Frames
  <2>2. QED
    BY <2>1
<1>3. n \in 0 .. MaxSessions /\ o \in Packets /\ 0 \in 0 .. MaxRetries
  BY Parameters, Records DEF Inv, Typed
<1> HIDE DEF n, o
<1>4. p \in Packets /\ p.seq = o.seq /\ p.cmd = o.cmd /\ p.body = o.body
  BY <1>3 DEF Packets
<1> HIDE DEF p
<1>5. /\ f1 \in Frames /\ f1.cmd = f.cmd /\ f1.then = f.then /\ f1.sock = f.sock /\ f1.expect = f.expect /\ f1.pkt = p
  BY <1>4 DEF Frames
<1> HIDE DEF f1
<1>6. /\ f2 \in Frames /\ f2.cmd = f.cmd /\ f2.then = f.then /\ f2.sock = f.sock /\ f2.expect = f.expect /\ f2.pkt = p
  BY <1>3, <1>5 DEF Frames
<1> HIDE DEF f2
<1>7. /\ f3 \in Frames /\ f3.cmd = f.cmd /\ f3.then = f.then /\ f3.sock = f.sock /\ f3.expect = f.expect /\ f3.pkt = p
      /\ f3.pc = "send"
  BY <1>6 DEF Frames
<1> HIDE DEF f3
<1>8. PICK h \in Frames : /\ frames' = <<h>> /\ h.cmd = f.cmd /\ h.then = f.then /\ h.sock = f.sock /\ h.expect = f.expect
                          /\ h.pc = "send" /\ h.pkt.seq = f.pkt.seq /\ h.pkt.cmd = f.pkt.cmd /\ h.pkt.body = f.pkt.body
  BY <1>2, <1>4, <1>7 DEF o
<1>9. frames' # <<>> /\ frames'[1] = h /\ Len(frames') = 1
  BY <1>8
<1>10. Typed'
  <2>1. net' \subseteq Requests \cup Replies
    BY ClosedSockets DEF Inv, Typed
  <2>2. QED
    BY <2>1 DEF Inv, Typed
<1>11. Stack'
  <2>1. Own(h, 0)'
    BY <1>1, <1>8 DEF Own, Commands
  <2>2. Alone(h)'
    BY <1>1, <1>8, <2>1 DEF Alone, Sole
  <2>3. QED
    BY <2>2 DEF Stack
<1>12. \A m \in net' : m \in net /\ Belongs(m, f)
  <2>1. \A m \in net : Belongs(m, f) \/ Belongs(m, g)
    BY <1>1, FlightTwo DEF Inv, Delivery
  <2>2. g.sock # f.sock
    BY <1>1 DEF Own
  <2>3. \A m \in net' : m \in net /\ m.sock = f.sock
    BY <1>8, <1>9, LeftOpen
  <2>4. QED
    BY <2>1, <2>2, <2>3 DEF Belongs
<1>13. Delivery'
  <2>1. \A m \in net' : m.type = "rep" => m.cmd # "MOUNT"
    BY <1>1, <1>12 DEF Belongs, Commands
  <2>2. \A m \in net' : Newer(m, frames)'
    BY <2>1 DEF Newer
  <2>3. \A m \in net' : Belongs(m, h)
    BY <1>1, <1>8, <1>12 DEF Belongs, Commands
  <2>4. QED
    BY <1>8, <2>2, <2>3, FlightOne DEF Delivery
<1>14. Once'
  <2>1. AtMostOnce' /\ \A i \in Calls, s \in Sessions : i > calls' => exec'[i][s] = 0
    BY DEF Inv, Once, AtMostOnce
  <2>2. frames # <<>>
    BY <1>1
  <2>3. \A s \in Sessions : exec[calls][s] > 0 => Marked(f, s)
    BY <1>1, <2>2 DEF Inv, Once
  <2>4. QED
    BY <1>8, <1>9, <2>1, <2>3 DEF Once, Marked
<1>15. Later' /\ MountGivesSession' /\ RecoveryOutcome'
  BY <1>9 DEF Inv, Later, MountGivesSession, RecoveryOutcome
<1>16. QED
  BY <1>10, <1>11, <1>13, <1>14, <1>15 DEF Inv

\* What a mount or an unmount on top of the stack is there for.
LEMMA Role ==
  ASSUME Inv, frames # <<>>
  PROVE  /\ Top.cmd = "MOUNT" =>
              Top.then = "return" /\ session = NoSession /\ (Below = <<>> => ret[calls].cmd = "MOUNT")
         /\ Top.cmd = "UNMOUNT" =>
              \/ Top.then = "return" /\ Below = <<>> /\ ret[calls].cmd = "UNMOUNT"
              \/ Top.then = "mount" /\ Below = <<>> /\ ret[calls].cmd = "MOUNT"
              \/ Top.then = "refuse" /\ session \in OldSessions /\ (Below = <<>> => ret[calls].cmd = "MOUNT")
<1>1. CASE \E f \in Frames : Alone(f)
  <2>1. PICK f \in Frames : Alone(f)
    BY <1>1
  <2>2. Top = f /\ Below = <<>> /\ Sole(f, ret[calls].cmd, session)
    BY <2>1, OneDeep DEF Alone
  <2>3. QED
    BY <2>2 DEF Sole, Commands
<1>2. CASE \E f, g \in Frames : Nested(f, g)
  <2>1. PICK f \in Frames, g \in Frames : Nested(f, g)
    BY <1>2
  <2>2. Top = g /\ Below = <<f>> /\ <<f>> # <<>> /\ Inner(g, session)
    BY <2>1, TwoDeep DEF Nested
  <2>3. QED
    BY <2>2 DEF Inner
<1>3. QED
  BY <1>1, <1>2, Active

\* tnfs_mount returns, to the application or into the interrupted command.
LEMMA MountDone ==
  ASSUME Inv, Faults = {}, frames # <<>>, Top.cmd \notin Commands, Below = <<>> => ret[calls].cmd = "MOUNT",
         NEW res \in Results, MountReturns(res), CloseSockets, session' \in 0 .. issued,
         UNCHANGED <<calls, shutting_down, live, last, issued, exec, overtaken>>,
         (~ shutting_down /\ res = "OK") =>
            /\ session' \in (1 .. issued) \ OldSessions
            /\ (Len(frames) = 2 /\ frames[1].cmd = "FD") => frames[1].pkt.sess < session',
         (~ shutting_down /\ res # "OK") => session' \in {NoSession} \cup OldSessions
  PROVE  Inv'
<1>1. calls \in Calls /\ Junk \in 0 .. MaxCalls /\ "INVALID_HANDLE" \in Results /\ "BAD_FILENUM" \in Results
  BY Active, Parameters DEF Junk, Results
<1>2. CASE Below = <<>>
  <2>1. Finish(res, Junk) /\ ret[calls].cmd = "MOUNT" /\ ret[calls].cmd \notin Commands
    BY <1>2 DEF MountReturns, Commands
  <2>2. QED
    BY <1>1, <2>1, CallEnds
<1>3. CASE Below # <<>>
  <2>1. PICK f \in Frames, g \in Frames : Nested(f, g)
    BY <1>3, Active, OneDeep DEF Alone
  <2>2. /\ Below = <<f>> /\ Below[1] = f /\ frames[1] = f /\ Len(frames) = 2 /\ f.pkt.cmd = f.cmd
        /\ ret[calls].cmd = f.cmd /\ f.cmd \in Commands /\ f.cmd # "MOUNT"
    BY <2>1, TwoDeep DEF Nested, Own, Commands
  <2>3. CASE res # "OK"
    <3>1. Finish("INVALID_HANDLE", Junk)
      BY <1>3, <2>3 DEF MountReturns
    <3>2. QED
      BY <1>1, <2>2, <2>3, <3>1, CallEnds
  <2>4. CASE res = "OK" /\ f.cmd = "FD"
    <3>1. Finish("BAD_FILENUM", Junk)
      BY <1>3, <2>2, <2>4 DEF MountReturns
    <3>2. ASSUME ~ shutting_down
          PROVE  session' \in Sessions \ OldSessions /\ exec[calls][session'] = 0
      <4>1. PICK t : t = session'
        OBVIOUS
      <4>2. t \in 1 .. issued /\ t \notin OldSessions /\ f.pkt.sess < t /\ issued \in 0 .. MaxSessions
        BY <2>2, <2>4, <3>2, <4>1 DEF Inv, Typed
      <4>3. t \in Sessions /\ t # f.pkt.sess
        <5>1. f.pkt.sess \in Nat
          BY Records, Parameters
        <5>2. QED
          BY <4>2, <5>1, Parameters DEF Sessions
      <4>4. exec[calls][t] \in Nat
        BY <1>1, <4>3 DEF Inv, Typed
      <4>5. ~ (exec[calls][t] > 0)
        BY <2>2, <2>4, <4>3 DEF Inv, Once, Marked
      <4>6. exec[calls][t] = 0
        BY <4>4, <4>5
      <4>7. QED
        BY <4>1, <4>2, <4>3, <4>6
    <3>3. QED
      BY <1>1, <2>2, <2>4, <3>1, <3>2, CallEnds
  <2>5. CASE res = "OK" /\ f.cmd # "FD"
    <3>1. frames' = <<[f EXCEPT !.pkt.sess = session', !.retry = 0, !.pc = "send"]>> /\ UNCHANGED <<ret, current_sequence_num>>
      BY <1>3, <2>2, <2>5 DEF MountReturns
    <3>2. QED
      BY <1>1, <2>1, <2>5, <3>1, Resumes
  <2>6. QED
    BY <2>3, <2>4, <2>5
<1>4. QED
  BY <1>2, <1>3

\* _tnfs_transaction returns to tnfs_mount.
LEMMA AfterMountStep ==
  ASSUME Inv, Faults = {}, frames # <<>>, Top.cmd = "MOUNT", NEW m, AfterMount(m), m.res \in Results, CloseSockets,
         UNCHANGED <<calls, shutting_down, live, last, issued, exec, overtaken>>,
         m.res = "OK" => m.sess \in 0 .. issued,
         (m.res = "OK" /\ ~ shutting_down) =>
            m.sess \in 1 .. issued /\ ((Len(frames) = 2 /\ frames[1].cmd = "FD") => frames[1].pkt.sess < m.sess)
  PROVE  Inv'
<1>1. /\ Top.then = "return" /\ session = NoSession /\ (Below = <<>> => ret[calls].cmd = "MOUNT")
      /\ Top.cmd \notin Commands /\ session \in 0 .. issued
  BY Role DEF Inv, Typed, Commands
<1>2. CASE m.res = "OK" /\ m.sess \in OldSessions
  <2>1. session' = m.sess /\ Enter(Below, "UNMOUNT", "refuse") /\ UNCHANGED ret
    BY <1>2 DEF AfterMount
  <2>2. session' \in OldSessions /\ session' \in 0 .. issued
    BY <1>2, <2>1
  <2>3. /\ Below = <<>> => \A h : h.cmd = "UNMOUNT" /\ h.then = "refuse" => Sole(h, ret[calls].cmd, session')
        /\ Below # <<>> => \A h : h.cmd = "UNMOUNT" /\ h.then = "refuse" => Inner(h, session')
    BY <1>1, <2>2 DEF Sole, Inner
  <2>4. QED
    BY <1>1, <2>1, <2>2, <2>3, NextTransaction
<1>3. CASE m.res = "OK" /\ m.sess \notin OldSessions
  <2>1. session' = m.sess /\ MountReturns("OK") /\ "OK" \in Results
    BY <1>3 DEF AfterMount
  <2>2. QED
    BY <1>1, <1>3, <2>1, MountDone
<1>4. CASE m.res # "OK"
  <2>1. UNCHANGED session /\ MountReturns(m.res)
    BY <1>4 DEF AfterMount
  <2>2. QED
    BY <1>1, <1>4, <2>1, MountDone
<1>5. QED
  BY <1>2, <1>3, <1>4

\* _tnfs_transaction returns to tnfs_umount.
LEMMA AfterUmountStep ==
  ASSUME Inv, Faults = {}, frames # <<>>, Top.cmd = "UNMOUNT", NEW m, AfterUmount(m), m.res \in Results, CloseSockets,
         UNCHANGED <<calls, shutting_down, live, last, issued, exec, overtaken>>
  PROVE  Inv'
<1>1. /\ Top.cmd \notin Commands /\ session \in 0 .. issued /\ NoSession \in 0 .. issued /\ calls \in Calls
      /\ Junk \in 0 .. MaxCalls /\ "UNIMPLEMENTED" \in Results
  BY Active, Parameters DEF Inv, Typed, Commands, NoSession, Junk, Results
<1>2. CASE Top.then = "return"
  <2>1. Finish(m.res, Junk) /\ (session' = NoSession \/ session' = session)
    BY <1>2 DEF AfterUmount
  <2>2. ret[calls].cmd = "UNMOUNT" /\ ret[calls].cmd \notin Commands
    BY <1>2, Role DEF Commands
  <2>3. QED
    BY <1>1, <2>1, <2>2, CallEnds
<1>3. CASE Top.then = "mount"
  <2>1. session' = NoSession /\ Enter(<<>>, "MOUNT", "return") /\ UNCHANGED ret
    BY <1>3 DEF AfterUmount
  <2>2. Below = <<>> /\ ret[calls].cmd = "MOUNT"
    BY <1>3, Role
  <2>3. Enter(Below, "MOUNT", "return") /\ \A h : h.cmd = "MOUNT" /\ h.then = "return" => Sole(h, ret[calls].cmd, session')
    BY <2>1, <2>2 DEF Sole
  <2>4. QED
    BY <1>1, <2>1, <2>2, <2>3, NextTransaction
<1>4. CASE Top.then = "refuse"
  <2>1. MountReturns("UNIMPLEMENTED") /\ (session' = NoSession \/ session' = session)
    BY <1>4 DEF AfterUmount
  <2>2. session \in OldSessions /\ (Below = <<>> => ret[calls].cmd = "MOUNT")
    BY <1>4, Role
  <2>3. QED
    BY <1>1, <2>1, <2>2, MountDone
<1>5. QED
  BY <1>2, <1>3, <1>4, Role

\* A transaction returns to its caller.
LEMMA ReturnStep ==
  ASSUME Inv, Faults = {}, frames # <<>>, NEW m, Return(m), m.res \in Results, UNCHANGED <<shutting_down, server>>,
         m.of \in 0 .. MaxCalls,
         (Top.cmd \in Commands /\ ~ shutting_down) => m.res \notin {"BAD_FILENUM", "INVALID_HANDLE"},
         (Top.cmd = "MOUNT" /\ m.res = "OK") => m.sess \in 0 .. issued,
         (Top.cmd = "MOUNT" /\ m.res = "OK" /\ ~ shutting_down) =>
            m.sess \in 1 .. issued /\ ((Len(frames) = 2 /\ frames[1].cmd = "FD") => frames[1].pkt.sess < m.sess)
  PROVE  Inv'
<1>1. UNCHANGED <<calls, shutting_down, live, last, issued, exec, overtaken>> /\ CloseSockets
  BY DEF Return, server
<1>2. CASE Top.cmd = "MOUNT"
  <2>1. AfterMount(m)
    BY <1>2 DEF Return
  <2>2. QED
    BY <1>1, <1>2, <2>1, AfterMountStep
<1>3. CASE Top.cmd = "UNMOUNT"
  <2>1. AfterUmount(m)
    BY <1>3 DEF Return
  <2>2. QED
    BY <1>1, <1>3, <2>1, AfterUmountStep
<1>4. CASE Top.cmd \in Commands
  <2>1. UNCHANGED session /\ Finish(m.res, m.of)
    BY <1>4 DEF Return, Commands
  <2>2. calls \in Calls /\ session' \in 0 .. issued
    BY <2>1, Active DEF Inv, Typed
  <2>3. ret[calls].cmd \in Commands
    BY <1>4, OnTop DEF Alone, Sole, Commands
  <2>4. ret[calls].cmd # "MOUNT"
    BY <2>3 DEF Commands
  <2>5. QED
    BY <1>1, <1>4, <2>1, <2>2, <2>3, <2>4, CallEnds
<1>5. QED
  BY <1>2, <1>3, <1>4, OnTop, Records DEF Cmds, Commands

LEMMA GiveUpStep ==
  ASSUME Inv, Faults = {}, GiveUp
  PROVE  Inv'
<1> DEFINE m == [res |-> "NO_RESPONSE", of |-> Junk]
<1>1. frames # <<>> /\ Return(m) /\ UNCHANGED <<shutting_down, server>>
  BY DEF GiveUp, Running
<1>2. m.res = "NO_RESPONSE" /\ m.res \in Results /\ m.of \in 0 .. MaxCalls
  BY Parameters DEF Results, Junk
<1> HIDE DEF m
<1>3. QED
  BY <1>1, <1>2, ReturnStep

LEMMA BreakoutStep ==
  ASSUME Inv, Faults = {}, Breakout
  PROVE  Inv'
<1>1. PICK res \in {"OK", "ERROR"} : Return([res |-> res, of |-> Junk, sess |-> Top.pkt.sess])
  BY DEF Breakout
<1> DEFINE s == Top.pkt.sess
           m == [res |-> res, of |-> Junk, sess |-> s]
<1>2. frames # <<>> /\ Return(m) /\ shutting_down /\ UNCHANGED <<shutting_down, server>>
  BY <1>1 DEF Breakout, Running
<1>3. m.res = res /\ m.res \in Results /\ m.of \in 0 .. MaxCalls /\ m.sess = s
  BY Parameters DEF Results, Junk
<1> HIDE DEF m
<1>4. Top.cmd = "MOUNT" => m.sess \in 0 .. issued
  <2>1. Top.cmd = "MOUNT" => s = NoSession
    BY <1>2, OnTop DEF Own
  <2>2. NoSession \in 0 .. issued
    BY Parameters DEF Inv, Typed, NoSession
  <2>3. QED
    BY <1>3, <2>1, <2>2
<1>5. QED
  BY <1>2, <1>3, <1>4, ReturnStep

LEMMA ReplyStep ==
  ASSUME Inv, Faults = {}, NEW m \in net, Reply(m)
  PROVE  Inv'
<1>1. Arrives(m) /\ Return(m) /\ (m.res = "INVALID_HANDLE" => m.cmd \in {"MOUNT", "UNMOUNT"}) /\ UNCHANGED <<shutting_down, server>>
  BY DEF Reply
<1>2. frames # <<>> /\ m \in Replies /\ Newer(m, frames) /\ ~ shutting_down /\ m.type = "rep" /\ m.cmd = Top.cmd
  BY <1>1, TopReply
<1>3. m.res \in {"OK", "INVALID_HANDLE"} /\ m.of \in 0 .. MaxCalls
  BY <1>2, Records
<1>4. m.res \in Results /\ (Top.cmd \in Commands => m.res \notin {"BAD_FILENUM", "INVALID_HANDLE"})
  BY <1>1, <1>2, <1>3 DEF Results, Commands
<1>5. Top.cmd = "MOUNT" =>
         m.sess \in 1 .. issued /\ ((Len(frames) = 2 /\ frames[1].cmd = "FD") => frames[1].pkt.sess < m.sess)
  BY <1>2 DEF Newer
<1>6. 1 .. issued \subseteq 0 .. issued
  BY Parameters DEF Inv, Typed
<1>7. QED
  BY <1>1, <1>2, <1>3, <1>4, <1>5, <1>6, ReturnStep

\* How a transaction that returns leaves the stack, and what the application is told.
Remounted(m) == /\ Top.cmd = "MOUNT" /\ m.res = "OK" /\ session' = m.sess
                /\ Len(frames) = 2 /\ frames[1].cmd = "FD"

LEMMA Returned ==
  ASSUME Inv, frames # <<>>, NEW m, Return(m), m.res \in Results, m.of \in 0 .. MaxCalls
  PROVE  /\ \/ frames' = <<>>
            \/ frames' # <<>> /\ frames'[1].pkt.seq = current_sequence_num /\ frames[1].cmd \notin Commands
            \/ /\ frames' # <<>> /\ frames'[1].pkt.seq = frames[1].pkt.seq
               /\ frames'[1].cmd = frames[1].cmd /\ frames'[1].sock = frames[1].sock
         /\ \/ ret' = ret /\ frames' # <<>>
            \/ \E res \in Results, of \in 0 .. MaxCalls :
                 /\ Finish(res, of)
                 /\ (ret[calls].cmd \in Commands /\ res = "OK") => Top.cmd \in Commands /\ res = m.res /\ of = m.of
                 /\ res = "BAD_FILENUM" => m.res = "BAD_FILENUM" \/ Remounted(m)
<1> DEFINE Goal1 == \/ frames' = <<>>
                    \/ frames' # <<>> /\ frames'[1].pkt.seq = current_sequence_num /\ frames[1].cmd \notin Commands
                    \/ /\ frames' # <<>> /\ frames'[1].pkt.seq = frames[1].pkt.seq
                       /\ frames'[1].cmd = frames[1].cmd /\ frames'[1].sock = frames[1].sock
           Ends(res, of) == /\ Finish(res, of)
                            /\ (ret[calls].cmd \in Commands /\ res = "OK") => Top.cmd \in Commands /\ res = m.res /\ of = m.of
                            /\ res = "BAD_FILENUM" => m.res = "BAD_FILENUM" \/ Remounted(m)
           Goal2 == (ret' = ret /\ frames' # <<>>) \/ \E res \in Results, of \in 0 .. MaxCalls : Ends(res, of)
<1>1. Junk \in 0 .. MaxCalls /\ {"OK", "INVALID_HANDLE", "BAD_FILENUM", "UNIMPLEMENTED"} \subseteq Results
      /\ "MOUNT" \notin Commands /\ "UNMOUNT" \notin Commands
  BY Parameters DEF Junk, Results, Commands
<1>2. \/ Below = <<>> /\ Top = frames[1]
      \/ /\ Below # <<>> /\ Below[1] = frames[1] /\ Below = <<Below[1]>> /\ frames[1] \in Frames
         /\ Len(frames) = 2 /\ frames[1].pkt.cmd = frames[1].cmd
  BY Active, OneDeep, TwoDeep DEF Alone, Nested, Own
<1>3. ASSUME NEW res \in Results, NEW of \in 0 .. MaxCalls, Ends(res, of)
      PROVE  Goal1 /\ Goal2
  BY <1>3 DEF Finish
<1>4. ASSUME NEW cmd, NEW then, Enter(Below, cmd, then), UNCHANGED ret, Top.cmd \notin Commands
      PROVE  Goal1 /\ Goal2
  <2> DEFINE h == NewFrame(Len(Below), cmd, then, session')
  <2>1. frames' = Append(Below, h)
    BY <1>4 DEF Enter
  <2>2. h.pkt.seq = current_sequence_num
    BY DEF NewFrame
  <2> HIDE DEF h
  <2>3. CASE Below = <<>>
    <3>1. frames'[1] = h /\ frames' # <<>>
      BY <2>1, <2>3
    <3>2. QED
      BY <1>2, <1>4, <2>2, <2>3, <3>1
  <2>4. CASE Below # <<>>
    <3>1. frames'[1] = frames[1] /\ frames' # <<>>
      BY <1>2, <2>1, <2>4
    <3>2. QED
      BY <1>4, <3>1
  <2>5. QED
    BY <2>3, <2>4
<1>5. ASSUME NEW res \in Results, MountReturns(res), Below = <<>> => ret[calls].cmd = "MOUNT",
             res = "OK" => Top.cmd = "MOUNT" /\ m.res = "OK" /\ session' = m.sess,
             res = "BAD_FILENUM" => m.res = "BAD_FILENUM"
      PROVE  Goal1 /\ Goal2
  <2>1. CASE Below = <<>>
    <3>1. Ends(res, Junk)
      BY <1>1, <1>5, <2>1 DEF MountReturns
    <3>2. QED
      BY <1>1, <1>3, <3>1
  <2>2. CASE Below # <<>> /\ Finish("INVALID_HANDLE", Junk)
    <3>1. Ends("INVALID_HANDLE", Junk)
      BY <2>2
    <3>2. QED
      BY <1>1, <1>3, <3>1
  <2>5. CASE Below # <<>> /\ res = "OK" /\ Below[1].pkt.cmd = "FD" /\ Finish("BAD_FILENUM", Junk)
    <3>1. Remounted(m)
      BY <1>2, <1>5, <2>5 DEF Remounted
    <3>2. Ends("BAD_FILENUM", Junk)
      BY <2>5, <3>1
    <3>3. QED
      BY <1>1, <1>3, <3>2
  <2>3. CASE /\ Below # <<>> /\ UNCHANGED <<ret, current_sequence_num>>
             /\ frames' = <<[Below[1] EXCEPT !.pkt.sess = session', !.retry = 0, !.pc = "send"]>>
    <3>1. PICK h : h = [Below[1] EXCEPT !.pkt.sess = session', !.retry = 0, !.pc = "send"]
      OBVIOUS
    <3>2. PICK f \in Frames : f = frames[1] /\ Below[1] = f
      BY <1>2, <2>3
    <3>3. h.pkt.seq = f.pkt.seq /\ h.cmd = f.cmd /\ h.sock = f.sock
      BY <3>1, <3>2 DEF Frames, Packets
    <3>4. frames'[1] = h /\ frames' # <<>>
      BY <2>3, <3>1
    <3>5. QED
      BY <2>3, <3>2, <3>3, <3>4
  <2>4. QED
    BY <1>5, <2>1, <2>2, <2>3, <2>5 DEF MountReturns
<1>6. CASE Top.cmd = "MOUNT"
  <2>1. AfterMount(m) /\ (Below = <<>> => ret[calls].cmd = "MOUNT")
    BY <1>6, Role DEF Return
  <2>2. CASE m.res = "OK" /\ m.sess \in OldSessions
    BY <1>1, <1>4, <1>6, <2>1, <2>2 DEF AfterMount
  <2>3. CASE m.res = "OK" /\ m.sess \notin OldSessions
    BY <1>1, <1>5, <1>6, <2>1, <2>3 DEF AfterMount
  <2>4. CASE m.res # "OK"
    BY <1>5, <2>1, <2>4 DEF AfterMount
  <2>5. QED
    BY <2>2, <2>3, <2>4
<1>7. CASE Top.cmd = "UNMOUNT"
  <2>1. AfterUmount(m)
    BY <1>7 DEF Return
  <2>2. CASE Top.then = "return"
    <3>1. Finish(m.res, Junk) /\ ret[calls].cmd = "UNMOUNT"
      BY <1>7, <2>1, <2>2, Role DEF AfterUmount
    <3>2. Ends(m.res, Junk)
      BY <1>1, <3>1
    <3>3. QED
      BY <1>1, <1>3, <3>2
  <2>3. CASE Top.then = "mount"
    <3>1. Below = <<>> /\ Enter(<<>>, "MOUNT", "return") /\ UNCHANGED ret
      BY <1>7, <2>1, <2>3, Role DEF AfterUmount
    <3>2. Enter(Below, "MOUNT", "return")
      BY <3>1
    <3>3. QED
      BY <1>1, <1>4, <1>7, <3>1, <3>2
  <2>4. CASE Top.then = "refuse"
    <3>1. MountReturns("UNIMPLEMENTED") /\ (Below = <<>> => ret[calls].cmd = "MOUNT")
      BY <1>7, <2>1, <2>4, Role DEF AfterUmount
    <3>2. QED
      BY <1>1, <1>5, <3>1
  <2>5. QED
    BY <1>7, <2>2, <2>3, <2>4, Role
<1>8. CASE Top.cmd \in Commands
  <2>1. Finish(m.res, m.of)
    BY <1>8 DEF Return, Commands
  <2>2. Ends(m.res, m.of)
    BY <1>8, <2>1
  <2>3. QED
    BY <1>3, <2>2
<1>9. QED
  BY <1>6, <1>7, <1>8, OnTop, Records DEF Cmds, Commands

-----------------------------------------------------------------------------
\* What these servers and this network never do: a datagram out of order on the
\* transaction's own socket, and TRY_AGAIN.
LEMMA NoForeignDatagram ==
  ASSUME Inv, Faults = {}, NEW m \in net
  PROVE  ~ OutOfOrder(m) /\ ~ TryAgain(m) /\ ~ ServerBusy(m)
<1>1. ~ OutOfOrder(m)
  BY TopReply DEF OutOfOrder, network
<1>2. ~ TryAgain(m)
  BY TopReply, Records DEF TryAgain, network
<1>3. ~ ServerBusy(m)
  BY DEF ServerBusy
<1>4. QED
  BY <1>1, <1>2, <1>3

LEMMA InitInv ==
  ASSUME Init
  PROVE  Inv
<1>1. Typed
  <2>1. \A s \in Sessions : last[s] = NoReply
    BY DEF Init
  <2>2. NoReply \notin Remembered
    <3>1. \A r \in Remembered : r.seq # -1
      BY Parameters DEF Remembered, SeqNums
    <3>2. NoReply.seq = -1
      BY DEF NoReply
    <3>3. QED
      BY <3>1, <3>2
  <2>3. last \in [Sessions -> Remembered \cup {NoReply}]
    BY DEF Init
  <2>4. ret \in [Calls -> Returns]
    BY Parameters DEF Init, Returns, Results, Junk
  <2>5. exec \in [Calls -> [Sessions -> Nat]]
    BY DEF Init
  <2>6. /\ session \in 0 .. issued /\ current_sequence_num \in SeqNums /\ calls \in 0 .. MaxCalls
        /\ issued \in 0 .. MaxSessions
    BY Parameters DEF Init, NoSession, SeqNums
  <2>7. shutting_down \in BOOLEAN /\ net \subseteq Requests \cup Replies /\ live \subseteq 1 .. issued
    BY DEF Init
  <2>8. QED
    BY <2>1, <2>2, <2>3, <2>4, <2>5, <2>6, <2>7 DEF Typed
<1>2. Once
  <2>1. \A i \in Calls, s \in Sessions : exec[i][s] = 0
    BY DEF Init
  <2>2. QED
    BY <2>1 DEF Init, Once, AtMostOnce
<1>3. Later
  BY DEF Init, Later
<1>4. QED
  BY <1>1, <1>2, <1>3 DEF Init, Inv, Stack, Delivery, MountGivesSession, RecoveryOutcome

LEMMA IdleStep ==
  ASSUME Inv, UNCHANGED vars
  PROVE  Inv'
<1>1. UNCHANGED <<session, current_sequence_num, frames, calls, ret, shutting_down, net, live, last, issued, exec, overtaken>>
      /\ UNCHANGED client
  BY DEF vars, client, server, network
<1>2. Stack'
  BY <1>1, StackKept, Parameters DEF Inv, Typed
<1>3. Typed' /\ Later'
  BY <1>1 DEF Inv, Typed, Later
<1>4. Delivery'
  BY <1>1 DEF Inv, Delivery, InFlight, Belongs, Newer
<1>5. Once'
  BY <1>1 DEF Inv, Once, AtMostOnce, Marked
<1>6. MountGivesSession' /\ RecoveryOutcome'
  BY <1>1 DEF Inv, MountGivesSession, RecoveryOutcome, Completed, FileOrPath
<1>7. QED
  BY <1>2, <1>3, <1>4, <1>5, <1>6 DEF Inv

-----------------------------------------------------------------------------
(***************************************************************************)
(* Late requests.  What is known of a command's request when its           *)
(* transaction is over: its call, the number and, for a command on a       *)
(* handle, the session it was sent for.  The server remembers under a call *)
(* only that call's number, and what a session executed in order is not    *)
(* later than what it remembers.                                           *)
(***************************************************************************)
Outlived(m) ==
  /\ m.pkt.body \in Calls /\ m.pkt.body <= calls /\ (frames # <<>> => m.pkt.body < calls)
  /\ ret[m.pkt.body].cmd = m.pkt.cmd
  /\ \A s \in Sessions : (last[s] # NoReply /\ last[s].of = m.pkt.body) => last[s].seq = m.pkt.seq
  /\ m.pkt.cmd = "FD" => \A s \in Sessions : exec[m.pkt.body][s] > 0 => s = m.pkt.sess
  /\ (m.pkt.cmd = "FD" /\ m.pkt.body = calls /\ ret[calls].res = "BAD_FILENUM" /\ ~ shutting_down)
        => m.pkt.sess # session
Alike(m, n) ==
  (m.pkt.cmd \in Commands /\ n.pkt.cmd \in Commands /\ n.pkt.body = m.pkt.body) =>
    n.pkt.seq = m.pkt.seq /\ (m.pkt.cmd = "FD" => n.pkt.sess = m.pkt.sess)
Recorded(s) ==
  /\ last[s] # NoReply => last[s].of \in Calls /\ last[s].of <= calls
  /\ (frames # <<>> /\ last[s] # NoReply /\ last[s].of = calls) =>
        frames[1].cmd \in Commands /\ last[s].seq = frames[1].pkt.seq
  /\ s \notin overtaken => \A i \in Calls : exec[i][s] > 0 => last[s] # NoReply /\ last[s].of >= i
Behind ==
  /\ late \subseteq Requests /\ overtaken \subseteq Sessions
  /\ \A m \in late : m.pkt.cmd \in Commands => Outlived(m)
  /\ \A m, n \in late : Alike(m, n)
  /\ \A s \in Sessions : Recorded(s)

LEMMA BehindInit ==
  ASSUME Init
  PROVE  Behind
<1>1. late = {} /\ overtaken = {} /\ \A s \in Sessions : last[s] = NoReply /\ \A i \in Calls : exec[i][s] = 0
  BY DEF Init
<1>2. QED
  BY <1>1 DEF Behind, Recorded

\* What a command of the current call is: the only one, or the one that a recovery interrupts.
LEMMA Current ==
  ASSUME Inv, frames # <<>>
  PROVE  /\ calls \in Calls /\ frames[1] \in Frames
         /\ frames[1].cmd \in Commands => ret[calls].cmd = frames[1].cmd
<1>1. CASE \E f \in Frames : Alone(f)
  <2>1. PICK f \in Frames : Alone(f)
    BY <1>1
  <2>2. frames[1] = f /\ Sole(f, ret[calls].cmd, session)
    BY <2>1, OneDeep DEF Alone
  <2>3. QED
    BY <2>2, Active DEF Sole, Commands
<1>2. CASE \E f, g \in Frames : Nested(f, g)
  BY <1>2, Active, TwoDeep DEF Nested
<1>3. QED
  BY <1>1, <1>2, Active

\* A step of the client inside a call.
LEMMA BehindClient ==
  ASSUME Inv, Behind, frames # <<>>, UNCHANGED <<calls, last, exec, overtaken, shutting_down>>,
         \A i \in Calls : ret'[i].cmd = ret[i].cmd,
         late' \subseteq late \cup {m \in net : m.type = "req"},
         \/ frames' = <<>>
         \/ /\ frames' # <<>> /\ \A m \in late' : m.pkt.cmd \in Commands => m \in late
            /\ frames[1].cmd \in Commands => frames'[1].cmd = frames[1].cmd /\ frames'[1].pkt.seq = frames[1].pkt.seq,
         (frames' = <<>> /\ ret'[calls].res = "BAD_FILENUM" /\ ~ shutting_down /\ frames[1].cmd = "FD")
            => frames[1].pkt.sess # session'
  PROVE  Behind'
<1>1. /\ calls \in Calls /\ calls \in Nat /\ Calls \subseteq Nat
      /\ frames[1].cmd \in Commands => ret[calls].cmd = frames[1].cmd
  BY Current, Parameters DEF Calls
<1>2. late' \subseteq Requests
  BY Records DEF Inv, Typed, Behind
<1>3. ASSUME NEW m \in late', m \in late, m.pkt.cmd \in Commands
      PROVE  Outlived(m)'
  <2> DEFINE b == m.pkt.body
  <2>1. Outlived(m) /\ b \in Calls /\ b < calls
    BY <1>3 DEF Behind, Outlived
  <2>2. b # calls
    BY <1>1, <2>1
  <2>3. QED
    BY <1>1, <2>1, <2>2 DEF Outlived
<1>4. ASSUME NEW m \in late', m \notin late, m.pkt.cmd \in Commands
      PROVE  /\ frames' = <<>> /\ m.pkt.body = calls
             /\ m.pkt.cmd = frames[1].cmd /\ m.pkt.seq = frames[1].pkt.seq
             /\ frames[1].cmd = "FD" => m.pkt.sess = frames[1].pkt.sess
  BY <1>4, RequestOf
<1>5. ASSUME NEW m \in late', m \notin late, m.pkt.cmd \in Commands
      PROVE  Outlived(m)'
  <2>1. /\ frames' = <<>> /\ m.pkt.body = calls
        /\ m.pkt.cmd = frames[1].cmd /\ m.pkt.seq = frames[1].pkt.seq
        /\ frames[1].cmd = "FD" => m.pkt.sess = frames[1].pkt.sess
    BY <1>4, <1>5
  <2>2. ret'[calls].cmd = m.pkt.cmd
    BY <1>1, <1>5, <2>1
  <2>3. \A s \in Sessions : (last[s] # NoReply /\ last[s].of = calls) => last[s].seq = m.pkt.seq
    BY <2>1 DEF Behind, Recorded
  <2>4. m.pkt.cmd = "FD" => \A s \in Sessions : exec[calls][s] > 0 => s = m.pkt.sess
    BY <2>1 DEF Inv, Once, Marked
  <2>5. QED
    BY <1>1, <2>1, <2>2, <2>3, <2>4 DEF Outlived
<1>6. ASSUME NEW m \in late', NEW n \in late' PROVE Alike(m, n)
  <2> SUFFICES ASSUME m.pkt.cmd \in Commands, n.pkt.cmd \in Commands, n.pkt.body = m.pkt.body
               PROVE  n.pkt.seq = m.pkt.seq /\ (m.pkt.cmd = "FD" => n.pkt.sess = m.pkt.sess)
    BY DEF Alike
  <2>1. CASE m \in late /\ n \in late
    BY <2>1 DEF Behind, Alike
  <2>2. CASE m \notin late /\ n \notin late
    BY <1>4, <2>2
  <2>3. \A k \in late : k.pkt.cmd \in Commands => k.pkt.body # calls
    <3> SUFFICES ASSUME NEW k \in late, k.pkt.cmd \in Commands PROVE k.pkt.body # calls
      OBVIOUS
    <3>1. k.pkt.body \in Calls /\ k.pkt.body < calls
      BY DEF Behind, Outlived
    <3>2. QED
      BY <1>1, <3>1
  <2>4. QED
    BY <1>4, <2>1, <2>2, <2>3
<1>7. ASSUME NEW s \in Sessions PROVE Recorded(s)'
  BY <1>1 DEF Behind, Recorded
<1>8. \A m, n \in late' : Alike(m, n)'
  BY <1>6 DEF Alike
<1>9. QED
  BY <1>2, <1>3, <1>5, <1>7, <1>8 DEF Behind

\* A step of the server that executes nothing, and the shutdown of the bus.
LEMMA BehindServer ==
  ASSUME Behind, UNCHANGED <<client, late, last, exec, overtaken>>, shutting_down => shutting_down'
  PROVE  Behind'
<1>1. UNCHANGED <<session, frames, calls, ret>>
  BY DEF client
<1>2. \A m \in late : m.pkt.cmd \in Commands => Outlived(m)'
  BY <1>1 DEF Behind, Outlived
<1>3. \A s \in Sessions : Recorded(s)'
  BY <1>1 DEF Behind, Recorded
<1>4. \A m, n \in late : Alike(m, n)'
  BY DEF Behind, Alike
<1>5. QED
  BY <1>2, <1>3, <1>4 DEF Behind

\* A call begins.
LEMMA BehindCall ==
  ASSUME Inv, Behind, NEW cmd \in Cmds, StartCall(cmd), frames' # <<>>,
         UNCHANGED <<session, shutting_down, late, last, exec, overtaken>>
  PROVE  Behind'
<1>1. /\ frames = <<>> /\ calls \in Nat /\ calls' = calls + 1 /\ calls' \in Calls /\ Calls \subseteq Nat
      /\ ret' = [ret EXCEPT ![calls'].cmd = cmd] /\ ret \in [Calls -> Returns]
  <2>1. frames = <<>> /\ calls < MaxCalls /\ calls' = calls + 1 /\ ret' = [ret EXCEPT ![calls'].cmd = cmd]
    BY DEF StartCall
  <2>2. calls \in 0 .. MaxCalls /\ ret \in [Calls -> Returns]
    BY DEF Inv, Typed
  <2>3. QED
    BY <2>1, <2>2, Parameters DEF Calls
<1>2. \A i \in Calls : i # calls' => ret'[i] = ret[i]
  BY <1>1
<1>3. ASSUME NEW m \in late, m.pkt.cmd \in Commands PROVE Outlived(m)'
  <2> DEFINE b == m.pkt.body
  <2>1. Outlived(m) /\ b \in Calls /\ b <= calls
    BY <1>3 DEF Behind, Outlived
  <2>2. b < calls' /\ b <= calls' /\ b # calls'
    BY <1>1, <2>1
  <2>3. QED
    BY <1>2, <2>1, <2>2 DEF Outlived
<1>4. ASSUME NEW s \in Sessions PROVE Recorded(s)'
  <2>1. last[s] # NoReply => last[s].of \in Calls /\ last[s].of <= calls
    BY DEF Behind, Recorded
  <2>2. last[s] # NoReply => last[s].of <= calls' /\ last[s].of # calls'
    BY <1>1, <2>1
  <2>3. s \notin overtaken => \A i \in Calls : exec[i][s] > 0 => last[s] # NoReply /\ last[s].of >= i
    BY DEF Behind, Recorded
  <2>4. QED
    BY <2>1, <2>2, <2>3 DEF Recorded
<1>5. \A m, n \in late : Alike(m, n)'
  BY DEF Behind, Alike
<1>6. QED
  BY <1>3, <1>4, <1>5 DEF Behind

\* What the execution of a request records.
LEMMA Execution ==
  ASSUME Inv, NEW m \in Requests, ServerExecutes(m), m.pkt.body \in Calls
  PROVE  LET s == m.pkt.sess
             b == m.pkt.body
             n == m.pkt.seq
         IN  /\ s \in Sessions /\ m.pkt.cmd \in Commands /\ last[s].seq # n
             /\ UNCHANGED <<session, current_sequence_num, frames, calls, ret, shutting_down, live, issued, late>>
             /\ UNCHANGED client
             /\ last' \in [Sessions -> Remembered \cup {NoReply}]
             /\ last'[s] # NoReply /\ last'[s].of = b /\ last'[s].seq = n /\ last'[s].sess = s
             /\ \A t \in Sessions : t # s => last'[t] = last[t]
             /\ exec' \in [Calls -> [Sessions -> Nat]]
             /\ exec'[b][s] = (IF exec[b][s] = 0 THEN 1 ELSE Repeated)
             /\ \A t \in Sessions : t # s => exec'[b][t] = exec[b][t]
             /\ \A i \in Calls : i # b => exec'[i] = exec[i]
             /\ overtaken' = IF last[s] # NoReply /\ last[s].of > b THEN overtaken \cup {s} ELSE overtaken
<1> DEFINE s == m.pkt.sess
           n == m.pkt.seq
           b == m.pkt.body
           r == [sess |-> s, res |-> "OK", of |-> b, seq |-> n]
<1>1. /\ m.pkt.cmd \notin {"MOUNT", "UNMOUNT"} /\ s \in live /\ last[s].seq # n
      /\ last' = [last EXCEPT ![s] = r]
      /\ exec' = IF b = Junk THEN exec ELSE [exec EXCEPT ![b][s] = IF @ = 0 THEN 1 ELSE Repeated]
      /\ overtaken' = IF last[s] # NoReply /\ last[s].of > b THEN overtaken \cup {s} ELSE overtaken
      /\ UNCHANGED <<client, shutting_down, live, issued, late>>
  BY DEF ServerExecutes, AtServer, Respond, Overtaken
<1>2. s \in Sessions /\ n \in SeqNums /\ m.pkt.cmd \in Commands
  BY <1>1, LiveSessions, Records DEF Cmds, Commands
<1>3. b \in Calls /\ b # Junk /\ b \in 0 .. MaxCalls
  BY Parameters DEF Calls, Junk
<1> HIDE DEF s, n, b
<1>4. r \in Remembered /\ r.sess = s /\ r.of = b /\ r.seq = n
  BY <1>2, <1>3 DEF Remembered
<1> HIDE DEF r
<1>5. r # NoReply
  <2>1. NoReply.seq = -1
    BY DEF NoReply
  <2>2. n # -1
    BY <1>2, Parameters DEF SeqNums
  <2>3. QED
    BY <1>4, <2>1, <2>2
<1>6. exec \in [Calls -> [Sessions -> Nat]] /\ last \in [Sessions -> Remembered \cup {NoReply}]
  BY DEF Inv, Typed
<1>7. /\ exec' \in [Calls -> [Sessions -> Nat]] /\ exec'[b][s] = (IF exec[b][s] = 0 THEN 1 ELSE Repeated)
      /\ \A t \in Sessions : t # s => exec'[b][t] = exec[b][t]
      /\ \A i \in Calls : i # b => exec'[i] = exec[i]
  <2> DEFINE e == exec[b]
             k == IF e[s] = 0 THEN 1 ELSE Repeated
             e1 == [e EXCEPT ![s] = k]
  <2>1. e \in [Sessions -> Nat] /\ k \in Nat
    BY <1>2, <1>3, <1>6 DEF Repeated
  <2>2. exec' = [exec EXCEPT ![b] = e1]
    BY <1>1, <1>3, <1>6
  <2> HIDE DEF e, k
  <2>3. e1 \in [Sessions -> Nat] /\ e1[s] = k /\ \A t \in Sessions : t # s => e1[t] = e[t]
    BY <1>2, <2>1
  <2> HIDE DEF e1
  <2>4. exec' \in [Calls -> [Sessions -> Nat]] /\ exec'[b] = e1 /\ \A i \in Calls : i # b => exec'[i] = exec[i]
    BY <1>3, <1>6, <2>2, <2>3
  <2>5. QED
    BY <2>3, <2>4 DEF e, k
<1>8. /\ last' \in [Sessions -> Remembered \cup {NoReply}] /\ last'[s] = r
      /\ \A t \in Sessions : t # s => last'[t] = last[t]
  BY <1>1, <1>2, <1>4, <1>6
<1>9. QED
  BY <1>1, <1>2, <1>4, <1>5, <1>7, <1>8 DEF client, s, n, b

\* The server executes a request, in time or late.
LEMMA BehindExecutes ==
  ASSUME Inv, Behind, NEW m \in Requests, ServerExecutes(m), m.pkt.body \in Calls, m.pkt.body <= calls,
         (frames # <<>> /\ m.pkt.body = calls) => frames[1].cmd \in Commands /\ m.pkt.seq = frames[1].pkt.seq,
         \A k \in late : (k.pkt.cmd \in Commands /\ k.pkt.body = m.pkt.body) =>
            k.pkt.seq = m.pkt.seq /\ (k.pkt.cmd = "FD" => k.pkt.sess = m.pkt.sess),
         \A i \in Calls, t \in Sessions : i > calls => exec[i][t] = 0
  PROVE  Behind'
<1> DEFINE s == m.pkt.sess
           b == m.pkt.body
           n == m.pkt.seq
<1>1. /\ s \in Sessions
      /\ UNCHANGED <<session, current_sequence_num, frames, calls, ret, shutting_down, live, issued, late>>
      /\ last'[s] # NoReply /\ last'[s].of = b /\ last'[s].seq = n
      /\ \A t \in Sessions : t # s => last'[t] = last[t]
      /\ \A t \in Sessions : t # s => exec'[b][t] = exec[b][t]
      /\ \A i \in Calls : i # b => exec'[i] = exec[i]
      /\ overtaken' = IF last[s] # NoReply /\ last[s].of > b THEN overtaken \cup {s} ELSE overtaken
  BY Execution
<1>2. calls \in Nat /\ Calls \subseteq Nat /\ b \in Calls /\ b <= calls
  BY Parameters DEF Inv, Typed, Calls
<1>3. /\ (frames # <<>> /\ b = calls) => frames[1].cmd \in Commands /\ n = frames[1].pkt.seq
      /\ \A k \in late : (k.pkt.cmd \in Commands /\ k.pkt.body = b) =>
            k.pkt.seq = n /\ (k.pkt.cmd = "FD" => k.pkt.sess = s)
  OBVIOUS
<1> HIDE DEF s, b, n
<1>4. ASSUME NEW k \in late, k.pkt.cmd \in Commands PROVE Outlived(k)'
  <2>1. Outlived(k)
    BY <1>4 DEF Behind
  <2>2. ASSUME NEW t \in Sessions, last'[t] # NoReply, last'[t].of = k.pkt.body PROVE last'[t].seq = k.pkt.seq
    <3>1. CASE t = s
      BY <1>1, <1>3, <1>4, <2>2, <3>1
    <3>2. CASE t # s
      BY <1>1, <2>1, <2>2, <3>2 DEF Outlived
    <3>3. QED
      BY <3>1, <3>2
  <2>3. ASSUME k.pkt.cmd = "FD", NEW t \in Sessions, exec'[k.pkt.body][t] > 0 PROVE t = k.pkt.sess
    <3>1. CASE k.pkt.body # b \/ t # s
      BY <1>1, <2>1, <2>3, <3>1 DEF Outlived
    <3>2. CASE k.pkt.body = b /\ t = s
      BY <1>3, <1>4, <2>3, <3>2
    <3>3. QED
      BY <3>1, <3>2
  <2>4. QED
    BY <1>1, <2>1, <2>2, <2>3 DEF Outlived
<1>5. ASSUME NEW t \in Sessions PROVE Recorded(t)'
  <2>1. Recorded(t)
    BY DEF Behind
  <2>2. CASE t # s
    BY <1>1, <2>1, <2>2 DEF Recorded
  <2>3. CASE t = s
    <3>1. ASSUME t \notin overtaken', NEW i \in Calls, exec'[i][t] > 0 PROVE b >= i
      <4>1. t \notin overtaken /\ (last[s] # NoReply => ~ (last[s].of > b))
        BY <1>1, <2>3, <3>1
      <4>2. CASE i = b
        BY <1>2, <4>2
      <4>3. CASE i # b
        <5>1. exec[i][t] > 0
          BY <1>1, <3>1, <4>3
        <5>2. last[s] # NoReply /\ last[s].of >= i /\ last[s].of \in Calls
          BY <2>1, <2>3, <4>1, <5>1 DEF Recorded
        <5>3. PICK w : w = last[s].of
          OBVIOUS
        <5>4. w \in Nat /\ w >= i /\ ~ (w > b) /\ i \in Nat /\ b \in Nat
          BY <1>2, <4>1, <5>2, <5>3
        <5>5. QED
          BY <5>4
      <4>4. QED
        BY <4>2, <4>3
    <3>2. QED
      BY <1>1, <1>2, <1>3, <2>3, <3>1 DEF Recorded
  <2>4. QED
    BY <2>2, <2>3
<1>6. \A k, l \in late : Alike(k, l)'
  BY DEF Behind, Alike
<1>7. overtaken' \subseteq Sessions
  BY <1>1 DEF Behind
<1>8. late' = late
  BY <1>1
<1>9. QED
  BY <1>4, <1>5, <1>6, <1>7, <1>8 DEF Behind

\* The server executes a late request: in this session for the first time, unless a later
\* call was executed in it before.
LEMMA LateExecutes ==
  ASSUME Inv, Behind, Faults = {}, NEW m \in late, m \notin net, ServerExecutes(m)
  PROVE  Inv' /\ Behind'
<1>1. m \in Requests /\ m.pkt.cmd \in Cmds
  BY Records DEF Behind
<1>2. m.pkt.cmd \in Commands
  BY <1>1 DEF ServerExecutes, AtServer, Cmds, Commands
<1> DEFINE s == m.pkt.sess
           b == m.pkt.body
           n == m.pkt.seq
<1>3. Outlived(m) /\ b \in Calls /\ b <= calls /\ (frames # <<>> => b < calls) /\ ret[b].cmd = m.pkt.cmd
  BY <1>2 DEF Behind, Outlived
<1>4. /\ s \in Sessions /\ last[s].seq # n
      /\ UNCHANGED <<session, current_sequence_num, frames, calls, ret, shutting_down, live, issued, late>>
      /\ UNCHANGED client
      /\ last' \in [Sessions -> Remembered \cup {NoReply}]
      /\ last'[s] # NoReply /\ last'[s].sess = s
      /\ \A t \in Sessions : t # s => last'[t] = last[t]
      /\ exec' \in [Calls -> [Sessions -> Nat]]
      /\ exec'[b][s] = (IF exec[b][s] = 0 THEN 1 ELSE Repeated)
      /\ \A t \in Sessions : t # s => exec'[b][t] = exec[b][t]
      /\ \A i \in Calls : i # b => exec'[i] = exec[i]
      /\ overtaken' = IF last[s] # NoReply /\ last[s].of > b THEN overtaken \cup {s} ELSE overtaken
  BY <1>1, <1>3, Execution
<1>5. net' = net
  BY DEF ServerExecutes, Respond
<1>6. calls \in Nat /\ Calls \subseteq Nat
  BY Parameters DEF Inv, Typed, Calls
<1>7. Behind'
  <2>1. \A k \in late : (k.pkt.cmd \in Commands /\ k.pkt.body = b) => k.pkt.seq = n /\ (k.pkt.cmd = "FD" => k.pkt.sess = s)
    <3> SUFFICES ASSUME NEW k \in late, k.pkt.cmd \in Commands, k.pkt.body = b
                 PROVE  k.pkt.seq = n /\ (k.pkt.cmd = "FD" => k.pkt.sess = s)
      OBVIOUS
    <3>1. Alike(k, m)
      BY DEF Behind
    <3>2. QED
      BY <1>2, <3>1 DEF Alike
  <2>2. ~ (frames # <<>> /\ b = calls)
    BY <1>3, <1>6
  <2>3. QED
    BY <1>1, <1>3, <2>1, <2>2, BehindExecutes DEF Inv, Once
<1>8. \A t \in Sessions : (m.pkt.cmd = "FD" /\ exec[b][t] > 0) => t = s
  BY <1>3 DEF Outlived
<1>9. s \notin overtaken' => exec[b][s] = 0
  <2> SUFFICES ASSUME s \notin overtaken', exec[b][s] # 0 PROVE FALSE
    OBVIOUS
  <2>1. exec[b][s] \in Nat
    BY <1>3, <1>4 DEF Inv, Typed
  <2>2. s \notin overtaken /\ (last[s] # NoReply => ~ (last[s].of > b))
    BY <1>4
  <2>3. last[s] # NoReply /\ last[s].of >= b /\ last[s].of \in Calls
    BY <1>3, <1>4, <2>1, <2>2 DEF Behind, Recorded
  <2>4. last[s].of = b
    <3>1. PICK w : w = last[s].of
      OBVIOUS
    <3>2. PICK c : c = b
      OBVIOUS
    <3>3. w \in Nat /\ w >= c /\ ~ (w > c) /\ c \in Nat
      BY <1>3, <1>6, <2>2, <2>3, <3>1, <3>2
    <3>4. w = c
      BY <3>3
    <3>5. QED
      BY <3>1, <3>2, <3>4
  <2>5. QED
    BY <1>3, <1>4, <2>3, <2>4 DEF Outlived
<1> HIDE DEF s, b, n
<1>10. AtMostOnce'
  <2> SUFFICES ASSUME NEW i \in Calls
               PROVE  /\ \A t \in Sessions \ overtaken' : exec'[i][t] <= 1
                      /\ ret'[i].cmd = "FD" => \A t, u \in Sessions : exec'[i][t] > 0 /\ exec'[i][u] > 0 => t = u
    BY DEF AtMostOnce
  <2>1. /\ \A t \in Sessions \ overtaken : exec[i][t] <= 1
        /\ ret[i].cmd = "FD" => \A t, u \in Sessions : exec[i][t] > 0 /\ exec[i][u] > 0 => t = u
    BY DEF Inv, Once, AtMostOnce
  <2>2. CASE i # b
    BY <1>4, <2>1, <2>2
  <2>3. CASE i = b
    <3>1. \A t \in Sessions \ overtaken' : exec'[i][t] <= 1
      BY <1>4, <1>9, <2>1, <2>3
    <3>2. ASSUME ret'[i].cmd = "FD" PROVE \A t \in Sessions : exec'[i][t] > 0 => t = s
      BY <1>3, <1>4, <1>8, <2>3, <3>2
    <3>3. QED
      BY <3>1, <3>2
  <2>4. QED
    BY <2>2, <2>3
<1>11. Once'
  <2>1. \A i \in Calls, t \in Sessions : i > calls' => exec'[i][t] = 0
    <3>1. \A i \in Calls : i > calls => i # b
      BY <1>3, <1>6
    <3>2. QED
      BY <1>4, <3>1 DEF Inv, Once
  <2>2. ASSUME frames # <<>>, NEW t \in Sessions, exec'[calls][t] > 0 PROVE Marked(frames[1], t)'
    <3>1. b # calls /\ calls \in Calls
      BY <1>3, <1>6, <2>2, Current
    <3>2. exec[calls][t] > 0
      BY <1>4, <2>2, <3>1
    <3>3. Marked(frames[1], t)
      BY <2>2, <3>2 DEF Inv, Once
    <3>4. CASE t # s
      BY <1>4, <3>3, <3>4 DEF Marked
    <3>5. CASE t = s
      <4>1. s \in overtaken'
        <5> SUFFICES ASSUME s \notin overtaken PROVE s \in overtaken'
          BY <1>4
        <5>1. last[s] # NoReply /\ last[s].of >= calls /\ last[s].of \in Calls
          BY <1>4, <3>1, <3>2, <3>5 DEF Behind, Recorded
        <5>2. last[s].of > b
          <6>1. PICK w : w = last[s].of
            OBVIOUS
          <6>2. w \in Nat /\ w >= calls /\ calls \in Nat /\ b \in Nat /\ b < calls
            BY <1>3, <1>6, <2>2, <5>1, <6>1
          <6>3. w > b
            BY <6>2
          <6>4. QED
            BY <6>1, <6>3
        <5>3. QED
          BY <1>4, <5>1, <5>2
      <4>2. QED
        BY <1>4, <3>3, <3>5, <4>1 DEF Marked
    <3>6. QED
      BY <3>4, <3>5
  <2>3. QED
    BY <1>4, <1>10, <2>1, <2>2 DEF Once
<1>12. RecoveryOutcome'
  <2>1. ASSUME frames = <<>>, calls > 0, ~ shutting_down, FileOrPath(calls), Completed(calls, "BAD_FILENUM")
        PROVE  exec'[calls][session] = exec[calls][session]
    <3>1. session \in Sessions /\ ret[calls].cmd = "FD" /\ calls \in Calls
      BY <2>1, <1>6 DEF Inv, RecoveryOutcome, Typed, Calls
    <3>2. CASE b # calls
      BY <1>4, <3>1, <3>2
    <3>3. CASE b = calls
      <4>1. s # session
        BY <1>3, <2>1, <3>1, <3>3 DEF Outlived, Completed, b, s
      <4>2. QED
        BY <1>4, <3>1, <3>3, <4>1
    <3>4. QED
      BY <3>2, <3>3
  <2>2. QED
    BY <1>4, <2>1 DEF Inv, RecoveryOutcome, Completed, FileOrPath
<1>13. Stack'
  BY <1>4, StackKept, Parameters DEF Inv, Typed
<1>14. Typed'
  <2>1. \A t \in Sessions : last'[t] \in Remembered => last'[t].sess = t
    BY <1>4 DEF Inv, Typed
  <2>2. QED
    BY <1>4, <1>5, <2>1 DEF Inv, Typed
<1>15. Delivery' /\ Later' /\ MountGivesSession'
  <2>1. Delivery'
    BY <1>4, <1>5 DEF Inv, Delivery, Newer, InFlight, Belongs
  <2>2. Later'
    BY <1>4 DEF Inv, Later
  <2>3. MountGivesSession'
    BY <1>4 DEF Inv, MountGivesSession, Completed
  <2>4. QED
    BY <2>1, <2>2, <2>3
<1>16. QED
  BY <1>7, <1>11, <1>12, <1>13, <1>14, <1>15 DEF Inv

\* A transaction returns: its requests may still be under way.  If the call goes on they are
\* not the command's.
LEMMA LateCommands ==
  ASSUME Inv, Stack', frames # <<>>, NEW m, Return(m), m.res \in Results, m.of \in 0 .. MaxCalls, frames' # <<>>
  PROVE  \A k \in late' : k.pkt.cmd \in Commands => k \in late
<1>1. late' = late \cup {k \in net : k.type = "req" /\ ~ StillOpen(k)}
  BY DEF Return, CloseSockets
<1>2. CASE frames[1].cmd \notin Commands
  BY <1>1, <1>2, RequestOf
<1>3. CASE frames'[1].sock = frames[1].sock
  <2>1. 1 \in 1 .. Len(frames')
    <3>1. Len(frames') \in {1, 2}
      BY DEF Stack, Alone, Nested
    <3>2. PICK l : l = Len(frames')
      OBVIOUS
    <3>3. 1 \in 1 .. l
      BY <3>1, <3>2
    <3>4. QED
      BY <3>2, <3>3
  <2>2. \A k : k.sock = frames[1].sock => StillOpen(k)
    BY <1>3, <2>1 DEF StillOpen
  <2>3. QED
    BY <1>1, <2>2, RequestOf
<1>4. QED
  BY <1>2, <1>3, Returned

LEMMA BehindReturn ==
  ASSUME Inv, Behind, Stack', frames # <<>>, NEW m, Return(m), m.res \in Results, m.of \in 0 .. MaxCalls,
         UNCHANGED <<shutting_down, server>>, m.res # "BAD_FILENUM",
         (Remounted(m) /\ ~ shutting_down) => frames[1].pkt.sess < m.sess /\ m.sess \in Nat
  PROVE  Behind'
<1>1. UNCHANGED <<calls, shutting_down, last, exec, overtaken>> /\ CloseSockets /\ calls \in Calls /\ frames[1] \in Frames
  BY Current DEF Return, server
<1>2. late' = late \cup {k \in net : k.type = "req" /\ ~ StillOpen(k)}
  BY <1>1 DEF CloseSockets
<1>3. \A i \in Calls : ret'[i].cmd = ret[i].cmd
  <2>1. CASE \E res \in Results, of \in 0 .. MaxCalls : Finish(res, of)
    BY <1>1, <2>1, Told
  <2>2. QED
    BY <2>1, Returned
<1>4. ASSUME frames' = <<>>, ret'[calls].res = "BAD_FILENUM", ~ shutting_down, frames[1].cmd = "FD"
      PROVE  frames[1].pkt.sess # session'
  <2>1. PICK res \in Results, of \in 0 .. MaxCalls : Finish(res, of) /\ (res = "BAD_FILENUM" => m.res = "BAD_FILENUM" \/ Remounted(m))
    BY <1>4, Returned
  <2>2. ret'[calls].res = res
    BY <1>1, <2>1, Told
  <2>3. Remounted(m)
    BY <1>4, <2>1, <2>2
  <2>4. session' = m.sess
    BY <2>3 DEF Remounted
  <2>5. PICK x, y : x = frames[1].pkt.sess /\ y = m.sess
    OBVIOUS
  <2>6. x \in Nat /\ y \in Nat /\ x < y
    BY <1>1, <1>4, <2>3, <2>5, Records, Parameters
  <2>7. x # y
    BY <2>6
  <2>8. QED
    BY <2>4, <2>5, <2>7
<1>5. CASE frames' = <<>>
  BY <1>1, <1>2, <1>3, <1>4, <1>5, BehindClient
<1>6. CASE frames' # <<>>
  <2>1. \A k \in late' : k.pkt.cmd \in Commands => k \in late
    BY <1>6, LateCommands
  <2>2. frames[1].cmd \in Commands => frames'[1].cmd = frames[1].cmd /\ frames'[1].pkt.seq = frames[1].pkt.seq
    BY <1>6, Returned
  <2>3. QED
    BY <1>1, <1>2, <1>3, <1>4, <1>6, <2>1, <2>2, BehindClient
<1>7. QED
  BY <1>5, <1>6

LEMMA BehindEnd ==
  ASSUME Inv, Behind, Stack', Faults = {}, GiveUp \/ Breakout \/ \E m \in net : Reply(m)
  PROVE  Behind'
<1>1. Junk \in 0 .. MaxCalls /\ {"OK", "ERROR", "NO_RESPONSE", "INVALID_HANDLE"} \subseteq Results
  BY Parameters DEF Junk, Results
<1>2. CASE GiveUp
  <2>1. PICK m : m = [res |-> "NO_RESPONSE", of |-> Junk]
    OBVIOUS
  <2>2. frames # <<>> /\ Return(m) /\ UNCHANGED <<shutting_down, server>>
    BY <1>2, <2>1 DEF GiveUp, Running
  <2>3. m.res = "NO_RESPONSE" /\ m.of = Junk
    BY <2>1
  <2>4. ~ Remounted(m)
    BY <2>3 DEF Remounted
  <2>5. QED
    BY <1>1, <2>2, <2>3, <2>4, BehindReturn
<1>3. CASE Breakout
  <2>1. PICK res \in {"OK", "ERROR"} : Return([res |-> res, of |-> Junk, sess |-> Top.pkt.sess])
    BY <1>3 DEF Breakout
  <2>2. PICK m : m = [res |-> res, of |-> Junk, sess |-> Top.pkt.sess]
    OBVIOUS
  <2>3. frames # <<>> /\ Return(m) /\ shutting_down /\ UNCHANGED <<shutting_down, server>>
    BY <1>3, <2>1, <2>2 DEF Breakout, Running
  <2>4. m.res = res /\ m.of = Junk
    BY <2>2
  <2>5. QED
    BY <1>1, <2>3, <2>4, BehindReturn
<1>4. CASE \E m \in net : Reply(m)
  <2>1. PICK m \in net : Reply(m)
    BY <1>4
  <2>2. Arrives(m) /\ Return(m) /\ UNCHANGED <<shutting_down, server>>
    BY <2>1 DEF Reply
  <2>3. frames # <<>> /\ m \in Replies /\ m.type = "rep" /\ m.cmd = Top.cmd /\ Newer(m, frames)
    BY <2>2, TopReply
  <2>4. m.res \in {"OK", "INVALID_HANDLE"} /\ m.of \in 0 .. MaxCalls /\ m.sess \in Nat
    BY <2>3, Records, Parameters
  <2>5. Remounted(m) => frames[1].pkt.sess < m.sess
    BY <2>3 DEF Remounted, Newer
  <2>6. QED
    BY <1>1, <2>2, <2>3, <2>4, <2>5, BehindReturn
<1>5. QED
  BY <1>2, <1>3, <1>4

\* An attempt begins or ends, or the session is found to be gone.
LEMMA BehindAttempt ==
  ASSUME Inv, Behind, Stack', Send \/ SendFails \/ Timeout \/ \E m \in net : SessionExpired(m)
  PROVE  Behind'
<1>1. /\ frames # <<>> /\ UNCHANGED <<calls, ret, last, exec, overtaken, shutting_down, late>>
  BY DEF Send, SendFails, Timeout, SessionExpired, Arrives, Running, server, network
<1>2. Top \in Frames /\ calls \in Calls
  BY <1>1, OnTop
<1>3. CASE Send \/ SendFails \/ Timeout
  <2>1. PICK h : frames' = SetTop(h) /\ h \in Frames /\ h.cmd = Top.cmd /\ h.pkt.seq = Top.pkt.seq
    <3>1. Top.retry \in Nat /\ Top.retry + 1 \in Nat /\ MaxRetries \in Nat /\ Top.pkt.seq \in SeqNums
      BY <1>2, Records, Parameters
    <3>2. CASE Send
      <4>1. frames' = SetTop([Top EXCEPT !.pc = "wait", !.expect = Top.pkt.seq])
        BY <3>2 DEF Send
      <4>2. PICK h : h = [Top EXCEPT !.pc = "wait", !.expect = Top.pkt.seq]
        OBVIOUS
      <4>3. h \in Frames /\ h.cmd = Top.cmd /\ h.pkt.seq = Top.pkt.seq
        BY <1>2, <3>1, <4>2 DEF Frames
      <4>4. QED
        BY <4>1, <4>2, <4>3
    <3>3. CASE SendFails
      <4>1. frames' = SetTop([Top EXCEPT !.retry = @ + 1]) /\ Top.retry < MaxRetries
        BY <3>3 DEF SendFails
      <4>2. PICK h : h = [Top EXCEPT !.retry = @ + 1]
        OBVIOUS
      <4>3. h \in Frames /\ h.cmd = Top.cmd /\ h.pkt.seq = Top.pkt.seq
        BY <1>2, <3>1, <4>1, <4>2 DEF Frames
      <4>4. QED
        BY <4>1, <4>2, <4>3
    <3>4. CASE Timeout
      <4>1. frames' = SetTop([Top EXCEPT !.pc = "send", !.retry = @ + 1]) /\ Top.pc = "wait"
        BY <3>4 DEF Timeout
      <4>2. Top.retry < MaxRetries
        BY <1>1, <4>1, OnTop DEF Own
      <4>3. PICK h : h = [Top EXCEPT !.pc = "send", !.retry = @ + 1]
        OBVIOUS
      <4>4. PICK t, k : t = Top /\ k = t.retry + 1
        OBVIOUS
      <4>5. k \in 0 .. MaxRetries /\ t \in Frames
        BY <1>2, <3>1, <4>2, <4>4
      <4>6. h = [t EXCEPT !.pc = "send", !.retry = k]
        BY <4>3, <4>4
      <4>7. h \in Frames /\ h.cmd = t.cmd /\ h.pkt = t.pkt
        BY <4>5, <4>6 DEF Frames
      <4>8. QED
        BY <4>1, <4>3, <4>4, <4>7
    <3>5. QED
      BY <1>3, <3>2, <3>3, <3>4
  <2>2. frames' # <<>> /\ frames'[1].cmd = frames[1].cmd /\ frames'[1].pkt.seq = frames[1].pkt.seq
    <3>1. CASE \E f \in Frames : Alone(f)
      BY <2>1, <3>1, OneDeep DEF Alone
    <3>2. CASE \E f, g \in Frames : Nested(f, g)
      BY <2>1, <3>2, TwoDeep DEF Nested
    <3>3. QED
      BY <1>1, <3>1, <3>2, Active
  <2>3. QED
    BY <1>1, <2>2, BehindClient
<1>4. CASE \E m \in net : SessionExpired(m)
  <2>1. PICK m \in net : SessionExpired(m)
    BY <1>4
  <2>2. /\ Arrives(m) /\ m.seq = Top.expect /\ m.cmd \notin {"MOUNT", "UNMOUNT"}
        /\ frames' = Append(SetTop([Top EXCEPT !.pkt = [Overwrite(Top.pkt, m) EXCEPT !.body = Top.pkt.body]]),
                            NewFrame(Len(SetTop([Top EXCEPT !.pkt = [Overwrite(Top.pkt, m) EXCEPT !.body = Top.pkt.body]])), "MOUNT", "return", session'))
    BY <2>1 DEF SessionExpired, Enter
  <2>3. m \in Replies /\ m.cmd = Top.cmd /\ m.sess \in 0 .. MaxSessions /\ m.seq \in SeqNums /\ m.cmd \in Cmds
    BY <2>2, TopReply, Records
  <2>4. Alone(Top)
    BY <1>1, <2>2, <2>3, OnTop DEF Cmds, Commands
  <2>5. frames = <<Top>> /\ Top.expect = Top.pkt.seq /\ frames[1] = Top
    BY <1>2, <2>4, OneDeep DEF Alone, Own
  <2>6. PICK p : p = [Overwrite(Top.pkt, m) EXCEPT !.body = Top.pkt.body]
    OBVIOUS
  <2>7. p \in Packets /\ p.seq = m.seq
    <3>1. Top.pkt \in Packets
      BY <1>2, Records
    <3>2. QED
      BY <2>3, <2>6, <3>1, Restored
  <2>8. PICK h : h = [Top EXCEPT !.pkt = p]
    OBVIOUS
  <2>9. h \in Frames /\ h.pkt = p /\ h.cmd = Top.cmd
    BY <1>2, <2>7, <2>8 DEF Frames
  <2>10. SetTop(h) = <<h>>
    BY <1>2, <2>5, <2>9, OneDeep
  <2>11. PICK g : g = NewFrame(Len(SetTop(h)), "MOUNT", "return", session')
    OBVIOUS
  <2>12. frames' = Append(<<h>>, g)
    BY <2>2, <2>6, <2>8, <2>10, <2>11
  <2>13. frames'[1] = h /\ frames' # <<>>
    BY <2>12
  <2>14. frames'[1].cmd = frames[1].cmd /\ frames'[1].pkt.seq = frames[1].pkt.seq
    BY <2>2, <2>5, <2>7, <2>9, <2>13
  <2>15. QED
    BY <1>1, <2>13, <2>14, BehindClient
<1>5. QED
  BY <1>3, <1>4

\* The server does anything but execute a late request: nobody hears of it.
LEMMA Unnoticed ==
  ASSUME Inv, UNCHANGED <<client, shutting_down, net, last, exec, overtaken>>,
         issued' \in 0 .. MaxSessions, issued <= issued', live' \subseteq 1 .. issued'
  PROVE  Inv'
<1>1. UNCHANGED <<session, current_sequence_num, frames, calls, ret, shutting_down, net, last, exec, overtaken>>
  BY DEF client
<1>2. issued \in Nat /\ issued' \in Nat /\ session \in 0 .. issued
  BY Parameters DEF Inv, Typed
<1>3. 1 .. issued \subseteq 1 .. issued' /\ session \in 0 .. issued'
  BY <1>2
<1>4. Stack'
  BY <1>2, StackKept
<1>5. Typed' /\ Later'
  BY <1>1, <1>3 DEF Inv, Typed, Later
<1>6. Delivery'
  BY <1>1, <1>3 DEF Inv, Delivery, Newer, InFlight, Belongs
<1>7. Once'
  BY <1>1 DEF Inv, Once, AtMostOnce, Marked
<1>8. RecoveryOutcome'
  BY <1>1 DEF Inv, RecoveryOutcome, Completed, FileOrPath
<1>9. MountGivesSession'
  BY <1>1, <1>3 DEF Inv, MountGivesSession, Completed
<1>10. QED
  BY <1>4, <1>5, <1>6, <1>7, <1>8, <1>9 DEF Inv

LEMMA LateServed ==
  ASSUME Inv, Behind, Faults = {}, NEW m, m \notin net,
         ServerMounts(m) \/ ServerUnmounts(m) \/ ServerRepeats(m) \/ ServerRejects(m)
  PROVE  Inv' /\ Behind'
<1>1. UNCHANGED <<client, shutting_down, net, late, last, exec, overtaken>>
  BY DEF ServerMounts, ServerUnmounts, ServerRepeats, ServerRejects, Respond, server
<1>2. issued \in 0 .. MaxSessions /\ live \subseteq 1 .. issued
  BY DEF Inv, Typed
<1>3. issued' \in 0 .. MaxSessions /\ issued <= issued' /\ live' \subseteq 1 .. issued'
  <2>1. CASE ServerMounts(m)
    <3>1. issued < MaxSessions /\ issued' = issued + 1 /\ live' = live \cup {issued'}
      BY <2>1 DEF ServerMounts
    <3>2. QED
      BY <1>2, <3>1, Parameters
  <2>2. CASE ServerUnmounts(m) \/ ServerRepeats(m) \/ ServerRejects(m)
    <3>1. issued' = issued /\ live' \subseteq live
      BY <2>2 DEF ServerUnmounts, ServerRepeats, ServerRejects, server
    <3>2. QED
      BY <1>2, <3>1, Parameters
  <2>3. QED
    BY <2>1, <2>2
<1>4. Inv'
  BY <1>1, <1>3, Unnoticed
<1>5. Behind'
  BY <1>1, BehindServer
<1>6. QED
  BY <1>4, <1>5

\* The server executes a request of the running command.
LEMMA BehindInTime ==
  ASSUME Inv, Behind, NEW m \in net, ServerExecutes(m)
  PROVE  Behind'
<1>1. m.type = "req" /\ m.pkt.cmd \notin {"MOUNT", "UNMOUNT"}
  BY DEF ServerExecutes, AtServer, IsReq
<1>2. m \in Requests /\ frames # <<>> /\ calls \in Calls /\ m.pkt.body = calls
  BY <1>1, RequestOf
<1>3. m.pkt.cmd \in Commands
  BY <1>1, <1>2, Records DEF Cmds, Commands
<1>4. frames[1].cmd \in Commands /\ m.pkt.seq = frames[1].pkt.seq
  BY <1>1, <1>3, RequestOf
<1>5. calls \in Nat /\ Calls \subseteq Nat
  BY <1>2, Parameters DEF Calls
<1>6. ASSUME NEW k \in late, k.pkt.cmd \in Commands PROVE k.pkt.body # calls
  <2>1. k.pkt.body \in Calls /\ k.pkt.body < calls
    BY <1>2, <1>6 DEF Behind, Outlived
  <2>2. QED
    BY <1>5, <2>1
<1>7. QED
  BY <1>2, <1>4, <1>5, <1>6, BehindExecutes DEF Inv, Once

LEMMA StepKeepsInv ==
  ASSUME Inv, Behind, Faults = {}, [Next]_vars
  PROVE  Inv' /\ Behind'
<1> USE DEF network
<1>1. CASE (\E cmd \in {"PATH", "FD"} : Command(cmd)) \/ tnfs_mount \/ tnfs_umount
  <2>1. Inv'
    BY <1>1, CommandStep, MountStep, UmountStep
  <2>2. /\ \E cmd \in Cmds : StartCall(cmd)
        /\ UNCHANGED <<session, shutting_down, late, last, exec, overtaken>>
    BY <1>1 DEF Command, tnfs_mount, tnfs_umount, server, Cmds
  <2>3. \E b \in {<<>>}, cmd \in Cmds, then \in {"return", "mount"} : Enter(b, cmd, then)
    BY <1>1 DEF Command, tnfs_mount, tnfs_umount, Cmds
  <2>4. frames' # <<>>
    BY <2>3 DEF Enter
  <2>5. QED
    BY <2>1, <2>2, <2>4, BehindCall
<1>2. CASE Send \/ SendFails \/ Timeout \/ \E m \in net : SessionExpired(m)
  <2>1. Inv'
    BY <1>2, SendStep, SendFailsStep, TimeoutStep, ExpiredStep
  <2>2. QED
    BY <1>2, <2>1, BehindAttempt DEF Inv
<1>3. CASE GiveUp \/ Breakout \/ \E m \in net : Reply(m)
  <2>1. Inv'
    BY <1>3, GiveUpStep, BreakoutStep, ReplyStep
  <2>2. QED
    BY <1>3, <2>1, BehindEnd DEF Inv
<1>4. CASE (\E m \in net : OutOfOrder(m) \/ TryAgain(m)) \/ \E m \in net \cup late : ServerBusy(m)
  BY <1>4, NoForeignDatagram DEF ServerBusy
<1>5. ASSUME NEW m \in net, ServerMounts(m) \/ ServerUnmounts(m) \/ ServerRepeats(m) \/ ServerRejects(m)
      PROVE  Inv' /\ Behind'
  <2>1. Inv'
    BY <1>5, MountsStep, UnmountsStep, RepeatsStep, RejectsStep
  <2>2. UNCHANGED <<client, late, last, exec, overtaken, shutting_down>>
    BY <1>5 DEF ServerMounts, ServerUnmounts, ServerRepeats, ServerRejects, Respond, server
  <2>3. QED
    BY <2>1, <2>2, BehindServer
<1>6. ASSUME NEW m \in net, ServerExecutes(m)
      PROVE  Inv' /\ Behind'
  BY <1>6, ExecutesStep, BehindInTime
<1>7. ASSUME NEW m \in late, m \notin net,
             ServerMounts(m) \/ ServerUnmounts(m) \/ ServerRepeats(m) \/ ServerRejects(m) \/ ServerExecutes(m)
      PROVE  Inv' /\ Behind'
  BY <1>7, LateServed, LateExecutes
<1>8. CASE (\E s \in live : SessionExpires(s)) \/ BusShutsDown \/ UNCHANGED vars
  <2>1. Inv'
    BY <1>8, ExpiresStep, ShutdownStep, IdleStep
  <2>2. UNCHANGED <<client, late, last, exec, overtaken>> /\ (shutting_down => shutting_down')
    BY <1>8 DEF SessionExpires, BusShutsDown, vars, server
  <2>3. QED
    BY <2>1, <2>2, BehindServer
<1>9. QED
  BY <1>1, <1>2, <1>3, <1>4, <1>5, <1>6, <1>7, <1>8 DEF Next, ClientStep

-----------------------------------------------------------------------------
(***************************************************************************)
(* Whose reply it is.  The server knows a repeated request only by its     *)
(* sequence number, and the number is one byte: this part holds as long as *)
(* no open session still remembers, and no late command still carries,     *)
(* from before the byte came round, the number that is given next.         *)
(***************************************************************************)
LateNumber(n) == \E m \in late : m.pkt.cmd \in Commands /\ m.pkt.seq = n
Unremembered == (\A s \in live : last[s].seq # current_sequence_num) /\ ~ LateNumber(current_sequence_num)

Unused == \A s \in Sessions : s > issued => last[s] = NoReply
Ours == frames # <<>> => /\ \A s \in live : last[s].seq = frames[1].pkt.seq => last[s].of = calls
                         /\ ~ LateNumber(frames[1].pkt.seq)
Result(m) == m.type = "rep" /\ m.cmd \in Commands /\ m.res = "OK"
OwnResults == \A m \in net : Result(m) => m.of = calls
Fresh == Unused /\ Ours /\ OwnResults /\ ReplyIsOurs

\* A step of the client that does not begin a call.
LEMMA FreshKept ==
  ASSUME Fresh, Unremembered, UNCHANGED <<calls, live, last, issued>>, ReplyIsOurs',
         \A a \in net' : a \notin net => (Result(a) => a.of = calls),
         frames' # <<>> => \A k \in late' : k.pkt.cmd \in Commands => k \in late,
         \/ frames' = <<>>
         \/ frames # <<>> /\ frames'[1].pkt.seq = frames[1].pkt.seq
         \/ frames'[1].pkt.seq = current_sequence_num
  PROVE  Fresh'
<1>1. Unused' /\ OwnResults'
  BY DEF Fresh, Unused, OwnResults, Result
<1>2. Ours'
  BY DEF Fresh, Ours, Unremembered, LateNumber
<1>3. QED
  BY <1>1, <1>2 DEF Fresh

\* The application is told nothing new.
LEMMA ToldBefore ==
  ASSUME ReplyIsOurs, UNCHANGED <<ret, shutting_down>>
  PROVE  ReplyIsOurs'
BY DEF ReplyIsOurs, FileOrPath, Completed

LEMMA FreshInit ==
  ASSUME Init
  PROVE  Fresh
<1>1. Unused
  BY DEF Init, Unused
<1>2. ReplyIsOurs
  BY DEF Init, ReplyIsOurs, FileOrPath
<1>3. QED
  BY <1>1, <1>2 DEF Init, Fresh, Ours, OwnResults

\* A call begins: no session remembers its number, and it has returned nothing.
LEMMA FreshCall ==
  ASSUME Inv, Fresh, Unremembered, NEW cmd \in Cmds, StartCall(cmd), UNCHANGED <<session, shutting_down, net, late, server>>,
         NEW c, NEW then, Enter(<<>>, c, then)
  PROVE  Fresh'
<1>1. /\ frames = <<>> /\ calls < MaxCalls /\ calls' = calls + 1 /\ ret' = [ret EXCEPT ![calls'].cmd = cmd]
      /\ UNCHANGED <<shutting_down, net, late, live, last, issued>>
      /\ frames' = Append(<<>>, NewFrame(Len(<<>>), c, then, session'))
  BY DEF StartCall, Enter, server
<1> DEFINE h == NewFrame(Len(<<>>), c, then, session')
<1>2. h.pkt.seq = current_sequence_num
  BY DEF NewFrame
<1> HIDE DEF h
<1>3. frames'[1] = h
  BY <1>1 DEF h
<1>4. Unused' /\ Ours'
  BY <1>1, <1>2, <1>3 DEF Fresh, Unused, Ours, Unremembered, LateNumber
<1>5. OwnResults'
  BY <1>1, Quiet DEF OwnResults
<1>6. ReplyIsOurs'
  <2>1. PICK k : k = calls'
    OBVIOUS
  <2>2. k \in Calls /\ k > calls /\ ret \in [Calls -> Returns]
    BY <1>1, <2>1, Parameters DEF Inv, Typed, Calls
  <2>3. ret[k].res = "PENDING" /\ ret[k] \in Returns
    BY <2>2 DEF Inv, Later
  <2>4. ret'[k] = [ret[k] EXCEPT !.cmd = cmd] /\ \A i \in Calls : i # k => ret'[i] = ret[i]
    BY <1>1, <2>1, <2>2
  <2>5. ret'[k].res = "PENDING"
    BY <2>3, <2>4 DEF Returns
  <2>6. \A i \in Calls : ret'[i] = ret[i] \/ ret'[i].res = "PENDING"
    BY <2>4, <2>5
  <2>7. shutting_down' = shutting_down /\ ReplyIsOurs
    BY <1>1 DEF Fresh
  <2>8. QED
    BY <2>6, <2>7 DEF ReplyIsOurs, FileOrPath, Completed
<1>7. QED
  BY <1>4, <1>5, <1>6 DEF Fresh

\* An attempt begins or ends.
LEMMA FreshTop ==
  ASSUME Inv, Fresh, Unremembered, frames # <<>>, NEW h \in Frames, h.pkt = Top.pkt, frames' = SetTop(h),
         \A a \in net' : a \in net \/ a.type = "req",
         UNCHANGED <<calls, ret, shutting_down, late, live, last, issued>>
  PROVE  Fresh'
<1>1. frames'[1].pkt = frames[1].pkt
  <2>1. CASE \E f \in Frames : Alone(f)
    BY <2>1, OneDeep DEF Alone
  <2>2. CASE \E f, g \in Frames : Nested(f, g)
    BY <2>2, TwoDeep DEF Nested
  <2>3. QED
    BY <2>1, <2>2, Active
<1>2. ReplyIsOurs'
  BY ToldBefore DEF Fresh
<1>3. \A a \in net' : a \notin net => (Result(a) => a.of = calls)
  BY DEF Result
<1>4. QED
  BY <1>1, <1>2, <1>3, FreshKept

LEMMA FreshAttempt ==
  ASSUME Inv, Fresh, Unremembered, Send \/ SendFails \/ Timeout
  PROVE  Fresh'
<1>1. frames # <<>> /\ UNCHANGED <<calls, ret, shutting_down, late, live, last, issued>>
  BY DEF Send, SendFails, Timeout, Running, server, network
<1>2. Top \in Frames /\ Top.pkt.seq \in SeqNums /\ Top.retry \in 0 .. MaxRetries
  BY <1>1, OnTop, Records
<1>3. CASE Send
  <2>1. PICK n \in SeqNums : n = Top.pkt.seq
    BY <1>2
  <2>2. PICK g : g = [Top EXCEPT !.pc = "wait"]
    OBVIOUS
  <2>3. PICK h : h = [g EXCEPT !.expect = n]
    OBVIOUS
  <2>4. g \in Frames /\ g.pkt = Top.pkt
    BY <1>2, <2>2 DEF Frames
  <2>5. h \in Frames /\ h.pkt = Top.pkt
    BY <2>3, <2>4 DEF Frames
  <2>6. h = [Top EXCEPT !.pc = "wait", !.expect = Top.pkt.seq]
    BY <1>2, <2>1, <2>2, <2>3 DEF Frames
  <2>7. frames' = SetTop(h) /\ \A a \in net' : a \in net \/ a.type = "req"
    BY <1>3, <2>6 DEF Send
  <2>8. QED
    BY <1>1, <2>5, <2>7, FreshTop
<1>4. CASE SendFails \/ Timeout
  <2>1. Top.retry < MaxRetries
    BY <1>1, <1>4, OnTop DEF Own, SendFails, Timeout, network
  <2>2. PICK n : n = Top.retry + 1
    OBVIOUS
  <2>3. n \in 0 .. MaxRetries
    BY <1>2, <2>1, <2>2, Parameters
  <2>4. PICK g : g = [Top EXCEPT !.pc = "send"]
    OBVIOUS
  <2>5. PICK h : h = [g EXCEPT !.retry = n]
    OBVIOUS
  <2>6. g \in Frames /\ g.pkt = Top.pkt
    BY <1>2, <2>4 DEF Frames
  <2>7. h \in Frames /\ h.pkt = Top.pkt
    BY <2>3, <2>5, <2>6 DEF Frames
  <2>8. frames' = SetTop(h)
    <3>1. h = [Top EXCEPT !.pc = "send", !.retry = @ + 1]
      BY <1>2, <2>2, <2>4, <2>5 DEF Frames
    <3>2. Top.pc = "send" => [Top EXCEPT !.pc = "send", !.retry = @ + 1] = [Top EXCEPT !.retry = @ + 1]
      BY <1>2 DEF Frames
    <3>3. QED
      BY <1>4, <3>1, <3>2 DEF SendFails, Timeout, network
  <2>9. net' = net
    BY <1>4 DEF SendFails, Timeout, network
  <2>10. QED
    BY <1>1, <2>7, <2>8, <2>9, FreshTop
<1>5. QED
  BY <1>3, <1>4

\* The session is gone, and a mount is pushed above the command.
LEMMA FreshExpired ==
  ASSUME Inv, Fresh, Unremembered, NEW m \in net, SessionExpired(m)
  PROVE  Fresh'
<1>1. /\ Arrives(m) /\ m.cmd \notin {"MOUNT", "UNMOUNT"}
      /\ UNCHANGED <<calls, ret, shutting_down, net, late, live, last, issued>>
  BY DEF SessionExpired, Enter, server, network
<1>2. /\ frames # <<>> /\ m \in Replies /\ m.seq = Top.expect /\ m.cmd = Top.cmd
  BY <1>1, TopReply
<1>3. Top \in Frames /\ frames = <<Top>> /\ frames[1] = Top /\ Top.expect = Top.pkt.seq
  <2>1. Top.cmd \in Commands
    BY <1>1, <1>2, OnTop, Records DEF Cmds, Commands
  <2>2. Top \in Frames /\ Alone(Top)
    BY <1>2, <2>1, OnTop
  <2>3. QED
    BY <2>2, OneDeep DEF Alone, Own
<1> DEFINE o == Top.pkt
           p == [Overwrite(o, m) EXCEPT !.body = o.body]
           h == [Top EXCEPT !.pkt = p]
           g == NewFrame(Len(SetTop(h)), "MOUNT", "return", session')
<1>4. p \in Packets /\ p.seq = m.seq
  BY <1>2, <1>3, Records, Restored
<1>5. frames' = Append(SetTop(h), g)
  BY DEF SessionExpired, Enter, network
<1> HIDE DEF p, g
<1>6. h \in Frames /\ h.pkt = p
  BY <1>3, <1>4 DEF Frames
<1> HIDE DEF h
<1>7. SetTop(h) = <<h>>
  BY <1>3, <1>6, OneDeep
<1>8. frames'[1] = h
  BY <1>5, <1>7
<1>9. frames'[1].pkt.seq = frames[1].pkt.seq
  BY <1>2, <1>3, <1>4, <1>6, <1>8
<1>10. ReplyIsOurs'
  BY <1>1, ToldBefore DEF Fresh
<1>11. QED
  BY <1>1, <1>2, <1>9, <1>10, FreshKept

LEMMA FreshReturn ==
  ASSUME Inv, Stack', Fresh, Unremembered, Faults = {}, frames # <<>>, NEW m, Return(m), m.res \in Results, m.of \in 0 .. MaxCalls,
         UNCHANGED <<shutting_down, server>>,
         (Top.cmd \in Commands /\ m.res = "OK" /\ ~ shutting_down) => m.of = calls
  PROVE  Fresh'
<1>1. UNCHANGED <<calls, shutting_down, live, last, issued>> /\ CloseSockets /\ calls \in Calls
  BY Active DEF Return, server
<1>2. \A a \in net' : a \in net
  BY <1>1, ClosedSockets
<1>3. ReplyIsOurs'
  <2>1. CASE ret' = ret
    BY <1>1, <2>1, ToldBefore DEF Fresh
  <2>2. CASE \E res \in Results, of \in 0 .. MaxCalls :
               /\ Finish(res, of)
               /\ (ret[calls].cmd \in Commands /\ res = "OK") => Top.cmd \in Commands /\ res = m.res /\ of = m.of
    <3>1. PICK res \in Results, of \in 0 .. MaxCalls :
               /\ Finish(res, of)
               /\ (ret[calls].cmd \in Commands /\ res = "OK") => Top.cmd \in Commands /\ res = m.res /\ of = m.of
      BY <2>2
    <3>2. /\ \A i \in Calls : i # calls => ret'[i] = ret[i]
          /\ ret'[calls].cmd = ret[calls].cmd /\ ret'[calls].res = res /\ ret'[calls].of = of
      BY <1>1, <3>1, Told
    <3>3. (ret[calls].cmd \in Commands /\ res = "OK" /\ ~ shutting_down) => of = calls
      BY <3>1
    <3>4. QED
      BY <1>1, <3>2, <3>3 DEF Fresh, ReplyIsOurs, FileOrPath, Completed, Commands
  <2>3. QED
    BY <2>1, <2>2, Returned
<1>4. frames' # <<>> => \A k \in late' : k.pkt.cmd \in Commands => k \in late
  BY LateCommands
<1>5. QED
  BY <1>1, <1>2, <1>3, <1>4, Returned, FreshKept

LEMMA FreshEnd ==
  ASSUME Inv, Stack', Fresh, Unremembered, Faults = {}, GiveUp \/ Breakout \/ \E m \in net : Reply(m)
  PROVE  Fresh'
<1>1. Junk \in 0 .. MaxCalls /\ {"OK", "ERROR", "NO_RESPONSE", "INVALID_HANDLE"} \subseteq Results
  BY Parameters DEF Junk, Results
<1>2. CASE GiveUp
  <2>1. PICK m : m = [res |-> "NO_RESPONSE", of |-> Junk]
    OBVIOUS
  <2>2. frames # <<>> /\ Return(m) /\ UNCHANGED <<shutting_down, server>>
    BY <1>2, <2>1 DEF GiveUp, Running
  <2>3. m.res = "NO_RESPONSE" /\ m.of = Junk
    BY <2>1
  <2>4. QED
    BY <1>1, <2>2, <2>3, FreshReturn
<1>3. CASE Breakout
  <2>1. PICK res \in {"OK", "ERROR"} : Return([res |-> res, of |-> Junk, sess |-> Top.pkt.sess])
    BY <1>3 DEF Breakout
  <2>2. PICK m : m = [res |-> res, of |-> Junk, sess |-> Top.pkt.sess]
    OBVIOUS
  <2>3. frames # <<>> /\ Return(m) /\ shutting_down /\ UNCHANGED <<shutting_down, server>>
    BY <1>3, <2>1, <2>2 DEF Breakout, Running
  <2>4. m.res = res /\ m.of = Junk
    BY <2>2
  <2>5. QED
    BY <1>1, <2>3, <2>4, FreshReturn
<1>4. CASE \E m \in net : Reply(m)
  <2>1. PICK m \in net : Reply(m)
    BY <1>4
  <2>2. Arrives(m) /\ Return(m) /\ UNCHANGED <<shutting_down, server>>
    BY <2>1 DEF Reply
  <2>3. frames # <<>> /\ m \in Replies /\ m.type = "rep" /\ m.cmd = Top.cmd
    BY <2>2, TopReply
  <2>4. m.res \in {"OK", "INVALID_HANDLE"} /\ m.of \in 0 .. MaxCalls
    BY <2>3, Records
  <2>5. (Top.cmd \in Commands /\ m.res = "OK") => m.of = calls
    BY <2>3 DEF Fresh, OwnResults, Result
  <2>6. QED
    BY <1>1, <2>2, <2>3, <2>4, <2>5, FreshReturn
<1>5. QED
  BY <1>2, <1>3, <1>4

\* A reply that brings no result, or the result of the running command.
LEMMA FreshReply ==
  ASSUME Inv, Fresh, UNCHANGED <<client, shutting_down, late, last>>, NEW a, net' \subseteq net \cup {a}, Result(a) => a.of = calls,
         issued' \in Nat, issued <= issued', \A s \in live' : s \in live \/ (s \in Sessions /\ s > issued)
  PROVE  Fresh'
<1>1. UNCHANGED <<frames, current_sequence_num, calls, ret>>
  BY DEF client
<1>2. ReplyIsOurs'
  BY <1>1, ToldBefore DEF Fresh
<1>3. OwnResults'
  BY <1>1 DEF Fresh, OwnResults, Result
<1>4. Unused'
  <2>1. \A s \in Sessions : s > issued' => s > issued
    BY Parameters DEF Inv, Typed, Sessions
  <2>2. QED
    BY <2>1 DEF Fresh, Unused
<1>5. Ours'
  <2>1. ASSUME frames # <<>>
        PROVE  \A s \in Sessions : s > issued => last[s].seq # frames[1].pkt.seq
    <3>1. frames[1] \in Frames
      BY <2>1, Active, OneDeep, TwoDeep DEF Alone, Nested
    <3>2. frames[1].pkt.seq # -1
      BY <3>1, Records, Parameters DEF SeqNums
    <3>3. NoReply.seq = -1
      BY DEF NoReply
    <3>4. QED
      BY <3>2, <3>3 DEF Fresh, Unused
  <2>2. QED
    BY <1>1, <2>1 DEF Fresh, Ours, LateNumber
<1>6. QED
  BY <1>2, <1>3, <1>4, <1>5 DEF Fresh

LEMMA SessionsServed ==
  ASSUME Inv, NEW m, ServerMounts(m) \/ ServerUnmounts(m) \/ ServerRejects(m) \/ ServerRepeats(m)
  PROVE  issued' \in Nat /\ issued <= issued' /\ \A s \in live' : s \in live \/ (s \in Sessions /\ s > issued)
<1>1. issued \in Nat
  BY Parameters DEF Inv, Typed
<1>2. CASE ServerMounts(m)
  <2>1. issued < MaxSessions /\ issued' = issued + 1 /\ live' = live \cup {issued'}
    BY <1>2 DEF ServerMounts
  <2>2. issued' \in Sessions /\ issued' > issued /\ issued' \in Nat
    BY <1>1, <2>1, Parameters DEF Sessions
  <2>3. QED
    BY <1>1, <2>1, <2>2
<1>3. CASE ServerUnmounts(m) \/ ServerRejects(m) \/ ServerRepeats(m)
  BY <1>1, <1>3 DEF ServerUnmounts, ServerRejects, ServerRepeats, server
<1>4. QED
  BY <1>2, <1>3

LEMMA FreshServer ==
  ASSUME Inv, Fresh, NEW m \in net, ServerMounts(m) \/ ServerUnmounts(m) \/ ServerRejects(m) \/ ServerRepeats(m)
  PROVE  Fresh'
<1>1. m.type = "req" /\ UNCHANGED <<client, shutting_down, late, last>>
  BY DEF ServerMounts, ServerUnmounts, ServerRejects, ServerRepeats, AtServer, IsReq, Respond, server
<1>2. PICK r : /\ net' = net \cup {Answer(m, r)}
               /\ \/ m.pkt.cmd \notin Commands \/ r.res = "INVALID_HANDLE"
                  \/ m.pkt.cmd \notin {"MOUNT", "UNMOUNT"} /\ m.pkt.sess \in live
                     /\ r = last[m.pkt.sess] /\ r.seq = m.pkt.seq
  <2>1. CASE ServerMounts(m)
    BY <2>1 DEF ServerMounts, Respond, Commands
  <2>2. CASE ServerUnmounts(m)
    BY <2>2 DEF ServerUnmounts, Respond, Commands
  <2>3. CASE ServerRejects(m)
    <3>1. Plain(m, "INVALID_HANDLE").res = "INVALID_HANDLE"
      BY DEF Plain
    <3>2. QED
      BY <2>3, <3>1 DEF ServerRejects, Respond
  <2>4. CASE ServerRepeats(m)
    BY <2>4 DEF ServerRepeats, Respond, AtServer, IsReq
  <2>5. QED
    BY <2>1, <2>2, <2>3, <2>4
<1>3. Answer(m, r).cmd = m.pkt.cmd /\ Answer(m, r).res = r.res /\ Answer(m, r).of = r.of
  BY DEF Answer
<1>4. Result(Answer(m, r)) => Answer(m, r).of = calls
  <2>1. CASE m.pkt.cmd \notin Commands \/ r.res = "INVALID_HANDLE"
    BY <1>3, <2>1 DEF Result
  <2>2. CASE m.pkt.cmd \in Commands /\ m.pkt.sess \in live /\ r = last[m.pkt.sess] /\ r.seq = m.pkt.seq
    <3>1. frames # <<>> /\ m.pkt.seq = frames[1].pkt.seq
      BY <1>1, <2>2, RequestOf
    <3>2. r.of = calls
      BY <2>2, <3>1, LiveSessions DEF Fresh, Ours
    <3>3. QED
      BY <1>3, <3>2
  <2>3. QED
    BY <1>2, <2>1, <2>2
<1>5. QED
  BY <1>1, <1>2, <1>4, SessionsServed, FreshReply

LEMMA FreshExecutes ==
  ASSUME Inv, Fresh, NEW m \in net, ServerExecutes(m)
  PROVE  Fresh'
<1> DEFINE s == m.pkt.sess
           n == m.pkt.seq
           b == m.pkt.body
           r == [sess |-> s, res |-> "OK", of |-> b, seq |-> n]
<1>1. /\ m.type = "req" /\ m.pkt.cmd \notin {"MOUNT", "UNMOUNT"} /\ s \in live
      /\ last' = [last EXCEPT ![s] = r] /\ net' = net \cup {Answer(m, r)} /\ UNCHANGED <<client, shutting_down, live, issued, late>>
  BY DEF ServerExecutes, AtServer, IsReq, Respond
<1>2. UNCHANGED <<frames, current_sequence_num, calls, ret, shutting_down>>
  BY <1>1 DEF client
<1>3. m.pkt.cmd \in Commands
  BY <1>1, RequestOf, Records DEF Cmds, Commands
<1>4. frames # <<>> /\ n = frames[1].pkt.seq /\ b = calls
  BY <1>1, <1>3, RequestOf
<1>5. r.of = calls /\ r.seq = n
  BY <1>4
<1>6. Answer(m, r).of = calls
  BY <1>5 DEF Answer
<1> HIDE DEF r
<1>7. last'[s] = r /\ \A t \in Sessions : t # s => last'[t] = last[t]
  <2>1. s \in Sessions /\ last \in [Sessions -> Remembered \cup {NoReply}]
    BY <1>1, LiveSessions DEF Inv, Typed
  <2>2. QED
    BY <1>1, <2>1
<1>8. Unused'
  <2>1. s \in 1 .. issued /\ issued \in Nat
    <3>1. live \subseteq 1 .. issued /\ issued \in 0 .. MaxSessions
      BY DEF Inv, Typed
    <3>2. s \in 1 .. issued
      BY <1>1, <3>1, Zenon
    <3>3. issued \in Nat
      BY <3>1, Parameters
    <3>4. QED
      BY <3>2, <3>3
  <2>2. \A t \in Sessions : t > issued => t # s
    BY <2>1
  <2>3. QED
    BY <1>1, <1>7, <2>2 DEF Fresh, Unused
<1>9. Ours'
  <2>1. \A t \in live : last'[t].seq = frames[1].pkt.seq => last'[t].of = calls
    BY <1>4, <1>5, <1>7, LiveSessions DEF Fresh, Ours
  <2>2. QED
    BY <1>1, <1>2, <2>1 DEF Fresh, Ours, LateNumber
<1>10. OwnResults'
  BY <1>1, <1>2, <1>6 DEF Fresh, OwnResults, Result
<1>11. ReplyIsOurs'
  BY <1>2, ToldBefore DEF Fresh
<1>12. QED
  BY <1>8, <1>9, <1>10, <1>11 DEF Fresh

\* The server and a late request: its answer reaches nobody.
LEMMA FreshLate ==
  ASSUME Inv, Behind, Fresh, Faults = {}, NEW m \in late, m \notin net,
         ServerMounts(m) \/ ServerUnmounts(m) \/ ServerRejects(m) \/ ServerRepeats(m) \/ ServerExecutes(m)
  PROVE  Fresh'
<1>1. CASE ServerMounts(m) \/ ServerUnmounts(m) \/ ServerRejects(m) \/ ServerRepeats(m)
  <2>1. UNCHANGED <<client, shutting_down, net, late, last>>
    BY <1>1 DEF ServerMounts, ServerUnmounts, ServerRejects, ServerRepeats, Respond, server
  <2>2. PICK a : a = [type |-> "req"]
    OBVIOUS
  <2>3. net' \subseteq net \cup {a} /\ ~ Result(a)
    BY <2>1, <2>2 DEF Result
  <2>4. QED
    BY <1>1, <2>1, <2>3, SessionsServed, FreshReply
<1>2. CASE ServerExecutes(m)
  <2>1. m \in Requests /\ m.pkt.cmd \in Commands /\ m.pkt.body \in Calls
    <3>1. m \in Requests /\ m.pkt.cmd \in Cmds
      BY Records DEF Behind
    <3>2. m.pkt.cmd \in Commands
      BY <1>2, <3>1 DEF ServerExecutes, AtServer, Cmds, Commands
    <3>3. QED
      BY <3>1, <3>2 DEF Behind, Outlived
  <2> DEFINE s == m.pkt.sess
             n == m.pkt.seq
  <2>2. /\ s \in Sessions /\ UNCHANGED <<frames, calls, ret, shutting_down, live, issued, late>>
        /\ last'[s].seq = n /\ \A t \in Sessions : t # s => last'[t] = last[t]
    BY <1>2, <2>1, Execution
  <2>3. net' = net /\ s \in live
    BY <1>2 DEF ServerExecutes, AtServer, Respond
  <2>4. frames # <<>> => n # frames[1].pkt.seq
    BY <2>1 DEF Fresh, Ours, LateNumber
  <2> HIDE DEF s, n
  <2>5. Unused'
    <3>1. live \subseteq 1 .. issued /\ issued \in 0 .. MaxSessions
      BY DEF Inv, Typed
    <3>2. s \in 1 .. issued
      BY <2>3, <3>1, Zenon
    <3>3. issued \in Nat
      BY <3>1, Parameters
    <3>4. \A t \in Sessions : t > issued => t # s
      BY <3>2, <3>3
    <3>5. QED
      BY <2>2, <3>4 DEF Fresh, Unused
  <2>6. Ours'
    <3>1. ASSUME frames # <<>> PROVE \A t \in live : last'[t].seq = frames[1].pkt.seq => last'[t].of = calls
      BY <2>2, <2>4, <3>1, LiveSessions DEF Fresh, Ours
    <3>2. QED
      BY <2>2, <3>1 DEF Fresh, Ours, LateNumber
  <2>7. OwnResults' /\ ReplyIsOurs'
    BY <2>2, <2>3, ToldBefore DEF Fresh, OwnResults, Result
  <2>8. QED
    BY <2>5, <2>6, <2>7 DEF Fresh
<1>3. QED
  BY <1>1, <1>2

LEMMA StepKeepsFresh ==
  ASSUME Inv, Behind, Inv', Fresh, Unremembered, Faults = {}, [Next]_vars
  PROVE  Fresh'
<1>1. CASE \E cmd \in {"PATH", "FD"} : Command(cmd)
  <2>1. PICK cmd \in {"PATH", "FD"} : Command(cmd)
    BY <1>1
  <2>2. cmd \in Cmds
    BY DEF Cmds
  <2>3. StartCall(cmd) /\ UNCHANGED <<session, shutting_down, net, late, server>> /\ Enter(<<>>, cmd, "return")
    BY <2>1 DEF Command, network
  <2>4. QED
    BY <2>2, <2>3, FreshCall
<1>2. CASE tnfs_mount
  <2>1. StartCall("MOUNT") /\ UNCHANGED <<session, shutting_down, net, late, server>> /\ "MOUNT" \in Cmds
    BY <1>2 DEF tnfs_mount, Cmds, network
  <2>2. Enter(<<>>, "UNMOUNT", "mount") \/ Enter(<<>>, "MOUNT", "return")
    BY <1>2 DEF tnfs_mount, network
  <2>3. QED
    BY <2>1, <2>2, FreshCall
<1>3. CASE tnfs_umount
  <2>1. /\ StartCall("UNMOUNT") /\ UNCHANGED <<session, shutting_down, net, late, server>> /\ "UNMOUNT" \in Cmds
        /\ Enter(<<>>, "UNMOUNT", "return")
    BY <1>3 DEF tnfs_umount, Cmds, network
  <2>2. QED
    BY <2>1, FreshCall
<1>4. CASE Send \/ SendFails \/ Timeout
  BY <1>4, FreshAttempt
<1>5. CASE GiveUp \/ Breakout \/ \E m \in net : Reply(m)
  BY <1>5, FreshEnd DEF Inv
<1>6. CASE (\E m \in net : OutOfOrder(m) \/ TryAgain(m)) \/ \E m \in net \cup late : ServerBusy(m)
  BY <1>6, NoForeignDatagram DEF ServerBusy
<1>7. CASE \E m \in net : SessionExpired(m)
  BY <1>7, FreshExpired
<1>8. CASE \E m \in net : ServerMounts(m) \/ ServerUnmounts(m) \/ ServerRejects(m) \/ ServerRepeats(m)
  BY <1>8, FreshServer
<1>9. CASE \E m \in net : ServerExecutes(m)
  BY <1>9, FreshExecutes
<1>12. ASSUME NEW m \in late, m \notin net,
              ServerMounts(m) \/ ServerUnmounts(m) \/ ServerRejects(m) \/ ServerRepeats(m) \/ ServerExecutes(m)
       PROVE  Fresh'
  BY <1>12, FreshLate
<1>10. CASE (\E s \in live : SessionExpires(s)) \/ BusShutsDown \/ UNCHANGED vars
  <2>1. UNCHANGED <<frames, calls, ret, net, late, last, issued>> /\ live' \subseteq live
    BY <1>10 DEF SessionExpires, BusShutsDown, vars, client, server, network
  <2>2. shutting_down' \/ UNCHANGED shutting_down
    BY <1>10 DEF SessionExpires, BusShutsDown, vars, network
  <2>3. Unused' /\ Ours' /\ OwnResults'
    BY <2>1 DEF Fresh, Unused, Ours, OwnResults, LateNumber
  <2>4. ReplyIsOurs'
    BY <2>1, <2>2, ToldBefore DEF Fresh, ReplyIsOurs
  <2>5. QED
    BY <2>3, <2>4 DEF Fresh
<1>11. QED
  BY <1>1, <1>2, <1>3, <1>4, <1>5, <1>6, <1>7, <1>8, <1>9, <1>10, <1>12 DEF Next, ClientStep

-----------------------------------------------------------------------------
LEMMA InvHolds ==
  ASSUME Faults = {}
  PROVE  Spec => [](Inv /\ Behind)
<1>1. Init => Inv /\ Behind
  BY InitInv, BehindInit
<1>2. (Inv /\ Behind) /\ [Next]_vars => (Inv /\ Behind)'
  BY StepKeepsInv
<1>3. QED
  BY <1>1, <1>2, PTL DEF Spec

\* _tnfs_transaction and the recovery inside it keep the client's record and the stack of
\* transactions well formed; neither MOUNT nor UNMOUNT starts a recovery, so at most two
\* transactions are active at any time.
THEOREM TransactionsTyped ==
  ASSUME Faults = {}
  PROVE  Spec => []TypeOK
<1>1. Inv => TypeOK
  <2> SUFFICES ASSUME Inv
               PROVE  TypeOK
    OBVIOUS
  <2>1. frames \in Seq(Frames) /\ Len(frames) <= 2
    <3>1. CASE frames = <<>>
      BY <3>1
    <3>2. CASE \E f \in Frames : Alone(f)
      BY <3>2, OneDeep DEF Alone
    <3>3. CASE \E f, g \in Frames : Nested(f, g)
      BY <3>3, TwoDeep DEF Nested
    <3>4. QED
      BY <3>1, <3>2, <3>3 DEF Inv, Stack
  <2>2. issued \in 0 .. MaxSessions /\ session \in 0 .. issued
    BY DEF Inv, Typed
  <2>3. session \in 0 .. MaxSessions
    BY <2>2, Parameters
  <2>4. QED
    BY <2>1, <2>3 DEF Inv, Typed, TypeOK, Returns
<1>2. QED
  BY <1>1, InvHolds, PTL

\* Every datagram of a file or path command carries that command's own payload, also the
\* ones that _tnfs_transaction sends after a recovery, from the buffer that the
\* INVALID_HANDLE reply overwrote and whose first payload byte it put back.
THEOREM RetriesAreTheRequest ==
  ASSUME Faults = {}
  PROVE  Spec => []RetriesCarryRequest
<1>1. Inv => RetriesCarryRequest
  <2> SUFFICES ASSUME Inv
               PROVE  RetriesCarryRequest
    OBVIOUS
  <2>1. \A m \in net : m.type = "req" => m.pkt.body = calls /\ calls \in Calls
    BY RequestOf
  <2>2. Junk \notin Calls
    BY Parameters DEF Junk, Calls
  <2>3. QED
    BY <2>1, <2>2 DEF RetriesCarryRequest
<1>2. QED
  BY <1>1, InvHolds, PTL

\* A command on a handle is executed in one session at most, although the engine mounts again
\* by itself; and no session executes a command twice, however often it is sent, however late
\* its datagrams arrive, unless a datagram arrived after a later call's command had been
\* executed in that session, which the server then takes for a new one (overtaken).
THEOREM CommandsExecutedOnce ==
  ASSUME Faults = {}
  PROVE  Spec => []AtMostOnce
<1>1. Inv => AtMostOnce
  BY DEF Inv, Once
<1>2. QED
  BY <1>1, InvHolds, PTL

\* tnfs_mount reports success only with a session of a server that is recent enough,
\* whatever became of the unmount before it and of lost or repeated replies.
THEOREM MountsGiveSession ==
  ASSUME Faults = {}
  PROVE  Spec => []MountGivesSession
<1>1. Inv => MountGivesSession
  BY DEF Inv
<1>2. QED
  BY <1>1, InvHolds, PTL

\* _tnfs_session_recovery reports the loss of a session truthfully: BAD_FILENUM leaves a
\* new session in which the command was not executed, INVALID_HANDLE leaves no usable one.
THEOREM RecoveriesTruthful ==
  ASSUME Faults = {}
  PROVE  Spec => []RecoveryOutcome
<1>1. Inv => RecoveryOutcome
  BY DEF Inv
<1>2. QED
  BY <1>1, InvHolds, PTL

\* A command that reports success got the reply to its own request, as long as no open
\* session remembers the one-byte sequence number that is given next from a request 256
\* transactions ago, and no command under way from then has it (the server would then
\* repeat that request's reply).
THEOREM RepliesAreOurs ==
  ASSUME Faults = {}
  PROVE  Spec /\ []Unremembered => []ReplyIsOurs
<1>1. Init => Fresh
  BY FreshInit
<1>2. (Inv /\ Behind /\ Inv' /\ Fresh /\ Unremembered /\ [Next]_vars) => Fresh'
  BY StepKeepsFresh
<1>3. Fresh => ReplyIsOurs
  BY DEF Fresh
<1>4. QED
  BY <1>1, <1>2, <1>3, InvHolds, PTL DEF Spec

-----------------------------------------------------------------------------
(***************************************************************************)
(* Late replies and TRY_AGAIN, for any faults.  What holds of every        *)
(* transaction, whatever datagrams have overwritten its packet.            *)
(***************************************************************************)
AnyReplies == [type : {"rep"}, sock : Nat \X SeqNums, sess : 0 .. MaxSessions, seq : SeqNums, cmd : Cmds,
               res : {"OK", "INVALID_HANDLE", "TRY_AGAIN"}, of : 0 .. MaxCalls]
AnyRequests == [type : {"req"}, sock : Nat \X SeqNums, pkt : Packets]
AnyFrames == [cmd : Cmds, then : {"return", "mount", "refuse"}, retry : Nat,
              pc : {"send", "wait"}, sock : Nat \X SeqNums, expect : SeqNums, pkt : Packets]

Sound ==
  /\ session \in 0 .. MaxSessions
  /\ current_sequence_num \in SeqNums
  /\ frames \in Seq(AnyFrames)
  /\ calls \in 0 .. MaxCalls /\ (frames # <<>> => calls \in Calls)
  /\ ret \in [Calls -> Returns]
  /\ net \subseteq AnyRequests \cup AnyReplies /\ late \subseteq AnyRequests
  /\ issued \in 0 .. MaxSessions /\ live \subseteq 1 .. issued
  /\ last \in [Sessions -> Remembered \cup {NoReply}]

\* No number given from now on, until the byte comes round, has been given before.
Older ==
  /\ \A k \in 1 .. Len(frames) :
       frames[k].expect < current_sequence_num /\ frames[k].pkt.seq < current_sequence_num
  /\ \A m \in net : /\ m.type = "req" => m.pkt.seq < current_sequence_num
                    /\ m.type = "rep" => m.seq < current_sequence_num
  /\ \A m \in late : m.pkt.seq < current_sequence_num
  /\ \A s \in Sessions : last[s].seq < current_sequence_num
Unwrapped == current_sequence_num + 1 < SeqMod

\* Neither an open session, nor a reply or a late request under way, has the number that is
\* given next.
Unheard ==
  /\ Unremembered
  /\ \A m \in net : m.type = "rep" => m.seq # current_sequence_num
  /\ \A m \in late : m.pkt.seq # current_sequence_num

\* The payload is the call's, or none; so is all that has the number which an active
\* transaction was given, whatever number it has come to wait for.
Mine(n) == n \in {calls, Junk}
Given(f) == f.sock[2]
Carried ==
  /\ \A k \in 1 .. Len(frames) : Mine(frames[k].pkt.body)
  /\ \A m \in net : m.type = "req" => frames # <<>> /\ Mine(m.pkt.body)
Attributed ==
  \A k \in 1 .. Len(frames) :
    /\ \A m \in net : m.type = "rep" /\ m.seq = Given(frames[k]) => Mine(m.of)
    /\ \A m \in late : m.pkt.seq = Given(frames[k]) => Mine(m.pkt.body)
    /\ \A s \in live : last[s].seq = Given(frames[k]) => Mine(last[s].of)
Undiverted == Unused /\ Carried /\ Attributed

\* A call that ends while it waits for the number it was given gets what is its own.
Reported == frames' = <<>> /\ Top.expect = Given(Top) => Mine(ret'[calls].of)

LEMMA AnyRecords ==
  /\ \A f \in AnyFrames : /\ f.cmd \in Cmds /\ f.then \in {"return", "mount", "refuse"} /\ f.expect \in SeqNums
                            /\ f.pkt \in Packets /\ f.retry \in Nat /\ f.pc \in {"send", "wait"} /\ f.sock \in Nat \X SeqNums
  /\ \A p \in Packets : p.sess \in 0 .. MaxSessions /\ p.seq \in SeqNums /\ p.cmd \in Cmds /\ p.body \in 0 .. MaxCalls
  /\ \A m \in AnyRequests : m.type = "req" /\ m.sock \in Nat \X SeqNums /\ m.pkt \in Packets
  /\ \A m \in AnyReplies : /\ m.type = "rep" /\ m.sock \in Nat \X SeqNums /\ m.sess \in 0 .. MaxSessions /\ m.seq \in SeqNums
                             /\ m.cmd \in Cmds /\ m.res \in {"OK", "INVALID_HANDLE", "TRY_AGAIN"} /\ m.of \in 0 .. MaxCalls
  /\ \A r \in Remembered : r.sess \in Sessions /\ r.res = "OK" /\ r.of \in 0 .. MaxCalls /\ r.seq \in SeqNums
BY DEF AnyFrames, Packets, AnyRequests, AnyReplies, Remembered

\* The stack with its innermost transaction changed, and without it.
LEMMA Stacked ==
  ASSUME frames \in Seq(AnyFrames), frames # <<>>
  PROVE  /\ Len(frames) \in Nat /\ Len(frames) > 0 /\ Top \in AnyFrames /\ Top = frames[Len(frames)]
         /\ \A h \in AnyFrames : /\ SetTop(h) \in Seq(AnyFrames) /\ Len(SetTop(h)) = Len(frames)
                                   /\ SetTop(h)[Len(frames)] = h
                                   /\ \A k \in 1 .. Len(frames) : k # Len(frames) => SetTop(h)[k] = frames[k]
         /\ Below \in Seq(AnyFrames) /\ Len(Below) = Len(frames) - 1
         /\ \A k \in 1 .. Len(frames) - 1 : Below[k] = frames[k]
         /\ Below # <<>> => Len(frames) > 1 /\ Below[1] = frames[1] /\ Below[1] \in AnyFrames
<1>1. PICK n \in Nat : n = Len(frames)
  OBVIOUS
<1>2. n > 0 /\ n \in 1 .. n /\ frames[n] \in AnyFrames /\ \A k \in 1 .. n : frames[k] \in AnyFrames
  BY <1>1
<1>3. Top = frames[n]
  BY <1>1 DEF Top
<1>4. ASSUME NEW h \in AnyFrames
      PROVE  /\ SetTop(h) \in Seq(AnyFrames) /\ Len(SetTop(h)) = n /\ SetTop(h)[n] = h
             /\ \A k \in 1 .. n : k # n => SetTop(h)[k] = frames[k]
  BY <1>1, <1>2 DEF SetTop
<1>5. Below \in Seq(AnyFrames) /\ Len(Below) = n - 1 /\ \A k \in 1 .. n - 1 : Below[k] = frames[k]
  <2>1. \A k \in 1 .. n - 1 : frames[k] \in AnyFrames
    BY <1>2
  <2>2. Below = SubSeq(frames, 1, n - 1)
    BY <1>1 DEF Below
  <2>3. QED
    BY <1>1, <1>2, <2>1, <2>2, SubSeqProperties
<1>6. ASSUME Below # <<>> PROVE n > 1 /\ Below[1] = frames[1] /\ Below[1] \in AnyFrames
  <2>1. Len(Below) # 0
    BY <1>5, <1>6
  <2>2. n > 1 /\ 1 \in 1 .. n - 1 /\ 1 \in 1 .. n
    BY <1>2, <1>5, <2>1
  <2>3. QED
    BY <1>2, <1>5, <2>2
<1>7. QED
  BY <1>1, <1>2, <1>3, <1>4, <1>5, <1>6

\* A transaction begins, on top of the stack b.
LEMMA Opened ==
  ASSUME Sound, NEW b \in Seq(AnyFrames), NEW cmd \in Cmds, NEW then \in {"return", "mount", "refuse"},
         session' \in 0 .. MaxSessions, calls' \in 0 .. MaxCalls, Enter(b, cmd, then)
  PROVE  /\ frames' \in Seq(AnyFrames) /\ Len(frames') = Len(b) + 1 /\ Len(b) \in Nat
         /\ \A k \in 1 .. Len(b) : frames'[k] = b[k]
         /\ frames'[Len(b) + 1].expect = current_sequence_num /\ Given(frames'[Len(b) + 1]) = current_sequence_num
         /\ frames'[Len(b) + 1].pkt.seq = current_sequence_num
         /\ frames'[Len(b) + 1].pkt.body = calls'
         /\ current_sequence_num' = (current_sequence_num + 1) % SeqMod
         /\ current_sequence_num' \in SeqNums
<1>1. PICK n \in Nat : n = Len(b)
  OBVIOUS
<1>2. PICK h : h = NewFrame(n, cmd, then, session')
  OBVIOUS
<1>3. current_sequence_num \in SeqNums
  BY DEF Sound
<1>4. /\ h \in AnyFrames /\ h.expect = current_sequence_num /\ h.pkt.seq = current_sequence_num /\ h.pkt.body = calls'
      /\ Given(h) = current_sequence_num
  <2>1. [sess |-> session', seq |-> current_sequence_num, cmd |-> cmd, body |-> calls'] \in Packets
    BY <1>3 DEF Packets
  <2>2. <<n, current_sequence_num>> \in Nat \X SeqNums
    BY <1>3
  <2>3. h \in AnyFrames
    BY <1>2, <1>3, <2>1, <2>2 DEF NewFrame, AnyFrames
  <2>4. QED
    BY <1>2, <2>3 DEF NewFrame, Given
<1>5. frames' = Append(b, h) /\ current_sequence_num' = (current_sequence_num + 1) % SeqMod
  BY <1>1, <1>2 DEF Enter
<1>6. frames' \in Seq(AnyFrames) /\ Len(frames') = n + 1 /\ frames'[n + 1] = h /\ \A k \in 1 .. n : frames'[k] = b[k]
  BY <1>1, <1>4, <1>5, AppendProperties
<1>7. QED
  BY <1>1, <1>3, <1>4, <1>5, <1>6, NextNumber

\* The transaction h is new.  The transaction h was f.
Opening(h) ==
  /\ h.expect = current_sequence_num /\ h.pkt.seq = current_sequence_num /\ h.pkt.body = calls'
  /\ Given(h) = current_sequence_num
  /\ current_sequence_num' = (current_sequence_num + 1) % SeqMod
Continues(h, f) ==
  /\ h.expect \in {f.expect, f.pkt.seq} /\ h.pkt.body \in {f.pkt.body, Junk} /\ h.sock = f.sock
  /\ h.pkt.seq = f.pkt.seq \/ \E m \in net : m.type = "rep" /\ h.pkt.seq = m.seq
Same(h, f) == h.expect = f.expect /\ h.pkt.seq = f.pkt.seq /\ h.pkt.body = f.pkt.body /\ h.sock = f.sock

\* What a step of the client does to the transactions, the datagrams and the results.
Advance ==
  \A k \in 1 .. Len(frames') : Opening(frames'[k]) \/ \E j \in 1 .. Len(frames) : Continues(frames'[k], frames[j])
Traffic ==
  /\ \A m \in net' : m \in net \/ (m.type = "req" /\ \E j \in 1 .. Len(frames) : m.pkt = frames[j].pkt)
  /\ frames' = <<>> => \A m \in net' : m.type # "req"
  /\ late' \subseteq late \cup {m \in net : m.type = "req"}
Moved ==
  /\ Sound' /\ UNCHANGED <<calls, server>> /\ frames # <<>>
  /\ current_sequence_num' \in {current_sequence_num, (current_sequence_num + 1) % SeqMod}
  /\ Advance /\ Traffic
  /\ Attributed => Reported

\* The transactions below the innermost one stay as they are, under at most one new one.
LEMMA Unwound ==
  ASSUME Sound, frames # <<>>, frames' \in Seq(AnyFrames),
         \A k \in 1 .. Len(frames') :
           \/ k = Len(frames') /\ Opening(frames'[k])
           \/ \E j \in 1 .. Len(frames) - 1 : Same(frames'[k], frames[j])
  PROVE  Advance
<1>1. Len(frames) \in Nat /\ 1 .. Len(frames) - 1 \subseteq 1 .. Len(frames)
  BY Stacked DEF Sound
<1>2. \A h, f : Same(h, f) => Continues(h, f)
  BY DEF Same, Continues
<1>3. QED
  BY <1>1, <1>2 DEF Advance

\* The call ends with an outcome of its own.
LEMMA Ended ==
  ASSUME Sound, NEW res \in Results, NEW of \in 0 .. MaxCalls, Finish(res, of)
  PROVE  /\ frames' = <<>> /\ current_sequence_num' = current_sequence_num
         /\ ret' \in [Calls -> Returns]
         /\ calls \in Calls => ret'[calls].of = of
<1>1. frames' = <<>> /\ current_sequence_num' = current_sequence_num
      /\ ret' = [ret EXCEPT ![calls].res = res, ![calls].of = of]
  BY DEF Finish
<1>2. ret \in [Calls -> Returns]
  BY DEF Sound
<1>3. CASE calls \in Calls
  <2>1. PICK a \in Returns : a = ret[calls]
    BY <1>2, <1>3
  <2>2. ret' = [ret EXCEPT ![calls] = [a EXCEPT !.res = res, !.of = of]]
    BY <1>1, <1>2, <1>3, <2>1
  <2>3. [a EXCEPT !.res = res, !.of = of] \in Returns /\ [a EXCEPT !.res = res, !.of = of].of = of
    BY <2>1 DEF Returns
  <2>4. QED
    BY <1>1, <1>2, <1>3, <2>2, <2>3
<1>4. CASE calls \notin Calls
  <2>1. ret' = ret
    BY <1>1, <1>2, <1>4
  <2>2. QED
    BY <1>1, <1>2, <1>4, <2>1
<1>5. QED
  BY <1>3, <1>4

\* tnfs_mount returns: the call ends, or the interrupted command goes on.
LEMMA MountLeft ==
  ASSUME Sound, frames # <<>>, NEW res \in Results, MountReturns(res), session' \in 0 .. MaxSessions
  PROVE  \/ Finish(res, Junk) \/ Finish("INVALID_HANDLE", Junk) \/ Finish("BAD_FILENUM", Junk)
         \/ /\ Len(frames) > 1 /\ UNCHANGED <<ret, current_sequence_num>>
            /\ frames' \in Seq(AnyFrames) /\ Len(frames') = 1 /\ Same(frames'[1], frames[1])
<1>1. CASE Below = <<>> \/ res # "OK" \/ Below[1].pkt.cmd = "FD"
  BY <1>1 DEF MountReturns
<1>2. CASE ~(Below = <<>> \/ res # "OK" \/ Below[1].pkt.cmd = "FD")
  <2>1. PICK f : f = Below[1]
    OBVIOUS
  <2>2. Below # <<>> /\ Len(frames) > 1 /\ f = frames[1] /\ f \in AnyFrames
    BY <1>2, <2>1, Stacked DEF Sound
  <2>3. PICK h : h = [f EXCEPT !.pkt.sess = session', !.retry = 0, !.pc = "send"]
    OBVIOUS
  <2>4. frames' = <<h>> /\ UNCHANGED <<ret, current_sequence_num>>
    BY <1>2, <2>1, <2>3 DEF MountReturns
  <2>5. PICK p : p = [f.pkt EXCEPT !.sess = session']
    OBVIOUS
  <2>6. p \in Packets /\ p.seq = f.pkt.seq /\ p.body = f.pkt.body
    <3>1. f.pkt \in Packets
      BY <2>2, AnyRecords
    <3>2. QED
      BY <2>5, <3>1 DEF Packets
  <2>7. h = [f EXCEPT !.pkt = p, !.retry = 0, !.pc = "send"]
    BY <2>2, <2>3, <2>5 DEF AnyFrames
  <2>8. h \in AnyFrames /\ h.pkt = p /\ h.expect = f.expect /\ h.sock = f.sock
    BY <2>2, <2>6, <2>7 DEF AnyFrames
  <2>9. Same(h, f)
    BY <2>6, <2>8 DEF Same
  <2>10. frames' \in Seq(AnyFrames) /\ Len(frames') = 1 /\ frames'[1] = h
    BY <2>4, <2>8
  <2>11. QED
    BY <2>2, <2>4, <2>9, <2>10
<1>3. QED
  BY <1>1, <1>2

\* _tnfs_transaction returns: the call ends, another transaction begins in its place, or
\* the interrupted one goes on.
LEMMA Left ==
  ASSUME Sound, frames # <<>>, NEW m, Return(m), m.res \in Results, m.of \in 0 .. MaxCalls,
         m.res = "OK" => m.sess \in 0 .. MaxSessions
  PROVE  /\ calls' = calls /\ session' \in 0 .. MaxSessions
         /\ \/ \E res \in Results, of \in {m.of, Junk} : Finish(res, of)
            \/ /\ ret' = ret
               /\ \E b \in {<<>>, Below}, cmd \in Cmds, then \in {"return", "mount", "refuse"} : Enter(b, cmd, then)
            \/ /\ Len(frames) > 1 /\ UNCHANGED <<ret, current_sequence_num>>
               /\ frames' \in Seq(AnyFrames) /\ Len(frames') = 1 /\ Same(frames'[1], frames[1])
<1>0. session \in 0 .. MaxSessions /\ NoSession \in 0 .. MaxSessions /\ calls' = calls
  BY Parameters DEF Sound, NoSession, Return
<1>r. "INVALID_HANDLE" \in Results /\ "BAD_FILENUM" \in Results /\ "UNIMPLEMENTED" \in Results /\ "OK" \in Results
  BY DEF Results
<1>c. "MOUNT" \in Cmds /\ "UNMOUNT" \in Cmds /\ Top \in AnyFrames /\ Top.then \in {"return", "mount", "refuse"}
  BY Stacked, AnyRecords DEF Cmds, Sound
<1>1. CASE Top.cmd = "MOUNT"
  <2>1. AfterMount(m)
    BY <1>1 DEF Return
  <2>2. CASE m.res = "OK" /\ m.sess \in OldSessions
    BY <1>0, <1>c, <2>1, <2>2 DEF AfterMount
  <2>3. CASE m.res = "OK" /\ m.sess \notin OldSessions
    <3>1. session' = m.sess /\ MountReturns("OK")
      BY <2>1, <2>3 DEF AfterMount
    <3>2. QED
      BY <1>0, <1>r, <2>3, <3>1, MountLeft
  <2>4. CASE m.res # "OK"
    <3>1. session' = session /\ MountReturns(m.res)
      BY <2>1, <2>4 DEF AfterMount
    <3>2. QED
      BY <1>0, <1>r, <3>1, MountLeft
  <2>5. QED
    BY <2>2, <2>3, <2>4
<1>2. CASE Top.cmd = "UNMOUNT"
  <2>1. AfterUmount(m)
    BY <1>2 DEF Return
  <2>2. CASE Top.then = "return"
    <3>1. session' \in {NoSession, session} /\ Finish(m.res, Junk)
      BY <2>1, <2>2 DEF AfterUmount
    <3>2. QED
      BY <1>0, <3>1
  <2>3. CASE Top.then = "mount"
    <3>1. session' = NoSession /\ Enter(<<>>, "MOUNT", "return") /\ ret' = ret
      BY <2>1, <2>3 DEF AfterUmount
    <3>2. QED
      BY <1>0, <1>c, <3>1
  <2>4. CASE Top.then = "refuse"
    <3>1. session' \in {NoSession, session} /\ MountReturns("UNIMPLEMENTED")
      BY <2>1, <2>4 DEF AfterUmount
    <3>2. session' \in 0 .. MaxSessions
      BY <1>0, <3>1
    <3>3. QED
      BY <1>0, <1>r, <3>1, <3>2, MountLeft
  <2>5. QED
    BY <1>c, <2>2, <2>3, <2>4
<1>3. CASE Top.cmd \notin {"MOUNT", "UNMOUNT"}
  <2>1. session' = session /\ Finish(m.res, m.of)
    BY <1>3 DEF Return
  <2>2. QED
    BY <1>0, <2>1
<1>4. QED
  BY <1>1, <1>2, <1>3

LEMMA ReturnMoves ==
  ASSUME Sound, frames # <<>>, NEW m, Return(m), m.res \in Results, m.of \in 0 .. MaxCalls,
         (Attributed /\ Top.expect = Given(Top)) => Mine(m.of),
         m.res = "OK" => m.sess \in 0 .. MaxSessions, UNCHANGED <<shutting_down, server>>
  PROVE  Moved
<1>0. /\ frames \in Seq(AnyFrames) /\ current_sequence_num \in SeqNums /\ ret \in [Calls -> Returns] /\ calls \in 0 .. MaxCalls
      /\ net \subseteq AnyRequests \cup AnyReplies /\ late \subseteq AnyRequests /\ Junk \in 0 .. MaxCalls /\ calls \in Calls
  BY Parameters DEF Sound, Junk
<1>1. calls' = calls /\ session' \in 0 .. MaxSessions
  BY Left
<1>2. net' \subseteq net /\ late' \subseteq AnyRequests /\ Traffic
  <2>1. /\ net' = {d \in net : \/ \E i \in 1 .. Len(frames') : d.sock = frames'[i].sock
                               \/ d.type = "rep" /\ "stale" \in Faults}
        /\ late' \subseteq late \cup {d \in net : d.type = "req"}
    BY DEF Return, CloseSockets, StillOpen
  <2>2. frames' = <<>> => 1 .. Len(frames') = {}
    OBVIOUS
  <2>3. late' \subseteq AnyRequests
    <3>1. \A d \in AnyReplies : d.type # "req"
      BY AnyRecords
    <3>2. QED
      BY <1>0, <2>1, <3>1
  <2>4. Traffic
    BY <2>1, <2>2 DEF Traffic
  <2>5. QED
    BY <2>1, <2>3, <2>4
<1>3. UNCHANGED <<live, last, issued, exec, overtaken>>
  BY DEF server
<1>4. ASSUME /\ frames' \in Seq(AnyFrames) /\ ret' \in [Calls -> Returns]
             /\ current_sequence_num' \in {current_sequence_num, (current_sequence_num + 1) % SeqMod}
             /\ \A k \in 1 .. Len(frames') :
                  \/ k = Len(frames') /\ Opening(frames'[k])
                  \/ \E j \in 1 .. Len(frames) - 1 : Same(frames'[k], frames[j])
             /\ Attributed => Reported
      PROVE  Moved
  <2>1. Sound'
    BY <1>0, <1>1, <1>2, <1>3, <1>4, NextNumber DEF Sound
  <2>2. Advance
    BY <1>4, Unwound
  <2>3. QED
    BY <1>1, <1>2, <1>4, <2>1, <2>2 DEF Moved
<1>5. CASE \E res \in Results, of \in {m.of, Junk} : Finish(res, of)
  <2>1. PICK res \in Results, of \in {m.of, Junk} : Finish(res, of)
    BY <1>5
  <2>2. /\ frames' = <<>> /\ current_sequence_num' = current_sequence_num /\ ret' \in [Calls -> Returns]
        /\ ret'[calls].of = of
    BY <1>0, <2>1, Ended
  <2>3. frames' \in Seq(AnyFrames) /\ 1 .. Len(frames') = {}
    BY <2>2
  <2>4. Attributed => Reported
    BY <2>1, <2>2 DEF Reported, Mine
  <2>5. QED
    BY <1>4, <2>2, <2>3, <2>4
<1>6. CASE ret' = ret /\ \E b \in {<<>>, Below}, cmd \in Cmds, then \in {"return", "mount", "refuse"} : Enter(b, cmd, then)
  <2>1. PICK b \in {<<>>, Below}, cmd \in Cmds, then \in {"return", "mount", "refuse"} : Enter(b, cmd, then)
    BY <1>6
  <2>2. PICK n \in Nat : n = Len(b)
    BY <1>0, <2>1, Stacked
  <2>3. b \in Seq(AnyFrames) /\ \A k \in 1 .. n : k \in 1 .. Len(frames) - 1 /\ b[k] = frames[k]
    <3>1. CASE b = <<>>
      BY <2>2, <3>1
    <3>2. CASE b = Below
      BY <1>0, <2>2, <3>2, Stacked
    <3>3. QED
      BY <2>1, <3>1, <3>2
  <2>4. calls' \in 0 .. MaxCalls
    BY <1>0, <1>1
  <2>5. /\ frames' \in Seq(AnyFrames) /\ Len(frames') = n + 1 /\ \A k \in 1 .. n : frames'[k] = frames[k]
        /\ Opening(frames'[n + 1]) /\ current_sequence_num' = (current_sequence_num + 1) % SeqMod
    BY <1>1, <2>1, <2>2, <2>3, <2>4, Opened DEF Opening
  <2>6. \A k \in 1 .. Len(frames') : \/ k = Len(frames') /\ Opening(frames'[k])
                                     \/ \E j \in 1 .. Len(frames) - 1 : Same(frames'[k], frames[j])
    <3>1. ASSUME NEW k \in 1 .. n PROVE \E j \in 1 .. Len(frames) - 1 : Same(frames'[k], frames[j])
      BY <2>3, <2>5 DEF Same
    <3>2. \A k \in 1 .. n + 1 : k \in 1 .. n \/ k = n + 1
      BY <2>2
    <3>3. QED
      BY <2>5, <3>1, <3>2
  <2>7. frames' # <<>> /\ Reported
    BY <2>2, <2>5 DEF Reported
  <2>8. QED
    BY <1>0, <1>4, <1>6, <2>5, <2>6, <2>7
<1>7. CASE /\ Len(frames) > 1 /\ UNCHANGED <<ret, current_sequence_num>>
           /\ frames' \in Seq(AnyFrames) /\ Len(frames') = 1 /\ Same(frames'[1], frames[1])
  <2>1. 1 \in 1 .. Len(frames) - 1 /\ \A k \in 1 .. Len(frames') : k = 1
    BY <1>0, <1>7
  <2>2. Len(frames') # 0
    BY <1>7
  <2>3. Reported
    BY <2>2 DEF Reported
  <2>4. QED
    BY <1>0, <1>4, <1>7, <2>1, <2>3
<1>8. QED
  BY <1>5, <1>6, <1>7, Left

\* The innermost transaction goes on, and may have sent its packet.
LEMMA TopMoves ==
  ASSUME Sound, frames # <<>>, NEW h \in AnyFrames, frames' = SetTop(h), Continues(h, Top),
         UNCHANGED <<session, current_sequence_num, calls, ret, server>>,
         net' = net \/ (\E a \in AnyRequests : a.pkt = Top.pkt /\ net' = net \cup {a}), late' = late
  PROVE  Moved
<1>1. PICK n \in Nat : n = Len(frames)
  BY Stacked DEF Sound
<1>2. /\ n > 0 /\ Top = frames[n] /\ frames' \in Seq(AnyFrames) /\ Len(frames') = n /\ frames'[n] = h
      /\ \A k \in 1 .. n : k # n => frames'[k] = frames[k]
  BY <1>1, Stacked DEF Sound
<1>3. UNCHANGED <<live, last, issued, exec, overtaken>>
  BY DEF server
<1>4. net' \subseteq AnyRequests \cup AnyReplies
  BY DEF Sound
<1>5. Sound'
  BY <1>2, <1>3, <1>4 DEF Sound
<1>6. \A f : Continues(f, f)
  BY DEF Continues
<1>7. Advance
  <2>1. ASSUME NEW k \in 1 .. n PROVE Continues(frames'[k], frames[k])
    BY <1>2, <1>6
  <2>2. QED
    BY <1>1, <1>2, <2>1 DEF Advance
<1>8. Traffic
  <2>1. frames' # <<>>
    BY <1>2
  <2>2. \A a \in AnyRequests : a.type = "req"
    BY AnyRecords
  <2>3. n \in 1 .. Len(frames)
    BY <1>1, <1>2
  <2>4. QED
    BY <1>2, <2>1, <2>2, <2>3 DEF Traffic
<1>9. Reported
  BY <1>2 DEF Reported
<1>10. QED
  BY <1>5, <1>7, <1>8, <1>9 DEF Moved

LEMMA AttemptMoves ==
  ASSUME Sound, Send \/ SendFails \/ Timeout
  PROVE  Moved
<1>1. frames # <<>> /\ Top \in AnyFrames /\ Top.pkt \in Packets /\ Top.retry \in Nat /\ Top.pkt.seq \in SeqNums
  BY Stacked, AnyRecords DEF Sound, Send, SendFails, Timeout, Running, network
<1>2. PICK t \in AnyFrames : t = Top
  BY <1>1
<1>3. CASE Send
  <2>1. PICK h : h = [t EXCEPT !.pc = "wait", !.expect = t.pkt.seq]
    OBVIOUS
  <2>2. h \in AnyFrames /\ h.pc = "wait" /\ h.expect = t.pkt.seq /\ h.pkt = t.pkt /\ h.sock = t.sock
    BY <1>1, <1>2, <2>1 DEF AnyFrames
  <2>3. PICK a : a = [type |-> "req", sock |-> Top.sock, pkt |-> Top.pkt]
    OBVIOUS
  <2>4. a \in AnyRequests /\ a.pkt = Top.pkt
    BY <1>1, <2>3, AnyRecords DEF AnyRequests
  <2>5. /\ frames' = SetTop(h) /\ net' = net \cup {a} /\ t.pc = "send" /\ t.retry < MaxRetries
        /\ UNCHANGED <<session, current_sequence_num, calls, ret, late, server>>
    BY <1>2, <1>3, <2>1, <2>3 DEF Send
  <2>6. Continues(h, Top)
    BY <1>2, <2>2 DEF Continues
  <2>7. QED
    BY <1>1, <2>2, <2>4, <2>5, <2>6, TopMoves
<1>4. CASE SendFails \/ Timeout
  <2>1. PICK r \in Nat : r = t.retry + 1
    BY <1>1, <1>2
  <2>2. r # 0
    BY <1>1, <1>2, <2>1
  <2>3. PICK h : h = [t EXCEPT !.pc = "send", !.retry = r]
    OBVIOUS
  <2>4. h \in AnyFrames /\ h.retry = r /\ h.expect = t.expect /\ h.pkt = t.pkt /\ h.sock = t.sock
    BY <1>1, <1>2, <2>3 DEF AnyFrames
  <2>5. frames' = SetTop(h) /\ UNCHANGED <<session, current_sequence_num, calls, ret, net, late, server>>
    <3>1. CASE SendFails
      <4>1. [t EXCEPT !.retry = r] = h
        BY <1>2, <2>3, <3>1 DEF SendFails, AnyFrames, network
      <4>2. QED
        BY <1>2, <2>1, <3>1, <4>1 DEF SendFails, network
    <3>2. CASE Timeout
      BY <1>2, <2>1, <2>3, <3>2 DEF Timeout, network
    <3>3. QED
      BY <1>4, <3>1, <3>2
  <2>6. Continues(h, Top)
    BY <1>2, <2>4 DEF Continues
  <2>7. QED
    BY <1>1, <1>2, <2>2, <2>4, <2>5, <2>6, TopMoves
<1>5. QED
  BY <1>3, <1>4

\* A reply has replaced the packet.
LEMMA Overwritten ==
  ASSUME NEW p \in Packets, NEW m \in AnyReplies, NEW b \in {p.body, Junk}, p.body \in 0 .. MaxCalls, Junk \in 0 .. MaxCalls
  PROVE  /\ [Overwrite(p, m) EXCEPT !.body = b] \in Packets
         /\ [Overwrite(p, m) EXCEPT !.body = b].seq = m.seq
         /\ [Overwrite(p, m) EXCEPT !.body = b].body = b
         /\ Overwrite(p, m) \in Packets /\ Overwrite(p, m).seq = m.seq /\ Overwrite(p, m).body = Junk
<1>1. m.sess \in 0 .. MaxSessions /\ m.seq \in SeqNums /\ m.cmd \in Cmds
  BY AnyRecords
<1>2. PICK q : q = Overwrite(p, m)
  OBVIOUS
<1>3. q = [p EXCEPT !.sess = m.sess, !.seq = m.seq, !.cmd = m.cmd, !.body = Junk]
  BY <1>2 DEF Overwrite
<1>4. q \in Packets /\ q.seq = m.seq /\ q.body = Junk
  BY <1>1, <1>3 DEF Packets
<1>5. [q EXCEPT !.body = b] \in Packets /\ [q EXCEPT !.body = b].seq = m.seq /\ [q EXCEPT !.body = b].body = b
  <2>1. b \in 0 .. MaxCalls
    OBVIOUS
  <2>2. QED
    BY <1>4, <2>1 DEF Packets
<1>6. QED
  BY <1>2, <1>4, <1>5

LEMMA HeardMoves ==
  ASSUME Sound, NEW m \in net, OutOfOrder(m) \/ TryAgain(m)
  PROVE  Moved
<1>1. /\ frames # <<>> /\ Top.pc = "wait" /\ m.type = "rep"
      /\ frames' = SetTop([Top EXCEPT !.pkt = Overwrite(@, m)])
      /\ UNCHANGED <<session, current_sequence_num, calls, ret, net, late, server>>
  BY DEF OutOfOrder, TryAgain, Arrives, Running, network
<1>2. Top \in AnyFrames /\ Top.pkt \in Packets /\ Top.pkt.body \in 0 .. MaxCalls /\ Junk \in 0 .. MaxCalls
  BY <1>1, Stacked, AnyRecords, Parameters DEF Sound, Junk
<1>3. m \in AnyReplies
  BY <1>1, AnyRecords DEF Sound
<1>4. PICK t \in AnyFrames : t = Top
  BY <1>2
<1>5. PICK p : p = Overwrite(t.pkt, m)
  OBVIOUS
<1>6. p \in Packets /\ p.seq = m.seq /\ p.body = Junk
  BY <1>2, <1>3, <1>4, <1>5, Overwritten
<1>7. PICK h : h = [t EXCEPT !.pkt = p]
  OBVIOUS
<1>8. h \in AnyFrames /\ h.pc = "wait" /\ h.expect = t.expect /\ h.pkt = p /\ h.sock = t.sock
  BY <1>1, <1>4, <1>6, <1>7 DEF AnyFrames
<1>9. frames' = SetTop(h)
  BY <1>1, <1>4, <1>5, <1>7
<1>10. Continues(h, Top)
  BY <1>1, <1>4, <1>6, <1>8 DEF Continues
<1>11. QED
  BY <1>1, <1>4, <1>8, <1>9, <1>10, TopMoves

LEMMA ExpiredMoves ==
  ASSUME Sound, NEW m \in net, SessionExpired(m)
  PROVE  Moved
<1>1. frames # <<>> /\ m.type = "rep" /\ m.seq = Top.expect /\ session' = NoSession /\ UNCHANGED <<calls, ret, net, late, server>>
  BY DEF SessionExpired, Arrives, Running, network
<1>2. Top \in AnyFrames /\ Top.pkt \in Packets /\ Top.pkt.body \in 0 .. MaxCalls /\ Junk \in 0 .. MaxCalls
  BY <1>1, Stacked, AnyRecords, Parameters DEF Sound, Junk
<1>3. m \in AnyReplies
  BY <1>1, AnyRecords DEF Sound
<1>4. PICK t \in AnyFrames : t = Top
  BY <1>2
<1>5. PICK p : p = [Overwrite(t.pkt, m) EXCEPT !.body = t.pkt.body]
  OBVIOUS
<1>6. p \in Packets /\ p.seq = m.seq /\ p.body = t.pkt.body
  BY <1>2, <1>3, <1>4, <1>5, Overwritten
<1>7. PICK h : h = [t EXCEPT !.pkt = p]
  OBVIOUS
<1>8. h \in AnyFrames /\ h.expect = t.expect /\ h.pkt = p /\ h.sock = t.sock
  BY <1>4, <1>6, <1>7 DEF AnyFrames
<1>9. Enter(SetTop(h), "MOUNT", "return")
  BY <1>4, <1>5, <1>7 DEF SessionExpired, network
<1>10. PICK n \in Nat : n = Len(frames)
  BY <1>1, Stacked DEF Sound
<1>11. /\ n > 0 /\ t = frames[n] /\ SetTop(h) \in Seq(AnyFrames) /\ Len(SetTop(h)) = n /\ SetTop(h)[n] = h
       /\ \A k \in 1 .. n : k # n => SetTop(h)[k] = frames[k]
  BY <1>1, <1>4, <1>8, <1>10, Stacked DEF Sound
<1>12. session' \in 0 .. MaxSessions /\ calls' \in 0 .. MaxCalls /\ "MOUNT" \in Cmds
  BY <1>1, Parameters DEF Sound, NoSession, Cmds
<1>13. /\ frames' \in Seq(AnyFrames) /\ Len(frames') = n + 1 /\ \A k \in 1 .. n : frames'[k] = SetTop(h)[k]
       /\ Opening(frames'[n + 1]) /\ current_sequence_num' = (current_sequence_num + 1) % SeqMod
       /\ current_sequence_num' \in SeqNums
  BY <1>9, <1>11, <1>12, Opened DEF Opening
<1>14. frames'[n] = h /\ \A k \in 1 .. n : k # n => frames'[k] = frames[k]
  BY <1>11, <1>13
<1>15. Sound'
  BY <1>1, <1>12, <1>13 DEF Sound, server
<1>16. \A k \in 1 .. n + 1 : k \in 1 .. n \/ k = n + 1
  BY <1>10
<1>17. Advance
  <2>1. Continues(h, t) /\ \A f : Continues(f, f)
    BY <1>1, <1>6, <1>8 DEF Continues
  <2>2. ASSUME NEW k \in 1 .. n PROVE Continues(frames'[k], frames[k])
    BY <1>11, <1>14, <2>1
  <2>3. QED
    BY <1>10, <1>13, <1>16, <2>2 DEF Advance
<1>18. Traffic
  <2>1. frames' # <<>>
    BY <1>13
  <2>2. QED
    BY <1>1, <2>1 DEF Traffic
<1>19. Reported
  BY <1>13 DEF Reported
<1>20. QED
  BY <1>1, <1>13, <1>15, <1>17, <1>18, <1>19 DEF Moved

LEMMA OutcomeMoves ==
  ASSUME Sound, GiveUp \/ Breakout \/ \E m \in net : Reply(m)
  PROVE  Moved
<1>0. Junk \in 0 .. MaxCalls /\ Mine(Junk)
  BY Parameters DEF Junk, Mine
<1>r. "NO_RESPONSE" \in Results /\ "OK" \in Results /\ "ERROR" \in Results /\ "INVALID_HANDLE" \in Results
  BY DEF Results
<1>1. CASE GiveUp
  <2>1. PICK m : m = [res |-> "NO_RESPONSE", of |-> Junk]
    OBVIOUS
  <2>2. frames # <<>> /\ Return(m) /\ m.res = "NO_RESPONSE" /\ m.of = Junk /\ UNCHANGED <<shutting_down, server>>
    BY <1>1, <2>1 DEF GiveUp, Running
  <2>3. QED
    BY <1>0, <1>r, <2>2, ReturnMoves
<1>2. CASE Breakout
  <2>1. PICK res \in {"OK", "ERROR"} : Return([res |-> res, of |-> Junk, sess |-> Top.pkt.sess])
    BY <1>2 DEF Breakout
  <2>2. PICK m : m = [res |-> res, of |-> Junk, sess |-> Top.pkt.sess]
    OBVIOUS
  <2>3. frames # <<>> /\ UNCHANGED <<shutting_down, server>>
    BY <1>2 DEF Breakout, Running
  <2>4. Top.pkt.sess \in 0 .. MaxSessions
    BY <2>3, Stacked, AnyRecords DEF Sound
  <2>5. Return(m) /\ m.res \in Results /\ m.of = Junk /\ m.sess \in 0 .. MaxSessions
    BY <1>r, <2>1, <2>2, <2>4
  <2>6. QED
    BY <1>0, <2>3, <2>5, ReturnMoves
<1>3. CASE \E m \in net : Reply(m)
  <2>1. PICK m \in net : Reply(m)
    BY <1>3
  <2>2. /\ frames # <<>> /\ m.type = "rep" /\ m.seq = Top.expect /\ m.res # "TRY_AGAIN" /\ Return(m)
        /\ UNCHANGED <<shutting_down, server>>
    BY <2>1 DEF Reply, Arrives, Running
  <2>3. m \in AnyReplies
    BY <2>2, AnyRecords DEF Sound
  <2>4. m.res \in Results /\ m.of \in 0 .. MaxCalls /\ m.sess \in 0 .. MaxSessions
    BY <1>r, <2>2, <2>3, AnyRecords
  <2>5. (Attributed /\ Top.expect = Given(Top)) => Mine(m.of)
    <3>1. Top = frames[Len(frames)] /\ Len(frames) \in 1 .. Len(frames)
      BY <2>2, Stacked DEF Sound
    <3>2. QED
      BY <2>2, <3>1 DEF Attributed
  <2>6. QED
    BY <2>2, <2>4, <2>5, ReturnMoves
<1>4. QED
  BY <1>1, <1>2, <1>3

LEMMA ClientMoves ==
  ASSUME Sound, ClientStep
  PROVE  Moved
BY AttemptMoves, HeardMoves, ExpiredMoves, OutcomeMoves DEF ClientStep

\* A call begins.
Started == (\E cmd \in {"PATH", "FD"} : Command(cmd)) \/ tnfs_mount \/ tnfs_umount

LEMMA CallOpens ==
  ASSUME Sound, Started
  PROVE  /\ Sound' /\ frames = <<>> /\ UNCHANGED <<net, late, server>>
         /\ Len(frames') = 1 /\ Opening(frames'[1]) /\ current_sequence_num' = (current_sequence_num + 1) % SeqMod
<1>1. PICK cmd \in Cmds, c \in Cmds, then \in {"return", "mount"} :
        /\ StartCall(cmd) /\ Enter(<<>>, c, then) /\ UNCHANGED <<session, net, late, server>>
  <2>1. "PATH" \in Cmds /\ "FD" \in Cmds /\ "MOUNT" \in Cmds /\ "UNMOUNT" \in Cmds
    BY DEF Cmds
  <2>2. CASE \E cmd \in {"PATH", "FD"} : Command(cmd)
    BY <2>1, <2>2 DEF Command, network
  <2>3. CASE tnfs_umount
    BY <2>1, <2>3 DEF tnfs_umount, network
  <2>4. CASE tnfs_mount
    BY <2>1, <2>4 DEF tnfs_mount, network
  <2>5. QED
    BY <2>2, <2>3, <2>4 DEF Started
<1>2. frames = <<>> /\ calls < MaxCalls /\ calls' = calls + 1 /\ ret' = [ret EXCEPT ![calls'].cmd = cmd]
  BY <1>1 DEF StartCall
<1>3. PICK n : n = calls'
  OBVIOUS
<1>4. n \in Calls /\ n \in 0 .. MaxCalls /\ session' \in 0 .. MaxSessions /\ <<>> \in Seq(AnyFrames) /\ Len(<<>>) = 0
  BY <1>1, <1>2, <1>3, Parameters DEF Sound, Calls
<1>5. /\ frames' \in Seq(AnyFrames) /\ Len(frames') = 1 /\ Opening(frames'[1])
      /\ current_sequence_num' = (current_sequence_num + 1) % SeqMod /\ current_sequence_num' \in SeqNums
  <2>1. PICK b \in Seq(AnyFrames) : b = <<>>
    BY <1>4
  <2>2. Len(b) = 0 /\ Enter(b, c, then) /\ calls' \in 0 .. MaxCalls
    BY <1>1, <1>3, <1>4, <2>1
  <2>3. PICK z : z = Len(b) + 1
    OBVIOUS
  <2>4. z = 1
    BY <2>2, <2>3
  <2>5. /\ frames' \in Seq(AnyFrames) /\ Len(frames') = z
        /\ frames'[z].expect = current_sequence_num /\ frames'[z].pkt.seq = current_sequence_num
        /\ frames'[z].pkt.body = calls' /\ Given(frames'[z]) = current_sequence_num
        /\ current_sequence_num' = (current_sequence_num + 1) % SeqMod /\ current_sequence_num' \in SeqNums
    BY <1>4, <2>2, <2>3, Opened
  <2>6. QED
    BY <2>4, <2>5 DEF Opening
<1>6. ret' \in [Calls -> Returns]
  <2>1. ret \in [Calls -> Returns]
    BY DEF Sound
  <2>2. PICK a \in Returns : a = ret[n]
    BY <1>4, <2>1
  <2>3. [a EXCEPT !.cmd = cmd] \in Returns
    BY DEF Returns
  <2>4. ret' = [ret EXCEPT ![n] = [a EXCEPT !.cmd = cmd]]
    BY <1>2, <1>3, <2>1, <2>2
  <2>5. QED
    BY <1>4, <2>1, <2>2, <2>3, <2>4
<1>7. Sound'
  BY <1>1, <1>3, <1>4, <1>5, <1>6 DEF Sound, server
<1>8. QED
  BY <1>1, <1>2, <1>5, <1>7

\* The server answers the request m.
Served(m) ==
  \/ ServerMounts(m) \/ ServerUnmounts(m) \/ ServerExecutes(m)
  \/ ServerRepeats(m) \/ ServerRejects(m) \/ ServerBusy(m)

\* Its answer has the request's number, and is about the request's payload, about none, or
\* about what the session remembers under that number.
Replied(m, a) ==
  /\ net' \in {net, net \cup {a}} /\ a \in AnyReplies /\ a.seq = m.pkt.seq
  /\ \/ a.of \in {Junk, m.pkt.body}
     \/ m.pkt.sess \in live /\ last[m.pkt.sess].seq = m.pkt.seq /\ a.of = last[m.pkt.sess].of
Noted(m) ==
  \A s \in Sessions : last'[s] = last[s] \/ (s \in live /\ last'[s].seq = m.pkt.seq /\ last'[s].of = m.pkt.body)

LEMMA AnswerMade ==
  ASSUME Sound, NEW m \in AnyRequests, NEW s \in 0 .. MaxSessions, NEW res \in {"OK", "INVALID_HANDLE", "TRY_AGAIN"},
         NEW n \in 0 .. MaxCalls, NEW r, r.sess = s, r.res = res, r.of = n
  PROVE  Answer(m, r) \in AnyReplies /\ Answer(m, r).seq = m.pkt.seq /\ Answer(m, r).of = n
<1>1. m.sock \in Nat \X SeqNums /\ m.pkt.seq \in SeqNums /\ m.pkt.cmd \in Cmds
  BY AnyRecords
<1>2. QED
  BY <1>1 DEF Answer, AnyReplies

LEMMA ServerMoves ==
  ASSUME Sound, NEW m \in net \cup late, Served(m)
  PROVE  /\ Sound' /\ UNCHANGED <<client, late>> /\ m.type = "req" /\ (\E a : Replied(m, a)) /\ Noted(m)
         /\ live' \subseteq live \cup {issued + 1}
         /\ (Unused => Unused' /\ \A s \in live' : s \in live \/ last'[s] = NoReply)
<1>1. m.type = "req" /\ UNCHANGED <<client, late>>
  BY DEF Served, Respond, ServerMounts, ServerUnmounts, ServerExecutes, ServerRepeats, ServerRejects, ServerBusy, AtServer, IsReq
<1>2. m \in AnyRequests
  BY <1>1, AnyRecords DEF Sound
<1>3. /\ m.pkt.sess \in 0 .. MaxSessions /\ m.pkt.seq \in SeqNums /\ m.pkt.body \in 0 .. MaxCalls /\ Junk \in 0 .. MaxCalls
      /\ -1 \notin SeqNums
  BY <1>2, AnyRecords, Parameters DEF Junk, SeqNums
<1>4. /\ UNCHANGED <<session, current_sequence_num, frames, calls, ret>> /\ net \subseteq AnyRequests \cup AnyReplies /\ late \subseteq AnyRequests
      /\ issued \in 0 .. MaxSessions /\ live \subseteq 1 .. issued /\ last \in [Sessions -> Remembered \cup {NoReply}]
      /\ issued \in Nat /\ 1 .. issued \subseteq Sessions
  BY <1>1, Parameters DEF client, Sound, Sessions
<1>5. ASSUME NEW a, Replied(m, a), issued' \in 0 .. MaxSessions, live' \subseteq 1 .. issued',
             last' \in [Sessions -> Remembered \cup {NoReply}]
      PROVE  Sound'
  <2>1. net' \subseteq AnyRequests \cup AnyReplies /\ late' \subseteq AnyRequests
    BY <1>1, <1>4, <1>5 DEF Replied
  <2>2. QED
    BY <1>4, <1>5, <2>1 DEF Sound
<1>6. CASE ServerMounts(m)
  <2>1. PICK n : n = issued + 1
    OBVIOUS
  <2>2. n \in 0 .. MaxSessions /\ n \in Sessions /\ n > issued /\ n \in Nat
    BY <1>4, <1>6, <2>1, Parameters DEF ServerMounts, Sessions
  <2>3. issued' = n /\ live' = live \cup {n} /\ last' = last /\ net' \in {net, net \cup {Answer(m, [sess |-> n, res |-> "OK", of |-> Junk])}}
    BY <1>6, <2>1 DEF ServerMounts, Respond
  <2>4. PICK r : r = [sess |-> n, res |-> "OK", of |-> Junk]
    OBVIOUS
  <2>5. r.sess = n /\ r.res = "OK" /\ r.of = Junk
    BY <2>4
  <2>6. Replied(m, Answer(m, r))
    BY <1>2, <1>3, <2>2, <2>3, <2>4, <2>5, AnswerMade DEF Replied
  <2>7. live' \subseteq 1 .. issued'
    BY <1>4, <2>1, <2>2, <2>3
  <2>8. Sound'
    BY <1>4, <1>5, <2>2, <2>3, <2>6, <2>7
  <2>9. Unused => Unused' /\ \A s \in live' : s \in live \/ last'[s] = NoReply
    BY <1>4, <2>1, <2>2, <2>3 DEF Unused
  <2>10. QED
    BY <1>1, <2>1, <2>3, <2>6, <2>8, <2>9 DEF Noted
<1>7. CASE ServerUnmounts(m) \/ ServerRejects(m) \/ ServerBusy(m)
  <2>1. PICK res \in {"OK", "INVALID_HANDLE", "TRY_AGAIN"} :
          net' \in {net, net \cup {Answer(m, Plain(m, res))}} /\ UNCHANGED <<last, issued>> /\ live' \subseteq live
    BY <1>7 DEF ServerUnmounts, ServerRejects, ServerBusy, Respond, server
  <2>2. PICK r : r = Plain(m, res)
    OBVIOUS
  <2>3. r.sess = m.pkt.sess /\ r.res = res /\ r.of = Junk
    BY <2>2 DEF Plain
  <2>4. Replied(m, Answer(m, r))
    BY <1>2, <1>3, <2>1, <2>2, <2>3, AnswerMade DEF Replied
  <2>5. Sound'
    BY <1>4, <1>5, <2>1, <2>4
  <2>6. QED
    BY <1>1, <2>1, <2>4, <2>5 DEF Noted, Unused
<1>8. CASE ServerExecutes(m)
  <2>1. PICK r : r = [sess |-> m.pkt.sess, res |-> "OK", of |-> m.pkt.body, seq |-> m.pkt.seq]
    OBVIOUS
  <2>2. m.pkt.sess \in live /\ m.pkt.sess \in Sessions /\ m.pkt.sess \in 1 .. issued
    BY <1>4, <1>8 DEF ServerExecutes, AtServer
  <2>3. /\ last' = [last EXCEPT ![m.pkt.sess] = r] /\ net' \in {net, net \cup {Answer(m, r)}} /\ UNCHANGED <<live, issued>>
    BY <1>8, <2>1 DEF ServerExecutes, Respond
  <2>4. /\ r \in Remembered /\ r.sess = m.pkt.sess /\ r.res = "OK" /\ r.of = m.pkt.body /\ r.seq = m.pkt.seq
    BY <1>3, <2>1, <2>2 DEF Remembered
  <2>5. Replied(m, Answer(m, r))
    BY <1>2, <1>3, <2>3, <2>4, AnswerMade DEF Replied
  <2>6. last' \in [Sessions -> Remembered \cup {NoReply}]
    BY <1>4, <2>3, <2>4
  <2>7. Sound'
    BY <1>4, <1>5, <2>3, <2>5, <2>6
  <2>8. Noted(m)
    BY <1>4, <2>2, <2>3, <2>4 DEF Noted
  <2>9. Unused => Unused'
    <3>1. \A s \in Sessions : s > issued => s # m.pkt.sess
      BY <1>4, <2>2
    <3>2. QED
      BY <1>4, <2>3, <3>1 DEF Unused
  <2>10. QED
    BY <1>1, <2>3, <2>5, <2>7, <2>8, <2>9
<1>9. CASE ServerRepeats(m)
  <2>1. PICK r : r = last[m.pkt.sess]
    OBVIOUS
  <2>2. /\ m.pkt.sess \in live /\ m.pkt.sess \in Sessions /\ r.seq = m.pkt.seq /\ net' \in {net, net \cup {Answer(m, r)}}
        /\ UNCHANGED <<live, last, issued>>
    BY <1>4, <1>9, <2>1 DEF ServerRepeats, AtServer, Respond, server
  <2>3. r \in Remembered
    BY <1>3, <1>4, <2>1, <2>2 DEF NoReply
  <2>4. r.sess \in 0 .. MaxSessions /\ r.res = "OK" /\ r.of \in 0 .. MaxCalls
    BY <2>3, AnyRecords, Parameters DEF Sessions
  <2>5. Replied(m, Answer(m, r))
    BY <1>2, <1>3, <2>1, <2>2, <2>4, AnswerMade DEF Replied
  <2>6. Sound'
    BY <1>4, <1>5, <2>2, <2>5
  <2>7. QED
    BY <1>1, <2>2, <2>5, <2>6 DEF Noted, Unused
<1>10. QED
  BY <1>6, <1>7, <1>8, <1>9 DEF Served

\* No step of the client or of the server that matters here.
Aside == UNCHANGED <<client, net, late, last, issued>> /\ live' \subseteq live

LEMMA AnyStep ==
  ASSUME [Next]_vars
  PROVE  Started \/ ClientStep \/ (\E m \in net \cup late : Served(m)) \/ Aside
<1>1. UNCHANGED vars => Aside
  BY DEF vars, server, Aside, network
<1>2. BusShutsDown \/ (\E s \in live : SessionExpires(s)) => Aside
  BY DEF BusShutsDown, SessionExpires, server, Aside, network
<1>3. QED
  BY <1>1, <1>2 DEF Next, Started, Served

LEMMA AsideKeeps ==
  ASSUME Sound, Aside
  PROVE  Sound' /\ UNCHANGED <<session, current_sequence_num, frames, calls, ret, net, late, last, issued>>
<1>1. UNCHANGED <<session, current_sequence_num, frames, calls, ret, net, late, last, issued>> /\ live' \subseteq live
  BY DEF Aside, client
<1>2. QED
  BY <1>1 DEF Sound

LEMMA SoundInit ==
  ASSUME Init
  PROVE  Sound
<1>1. 0 \in SeqNums /\ 0 \in 0 .. MaxSessions /\ 0 \in 0 .. MaxCalls
  BY Parameters DEF SeqNums
<1>2. ret \in [Calls -> Returns]
  BY <1>1 DEF Init, Returns, Results, Junk
<1>3. frames \in Seq(AnyFrames)
  BY DEF Init
<1>4. QED
  BY <1>1, <1>2, <1>3 DEF Init, Sound, NoSession

LEMMA SoundStep ==
  ASSUME Sound, [Next]_vars
  PROVE  Sound'
BY AnyStep, CallOpens, ClientMoves, ServerMoves, AsideKeeps DEF Moved

\* The numbers are numbers.
LEMMA Numbers ==
  ASSUME Sound
  PROVE  /\ current_sequence_num \in Nat
         /\ \A k \in 1 .. Len(frames) : frames[k].expect \in Nat /\ frames[k].pkt.seq \in Nat
         /\ \A m \in net : (m.type = "req" => m.pkt.seq \in Nat) /\ (m.type = "rep" => m.seq \in Nat)
         /\ \A m \in late : m.pkt.seq \in Nat
         /\ \A k \in 1 .. Len(frames) : Given(frames[k]) \in Nat
         /\ \A s \in Sessions : last[s].seq \in Int
<1>1. SeqNums \subseteq Nat /\ -1 \in Int
  BY Parameters DEF SeqNums
<1>2. current_sequence_num \in Nat
  BY <1>1 DEF Sound
<1>3. \A k \in 1 .. Len(frames) : frames[k].expect \in Nat /\ frames[k].pkt.seq \in Nat
  <2>1. \A k \in 1 .. Len(frames) : frames[k] \in AnyFrames
    BY DEF Sound
  <2>2. QED
    BY <1>1, <2>1, AnyRecords
<1>4. \A m \in net : (m.type = "req" => m.pkt.seq \in Nat) /\ (m.type = "rep" => m.seq \in Nat)
  <2>1. \A m \in net : m \in AnyRequests \/ m \in AnyReplies
    BY DEF Sound
  <2>2. \A m \in AnyRequests : m.type = "req" /\ m.pkt.seq \in Nat
    BY <1>1, AnyRecords
  <2>3. \A m \in AnyReplies : m.type = "rep" /\ m.seq \in Nat
    BY <1>1, AnyRecords
  <2>4. QED
    BY <2>1, <2>2, <2>3
<1>5. \A s \in Sessions : last[s].seq \in Int
  <2>1. \A s \in Sessions : last[s] \in Remembered \/ last[s] = NoReply
    BY DEF Sound
  <2>2. NoReply.seq \in Int
    BY <1>1 DEF NoReply
  <2>3. \A r \in Remembered : r.seq \in Int
    <3>1. \A r \in Remembered : r.seq \in SeqNums
      BY AnyRecords
    <3>2. \A n \in SeqNums : n \in Int
      BY Parameters DEF SeqNums
    <3>3. QED
      BY <3>1, <3>2
  <2>4. QED
    BY <2>1, <2>2, <2>3
<1>6. \A m \in late : m.pkt.seq \in Nat
  BY <1>1, AnyRecords DEF Sound
<1>7. \A k \in 1 .. Len(frames) : Given(frames[k]) \in Nat
  <2>1. \A k \in 1 .. Len(frames) : frames[k].sock \in Nat \X SeqNums
    BY AnyRecords DEF Sound
  <2>2. QED
    BY <1>1, <2>1 DEF Given
<1>8. QED
  BY <1>2, <1>3, <1>4, <1>5, <1>6, <1>7

LEMMA OlderStep ==
  ASSUME Sound, Older, Unwrapped, [Next]_vars
  PROVE  Older'
<1>1. PICK c : c = current_sequence_num
  OBVIOUS
<1>2. PICK d : d = current_sequence_num'
  OBVIOUS
<1>3. c \in Nat /\ (c + 1) % SeqMod = c + 1
  <2>1. c \in Nat
    BY <1>1, Numbers
  <2>2. c + 1 < SeqMod
    BY <1>1 DEF Unwrapped
  <2>3. QED
    BY <2>1, <2>2, Parameters
<1>4. /\ \A k \in 1 .. Len(frames) : frames[k].expect < c /\ frames[k].pkt.seq < c
      /\ \A m \in net : (m.type = "req" => m.pkt.seq < c) /\ (m.type = "rep" => m.seq < c)
      /\ \A m \in late : m.pkt.seq < c
      /\ \A s \in Sessions : last[s].seq < c
  BY <1>1 DEF Older
<1>5. CASE d = c \/ d = c + 1
  <2>1. d \in Nat /\ c <= d /\ \A x \in Int : x < c => x < d
    BY <1>3, <1>5
  <2>2. /\ \A k \in 1 .. Len(frames) : frames[k].expect < d /\ frames[k].pkt.seq < d
        /\ \A m \in net : (m.type = "req" => m.pkt.seq < d) /\ (m.type = "rep" => m.seq < d)
        /\ \A m \in late : m.pkt.seq < d
        /\ \A s \in Sessions : last[s].seq < d
    BY <1>4, <2>1, Numbers
  <2>3. CASE ClientStep
    <3>1. Moved
      BY <2>3, ClientMoves
    <3>2. last' = last /\ Advance /\ Traffic
      BY <3>1 DEF Moved, server
    <3>3. ASSUME NEW k \in 1 .. Len(frames') PROVE frames'[k].expect < d /\ frames'[k].pkt.seq < d
      <4>1. CASE Opening(frames'[k])
        <5>1. d = c + 1 /\ frames'[k].expect = c /\ frames'[k].pkt.seq = c
          BY <1>1, <1>2, <1>3, <4>1 DEF Opening
        <5>2. QED
          BY <1>3, <5>1
      <4>2. CASE \E j \in 1 .. Len(frames) : Continues(frames'[k], frames[j])
        BY <2>2, <4>2 DEF Continues
      <4>3. QED
        BY <3>2, <4>1, <4>2 DEF Advance
    <3>4. ASSUME NEW m \in net' PROVE (m.type = "req" => m.pkt.seq < d) /\ (m.type = "rep" => m.seq < d)
      BY <2>2, <3>2 DEF Traffic
    <3>5. \A m \in late' : m.pkt.seq < d
      BY <2>2, <3>2 DEF Traffic
    <3>6. QED
      BY <1>2, <2>2, <3>2, <3>3, <3>4, <3>5 DEF Older
  <2>4. CASE Started
    <3>1. Len(frames') = 1 /\ Opening(frames'[1]) /\ net' = net /\ late' = late /\ last' = last
      BY <2>4, CallOpens DEF server
    <3>2. d = c + 1 /\ frames'[1].expect = c /\ frames'[1].pkt.seq = c
      BY <1>1, <1>2, <1>3, <3>1 DEF Opening
    <3>3. \A k \in 1 .. Len(frames') : k = 1
      BY <3>1
    <3>4. c < d
      BY <1>3, <3>2
    <3>5. QED
      BY <1>2, <2>2, <3>1, <3>2, <3>3, <3>4 DEF Older
  <2>5. CASE \E m \in net \cup late : Served(m)
    <3>1. PICK m \in net \cup late : Served(m)
      BY <2>5
    <3>2. m.type = "req" /\ UNCHANGED <<frames, late>> /\ Noted(m) /\ \E a : Replied(m, a)
      BY <3>1, ServerMoves DEF client
    <3>3. PICK a : Replied(m, a)
      BY <3>2
    <3>4. a.type = "rep" /\ a.seq = m.pkt.seq /\ net' \subseteq net \cup {a}
      BY <3>3, AnyRecords DEF Replied
    <3>5. m.pkt.seq < d
      BY <2>2, <3>2
    <3>6. \A b \in net' : (b.type = "req" => b.pkt.seq < d) /\ (b.type = "rep" => b.seq < d)
      BY <2>2, <3>4, <3>5
    <3>7. \A s \in Sessions : last'[s].seq < d
      BY <2>2, <3>2, <3>5 DEF Noted
    <3>8. QED
      BY <1>2, <2>2, <3>2, <3>6, <3>7 DEF Older
  <2>6. CASE Aside
    <3>1. UNCHANGED <<frames, net, late, last>>
      BY <2>6, AsideKeeps
    <3>2. QED
      BY <1>2, <2>2, <3>1 DEF Older
  <2>7. QED
    BY <2>3, <2>4, <2>5, <2>6, AnyStep
<1>6. d = c \/ d = c + 1
  <2>1. ClientStep => d \in {c, (c + 1) % SeqMod}
    BY <1>1, <1>2, ClientMoves DEF Moved
  <2>2. Started => d = (c + 1) % SeqMod
    BY <1>1, <1>2, CallOpens
  <2>3. (\E m \in net \cup late : Served(m)) => d = c
    BY <1>1, <1>2, ServerMoves DEF client
  <2>4. Aside => d = c
    BY <1>1, <1>2, AsideKeeps
  <2>5. QED
    BY <1>3, <2>1, <2>2, <2>3, <2>4, AnyStep
<1>7. QED
  BY <1>5, <1>6

\* Until the one-byte sequence number has come round, no open session and no reply or late
\* request under way has the number that is given next, whatever the faults: Unheard.
THEOREM NumbersUnheard == Spec /\ []Unwrapped => []Unheard
<1>1. Init => Sound /\ Older
  <2>1. Init => Older
    BY DEF Init, Older, NoReply
  <2>2. QED
    BY <2>1, SoundInit
<1>2. Sound /\ Older /\ Unwrapped /\ [Next]_vars => Sound' /\ Older'
  BY SoundStep, OlderStep
<1>3. Sound /\ Older => Unheard
  <2> SUFFICES ASSUME Sound, Older PROVE Unheard
    OBVIOUS
  <2>1. \A m \in net : m.type = "rep" => m.seq # current_sequence_num
    BY Numbers DEF Older
  <2>2. \A s \in live : s \in Sessions
    BY Parameters DEF Sound, Sessions
  <2>3. \A m \in late : m.pkt.seq # current_sequence_num
    BY Numbers DEF Older
  <2>4. Unremembered
    BY <2>2, <2>3, Numbers DEF Older, Unremembered, LateNumber
  <2>5. QED
    BY <2>1, <2>3, <2>4 DEF Unheard
<1>4. QED
  BY <1>1, <1>2, <1>3, PTL DEF Spec

LEMMA UndivertedInit ==
  ASSUME Init
  PROVE  Undiverted
<1>1. Len(frames) = 0 /\ net = {}
  BY DEF Init
<1>2. Unused
  BY DEF Init, Unused
<1>3. QED
  BY <1>1, <1>2 DEF Undiverted, Carried, Attributed

LEMMA UndivertedClient ==
  ASSUME Sound, Undiverted, Unheard, ClientStep
  PROVE  Undiverted'
<1>1. Moved
  BY ClientMoves
<1>2. UNCHANGED <<calls, live, last, issued>> /\ Advance /\ Traffic
  BY <1>1 DEF Moved, server
<1>3. Unused'
  BY <1>2 DEF Undiverted, Unused
<1>4. Carried'
  <2>1. ASSUME NEW k \in 1 .. Len(frames') PROVE frames'[k].pkt.body \in {calls, Junk}
    <3>1. CASE Opening(frames'[k])
      BY <1>2, <3>1 DEF Opening
    <3>2. CASE \E j \in 1 .. Len(frames) : Continues(frames'[k], frames[j])
      BY <3>2 DEF Continues, Undiverted, Carried, Mine
    <3>3. QED
      BY <1>2, <3>1, <3>2 DEF Advance
  <2>2. ASSUME NEW m \in net', m.type = "req" PROVE frames' # <<>> /\ m.pkt.body \in {calls, Junk}
    <3>1. frames' # <<>>
      BY <1>2, <2>2 DEF Traffic
    <3>2. m.pkt.body \in {calls, Junk}
      BY <1>2, <2>2 DEF Traffic, Undiverted, Carried, Mine
    <3>3. QED
      BY <3>1, <3>2
  <2>3. QED
    BY <1>2, <2>1, <2>2 DEF Carried, Mine
<1>5. Attributed'
  <2> SUFFICES ASSUME NEW k \in 1 .. Len(frames')
               PROVE  /\ \A m \in net' : (m.type = "rep" /\ m.seq = Given(frames'[k])) => m.of \in {calls, Junk}
                      /\ \A m \in late' : m.pkt.seq = Given(frames'[k]) => m.pkt.body \in {calls, Junk}
                      /\ \A s \in live : last[s].seq = Given(frames'[k]) => last[s].of \in {calls, Junk}
    BY <1>2 DEF Attributed, Mine, Given
  <2>1. \A m \in net' : m.type = "rep" => m \in net
    BY <1>2 DEF Traffic
  <2>2. \A m \in late' : m \in late \/ m.pkt.body \in {calls, Junk}
    BY <1>2 DEF Traffic, Undiverted, Carried, Mine
  <2>3. CASE Opening(frames'[k])
    BY <2>1, <2>2, <2>3 DEF Opening, Unheard, Unremembered
  <2>4. CASE \E j \in 1 .. Len(frames) : Continues(frames'[k], frames[j])
    <3>1. PICK j \in 1 .. Len(frames) : Continues(frames'[k], frames[j])
      BY <2>4
    <3>2. Given(frames'[k]) = Given(frames[j])
      BY <3>1 DEF Continues, Given
    <3>3. QED
      BY <2>1, <2>2, <3>2 DEF Undiverted, Attributed, Mine
  <2>5. QED
    BY <1>2, <2>3, <2>4 DEF Advance
<1>6. QED
  BY <1>3, <1>4, <1>5 DEF Undiverted

LEMMA UndivertedCall ==
  ASSUME Sound, Undiverted, Unheard, Started
  PROVE  Undiverted'
<1>1. frames = <<>> /\ UNCHANGED <<net, late, live, last, issued>> /\ Len(frames') = 1 /\ Opening(frames'[1])
  BY CallOpens DEF server
<1>2. \A k \in 1 .. Len(frames') : k = 1
  BY <1>1
<1>3. Carried'
  <2>1. \A m \in net : m.type # "req"
    BY <1>1 DEF Undiverted, Carried
  <2>2. frames'[1].pkt.body = calls'
    BY <1>1 DEF Opening
  <2>3. QED
    BY <1>1, <1>2, <2>1, <2>2 DEF Carried, Mine
<1>4. Attributed'
  <2>1. PICK c : c = current_sequence_num
    OBVIOUS
  <2>2. \A k \in 1 .. Len(frames') : Given(frames'[k]) = c
    BY <1>1, <1>2, <2>1 DEF Opening
  <2>3. /\ \A m \in net' : m.type = "rep" => m.seq # c
        /\ \A m \in late' : m.pkt.seq # c
        /\ \A s \in live' : last'[s].seq # c
    BY <1>1, <2>1 DEF Unheard, Unremembered
  <2>4. QED
    BY <2>2, <2>3 DEF Attributed, Given
<1>5. Unused'
  BY <1>1 DEF Undiverted, Unused
<1>6. QED
  BY <1>3, <1>4, <1>5 DEF Undiverted

LEMMA UndivertedServer ==
  ASSUME Sound, Undiverted, NEW m \in net \cup late, Served(m)
  PROVE  Undiverted'
<1>1. /\ m.type = "req" /\ UNCHANGED <<frames, calls, ret, late>> /\ Noted(m) /\ (\E a : Replied(m, a))
      /\ Unused' /\ \A s \in live' : s \in live \/ last'[s] = NoReply
  BY ServerMoves DEF client, Undiverted
<1>2. PICK a : Replied(m, a)
  BY <1>1
<1>3. a.type = "rep" /\ a.seq = m.pkt.seq /\ net' \subseteq net \cup {a}
  BY <1>2, AnyRecords DEF Replied
<1>4. Carried'
  BY <1>1, <1>3 DEF Undiverted, Carried, Mine
<1>5. Attributed'
  <2> SUFFICES ASSUME NEW k \in 1 .. Len(frames)
               PROVE  /\ \A b \in net' : (b.type = "rep" /\ b.seq = Given(frames[k])) => b.of \in {calls, Junk}
                      /\ \A b \in late : b.pkt.seq = Given(frames[k]) => b.pkt.body \in {calls, Junk}
                      /\ \A s \in live' : last'[s].seq = Given(frames[k]) => last'[s].of \in {calls, Junk}
    BY <1>1 DEF Attributed, Mine, Given
  <2>1. PICK g : g = Given(frames[k])
    OBVIOUS
  <2>2. /\ \A s \in live : last[s].seq = g => last[s].of \in {calls, Junk}
        /\ \A b \in late : b.pkt.seq = g => b.pkt.body \in {calls, Junk}
        /\ \A b \in net : b.type = "rep" /\ b.seq = g => b.of \in {calls, Junk}
    BY <2>1 DEF Undiverted, Attributed, Mine
  <2>3. m.pkt.seq = g => m.pkt.body \in {calls, Junk}
    BY <1>1, <2>2 DEF Undiverted, Carried, Mine
  <2>4. a.seq = g => a.of \in {calls, Junk}
    BY <1>2, <2>2, <2>3 DEF Replied
  <2>5. \A b \in net' : (b.type = "rep" /\ b.seq = g) => b.of \in {calls, Junk}
    BY <1>3, <2>2, <2>4
  <2>6. ASSUME NEW s \in live', last'[s].seq = g PROVE last'[s].of \in {calls, Junk}
    <3>1. g \in Nat
      BY <2>1, Numbers
    <3>2. NoReply.seq \notin Nat
      BY DEF NoReply
    <3>3. s \in live
      BY <1>1, <2>6, <3>1, <3>2
    <3>4. s \in Sessions
      BY <3>3, Parameters DEF Sound, Sessions
    <3>5. QED
      BY <1>1, <2>2, <2>3, <2>6, <3>3, <3>4 DEF Noted
  <2>7. QED
    BY <2>1, <2>2, <2>5, <2>6
<1>6. QED
  BY <1>1, <1>4, <1>5 DEF Undiverted

LEMMA UndivertedStep ==
  ASSUME Sound, Undiverted, Unheard, [Next]_vars
  PROVE  Undiverted'
<1>1. CASE Aside
  <2>1. UNCHANGED <<frames, calls, ret, net, late, last, issued>> /\ live' \subseteq live
    BY <1>1, AsideKeeps DEF Aside
  <2>2. QED
    BY <2>1 DEF Undiverted, Unused, Carried, Attributed, Mine, Given
<1>2. QED
  BY <1>1, AnyStep, UndivertedClient, UndivertedCall, UndivertedServer

\* The step that ends a call, with the datagrams attributed.
LEMMA ResultNotForeign ==
  ASSUME Sound, Undiverted, [Next]_vars
  PROVE  (Running /\ frames' = <<>> /\ Top.expect = Top.sock[2]) => ret'[calls].of \in {calls, Junk}
<1> SUFFICES ASSUME Running, frames' = <<>>, Top.expect = Top.sock[2]
             PROVE  ret'[calls].of \in {calls, Junk}
  OBVIOUS
<1>1. CASE ClientStep
  <2>1. Moved
    BY <1>1, ClientMoves
  <2>2. Reported
    BY <2>1 DEF Moved, Undiverted
  <2>3. QED
    BY <2>2 DEF Reported, Mine, Given
<1>2. ~ Started
  BY CallOpens DEF Running
<1>3. ~ (\E m \in net \cup late : Served(m))
  BY ServerMoves DEF client, Running
<1>4. ~ Aside
  BY AsideKeeps DEF Running
<1>5. QED
  BY <1>1, <1>2, <1>3, <1>4, AnyStep

\* A transaction that waits for the sequence number it was given never takes the result of
\* an earlier call, for any number of attempts and any faults: although replies outlive the
\* sockets they were sent to, requests arrive late, TRY_AGAIN and foreign datagrams overwrite
\* the packet and a retry or a recovery sends what they left in it: NoForeignReply.  The
\* condition is that nothing remembered or under way still has the number given next.
THEOREM LateRepliesNotForeign == Spec /\ []Unheard => NoForeignReply
<1>1. Init => Sound /\ Undiverted
  BY SoundInit, UndivertedInit
<1>2. (Sound /\ Undiverted /\ Unheard /\ [Next]_vars) => Sound' /\ Undiverted'
  BY SoundStep, UndivertedStep
<1>3. (Sound /\ Undiverted /\ [Next]_vars)
        => [Running /\ frames' = <<>> /\ Top.expect = Top.sock[2] => ret'[calls].of \in {calls, Junk}]_vars
  BY ResultNotForeign
<1>4. QED
  BY <1>1, <1>2, <1>3, PTL DEF Spec, NoForeignReply

\* Both hold without a condition on what is remembered, until the number comes round.
COROLLARY UnwrappedRepliesAreOurs ==
  ASSUME Faults = {}
  PROVE  Spec /\ []Unwrapped => []ReplyIsOurs
<1>1. Unheard => Unremembered
  BY DEF Unheard
<1>2. QED
  BY <1>1, NumbersUnheard, RepliesAreOurs, PTL

\* The same for late replies and requests, with any faults and any number of attempts.
COROLLARY UnwrappedNotForeign == Spec /\ []Unwrapped => NoForeignReply
BY NumbersUnheard, LateRepliesNotForeign, PTL
=============================================================================
