-------------------------- MODULE TnfsTransaction --------------------------
(***************************************************************************)
(* The TNFS client's request/response engine (lib/TNFSlib/tnfslib.cpp):    *)
(* _tnfs_transaction, the session recovery it starts from inside itself,   *)
(* and tnfs_mount / tnfs_umount, which run their own transactions.         *)
(*                                                                         *)
(* A transaction is a frame of the call stack "frames".  Its packet buffer *)
(* is used for the request AND for every datagram received, as in the      *)
(* code: what a reply leaves in it is what a retry sends.  The payload is  *)
(* abstracted to "body": the number of the call it belongs to, or Junk     *)
(* once a reply has overwritten it.                                        *)
(*                                                                         *)
(* The server and the network are external, modelled from the way the code *)
(* uses them: a session can vanish at any moment; a request repeated with  *)
(* the session's last sequence number gets the last reply again.  Datagrams *)
(* are lost (never taken), reordered, and duplicated: one that was         *)
(* delivered stays in "net" and may be delivered again.  Every transaction *)
(* opens its own socket.  When it closes, the replies to it are lost,      *)
(* except under the fault "stale" (the port is reused); its requests are   *)
(* still under way in "late", and may reach the server at any later time.  *)
(* Under the fault "again" the server may answer TNFS_RESULT_TRY_AGAIN.    *)
(***************************************************************************)
EXTENDS Integers, Sequences, FiniteSets

CONSTANTS
  MaxCalls,     \* bound: operations the application starts
  MaxRetries,   \* m_info->max_retries
  MaxSessions,  \* bound: sessions the server hands out
  OldSessions,  \* sessions given by a server older than version 0x0102
  SeqMod,       \* sequence numbers are modulo 2^8 in the code
  Faults        \* subset of {"again", "stale"}

ASSUME TnfsAssumption ==
  /\ MaxCalls \in Nat /\ MaxRetries \in Nat \ {0} /\ MaxSessions \in Nat
  /\ OldSessions \subseteq 1 .. MaxSessions
  /\ SeqMod \in Nat /\ SeqMod > 1
  /\ Faults \subseteq {"again", "stale"}

VARIABLES
  session,               \* m_info->session, 0 is TNFS_INVALID_SESSION
  current_sequence_num,  \* m_info->current_sequence_num
  frames,                \* active transactions, the innermost one last
  calls,                 \* operations started so far; the current one's number
  ret,                   \* what each operation returned to the application
  shutting_down,         \* SYSTEM_BUS.getShuttingDown()
  net,                   \* datagrams in flight
  late,                  \* requests of closed sockets that may still arrive
  live, last, issued,    \* server: open sessions, last reply of each, how many
  exec,                  \* server: was each call executed in each session, once or more often
  overtaken              \* history: sessions that executed a call after a later one

client == <<session, current_sequence_num, frames, calls, ret>>
network == <<net, late>>
server == <<live, last, issued, exec, overtaken>>
vars == <<client, shutting_down, network, server>>

Calls == 1 .. MaxCalls
Sessions == 1 .. MaxSessions
Junk == 0             \* a payload that is no call's
Repeated == 2         \* executed more than once
NoSession == 0        \* TNFS_INVALID_SESSION
NoReply == [seq |-> -1]

Init ==
  /\ session = NoSession
  /\ current_sequence_num = 0
  /\ frames = <<>>
  /\ calls = 0
  /\ ret = [i \in Calls |-> [cmd |-> "NONE", res |-> "PENDING", of |-> Junk]]
  /\ shutting_down = FALSE
  /\ net = {} /\ late = {}
  /\ live = {}
  /\ last = [s \in Sessions |-> NoReply]
  /\ issued = 0
  /\ exec = [i \in Calls |-> [s \in Sessions |-> 0]]
  /\ overtaken = {}

-----------------------------------------------------------------------------
Top == frames[Len(frames)]
SetTop(f) == [frames EXCEPT ![Len(frames)] = f]
Below == SubSeq(frames, 1, Len(frames) - 1)

\* Entry of _tnfs_transaction: the packet gets the session and the next
\* sequence number.  "then" is what the caller does with the outcome.  A socket
\* is known by the depth of its frame and by the sequence number it was opened for.
NewFrame(depth, cmd, then, sess) ==
  [cmd |-> cmd, then |-> then, retry |-> 0, pc |-> "send",
   sock |-> <<depth, current_sequence_num>>, expect |-> current_sequence_num,
   pkt |-> [sess |-> sess, seq |-> current_sequence_num, cmd |-> cmd, body |-> calls']]

\* Push a frame on the stack s, with m_info->session as it is after the step.
Enter(s, cmd, then) ==
  /\ frames' = Append(s, NewFrame(Len(s), cmd, then, session'))
  /\ current_sequence_num' = (current_sequence_num + 1) % SeqMod

\* The application starts a file or path command, a mount or an unmount.
StartCall(cmd) ==
  /\ frames = <<>> /\ calls < MaxCalls
  /\ calls' = calls + 1
  /\ ret' = [ret EXCEPT ![calls'].cmd = cmd]

Command(cmd) ==
  /\ StartCall(cmd)
  /\ UNCHANGED session
  /\ Enter(<<>>, cmd, "return")
  /\ UNCHANGED <<shutting_down, network, server>>

tnfs_umount ==
  /\ StartCall("UNMOUNT")
  /\ UNCHANGED session
  /\ Enter(<<>>, "UNMOUNT", "return")
  /\ UNCHANGED <<shutting_down, network, server>>

\* An open session is unmounted first.
tnfs_mount ==
  /\ StartCall("MOUNT")
  /\ UNCHANGED session
  /\ IF session # NoSession THEN Enter(<<>>, "UNMOUNT", "mount")
                            ELSE Enter(<<>>, "MOUNT", "return")
  /\ UNCHANGED <<shutting_down, network, server>>

-----------------------------------------------------------------------------
\* Leaving a transaction closes its socket: the sockets of the frames that are
\* no longer on the stack.  Nobody reads the replies any more; the requests that
\* were sent are on their way to the server all the same.
StillOpen(m) == \E i \in 1 .. Len(frames') : m.sock = frames'[i].sock

CloseSockets ==
  /\ net' = {m \in net : StillOpen(m) \/ (m.type = "rep" /\ "stale" \in Faults)}
  /\ late' = late \cup {m \in net : m.type = "req" /\ ~ StillOpen(m)}

Finish(res, of) ==
  /\ frames' = <<>>
  /\ ret' = [ret EXCEPT ![calls].res = res, ![calls].of = of]
  /\ UNCHANGED current_sequence_num

\* Mutant: a command on a handle is retried in the new session as well.
MountReturns_RetryAll(res) ==
  IF Below = <<>> THEN Finish(res, Junk)
  ELSE IF res # "OK" THEN Finish("INVALID_HANDLE", Junk)
  ELSE /\ frames' = <<[Below[1] EXCEPT !.pkt.sess = session', !.retry = 0, !.pc = "send"]>>
       /\ UNCHANGED <<ret, current_sequence_num>>

\* tnfs_mount returns res, to the application or to _tnfs_session_recovery,
\* which lets the interrupted command run again in the new session if it
\* depends on no handle of the lost one.
MountReturns(res) ==
  IF Below = <<>> THEN Finish(res, Junk)
  ELSE IF res # "OK" THEN Finish("INVALID_HANDLE", Junk)
  ELSE IF Below[1].pkt.cmd = "FD" THEN Finish("BAD_FILENUM", Junk)
  ELSE /\ frames' = <<[Below[1] EXCEPT !.pkt.sess = session', !.retry = 0, !.pc = "send"]>>
       /\ UNCHANGED <<ret, current_sequence_num>>

\* Mutant: a server that is too old is logged off but mounted all the same.
AfterMount_AcceptOld(m) ==
  IF m.res = "OK"
  THEN session' = m.sess /\ MountReturns("OK")
  ELSE UNCHANGED session /\ MountReturns(m.res)

\* tnfs_mount's use of the reply to MOUNT.
AfterMount(m) ==
  CASE m.res = "OK" /\ m.sess \in OldSessions ->
         session' = m.sess /\ Enter(Below, "UNMOUNT", "refuse") /\ UNCHANGED ret
    [] m.res = "OK" /\ m.sess \notin OldSessions ->
         session' = m.sess /\ MountReturns("OK")
    [] OTHER -> UNCHANGED session /\ MountReturns(m.res)

\* tnfs_umount's use of the reply, and what its caller does next.
AfterUmount(m) ==
  CASE Top.then = "return" ->
         /\ session' = IF m.res = "OK" THEN NoSession ELSE session
         /\ Finish(m.res, Junk)
    [] Top.then = "mount" ->
         session' = NoSession /\ Enter(<<>>, "MOUNT", "return") /\ UNCHANGED ret
    [] Top.then = "refuse" ->
         /\ session' = IF m.res = "OK" THEN NoSession ELSE session
         /\ MountReturns("UNIMPLEMENTED")

\* _tnfs_transaction returns to its caller with outcome m.
Return(m) ==
  /\ UNCHANGED calls
  /\ CASE Top.cmd = "MOUNT"   -> AfterMount(m)
       [] Top.cmd = "UNMOUNT" -> AfterUmount(m)
       [] OTHER               -> UNCHANGED session /\ Finish(m.res, m.of)
  /\ CloseSockets

-----------------------------------------------------------------------------
Running == frames # <<>>

Send ==
  /\ Running /\ Top.pc = "send" /\ Top.retry < MaxRetries
  /\ net' = net \cup {[type |-> "req", sock |-> Top.sock, pkt |-> Top.pkt]}
  /\ frames' = SetTop([Top EXCEPT !.pc = "wait", !.expect = Top.pkt.seq])
  /\ UNCHANGED <<session, current_sequence_num, calls, ret, shutting_down, late, server>>

\* beginPacket or endPacket failed: no wait for a reply, on to the next attempt.
SendFails ==
  /\ Running /\ Top.pc = "send" /\ Top.retry < MaxRetries
  /\ frames' = SetTop([Top EXCEPT !.retry = @ + 1])
  /\ UNCHANGED <<session, current_sequence_num, calls, ret, shutting_down, network, server>>

\* Mutant: the last attempt is not counted.
Timeout_NoCount ==
  /\ Running /\ Top.pc = "wait"
  /\ frames' = SetTop([Top EXCEPT !.pc = "send"])
  /\ UNCHANGED <<session, current_sequence_num, calls, ret, shutting_down, network, server>>

\* timeout_ms passed without an acceptable reply.
Timeout ==
  /\ Running /\ Top.pc = "wait"
  /\ frames' = SetTop([Top EXCEPT !.pc = "send", !.retry = @ + 1])
  /\ UNCHANGED <<session, current_sequence_num, calls, ret, shutting_down, network, server>>

GiveUp ==
  /\ Running /\ Top.pc = "send" /\ Top.retry = MaxRetries
  /\ Return([res |-> "NO_RESPONSE", of |-> Junk])
  /\ UNCHANGED <<shutting_down, server>>

\* "false success just to get out": the caller finds in the packet what its own
\* request left there.  MOUNT's first byte is 0, which reads as success;
\* UNMOUNT's payload is uninitialised; other commands read a request byte.
Breakout ==
  /\ Running /\ Top.pc = "wait" /\ shutting_down
  /\ \E res \in {"OK", "ERROR"} :
       /\ Top.cmd = "MOUNT" /\ Top.pkt.body # Junk => res = "OK"
       /\ Return([res |-> res, of |-> Junk, sess |-> Top.pkt.sess])
  /\ UNCHANGED <<shutting_down, server>>

\* A datagram on the transaction's socket, or on a port used before.  The loop
\* looks at the shutdown flag before every read.
Arrives(m) ==
  /\ Running /\ Top.pc = "wait" /\ ~ shutting_down
  /\ m \in net /\ m.type = "rep"
  /\ m.sock = Top.sock \/ \A i \in 1 .. Len(frames) : m.sock # frames[i].sock

Overwrite(pkt, m) == [pkt EXCEPT !.sess = m.sess, !.seq = m.seq, !.cmd = m.cmd, !.body = Junk]

\* A sequence number that is not the expected one: the packet now holds that
\* reply, and the loop goes on waiting.
OutOfOrder(m) ==
  /\ Arrives(m) /\ m.seq # Top.expect
  /\ frames' = SetTop([Top EXCEPT !.pkt = Overwrite(@, m)])
  /\ UNCHANGED <<session, current_sequence_num, calls, ret, shutting_down, network, server>>

\* TRY_AGAIN: its status and back-off time are in the first three payload
\* bytes; after the back-off the loop goes on waiting for a reply.
TryAgain(m) ==
  /\ Arrives(m) /\ m.seq = Top.expect /\ m.res = "TRY_AGAIN"
  /\ frames' = SetTop([Top EXCEPT !.pkt = Overwrite(@, m)])
  /\ UNCHANGED <<session, current_sequence_num, calls, ret, shutting_down, network, server>>

\* Bound: under "stale" a MOUNT whose packet was overwritten and sent again could
\* itself be told that its session is gone; that recursion is cut off.
DepthBound == "stale" \in Faults => Len(frames) = 1

\* Mutant: the command test is missing, so UNMOUNT starts a recovery too.
SessionExpired_AnyCommand(m) ==
  /\ Arrives(m) /\ m.seq = Top.expect /\ DepthBound
  /\ m.res = "INVALID_HANDLE"
  /\ session' = NoSession
  /\ UNCHANGED <<calls, ret, shutting_down, network, server>>
  /\ Enter(frames, "MOUNT", "return")

\* Mutant: the first payload byte is not restored.
SessionExpired_NoRestore(m) ==
  /\ Arrives(m) /\ m.seq = Top.expect /\ DepthBound
  /\ m.res = "INVALID_HANDLE" /\ m.cmd \notin {"MOUNT", "UNMOUNT"}
  /\ session' = NoSession
  /\ UNCHANGED <<calls, ret, shutting_down, network, server>>
  /\ Enter(SetTop([Top EXCEPT !.pkt = Overwrite(@, m)]), "MOUNT", "return")

\* Mutant: the lost session's id is kept while remounting.
SessionExpired_KeepSession(m) ==
  /\ Arrives(m) /\ m.seq = Top.expect /\ DepthBound
  /\ m.res = "INVALID_HANDLE" /\ m.cmd \notin {"MOUNT", "UNMOUNT"}
  /\ UNCHANGED <<session, calls, ret, shutting_down, network, server>>
  /\ Enter(frames, "MOUNT", "return")

\* The session is gone: _tnfs_session_recovery mounts again, within this call.
\* The reply's header is in the packet, and the one payload byte it overwrote
\* is restored for the retry.
SessionExpired(m) ==
  /\ Arrives(m) /\ m.seq = Top.expect /\ DepthBound
  /\ m.res = "INVALID_HANDLE" /\ m.cmd \notin {"MOUNT", "UNMOUNT"}
  /\ session' = NoSession
  /\ UNCHANGED <<calls, ret, shutting_down, network, server>>
  /\ LET pkt == [Overwrite(Top.pkt, m) EXCEPT !.body = Top.pkt.body]
     IN  Enter(SetTop([Top EXCEPT !.pkt = pkt]), "MOUNT", "return")

\* Mutant: the sequence number is not compared.
Reply_AnySequence(m) ==
  /\ Arrives(m) /\ m.res # "TRY_AGAIN"
  /\ m.res = "INVALID_HANDLE" => m.cmd \in {"MOUNT", "UNMOUNT"}
  /\ Return(m)
  /\ UNCHANGED <<shutting_down, server>>

\* Any other reply to the expected sequence number ends the transaction.
Reply(m) ==
  /\ Arrives(m) /\ m.seq = Top.expect /\ m.res # "TRY_AGAIN"
  /\ m.res = "INVALID_HANDLE" => m.cmd \in {"MOUNT", "UNMOUNT"}
  /\ Return(m)
  /\ UNCHANGED <<shutting_down, server>>

ClientStep ==
  \/ Send
  \/ SendFails
  \/ Timeout
  \/ GiveUp
  \/ Breakout
  \/ \E m \in net : OutOfOrder(m)
  \/ \E m \in net : TryAgain(m)
  \/ \E m \in net : SessionExpired(m)
  \/ \E m \in net : Reply(m)

-----------------------------------------------------------------------------
(***************************************************************************)
(* The server and the bus (external).                                      *)
(***************************************************************************)
Answer(m, r) ==
  [type |-> "rep", sock |-> m.sock, sess |-> r.sess, seq |-> m.pkt.seq,
   cmd |-> m.pkt.cmd, res |-> r.res, of |-> r.of]

\* The answer to a closed socket is lost, or finds its port in use again.
Respond(m, r) ==
  /\ net' = IF m \in net \/ "stale" \in Faults THEN net \cup {Answer(m, r)} ELSE net
  /\ UNCHANGED late

Plain(m, res) == [sess |-> m.pkt.sess, res |-> res, of |-> Junk]
IsReq(m) == m \in net \cup late /\ m.type = "req"
AtServer(m) == IsReq(m) /\ m.pkt.cmd # "MOUNT" /\ m.pkt.sess \in live

ServerMounts(m) ==
  /\ IsReq(m) /\ m.pkt.cmd = "MOUNT" /\ issued < MaxSessions
  /\ issued' = issued + 1
  /\ live' = live \cup {issued'}
  /\ Respond(m, [sess |-> issued', res |-> "OK", of |-> Junk])
  /\ UNCHANGED <<client, shutting_down, last, exec, overtaken>>

ServerUnmounts(m) ==
  /\ AtServer(m) /\ m.pkt.cmd = "UNMOUNT"
  /\ live' = live \ {m.pkt.sess}
  /\ Respond(m, Plain(m, "OK"))
  /\ UNCHANGED <<client, shutting_down, last, issued, exec, overtaken>>

\* The session has executed a command of a later call than request m.
Overtaken(m) == last[m.pkt.sess] # NoReply /\ last[m.pkt.sess].of > m.pkt.body

\* A new request of the session: it is executed and its reply remembered.  The
\* server remembers one reply only, so a late request is new to it as well once a
\* later command was executed.
ServerExecutes(m) ==
  /\ AtServer(m) /\ m.pkt.cmd # "UNMOUNT" /\ last[m.pkt.sess].seq # m.pkt.seq
  /\ LET r == [sess |-> m.pkt.sess, res |-> "OK", of |-> m.pkt.body, seq |-> m.pkt.seq]
     IN  /\ last' = [last EXCEPT ![m.pkt.sess] = r]
         /\ Respond(m, r)
  /\ exec' = IF m.pkt.body = Junk THEN exec
             ELSE [exec EXCEPT ![m.pkt.body][m.pkt.sess] = IF @ = 0 THEN 1 ELSE Repeated]
  /\ overtaken' = IF Overtaken(m) THEN overtaken \cup {m.pkt.sess} ELSE overtaken
  /\ UNCHANGED <<client, shutting_down, live, issued>>

\* A request with the sequence number of the last one: its reply was lost.
ServerRepeats(m) ==
  /\ AtServer(m) /\ m.pkt.cmd # "UNMOUNT" /\ last[m.pkt.sess].seq = m.pkt.seq
  /\ Respond(m, last[m.pkt.sess])
  /\ UNCHANGED <<client, shutting_down, server>>

ServerRejects(m) ==
  /\ IsReq(m) /\ m.pkt.cmd # "MOUNT" /\ m.pkt.sess \notin live
  /\ Respond(m, Plain(m, "INVALID_HANDLE"))
  /\ UNCHANGED <<client, shutting_down, server>>

ServerBusy(m) ==
  /\ "again" \in Faults
  /\ AtServer(m) /\ m.pkt.cmd # "UNMOUNT" /\ last[m.pkt.sess].seq # m.pkt.seq
  /\ Respond(m, Plain(m, "TRY_AGAIN"))
  /\ UNCHANGED <<client, shutting_down, server>>

\* The server drops a session: it timed out, or the server restarted.
SessionExpires(s) ==
  /\ s \in live
  /\ live' = live \ {s}
  /\ UNCHANGED <<client, shutting_down, network, last, issued, exec, overtaken>>

BusShutsDown ==
  /\ ~ shutting_down
  /\ shutting_down' = TRUE
  /\ UNCHANGED <<client, network, server>>

Next ==
  \/ \E cmd \in {"PATH", "FD"} : Command(cmd)
  \/ tnfs_mount
  \/ tnfs_umount
  \/ ClientStep
  \/ \E m \in net \cup late : ServerMounts(m)
  \/ \E m \in net \cup late : ServerUnmounts(m)
  \/ \E m \in net \cup late : ServerExecutes(m)
  \/ \E m \in net \cup late : ServerRepeats(m)
  \/ \E m \in net \cup late : ServerRejects(m)
  \/ \E m \in net \cup late : ServerBusy(m)
  \/ \E s \in live : SessionExpires(s)
  \/ BusShutsDown

\* The client's loop runs on: an attempt begins, time passes and the attempt ends.
Fairness == WF_vars(Send \/ SendFails \/ Timeout \/ GiveUp)

Spec == Init /\ [][Next]_vars /\ Fairness

-----------------------------------------------------------------------------
Cmds == {"PATH", "FD", "MOUNT", "UNMOUNT"}
Results == {"PENDING", "OK", "ERROR", "INVALID_HANDLE", "BAD_FILENUM",
            "NO_RESPONSE", "UNIMPLEMENTED"}
SeqNums == 0 .. SeqMod - 1
Sockets == {0, 1} \X SeqNums
Packets == [sess : 0 .. MaxSessions, seq : SeqNums, cmd : Cmds, body : 0 .. MaxCalls]
Frames == [cmd : Cmds, then : {"return", "mount", "refuse"}, retry : 0 .. MaxRetries,
           pc : {"send", "wait"}, sock : Sockets, expect : SeqNums, pkt : Packets]

\* Type correctness; recovery nests transactions at most two deep, because
\* neither MOUNT nor UNMOUNT starts a recovery of its own.
TypeOK ==
  /\ session \in 0 .. MaxSessions
  /\ current_sequence_num \in SeqNums
  /\ frames \in Seq(Frames) /\ Len(frames) <= 2
  /\ calls \in 0 .. MaxCalls
  /\ ret \in [Calls -> [cmd : Cmds \cup {"NONE"}, res : Results, of : 0 .. MaxCalls]]
  /\ shutting_down \in BOOLEAN
  /\ live \subseteq 1 .. issued /\ issued \in 0 .. MaxSessions

Completed(i, res) == ret[i].res = res
FileOrPath(i) == ret[i].cmd \in {"PATH", "FD"}

\* A command that reports success got the server's reply to ITS request, not
\* to an earlier call's and not to a mangled copy, across losses, duplicates,
\* retries and a remount in the middle of the call.  (While the bus is shutting
\* down the engine reports a success it never received, on purpose.)
ReplyIsOurs ==
  \A i \in Calls : FileOrPath(i) /\ Completed(i, "OK") /\ ~ shutting_down => ret[i].of = i

\* A late reply to an earlier call becomes the result of a later one only if that
\* transaction waits for a number it was not given.  tnfs-protocol.md has clients
\* discard datagrams whose sequence number does not match, and the engine does not
\* accept one, but it has read it into the packet it sends at the next attempt:
\* that retry has the foreign number, and then the foreign reply is accepted.
NoForeignReply ==
  [][Running /\ frames' = <<>> /\ Top.expect = Top.sock[2]
       => ret'[calls].of \in {calls, Junk}]_vars

\* Retries do not repeat a command: no session executes one twice, and a
\* command that works on a handle (READ, WRITE, LSEEK, CLOSE, READDIR: anything
\* a second execution would change the meaning of) is executed in one session
\* at most, although the engine remounts and retries by itself.  The first part
\* is not claimed of a session that executed the request of a call after one of
\* a later call: a datagram that arrives so late is new to the server, which
\* remembers one sequence number, and after it so is a retry of the later call.
AtMostOnce ==
  \A i \in Calls :
    /\ \A s \in Sessions \ overtaken : exec[i][s] <= 1
    /\ ret[i].cmd = "FD" => \A s, t \in Sessions : exec[i][s] > 0 /\ exec[i][t] > 0 => s = t

\* A mount that reports success leaves a session of a server that is recent
\* enough, whatever happened to the unmount before it and to lost replies.
MountGivesSession ==
  frames = <<>> /\ calls > 0 /\ ~ shutting_down =>
    (ret[calls].cmd = "MOUNT" /\ Completed(calls, "OK")
       => session \in (1 .. issued) \ OldSessions)

\* A session lost in the middle of a call is reported truthfully: a command on
\* a handle that ends with BAD_FILENUM left a fresh session in which it was not
\* executed, and INVALID_HANDLE means that there is no usable session now.
RecoveryOutcome ==
  frames = <<>> /\ calls > 0 /\ ~ shutting_down /\ FileOrPath(calls) =>
    /\ Completed(calls, "BAD_FILENUM") => /\ ret[calls].cmd = "FD"
                                          /\ session \in Sessions \ OldSessions
                                          /\ exec[calls][session] = 0
    /\ Completed(calls, "INVALID_HANDLE") => session \in {NoSession} \cup OldSessions

\* Every call returns: a transaction ends by a reply or by running out of
\* retries, also when recovery resets the retry counter in between (as long as
\* the server hands out finitely many sessions).
CallsReturn == []<>(frames = <<>>)

\* Every datagram sent for a command carries that command's own request: a
\* retry after a timeout, and above all the retry after a recovery, when the
\* INVALID_HANDLE reply has overwritten the packet buffer.  (It is not claimed
\* for TRY_AGAIN replies and foreign datagrams, which overwrite the buffer and
\* are not undone: the faults "again" and "stale".)
RetriesCarryRequest ==
  \A m \in net : m.type = "req" /\ m.pkt.cmd \in {"PATH", "FD"} => m.pkt.body # Junk
=============================================================================
