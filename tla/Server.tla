------------------------------- MODULE Server -------------------------------
(***************************************************************************)
(* One server-side transaction driven by the server's event loop.          *)
(*                                                                         *)
(* The engine (Transaction) is src/library/transaction.c.  The event loop  *)
(* that calls it and the kind-specific hooks of the server (command,       *)
(* inject, extract) are not part of src/ and are modelled from spec.md     *)
(* sections 4.4 and 5: each loop iteration fills the poll set, runs        *)
(* twopence_transaction_doio (sinks, purge, sources, send hook, purge),   *)
(* dispatches every complete incoming frame to                            *)
(* twopence_transaction_recv_packet and reaps the transaction once done.  *)
(*                                                                         *)
(* The loop is single-threaded: the steps of one doio pass are separate    *)
(* actions for readability, but only the next step of the pass is enabled  *)
(* while it runs.  What runs concurrently with the loop is its             *)
(* environment: the client that writes packets to the link, the kernel     *)
(* that transmits the peer socket's queue, and the child process (command) *)
(* that writes to its stdout and stderr pipes and exits.                   *)
(***************************************************************************)
EXTENDS Transaction, FiniteSets

CONSTANTS
    Kind,         \* "inject", "extract" or "command"
    HighWater,    \* transmit queue length at which sources stop being polled
    FileChunks,   \* size of the extracted file, in buffers
    MaxOutput,    \* bound on the buffers the child writes to its pipes
    Scripts       \* packet sequences the client may send on this transaction

ASSUME Kind \in {"inject", "extract", "command"}
ASSUME HighWater \in Nat \ {0} /\ FileChunks \in Nat /\ MaxOutput \in Nat

VARIABLES
    t,          \* the transaction record
    phase,      \* where the event loop is
    cursor,     \* position in the channel list during a doio pass
    script,     \* packets the client has still to write to the link
    inq,        \* packets on the link not yet dispatched
    delivered,  \* data packets dispatched to the transaction (history)
    xmitted,    \* frames of t.out already transmitted by the peer socket
    fd,         \* the local end of each source: [avail, closed]
    child       \* the command's child process (buffers written, exit status)

vars == <<t, phase, cursor, script, inq, delivered, xmitted, fd, child>>

SourceIds == CASE Kind = "command" -> {"1", "2"}
              []  Kind = "extract" -> {"d"}
              []  OTHER            -> {}

DataType == CASE Kind = "command" -> "0" [] OTHER -> "d"

\* twopence_sock_xmit_queue_allowed on client_sock
XmitQueueAllowed == Len(t.out) - xmitted < HighWater

-----------------------------------------------------------------------------
(***************************************************************************)
(* Kind hooks of the server (spec.md 4.4).                                 *)
(***************************************************************************)

\* inject: open the destination; send major 0 and attach the file as sink
\* 'd' with a write_eof callback, or fail with the open error.
InjectStart(tt, openOK) ==
    IF openOK
    THEN LET t1 == AttachLocalSink(SendMajor(tt, 0), "d")
         IN  [t1 EXCEPT !.sinks[1].wcb = TRUE]
    ELSE Fail2(tt, ENOENT, 0)

\* inject write_eof callback: flush the file, then report minor 0.
InjectWriteEOF(tt, i, flushOK) ==
    IF flushOK THEN [SendMinor(ChannelFlush(tt, i, TRUE), 0) EXCEPT !.done = TRUE]
    ELSE Fail(ChannelFlush(tt, i, FALSE), EIO)

\* extract: open the file; send its size and attach it as source 'd' with
\* a read_eof callback, or fail with the open error.
ExtractStart(tt, openOK) ==
    IF openOK
    THEN LET t1 == AttachLocalSource(SendClient(tt, Frame("s", FileChunks)), "d")
         IN  [t1 EXCEPT !.sources[1].rcb = TRUE]
    ELSE Fail(tt, ENOENT)

\* extract read_eof callback: EOF packet, then major 0 and minor 0.
ExtractReadEOF(tt, i) ==
    [SendMinor(SendMajor(SendClient(tt, Frame(EOFPKT, 0)), 0), 0) EXCEPT !.done = TRUE]

\* command: sources for the child's stdout and stderr, sink for its stdin
\* whose write_eof callback closes the child's stdin.
CommandStart(tt) ==
    LET t1 == AttachLocalSink(AttachLocalSource(AttachLocalSource(tt, "1"), "2"), "0")
    IN  [t1 EXCEPT !.sinks[1].wcb = TRUE]

\* command send hook: once the child has exited and both pipes are at EOF,
\* report major 0 and the exit status.
CommandSend(tt) ==
    IF child.exited /\ \A i \in DOMAIN tt.sources : tt.sources[i].readEOF
    THEN SendStatus(tt, 0, child.status)
    ELSE tt

NoReadEOF(tt, i)  == tt
NoWriteEOF(tt, i) == tt
IgnoreRecv(tt, type) == tt

ReadEOFHook(tt, i) == IF Kind = "extract" THEN ExtractReadEOF(tt, i) ELSE NoReadEOF(tt, i)
SendHook(tt)       == IF Kind = "command" THEN CommandSend(tt) ELSE tt
HasRecvHook        == Kind = "command"
WriteEOFHook(tt, i, flushOK) ==
    IF Kind = "inject" THEN InjectWriteEOF(tt, i, flushOK) ELSE NoWriteEOF(tt, i)

(***************************************************************************)
(* twopence_transaction_channel_doio on channel i of list "which"          *)
(* ("sinks" or "sources").  On a socket error the transaction fails with   *)
(* errno and the socket is marked dead.  Otherwise a full receive buffer  *)
(* gets a header stamped with the channel id and is queued to the peer;    *)
(* then a pending read-EOF fires the one-shot read_eof callback, given as *)
(* ReadEOFHook.                                                           *)
(***************************************************************************)
ChannelDoIO(tt, which, i, io, errno) ==
    IF io = "error"
    THEN [Fail(tt, errno) EXCEPT ![which][i].dead = TRUE]
    ELSE LET c  == SockDoIO(tt[which][i], io)
             t1 == [tt EXCEPT ![which][i] = c]
             t2 == IF c.recvbuf = "full"
                   THEN [SendClient(t1, Frame(c.id, 0)) EXCEPT ![which][i].recvbuf = "none"]
                   ELSE t1
         IN  IF IsReadEOF(t2[which][i]) /\ t2[which][i].rcb
             THEN [ReadEOFHook(t2, i) EXCEPT ![which][i].rcb = FALSE]
             ELSE t2

\* mutant: packets for a done transaction are not dropped
RecvPacketLate(tt, type, flushOK) ==
    LET s == FindSink(tt, type)
    IN  IF s # 0 THEN ChannelWriteData(tt, s)
        ELSE IF type = EOFPKT /\ tt.sinks # << >> /\ tt.sinks[1].wcb
             THEN WriteEOFHook([tt EXCEPT !.sinks[1] = [ChannelWriteEOF(@) EXCEPT !.wcb = FALSE]], 1, flushOK)
        ELSE IF ~HasRecvHook THEN Fail(tt, EPROTO)
        ELSE IgnoreRecv(tt, type)

\* mutant: the EOF branch shuts the sink down but never calls write_eof
RecvPacketNoCallback(tt, type, flushOK) ==
    LET s == FindSink(tt, type)
    IN  IF tt.done THEN tt
        ELSE IF s # 0 THEN ChannelWriteData(tt, s)
        ELSE IF type = EOFPKT /\ tt.sinks # << >> /\ tt.sinks[1].wcb
             THEN [tt EXCEPT !.sinks[1] = [ChannelWriteEOF(@) EXCEPT !.wcb = FALSE]]
        ELSE IF ~HasRecvHook THEN Fail(tt, EPROTO)
        ELSE IgnoreRecv(tt, type)

(***************************************************************************)
(* twopence_transaction_recv_packet for a packet of the given type.        *)
(* WriteEOF(tt, i) is the write_eof callback of sink i and IgnoreRecv(tt, type)    *)
(* the kind's recv hook; HasRecv says whether one is installed.           *)
(***************************************************************************)
RecvPacket(tt, type, flushOK) ==
    LET s == FindSink(tt, type)
    IN  IF tt.done THEN tt
        ELSE IF s # 0 THEN ChannelWriteData(tt, s)
        ELSE IF type = EOFPKT /\ tt.sinks # << >> /\ tt.sinks[1].wcb
             THEN WriteEOFHook([tt EXCEPT !.sinks[1] = [ChannelWriteEOF(@) EXCEPT !.wcb = FALSE]], 1, flushOK)
        ELSE IF ~HasRecvHook THEN Fail(tt, EPROTO)
        ELSE IgnoreRecv(tt, type)


-----------------------------------------------------------------------------
(***************************************************************************)
(* What the kernel may report for one channel in twopence_sock_doio.       *)
(***************************************************************************)
\* A regular file is always ready; the child's stdin pipe may be full while
\* the child runs and fails with EPIPE once it has exited.
SinkIO(c) ==
    CASE c.sendq = 0        -> {"none"}
      [] Kind = "inject"    -> {"write", "error"}
      [] child.exited       -> {"error"}
      [] OTHER              -> {"none", "write"}

SinkErrno == IF Kind = "inject" THEN EIO ELSE EPIPE

\* A read with a posted buffer returns data while there is some, then EOF
\* once the writer is gone; an empty pipe with a live writer would block.
\* Reading a regular file may fail with EIO.
SourceIO(c) ==
    IF c.recvbuf # "posted" THEN {"none"}
    ELSE (CASE fd[c.id].avail > 0 -> {"read"}
            [] fd[c.id].closed    -> {"eof"}
            [] OTHER              -> {"none"})
         \cup (IF Kind = "extract" THEN {"error"} ELSE {})

-----------------------------------------------------------------------------
Init ==
    /\ t = TransactionNew
    /\ phase = "start"
    /\ cursor = 1
    /\ script \in Scripts
    /\ inq = << >>
    /\ delivered = 0
    /\ xmitted = 0
    /\ fd = [id \in SourceIds |->
                IF Kind = "extract" THEN [avail |-> FileChunks, closed |-> TRUE]
                ELSE [avail |-> 0, closed |-> FALSE]]
    /\ child = [exited |-> FALSE, signalled |-> FALSE, status |-> 0, wrote |-> 0]

\* The server creates the transaction and runs the kind's start hook; a
\* transaction done already is reaped at the end of this iteration.
Start ==
    /\ phase = "start"
    /\ \E openOK \in BOOLEAN :
          t' = CASE Kind = "inject"  -> InjectStart(t, openOK)
                 [] Kind = "extract" -> ExtractStart(t, openOK)
                 [] OTHER            -> CommandStart(t)
    /\ phase' = "reap"
    /\ UNCHANGED <<cursor, script, inq, delivered, xmitted, fd, child>>

\* twopence_transaction_fill_poll
Poll ==
    /\ phase = "poll"
    /\ t' = FillPoll(t, XmitQueueAllowed)
    /\ phase' = "sinks"
    /\ cursor' = 1
    /\ UNCHANGED <<script, inq, delivered, xmitted, fd, child>>

\* twopence_transaction_doio, first loop: channel doio on each sink
DoIOSink ==
    /\ phase = "sinks"
    /\ cursor <= Len(t.sinks)
    /\ \E io \in SinkIO(t.sinks[cursor]) :
          t' = ChannelDoIO(t, "sinks", cursor, io, SinkErrno)
    /\ cursor' = cursor + 1
    /\ UNCHANGED <<phase, script, inq, delivered, xmitted, fd, child>>

\* ... then twopence_transaction_channel_list_purge of the sinks
PurgeSinks ==
    /\ phase = "sinks"
    /\ cursor > Len(t.sinks)
    /\ t' = [t EXCEPT !.sinks = ChannelListPurge(@)]
    /\ phase' = "sources"
    /\ cursor' = 1
    /\ UNCHANGED <<script, inq, delivered, xmitted, fd, child>>

\* second loop: channel doio on each source; a read consumes local data
DoIOSource ==
    /\ phase = "sources"
    /\ cursor <= Len(t.sources)
    /\ \E io \in SourceIO(t.sources[cursor]) :
          /\ t' = ChannelDoIO(t, "sources", cursor, io, EIO)
          /\ fd' = IF io = "read"
                   THEN [fd EXCEPT ![t.sources[cursor].id].avail = @ - 1]
                   ELSE fd
    /\ cursor' = cursor + 1
    /\ UNCHANGED <<phase, script, inq, delivered, xmitted, child>>

\* trans->send, then the purge of the sources that ends the doio pass
SendAndPurge ==
    /\ phase = "sources"
    /\ cursor > Len(t.sources)
    /\ t' = LET t1 == SendHook(t) IN [t1 EXCEPT !.sources = ChannelListPurge(@)]
    /\ phase' = "dispatch"
    /\ UNCHANGED <<cursor, script, inq, delivered, xmitted, fd, child>>

\* The flush in the inject write_eof callback can fail only with data queued.
FlushOutcomes(type) ==
    IF Kind = "inject" /\ type = EOFPKT /\ t.sinks # << >> /\ t.sinks[1].sendq > 0
    THEN BOOLEAN ELSE {TRUE}

\* Each complete frame on the link goes to twopence_transaction_recv_packet.
\* An interrupt reaching the command's recv hook signals the child.
Dispatch ==
    /\ phase = "dispatch"
    /\ inq # << >>
    /\ LET type == Head(inq) IN
       \E flushOK \in FlushOutcomes(type) :
          /\ t' = RecvPacket(t, type, flushOK)
          /\ delivered' = IF type = DataType /\ ~t.done THEN delivered + 1 ELSE delivered
          /\ child' = IF Kind = "command" /\ type = "I" /\ ~t.done
                      THEN [child EXCEPT !.signalled = TRUE] ELSE child
    /\ inq' = Tail(inq)
    /\ UNCHANGED <<phase, cursor, script, xmitted, fd>>

\* No complete frame is left on the link.
Idle ==
    /\ phase = "dispatch"
    /\ inq = << >>
    /\ phase' = "reap"
    /\ UNCHANGED <<t, cursor, script, inq, delivered, xmitted, fd, child>>

\* The command's timeout expires: a TIMEOUT packet ends the transaction.
CommandTimeout ==
    /\ Kind = "command"
    /\ phase = "dispatch"
    /\ ~t.done
    /\ t' = SendTimeout(t)
    /\ phase' = "reap"
    /\ UNCHANGED <<cursor, script, inq, delivered, xmitted, fd, child>>

\* mutant: the done check is missing and every transaction is freed after
\* its first iteration
ReapEvery ==
    /\ phase = "reap"
    /\ t' = TransactionFree(t) /\ phase' = "finished"
    /\ UNCHANGED <<cursor, script, inq, delivered, xmitted, fd, child>>

\* End of the iteration: the loop frees a done transaction.
Reap ==
    /\ phase = "reap"
    /\ IF t.done \/ t.aborted
       THEN t' = TransactionFree(t) /\ phase' = "finished"
       ELSE t' = t /\ phase' = "poll"
    /\ UNCHANGED <<cursor, script, inq, delivered, xmitted, fd, child>>

-----------------------------------------------------------------------------
(* Environment *)

ClientSend ==
    /\ script # << >>
    /\ inq' = Append(inq, Head(script))
    /\ script' = Tail(script)
    /\ UNCHANGED <<t, phase, cursor, delivered, xmitted, fd, child>>

LinkXmit ==
    /\ xmitted < Len(t.out)
    /\ xmitted' = xmitted + 1
    /\ UNCHANGED <<t, phase, cursor, script, inq, delivered, fd, child>>

ChildWrite ==
    /\ Kind = "command"
    /\ ~child.exited
    /\ child.wrote < MaxOutput
    /\ \E id \in SourceIds : fd' = [fd EXCEPT ![id].avail = @ + 1]
    /\ child' = [child EXCEPT !.wrote = @ + 1]
    /\ UNCHANGED <<t, phase, cursor, script, inq, delivered, xmitted>>

ChildExit ==
    /\ Kind = "command"
    /\ ~child.exited
    /\ \E status \in (IF child.signalled THEN {15} ELSE {0, 1}) :
          child' = [child EXCEPT !.exited = TRUE, !.status = status]
    /\ fd' = [id \in SourceIds |-> [fd[id] EXCEPT !.closed = TRUE]]
    /\ UNCHANGED <<t, phase, cursor, script, inq, delivered, xmitted>>

\* The server process has finished with the transaction.
Terminated ==
    /\ phase = "finished"
    /\ UNCHANGED vars

Next ==
    \/ Start \/ Poll \/ DoIOSink \/ PurgeSinks \/ DoIOSource \/ SendAndPurge
    \/ Dispatch \/ Idle \/ CommandTimeout \/ Reap
    \/ ClientSend \/ LinkXmit \/ ChildWrite \/ ChildExit
    \/ Terminated

Spec == Init /\ [][Next]_vars

\* The steps of the server's event loop
Loop ==
    \/ Start \/ Poll \/ DoIOSink \/ PurgeSinks \/ DoIOSource \/ SendAndPurge
    \/ Dispatch \/ Idle \/ CommandTimeout \/ Reap

\* The event loop keeps running, the kernel keeps transmitting the peer
\* socket's queue and the client writes the packets of its script.  The
\* child is not assumed to exit.
FairSpec ==
    /\ Spec
    /\ WF_vars(Loop)
    /\ WF_vars(LinkXmit)
    /\ WF_vars(ClientSend)

-----------------------------------------------------------------------------
(***************************************************************************)
(* Properties                                                              *)
(***************************************************************************)
ChannelIds == {"0", "1", "2", "d"}
FrameTypes == {MAJOR, MINOR, EOFPKT, TIMEOUT, "s"} \cup ChannelIds

Channel ==
    [id : ChannelIds, plugged : BOOLEAN, rcb : BOOLEAN, wcb : BOOLEAN,
     dead : BOOLEAN, readEOF : BOOLEAN, writeEOF : BOOLEAN,
     recvbuf : {"none", "posted", "full"}, sendq : Nat, written : Nat]

TypeOK ==
    /\ t.done \in BOOLEAN /\ t.majorSent \in BOOLEAN /\ t.minorSent \in BOOLEAN
    /\ t.aborted \in BOOLEAN
    /\ t.sinks \in Seq(Channel) /\ t.sources \in Seq(Channel)
    /\ t.out \in Seq([type : FrameTypes, code : Nat])
    /\ phase \in {"start", "poll", "sinks", "sources", "dispatch", "reap", "finished"}
    /\ xmitted \in 0..Len(t.out)
    /\ fd \in [SourceIds -> [avail : Nat, closed : BOOLEAN]]

\* Positions in t.out of the frames of one type
Sent(type) == {i \in DOMAIN t.out : t.out[i].type = type}

(* The peer sees at most one major and at most one minor status for the    *)
(* transaction, and no minor before the major (twopence_transaction_fail,  *)
(* fail2, send_status and the hooks that call them, whatever order the     *)
(* doio pass and the dispatcher run them in).                               *)
StatusOnce ==
    /\ Cardinality(Sent(MAJOR)) <= 1
    /\ Cardinality(Sent(MINOR)) <= 1
    /\ \A j \in Sent(MINOR) : \E i \in Sent(MAJOR) : i < j

(* The server never dies in the assert() of send_major/send_minor or the   *)
(* abort() of twopence_transaction_fail when errors pile up on one         *)
(* transaction.                                                             *)
NoAbort == ~t.aborted

(* Flow control in twopence_transaction_fill_poll: however much the local  *)
(* sources produce, the data frames waiting in the peer socket's queue     *)
(* never exceed the high-water mark by more than one buffer per source.    *)
FlowControl ==
    Cardinality({i \in (xmitted + 1)..Len(t.out) : t.out[i].type \in SourceIds})
        <= HighWater - 1 + Cardinality(SourceIds)

\* The status pair that reports success to the client
Succeeded == \A f \in {Frame(MAJOR, 0), Frame(MINOR, 0)} : \E i \in DOMAIN t.out : t.out[i] = f

(* Inject: when the server reports success, every data packet it accepted  *)
(* from the client has been written to the destination file (the flush in  *)
(* the write_eof callback after the EOF packet's shutdown).                 *)
InjectDurable ==
    [][~Succeeded /\ Succeeded' =>
         \E i \in DOMAIN t'.sinks : t'.sinks[i].id = "d" /\ t'.sinks[i].written = delivered']_vars

(* Every inject and extract transaction ends and is freed by the loop,     *)
(* whatever the client sends and whichever local I/O fails: the EOF        *)
(* packet, the read-EOF of the source and every error path lead to done.   *)
Termination == <>(phase = "finished")

(* Once the command's child has exited, the transaction ends: its pipes    *)
(* reach EOF through reposted receive buffers despite flow control, and    *)
(* the send hook reports the status.                                        *)
ExitFinishes == child.exited ~> (phase = "finished")

(* Once the transaction is done (spec.md 3: "done implies no further frames *)
(* will be produced for this id"), the doio pass, the callbacks and the     *)
(* send hook queue no further frame for it.                                 *)
NoFrameAfterDone ==
    [][t.done => t'.out = t.out]_vars


-----------------------------------------------------------------------------
(***************************************************************************)
(* Refinement of TransactionStatus: the loop phase before Start is OPEN,   *)
(* after the reaping Reap it is FREED, and otherwise the transaction's     *)
(* done flag tells DONE from RUNNING; the frames are t.out.                *)
(***************************************************************************)
TransactionState ==
    CASE phase = "start"    -> "open"
      [] phase = "finished" -> "freed"
      [] t.done             -> "done"
      [] OTHER              -> "running"

TS == INSTANCE TransactionStatus WITH state <- TransactionState, out <- t.out

(* The server's transaction implements the contract of spec.md 3 and 4.3: *)
(* frames on the client socket are never taken back, statuses come as a   *)
(* major then a minor or as one timeout, only the step that latches done   *)
(* (send_status, fail, fail2, send_timeout or a write_eof/read_eof        *)
(* callback calling them) queues a minor or a timeout, nothing is queued   *)
(* for a done transaction by the doio pass, the dispatcher or the hooks,   *)
(* and the loop frees only done transactions and frees every one.          *)
TransactionContract == TS!ASpec

=============================================================================
