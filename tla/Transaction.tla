----------------------------- MODULE Transaction -----------------------------
(***************************************************************************)
(* The transaction engine of src/library/transaction.c.                    *)
(*                                                                         *)
(* A transaction (struct twopence_transaction) is a record holding the     *)
(* status flags, the two singly-linked channel lists local_sink and        *)
(* local_source (modelled as sequences, head first, in list order) and     *)
(* the frames it has queued on the peer socket client_sock (the history   *)
(* "out"; the socket's transmit cursor is kept by the composing module).   *)
(*                                                                         *)
(* Every C function that changes a transaction is an operator from a       *)
(* transaction record to a transaction record, so that a handler that      *)
(* calls several of them in sequence (twopence_transaction_fail calling    *)
(* twopence_transaction_send_major, a callback called from the doio loop)  *)
(* is their composition inside one step of the composing module.           *)
(*                                                                         *)
(* The socket behind a channel (twopence_sock_t, not part of src/) is      *)
(* reduced to the flags the engine reads: dead, read_eof, write_eof, the   *)
(* state of the one posted receive buffer and the length of the send       *)
(* queue.  Payloads are abstracted to one chunk per frame.                 *)
(***************************************************************************)
EXTENDS Naturals, Sequences

\* errno values that reach the wire as status codes
ENOENT == 2
EIO    == 5
EPIPE  == 32
EPROTO == 71

\* Channel ids are packet types; NUL (id 0) selects every channel.
NUL == "NUL"

\* Packet types the engine itself produces or dispatches on
MAJOR   == "M"
MINOR   == "m"
EOFPKT  == "E"
TIMEOUT == "T"

Frame(type, code) == [type |-> type, code |-> code]

(***************************************************************************)
(* Channels: twopence_transaction_channel_from_fd with the socket that     *)
(* twopence_sock_new_flags creates.  A socket opened O_WRONLY (a sink)     *)
(* starts with read_eof set, so no receive buffer is ever posted to it.    *)
(***************************************************************************)
\* mutant: channels are created plugged
ChannelFromFdPlugged(id, writeOnly) ==
    [ id |-> id, plugged |-> TRUE, rcb |-> FALSE, wcb |-> FALSE, dead |-> FALSE,
      readEOF |-> writeOnly, writeEOF |-> FALSE, recvbuf |-> "none",
      sendq |-> 0, written |-> 0 ]

ChannelFromFd(id, writeOnly) ==
    [ id       |-> id,
      plugged  |-> FALSE,
      rcb      |-> FALSE,      \* callbacks.read_eof installed
      wcb      |-> FALSE,      \* callbacks.write_eof installed
      dead     |-> FALSE,
      readEOF  |-> writeOnly,
      writeEOF |-> FALSE,
      recvbuf  |-> "none",     \* "none" | "posted" (empty) | "full"
      sendq    |-> 0,          \* buffers queued for writing to the local fd
      written  |-> 0 ]         \* buffers written to the local fd so far

TransactionNew ==
    [ done      |-> FALSE,
      majorSent |-> FALSE,
      minorSent |-> FALSE,
      aborted   |-> FALSE,     \* assert() or abort() fired: the process died
      sinks     |-> << >>,
      sources   |-> << >>,
      out       |-> << >> ]

IsReadEOF(c) == c.readEOF

\* Position of the first channel with the given id in a list, 0 if none
FindChannel(list, id) ==
    IF \E i \in DOMAIN list : list[i].id = id
    THEN CHOOSE i \in DOMAIN list : list[i].id = id /\ \A j \in 1..(i-1) : list[j].id # id
    ELSE 0

FindSink(t, id)   == FindChannel(t.sinks, id)
FindSource(t, id) == FindChannel(t.sources, id)

\* twopence_transaction_attach_local_sink / _source: push on the list head
AttachLocalSink(t, id)   == [t EXCEPT !.sinks   = <<ChannelFromFd(id, TRUE)>>  \o @]
AttachLocalSource(t, id) == [t EXCEPT !.sources = <<ChannelFromFd(id, FALSE)>> \o @]

\* twopence_transaction_channel_list_close: unlink every channel with the id
ChannelListClose(list, id) == SelectSeq(list, LAMBDA c : ~(id = NUL \/ c.id = id))

\* twopence_transaction_channel_list_purge: unlink channels whose socket died
ChannelListPurge(list) == SelectSeq(list, LAMBDA c : ~c.dead)

CloseSink(t, id)   == [t EXCEPT !.sinks   = ChannelListClose(@, id)]
CloseSource(t, id) == [t EXCEPT !.sources = ChannelListClose(@, id)]

SetPlugged(t, i, b)  == [t EXCEPT !.sources[i].plugged = b]

(***************************************************************************)
(* Status frames.  send_major and send_minor assert that they run once;    *)
(* a failed assertion aborts the process.                                  *)
(***************************************************************************)
SendClient(t, f) == [t EXCEPT !.out = Append(@, f)]

SendMajor(t, code) ==
    IF t.majorSent THEN [t EXCEPT !.aborted = TRUE]
    ELSE [SendClient(t, Frame(MAJOR, code)) EXCEPT !.majorSent = TRUE]

SendMinor(t, code) ==
    IF t.minorSent THEN [t EXCEPT !.aborted = TRUE]
    ELSE [SendClient(t, Frame(MINOR, code)) EXCEPT !.minorSent = TRUE]

\* mutant: no "called twice" check
SendStatusTwice(t, major, minor) ==
    [SendClient(SendClient(t, Frame(MAJOR, major)), Frame(MINOR, minor)) EXCEPT !.done = TRUE]

\* mutant: done is not set
SendStatusNotDone(t, major, minor) ==
    IF t.done THEN t
    ELSE SendClient(SendClient(t, Frame(MAJOR, major)), Frame(MINOR, minor))

\* send_status builds both frames itself and sets neither sent flag
SendStatus(t, major, minor) ==
    IF t.done THEN t
    ELSE [SendClient(SendClient(t, Frame(MAJOR, major)), Frame(MINOR, minor))
            EXCEPT !.done = TRUE]

\* mutant: the minor check comes first
FailMinorFirst(t, code) ==
    LET t1 == [t EXCEPT !.done = TRUE]
    IN  IF ~t1.minorSent THEN SendMinor(t1, code)
        ELSE IF ~t1.majorSent THEN SendMajor(t1, code)
        ELSE [t1 EXCEPT !.aborted = TRUE]

\* mutant: missing return after sending the major, falling through to abort()
FailNoReturn(t, code) ==
    LET t1 == [t EXCEPT !.done = TRUE]
        t2 == IF ~t1.majorSent THEN SendMajor(t1, code) ELSE t1
    IN  [IF ~t2.minorSent THEN SendMinor(t2, code) ELSE t2 EXCEPT !.aborted = TRUE]

Fail(t, code) ==
    LET t1 == [t EXCEPT !.done = TRUE]
    IN  IF ~t1.majorSent THEN SendMajor(t1, code)
        ELSE IF ~t1.minorSent THEN SendMinor(t1, code)
        ELSE [t1 EXCEPT !.aborted = TRUE]

\* mutant: done is not latched
Fail2NotDone(t, major, minor) == SendMinor(SendMajor(t, major), minor)

\* mutant: minor sent before major
Fail2MinorFirst(t, major, minor) == [SendMajor(SendMinor(t, minor), major) EXCEPT !.done = TRUE]

Fail2(t, major, minor) == [SendMinor(SendMajor(t, major), minor) EXCEPT !.done = TRUE]

SendTimeout(t) == [SendClient(t, Frame(TIMEOUT, 0)) EXCEPT !.done = TRUE]

(***************************************************************************)
(* Channel I/O.                                                            *)
(***************************************************************************)

\* twopence_transaction_channel_poll: post a receive buffer when the
\* channel is alive, unplugged, not at EOF and has none posted.
ChannelPoll(c) ==
    IF ~c.dead /\ ~c.plugged /\ ~c.readEOF /\ c.recvbuf = "none"
    THEN [c EXCEPT !.recvbuf = "posted"]
    ELSE c

PollList(list) == [i \in DOMAIN list |-> ChannelPoll(list[i])]

\* mutant: sources polled regardless of the peer's queue
FillPollUnthrottled(t, xmitQueueAllowed) ==
    [t EXCEPT !.sinks = PollList(@), !.sources = PollList(@)]

\* twopence_transaction_fill_poll: sinks always; sources only while the
\* peer socket's transmit queue is allowed to grow.
FillPoll(t, xmitQueueAllowed) ==
    [t EXCEPT !.sinks   = PollList(@),
              !.sources = IF xmitQueueAllowed THEN PollList(@) ELSE @]

\* twopence_transaction_channel_write_data: twopence_sock_xmit_shared fails
\* on a socket whose write side has been shut down.
ChannelWriteData(t, i) ==
    IF t.sinks[i].writeEOF THEN Fail(t, EPIPE)
    ELSE [t EXCEPT !.sinks[i].sendq = @ + 1]

\* twopence_transaction_channel_write_eof: twopence_sock_shutdown_write
ChannelWriteEOF(c) == [c EXCEPT !.writeEOF = TRUE]

\* Result of twopence_sock_doio on one channel.  "io" is what the kernel
\* did: "none", "read" (one buffer of data), "eof" (zero-length read),
\* "write" (one queued buffer written) or "error".
SockDoIO(c, io) ==
    CASE io = "read"  -> [c EXCEPT !.recvbuf = "full"]
      [] io = "eof"   -> [c EXCEPT !.readEOF = TRUE]
      [] io = "write" -> [c EXCEPT !.sendq = @ - 1, !.written = @ + 1]
      [] OTHER        -> c

\* mutant: returns without draining the queue
ChannelFlushNoDrain(t, i, ok) == t

\* twopence_transaction_channel_flush: drain the send queue of sink i;
\* a failing write ends the flush with the error.
ChannelFlush(t, i, ok) ==
    IF ok THEN [t EXCEPT !.sinks[i].written = @ + t.sinks[i].sendq, !.sinks[i].sendq = 0]
    ELSE t

\* mutant: also drops the borrowed client socket's queue
TransactionFreeOwnsSocket(t) == [CloseSource(CloseSink(t, NUL), NUL) EXCEPT !.out = << >>]

\* twopence_transaction_free: close every channel of both lists
TransactionFree(t) == CloseSource(CloseSink(t, NUL), NUL)

=============================================================================
