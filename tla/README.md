# TLA+ models of twopence

twopence runs commands on, and copies files to and from, a test machine.
A client (the "pipe" plug-in, `src/library/protocol.c`) talks to a server
over one byte link using frames `type | 16-bit length | payload`. The server
runs one *transaction* per request. A transaction (`src/library/transaction.c`)
owns local *sinks* (files, child stdin) and *sources* (files, child
stdout/stderr), moves bytes between them and the link, and ends by sending a
*major* and a *minor* status frame (or a timeout frame).

## Parts of the system and how they interact

| Part | Code | State | Operations |
|------|------|-------|------------|
| Transaction engine | `transaction.c` | flags `done`, `major_sent`, `minor_sent`; sink and source lists of channels; the client socket | new, attach sink/source, fill_poll, doio, recv_packet, send_status/major/minor, fail, fail2, send_timeout, channel flush/write/EOF, purge, free |
| Channel | `transaction.c` | id, fd socket, `plugged`, read_eof / write_eof callbacks, posted receive buffer, send queue | channel_from_fd, poll, doio, write_data, write_eof, flush, close |
| Server loop and kind handlers | not under `src/` (spec.md 4.4, 5) | the connection, its transactions, the child process | dispatch frames, call doio, reap done transactions; command/inject/extract hooks |
| Socket transport | not under `src/` (spec.md 4.2) | per fd: dead, read/write EOF, queues | doio, queue, shutdown |
| Legacy pipe client | `protocol.c` | link fd, local stdin mode, received counts | command, inject, extract, exit, interrupt; read_frame, sendbuf, recvbuf |
| Frame codec | `protocol.c` | none | store_length, compute_length, read_frame checks |

The client sends one request frame per link. On the server the request
creates a transaction whose hooks attach channels; every loop iteration
polls the channels, runs `twopence_transaction_doio` (sinks, purge, sources,
`send` hook, purge), dispatches every complete frame from the client to
`twopence_transaction_recv_packet`, and frees done transactions. The
client reads data frames into its output and ends on the status frames.

Hard behaviours: several channels of one transaction failing in one doio
pass; packets arriving after the transaction is done; the child exiting while
its stdin still has queued data (EPIPE); flow control against the link's send
queue; EOF noticed only through a posted receive buffer; a flush that must
drain before success is reported.

## Modules

* `Transaction.tla` – the engine. A transaction is a record
  `[done, majorSent, minorSent, aborted, sinks, sources, out]`; a channel is a
  record with `plugged`, `rcb`/`wcb` (read_eof / write_eof callback present),
  `dead`, `readEOF`, `writeEOF`, `recvbuf` (none, posted, full), `sendq`
  and `written`. Lists are sequences with the head first (attach prepends, as
  the C list insert does). Each C function is an operator from transaction to
  transaction; callbacks are operator parameters, so the caller composes them
  in one step exactly as the C call chain does. `out` is the sequence of
  frames queued on the client socket; `aborted` records reaching `abort()`.
* `Server.tla` – one server transaction of a given `Kind` driven by the
  event loop of spec.md 5, with the kind hooks, the client's packet script
  (`Scripts`), the link transmitting `out`, and for command a child process
  that writes output and exits (possibly signalled). Each loop step is one
  action: `Start`, `Poll` (fill_poll), `DoIOSink`, `PurgeSinks`,
  `DoIOSource`, `SendAndPurge`, `Dispatch`, `Idle`, `CommandTimeout`,
  `Reap`. The environment actions are `ClientSend`, `LinkXmit`,
  `ChildWrite`, `ChildExit`.
* `MCServer.tla` – the client scripts for each kind.
* `ExtractClient.tla` – the client side of an extract in protocol.c:
  `_twopence_invalid_username`, opening the link, sending the command,
  `_twopence_read_size`, `_twopence_receive_file`, and the caller
  `twopence_pipe_extract_file`, over the frame codec (`store_length`,
  `compute_length`, `__twopence_pipe_read_frame` with its `recvbuf`/`poll`
  loop). Bytes are ASCII codes; the server's reply is a sequence of frames
  encoded to bytes (`Wire`), `Deliver` makes one more byte arrive and `Recv`
  takes any non-empty part of what has arrived, so every split of the stream
  into recv() results is explored. `sscanf("%d")` is `Scan`, which leaves the
  variable unchanged when no digit follows, and the uninitialized `size`
  starts anywhere in `SizeGarbage`. `faulty` (chosen at start) lets the
  caller's `creat` of the local file, the link open, send, poll/recv and
  the file write fail. `fd` is the local file: `Creat` opens it before the
  driver runs, and `Return` (the caller's mapping of the driver's result)
  closes it.
* `MCExtractClient.tla` – ten server replies: a normal one, one split into
  d "a", an empty d, d "b", an `M 2`, a short one, a d frame longer than the
  remaining size, one longer than the 7-byte buffer, a header claiming 2
  bytes, a d frame where the size belongs, and d frames of exactly the
  buffer's 7 bytes and of 8 bytes (the boundary of `length > size`).
* `CommandSession.tla` – `__twopence_pipe_command`, `_twopence_read_results`
  and `__twopence_pipe_recvbuf_both`, composed with `Server` (Kind command):
  the client's `CSendCommand` lets the server `Start`, `CReadFrame` reads the
  next frame of `t.out` that the link has transmitted (stdout/stderr through
  `PipeOutput` into the sink, `M` into `major`, `m` into `minor`, then the
  public wrapper's final NUL (`Terminate`) and return), `CPollFail` is
  poll failing or timing out while the link is silent, and `Interrupt` is
  `_twopence_interrupt_virtio_serial` putting an `I` frame on the link while
  the command runs. `stdin` is what local stdin offers ("idle" or "eof");
  `nonblock` and `clink` are the tuned stdin and the open link. `sink` is
  the output sink the public wrapper set up: its mode (`OutputModes`:
  screen, none, one buffer for both streams, a buffer per stream), the bytes
  each stream produced, and the bytes stored in each buffer of `BufChars`
  capacity; a full buffer (or a failing screen write) makes the read fail,
  as `__twopence_pipe_output` does.
* `InjectSession.tla` – `twopence_pipe_inject_file`,
  `_twopence_inject_virtio_serial`, `_twopence_read_major`,
  `_twopence_send_file` and `_twopence_read_minor`, composed with `Server`
  (Kind inject). `ISendFile` is one iteration of the send loop (a chunk on
  the link, a chunk whose sendbuf failed, or a short local read);
  `IReadMajorFail` is read_major failing, whose result the driver ignores;
  `IMinorTimeout` is read_minor's poll timing out.
* `TransactionStatus.tla` – the abstract contract of a transaction
  (spec.md 3, 4.3): OPEN, RUNNING, DONE, FREED; frames queued for the peer
  only grow; statuses are a prefix of major-minor or one timeout; a minor or
  timeout is queued only by the step that ends the transaction; nothing is
  queued after DONE; a DONE transaction is eventually freed. `Server`
  instantiates it with `state <- TransactionState` (phase and `t.done`)
  and `out <- t.out`, and `TransactionContract == TS!ASpec` is checked as a
  temporal property.
* `Codec.tla` – `store_length` and `compute_length`, the 16-bit length
  field of the frame header, shared by `ExtractClient` and `LinkCommands`.
* `LinkCommands.tla` – `twopence_pipe_interrupt_command` and
  `twopence_pipe_exit_remote` with their drivers: the 5-byte `I...`/`q...`
  frame, `OpenLink`, and `__twopence_pipe_sendbuf`'s loop as `SendChunk`
  (one poll and a send() taking any non-empty part of what is left, the last
  one closing the link and returning 0) and `SendFail` (poll error or
  timeout, or send() failing: the driver closes the link and returns its
  error code). `link` is the byte pipe every call writes to, so what a
  failed call left on it stays there; `contrib` records how much of its
  frame each returned call sent. `MCLinkCommands.tla` makes an interrupt
  and then an exit.
* `MCCommandSession.tla`, `MCInjectSession.tla` – no scripted packets: the
  client module writes to the link itself.

## Runs

| Run | Checks | Shows |
|-----|--------|-------|
| server_inject | TypeOK, StatusOnce, NoAbort, InjectDurable, Termination, TransactionContract | inject of 0–2 buffers with EOF in any position and a stray interrupt, with file write, flush and open failures |
| server_extract | StatusOnce, NoAbort, FlowControl, Termination, TransactionContract | extract of a 3-buffer file with read errors, HighWater 1 |
| server_command | StatusOnce, NoAbort, FlowControl, ExitFinishes | command with stdin data and EOF, interrupts, timeout, child writing 3 chunks on two pipes and exiting normally or by signal |
| server_command_afterdone | NoFrameAfterDone (violation) | a stdin EPIPE failure followed, in the same doio pass, by a stdout frame for a done transaction |
| client_extract | TypeOK, BufferBound, FrameSync, ExtractExact, Completes | all ten replies, any recv split, with and without creat, link and file faults |
| client_extract_missing | MissingFileReported (violation) | `M 2` with a positive uninitialized size is reported as RECEIVE_FILE_ERROR |
| command_session | ResultsMatch, BufferTerminated, ClientCleanup, CommandCompletes | client and server of a command with two output buffers, all four sink modes with 2-byte buffers, link/sink faults and an interrupt |
| command_stdin | StdinEOFForwarded (violation) | EOF on local stdin never reaches the command |
| inject_session | ILinkClosed, InjectReturns | client and server of a two-buffer inject, with link and local-file faults |
| inject_early_data | NoDataBeforeMajor (violation) | a failed read_major lets the file be streamed without major 0 |
| inject_lost_data | SendFileComplete (violation) | send_file returns 0 after a chunk whose write failed |
| link_commands | LinkBytes | an interrupt then an exit, every split of each frame into send() calls, with open, poll and send failures |

Properties:
* `StatusOnce` – at most one major and one minor frame, major first (spec.md 7).
* `NoAbort` – `twopence_transaction_fail` never reaches `abort()`.
* `FlowControl` – data frames waiting on the link never exceed HighWater−1
  plus one buffer per source.
* `InjectDurable` – when inject reports major 0 and minor 0, everything the
  client sent has been written to the file.
* `Termination`, `ExitFinishes` – the transaction is always freed (for
  command: once the child has exited).
* `BufferBound` – read_frame never stores more than the buffer holds.
* `FrameSync` – each frame read_frame returns is the server's next frame,
  whole, whatever the recv split.
* `ExtractExact` – an extract returning 0 after `s n` wrote exactly n bytes,
  the server's data in order (spec.md 8).
* `Completes` – on a reliable link, with a valid user and a well-formed
  reply, the extract returns 0.
* `MissingFileReported` – spec.md 4.6 and 7; violated by the code (below).
  `LinkReleased` (spec.md 7) and `EmptyUserRejected` (spec.md 8) are also
  stated in `ExtractClient` and violated when added as the INVARIANT of the
  extract client's cfg; they are not kept as runs (the first is an open
  question of spec.md, the second a one-line unit test).
* `TransactionContract` – the server's transaction refines
  `TransactionStatus` (above).
* `ResultsMatch` – a command returning 0 reports the exited child's status
  as minor, major 0, and every output buffer the child wrote.
* `BufferTerminated` – a command returning 0 into buffers has stored every
  byte of its stream(s) plus the final NUL in each buffer, within the
  buffer's size. The wrappers (protocol.c 843–874) only test whether
  `__twopence_pipe_output`/`__twopence_pipe_error` of the NUL fails; the
  capacity check itself belongs to the sink code outside `src/`, and is
  modelled from spec.md 4.6 as `SinkRoom`.
* `ClientCleanup`, `ILinkClosed` – every return after setup restores stdin
  and closes the link.
* `CommandCompletes` – once the child has exited, on a reliable link, with
  output that fits the buffers (`OutputFits`), the client returns 0 or the
  command was timed out.
* `LinkBytes` – the byte pipe holds, in call order, a prefix of each call's
  frame (and the part of the current one sent so far), and a call returned
  0 exactly when its whole frame went out: sendbuf resumes at
  `buffer + sent`. A failed call leaves its truncated frame on the pipe for
  the server to misread as the head of the next; only the error code tells
  the caller.
* `InjectReturns` – the inject client always returns (its reads poll with a
  timeout).
* `StdinEOFForwarded`, `NoDataBeforeMajor`, `SendFileComplete` –
  spec.md 4.6, 5 and 7, and send_file's own comment; violated by the code
  (below). `InjectCompletes` (the server sends the minor status of an
  inject on a reliable link) is stated in `InjectSession` and TLC violates
  it under `MCInjectSession.cfg` with `PROPERTY InjectCompletes`; its run
  was given up for `link_commands` (at most 12 runs). `RemoteErrorReported` (spec.md 7 scenario
  3) is stated in `InjectSession` and violated when checked: an early
  major ≠ 0 is returned as SEND_FILE_ERROR, not REMOTE_FILE_ERROR.
* `NoFrameAfterDone` – no frame is queued once `done` is set (spec.md 3).

Bounds: HighWater 1–2 makes throttling happen with one buffer queued;
three file chunks or child outputs exceed it; the scripts cover EOF before,
between and after data, duplicate and stray interrupts. Larger bounds only
repeat the same interleavings.

Fairness: weak fairness of the server loop and of each client module (each runs whenever one of its steps is enabled: both are single
threads that never wait on anything but the link), of link transmission, of the client sending its script and, for the extract client, of the
server's reply arriving byte by byte. The command and inject clients'
reads are fair including their timeout, which the 60 s poll guarantees. The
child is not assumed to exit, so `Termination` is checked only where no
child exists and `ExitFinishes` is conditional.

## Findings

`twopence_transaction_doio` (transaction.c 417–440) runs the source loop and
the `send` hook even after a sink's doio has failed the transaction: TLC
shows a command whose stdin write fails with EPIPE queue `M EPIPE` and then a
`1` stdout frame. spec.md says `done` means no further frames. (The command
server therefore does not refine `TransactionContract` either.)

`_twopence_extract_virtio_serial` tests the uninitialized `size` after an
`M` answer (protocol.c 708), so a missing remote file may be reported as
RECEIVE_FILE_ERROR after a wait for data; it returns from a failed
`receive_file` without closing the link (712); `_twopence_invalid_username`
accepts the empty name (97).

`__twopence_pipe_recvbuf_both` tests `pfd[0]` in its stdin branch
(protocol.c 270), so stdin is never read: a command never sees EOF on
stdin, and a readable stdin makes the poll loop spin past its timeout.

The inject driver ignores read_major's result (633) and streams the file
without major 0 when the read fails; `_twopence_send_file` misses
sendbuf's negative return (469) and reports success with a chunk lost; an
early remote error is returned as SEND_FILE_ERROR (634); and the driver
never sends the EOF packet (641), so against the server of spec.md 4.4 the
minor status never comes and every inject ends in read_minor's timeout.

The extract bounds: a 7-byte buffer keeps frames of up to 3 payload bytes,
so an oversize frame needs only 5, and replies with frames of exactly 7 and
of 8 bytes put both sides of the `length > size` test (216) in the checked
set, so an off-by-one there breaks `BufferBound` or `Completes`; sizes up to 3 make a reply split across
three d frames; `SizeGarbage` {-1, 0, 1} covers the three ways the
uninitialized size is used.

Command and inject bounds: two output buffers or two file chunks with
HighWater 1 make the link's queue throttle and the client interleave its
reads with the server's writes; `BufChars` 2 against `MaxOutput` 2 makes a
buffer fill exactly, overflow, and leave no room for the final NUL; `Faults` BOOLEAN explores every fault path
of each driver alongside the reliable behaviours.

Control-command bounds: two calls are the fewest in which a call follows
one that failed part-way; each 5-byte frame is split into send() calls in
all 16 ways, and a failure can hit before any byte or after any prefix.

## Not modelled yet, and plan

1. The server's reading of the control frames that `LinkCommands` puts on
   the pipe (quit handling is not specified beyond closing the connection).
2. store_length/compute_length checked against 16-bit arithmetic over the
   whole length range.
3. Several transactions on one connection and the link timeout of the
   server (spec.md 5).
4. The extract client composed with the server, to check the unread final
   `E`/`M`/`m` frames after the data (protocol.c 715).

Not modelled: the plug-in shims and the sink functions outside
`src/` (only their effect on the wrappers' buffers is modelled), the
`dots` progress output of inject and extract, user switching, process
spawning, request parsing (text handling only).
