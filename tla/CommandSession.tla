--------------------------- MODULE CommandSession ---------------------------
(***************************************************************************)
(* The legacy pipe client running a command (src/library/protocol.c:       *)
(* __twopence_pipe_command, _twopence_read_results and                     *)
(* __twopence_pipe_recvbuf_both), composed over the link with the server's *)
(* command transaction of module Server, and the interrupt driver          *)
(* _twopence_interrupt_virtio_serial called while the command runs.        *)
(*                                                                         *)
(* Frames are the records of Transaction: the byte codec is ExtractClient's *)
(* concern.  The client reads t.out, frame by frame, as far as the peer    *)
(* socket has transmitted it (xmitted); what it writes to the link is      *)
(* appended to the server's inq.                                           *)
(***************************************************************************)
EXTENDS Server

CONSTANTS
    StdinModes,  \* what local stdin offers: "idle" (nothing) or "eof"
    OutputModes, \* sink modes of the callers: "screen", "none", "together", "separately"
    BufChars,    \* size of the callers' result buffers, in bytes
    Faults       \* {FALSE}, or BOOLEAN if link, screen and stdin tuning may fail

ASSUME BufChars \in Nat

VARIABLES
    cpc,      \* the client driver's position
    crd,      \* frames of t.out the client has read
    rstate,   \* read_results' state: 0, 1 (major read), 2 (minor read)
    major,    \* *major
    minor,    \* *minor
    sink,     \* the output sink: its mode, the bytes of each stream written
              \* to it (out) and the bytes each result buffer holds (buf)
    stdinFd,  \* read_results' stdin_fd is still >= 0
    stdin,    \* the mode of local stdin
    nonblock, \* local stdin is tuned non-blocking
    clink,    \* the client's link_fd is open
    cresult,  \* the value __twopence_pipe_command returns, or "none"
    intr,     \* the interrupt driver: "none", "sent" or "failed"
    faulty    \* whether link, sink and tuning may fail in this behaviour

cvars == <<cpc, crd, rstate, major, minor, sink, stdinFd, stdin, nonblock,
           clink, cresult, intr, faulty>>
allvars == <<vars, cvars>>

Streams == {"1", "2"}
BufferModes == {"together", "separately"}

-----------------------------------------------------------------------------
CInit ==
    /\ Init
    /\ cpc = "check"
    /\ crd = 0 /\ rstate = 0
    /\ major = 0 /\ minor = 0
    /\ \E m \in OutputModes :
          sink = [mode |-> m, out |-> [s \in Streams |-> 0], buf |-> [s \in Streams |-> 0]]
    /\ stdinFd = TRUE
    /\ stdin \in StdinModes
    /\ nonblock = FALSE
    /\ clink = FALSE
    /\ cresult = "none"
    /\ intr = "none"
    /\ faulty \in Faults

\* The driver returns rc: stdin is restored and the link closed when they
\* had been set up.
CReturn(rc) ==
    /\ cpc' = "done" /\ cresult' = rc
    /\ nonblock' = FALSE /\ clink' = FALSE

\* Username, empty command and snprintf checks: PARAMETER_ERROR before any
\* side effect.
CCheck ==
    /\ cpc = "check"
    /\ \/ cpc' = "tune" /\ UNCHANGED cresult
       \/ cpc' = "done" /\ cresult' = "PARAMETER_ERROR"
    /\ UNCHANGED <<crd, rstate, major, minor, sink, stdinFd, stdin, nonblock,
                   clink, intr, faulty>>
    /\ UNCHANGED vars

\* twopence_tune_stdin(false), then __twopence_pipe_open_link
CTuneOpen ==
    /\ cpc = "tune"
    /\ \/ nonblock' = TRUE /\ clink' = TRUE /\ cpc' = "send" /\ UNCHANGED cresult
       \/ faulty /\ cpc' = "done" /\ cresult' = "OPEN_SESSION_ERROR"
          /\ UNCHANGED <<nonblock, clink>>
       \/ faulty /\ CReturn("OPEN_SESSION_ERROR")
    /\ UNCHANGED <<crd, rstate, major, minor, sink, stdinFd, stdin, intr, faulty>>
    /\ UNCHANGED vars

\* mutant: the send failure path leaves stdin non-blocking
CSendCommandNoRestore ==
    /\ cpc = "send"
    /\ \/ cpc' = "results" /\ UNCHANGED <<cresult, nonblock, clink>>
       \/ faulty /\ cpc' = "done" /\ cresult' = "SEND_COMMAND_ERROR" /\ clink' = FALSE
          /\ UNCHANGED nonblock
    /\ UNCHANGED <<crd, rstate, major, minor, sink, stdinFd, stdin, intr, faulty>>
    /\ UNCHANGED vars

\* __twopence_pipe_sendbuf of the command frame; the server then starts the
\* transaction.
CSendCommand ==
    /\ cpc = "send"
    /\ \/ cpc' = "results" /\ UNCHANGED <<cresult, nonblock, clink>>
       \/ faulty /\ CReturn("SEND_COMMAND_ERROR")
    /\ UNCHANGED <<crd, rstate, major, minor, sink, stdinFd, stdin, intr, faulty>>
    /\ UNCHANGED vars

(***************************************************************************)
(* The output sink the public wrapper set up (spec.md 4.6: screen, none,   *)
(* one buffer for both streams, or one buffer per stream, each buffer     *)
(* BufChars bytes, NUL terminator included).  Each output frame carries   *)
(* one byte.                                                               *)
(***************************************************************************)
\* the buffer a stream's bytes go to
BufferOf(s) == IF sink.mode = "together" THEN "1" ELSE s

\* a write to a buffer fails once it is full; the screen may fail
SinkRoom(s) == sink.mode \notin BufferModes \/ sink.buf[BufferOf(s)] < BufChars

SinkStore(sk, s) ==
    IF sk.mode \in BufferModes THEN [sk EXCEPT !.buf[BufferOf(s)] = @ + 1] ELSE sk

\* __twopence_pipe_output / __twopence_pipe_error of one byte of stream s
PipeOutput(s) ==
    \/ /\ SinkRoom(s)
       /\ sink' = [SinkStore(sink, s) EXCEPT !.out[s] = @ + 1]
       /\ UNCHANGED <<cpc, cresult, nonblock, clink>>
    \/ /\ ~SinkRoom(s) \/ (faulty /\ sink.mode = "screen")
       /\ CReturn("RECEIVE_RESULTS_ERROR") /\ UNCHANGED sink

\* The buffers the wrapper terminates with a NUL once the command returned 0
NulBuffers == CASE sink.mode = "together"   -> {"1"}
                [] sink.mode = "separately" -> Streams
                [] OTHER                    -> {}

\* mutant: the wrapper does not store the final NUL
TerminateNoNul == CReturn("OK") /\ UNCHANGED sink

\* __twopence_pipe_command returns 0 and the wrapper stores the final NULs:
\* stdout's first, stderr's only if that succeeded (the "||").
Terminate ==
    LET fits(b) == sink.buf[b] < BufChars
        nul(b)  == b \in NulBuffers /\ fits(b) /\ (b = "2" => fits("1"))
    IN  /\ sink' = [sink EXCEPT !.buf = [b \in Streams |-> IF nul(b) THEN @[b] + 1 ELSE @[b]]]
        /\ CReturn(IF \A b \in NulBuffers : fits(b) THEN "OK" ELSE "RECEIVE_RESULTS_ERROR")

\* read_results' checks of the frame type against its state
BadFrame(f) ==
    CASE f.type \in Streams -> rstate # 0
      [] f.type = MAJOR     -> rstate # 0
      [] f.type = MINOR     -> rstate # 1
      [] OTHER              -> TRUE

\* mutant: the major case does not advance the state
ReadMajorNoState(f) ==
    major' = f.code /\ UNCHANGED <<rstate, cpc, cresult, nonblock, clink, minor, sink>>

ReadMajor(f) ==
    /\ rstate' = 1 /\ major' = f.code
    /\ UNCHANGED <<cpc, cresult, nonblock, clink, minor, sink>>

\* mutant: the minor code is scanned into *major
ReadMinorIntoMajor(f) == rstate' = 2 /\ major' = f.code /\ Terminate /\ UNCHANGED minor

\* 'm' ends the loop; the driver restores stdin, closes the link, returns 0
ReadMinor(f) == rstate' = 2 /\ minor' = f.code /\ Terminate /\ UNCHANGED major

\* One call of __twopence_pipe_recvbuf_both that returns a frame from the
\* link, and read_results' switch on its type.  (The server never sends '0'
\* or 'E' frames, so the forwarding cases of the switch are not reached.)
CReadFrame ==
    /\ cpc = "results"
    /\ crd < xmitted
    /\ crd' = crd + 1
    /\ LET f == t.out[crd + 1] IN
          CASE BadFrame(f) ->
                  CReturn("RECEIVE_RESULTS_ERROR") /\ UNCHANGED <<rstate, major, minor, sink>>
            [] f.type \in Streams -> PipeOutput(f.type) /\ UNCHANGED <<rstate, major, minor>>
            [] f.type = MAJOR     -> ReadMajor(f)
            [] OTHER              -> ReadMinor(f)
    /\ UNCHANGED <<stdinFd, stdin, intr, faulty>>
    /\ UNCHANGED vars

\* recvbuf_both's poll fails or times out (n == 0) while the link has no
\* frame; a readable stdin makes poll return at once, so the timeout needs
\* stdin to be idle.  A link silent for the whole link timeout counts as a
\* fault.
CPollFail ==
    /\ cpc = "results"
    /\ faulty
    /\ crd = xmitted
    /\ ~(stdinFd /\ stdin = "eof")
    /\ CReturn("RECEIVE_RESULTS_ERROR")
    /\ UNCHANGED <<crd, rstate, major, minor, sink, stdinFd, stdin, intr, faulty>>
    /\ UNCHANGED vars

\* _twopence_interrupt_virtio_serial while the command runs: a fresh link
\* carries an 'I' frame, which the server hands to the command's
\* transaction; opening or sending may fail (INTERRUPT_COMMAND_ERROR).
Interrupt ==
    /\ cpc = "results"
    /\ intr = "none"
    /\ \/ intr' = "sent" /\ inq' = Append(inq, "I")
       \/ faulty /\ intr' = "failed" /\ UNCHANGED inq
    /\ UNCHANGED <<t, phase, cursor, script, delivered, xmitted, fd, child>>
    /\ UNCHANGED <<cpc, crd, rstate, major, minor, sink, stdinFd, stdin,
                   nonblock, clink, cresult, faulty>>

\* The command frame has reached the server.
CmdSent == cpc = "results" \/ (cpc = "done" /\ cresult \in {"OK", "RECEIVE_RESULTS_ERROR"})

\* The server runs its loop once the command has arrived; the child exists
\* once the transaction has started.
ServerStep ==
    /\ \/ Start /\ CmdSent
       \/ Poll \/ DoIOSink \/ PurgeSinks \/ DoIOSource \/ SendAndPurge
       \/ Dispatch \/ Idle \/ CommandTimeout \/ Reap
    /\ UNCHANGED cvars

Environment ==
    /\ \/ LinkXmit
       \/ (ChildWrite \/ ChildExit) /\ phase # "start"
    /\ UNCHANGED cvars

Client == CCheck \/ CTuneOpen \/ CSendCommand \/ CReadFrame

\* Both sides have stopped: the driver has returned and the server has
\* freed the transaction, or the command never reached the server.
Finished ==
    /\ cpc = "done"
    /\ phase = "finished" \/ ~CmdSent
    /\ UNCHANGED allvars

CNext == ServerStep \/ Environment \/ Client \/ CPollFail \/ Interrupt \/ Finished

CSpec == CInit /\ [][CNext]_allvars

\* The server loop, the kernel's transmission and the client driver keep
\* running; timeouts, interrupts and the child's exit are not forced.
CFairSpec ==
    /\ CSpec
    /\ WF_allvars(ServerStep)
    /\ WF_allvars(LinkXmit /\ UNCHANGED cvars)
    /\ WF_allvars(Client)

-----------------------------------------------------------------------------
\* The server sent a TIMEOUT frame for the command.
TimedOut == \E i \in DOMAIN t.out : t.out[i].type = TIMEOUT

(* When __twopence_pipe_command returns 0, *major is 0 and *minor is the   *)
(* child's exit status (15 after an interrupt), and every buffer the child *)
(* wrote to stdout or stderr has gone to the output sink: read_results and *)
(* the server's send hook agree on the end of the output.                  *)
ResultsMatch ==
    cresult = "OK" =>
        /\ child.exited
        /\ major = 0 /\ minor = child.status
        /\ sink.out["1"] + sink.out["2"] = child.wrote

(* A wrapper that stores results in buffers and returns 0 leaves in each   *)
(* buffer every byte of its streams the child wrote, then a terminating    *)
(* NUL, within BufChars bytes (spec.md 4.6: buffers are NUL-terminated and *)
(* overrun is RECEIVE_RESULTS_ERROR).  It takes the sink writes of         *)
(* read_results, the server's end of output and the wrapper's final NULs   *)
(* together to hold.                                                        *)
BufferTerminated ==
    (cresult = "OK" /\ sink.mode \in BufferModes) =>
        \A b \in NulBuffers :
            LET bytes == IF sink.mode = "together" THEN sink.out["1"] + sink.out["2"]
                         ELSE sink.out[b]
            IN  sink.buf[b] = bytes + 1 /\ sink.buf[b] <= BufChars

(* On every return the driver has restored blocking stdin and closed the   *)
(* link it opened (spec.md 9: tune_stdin is restored on all exit paths).   *)
ClientCleanup == cpc = "done" => ~nonblock /\ ~clink

\* The child's whole output and a NUL fit in a result buffer.
OutputFits == sink.mode \notin BufferModes \/ child.wrote < BufChars

(* Once the child has exited on a link that does not fail, and its output  *)
(* fits the caller's buffers, the command call returns 0, unless the       *)
(* server timed the command out.                                            *)
CommandCompletes ==
    (child.exited /\ ~faulty /\ OutputFits) ~> (cpc = "done" /\ (cresult = "OK" \/ TimedOut))

(* Local stdin at EOF is forwarded: while read_results waits, the client   *)
(* reads the EOF and sends the 'E' frame, dropping stdin_fd (spec.md 4.6:  *)
(* the client produces '0' data frames and a final 'E' frame).             *)
StdinEOFForwarded ==
    (cpc = "results" /\ stdin = "eof") ~> (cpc = "done" \/ ~stdinFd)

=============================================================================
