---------------------------- MODULE LinkCommands ----------------------------
(***************************************************************************)
(* The one-frame control commands of the legacy pipe client               *)
(* (src/library/protocol.c): twopence_pipe_interrupt_command and           *)
(* twopence_pipe_exit_remote with their drivers                            *)
(* _twopence_interrupt_virtio_serial and _twopence_exit_virtio_serial,     *)
(* over __twopence_pipe_open_link and the __twopence_pipe_sendbuf loop.    *)
(* The caller makes the calls of Calls one after the other.  Each opens    *)
(* the link, sends its 5-byte frame with as many send() calls as the link  *)
(* needs (each takes any non-empty part of what is left), closes the link  *)
(* and returns.  The link is one byte pipe shared by every call: what a    *)
(* call put on it stays there for the server to read.                      *)
(***************************************************************************)
EXTENDS Naturals, Sequences, SequencesExt, Codec

CONSTANTS
    Calls,   \* the calls the caller makes, in order: "interrupt" or "exit"
    Faults   \* {FALSE}, or BOOLEAN if open, poll and send may fail

VARIABLES
    lpc,      \* the driver's position: "prepare", "send"
    sent,     \* sendbuf's count of bytes of the frame sent so far
    link,     \* the bytes on the byte pipe, in the order written
    linkOpen, \* link_fd is open
    results,  \* the return values of the calls that have returned
    contrib,  \* for each returned call, the bytes of its frame it sent
    faulty    \* whether open, poll and send may fail in this behaviour

vars == <<lpc, sent, link, linkOpen, results, contrib, faulty>>

COMMAND_BUFFER_SIZE == 8192

\* The two drivers differ in the command letter and the error code of a
\* failed send.
InterruptDriver == [type |-> 73, error |-> "INTERRUPT_COMMAND_ERROR"]
ExitDriver == [type |-> 113, error |-> "SEND_COMMAND_ERROR"]

\* twopence_pipe_interrupt_command / twopence_pipe_exit_remote
Driver(c) == IF c = "interrupt" THEN InterruptDriver ELSE ExitDriver

\* snprintf of "I..." or "q..." (n = 4), then store_length(n + 1): the
\* frame is the command, its NUL, and the length in bytes 2 and 3.
CommandLength == 4
CommandFrame(d) ==
    LET cmd == << d.type, 46, 46, 46, 0 >>
    IN  [cmd EXCEPT ![3] = StoreLength(CommandLength + 1)[1],
                    ![4] = StoreLength(CommandLength + 1)[2]]

Current == Calls[Len(results) + 1]
Frame == CommandFrame(Driver(Current))
Count == Len(Frame)

-----------------------------------------------------------------------------
Init ==
    /\ lpc = "prepare"
    /\ sent = 0
    /\ link = << >>
    /\ linkOpen = FALSE
    /\ results = << >>
    /\ contrib = << >>
    /\ faulty \in Faults

\* close(link_fd) before the driver returns
CloseLink == FALSE

\* The driver returns rc; what the call sent stays on the link.
Finish(rc) ==
    /\ results' = Append(results, rc)
    /\ contrib' = Append(contrib, sent)
    /\ lpc' = "prepare" /\ sent' = 0

\* The prepare step and __twopence_pipe_open_link: the command always fits
\* COMMAND_BUFFER_SIZE; an open failure returns without a link to close.
OpenLink ==
    /\ lpc = "prepare"
    /\ Len(results) < Len(Calls)
    /\ IF CommandLength >= COMMAND_BUFFER_SIZE
       THEN Finish("PARAMETER_ERROR") /\ UNCHANGED linkOpen
       ELSE \/ linkOpen' = TRUE /\ lpc' = "send" /\ sent' = 0
               /\ UNCHANGED <<results, contrib>>
            \/ faulty /\ Finish("OPEN_SESSION_ERROR") /\ UNCHANGED linkOpen
    /\ UNCHANGED <<link, faulty>>

\* mutant: the next send() starts at the buffer again
SendFromStart(n) == SubSeq(Frame, 1, n)

\* send(handle, link_fd, buffer + sent, count - sent) took n bytes
SendPart(n) == SubSeq(Frame, sent + 1, sent + n)

\* One iteration of the sendbuf loop: poll for POLLOUT, send() any part of
\* the rest; once sent reaches the count, the driver closes the link and
\* returns 0.
SendChunk ==
    /\ lpc = "send"
    /\ sent < Count
    /\ \E n \in 1..(Count - sent) :
          /\ link' = link \o SendPart(n)
          /\ IF sent + n = Count
             THEN /\ results' = Append(results, "OK")
                  /\ contrib' = Append(contrib, Count)
                  /\ lpc' = "prepare" /\ sent' = 0 /\ linkOpen' = CloseLink
             ELSE sent' = sent + n /\ UNCHANGED <<lpc, results, contrib, linkOpen>>
    /\ UNCHANGED faulty

\* poll fails or times out (PROTOCOL_ERROR), or send() fails: sendbuf
\* returns a negative code, sent != n + 1, and the driver closes the link
\* and returns its error code, whatever part of the frame is on the link.
SendFail ==
    /\ lpc = "send"
    /\ faulty
    /\ Finish(Driver(Current).error)
    /\ linkOpen' = CloseLink
    /\ UNCHANGED <<link, faulty>>

\* Every call has returned.
AllReturned ==
    /\ Len(results) = Len(Calls)
    /\ UNCHANGED vars

Next == OpenLink \/ SendChunk \/ SendFail \/ AllReturned

Spec == Init /\ [][Next]_vars

-----------------------------------------------------------------------------
\* The bytes of returned call i on the link: a prefix of its frame.
Sent(i) == SubSeq(CommandFrame(Driver(Calls[i])), 1, contrib[i])

\* The byte pipe holds, in call order, a prefix of each call's frame,
\* followed by the part of the current call's frame sendbuf has sent so far,
\* and a call that returned 0 sent its whole frame: however send() split
\* the frame, sendbuf resumed where the last send stopped.  A call that
\* failed after part of its frame leaves a truncated frame that the server
\* will read as the head of the next one; the caller is told by an error.
LinkBytes ==
    /\ link = FlattenSeq([i \in DOMAIN contrib |-> Sent(i)])
                \o (IF lpc = "send" THEN SubSeq(Frame, 1, sent) ELSE << >>)
    /\ \A i \in DOMAIN results :
          results[i] = "OK" <=> contrib[i] = Len(CommandFrame(Driver(Calls[i])))

=============================================================================
