---------------------------- MODULE InjectSession ----------------------------
(***************************************************************************)
(* The legacy pipe client injecting a file (src/library/protocol.c:        *)
(* twopence_pipe_inject_file, _twopence_inject_virtio_serial,              *)
(* _twopence_read_major, _twopence_send_file, _twopence_read_minor),       *)
(* composed over the link with the server's inject transaction of module   *)
(* Server.  The local file is FileChunks buffers of BUFFER_SIZE - 4 bytes; *)
(* each becomes one 'd' frame.  The client reads t.out as far as it has    *)
(* been transmitted and appends what it sends to the server's inq.         *)
(***************************************************************************)
EXTENDS Server

CONSTANTS
    Faults   \* {FALSE}, or BOOLEAN if the link and the local file may fail

VARIABLES
    ipc,      \* the client driver's position
    crd,      \* frames of t.out the client has read
    left,     \* buffers of the file still to send (remaining)
    sentData, \* 'd' frames the client has put on the link
    remoteRc, \* *remote_rc
    clink,    \* the client's link_fd is open
    iresult,  \* the value twopence_pipe_inject_file returns, or "none"
    faulty    \* whether link and file may fail in this behaviour

ivars == <<ipc, crd, left, sentData, remoteRc, clink, iresult, faulty>>
allvars == <<vars, ivars>>

IInit ==
    /\ Init
    /\ ipc = "check"
    /\ crd = 0
    /\ left = FileChunks
    /\ sentData = 0
    /\ remoteRc = 0
    /\ clink = FALSE
    /\ iresult = "none"
    /\ faulty \in Faults

\* _twopence_inject_virtio_serial returns rc, after closing the link; the
\* caller turns 0 with a non-zero *remote_rc into REMOTE_FILE_ERROR.
IReturn(rc, rrc) ==
    /\ ipc' = "done" /\ clink' = FALSE
    /\ iresult' = IF rc = "OK" /\ rrc # 0 THEN "REMOTE_FILE_ERROR" ELSE rc

\* open() of the local file, the username check and snprintf
ICheck ==
    /\ ipc = "check"
    /\ \/ ipc' = "open" /\ UNCHANGED iresult
       \/ ipc' = "done" /\ iresult' = "PARAMETER_ERROR"
       \/ faulty /\ ipc' = "done" /\ iresult' = "LOCAL_FILE_ERROR"
    /\ UNCHANGED <<crd, left, sentData, remoteRc, clink, faulty>>
    /\ UNCHANGED vars

\* __twopence_pipe_open_link, then __twopence_pipe_sendbuf of the command
IOpen ==
    /\ ipc = "open"
    /\ \/ ipc' = "send" /\ clink' = TRUE /\ UNCHANGED iresult
       \/ faulty /\ ipc' = "done" /\ iresult' = "OPEN_SESSION_ERROR" /\ UNCHANGED clink
    /\ UNCHANGED <<crd, left, sentData, remoteRc, faulty>>
    /\ UNCHANGED vars

ISendCommand ==
    /\ ipc = "send"
    /\ \/ ipc' = "major" /\ UNCHANGED <<clink, iresult>>
       \/ faulty /\ IReturn("SEND_COMMAND_ERROR", remoteRc)
    /\ UNCHANGED <<crd, left, sentData, remoteRc, faulty>>
    /\ UNCHANGED vars

\* mutant: the early-major error path returns without close(link_fd)
MajorErrorKeepLink(rrc) == ipc' = "done" /\ iresult' = "SEND_FILE_ERROR" /\ UNCHANGED clink

\* a non-zero *remote_rc after read_major: close the link, SEND_FILE_ERROR
MajorError(rrc) == IReturn("SEND_FILE_ERROR", rrc)

\* _twopence_read_major: the next frame is read; only an 'M' frame sets
\* *remote_rc.  The driver ignores read_major's return code and tests
\* *remote_rc alone.
IReadMajor ==
    /\ ipc = "major"
    /\ crd < xmitted
    /\ crd' = crd + 1
    /\ LET f   == t.out[crd + 1]
           rrc == IF f.type = MAJOR THEN f.code ELSE remoteRc
       IN  /\ remoteRc' = rrc
           /\ IF rrc # 0 THEN MajorError(rrc)
              ELSE ipc' = "sendfile" /\ UNCHANGED <<clink, iresult>>
    /\ UNCHANGED <<left, sentData, faulty>>
    /\ UNCHANGED vars

\* read_frame inside read_major fails (link error, or no frame within the
\* link timeout); *remote_rc keeps its default 0 and the file is sent.
IReadMajorFail ==
    /\ ipc = "major"
    /\ faulty
    /\ crd = xmitted
    /\ ipc' = "sendfile"
    /\ UNCHANGED <<crd, left, sentData, remoteRc, clink, iresult, faulty>>
    /\ UNCHANGED vars

\* One iteration of _twopence_send_file: read a buffer of the file and send
\* it as a 'd' frame.  A short read ends the transfer (LOCAL_FILE_ERROR,
\* so SEND_FILE_ERROR); a failing sendbuf returns a negative value, which
\* "!__twopence_pipe_sendbuf(...)" does not catch, so the loop goes on.
\* With nothing left the driver goes on to read the minor.
ISendFile ==
    /\ ipc = "sendfile"
    /\ IF left > 0
       THEN \/ /\ inq' = Append(inq, "d")
               /\ left' = left - 1 /\ sentData' = sentData + 1
               /\ UNCHANGED <<ipc, clink, iresult>>
            \/ /\ faulty
               /\ left' = left - 1
               /\ UNCHANGED <<inq, sentData, ipc, clink, iresult>>
            \/ /\ faulty
               /\ IReturn("SEND_FILE_ERROR", remoteRc)
               /\ UNCHANGED <<inq, left, sentData>>
       ELSE ipc' = "minor" /\ UNCHANGED <<inq, left, sentData, clink, iresult>>
    /\ UNCHANGED <<crd, remoteRc, faulty>>
    /\ UNCHANGED <<t, phase, cursor, script, delivered, xmitted, fd, child>>

\* _twopence_read_minor: an 'm' frame gives *remote_rc and the driver
\* returns 0; any other frame is SEND_FILE_ERROR.
IReadMinor ==
    /\ ipc = "minor"
    /\ crd < xmitted
    /\ crd' = crd + 1
    /\ LET f == t.out[crd + 1] IN
          IF f.type = MINOR
          THEN remoteRc' = f.code /\ IReturn("OK", f.code)
          ELSE IReturn("SEND_FILE_ERROR", remoteRc) /\ UNCHANGED remoteRc
    /\ UNCHANGED <<left, sentData, faulty>>
    /\ UNCHANGED vars

\* mutant: read_frame blocks instead of polling with the link timeout
IMinorTimeoutBlocking == FALSE

\* No frame arrives within the link timeout while read_minor polls: the
\* driver closes the link and returns SEND_FILE_ERROR.
IMinorTimeout ==
    /\ ipc = "minor"
    /\ crd = xmitted
    /\ IReturn("SEND_FILE_ERROR", remoteRc)
    /\ UNCHANGED <<crd, left, sentData, remoteRc, faulty>>
    /\ UNCHANGED vars

\* The command frame has reached the server.
CmdSent ==
    \/ ipc \in {"major", "sendfile", "minor"}
    \/ ipc = "done" /\ iresult \notin {"PARAMETER_ERROR", "LOCAL_FILE_ERROR",
                                       "OPEN_SESSION_ERROR", "SEND_COMMAND_ERROR"}

ServerStep ==
    /\ \/ Start /\ CmdSent
       \/ Poll \/ DoIOSink \/ PurgeSinks \/ DoIOSource \/ SendAndPurge
       \/ Dispatch \/ Idle \/ Reap
    /\ UNCHANGED ivars

Client == ICheck \/ IOpen \/ ISendCommand \/ IReadMajor \/ ISendFile \/ IReadMinor
          \/ IMinorTimeout

\* Both sides have stopped.
Finished ==
    /\ ipc = "done"
    /\ phase = "finished" \/ ~CmdSent
    /\ UNCHANGED allvars

INext == ServerStep \/ (LinkXmit /\ UNCHANGED ivars) \/ Client \/ IReadMajorFail \/ Finished

ISpec == IInit /\ [][INext]_allvars

\* The server loop, the kernel and the client keep running; the client's
\* reads end with a frame or with the link timeout.
IFairSpec ==
    /\ ISpec
    /\ WF_allvars(ServerStep)
    /\ WF_allvars(LinkXmit /\ UNCHANGED ivars)
    /\ WF_allvars(Client)


-----------------------------------------------------------------------------
(* Properties *)

(* _twopence_send_file returns 0 ("everything went fine") only when every *)
(* buffer of the file went onto the link: the driver then waits for the   *)
(* minor status of a complete transfer.  sendbuf's negative return on a   *)
(* failed write is not caught by "!__twopence_pipe_sendbuf(...)".         *)
SendFileComplete == ipc = "minor" => sentData = FileChunks

\* The server has reported that it opened the destination file.
ServerOpened == \E i \in DOMAIN t.out : t.out[i] = Frame(MAJOR, 0)

(* Every return of _twopence_inject_virtio_serial after the link was       *)
(* opened goes through close(link_fd): the early-major, send_file and     *)
(* read_minor error paths as well as success.                              *)
ILinkClosed == ipc = "done" => ~clink

(* The client's inject always returns: read_major and read_minor poll the  *)
(* link with a timeout, so a server that never sends the minor status      *)
(* cannot block the caller for ever.                                        *)
InjectReturns == <>(ipc = "done")

(* spec.md 5: the client MUST NOT transmit any 'd' frame before it has     *)
(* received major = 0.  The driver ignores read_major's return code, so a *)
(* failed read leaves *remote_rc at 0 and lets send_file stream the file. *)
NoDataBeforeMajor ==
    sentData > 0 => \E i \in 1..crd : t.out[i] = Frame(MAJOR, 0)

(* spec.md 7, scenario 3: when the server cannot open the destination it   *)
(* answers M errno and the client API returns REMOTE_FILE with that code;  *)
(* the driver returns SEND_FILE_ERROR on a non-zero early major instead.   *)
RemoteErrorReported ==
    (ipc = "done" /\ remoteRc # 0) => iresult = "REMOTE_FILE_ERROR"

(* spec.md 7, scenario 4: over a reliable link, once the server has opened *)
(* the destination, the transfer ends with the server's minor status (m 0 *)
(* after the fsync, or the error of a failed write).  send_file ends      *)
(* without the EOF packet that the server's write_eof callback waits for, *)
(* so the minor never comes and read_minor can only time out.             *)
InjectCompletes ==
    (ServerOpened /\ ~faulty) ~> (Sent(MINOR) # {})

=============================================================================
