--------------------------- MODULE ExtractClient ---------------------------
(***************************************************************************)
(* The legacy pipe client of src/library/protocol.c extracting a file:     *)
(* _twopence_extract_virtio_serial with the frame codec (store_length,     *)
(* compute_length), __twopence_pipe_read_frame and its recvbuf loop,       *)
(* _twopence_read_size and _twopence_receive_file, and the caller          *)
(* twopence_pipe_extract_file.  The server's reply is a sequence of frames *)
(* encoded to bytes; the link delivers a growing prefix of them and each   *)
(* recv() returns any non-empty part of what has arrived.  Bytes are their *)
(* ASCII codes.                                                            *)
(***************************************************************************)
EXTENDS Naturals, Sequences, SequencesExt, Codec

CONSTANTS
    BufSize,     \* capacity of the receive buffer (BUFFER_SIZE, scaled down)
    Replies,     \* server replies: sequences of [type, len, data] frames
    Users,       \* user names the caller may pass
    Faults,      \* {FALSE}, or BOOLEAN if the link and the local file may fail
    SizeGarbage  \* values the uninitialized "size" may hold

VARIABLES
    user,      \* the user name argument
    reply,     \* the frames the server sends in answer to the command
    avail,     \* bytes of the reply that have reached the client
    pos,       \* bytes of the reply the client has consumed
    buf,       \* the frame buffer filled by read_frame
    want,      \* bytes recvbuf still has to read into buf
    rf,        \* read_frame: "idle", "hdr", "body", "ok" or "err"
    pc,        \* the driver's position
    size,      \* size announced by 's' (or garbage)
    remoteRc,  \* *remote_rc
    remaining, \* bytes receive_file still expects
    file,      \* bytes written to the local file
    linkOpen,  \* link_fd is open
    fd,        \* the local file: "none" before creat, "open", "closed"
    result,    \* return value of twopence_pipe_extract_file, or "none"
    faulty     \* whether this run's link and file may fail

vars == <<user, reply, avail, pos, buf, want, rf, pc, size, remoteRc,
          remaining, file, linkOpen, fd, result, faulty>>

NUL == 0
Digit(d) == 48 + d

\* The bytes of one frame as the server's codec writes them.
Encode(f) == << f.type, 0 >> \o StoreLength(f.len) \o f.data

EncodeAll(r) == FlattenSeq([k \in DOMAIN r |-> Encode(r[k])])

Wire == EncodeAll(reply)

\* _twopence_invalid_username: a character outside [0-9A-Za-z_] is invalid
InvalidUsername(name) ==
    \E k \in DOMAIN name :
        ~ \/ Digit(0) <= name[k] /\ name[k] <= Digit(9)
          \/ 65 <= name[k] /\ name[k] <= 90
          \/ 97 <= name[k] /\ name[k] <= 122
          \/ name[k] = 95

\* sscanf(p, "%d", &v): the decimal prefix of p, or v unchanged if p does
\* not start with a digit.
RECURSIVE DecimalValue(_, _)
DecimalValue(p, acc) ==
    IF p # << >> /\ Digit(0) <= Head(p) /\ Head(p) <= Digit(9)
    THEN DecimalValue(Tail(p), acc * 10 + Head(p) - Digit(0))
    ELSE acc
Scan(p, v) ==
    IF p # << >> /\ Digit(0) <= Head(p) /\ Head(p) <= Digit(9)
    THEN DecimalValue(p, 0) ELSE v

Payload == SubSeq(buf, 5, Len(buf))
Received == ComputeLength(buf) - 4

-----------------------------------------------------------------------------
Init ==
    /\ user \in Users
    /\ reply \in Replies
    /\ avail = 0 /\ pos = 0
    /\ buf = << >> /\ want = 0 /\ rf = "idle"
    /\ pc = "creat"
    /\ size \in SizeGarbage
    /\ remoteRc = 0
    /\ remaining = 0
    /\ file = << >>
    /\ linkOpen = FALSE
    /\ fd = "none"
    /\ result = "none"
    /\ faulty \in Faults

\* close(fd) of the caller, after a successful creat
CloseLocal == IF fd = "open" THEN "closed" ELSE fd

\* The driver leaves with rc ("OK" for 0); the caller maps "OK" with a remote error to
\* REMOTE_FILE_ERROR and closes the local file.
Return(rc, rrc) ==
    /\ pc' = "done"
    /\ result' = IF rc = "OK" /\ rrc # 0 THEN "REMOTE_FILE_ERROR" ELSE rc
    /\ fd' = CloseLocal

\* creat(local_filename) in twopence_pipe_extract_file, before the driver
\* runs: a failure returns PARAMETER_ERROR for ENAMETOOLONG, otherwise
\* LOCAL_FILE_ERROR
Creat ==
    /\ pc = "creat"
    /\ \/ fd' = "open" /\ pc' = "check" /\ UNCHANGED result
       \/ faulty /\ \E rc \in {"PARAMETER_ERROR", "LOCAL_FILE_ERROR"} : Return(rc, remoteRc)
    /\ UNCHANGED <<user, reply, avail, pos, buf, want, rf, size, remoteRc,
                   remaining, file, linkOpen, faulty>>

\* start __twopence_pipe_read_frame: recvbuf of the 4-byte header
StartReadFrame ==
    /\ rf' = "hdr" /\ want' = 4 /\ buf' = << >>

\* the username check that opens _twopence_extract_virtio_serial
CheckUser ==
    /\ pc = "check"
    /\ IF InvalidUsername(user)
       THEN Return("PARAMETER_ERROR", remoteRc)
       ELSE pc' = "open" /\ UNCHANGED <<result, fd>>
    /\ UNCHANGED <<user, reply, avail, pos, buf, want, rf, size, remoteRc,
                   remaining, file, linkOpen, faulty>>

\* __twopence_pipe_open_link
OpenLink ==
    /\ pc = "open"
    /\ \/ linkOpen' = TRUE /\ pc' = "send" /\ UNCHANGED <<result, fd>>
       \/ faulty /\ Return("OPEN_SESSION_ERROR", remoteRc) /\ UNCHANGED linkOpen
    /\ UNCHANGED <<user, reply, avail, pos, buf, want, rf, size, remoteRc,
                   remaining, file, faulty>>

\* __twopence_pipe_sendbuf of the command; then _twopence_read_size starts
\* its read_frame
SendCommand ==
    /\ pc = "send"
    /\ \/ pc' = "readsize" /\ StartReadFrame /\ UNCHANGED <<linkOpen, result, fd>>
       \/ faulty /\ linkOpen' = FALSE /\ Return("SEND_COMMAND_ERROR", remoteRc)
          /\ UNCHANGED <<buf, want, rf>>
    /\ UNCHANGED <<user, reply, avail, pos, size, remoteRc, remaining, file, faulty>>

\* one poll + recv of __twopence_pipe_recvbuf: any part of what arrived
Recv ==
    /\ rf \in {"hdr", "body"}
    /\ want > 0
    /\ \E n \in 1..want :
          /\ pos + n <= avail
          /\ buf' = buf \o SubSeq(Wire, pos + 1, pos + n)
          /\ pos' = pos + n
          /\ want' = want - n
    /\ UNCHANGED <<user, reply, avail, rf, pc, size, remoteRc, remaining,
                   file, linkOpen, fd, result, faulty>>

\* recvbuf fails: poll or recv error, or, once the server has sent all it
\* will send, the link timeout or EOF (PROTOCOL_ERROR)
RecvFail ==
    /\ rf \in {"hdr", "body"}
    /\ want > 0
    /\ faulty \/ (pos = avail /\ avail = Len(Wire))
    /\ rf' = "err"
    /\ UNCHANGED <<user, reply, avail, pos, buf, want, pc, size, remoteRc,
                   remaining, file, linkOpen, fd, result, faulty>>

\* mutant: no "length < 4" check
LengthOKNoMinimum(length) == length <= BufSize
\* mutant: the "length > size" check one byte too generous
LengthOKOffByOne(length) == length <= BufSize + 1 /\ length >= 4

\* read_frame's check of the announced length
LengthOK(length) == length <= BufSize /\ length >= 4

\* mutant: one byte too many after the header
BodyWantOffByOne(length) == length - 3

\* the bytes of the frame after its header
BodyWant(length) == length - 4

\* read_frame after the header: check the announced length, then recvbuf
\* the rest of the frame
HeaderDone ==
    /\ rf = "hdr"
    /\ want = 0
    /\ LET length == ComputeLength(buf) IN
          IF ~LengthOK(length)
          THEN rf' = "err" /\ UNCHANGED want
          ELSE rf' = "body" /\ want' = BodyWant(length)
    /\ UNCHANGED <<user, reply, avail, pos, buf, pc, size, remoteRc,
                   remaining, file, linkOpen, fd, result, faulty>>

BodyDone ==
    /\ rf = "body"
    /\ want = 0
    /\ rf' = "ok"
    /\ UNCHANGED <<user, reply, avail, pos, buf, want, pc, size, remoteRc,
                   remaining, file, linkOpen, fd, result, faulty>>

\* The server's reply reaches the client once the command has been sent.
Deliver ==
    /\ pc \notin {"creat", "check", "open", "send"}
    /\ avail < Len(Wire)
    /\ avail' = avail + 1
    /\ UNCHANGED <<user, reply, pos, buf, want, rf, pc, size, remoteRc,
                   remaining, file, linkOpen, fd, result, faulty>>

\* _twopence_read_size on the frame read: 's' gives the size, 'M' the
\* remote error; then "if (size >= 0)" receive_file, else close and return
ReadSize ==
    /\ pc = "readsize"
    /\ rf \in {"ok", "err"}
    /\ IF rf = "err" \/ buf[1] \notin {115, 77}
       THEN /\ linkOpen' = FALSE
            /\ Return("RECEIVE_FILE_ERROR", remoteRc)
            /\ UNCHANGED <<size, remoteRc, remaining, rf>>
       ELSE LET size1 == IF buf[1] = 115 THEN Scan(Payload, size) ELSE size
                rrc1  == IF buf[1] = 77 THEN Scan(Payload, remoteRc) ELSE remoteRc
            IN  /\ size' = size1
                /\ remoteRc' = rrc1
                /\ IF size1 >= 0
                   THEN /\ pc' = "recvfile" /\ remaining' = size1 /\ rf' = "idle"
                        /\ UNCHANGED <<linkOpen, result, fd>>
                   ELSE /\ linkOpen' = FALSE
                        /\ Return("OK", rrc1)
                        /\ UNCHANGED <<remaining, rf>>
    /\ UNCHANGED <<user, reply, avail, pos, buf, want, file, faulty>>

\* _twopence_receive_file loop head: read a frame while bytes remain;
\* when none remain, extract closes the link and returns 0
ReceiveFileLoop ==
    /\ pc = "recvfile"
    /\ rf = "idle"
    /\ IF remaining > 0
       THEN StartReadFrame /\ UNCHANGED <<pc, linkOpen, result, fd>>
       ELSE linkOpen' = FALSE /\ Return("OK", remoteRc) /\ UNCHANGED <<buf, want, rf>>
    /\ UNCHANGED <<user, reply, avail, pos, size, remoteRc, remaining, file, faulty>>

\* mutant: no "received > remaining" check
FrameFitsUnchecked == Received >= 0

\* receive_file's check of a data frame's length
FrameFits == Received >= 0 /\ Received <= remaining

\* mutant: remaining is not decreased
ConsumeNoCount == remaining

\* remaining -= received
Consume == remaining - Received

\* _twopence_receive_file on the frame read: a 'd' frame of at most the
\* remaining bytes is written to the file; any failure makes extract
\* return RECEIVE_FILE_ERROR without closing the link.
ReceiveFileFrame ==
    /\ pc = "recvfile"
    /\ rf \in {"ok", "err"}
    /\ IF rf = "err" \/ buf[1] # 100 \/ ~FrameFits
       THEN Return("RECEIVE_FILE_ERROR", remoteRc) /\ UNCHANGED <<rf, remaining, file>>
       ELSE IF Received = 0
       THEN rf' = "idle" /\ UNCHANGED <<pc, result, remaining, file, fd>>
       ELSE \/ /\ file' = file \o Payload
               /\ remaining' = Consume
               /\ rf' = "idle"
               /\ UNCHANGED <<pc, result, fd>>
            \/ /\ faulty
               /\ Return("RECEIVE_FILE_ERROR", remoteRc)
               /\ UNCHANGED <<rf, remaining, file>>
    /\ UNCHANGED <<user, reply, avail, pos, buf, want, size, remoteRc, linkOpen, faulty>>

\* twopence_pipe_extract_file has returned.
Returned ==
    /\ pc = "done"
    /\ UNCHANGED vars

Client == Creat \/ CheckUser \/ OpenLink \/ SendCommand \/ Recv \/ RecvFail \/ HeaderDone
          \/ BodyDone \/ ReadSize \/ ReceiveFileLoop \/ ReceiveFileFrame

Next == Client \/ Deliver \/ Returned

Spec == Init /\ [][Next]_vars

\* The client runs whenever it can; the server sends its whole reply.
FairSpec == Spec /\ WF_vars(Client) /\ WF_vars(Deliver)

-----------------------------------------------------------------------------
Result == {"none", "OK", "PARAMETER_ERROR", "LOCAL_FILE_ERROR", "OPEN_SESSION_ERROR", "SEND_COMMAND_ERROR",
           "RECEIVE_FILE_ERROR", "REMOTE_FILE_ERROR"}

TypeOK ==
    /\ avail \in 0..Len(Wire) /\ pos \in 0..avail
    /\ want \in Nat /\ rf \in {"idle", "hdr", "body", "ok", "err"}
    /\ pc \in {"creat", "check", "open", "send", "readsize", "recvfile", "done"}
    /\ remaining \in Int /\ linkOpen \in BOOLEAN /\ result \in Result
    /\ fd \in {"none", "open", "closed"}
    /\ faulty \in BOOLEAN

\* The payload bytes of the reply's 'd' frames, in order.
DataBytes(r) == FlattenSeq([k \in DOMAIN r |-> IF r[k].type = 100 THEN r[k].data ELSE << >>])

\* The size the server announced in its first frame, if that is 's'.
Announced(r) == DecimalValue(r[1].data, 0)

\* read_frame never stores more than the receive buffer holds, however the
\* server's length field is set (the length checks of read_frame).
BufferBound == Len(buf) <= BufSize

\* Framing stays in step with the server: each frame read_frame returns is
\* the next frame the server sent, whole, however recv split the bytes.
FrameSync ==
    rf = "ok" =>
        \E k \in 1..Len(reply) :
            /\ buf = Encode(reply[k])
            /\ pos = Len(EncodeAll(SubSeq(reply, 1, k)))

\* An extract that returns 0 after an 's' answer has written exactly the
\* announced number of bytes, and they are the server's data in order
\* (the remaining bookkeeping of _twopence_receive_file).
ExtractExact ==
    (result = "OK" /\ reply[1].type = 115) =>
        /\ Len(file) = Announced(reply)
        /\ IsPrefix(file, DataBytes(reply))

\* With a link and file that do not fail, a valid user and a server that
\* sends well-formed frames that fit the buffer and announces the size it
\* then sends, the extract returns 0.
WellFormed(f) == f.len = 4 + Len(f.data) /\ f.len <= BufSize
GoodReply(r) ==
    /\ r[1].type = 115
    /\ \A k \in DOMAIN r : WellFormed(r[k])
    /\ Len(DataBytes(r)) = Announced(r)
Completes == (~faulty /\ ~InvalidUsername(user) /\ GoodReply(reply)) => <>(result = "OK")

\* Every return of the extract leaves the link closed (spec: "the link is
\* always closed on any error").
LinkReleased == pc = "done" => ~linkOpen

\* A server answering the extract with 'M' and a non-zero errno makes the
\* extract report REMOTE_FILE_ERROR.
MissingFileReported == (pc = "done" /\ remoteRc # 0) => result = "REMOTE_FILE_ERROR"

\* The empty user name is rejected with PARAMETER_ERROR, as spec section 8
\* requires of the user-name check.
EmptyUserRejected == (pc = "done" /\ user = << >>) => result = "PARAMETER_ERROR"

=============================================================================
