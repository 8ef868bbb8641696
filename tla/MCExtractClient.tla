--------------------------- MODULE MCExtractClient ---------------------------
(* Server replies to an extract command, for a receive buffer of 7 bytes.  *)
EXTENDS ExtractClient

\* a frame whose length field matches its data, and one whose does not
F(type, data) == [type |-> type, len |-> 4 + Len(data), data |-> data]
Lying(type, len, data) == [type |-> type, len |-> len, data |-> data]

\* "%d" of a one-digit number, NUL-terminated
Num(d) == << Digit(d), NUL >>

Size(d)  == F(115, Num(d))
Major(d) == F(77, Num(d))
Minor(d) == F(109, Num(d))
Data(bs) == F(100, bs)
EOFFrame == F(69, << >>)

\* s 2, d "ab", E, M 0, m 0: the server's extract of a 2-byte file
ReplyOk      == << Size(2), Data(<<97, 98>>), EOFFrame, Major(0), Minor(0) >>
\* s 2 sent as d "a", an empty d, d "b"
ReplySplit   == << Size(2), Data(<<97>>), Data(<< >>), Data(<<98>>) >>
\* M 2: the remote file could not be opened (ENOENT)
ReplyMissing == << Major(2) >>
\* s 3 but only d "ab" before the server stops
ReplyShort   == << Size(3), Data(<<97, 98>>) >>
\* s 1 and then a longer d frame
ReplyLong    == << Size(1), Data(<<97, 98>>) >>
\* a d frame longer than the receive buffer
ReplyOver    == << Size(1), Data(<<97, 98, 99, 100, 101>>) >>
\* s 3 in one d frame that exactly fills the buffer
ReplyFull    == << Size(3), Data(<<97, 98, 99>>) >>
\* s 4 in one d frame one byte longer than the buffer
ReplyOverByOne == << Size(4), Data(<<97, 98, 99, 100>>) >>
\* a header announcing less than a header
ReplyUnder   == << Lying(115, 2, << >>) >>
\* a data frame where the size was expected
ReplyNoSize  == << Data(<<97>>) >>

ShortReplies == {ReplyShort}
MissingReplies == {ReplyMissing}
OkReplies == {ReplyOk}

AllReplies == {ReplyOk, ReplySplit, ReplyMissing, ReplyShort, ReplyLong,
               ReplyOver, ReplyUnder, ReplyNoSize, ReplyFull, ReplyOverByOne}

\* "t" is valid; "t-" is not; the empty name
ValidUser   == << 116 >>
InvalidUser == << 116, 45 >>
EmptyUser   == << >>

ValidUsers == {ValidUser}
EmptyUsers == {EmptyUser}
SomeUsers == {ValidUser, InvalidUser}
AllUsers  == {ValidUser, InvalidUser, EmptyUser}
SomeGarbage == {-1, 0, 1}
=============================================================================
