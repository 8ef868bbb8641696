--------------------------- MODULE MCLinkCommands ---------------------------
(* An interrupt followed by the exit command on the same byte pipe.       *)
EXTENDS LinkCommands

InterruptThenExit == << "interrupt", "exit" >>
=============================================================================
