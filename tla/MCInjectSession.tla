--------------------------- MODULE MCInjectSession ---------------------------
(* The inject client against the server's inject transaction: the client  *)
(* writes on the link itself, so the server has no scripted packets.       *)
EXTENDS InjectSession

NoScripts == {<< >>}
=============================================================================
