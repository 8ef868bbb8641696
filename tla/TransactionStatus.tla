------------------------- MODULE TransactionStatus -------------------------
(***************************************************************************)
(* What a transaction promises its peer (spec.md 3 and 4.3), without the  *)
(* channels that produce it: the transaction is OPEN until its kind hook   *)
(* runs, RUNNING while it may queue frames for the peer, DONE once         *)
(* send_status, fail, fail2 or send_timeout has latched it, and FREED once *)
(* the server loop has reaped it.  Frames queued for the peer only grow;   *)
(* the status frames among them are a prefix of major, minor, or the      *)
(* single timeout frame; a minor or a timeout is only ever queued by the   *)
(* step that ends the transaction; and nothing is queued once it is DONE.  *)
(***************************************************************************)
EXTENDS Naturals, Sequences

CONSTANTS
    MAJOR, MINOR, TIMEOUT   \* frame types of the status frames

VARIABLES
    state,   \* "open", "running", "done" or "freed"
    out      \* the frames queued for the peer, oldest first: [type, code]

avars == <<state, out>>

StatusTypes == {MAJOR, MINOR, TIMEOUT}

\* The status frames of a frame sequence, as their types
Statuses(s) == LET st == SelectSeq(s, LAMBDA f : f.type \in StatusTypes)
               IN  [i \in DOMAIN st |-> st[i].type]

\* The status frames a peer may see, in the order it may see them
StatusPrefixes == {<< >>, <<MAJOR>>, <<MAJOR, MINOR>>, <<TIMEOUT>>}

\* A step that queues frames: what was queued stays, the statuses stay well
\* ordered, and a minor or a timeout ends the transaction.
Emit(st) ==
    /\ Len(out') >= Len(out)
    /\ SubSeq(out', 1, Len(out)) = out
    /\ Statuses(out') \in StatusPrefixes
    /\ st = "running" => \A i \in DOMAIN Statuses(out') : Statuses(out')[i] = MAJOR

AInit == state = "open" /\ out = << >>

\* The kind hook runs: the transaction starts, or fails at once.
Begin ==
    /\ state = "open"
    /\ state' \in {"running", "done"}
    /\ Emit(state')

\* One step of a running transaction: it may queue frames and end.
Run ==
    /\ state = "running"
    /\ state' \in {"running", "done"}
    /\ Emit(state')

\* The server loop reaps a DONE transaction.
Free ==
    /\ state = "done"
    /\ state' = "freed"
    /\ UNCHANGED out

ANext == Begin \/ Run \/ Free

\* A done transaction is eventually freed.
ASpec == AInit /\ [][ANext]_avars /\ WF_avars(Free)

=============================================================================
