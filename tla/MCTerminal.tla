---------------------------- MODULE MCTerminal ----------------------------
(***************************************************************************)
(* One tab that remembers the second of two panes.                         *)
(***************************************************************************)
EXTENDS Terminal

CONSTANTS p1, p2, none

MCPane == {p1, p2}

\* What is drawn and typed comes after the tab has asked where it is, and leaves
\* either the pump or the read loop with more than it can put anywhere.  A pane
\* dies before that, and only then can destroy-unattached have failed to be
\* set.  A ping goes out to a browser that has stopped reading.
MCBound ==
    /\ alive' # alive => client = "attaching"
    /\ client' = "attached" => (net' <=> alive' = Pane)
    /\ drawn' + typed' > drawn + typed => "where" \notin {sent[i] : i \in 1 .. Len(sent)}
    /\ drawn' + typed' < MaxOutput + MaxKeys
    /\ pg = "waiting" /\ pg' = "pinging" => browser # "reading"

=============================================================================
