--------------------------- MODULE MCTypedInput ---------------------------
(***************************************************************************)
(* One tab, two panes and three sockets.                                   *)
(***************************************************************************)
EXTENDS TypedInput

CONSTANTS p1, p2, none

MCPane == {p1, p2}

\* A tab is pointed elsewhere while it has a socket or something of the user's, and
\* has a socket there, too.
MCBound ==
    phase # "connecting" /\ phase' = "connecting" =>
        (phase = "ready" \/ orphan # NoOrphan) /\ sockets < MaxSockets

=============================================================================
