----------------------------- MODULE ForcedPoll -----------------------------
(***************************************************************************)
(* What Poller.PollNow promises, without its batches, channel and loop: a  *)
(* caller that is told its poll has happened finds a snapshot read after   *)
(* it asked, or a poller that says its last poll failed.                   *)
(***************************************************************************)
EXTENDS Integers

CONSTANTS Caller, MaxWorld

VARIABLES
    world,      \* how often the tmux tree has changed
    latest,     \* the change up to which the published snapshot is current
    failed,     \* whether the poller reports that its last poll failed
    asked,      \* caller -> the tree it acted on
    answer      \* caller -> "none", "waiting", "settled" or "refused"

vars == <<world, latest, failed, asked, answer>>

Init ==
    /\ world = 0
    /\ latest = 0
    /\ failed = FALSE
    /\ asked = [c \in Caller |-> 0]
    /\ answer = [c \in Caller |-> "none"]

Change ==
    /\ world < MaxWorld
    /\ world' = world + 1
    /\ UNCHANGED <<latest, failed, asked, answer>>

Ask(c) ==
    /\ answer[c] = "none"
    /\ world' \in {world, world + 1} /\ world' <= MaxWorld
    /\ asked' = [asked EXCEPT ![c] = world']
    /\ answer' = [answer EXCEPT ![c] = "waiting"]
    /\ UNCHANGED <<latest, failed>>

\* A poll publishes a tree no older than the one before it ...
Publish ==
    /\ latest' \in latest .. world
    /\ failed' = FALSE
    /\ UNCHANGED <<world, asked, answer>>

\* ... or fails and leaves the snapshot alone.
Fail ==
    /\ failed' = TRUE
    /\ UNCHANGED <<world, latest, asked, answer>>

Settle(c) ==
    /\ answer[c] = "waiting"
    /\ latest >= asked[c] \/ failed
    /\ answer' = [answer EXCEPT ![c] = "settled"]
    /\ UNCHANGED <<world, latest, failed, asked>>

\* The caller ran out of time, or the poller has stopped.
Refuse(c) ==
    /\ answer[c] = "waiting"
    /\ answer' = [answer EXCEPT ![c] = "refused"]
    /\ UNCHANGED <<world, latest, failed, asked>>

Next ==
    \/ Change \/ Publish \/ Fail
    \/ \E c \in Caller : Ask(c) \/ Settle(c) \/ Refuse(c)

Spec == Init /\ [][Next]_vars

=============================================================================
