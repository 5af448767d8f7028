----------------------------- MODULE TypedInput -----------------------------
(***************************************************************************)
(* What a person types into a browser tab, across the sockets that carry   *)
(* it: the journal of web/src/lib/transport.ts, the session of             *)
(* web/src/components/Terminal.tsx that rescues a dead socket's journal,   *)
(* and the daemon's acknowledgements (internal/front/ws.go).               *)
(*                                                                         *)
(* A key is a byte of input, numbered in the order of typing.  What the    *)
(* terminal itself writes in answer to tmux is left out, and so is what    *)
(* follows the closing of the tab.                                         *)
(***************************************************************************)
EXTENDS Integers, Sequences

CONSTANTS
    Pane, NoPane,
    First,          \* the pane a new socket's tmux session is on
    JournalCap,     \* UNACKED_LIMIT_BYTES
    CtrlCap,        \* wsControlBuffer, and what the network holds
    MaxKeys,        \* bound on what is typed
    MaxSockets,     \* bound on the sockets of the tab
    MaxFlight       \* bound on the frames under way to the daemon

ASSUME PaneAssumption == First \in Pane /\ NoPane \notin Pane
ASSUME CapAssumption == {JournalCap, CtrlCap} \subseteq Nat \ {0}
ASSUME BoundAssumption == {MaxKeys, MaxSockets, MaxFlight} \subseteq Nat

VARIABLES
    phase,      \* #phase: "connecting", "ready", "reconnecting", "ended" or "gone"
    pane,       \* #pane: where the tab believes it is
    asking,     \* #awaitingWhere
    typed,      \* #typedSinceOpen
    orphan,     \* #orphan
    journal,    \* Transport.#journal
    truncated,  \* Transport.#truncated
    wire,       \* the keys sent on this socket, whose number is #sentBytes
    up,         \* frames under way to the daemon
    down,       \* messages under way to the browser
    cur,        \* the pane this socket's tmux session is on
    written,    \* readLoop's count of input handed to the pty
    sockets,    \* sockets opened so far
    alive,      \* the panes that have not died
    typedAt,    \* key -> the pane the tab was on when it was typed
    reached,    \* keys that have been written to a pty
    cut,        \* keys that fell out of the journal at its cap
    back,       \* keys whose text was given back to the user
    dropped,    \* keys that went with a session of the tab that was stopped
    replayed    \* keys sent again on this socket, and the pane it was on

tabVars == <<phase, pane, asking, typed>>
journalVars == <<journal, truncated, wire>>
daemonVars == <<cur, written, reached>>
typedVars == <<tabVars, orphan, journalVars, up, down, daemonVars, sockets, alive, typedAt, cut, back, dropped, replayed>>

Keys == 1 .. MaxKeys
KeysOf(s) == {s[i] : i \in 1 .. Len(s)}

Orphan == [keys : Seq(Keys), pane : Pane \cup {NoPane}, truncated : BOOLEAN]
NoOrphan == [keys |-> <<>>, pane |-> NoPane, truncated |-> FALSE]

TypedInit ==
    /\ phase = "connecting" /\ pane = NoPane /\ asking = FALSE /\ typed = FALSE
    /\ orphan = NoOrphan
    /\ journal = <<>> /\ truncated = FALSE /\ wire = <<>>
    /\ up = <<>> /\ down = <<>>
    /\ cur = First /\ written = 0 /\ reached = {}
    /\ sockets = 0 /\ alive = Pane
    /\ typedAt = <<>> /\ cut = {} /\ back = {} /\ dropped = {} /\ replayed = {}

Frame == [type : {"key"}, key : Keys] \cup [type : {"select"}, pane : Pane] \cup [type : {"where"}]
Message == [type : {"ack"}, bytes : Nat] \cup [type : {"pane"}, pane : Pane]

Key(k) == [type |-> "key", key |-> k]
Select(p) == [type |-> "select", pane |-> p]
Where == [type |-> "where"]

\* The remembered pane first, and then the question.
Locate == IF pane = NoPane THEN <<Where>> ELSE <<Select(pane), Where>>

-----------------------------------------------------------------------------
(* The transport *)

\* The last n elements of s.
Newest(s, n) == SubSeq(s, Len(s) - n + 1, Len(s))

\* send: what is sent is journaled, and the oldest of it is dropped at the cap.
Send(keys) ==
    LET all == journal \o keys
        over == IF Len(all) > JournalCap THEN Len(all) - JournalCap ELSE 0
    IN /\ wire' = wire \o keys
       /\ journal' = Newest(all, Len(all) - over)
       /\ truncated' = (truncated \/ over > 0)
       /\ cut' = cut \cup KeysOf(SubSeq(all, 1, over))
       /\ up' = up \o [i \in 1 .. Len(keys) |-> Key(keys[i])]

\* noteAck: an acknowledgement is the number of bytes of this socket that the pty
\* has, and frees what lies below it.
NoteAck(n) ==
    LET left == Len(wire) - n
    IN /\ journal' = IF left < Len(journal) THEN Newest(journal, left) ELSE journal
       /\ truncated' = (truncated /\ journal' # <<>>)
       /\ UNCHANGED wire

-----------------------------------------------------------------------------
(* The session of the tab *)

\* Mistake: the newest socket's text replaces what was held.
RescueNewest ==
    IF journal = <<>> THEN orphan
    ELSE [keys |-> journal, pane |-> pane, truncated |-> truncated]

\* rescue: what a dead socket was never told had arrived is appended to what is
\* already held, and is taken for the pane of now.
Rescue ==
    IF journal = <<>> THEN orphan
    ELSE [keys |-> orphan.keys \o journal, pane |-> pane, truncated |-> orphan.truncated \/ truncated]

\* Mistake: the check for what was typed on this socket is missing.
SafeUnlessCut(p) == orphan.pane = p /\ ~orphan.truncated

\* settleOrphan's three conditions.
Safe(p) == orphan.pane = p /\ ~typed /\ ~orphan.truncated

\* settleOrphan: the held text is sent again or given back.
SettleOrphan(p) ==
    /\ orphan' = NoOrphan
    /\ IF orphan.keys # <<>> /\ Safe(p)
       THEN /\ Send(orphan.keys)
            /\ replayed' = replayed \cup {[key |-> k, pane |-> p] : k \in KeysOf(orphan.keys)}
            /\ UNCHANGED back
       ELSE /\ back' = back \cup KeysOf(orphan.keys)
            /\ UNCHANGED <<journalVars, up, cut, replayed>>

\* connect and opened: a new transport, in a tmux session of its own.
Open ==
    /\ phase # "ready" /\ sockets < MaxSockets
    /\ sockets' = sockets + 1
    /\ phase' = "ready" /\ typed' = FALSE /\ asking' = TRUE
    /\ journal' = <<>> /\ truncated' = FALSE /\ wire' = <<>> /\ replayed' = {}
    /\ up' = Locate /\ down' = <<>>
    /\ cur' = First /\ written' = 0
    /\ UNCHANGED <<pane, orphan, reached, alive, typedAt, cut, back, dropped>>

\* write: nothing is taken from the user before the socket is ready.
Type ==
    /\ phase = "ready" /\ Len(typedAt) < MaxKeys /\ Len(up) < MaxFlight
    /\ typedAt' = Append(typedAt, pane)
    /\ Send(<<Len(typedAt) + 1>>)
    /\ typed' = TRUE
    /\ UNCHANGED <<phase, pane, asking, orphan, down, daemonVars, sockets, alive, back, replayed, dropped>>

\* A click outranks an answer that is still under way.
Click(p) ==
    /\ pane # p /\ Len(up) < MaxFlight
    /\ pane' = p
    /\ asking' = FALSE
    /\ up' = IF phase = "ready" THEN Append(up, Select(p)) ELSE up
    /\ UNCHANGED <<phase, typed, orphan, journalVars, down, daemonVars, sockets, alive, typedAt, cut, back, replayed, dropped>>

\* wake on a socket that claims to be open and has been quiet.
Wake ==
    /\ phase = "ready" /\ up = <<>> /\ ~asking
    /\ up' = Locate
    /\ asking' = TRUE
    /\ UNCHANGED <<phase, pane, typed, orphan, journalVars, down, daemonVars, sockets, alive, typedAt, cut, back, replayed, dropped>>

\* An acknowledgement, or the answer to a question that is still open (landed).
Receive ==
    /\ phase = "ready" /\ down # <<>>
    /\ down' = Tail(down)
    /\ LET m == Head(down)
       IN \/ /\ m.type = "ack" /\ NoteAck(m.bytes)
             /\ UNCHANGED <<pane, asking, orphan, up, cut, back, replayed>>
          \/ /\ m.type = "pane" /\ asking
             /\ asking' = FALSE /\ pane' = m.pane
             /\ SettleOrphan(m.pane)
          \/ /\ m.type = "pane" /\ ~asking
             /\ UNCHANGED <<pane, asking, orphan, journalVars, up, cut, back, replayed>>
    /\ UNCHANGED <<phase, typed, daemonVars, sockets, alive, typedAt, dropped>>

\* Keys among the first n frames under way.
KeysUnderWay(n) == {up[i].key : i \in {j \in 1 .. n : up[j].type = "key"}}

\* closed and discard: the socket is over for the browser, and the daemon has yet
\* to read some of what was sent on it.  A socket that ended the session (close
\* code 1000) is not replaced, and what is held is given back.
SocketDies ==
    /\ phase = "ready"
    /\ \E n \in 0 .. Len(up) : reached' = reached \cup KeysUnderWay(n)
    /\ \/ phase' = "reconnecting" /\ orphan' = Rescue /\ UNCHANGED back
       \/ phase' = "ended" /\ orphan' = NoOrphan /\ back' = back \cup KeysOf(Rescue.keys)
    /\ asking' = FALSE
    /\ journal' = <<>> /\ truncated' = FALSE /\ wire' = <<>> /\ replayed' = {}
    /\ up' = <<>> /\ down' = <<>>
    /\ UNCHANGED <<pane, typed, cur, written, sockets, alive, typedAt, cut, dropped>>

\* stop, and then another TerminalSession: the tab is pointed at another session, or
\* at the same one under another address.  What its socket was not told had arrived,
\* and what it held of the sockets before, goes with the old one.  A pane that the new
\* one remembers is a click before its socket opens.
Stop ==
    /\ \E n \in 0 .. Len(up) : reached' = reached \cup KeysUnderWay(n)
    /\ dropped' = dropped \cup KeysOf(orphan.keys) \cup KeysOf(journal)
    /\ phase' = "connecting" /\ pane' = NoPane /\ alive' = Pane
    /\ asking' = FALSE /\ typed' = FALSE /\ orphan' = NoOrphan
    /\ journal' = <<>> /\ truncated' = FALSE /\ wire' = <<>> /\ replayed' = {}
    /\ up' = <<>> /\ down' = <<>>
    /\ UNCHANGED <<cur, written, sockets, typedAt, cut, back>>

\* markGone: a probe found that the base session does not exist.
MarkGone ==
    /\ phase \in {"reconnecting", "ended"}
    /\ phase' = "gone"
    /\ UNCHANGED <<pane, asking, typed, orphan, journalVars, up, down, daemonVars, sockets, alive, typedAt, cut, back, replayed, dropped>>

-----------------------------------------------------------------------------
(* The daemon's end of the socket, and tmux *)

\* A message that finds the control queue full is dropped.
Offer(m) == down' = IF Len(down) < CtrlCap THEN Append(down, m) ELSE down

\* readLoop, one frame.  A select of a dead pane, and a question tmux does not
\* answer, are logged and dropped.
ReadFrame ==
    /\ phase = "ready" /\ up # <<>>
    /\ up' = Tail(up)
    /\ LET m == Head(up)
       IN \/ /\ m.type = "key"
             /\ reached' = reached \cup {m.key}
             /\ written' = written + 1
             /\ Offer([type |-> "ack", bytes |-> written + 1])
             /\ UNCHANGED cur
          \/ /\ m.type = "select"
             /\ cur' = IF m.pane \in alive THEN m.pane ELSE cur
             /\ UNCHANGED <<reached, written, down>>
          \/ /\ m.type = "where"
             /\ Offer([type |-> "pane", pane |-> cur])
             /\ UNCHANGED <<reached, written, cur>>
          \/ /\ m.type \in {"select", "where"}
             /\ UNCHANGED <<reached, written, cur, down>>
    /\ UNCHANGED <<tabVars, orphan, journalVars, sockets, alive, typedAt, cut, back, replayed, dropped>>

PaneDies ==
    \E p \in alive \ {First} :
        /\ alive' = alive \ {p}
        /\ cur' = IF cur = p THEN First ELSE cur
        /\ UNCHANGED <<tabVars, orphan, journalVars, up, down, written, reached, sockets, typedAt, cut, back, replayed, dropped>>

-----------------------------------------------------------------------------

TypedNext ==
    \/ Open \/ Type \/ Wake \/ Receive \/ SocketDies \/ Stop \/ MarkGone
    \/ \E p \in Pane : Click(p)
    \/ ReadFrame \/ PaneDies

TypedSpec == TypedInit /\ [][TypedNext]_typedVars

-----------------------------------------------------------------------------
(* Properties *)

TypedTypeOK ==
    /\ phase \in {"connecting", "ready", "reconnecting", "ended", "gone"}
    /\ pane \in Pane \cup {NoPane} /\ {asking, typed, truncated} \subseteq BOOLEAN
    /\ orphan \in Orphan
    /\ {journal, wire} \subseteq Seq(Keys) /\ Len(journal) <= JournalCap
    /\ cur \in Pane /\ alive \subseteq Pane /\ written \in Nat /\ sockets \in 0 .. MaxSockets
    /\ up \in Seq(Frame) /\ down \in Seq(Message)
    /\ typedAt \in Seq(Pane \cup {NoPane}) /\ Len(typedAt) <= MaxKeys
    /\ {reached, cut, back, dropped} \subseteq SUBSET Keys
    /\ replayed \subseteq [key : Keys, pane : Pane]

\* Whatever was typed into a ready tab has reached a pty, or is still held by the
\* tab, or has been given back -- except for what the journal's cap dropped, and
\* what a tab dropped that was pointed elsewhere.
NoKeyIsLost ==
    \A k \in 1 .. Len(typedAt) :
        k \in reached \cup back \cup cut \cup dropped \cup KeysOf(journal) \cup KeysOf(orphan.keys)

\* What a socket carries is in the order of typing, sent again or not; and what is
\* sent again does not begin in the middle of what a dead socket lost.
ReplayIsWhole ==
    /\ \A i \in 1 .. Len(wire) - 1 : wire[i] < wire[i + 1]
    /\ \A r \in replayed : r.key - 1 \in cut => r.key - 1 \in reached \cup KeysOf(wire)

\* What the comment of #orphan says: text is refused rather than misdirected when
\* the tab has moved since it was typed.
ReplayStaysOnItsPane == \A r \in replayed : typedAt[r.key] \in {NoPane, r.pane}

\* What the comment of #closed says of text that no socket will come for.
GoneIsGivenBack == phase = "gone" => orphan = NoOrphan

\* What the comment of onLostInput says of text that cannot be sent again: it is
\* handed back as text, so that the user can have it rather than lose it.
DroppedIsGivenBack == dropped \subseteq reached \cup back

-----------------------------------------------------------------------------
(* What makes them inductive *)

\* A tab without a socket has nothing of one.
NothingBetween ==
    phase # "ready" =>
        /\ journal = <<>> /\ wire = <<>> /\ up = <<>> /\ down = <<>>
        /\ replayed = {} /\ ~truncated

Increasing(keys) == \A i, j \in 1 .. Len(keys) : i < j => keys[i] < keys[j]

\* What is held, and then what the socket carries, is in the order of typing; what is
\* held was typed before.
InOrder ==
    /\ Increasing(orphan.keys) /\ Increasing(wire)
    /\ \A h \in KeysOf(orphan.keys), k \in KeysOf(wire) : h < k
    /\ \A k \in KeysOf(orphan.keys) \cup KeysOf(wire) : k <= Len(typedAt)
    /\ phase = "ready" /\ ~typed /\ orphan.keys # <<>> => wire = <<>>

\* The journal is the newest of what the socket carries.
JournalIsNewest ==
    /\ Len(journal) <= Len(wire)
    /\ \A i \in 1 .. Len(journal) : journal[i] = wire[Len(wire) - Len(journal) + i]

\* The pty has the first of it, and the rest is under way, in order; no more is
\* acknowledged than the pty has.
RestIsUnderWay ==
    phase = "ready" =>
        /\ written <= Len(wire) /\ \A i \in 1 .. written : wire[i] \in reached
        /\ \A i \in 1 .. Len(up) : up[i].type = "key" => up[i].key \in {wire[n] : n \in written + 1 .. Len(wire)}
        /\ \A n \in written + 1 .. Len(wire) : \E i \in 1 .. Len(up) : up[i].type = "key" /\ up[i].key = wire[n]
        /\ \A i, j \in 1 .. Len(up) : i < j /\ up[i].type = "key" /\ up[j].type = "key" => up[i].key < up[j].key
        /\ \A i \in 1 .. Len(down) : down[i].type = "ack" => down[i].bytes <= written

\* A journal that is not marked as truncated has dropped only what the pty has.
MarkIsTrue ==
    /\ truncated => journal # <<>>
    /\ ~truncated => \A i \in 1 .. Len(wire) - Len(journal) : wire[i] \in reached

\* What is cut is never the newest key, and is not held.
CutIsGone ==
    /\ \A k \in cut : k < Len(typedAt)
    /\ cut \cap (KeysOf(journal) \cup KeysOf(orphan.keys)) = {}

\* The text behind a gap, a key that was cut and did not arrive, is on the socket of
\* the gap, or is marked as truncated.
Gaps == {k + 1 : k \in cut \ reached}
GapsAreMarked ==
    /\ \A k \in KeysOf(wire) \cap Gaps : k - 1 \in KeysOf(wire)
    /\ ~orphan.truncated => KeysOf(orphan.keys) \cap Gaps = {}
    /\ \A r \in replayed : r.key \in KeysOf(wire)

TypedInv ==
    /\ TypedTypeOK /\ NothingBetween /\ InOrder /\ JournalIsNewest /\ RestIsUnderWay
    /\ MarkIsTrue /\ CutIsGone /\ GapsAreMarked /\ NoKeyIsLost

=============================================================================
