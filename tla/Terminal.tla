------------------------------ MODULE Terminal ------------------------------
(***************************************************************************)
(* One terminal socket of the daemon: internal/front/ws.go on top of       *)
(* internal/ptybridge/session.go.  Three loops serve it -- one reads the   *)
(* browser, one writes to it, one pings it -- and a pump reads the pty of  *)
(* a tmux client that was started for this socket alone.  The first loop   *)
(* to end takes the others, the client and its tmux session with it.       *)
(*                                                                         *)
(* tmux, the browser and the network are outside the program.  A timeout   *)
(* may expire whenever the call it bounds has not returned.                *)
(***************************************************************************)
EXTENDS Integers, Sequences

CONSTANTS
    Pane,       \* the panes of the session the tab is grouped onto
    First,      \* the pane a new tab is on
    Remembered, \* the pane the browser asks for when its socket opens
    NoPane,
    OutCap,     \* outputBuffer
    CtrlCap,    \* wsControlBuffer
    PtyCap,     \* writes the pty holds until tmux reads them
    MaxKeys,    \* bound on what is typed
    MaxOutput   \* bound on what tmux draws

ASSUME PaneAssumption == {First, Remembered} \subseteq Pane /\ NoPane \notin Pane
ASSUME CapAssumption == {OutCap, CtrlCap, PtyCap} \subseteq Nat \ {0}
ASSUME BoundAssumption == {MaxKeys, MaxOutput} \subseteq Nat

Frame == {"key", "select", "where", "bad"}

\* wsAckMessage and wsPaneMessage.
Ack == [type : {"ack"}, bytes : Nat]
PaneMessage == [type : {"pane"}, pane : Pane]
Message == Ack \cup PaneMessage

VARIABLES
    client,     \* the tmux client: "attaching", "attached" or "exited"
    session,    \* its throwaway session exists
    net,        \* destroy-unattached is in force on it
    current,    \* the pane the tab is on
    alive,      \* the panes that have not died
    input,      \* writes in the pty that tmux has not read
    drawn,      \* what tmux has written to the pty: 1 .. drawn
    pumped,     \* how much of it the pump has read
    browser,    \* "reading", "stuck" or "gone"
    sent,       \* frames of the browser that have not been read
    typed,      \* keys the browser has sent
    got,        \* output the browser received
    answer,     \* the pane the browser was told it is on
    gaveUp,     \* a tmux call of a control message timed out
    rd,         \* readLoop: the point it is at and the frame it has
    wr,         \* wsWriteLoop, likewise
    pg,         \* pingLoop: "waiting", "pinging" or "done"
    pump,       \* "reading", "overflow" (in Close) or "done"
    out,        \* Session.out
    ctrl,       \* the control messages for the browser
    written,    \* input bytes handed to the pty
    sock,       \* conn is "open" or "closed"
    told,       \* the reason in the close frame the browser received
    exit,       \* the first wsExit: "none", "graceful ...", or "abrupt"
    cancelled,  \* the context the three loops share
    serve,      \* "running", "waiting" (wg.Wait), "closing" (sess.Close), "done"
    closing,    \* Session.Close: "no", "pty", "closed" or "timedout"
    closer      \* who called it first

tmuxVars == <<client, session, net, current, alive, input, drawn>>
browserVars == <<browser, sent, typed>>
loopVars == <<rd, wr, pg, pump>>
serveVars == <<exit, cancelled, serve>>
closeVars == <<closing, closer>>
queueVars == <<out, ctrl, pumped, written>>
heardVars == <<got, answer, told>>
vars == <<tmuxVars, browserVars, loopVars, serveVars, closeVars, queueVars, heardVars, sock, gaveUp>>

Init ==
    /\ client = "attaching" /\ session = FALSE /\ net = FALSE
    /\ current = First /\ alive = Pane
    /\ input = 0 /\ drawn = 0 /\ pumped = 0
    /\ browser = "reading" /\ sent = <<"select", "where">> /\ typed = 0
    /\ got = <<>> /\ answer = NoPane /\ told = "none" /\ gaveUp = FALSE
    /\ rd = [at |-> "reading", frame |-> "key"]
    /\ wr = [at |-> "select", out |-> 0, ctrl |-> <<>>]
    /\ pg = "waiting" /\ pump = "reading"
    /\ out = <<>> /\ ctrl = <<>> /\ written = 0
    /\ sock = "open" /\ exit = "none" /\ cancelled = FALSE /\ serve = "running"
    /\ closing = "no" /\ closer = "none"

\* The first of the three to end decides; done has room for the other two.
Report(how) == exit' = IF exit = "none" THEN how ELSE exit

PtyOpen == closing = "no"

-----------------------------------------------------------------------------
(* The read loop *)

\* conn.Read fails when the socket or the context is done with.
ReadFails ==
    /\ rd.at = "reading" /\ (sock = "closed" \/ cancelled)
    /\ rd' = [rd EXCEPT !.at = "done"]
    /\ Report("abrupt")
    /\ UNCHANGED <<tmuxVars, browserVars, wr, pg, pump, cancelled, serve, closeVars, queueVars, heardVars, sock, gaveUp>>

\* A frame that is not the protocol ends the socket; the others are acted on.
ReadFrame ==
    /\ rd.at = "reading" /\ sock = "open" /\ ~cancelled /\ sent # <<>>
    /\ sent' = Tail(sent)
    /\ rd' = [at |-> IF Head(sent) \in {"select", "where"} THEN "asking"
                     ELSE IF Head(sent) = "key" THEN "writing" ELSE "done",
              frame |-> Head(sent)]
    /\ IF Head(sent) = "bad" THEN Report("graceful unsupported") ELSE UNCHANGED exit
    /\ UNCHANGED <<tmuxVars, browser, typed, wr, pg, pump, cancelled, serve, closeVars, queueVars, heardVars, sock, gaveUp>>

\* A message for the browser is dropped when the queue is full.
Offer(m) == ctrl' = IF Len(ctrl) < CtrlCap THEN Append(ctrl, m) ELSE ctrl

\* sess.Write parks for as long as the pty is full.
WriteInput ==
    /\ rd.at = "writing" /\ PtyOpen /\ client # "exited" /\ input < PtyCap
    /\ input' = input + 1
    /\ written' = written + 1
    /\ Offer([type |-> "ack", bytes |-> written + 1])
    /\ rd' = [rd EXCEPT !.at = "reading"]
    /\ UNCHANGED <<client, session, net, current, alive, drawn, browserVars, wr, pg, pump, serveVars,
                   closeVars, out, pumped, heardVars, sock, gaveUp>>

WriteFails ==
    /\ rd.at = "writing" /\ (~PtyOpen \/ client = "exited")
    /\ rd' = [rd EXCEPT !.at = "done"]
    /\ Report("abrupt")
    /\ UNCHANGED <<tmuxVars, browserVars, wr, pg, pump, cancelled, serve, closeVars, queueVars, heardVars, sock, gaveUp>>

\* Mistake: the form without the wait, in which a missing session is an answer.
AskAtOnce ==
    /\ rd.at = "asking" /\ ~cancelled
    /\ rd' = [rd EXCEPT !.at = "reading"]
    /\ IF rd.frame = "select"
       THEN current' = (IF session /\ Remembered \in alive THEN Remembered ELSE current) /\ UNCHANGED ctrl
       ELSE (IF session THEN Offer([type |-> "pane", pane |-> current]) ELSE UNCHANGED ctrl)
            /\ UNCHANGED current
    /\ UNCHANGED <<client, session, net, alive, input, drawn, browserVars, wr, pg, pump, serveVars,
                   closeVars, out, pumped, written, heardVars, sock, gaveUp>>

\* awaitSession asks again while the session is missing.  A select of a pane
\* that has died fails at once, and is only logged.
Ask ==
    /\ rd.at = "asking" /\ session /\ ~cancelled
    /\ rd' = [rd EXCEPT !.at = "reading"]
    /\ IF rd.frame = "select"
       THEN current' = (IF Remembered \in alive THEN Remembered ELSE current) /\ UNCHANGED ctrl
       ELSE Offer([type |-> "pane", pane |-> current]) /\ UNCHANGED current
    /\ UNCHANGED <<client, session, net, alive, input, drawn, browserVars, wr, pg, pump, serveVars,
                   closeVars, out, pumped, written, heardVars, sock, gaveUp>>

\* attachWait has passed without a session, the call timed out (wsTmuxTimeout),
\* or the context is cancelled.
GiveUp ==
    /\ rd.at = "asking"
    /\ rd' = [rd EXCEPT !.at = "reading"]
    /\ gaveUp' = TRUE
    /\ UNCHANGED <<tmuxVars, browserVars, wr, pg, pump, serveVars, closeVars, queueVars, heardVars, sock>>

-----------------------------------------------------------------------------
(* The write loop *)

WriterStops ==
    /\ wr.at = "select" /\ cancelled
    /\ wr' = [wr EXCEPT !.at = "done"]
    /\ Report("abrupt")
    /\ UNCHANGED <<tmuxVars, browserVars, rd, pg, pump, cancelled, serve, closeVars, queueVars, heardVars, sock, gaveUp>>

TakeControl ==
    /\ wr.at = "select" /\ ctrl # <<>>
    /\ wr' = [at |-> "control", out |-> 0, ctrl |-> <<Head(ctrl)>>]
    /\ ctrl' = Tail(ctrl)
    /\ UNCHANGED <<tmuxVars, browserVars, rd, pg, pump, serveVars, closeVars, out, pumped, written, heardVars, sock, gaveUp>>

TakeOutput ==
    /\ wr.at = "select" /\ out # <<>>
    /\ wr' = [at |-> "data", out |-> Head(out), ctrl |-> <<>>]
    /\ out' = Tail(out)
    /\ UNCHANGED <<tmuxVars, browserVars, rd, pg, pump, serveVars, closeVars, ctrl, pumped, written, heardVars, sock, gaveUp>>

\* A receive from out reports the end of the session once it is closed and empty.
OutputEnds ==
    /\ wr.at = "select" /\ out = <<>> /\ pump = "done"
    /\ wr' = [wr EXCEPT !.at = "done"]
    /\ Report("graceful session ended")
    /\ UNCHANGED <<tmuxVars, browserVars, rd, pg, pump, cancelled, serve, closeVars, queueVars, heardVars, sock, gaveUp>>

\* conn.Write returns when the browser takes the frame.
Deliver ==
    /\ wr.at \in {"control", "data"} /\ sock = "open" /\ browser = "reading"
    /\ got' = IF wr.at = "data" THEN Append(got, wr.out) ELSE got
    /\ answer' = IF wr.at = "control" /\ wr.ctrl[1].type = "pane" THEN wr.ctrl[1].pane ELSE answer
    /\ wr' = [at |-> "select", out |-> 0, ctrl |-> <<>>]
    /\ UNCHANGED <<tmuxVars, browserVars, rd, pg, pump, serveVars, closeVars, queueVars, told, sock, gaveUp>>

DeliverFails ==
    /\ wr.at \in {"control", "data"} /\ (sock = "closed" \/ cancelled)
    /\ wr' = [wr EXCEPT !.at = "done"]
    /\ Report("abrupt")
    /\ UNCHANGED <<tmuxVars, browserVars, rd, pg, pump, cancelled, serve, closeVars, queueVars, heardVars, sock, gaveUp>>

-----------------------------------------------------------------------------
(* The ping loop *)

Ping ==
    /\ pg = "waiting" /\ ~cancelled
    /\ pg' = "pinging"
    /\ UNCHANGED <<tmuxVars, browserVars, rd, wr, pump, serveVars, closeVars, queueVars, heardVars, sock, gaveUp>>

\* The pong is seen by a parked Read; the ping itself waits for a Write in the
\* air.
Pong ==
    /\ pg = "pinging" /\ sock = "open" /\ browser = "reading"
    /\ rd.at = "reading" /\ wr.at = "select"
    /\ pg' = "waiting"
    /\ UNCHANGED <<tmuxVars, browserVars, rd, wr, pump, serveVars, closeVars, queueVars, heardVars, sock, gaveUp>>

\* Mistake: done has room for one report only, and a loop parks on a report it cannot send.
PingEndsUnbuffered ==
    /\ pg = "pinging" \/ (pg = "waiting" /\ cancelled)
    /\ exit = "none"
    /\ pg' = "done"
    /\ Report("abrupt")
    /\ UNCHANGED <<tmuxVars, browserVars, rd, wr, pump, cancelled, serve, closeVars, queueVars, heardVars, sock, gaveUp>>

\* wsPingTimeout, a dead socket, or the cancellation.
PingEnds ==
    /\ pg = "pinging" \/ (pg = "waiting" /\ cancelled)
    /\ pg' = "done"
    /\ Report("abrupt")
    /\ UNCHANGED <<tmuxVars, browserVars, rd, wr, pump, cancelled, serve, closeVars, queueVars, heardVars, sock, gaveUp>>

-----------------------------------------------------------------------------
(* The pump and Session.Close *)

Close(who) == closing' = "pty" /\ closer' = who

\* Mistake: the pump drops what does not fit.
PumpAndDrop ==
    /\ pump = "reading" /\ PtyOpen /\ pumped < drawn
    /\ pumped' = pumped + 1
    /\ out' = IF Len(out) < OutCap THEN Append(out, pumped + 1) ELSE out
    /\ UNCHANGED <<tmuxVars, browserVars, loopVars, serveVars, closeVars, ctrl, written, heardVars, sock, gaveUp>>

\* A read that does not fit in out ends the session.
Pump ==
    /\ pump = "reading" /\ PtyOpen /\ pumped < drawn
    /\ pumped' = pumped + 1
    /\ IF Len(out) < OutCap
       THEN out' = Append(out, pumped + 1) /\ UNCHANGED <<pump, closeVars>>
       ELSE pump' = "overflow" /\ Close("pump") /\ UNCHANGED out
    /\ UNCHANGED <<tmuxVars, browserVars, rd, wr, pg, serveVars, ctrl, written, heardVars, sock, gaveUp>>

PumpEnds ==
    /\ \/ pump = "reading" /\ (~PtyOpen \/ (client = "exited" /\ pumped = drawn))
       \/ pump = "overflow" /\ closing \in {"closed", "timedout"}
    /\ pump' = "done"
    /\ UNCHANGED <<tmuxVars, browserVars, rd, wr, pg, serveVars, closeVars, queueVars, heardVars, sock, gaveUp>>

\* The client is killed and reaped, and the session with it; the tmux call that
\* makes sure of the session may time out (killTimeout).
CloseEnds ==
    /\ closing = "pty"
    /\ client' = "exited"
    /\ \/ closing' = "closed" /\ session' = FALSE
       \/ closing' = "timedout" /\ session' = (session /\ ~net)
    /\ UNCHANGED <<net, current, alive, input, drawn, browserVars, loopVars, serveVars, closer, queueVars, heardVars, sock, gaveUp>>

-----------------------------------------------------------------------------
(* serve *)

\* conn.Close when the exit is graceful, then the cancellation, which aborts
\* what is parked in Read, Write or Ping.
Cancel ==
    /\ serve = "running" /\ exit # "none"
    /\ told' = IF exit # "abrupt" /\ sock = "open" /\ browser = "reading" THEN exit ELSE told
    /\ sock' = "closed"
    /\ cancelled' = TRUE
    /\ serve' = "waiting"
    /\ UNCHANGED <<tmuxVars, browserVars, loopVars, exit, closeVars, queueVars, got, answer, gaveUp>>

LoopsDone == rd.at = "done" /\ wr.at = "done" /\ pg = "done"

\* wg.Wait, then sess.Close, of which only the first call does anything and the
\* others wait for it.
CloseSession ==
    /\ serve = "waiting" /\ LoopsDone
    /\ serve' = "closing"
    /\ IF PtyOpen THEN Close("serve") ELSE UNCHANGED closeVars
    /\ UNCHANGED <<tmuxVars, browserVars, loopVars, exit, cancelled, queueVars, heardVars, sock, gaveUp>>

ServeEnds ==
    /\ serve = "closing" /\ closing \in {"closed", "timedout"}
    /\ serve' = "done"
    /\ UNCHANGED <<tmuxVars, browserVars, loopVars, exit, cancelled, closeVars, queueVars, heardVars, sock, gaveUp>>

-----------------------------------------------------------------------------
(* tmux *)

\* AttachArgs in one invocation: the session, and then its options, of which
\* destroy-unattached may fail to be set.
Attach ==
    /\ client = "attaching"
    /\ client' = "attached" /\ session' = TRUE
    /\ net' \in BOOLEAN
    /\ UNCHANGED <<current, alive, input, drawn, browserVars, loopVars, serveVars, closeVars, queueVars, heardVars, sock, gaveUp>>

\* The user ends the session, or detaches its client.
ClientExits ==
    /\ client = "attached"
    /\ client' = "exited"
    /\ session' = (session /\ ~net)
    /\ UNCHANGED <<net, current, alive, input, drawn, browserVars, loopVars, serveVars, closeVars, queueVars, heardVars, sock, gaveUp>>

Drain ==
    /\ client = "attached" /\ input > 0
    /\ input' = input - 1
    /\ UNCHANGED <<client, session, net, current, alive, drawn, browserVars, loopVars, serveVars, closeVars, queueVars, heardVars, sock, gaveUp>>

Draw ==
    /\ client = "attached" /\ PtyOpen /\ drawn < MaxOutput
    /\ drawn' = drawn + 1
    /\ UNCHANGED <<client, session, net, current, alive, input, browserVars, loopVars, serveVars, closeVars, queueVars, heardVars, sock, gaveUp>>

\* tmux moves the tab when the pane it is on dies.
PaneDies ==
    \E p \in alive \ {First} :
        /\ alive' = alive \ {p}
        /\ current' = IF current = p THEN First ELSE current
        /\ UNCHANGED <<client, session, net, input, drawn, browserVars, loopVars, serveVars, closeVars, queueVars, heardVars, sock, gaveUp>>

-----------------------------------------------------------------------------
(* The browser and the network *)

Type ==
    /\ browser = "reading" /\ typed < MaxKeys
    /\ \E f \in {"key", "bad"} : sent' = Append(sent, f)
    /\ typed' = typed + 1
    /\ UNCHANGED <<tmuxVars, browser, loopVars, serveVars, closeVars, queueVars, heardVars, sock, gaveUp>>

\* It stops taking what it is sent, starts again, or vanishes; a socket that
\* vanished may be reported as closed.
BrowserTurns ==
    /\ \/ browser = "reading" /\ browser' \in {"stuck", "gone"} /\ UNCHANGED sock
       \/ browser = "stuck" /\ browser' \in {"reading", "gone"} /\ UNCHANGED sock
       \/ browser = "gone" /\ sock' = "closed" /\ sock = "open" /\ UNCHANGED browser
    /\ UNCHANGED <<tmuxVars, sent, typed, loopVars, serveVars, closeVars, queueVars, heardVars, gaveUp>>

-----------------------------------------------------------------------------

ReadLoop == ReadFails \/ ReadFrame \/ WriteInput \/ WriteFails \/ Ask \/ GiveUp
WriteLoop == WriterStops \/ TakeControl \/ TakeOutput \/ OutputEnds \/ Deliver \/ DeliverFails
PingLoop == Ping \/ Pong \/ PingEnds
Bridge == Pump \/ PumpEnds \/ CloseEnds
Serve == Cancel \/ CloseSession \/ ServeEnds
Tmux == Attach \/ ClientExits \/ Drain \/ Draw \/ PaneDies
Browser == Type \/ BrowserTurns

Next == ReadLoop \/ WriteLoop \/ PingLoop \/ Bridge \/ Serve \/ Tmux \/ Browser

\* Every goroutine runs and timeouts expire.  Nothing is asked of tmux or of the
\* browser.
Fairness ==
    /\ WF_vars(ReadLoop) /\ WF_vars(WriteLoop) /\ WF_vars(PingLoop)
    /\ WF_vars(Bridge) /\ WF_vars(Serve)

Spec == Init /\ [][Next]_vars /\ Fairness

-----------------------------------------------------------------------------
(* Properties *)

TmuxTypes ==
    /\ client \in {"attaching", "attached", "exited"} /\ session \in BOOLEAN /\ net \in BOOLEAN
    /\ current \in Pane /\ alive \subseteq Pane
    /\ input \in 0 .. PtyCap /\ drawn \in 0 .. MaxOutput
BrowserTypes ==
    /\ browser \in {"reading", "stuck", "gone"} /\ sent \in Seq(Frame) /\ typed \in 0 .. MaxKeys
    /\ got \in Seq(1 .. MaxOutput) /\ answer \in Pane \cup {NoPane}
    /\ told \in {"none", "graceful unsupported", "graceful session ended"}
LoopTypes ==
    /\ rd \in [at : {"reading", "writing", "asking", "done"}, frame : Frame]
    /\ wr \in [at : {"select", "control", "data", "done"}, out : 0 .. MaxOutput, ctrl : Seq(Message)]
    /\ pg \in {"waiting", "pinging", "done"} /\ pump \in {"reading", "overflow", "done"}
QueueTypes ==
    /\ out \in Seq(1 .. MaxOutput) /\ Len(out) <= OutCap
    /\ ctrl \in Seq(Message) /\ Len(ctrl) <= CtrlCap
    /\ pumped \in 0 .. drawn /\ written \in Nat
ServeTypes ==
    /\ cancelled \in BOOLEAN /\ gaveUp \in BOOLEAN /\ sock \in {"open", "closed"}
    /\ exit \in {"none", "abrupt", "graceful unsupported", "graceful session ended"}
    /\ serve \in {"running", "waiting", "closing", "done"}
    /\ closing \in {"no", "pty", "closed", "timedout"} /\ closer \in {"none", "pump", "serve"}

TypeOK == TmuxTypes /\ BrowserTypes /\ LoopTypes /\ QueueTypes /\ ServeTypes

\* What the browser shows is what tmux drew, in order and with nothing missing
\* in the middle; and a browser told that the session ended has all of it, unless
\* the pump gave up on it.
OutputIntact ==
    /\ got = [i \in 1 .. Len(got) |-> i]
    /\ told = "graceful session ended" => Len(got) = pumped \/ closer = "pump"

\* A tab that asked for a pane before tmux had made its session is on that pane,
\* and is told so, unless the pane died or a call was given up on.
WhereFindsThePane ==
    answer # NoPane /\ ~gaveUp /\ Remembered \in alive => answer = Remembered

\* The handler has returned, and neither the tmux client nor, unless tmux did not
\* answer, its session has outlived it.
TornDown ==
    /\ serve = "done" /\ client = "exited"
    /\ session => closing = "timedout"

\* The read loop is in a write to a pty that tmux does not read.
ParkedInWrite == rd.at = "writing" /\ PtyOpen /\ client # "exited" /\ input = PtyCap

\* Once one loop has ended the others, the client and the session follow, wherever
\* each of them is parked; all that can keep them is a write to a pty that tmux
\* never reads again, which the cancellation does not reach.
TeardownCompletes == (exit # "none" ~> TornDown) \/ <>[]ParkedInWrite

\* shouldReconnect: a browser reconnects unless it was told that the session
\* ended (close code 1000).
ShouldReconnect(reason) == reason # "graceful session ended"

\* What the pump's comment says of a tab that did not keep up: the socket is
\* closed and the tab reconnects.
SlowTabReconnects == closer = "pump" => ShouldReconnect(told)

=============================================================================
