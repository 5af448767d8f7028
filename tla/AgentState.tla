----------------------------- MODULE AgentState -----------------------------
(***************************************************************************)
(* What one pane's row says of its agent, poll after poll: the classify    *)
(* half of Poller.refresh (internal/tmux/poller.go) over the two           *)
(* authorities it consults, Reports and Classifier, beside the agent, its  *)
(* screen, the option its integration writes, the browsers and the two     *)
(* servers that come and go around it.                                     *)
(*                                                                         *)
(* Panes share nothing but the browsers and the servers, so one is enough. *)
(* The unit of time is one poll interval; a forced poll may come at any    *)
(* time between two ticks (PollNow).                                       *)
(***************************************************************************)
EXTENDS Classifier, Reports

CONSTANTS
    MaxTime,        \* bound on the clock
    MaxReports,     \* bound on the reports that are stamped
    MaxUpsets       \* bound on everything that disturbs the pane and its polls

ASSUME ConstantsAssumption ==
    /\ NIdle = SettleAfter + 2
    /\ NBlocked = SettleAfter + 1
    /\ MaxTime \in Nat \ {0}
    /\ MaxReports \in Nat
    /\ MaxUpsets \in Nat

VARIABLES
    now,        \* the clock
    agent,      \* the pane's program: "none", "busy" or "still"
    pic,        \* the pane's screen
    option,     \* the pane's @tmux_web_agent value
    unwritten,  \* reports that were stamped and have not reached the option
    birth,      \* the tmux server's generation, 0 while there is none
    births,     \* how many there have been
    connected,  \* a browser holds a terminal socket
    start,      \* Poller.serverStart
    entry,      \* the classifier's memory of the pane
    memory,     \* the report memory of the pane
    row,        \* the published row
    since,      \* what has passed since the last poll: see Since
    stamped,    \* a report was stamped since the clock last moved
    issued,     \* how many have been stamped
    upsets      \* how often something has disturbed the polls so far

\* History, for the properties and for the pace of a busy agent.
VARIABLES
    drawn,      \* the screen has been repainted since the last poll
    rested,     \* the agent was not busy at some moment since the last poll
    calm,       \* polls in a row, up to SettleAfter, it had rested before
    paced,      \* polls in a row, up to SettleAfter, that came an interval or
                \* more after the one before
    watched,    \* the last poll captured the pane
    churned,    \* two successive captures of this watch have differed
    fell,       \* the last poll overturned a report
    newest,     \* newest report read since the memory was last empty
    condemned,  \* newest report overturned since then
    silent      \* captures without a form under the reported blocked in force

worldVars == <<now, agent, pic, option, unwritten, birth, births, connected, since, stamped, issued>>
pollVars == <<start, entry, memory, row>>
watchVars == <<calm, paced, watched, churned, fell, newest, condemned, silent>>
vars == <<worldVars, pollVars, upsets, drawn, rested, watchVars>>

Time == 1 .. MaxTime
Blank == [state |-> "", source |-> "", finishedAt |-> 0, ts |-> 0]

\* "tick": nothing, and the ticker started that poll; "mid": less than an interval,
\* for it came between two ticks, forced or late; "part" and "whole": the ticker has
\* fired, less than an interval after that poll or an interval and more.
Since == {"tick", "mid", "part", "whole"}
Due == since \in {"part", "whole"}

Row == [state : States \cup {""}, source : {"", "event", "screen"}, finishedAt : Nat, ts : Nat]

TypeOK ==
    /\ now \in Time
    /\ agent \in {"none", "busy", "still"}
    /\ pic \in Picture
    /\ option \in Report \cup {NoReport}
    /\ unwritten \in SUBSET Report
    /\ birth \in Nat /\ births \in Nat
    /\ connected \in BOOLEAN
    /\ start \in Nat
    /\ entry \in Entry \cup {Unseen}
    /\ memory \in Memory \cup {Forgotten}
    /\ row \in Row
    /\ since \in Since /\ stamped \in BOOLEAN /\ issued \in 0 .. MaxReports
    /\ upsets \in 0 .. MaxUpsets
    /\ drawn \in BOOLEAN /\ rested \in BOOLEAN
    /\ calm \in 0 .. SettleAfter /\ paced \in 0 .. SettleAfter
    /\ watched \in BOOLEAN /\ churned \in BOOLEAN /\ fell \in BOOLEAN
    /\ newest \in Nat /\ condemned \in Nat /\ silent \in Nat

\* A daemon that has just started over a tmux server with an agent in the pane.
Init ==
    /\ now = 1 /\ agent = "still" /\ pic \in [image : Image, form : {FALSE}]
    /\ option = NoReport /\ unwritten = {}
    /\ birth = 1 /\ births = 1 /\ connected = FALSE
    /\ start = 0 /\ entry = Unseen /\ memory = Forgotten /\ row = Blank
    /\ since = "part" /\ stamped = FALSE /\ issued = 0 /\ upsets = 0
    /\ drawn = FALSE /\ rested = TRUE /\ calm = 0 /\ paced = 0
    /\ watched = FALSE /\ churned = FALSE /\ fell = FALSE
    /\ newest = 0 /\ condemned = 0 /\ silent = 0

Upset(n) == upsets' = upsets + n /\ upsets' <= MaxUpsets

-----------------------------------------------------------------------------
(* Around the daemon: the agent and its screen.                            *)

\* The pane is repainted.  The new picture is one the last poll cannot have captured.
Repaint(image, form) ==
    /\ agent # "none"
    /\ drawn <=> image = pic.image
    /\ pic' = [image |-> image, form |-> form]
    /\ drawn' = TRUE
    /\ UNCHANGED <<now, agent, option, unwritten, birth, births, connected, since, stamped, issued>>
    /\ UNCHANGED <<pollVars, upsets, rested, watchVars>>

\* The ticker fires.  When it fired before and its poll is not done, that poll has
\* failed, and left everything as it was.
Tick ==
    /\ now < MaxTime
    /\ now' = now + 1
    /\ since' = IF since = "mid" THEN "part" ELSE "whole"
    /\ Upset(IF Due THEN 1 ELSE 0)
    /\ stamped' = FALSE

\* An interval passes.  A busy agent repaints in it ("at least once a second"), so
\* when no poll came in the middle of it, one the last poll did not see.
Interval(what) ==
    /\ Tick
    /\ agent # "none"
    /\ what = "busy" /\ since # "mid" => drawn
    /\ agent' = what
    /\ rested' = (rested \/ what = "still")
    /\ UNCHANGED <<pic, option, unwritten, birth, births, connected, issued>>
    /\ UNCHANGED <<pollVars, drawn, watchVars>>

\* An interval passes over a pane that runs no agent.
Idle ==
    /\ Tick
    /\ agent = "none"
    /\ UNCHANGED <<agent, pic, option, unwritten, birth, births, connected, issued>>
    /\ UNCHANGED <<pollVars, drawn, rested, watchVars>>

Become(what) ==
    /\ agent' = what
    /\ rested' = TRUE
    /\ UNCHANGED <<now, pic, option, unwritten, birth, births, connected, since, stamped, issued>>
    /\ UNCHANGED <<pollVars, drawn, watchVars>>

Exit == agent # "none" /\ Become("none") /\ Upset(1)
Launch == agent = "none" /\ birth # 0 /\ Become("still") /\ UNCHANGED upsets

-----------------------------------------------------------------------------
(* The option.  A report says what it says: a subagent's idle is one too.  *)
(* Its writes are started and forgotten, so they land late, out of order   *)
(* or never.                                                               *)

Channel(opt, pend) ==
    /\ option' = opt
    /\ unwritten' = pend
    /\ UNCHANGED <<now, agent, pic, birth, births, connected, since>>
    /\ UNCHANGED <<pollVars, drawn, rested, watchVars>>

Stamp(state) ==
    /\ agent # "none"
    /\ ~ stamped /\ stamped' = TRUE
    /\ issued < MaxReports /\ issued' = issued + 1
    /\ Channel(option, unwritten \cup {[state |-> state, ts |-> now]})
    /\ UNCHANGED upsets

Land(rep) ==
    /\ rep \in unwritten
    /\ Channel(rep, unwritten \ {rep})
    /\ UNCHANGED <<stamped, issued, upsets>>

Unset ==
    /\ option # NoReport
    /\ Channel(NoReport, unwritten)
    /\ Upset(1)
    /\ UNCHANGED <<stamped, issued>>

-----------------------------------------------------------------------------
(* The browsers, the tmux server, the daemon.                              *)

Connect ==
    /\ ~ connected
    /\ connected' = TRUE
    /\ UNCHANGED <<now, agent, pic, option, unwritten, birth, births, since, stamped, issued>>
    /\ UNCHANGED <<pollVars, upsets, drawn, rested, watchVars>>

Disconnect ==
    /\ connected
    /\ connected' = FALSE
    /\ Upset(1)
    /\ UNCHANGED <<now, agent, pic, option, unwritten, birth, births, since, stamped, issued>>
    /\ UNCHANGED <<pollVars, drawn, rested, watchVars>>

TmuxExits ==
    /\ birth # 0
    /\ birth' = 0
    /\ agent' = "none" /\ option' = NoReport /\ unwritten' = {}
    /\ rested' = TRUE
    /\ Upset(1)
    /\ UNCHANGED <<now, pic, births, connected, since, stamped, issued>>
    /\ UNCHANGED <<pollVars, drawn, watchVars>>

TmuxStarts ==
    /\ birth = 0
    /\ births' = births + 1
    /\ birth' = births + 1
    /\ UNCHANGED <<now, agent, pic, option, unwritten, connected, since, stamped, issued>>
    /\ UNCHANGED <<pollVars, upsets, drawn, rested, watchVars>>

DaemonRestarts ==
    /\ start' = 0 /\ entry' = Unseen /\ memory' = Forgotten /\ row' = Blank
    /\ since' = "part" /\ paced' = 0
    /\ watched' = FALSE /\ churned' = FALSE /\ fell' = FALSE
    /\ newest' = 0 /\ condemned' = 0 /\ silent' = 0
    /\ Upset(1)
    /\ UNCHANGED <<now, agent, pic, option, unwritten, birth, births, connected, stamped, issued>>
    /\ UNCHANGED <<drawn, rested, calm>>

-----------------------------------------------------------------------------
(* One poll, whose generation block, report block or capture may be        *)
(* missing; `lost' names those that are.                                   *)

Losses == SUBSET {"start", "reports", "capture"}

\* A generation that differs from the last one known empties both memories.
Restarted(lost) == "start" \notin lost /\ start # birth
EntryKept(lost) == IF Restarted(lost) \/ ~ connected THEN Unseen ELSE entry
MemoryKept(lost) == IF Restarted(lost) THEN Forgotten ELSE memory

Raw(lost) == IF "reports" \in lost THEN NoReport ELSE option
Recalled(lost) == Recall(MemoryKept(lost), Raw(lost))
Visible(lost) == connected /\ "capture" \notin lost

Screened(e, form) ==
    [state |-> IF form THEN "blocked" ELSE Verdict(e),
     source |-> "screen", finishedAt |-> e.finishedAt, ts |-> 0]

Reported(m) ==
    [state |-> m.accepted.state, source |-> "event", ts |-> m.accepted.ts,
     finishedAt |-> IF m.accepted.state = "idle" /\ Confirmed(m, connected)
                      THEN m.accepted.ts ELSE 0]

Captured(lost, m) ==
    /\ agent # "none" /\ Visible(lost)
    /\ InForce(m, now) => NeedsScreen(m)

\* A pane that runs no agent is forgotten by both authorities.
NoAgent ==
    /\ agent = "none"
    /\ row' = Blank /\ entry' = Unseen /\ memory' = Forgotten

\* The report decides and no capture is taken, or the capture failed.
Trusted(lost, m) ==
    /\ InForce(m, now)
    /\ ~ Captured(lost, m)
    /\ row' = Reported(m) /\ entry' = Unseen /\ memory' = m

\* Mistake: a reported blocked that falls takes the dialog on screen with it.
CheckedAlone(lost, m) ==
    /\ InForce(m, now)
    /\ Captured(lost, m)
    /\ LET asks == m.accepted.state = "blocked" /\ pic.form
           e == ObserveScreen(EntryKept(lost), pic, now, asks)
           judged == IF m.accepted.state = "blocked"
                       THEN CorroborateBlocked(m, Changed(EntryKept(lost), pic), pic.form)
                       ELSE Corroborate(m, Verdict(e) = "idle")
       IN /\ row' = IF Stands(judged) THEN Reported(judged) ELSE Screened(e, FALSE)
          /\ entry' = e /\ memory' = judged

\* A resting report in force is checked against a capture.  One that falls to
\* it leaves the pane to the classifier's verdict on that same capture, and
\* under a reported blocked to the dialog that may still be on it.
Checked(lost, m) ==
    /\ InForce(m, now)
    /\ Captured(lost, m)
    /\ LET asks == m.accepted.state = "blocked" /\ pic.form
           e == ObserveScreen(EntryKept(lost), pic, now, asks)
           judged == IF m.accepted.state = "blocked"
                       THEN CorroborateBlocked(m, Changed(EntryKept(lost), pic), pic.form)
                       ELSE Corroborate(m, Verdict(e) = "idle")
       IN /\ row' = IF Stands(judged) THEN Reported(judged) ELSE Screened(e, asks)
          /\ entry' = e /\ memory' = judged

\* No report in force and nothing to look at: no state.
Unknown(lost, m) ==
    /\ ~ InForce(m, now)
    /\ ~ Captured(lost, m)
    /\ row' = Blank /\ entry' = Unseen /\ memory' = m

\* No report in force: the screen decides.
Classified(lost, m) ==
    /\ ~ InForce(m, now)
    /\ Captured(lost, m)
    /\ LET e == ObserveScreen(EntryKept(lost), pic, now, pic.form)
       IN row' = Screened(e, pic.form) /\ entry' = e
    /\ memory' = m

Decide(lost, m) ==
    \/ NoAgent
    \/ /\ agent # "none"
       /\ Trusted(lost, m) \/ Checked(lost, m) \/ Unknown(lost, m) \/ Classified(lost, m)

\* The history a poll leaves.
Witness(lost, m) ==
    LET captured == Captured(lost, m)
        old == MemoryKept(lost)
        gone == agent = "none" \/ m = Forgotten
        same == old # Forgotten /\ old.accepted = m.accepted
        claim == row'.source = "event" /\ row'.state = "blocked"
    IN /\ calm' = IF ~ rested THEN 0 ELSE IF calm = SettleAfter THEN calm ELSE calm + 1
       /\ paced' = IF since # "whole" THEN 0 ELSE IF paced = SettleAfter THEN paced ELSE paced + 1
       /\ rested' = (agent # "busy") /\ drawn' = FALSE
       /\ watched' = captured
       /\ churned' = (captured /\ watched /\ ~ Restarted(lost) /\ (churned \/ drawn))
       /\ fell' = (~ gone /\ InForce(m, now) /\ ~ Stands(memory'))
       /\ newest' = IF gone THEN 0
                    ELSE IF old = Forgotten \/ Raw(lost).ts > newest THEN Raw(lost).ts ELSE newest
       /\ condemned' = IF gone THEN 0
                       ELSE IF fell' THEN m.accepted.ts
                       ELSE IF old = Forgotten THEN 0 ELSE condemned
       /\ silent' = IF ~ claim \/ (captured /\ pic.form) THEN 0
                    ELSE (IF same THEN silent ELSE 0) + (IF captured THEN 1 ELSE 0)

\* Poller.refresh, which the ticker starts, or anyone at any time (PollNow).  Where
\* there is no server the answer is whole: no panes, no generation.
Poll(lost) ==
    /\ since' = "mid" \/ (Due /\ since' = "tick")
    /\ birth = 0 => lost = {}
    /\ Upset(IF lost = {} /\ since' = "tick" THEN 0 ELSE 1)
    /\ LET m == Recalled(lost) IN Decide(lost, m) /\ Witness(lost, m)
    /\ start' = IF "start" \in lost THEN start ELSE birth
    /\ UNCHANGED <<now, agent, pic, option, unwritten, birth, births, connected, stamped, issued>>

Next ==
    \/ \E image \in Image, form \in BOOLEAN : Repaint(image, form)
    \/ \E what \in {"busy", "still"} : Interval(what)
    \/ Idle \/ Exit \/ Launch \/ Unset
    \/ \E state \in States : Stamp(state)
    \/ \E rep \in unwritten : Land(rep)
    \/ Connect \/ Disconnect \/ TmuxExits \/ TmuxStarts \/ DaemonRestarts
    \/ \E lost \in Losses : Poll(lost)

Spec == Init /\ [][Next]_vars

-----------------------------------------------------------------------------
(* Properties.                                                             *)

\* A finish is stamped only at the end of a run that was seen to change in this
\* watch, by an agent that has paused before each of the last SettleAfter polls --
\* or, of the polls since it last worked through, one came early: no reconnect,
\* restart, failed capture or change of authority makes one up.
Stamps == entry' # Unseen /\ entry'.finishedAt # 0 /\ (entry = Unseen \/ entry'.finishedAt # entry.finishedAt)
EarnedFinish == Stamps => churned' /\ paced' <= calm'
FinishIsEarned == [][EarnedFinish]_vars

\* What state.go sizes settleAfter for ("~3s at the 1.5s poll"): a finish is stamped
\* only for an agent that has paused before each of the last SettleAfter polls,
\* however early they came.
EarnedAtAnyPace == Stamps => calm' = SettleAfter
FinishAtAnyPace == [][EarnedAtAnyPace]_vars

\* A report that decides the row is the newest one read, however late the older
\* ones land, and newer than every one the evidence has overturned.
EventsAreCurrent == row.source = "event" => row.ts = newest /\ row.ts > condemned

\* While a browser is connected a report lights the done badge only if the agent
\* has paused in the same way: not on a subagent's idle.
Lights == row'.source = "event" /\ row'.finishedAt # 0 /\ row'.finishedAt # row.finishedAt
EarnedBadge == connected /\ Lights => paced' <= calm'
BadgeIsEarned == [][EarnedBadge]_vars

\* A dialog on a captured screen shows as blocked whoever decides the row, but
\* for a reported idle that is being verified, or falls on that very capture.
DialogIsShown ==
    watched /\ ~ drawn /\ pic.form /\ row.state # "blocked" =>
        memory # Forgotten /\ memory.accepted.state = "idle" /\ (fell \/ Stands(memory))

\* A reported blocked does not outlive NBlocked captures without a form.
SilentBlockEnds == silent < NBlocked

\* What reports.go says of rule 3: a reported idle it drops had a screen that
\* was seen to change, so the classifier will date the finish that was lost.
Dropped == memory' # Forgotten /\ memory'.accepted.state = "idle" /\ ~ Stands(memory')
ChurnedDrop == Dropped /\ (memory = Forgotten \/ Stands(memory)) => entry'.everChanged
DropsHaveChurned == [][ChurnedDrop]_vars

-----------------------------------------------------------------------------
(* The inductive invariant the proofs in AgentStateProofs rest on.         *)

\* A report that stands has evidence to spare, and a verified one shows as done.
EvidenceOpen ==
    memory # Forgotten /\ Stands(memory) =>
        /\ ~ memory.verified => memory.windowPolls < NIdle
        /\ memory.settledPolls < NBlocked
        /\ memory.verified => /\ memory.accepted.state = "idle"
                              /\ row.source = "event"
                              /\ row.finishedAt = memory.accepted.ts

\* The memory holds the newest report read, and a row decided by a report shows
\* the one it holds.
RowIsRemembered ==
    /\ memory # Forgotten =>
           /\ memory.accepted.ts = newest
           /\ condemned <= newest
           /\ Stands(memory) => condemned < newest
    /\ row.source = "event" =>
           memory # Forgotten /\ Stands(memory) /\ row.ts = memory.accepted.ts

\* Rule 2 has counted the silent captures under the blocked that stands.
SilenceCounted ==
    silent = 0 \/ (memory # Forgotten /\ Stands(memory) /\ silent <= memory.settledPolls)

\* The classifier remembers the last poll's capture of an unbroken watch, and
\* what it has counted as still the agent has rested through, or a poll came early.
EntryIsWatched ==
    entry # Unseen =>
        /\ watched
        /\ entry.everChanged => churned
        /\ IF drawn THEN entry.hash.image # pic.image ELSE entry.hash = pic
        /\ entry.still <= calm \/ paced <= calm

\* An agent that does not work has paused, and one that works for a whole interval
\* without a poll has repainted in it.
WorkIsDrawn ==
    /\ agent # "busy" => rested
    /\ since = "whole" => rested \/ drawn

IInv ==
    /\ TypeOK
    /\ EvidenceOpen
    /\ RowIsRemembered
    /\ SilenceCounted
    /\ EntryIsWatched
    /\ WorkIsDrawn
    /\ DialogIsShown

=============================================================================
