---------------------------- MODULE ReportWriter ----------------------------
(***************************************************************************)
(* The writing side of an agent's reports, for one pane: the agent's       *)
(* events, the tmux-web report process each of them starts                 *)
(* (cmd/tmux-web/report.go with the table of internal/report/events.go),   *)
(* the one-slot queue and the one-reporter claim of the agents that are    *)
(* long-lived runtimes (internal/integrations/queue.ts), and the daemon    *)
(* that reads the option they all write (module Reports).                  *)
(*                                                                         *)
(* Two stamps of one pane differ: an event, or the report before it, takes *)
(* a millisecond.  Events of child sessions, which are refused before they *)
(* have any effect, and the text of a report are left out.                 *)
(***************************************************************************)
EXTENDS Reports

CONSTANTS
    Agents,     \* the agents whose pane this may be
    Copy,       \* the copies of a runtime's integration
    Schema,     \* copy -> its schema number
    Nobody,     \* nobody's claim, or the slot before there is one
    MaxEvents,  \* bound on the agent's events
    MaxFailures \* bound on the reports that die before they write

ASSUME CopyAssumption == Copy # {} /\ Schema \in [Copy -> Nat] /\ Nobody \notin Copy
ASSUME BoundAssumption == MaxEvents \in Nat /\ MaxFailures \in Nat

-----------------------------------------------------------------------------
(* The table of events *)

Ignored == [state |-> "none", kind |-> "none"]
Edge(s) == [state |-> s, kind |-> "edge"]
Reassertion(s) == [state |-> s, kind |-> "reassertion"]

Mapping == {Ignored} \cup {Edge(s) : s \in States} \cup {Reassertion(s) : s \in States}

\* Whatever else claude notifies of, and all it will one day, says nothing of the
\* state of the pane.
ClaudeNotifications == [
    permission_prompt |-> Edge("blocked"),
    quota_auto_resume_fired |-> Edge("working"),
    idle_prompt |-> Reassertion("idle"),
    quota_auto_resume_disabled |-> Reassertion("idle"),
    other |-> Ignored]

ClaudeStops == [settled |-> Edge("idle"), subagent_running |-> Ignored]

PiSessionStarts == [working |-> Edge("working"), idle |-> Reassertion("idle")]

\* What an event may mean, when its payload decides.
Meanings(table) == {table[v] : v \in DOMAIN table}

Claude == [
    UserPromptSubmit |-> {Edge("working")},
    PreToolUse |-> {Edge("working")},
    Notification |-> Meanings(ClaudeNotifications),
    Stop |-> Meanings(ClaudeStops)]

Opencode == [
    prompt |-> {Edge("working")},
    session_execution_started |-> {Edge("working")},
    session_step_started |-> {Edge("working")},
    tool_execute_before |-> {Edge("working")},
    permission_asked |-> {Edge("blocked")},
    session_execution_succeeded |-> {Edge("idle")},
    session_execution_failed |-> {Edge("idle")},
    session_execution_interrupted |-> {Edge("idle")}]

Pi == [
    session_start |-> Meanings(PiSessionStarts),
    input |-> {Edge("working")},
    tool_execution_start |-> {Edge("working")},
    ui_prompt_start |-> {Edge("blocked")},
    agent_settled |-> {Edge("idle")}]

Rules == [claude |-> Claude, opencode |-> Opencode, pi |-> Pi]
TurnStart == [claude |-> "UserPromptSubmit", opencode |-> "session_execution_started", pi |-> "input"]

\* checkRules: a turn end is an edge only because a turn start is in front of it.
\* Of the table alone: nothing but idle is re-asserted.  (A blocked that was would
\* be dated before its own turn, and a rest that reads it before the finish.)
ASSUME RulesAssumption ==
    \A a \in DOMAIN Rules :
        /\ Rules[a][TurnStart[a]] = {Edge("working")}
        /\ \A e \in DOMAIN Rules[a] : Rules[a][e] \subseteq {Ignored, Reassertion("idle")} \cup {Edge(s) : s \in States}
ASSUME AgentsAssumption == Agents \subseteq DOMAIN Rules

\* What the option holds: a report, and the turn and kind of its event.
Written == [state : States, ts : Nat, turn : Nat, kind : {"edge", "reassertion", "first"}]
ASSUME WrittenAssumption == NoReport \notin Written

\* A hook of claude is a process of its own; the others hold a queue.
Queues(a) == a # "claude"

-----------------------------------------------------------------------------

VARIABLES
    agent,      \* the agent in the pane
    root,       \* what its root session is really doing
    turn,       \* the turns it has started
    events,     \* its events so far
    now,        \* the last stamp
    option,     \* @tmux_web_agent, with the turn and the kind of its event
    held,       \* the daemon's memory of the pane
    reports,    \* the report processes
    running,    \* copy -> its queue waits for a report
    queued,     \* copy -> the item in its queue, or none
    failures,   \* reports that died
    lost,       \* the newest event's report died
    slot,       \* globalThis[CLAIM_SLOT]
    loaded      \* the copies that have loaded

agentVars == <<agent, root, turn, events>>
queueVars == <<running, queued>>
claimVars == <<slot, loaded>>
vars == <<agentVars, now, option, held, reports, queueVars, failures, lost, claimVars>>

NoItem == [mapping |-> Ignored, turn |-> 0]

Init ==
    /\ agent \in Agents
    /\ root = "idle" /\ turn = 0 /\ events = 0 /\ now = 0
    /\ option = NoReport /\ held = Forgotten
    /\ reports = {}
    /\ running = [c \in Copy |-> FALSE] /\ queued = [c \in Copy |-> NoItem]
    /\ failures = 0 /\ lost = FALSE
    /\ slot = [schema |-> 0, owner |-> Nobody] /\ loaded = {}

-----------------------------------------------------------------------------
(* The claim *)

\* Mistake: the copy that loaded first keeps the claim.
ClaimFirst(c) ==
    IF slot.owner = Nobody THEN [schema |-> Schema[c], owner |-> c] ELSE slot

\* claimReporter: the newest schema has it, the later copy of two that are equal.
Claim(c) ==
    IF Schema[c] >= slot.schema \/ slot.owner = Nobody THEN [schema |-> Schema[c], owner |-> c] ELSE slot

\* The runtime loads every copy before the first event.
Load(c) ==
    /\ events = 0 /\ c \notin loaded
    /\ loaded' = loaded \cup {c}
    /\ slot' = Claim(c)
    /\ UNCHANGED <<agentVars, now, option, held, reports, queueVars, failures, lost>>

Mine(c) == slot.owner = c

-----------------------------------------------------------------------------
(* The agent, and the queue of an integration *)

\* A report process stamps when it starts.  An edge is about to write; a
\* re-assertion has the standing report to read first.
NewReport(item, by) ==
    [state |-> item.mapping.state, kind |-> item.mapping.kind, turn |-> item.turn,
     ms |-> now + 1, stamp |-> now + 1, by |-> by,
     at |-> IF item.mapping.kind = "edge" THEN "write" ELSE "read"]

Start(item, by) == reports' = reports \cup {NewReport(item, by)} /\ now' = now + 1

\* Mistake: the queue settles when the child has been spawned.
PushEarly(c, item) == Start(item, c) /\ UNCHANGED queueVars

\* push: an item that finds a report running takes the slot.
Push(c, item) ==
    IF running[c]
    THEN queued' = [queued EXCEPT ![c] = item] /\ UNCHANGED <<running, reports, now>>
    ELSE running' = [running EXCEPT ![c] = TRUE] /\ Start(item, c) /\ UNCHANGED queued

\* An event that is re-asserted happens in the state it asserts, and an edge is
\* what changes the state.  Only the copy that has the claim reports it.
Emit(m) ==
    LET item == [mapping |-> m, turn |-> turn']
    IN /\ loaded = Copy /\ events < MaxEvents
       /\ m # Ignored
       /\ m.kind = "reassertion" => root = m.state
       /\ m = Edge("idle") => root # "idle"
       /\ events' = events + 1
       /\ root' = m.state
       /\ turn' = IF root = "idle" /\ m.state # "idle" THEN turn + 1 ELSE turn
       /\ lost' = FALSE
       /\ IF Queues(agent)
          THEN \E c \in loaded : Mine(c) /\ Push(c, item)
          ELSE Start(item, Nobody) /\ UNCHANGED queueVars
       /\ UNCHANGED <<agent, option, held, failures, claimVars>>

\* A report is over: its queue starts the newest item that has arrived since.
Settle(r) ==
    LET c == r.by
    IN IF c = Nobody
       THEN reports' = reports \ {r} /\ UNCHANGED <<now, queueVars>>
       ELSE IF queued[c] = NoItem
       THEN reports' = reports \ {r} /\ running' = [running EXCEPT ![c] = FALSE] /\ UNCHANGED <<now, queued>>
       ELSE /\ reports' = (reports \ {r}) \cup {NewReport(queued[c], c)}
            /\ now' = now + 1
            /\ queued' = [queued EXCEPT ![c] = NoItem]
            /\ UNCHANGED running

-----------------------------------------------------------------------------
(* A report process *)

\* reportSupersedes: the same state, or not older than the event.
Supersedes(rep, r) == rep.state = r.state \/ rep.ts >= r.ms

\* The value a report writes.
AsWritten(r) == [state |-> r.state, ts |-> r.stamp, turn |-> r.turn, kind |-> r.kind]

\* Mistake: a re-assertion is dated now.
StampNow(rep, r) == r.ms

\* dateFromStandingReport: one past the report that was read, so that the daemon
\* takes it only if it holds nothing newer.
Stamp(rep, r) == rep.ts + 1

\* reassertedStamp.  Where there is nothing to read, there is nothing to compare
\* with, and the report is dated now.
ReadStanding(r) ==
    /\ r.at = "read"
    /\ \/ option # NoReport /\ Supersedes(option, r) /\ Settle(r)
       \/ /\ option # NoReport /\ ~Supersedes(option, r)
          /\ reports' = (reports \ {r}) \cup {[r EXCEPT !.at = "write", !.stamp = Stamp(option, r)]}
          /\ UNCHANGED <<now, queueVars>>
       \/ /\ option = NoReport
          /\ reports' = (reports \ {r}) \cup {[r EXCEPT !.at = "write", !.kind = "first"]}
          /\ UNCHANGED <<now, queueVars>>
    /\ UNCHANGED <<agentVars, option, held, failures, lost, claimVars>>

Write(r) ==
    /\ r.at = "write"
    /\ option' = AsWritten(r)
    /\ Settle(r)
    /\ UNCHANGED <<agentVars, held, failures, lost, claimVars>>

\* Neither a later report nor a waiting item follows r.
Newest(r) ==
    /\ \A q \in reports : q.ms <= r.ms
    /\ r.by # Nobody => queued[r.by] = NoItem

\* The process is killed, or tmux does not answer within reportTimeout.
Die(r) ==
    /\ failures < MaxFailures
    /\ failures' = failures + 1
    /\ lost' = (lost \/ Newest(r))
    /\ Settle(r)
    /\ UNCHANGED <<agentVars, option, held, claimVars>>

-----------------------------------------------------------------------------
(* The daemon *)

Poll ==
    /\ held' = Recall(held, option)
    /\ UNCHANGED <<agentVars, now, option, reports, queueVars, failures, lost, claimVars>>

\* The daemon, or the tmux server's generation, is new: its memory is empty.
Restart ==
    /\ held # Forgotten
    /\ held' = Forgotten
    /\ UNCHANGED <<agentVars, now, option, reports, queueVars, failures, lost, claimVars>>

-----------------------------------------------------------------------------

Next ==
    \/ \E c \in Copy : Load(c)
    \/ \E e \in DOMAIN Rules[agent] : \E m \in Rules[agent][e] : Emit(m)
    \/ \E r \in reports : ReadStanding(r) \/ Write(r) \/ Die(r)
    \/ Poll \/ Restart

Spec == Init /\ [][Next]_vars

-----------------------------------------------------------------------------
(* Properties *)

\* The type invariant: every item asserts a state, and so does what is made of it.
TypeOK ==
    /\ agent \in Agents /\ turn \in Nat /\ now \in Nat
    /\ queued \in [Copy -> [mapping : Mapping \ {Ignored}, turn : Nat] \cup {NoItem}]
    /\ reports \subseteq [state : States, kind : {"edge", "reassertion", "first"}, turn : Nat, ms : Nat,
                          stamp : Nat, by : Copy \cup {Nobody}, at : {"read", "write"}]
    /\ option \in Written \cup {NoReport}

\* Whatever order the copies loaded in, exactly one of them reports, and it is
\* one with the newest schema.
OneReporter ==
    loaded = Copy => \E c \in Copy : /\ \A d \in Copy : Mine(d) <=> d = c
                                     /\ \A d \in Copy : Schema[d] <= Schema[c]

\* Once the reports of a runtime's events are over, the option says what the
\* newest event said, and the daemon believes it at its next look.
NewestEventStands ==
    Queues(agent) /\ events > 0 /\ reports = {} /\ ~lost =>
        /\ option # NoReport /\ option.state = root
        /\ Recall(held, option).accepted.state = root

\* A finish the daemon has taken from the event that ended the turn is not dated
\* again by a re-assertion of the same rest, whichever older reports land in
\* between: the badge it raised was seen, and must not come back.  (Two
\* re-assertions that are ahead of that event may both be taken before it.)
RestIsDatedOnce ==
    [][ held # Forgotten /\ held' # Forgotten
        /\ held.accepted.state = "idle" /\ held.accepted.kind = "edge"
        /\ held'.accepted.state = "idle" /\ held'.accepted.kind = "reassertion"
        => held'.accepted.turn > held.accepted.turn ]_vars

-----------------------------------------------------------------------------
(* The inductive invariant of the claim and of a runtime's queue            *)

\* The slot names the newest of the copies that have loaded.
ClaimStands ==
    /\ slot.schema \in Nat /\ slot.owner \in Copy \cup {Nobody} /\ loaded \subseteq Copy
    /\ slot.owner = Nobody => loaded = {}
    /\ slot.owner # Nobody => slot.owner \in loaded /\ slot.schema = Schema[slot.owner]
    /\ \A c \in loaded : Schema[c] <= slot.schema
    /\ events \in Nat /\ (events > 0 => loaded = Copy)

\* A runtime has one report at a time, of the copy that holds the claim, and that
\* copy's queue alone waits for it.
OneReport ==
    /\ events = 0 => reports = {}
    /\ \A r \in reports : r.by = slot.owner /\ r.by \in Copy
    /\ \A q, r \in reports : q = r
    /\ running \in [Copy -> BOOLEAN]
    /\ \A c \in Copy : running[c] <=> \E r \in reports : r.by = c
    /\ \A c \in Copy : queued[c] # NoItem => running[c]

\* What a runtime's report will write is newer than what stands.
Newer ==
    /\ option # NoReport => option.ts <= now
    /\ \A r \in reports :
           /\ r.stamp <= r.ms /\ r.ms <= now
           /\ option # NoReport => option.ts < r.stamp

\* The daemon's memory is not ahead of the option.
MemoryBehind ==
    held # Forgotten =>
        /\ option # NoReport /\ held.accepted.ts \in Nat /\ held.accepted.ts <= option.ts
        /\ held.accepted.ts = option.ts => held.accepted.state = option.state

\* The newest event is in the queue, or else under way, or else in the option.
NewestIsAhead ==
    events > 0 =>
        IF queued[slot.owner] # NoItem THEN queued[slot.owner].mapping.state = root
        ELSE IF reports # {} THEN \A r \in reports : r.state = root
        ELSE lost \/ (option # NoReport /\ option.state = root)

IInv == TypeOK /\ ClaimStands /\ (Queues(agent) => OneReport /\ Newer /\ MemoryBehind /\ NewestIsAhead)

-----------------------------------------------------------------------------
(* The inductive invariant of the dates, for every agent                    *)

\* What has been written, or is about to be, and what the daemon holds.
Claims ==
    {AsWritten(r) : r \in {q \in reports : q.at = "write"}}
        \cup (IF option = NoReport THEN {} ELSE {option})
        \cup (IF held = Forgotten THEN {} ELSE {held.accepted})

TurnEnd(c) == c.state = "idle" /\ c.kind = "edge"

\* What belongs to a turn, or to the rest after it and was dated back, is not dated
\* after the edge that ends it.
Dated ==
    /\ \A c \in Claims : c \in Written /\ c.ts <= now /\ c.turn <= turn
    /\ \A c, x \in Claims :
           TurnEnd(x) /\ c.turn <= x.turn =>
               /\ c.kind = "reassertion" => c.ts <= x.ts
               /\ c.state # "idle" => c.ts < x.ts
    /\ root # "idle" => \A x \in Claims : TurnEnd(x) => x.turn < turn

\* A re-assertion that will find a later turn's state will find it newer, too.
ReadsInOrder ==
    \A r \in reports : r.at = "read" =>
        /\ r.state = "idle" /\ r.kind = "reassertion" /\ r.ms <= now /\ r.stamp <= now /\ r.turn <= turn
        /\ \A c \in Claims : c.state # "idle" /\ c.ts < r.ms => c.turn <= r.turn

\* The item that waits is the newest event's.
NewestWaits ==
    \A c \in Copy : queued[c] # NoItem =>
        /\ Queues(agent)
        /\ queued[c].turn = turn /\ queued[c].mapping.state = root
        /\ queued[c].mapping.kind = "reassertion" => root = "idle"

DInv == IInv /\ Dated /\ ReadsInOrder /\ NewestWaits

=============================================================================
