------------------------------ MODULE SeenMarks ------------------------------
(***************************************************************************)
(* What a browser makes of the snapshot: the daemon publishes rows and the *)
(* generation of their tmux server (tmux/poller.go), GET /api/snapshot     *)
(* reads them under three separate locks (front/server.go), and each tab   *)
(* of one browser polls it, shows the rows, and remembers which finishes   *)
(* it has shown (web/src/lib/useSnapshot.ts).                              *)
(*                                                                         *)
(* Of a row only its finishedAt is modelled, and stamps are the numbers of *)
(* the polls that stamped: the daemon's clock does not go back.  A poll    *)
(* that fails keeps the last good rows; what it changes is the error text  *)
(* beside them, which is left out with the count of troubled polls.        *)
(***************************************************************************)
EXTENDS Integers

CONSTANTS
    PaneId,       \* pane ids, which every tmux server numbers from the same start
    Tab,        \* tabs of one browser, over one localStorage
    NoView,     \* a tab that shows no pane
    MaxStamp,   \* bound on the finishes
    MaxServer   \* bound on the tmux servers

ASSUME PaneIdAssumption == NoView \notin PaneId
ASSUME StampAssumption == MaxStamp \in Nat /\ MaxServer \in Nat \ {0}

Stamp == 0 .. MaxStamp
NoRow == -1
Rows == [PaneId -> Stamp \cup {NoRow}]
NoRows == [p \in PaneId |-> NoRow]
Server == 1 .. MaxServer
NoServer == 0           \* serverStart ""
SeenMap == [Server \X PaneId -> Stamp]    \* 0 where there is no entry

VARIABLES
    server, live,           \* the running tmux server, and its panes
    finishedAt,             \* the classifier's memory of finishes
    latest, serverStart,    \* what the poller has published
    hidden,                 \* tab -> document.hidden
    timer,                  \* tab -> the armed timer, by how long it waits
    armedHidden, wakePending,
    request,                \* tab -> how far its request is, and what it has read
    shown,                  \* tab -> the rows and the generation on screen
    active,                 \* tab -> the pane the user is looking at
    stored,                 \* tab -> the seen map in its state
    storage,                \* the seen map in localStorage
    other,                  \* the seen map of another tab, which polls unseen here
    stamped,                \* the last finish that was stamped
    looked,                 \* pane -> the finishes that were on screen with it
    owed                    \* tabs that came back and have not polled since

tmuxVars == <<server, live>>
publishedVars == <<finishedAt, latest, serverStart, stamped>>
pollerVars == <<timer, armedHidden, wakePending, request, owed>>
viewVars == <<shown, active, stored, storage, other, looked>>
seenVars == <<tmuxVars, publishedVars, hidden, pollerVars, viewVars>>

At == {"none", "sent", "rows", "answer", "lost", "stopped"}
Request(at) == [at |-> at, rows |-> NoRows, start |-> NoServer]
Shown == [rows : Rows, start : Server \cup {NoServer}]
Nothing == [rows |-> NoRows, start |-> NoServer]
InFlight(t) == request[t].at \notin {"none", "stopped"}

SeenInit ==
    /\ server = NoServer /\ live = {}
    /\ finishedAt = [p \in PaneId |-> 0] /\ stamped = 0
    /\ latest = NoRows /\ serverStart = NoServer
    /\ hidden = [t \in Tab |-> FALSE]
    /\ timer = [t \in Tab |-> "none"]
    /\ armedHidden = [t \in Tab |-> FALSE] /\ wakePending = [t \in Tab |-> FALSE]
    /\ request = [t \in Tab |-> Request("sent")]
    /\ shown = [t \in Tab |-> Nothing] /\ active = [t \in Tab |-> NoView]
    /\ storage = [k \in Server \X PaneId |-> 0] /\ stored = [t \in Tab |-> storage] /\ other = storage
    /\ looked = [p \in PaneId |-> {}] /\ owed = {}

-----------------------------------------------------------------------------
(* tmux *)

StartServer ==
    /\ server < MaxServer
    /\ server' = server + 1
    /\ live' \in SUBSET PaneId \ {{}}
    /\ UNCHANGED <<publishedVars, hidden, pollerVars, viewVars>>

-----------------------------------------------------------------------------
(* The daemon *)

\* refresh, with the server gone: no rows, and a generation known to be empty.
PollNoServer ==
    /\ latest' = NoRows /\ serverStart' = NoServer
    /\ finishedAt' = [p \in PaneId |-> 0]
    /\ UNCHANGED <<tmuxVars, stamped, hidden, pollerVars, viewVars>>

\* refresh.  A read that carries no generation leaves the old one in place, and the
\* memory with it; a new one empties the memory.  Which agents finish is a choice.
PollReads(haveStart, finish) ==
    LET now == stamped + 1
        known == IF haveStart /\ server # serverStart THEN [p \in PaneId |-> 0] ELSE finishedAt
    IN /\ server # NoServer /\ finish \subseteq live
       /\ finish # {} => now <= MaxStamp
       /\ finishedAt' = [p \in PaneId |-> IF p \in finish THEN now ELSE IF p \in live THEN known[p] ELSE 0]
       /\ stamped' = IF finish = {} THEN stamped ELSE now
       /\ latest' = [p \in PaneId |-> IF p \in live THEN finishedAt'[p] ELSE NoRow]
       /\ serverStart' = IF haveStart THEN server ELSE serverStart
       /\ UNCHANGED <<tmuxVars, hidden, pollerVars, viewVars>>

\* The daemon restarts with nothing in memory, and drops the requests it was serving.
Restart ==
    /\ finishedAt' = [p \in PaneId |-> 0]
    /\ latest' = NoRows /\ serverStart' = NoServer
    /\ request' = [t \in Tab |-> IF request[t].at = "rows" THEN Request("lost") ELSE request[t]]
    /\ UNCHANGED <<tmuxVars, stamped, hidden, timer, armedHidden, wakePending, owed, viewVars>>

-----------------------------------------------------------------------------
(* The handler *)

\* snapshot reads Latest ...
ReadLatest(t) ==
    /\ request[t].at = "sent"
    /\ request' = [request EXCEPT ![t] = [at |-> "rows", rows |-> latest, start |-> NoServer]]
    /\ UNCHANGED <<tmuxVars, publishedVars, hidden, timer, armedHidden, wakePending, owed, viewVars>>

\* ... and then, unless Err makes it refuse (Fail), ServerStart, by which time the
\* rows may be another server's.
ReadStart(t) ==
    /\ request[t].at = "rows"
    /\ request' = [request EXCEPT ![t] = [at |-> "answer", rows |-> @.rows, start |-> serverStart]]
    /\ UNCHANGED <<tmuxVars, publishedVars, hidden, timer, armedHidden, wakePending, owed, viewVars>>

-----------------------------------------------------------------------------
(* Marks *)

\* Mistake: recorded as the moment of the look.
MarkSeenNow(seen, start, p, finished) ==
    IF start = NoServer \/ finished <= seen[<<start, p>>]
    THEN seen
    ELSE [k \in Server \X PaneId |->
             IF k = <<start, p>> THEN stamped ELSE IF k[1] = start THEN seen[k] ELSE 0]

\* markSeen: the newest finish shown, and nothing of other generations.
MarkSeen(seen, start, p, finished) ==
    IF start = NoServer \/ finished <= seen[<<start, p>>]
    THEN seen
    ELSE [k \in Server \X PaneId |->
             IF k = <<start, p>> THEN finished ELSE IF k[1] = start THEN seen[k] ELSE 0]

\* useSeenPanes: what is on screen with the pane the user is looking at is marked,
\* and written -- the whole map, over whatever another tab has written.
Look(t, view, p) ==
    /\ shown' = [shown EXCEPT ![t] = view] /\ active' = [active EXCEPT ![t] = p]
    /\ LET row == p # NoView /\ view.rows[p] # NoRow
           seen == IF row THEN MarkSeen(stored[t], view.start, p, view.rows[p]) ELSE stored[t]
       IN /\ stored' = [stored EXCEPT ![t] = seen]
          /\ storage' = IF seen = stored[t] THEN storage ELSE seen
          /\ looked' = IF row THEN [looked EXCEPT ![p] = @ \cup {view.rows[p]}] ELSE looked

\* isDone
IsDone(t, p) ==
    LET start == shown[t].start  finished == shown[t].rows[p] IN
    start # NoServer /\ finished > 0 /\ finished > stored[t][<<start, p>>]

\* The user goes to another pane, or to none.
View(t, p) ==
    /\ active[t] # p
    /\ Look(t, shown[t], p)
    /\ UNCHANGED <<tmuxVars, publishedVars, hidden, pollerVars, other>>

\* Another tab is loaded, or shows a pane as it has just been published, with marks
\* of its own.
OtherLoads ==
    /\ other' = storage
    /\ UNCHANGED <<tmuxVars, publishedVars, hidden, pollerVars, shown, active, stored, storage, looked>>

OtherLooks(p) ==
    /\ latest[p] # NoRow
    /\ other' = MarkSeen(other, serverStart, p, latest[p])
    /\ storage' = IF other' = other THEN storage ELSE other'
    /\ looked' = [looked EXCEPT ![p] = @ \cup {latest[p]}]
    /\ UNCHANGED <<tmuxVars, publishedVars, hidden, pollerVars, shown, active, stored>>

-----------------------------------------------------------------------------
(* SnapshotPoller *)

\* Mistake: #schedule, without the wake that came in between.
ScheduleLate(t) ==
    /\ timer' = [timer EXCEPT ![t] = IF hidden[t] THEN "hidden" ELSE "visible"]
    /\ armedHidden' = [armedHidden EXCEPT ![t] = hidden[t]]
    /\ wakePending' = [wakePending EXCEPT ![t] = FALSE]

\* #schedule
Schedule(t) ==
    /\ timer' = [timer EXCEPT ![t] = IF wakePending[t] THEN "now" ELSE IF hidden[t] THEN "hidden" ELSE "visible"]
    /\ armedHidden' = [armedHidden EXCEPT ![t] = hidden[t]]
    /\ wakePending' = [wakePending EXCEPT ![t] = FALSE]

\* #poll, for which any timer is gone.
Poll(t) ==
    /\ timer' = [timer EXCEPT ![t] = "none"]
    /\ IF request[t].at = "none"
       THEN request' = [request EXCEPT ![t] = Request("sent")] /\ owed' = owed \ {t}
       ELSE UNCHANGED <<request, owed>>
    /\ UNCHANGED <<armedHidden, wakePending>>

Fire(t) ==
    /\ timer[t] # "none"
    /\ Poll(t)
    /\ UNCHANGED <<tmuxVars, publishedVars, hidden, viewVars>>

Refresh(t) ==
    /\ request[t].at # "stopped"
    /\ Poll(t)
    /\ UNCHANGED <<tmuxVars, publishedVars, hidden, viewVars>>

\* #succeeded
Succeed(t) ==
    /\ request[t].at = "answer"
    /\ Look(t, [rows |-> request[t].rows, start |-> request[t].start], active[t])
    /\ request' = [request EXCEPT ![t] = Request("none")]
    /\ Schedule(t)
    /\ UNCHANGED <<tmuxVars, publishedVars, hidden, other, owed>>

\* #failed: a timeout, a lost request, a 503 or a daemon that is gone; the last good
\* rows stay on screen.
Fail(t) ==
    /\ InFlight(t)
    /\ request' = [request EXCEPT ![t] = Request("none")]
    /\ Schedule(t)
    /\ UNCHANGED <<tmuxVars, publishedVars, hidden, owed, viewVars>>

\* #failed with a 401, which stops the polling for good.
Unauthorized(t) ==
    /\ request[t].at = "sent"
    /\ request' = [request EXCEPT ![t] = Request("stopped")]
    /\ owed' = owed \ {t}
    /\ UNCHANGED <<tmuxVars, publishedVars, hidden, timer, armedHidden, wakePending, viewVars>>

Hide(t) ==
    /\ ~hidden[t]
    /\ hidden' = [hidden EXCEPT ![t] = TRUE]
    /\ UNCHANGED <<tmuxVars, publishedVars, pollerVars, viewVars>>

\* wake, in the event that shows the tab.
Show(t) ==
    /\ hidden[t]
    /\ hidden' = [hidden EXCEPT ![t] = FALSE]
    /\ \/ /\ InFlight(t)
          /\ wakePending' = [wakePending EXCEPT ![t] = TRUE]
          /\ owed' = owed \cup {t}
          /\ UNCHANGED <<timer, armedHidden, request>>
       \/ request[t].at = "none" /\ armedHidden[t] /\ Poll(t)
       \/ /\ request[t].at = "stopped" \/ (request[t].at = "none" /\ ~armedHidden[t])
          /\ UNCHANGED pollerVars
    /\ UNCHANGED <<tmuxVars, publishedVars, viewVars>>

\* The tab is loaded anew: readSeen, an empty state, and start.
Reload(t) ==
    /\ stored' = [stored EXCEPT ![t] = storage]
    /\ shown' = [shown EXCEPT ![t] = Nothing] /\ active' = [active EXCEPT ![t] = NoView]
    /\ request' = [request EXCEPT ![t] = Request("sent")]
    /\ timer' = [timer EXCEPT ![t] = "none"]
    /\ armedHidden' = [armedHidden EXCEPT ![t] = FALSE]
    /\ wakePending' = [wakePending EXCEPT ![t] = FALSE] /\ owed' = owed \ {t}
    /\ UNCHANGED <<tmuxVars, publishedVars, hidden, storage, other, looked>>

-----------------------------------------------------------------------------

SeenNext ==
    \/ StartServer \/ PollNoServer \/ Restart
    \/ \E haveStart \in BOOLEAN, finish \in SUBSET PaneId : PollReads(haveStart, finish)
    \/ \E t \in Tab : ReadLatest(t) \/ ReadStart(t)
    \/ \E t \in Tab : Succeed(t) \/ Fail(t) \/ Unauthorized(t)
    \/ \E t \in Tab : Fire(t) \/ Refresh(t) \/ Hide(t) \/ Show(t) \/ Reload(t)
    \/ \E t \in Tab, p \in PaneId \cup {NoView} : View(t, p)
    \/ OtherLoads \/ \E p \in PaneId : OtherLooks(p)

SeenSpec == SeenInit /\ [][SeenNext]_seenVars

-----------------------------------------------------------------------------
(* Properties *)

SeenTypeOK ==
    /\ server \in Server \cup {NoServer} /\ live \subseteq PaneId
    /\ finishedAt \in [PaneId -> Stamp] /\ stamped \in Stamp
    /\ latest \in Rows /\ serverStart \in Server \cup {NoServer}
    /\ hidden \in [Tab -> BOOLEAN] /\ timer \in [Tab -> {"none", "now", "visible", "hidden"}]
    /\ armedHidden \in [Tab -> BOOLEAN] /\ wakePending \in [Tab -> BOOLEAN]
    /\ request \in [Tab -> [at : At, rows : Rows, start : Server \cup {NoServer}]]
    /\ shown \in [Tab -> Shown]
    /\ active \in [Tab -> PaneId \cup {NoView}]
    /\ stored \in [Tab -> SeenMap] /\ storage \in SeenMap /\ other \in SeenMap
    /\ looked \in [PaneId -> SUBSET Stamp] /\ owed \subseteq Tab

\* A finish on screen that is not announced is one this browser has shown: not one
\* that is hidden by a later mark, by a mark of a dead server's pane, of another tab or
\* of an earlier load, whatever poll or restart of tmux fell between the handler's
\* three reads.
NoFinishIsSwallowed ==
    \A t \in Tab, p \in PaneId :
        LET finished == shown[t].rows[p] IN
        shown[t].start # NoServer /\ finished > 0 /\ ~IsDone(t, p) => finished \in looked[p]

\* A tab that comes back while a request is under way polls as soon as that has
\* settled, without waiting for either cadence and though it may have been hidden
\* again since.
WakeIsHonoured == \A t \in owed : InFlight(t) \/ timer[t] = "now"

\* A finish this tab has shown stays shown.  The three reads do not keep it: rows
\* of one server under the generation of the next are announced once more.
ShownStaysShown ==
    \A t \in Tab, p \in PaneId :
        IsDone(t, p) => ~\E k \in Server \X PaneId : k[2] = p /\ stored[t][k] >= shown[t].rows[p]

-----------------------------------------------------------------------------
(* What makes them inductive *)

\* Neither a mark nor a row under way or on screen is later than f for this pane.
NoneLater(p, f) ==
    /\ \A s \in Server : storage[<<s, p>>] <= f /\ other[<<s, p>>] <= f
    /\ \A t \in Tab : shown[t].rows[p] <= f /\ request[t].rows[p] <= f
    /\ \A t \in Tab, s \in Server : stored[t][<<s, p>>] <= f

\* What the daemon remembers of a pane is its newest finish, or nothing.
MemoryIsNewest ==
    \A p \in PaneId :
        /\ finishedAt[p] <= stamped /\ latest[p] \in {NoRow, finishedAt[p]}
        /\ NoneLater(p, stamped)
        /\ finishedAt[p] > 0 => NoneLater(p, finishedAt[p])

\* A tab gets its rows in order: it has marked nothing later than it shows, and shows
\* nothing later than what is on its way to it.
TabIsInOrder ==
    \A t \in Tab, p \in PaneId :
        /\ shown[t].rows[p] > 0 =>
               \A s \in Server : stored[t][<<s, p>>] <= shown[t].rows[p]
        /\ request[t].rows[p] > 0 =>
               /\ shown[t].rows[p] <= request[t].rows[p]
               /\ \A s \in Server : stored[t][<<s, p>>] <= request[t].rows[p]

\* A mark is a finish that was on screen.
Honest(seen) == \A s \in Server, p \in PaneId : seen[<<s, p>>] > 0 => seen[<<s, p>>] \in looked[p]
MarksWereShown == Honest(storage) /\ Honest(other) /\ \A t \in Tab : Honest(stored[t])

\* A tab has a timer or a request, never both, and owes a poll no longer than the
\* request that it remembers the wake over, or the timer that does not wait.
OneOrTheOther == \A t \in Tab : timer[t] # "none" => request[t].at = "none"
WakeIsRemembered == \A t \in owed : timer[t] = "now" \/ (InFlight(t) /\ wakePending[t])

SeenInv == SeenTypeOK /\ MemoryIsNewest /\ TabIsInOrder /\ MarksWereShown /\ OneOrTheOther /\ WakeIsRemembered

=============================================================================
