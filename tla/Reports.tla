------------------------------- MODULE Reports -------------------------------
(***************************************************************************)
(* The report memory of internal/tmux/reports.go, for one pane: which of   *)
(* the values read from the pane's @tmux_web_agent option is the authority *)
(* for its state, and the evidence rules that may overturn it.             *)
(***************************************************************************)
EXTENDS Integers

CONSTANTS
    NoReport,       \* the option holds nothing that parses
    Forgotten,      \* no memory of the pane
    WorkingTTL,     \* how long a working report stands, in poll intervals
    NIdle,          \* the verification window of a reported idle, in captures
    NBlocked        \* settled captures without a form that end a blocked

ASSUME TTLAssumption == WorkingTTL \in Nat
ASSUME WindowAssumption == NIdle \in Nat \ {0} /\ NBlocked \in Nat \ {0}

States == {"working", "blocked", "idle"}
Report == [state : States, ts : Nat \ {0}]

\* reportState: the report in force and the evidence gathered about it.
Memory == [accepted : Report, windowPolls : 0 .. NIdle, verified : BOOLEAN,
           settledPolls : 0 .. NBlocked, rejected : Nat]

ASSUME NoReportAssumption == NoReport \notin Report
ASSUME ForgottenAssumption == Forgotten \notin Memory

NewClaim(rep) ==
    [accepted |-> rep, windowPolls |-> 0, verified |-> FALSE, settledPolls |-> 0, rejected |-> 0]

\* Mistake: whatever the option holds is accepted, also an older write.
RecallUnordered(m, raw) ==
    IF raw = NoReport THEN Forgotten
    ELSE IF m = Forgotten \/ raw.ts # m.accepted.ts THEN NewClaim(raw) ELSE m

\* Reports.Observe, what it remembers: an unreadable value clears the memory, a
\* first sight or a newer report is a new claim, anything else changes nothing.
Recall(m, raw) ==
    IF raw = NoReport THEN Forgotten
    ELSE IF m = Forgotten \/ raw.ts > m.accepted.ts THEN NewClaim(raw) ELSE m

\* Reports.Observe, what it answers: the accepted report is in force unless the
\* evidence has overturned it or it is a working report nobody re-asserted.
InForce(m, t) ==
    /\ m # Forgotten
    /\ m.accepted.ts # m.rejected
    /\ ~ (m.accepted.state = "working" /\ t - m.accepted.ts > WorkingTTL)

NeedsScreen(m) ==
    \/ m.accepted.state = "idle" /\ ~ m.verified
    \/ m.accepted.state = "blocked"

Reject(m) == [m EXCEPT !.rejected = m.accepted.ts]

\* Rule 3: a reported idle stands if the classifier agrees within the window.
Corroborate(m, idle) ==
    LET n == [m EXCEPT !.windowPolls = @ + 1, !.verified = idle \/ @]
    IN IF ~ idle /\ n.windowPolls >= NIdle THEN Reject(n) ELSE n

\* Mistake: one settled capture too many is waited for.
CorroborateBlockedLate(m, changed, form) ==
    LET n == [m EXCEPT !.settledPolls = IF form THEN 0 ELSE @ + 1]
    IN IF changed THEN Reject(m)
       ELSE IF n.settledPolls > NBlocked THEN Reject(n) ELSE n

\* Rule 1: a screen that moved ends a reported blocked.  Rule 2: so do NBlocked
\* settled captures in a row without a form.
CorroborateBlocked(m, changed, form) ==
    LET n == [m EXCEPT !.settledPolls = IF form THEN 0 ELSE @ + 1]
    IN IF changed THEN Reject(m)
       ELSE IF n.settledPolls >= NBlocked THEN Reject(n) ELSE n

\* The answer of both rules: the report survives this capture.
Stands(m) == m.rejected # m.accepted.ts

Confirmed(m, watched) == watched => m.verified

=============================================================================
