----------------------------- MODULE Classifier -----------------------------
(***************************************************************************)
(* The screen classifier of internal/tmux/state.go, for one pane: what it  *)
(* remembers between two captures, and what one capture makes of it.       *)
(*                                                                         *)
(* A capture is a Picture, and its hash is the picture itself: two screens *)
(* that differ are taken to hash differently.  The dialog grammars are     *)
(* abstracted to the picture's form, which is TRUE when one of them        *)
(* matches.                                                                *)
(***************************************************************************)
EXTENDS Integers

CONSTANTS
    Image,          \* what a screen may look like, but for a dialog on it
    Unseen,         \* no entry for the pane
    SettleAfter,    \* identical comparisons that mean idle
    Dwell           \* lateRepaintDwell, in poll intervals

ASSUME SettleAssumption == SettleAfter \in Nat \ {0}
ASSUME DwellAssumption == Dwell \in Nat

Picture == [image : Image, form : BOOLEAN]

\* paneState.  still only matters below, at and beyond SettleAfter.
Beyond == SettleAfter + 1
Entry == [hash : Picture, still : 0 .. Beyond, finishedAt : Nat, everChanged : BOOLEAN]
ASSUME UnseenAssumption == Unseen \notin Entry

FirstSight(pic) == [hash |-> pic, still |-> 0, finishedAt |-> 0, everChanged |-> FALSE]

\* Status.Changed: this capture differs from the previous one.
Changed(e, pic) == e # Unseen /\ e.hash # pic

Compared(e, pic) ==
    IF e.hash # pic THEN [e EXCEPT !.hash = pic, !.still = 0, !.everChanged = TRUE]
    ELSE [e EXCEPT !.still = IF @ = Beyond THEN Beyond ELSE @ + 1]

\* Mistake: a run whose screen was never seen to change earns a finish too.
EarnsWithoutChange(e, t, blocked) ==
    /\ e.still = SettleAfter
    /\ ~ blocked
    /\ e.finishedAt = 0 \/ t - e.finishedAt >= Dwell

\* The four guards of the finish stamp.
EarnsFinish(e, t, blocked) ==
    /\ e.still = SettleAfter
    /\ e.everChanged
    /\ ~ blocked
    /\ e.finishedAt = 0 \/ t - e.finishedAt >= Dwell

\* Classifier.Observe, for a capture taken by a poll at time t.
ObserveScreen(e, pic, t, blocked) ==
    IF e = Unseen THEN FirstSight(pic)
    ELSE LET c == Compared(e, pic)
         IN IF EarnsFinish(c, t, blocked) THEN [c EXCEPT !.finishedAt = t] ELSE c

\* Mistake: idle after one comparison less.
VerdictEarly(e) == IF e.still < SettleAfter - 1 THEN "working" ELSE "idle"

Verdict(e) == IF e.still < SettleAfter THEN "working" ELSE "idle"

=============================================================================
