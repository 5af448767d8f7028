---------------------------- MODULE MCEnrollment ----------------------------
(***************************************************************************)
(* Two links that live three ticks, and a limiter of two failures in two   *)
(* ticks: a flood can trip it, subside, and trip it again within a link's  *)
(* life, and a restart can fall anywhere.                                  *)
(***************************************************************************)
EXTENDS Enrollment, TLC

CONSTANTS l1, l2, bogus

MCLink == {l1, l2}
MCSymmetry == Permutations(MCLink)

=============================================================================
