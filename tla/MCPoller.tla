------------------------------ MODULE MCPoller ------------------------------
(***************************************************************************)
(* The poller with two callers, which share a batch or ask while the other *)
(* is served, and one change of the tree.  The callers are alike; naming   *)
(* them in the order in which they act cuts the copies and, unlike         *)
(* symmetry, keeps liveness.                                               *)
(***************************************************************************)
EXTENDS Poller

CONSTANTS c1, c2, none

MCCaller == {c1, c2}

MCInOrder == pc'[c2] # "new" => pc'[c1] # "new"

=============================================================================
