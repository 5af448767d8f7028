---------------------------- MODULE MCGitReader ----------------------------
(***************************************************************************)
(* Two directories, the second inside a repository that is itself inside   *)
(* the first's, as a submodule's is.                                       *)
(***************************************************************************)
EXTENDS GitReader

CONSTANTS d1, d2, outer, inner, none

MCDir == {d1, d2}
MCRepo == {outer, inner}
MCAbove == [d \in MCDir |-> IF d = d1 THEN <<outer>> ELSE <<inner, outer>>]

\* The first directory always has a pane and a repository, and its mount may
\* hang; the second comes and goes, and so does the repository nested in it.
MCBound ==
    /\ d1 \in cwd' /\ wedged' \subseteq {d1}
    /\ git'[outer] = "leads" /\ outer \in headed'
    /\ git'[inner] = "unusable" => inner \notin headed'

=============================================================================
