----------------------------- MODULE MCSeenMarks -----------------------------
(* One pane id over two tmux servers, and a tab beside another. *)
EXTENDS SeenMarks

CONSTANTS p1, t1

MCPane == {p1}
MCTab == {t1}
=============================================================================
