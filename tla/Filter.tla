------------------------------- MODULE Filter -------------------------------
(***************************************************************************)
(* A loop that keeps some elements of a list, as a recursive function: the *)
(* provers cannot look into SelectSeq.                                     *)
(***************************************************************************)
EXTENDS Integers, Sequences

\* The elements of q that are in S, in their order.
Those(q, S) ==
    LET kept[n \in 0 .. Len(q)] ==
            IF n = 0 THEN <<>>
            ELSE IF q[n] \in S THEN Append(kept[n - 1], q[n]) ELSE kept[n - 1]
    IN kept[Len(q)]

=============================================================================
