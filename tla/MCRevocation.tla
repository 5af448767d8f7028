---------------------------- MODULE MCRevocation ----------------------------
(***************************************************************************)
(* Revocation on two devices and three requests.  The first two requests   *)
(* are about one device: two sockets of it, or a socket and a revocation,  *)
(* or two revocations, its own or the command line's.  The third is about  *)
(* either device: a bystander, a revocation by another device, or a third  *)
(* request of the same.                                                    *)
(*                                                                         *)
(* Symmetry is not sound for a liveness property; naming the two alike     *)
(* requests in the order in which they come up is, since every behaviour   *)
(* is one of those after a renaming.                                       *)
(***************************************************************************)
EXTENDS Revocation

CONSTANTS d1, d2, r1, r2, r3, t1, gone

MCDevice == {d1, d2}
MCRequest == {r1, r2, r3}
MCStamp == {t1}

MCBound ==
    /\ pc'[r2] # "none" => pc'[r1] # "none"
    /\ \A r \in {r1, r2} : {dev'[r], target'[r]} \subseteq {d1, gone}

=============================================================================
