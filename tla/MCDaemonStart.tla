--------------------------- MODULE MCDaemonStart ---------------------------
(***************************************************************************)
(* Three daemons, two devices: one daemon up, one starting against it, and *)
(* one that died before and left its socket file.                          *)
(***************************************************************************)
EXTENDS DaemonStart, TLC

CONSTANTS p1, p2, p3, d1, d2, nobody

MCProcess == {p1, p2, p3}
MCDevice == {d1, d2}
MCSymmetry == Permutations(MCProcess) \cup Permutations(MCDevice)

=============================================================================
