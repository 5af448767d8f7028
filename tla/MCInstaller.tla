----------------------------- MODULE MCInstaller -----------------------------
(* Three runs of two versions that register different events. *)
EXTENDS Installer, TLC

CONSTANTS e1, e2, o1, r1, r2, r3

MCFiles == <<"script", "skill">>
MCEvent == {e1, e2}
MCVersion == {1, 2}
MCRegisters == [v \in MCVersion |-> IF v = 1 THEN {e1} ELSE {e2}]
MCOwn == {o1}
MCRun == {r1, r2, r3}
MCSymmetry == Permutations(MCRun)
=============================================================================
