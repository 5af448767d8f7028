-------------------------- MODULE MCReportWriter --------------------------
(***************************************************************************)
(* A pane of claude, whose hooks race, or of opencode or pi with two      *)
(* copies of the integration, of different schemas.                        *)
(***************************************************************************)
EXTENDS ReportWriter

CONSTANTS global, project

MCAgents == {"claude", "opencode", "pi"}
MCCopy == {global, project}
MCSchema == [c \in MCCopy |-> IF c = global THEN 2 ELSE 1]

=============================================================================
