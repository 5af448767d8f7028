------------------------------ MODULE Devices ------------------------------
(***************************************************************************)
(* The ids of enrolled browsers, which the device store mints and the      *)
(* registry of live sockets is keyed by.                                   *)
(***************************************************************************)

CONSTANT Device \* device ids; randomID never issues one twice

=============================================================================
