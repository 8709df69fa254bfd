------------------------------ MODULE MCSctpRelay ------------------------------
(***************************************************************************)
(* Instances of SctpRelay for TLC.                                         *)
(***************************************************************************)
EXTENDS SctpRelay

===============================================================================
