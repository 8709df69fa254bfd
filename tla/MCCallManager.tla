---------------------------- MODULE MCCallManager ----------------------------
(***************************************************************************)
(* Instances of CallManager for TLC.  The clients are interchangeable, and *)
(* so are the relays; the devices are not (Primary is one of them).        *)
(***************************************************************************)
EXTENDS CallManager, TLC

Symmetry == Permutations(Clients) \cup Permutations(Relays)
==============================================================================
