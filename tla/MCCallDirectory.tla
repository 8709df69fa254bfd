--------------------------- MODULE MCCallDirectory ---------------------------
(***************************************************************************)
(* Instances of CallDirectory for TLC.  Requests are interchangeable, and  *)
(* so are operators and offered calls.                                     *)
(***************************************************************************)
EXTENDS CallDirectory, TLC

Symmetry == Permutations(Requests) \cup Permutations(Operators) \cup Permutations(Offered)

(* Bound of the run on capacity: no browser connects and no peer accepts,  *)
(* neither of which reads or changes the registry.                         *)
NoMedia ==
  bridged = {} /\ \A c \in Calls : recorder[c] = "none" /\ phase[c] \notin {"connecting", "active"}
==============================================================================
