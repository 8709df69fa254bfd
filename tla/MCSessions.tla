------------------------------- MODULE MCSessions -------------------------------
(***************************************************************************)
(* Instances of Sessions for TLC.                                          *)
(***************************************************************************)
EXTENDS Sessions

(* Bound: hardly anything is claimed of a session that is marked.          *)
Unmarked == \A i \in Ids : marks[i] = {}
===============================================================================
