---------------------------- MODULE CallLifecycle ----------------------------
(***************************************************************************)
(* What a call promises to the rest of the program, without threads, media *)
(* or relays.  A call is placed or offered, it rings, it is answered once, *)
(* people talk once it was answered, and it is over for one reason, which  *)
(* is given when it ends and never replaced.  Talk time is charged exactly *)
(* if there was talk.  A call that is over stays over, whatever arrives    *)
(* late.                                                                   *)
(***************************************************************************)

CONSTANTS Reasons, NoReason

VARIABLES phase,        \* "none", "placed", "ringing", "answered", "talking", "over"
          charged,      \* the call has a duration
          reason        \* why it is over

vars == <<phase, charged, reason>>

Init == phase = "none" /\ charged = FALSE /\ reason = NoReason

Place == phase = "none" /\ phase' = "placed" /\ UNCHANGED <<charged, reason>>

Ring == phase \in {"none", "placed"} /\ phase' = "ringing" /\ UNCHANGED <<charged, reason>>

Answer == phase = "ringing" /\ phase' = "answered" /\ UNCHANGED <<charged, reason>>

Talk == phase = "answered" /\ phase' = "talking" /\ UNCHANGED <<charged, reason>>

Finish ==
  /\ phase \in {"placed", "ringing", "answered", "talking"}
  /\ phase' = "over"
  /\ charged' = (phase = "talking")
  /\ reason' \in Reasons

Next == Place \/ Ring \/ Answer \/ Talk \/ Finish

Spec == Init /\ [][Next]_vars
==============================================================================
