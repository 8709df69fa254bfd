------------------------------ MODULE CallState ------------------------------
(***************************************************************************)
(* The call record (CallInfo) and its transition function                  *)
(* (internal/voip/call/callstate.go).  Every change of a call's state goes *)
(* through ApplyTransition, which either performs the transition or        *)
(* returns an InvalidTransition error and leaves the record as it was.     *)
(* All callers but two drop that error, so the operator here is total.     *)
(*                                                                         *)
(* Times are kept as "was it set": the code never compares two of them     *)
(* except to compute the duration.  The mute and video flags of an active  *)
(* call are not kept: the two transitions that set them leave the state    *)
(* as it is, and nothing in the program issues them.                       *)
(***************************************************************************)

CONSTANTS Reasons,      \* why a call may end (core.EndCallReason)
          NoReason      \* the empty reason of a call that has not ended

Directions == {"outgoing", "incoming"}

States == {"initiating", "ringing", "incoming_ringing", "connecting",
           "active", "on_hold", "ended"}

(* The states a transition is valid in, and the state it leads to. *)
Source ==
  [ offer_sent      |-> {"initiating"},
    offer_received  |-> {"initiating"},
    remote_accepted |-> {"ringing"},
    local_accepted  |-> {"incoming_ringing"},
    remote_rejected |-> {"ringing"},
    local_rejected  |-> {"incoming_ringing"},
    media_connected |-> {"connecting"},
    terminated      |-> States \ {"ended"},
    hold            |-> {"active"},
    resume          |-> {"on_hold"} ]

Target ==
  [ offer_sent      |-> "ringing",
    offer_received  |-> "incoming_ringing",
    remote_accepted |-> "connecting",
    local_accepted  |-> "connecting",
    remote_rejected |-> "ended",
    local_rejected  |-> "ended",
    media_connected |-> "active",
    terminated      |-> "ended",
    hold            |-> "on_hold",
    resume          |-> "active" ]

Transitions == DOMAIN Target

(* The part of a CallInfo that ApplyTransition reads or writes. *)
Progress == [ state       : States,
              acceptedAt  : BOOLEAN,
              connectedAt : BOOLEAN,
              timed       : BOOLEAN,           \* DurationSecs was computed
              reason      : Reasons \cup {NoReason} ]

NewProgress(dir) ==
  [ state       |-> IF dir = "outgoing" THEN "initiating" ELSE "incoming_ringing",
    acceptedAt  |-> FALSE,
    connectedAt |-> FALSE,
    timed       |-> FALSE,
    reason      |-> NoReason ]

CanApply_Unchecked(p, t) == TRUE

CanApply(p, t) == p.state \in Source[t]

(* ApplyTransition: the transition if it is valid, else no change at all. *)
Apply(p, t, why) ==
  IF CanApply(p, t)
  THEN [ state       |-> Target[t],
         acceptedAt  |-> p.acceptedAt \/ t \in {"local_accepted", "remote_accepted"},
         connectedAt |-> p.connectedAt \/ t = "media_connected",
         timed       |-> p.timed \/ /\ t = "terminated"
                                    /\ p.state \in {"active", "on_hold"}
                                    /\ p.connectedAt,
         reason      |-> IF Target[t] = "ended" THEN why ELSE p.reason ]
  ELSE p
==============================================================================
