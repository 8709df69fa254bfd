----------------------------- MODULE CallManager -----------------------------
(***************************************************************************)
(* One CallManager (internal/voip/call): a call, its media sessions and    *)
(* its relay connections, worked on by                                     *)
(*   - the HTTP requests of the operators (Clients): start, accept,        *)
(*     reject, end, and the teardown of the whole session,                 *)
(*   - the event goroutine of the WhatsApp connection ("events"), which    *)
(*     runs the handlers of the peer's stanzas one after the other,        *)
(*   - the goroutine that handles the answer to our offer ("ack"),         *)
(*   - the callbacks of the relay connections (no thread of their own).    *)
(*                                                                         *)
(* The session makes a new CallManager for every call, so it holds at most *)
(* one call in its life.  Every section of code between Lock and Unlock of *)
(* CallManager.mu is one action; everything that happens between two such  *)
(* sections may be interleaved with the other threads.  OnStateChange runs *)
(* inside those sections (emitState), and its effect on the session's      *)
(* registry of calls is part of them.                                      *)
(***************************************************************************)
EXTENDS Naturals, FiniteSets, RelayLinks

CONSTANTS Clients,      \* HTTP requests that may be in progress together
          Devices,      \* the devices of the peer
          Primary,      \* the device that call.PeerJid names
          NoCall, NoPeer, NoRelays, NoKeys

VARIABLES call,         \* currentCall
          codec,        \* codec is not nil
          rtp,          \* rtpSession is not nil
          srtp,         \* srtpSession: whose key and device it receives with
          keepalive,    \* keepaliveStop is not nil: the silence goroutine runs
          acceptedBy,   \* acceptedByJid
          registered,   \* the session's registry holds this manager
          th            \* the threads

media == <<codec, rtp, srtp, keepalive>>
relay == links
vars  == <<call, media, acceptedBy, registered, relay, th>>

------------------------------------------------------------------------------
(* Data *)

Reasons == {"declined", "user_ended", "peer"}

CS == INSTANCE CallState WITH NoReason <- "none"

(* An endpoint of a relay list.  raw: protocol 0 with a key and a raw      *)
(* token, which only the structured (te2) form of a list can carry.        *)
Endpoint == [ip : Relays, raw : BOOLEAN]

RelayData == [eps : SUBSET Endpoint, peer : Devices \cup {NoPeer}]

Call == [ dir    : CS!Directions,
          prog   : CS!Progress,
          key    : BOOLEAN,                       \* EncryptionKey is not nil
          relays : RelayData \cup {NoRelays} ]

Keys == [from : {"call", "peer"}, dev : Devices]

Threads == Clients \cup {"events", "ack"}

Labels == { "idle", "start", "query", "accept", "accept_media", "dial_current",
            "dial", "configure", "reject", "end", "cleanup", "relay_cleanup",
            "unregister", "offer", "announce", "emit", "rekey", "accepted",
            "connect", "transport", "transport_set", "terminate", "ack" }

Thread == [ at    : Labels,
            eps   : SUBSET Endpoint,    \* endpoints to connect to
            check : SUBSET Relays,      \* ids still to be looked up in the map
            dial  : SUBSET Relays,      \* ids whose connectToRelay has yet to insert
            dev   : Devices \cup {NoPeer} ]

Resting == [at |-> "idle", eps |-> {}, check |-> {}, dial |-> {}, dev |-> NoPeer]

ASSUME ConstantAssumption ==
  /\ Primary \in Devices
  /\ NoPeer \notin Devices
  /\ NoCall \notin Call
  /\ NoRelays \notin RelayData
  /\ NoKeys \notin Keys
  /\ {"events", "ack"} \cap Clients = {}

TypeOK ==
  /\ call \in Call \cup {NoCall}
  /\ codec \in BOOLEAN
  /\ rtp \in BOOLEAN
  /\ srtp \in Keys \cup {NoKeys}
  /\ keepalive \in BOOLEAN
  /\ acceptedBy \in Devices \cup {NoPeer}
  /\ registered \in BOOLEAN
  /\ LinksTypeOK
  /\ th \in [Threads -> Thread]

Init ==
  /\ call = NoCall
  /\ codec = FALSE
  /\ rtp = FALSE
  /\ srtp = NoKeys
  /\ keepalive = FALSE
  /\ acceptedBy = NoPeer
  /\ registered = FALSE
  /\ LinksInit
  /\ th = [t \in Threads |-> Resting]

State == IF call = NoCall THEN "none" ELSE call.prog.state

At(t, label) == th[t].at = label

Move(t, thread) == th' = [th EXCEPT ![t] = thread]

Goto(t, label) == Move(t, [th[t] EXCEPT !.at = label])

Rest(t) == Move(t, Resting)

(* The inputs: a list of relays as attributes, or in the structured form.  *)
Listed(raw) == {{[ip |-> r, raw |-> raw] : r \in R} : R \in (SUBSET Relays) \ {{}}}

Usable_AnyForm(eps) == {e.ip : e \in eps}

(* buildRelayConfigs: what of a list can be connected to. *)
Usable(eps) == {e.ip : e \in {x \in eps : x.raw}}

HasConnection == \E r \in Relays : conns[r] = "open"

Emit_StaysRegistered(c) == registered' = registered

(* emitState calls OnStateChange, which drops an ended call's manager from *)
(* the registry; the record it keeps for other states is the broker's.     *)
Emit(c) == registered' = (registered /\ c.prog.state # "ended")

Step(c, t, why) == [c EXCEPT !.prog = CS!Apply(@, t, why)]

ReceiveDevice_IgnoresAcceptor(c, accepted) ==
  IF c.relays # NoRelays /\ c.relays.peer # NoPeer THEN c.relays.peer ELSE Primary

(* initSrtpKeysLocked: the device the peer's media is expected from. *)
ReceiveDevice(c, accepted) ==
  IF accepted # NoPeer THEN accepted
  ELSE IF c.relays # NoRelays /\ c.relays.peer # NoPeer THEN c.relays.peer
  ELSE Primary

InitSrtp(c, accepted) ==
  srtp' = IF c.key THEN [from |-> "call", dev |-> ReceiveDevice(c, accepted)]
          ELSE srtp

(* startSilenceKeepaliveLocked *)
StartKeepalive == keepalive' = (keepalive \/ codec)

------------------------------------------------------------------------------
(* An outgoing call: StartCall and the answer to the offer *)

BeginStart(t) ==
  /\ t \in Clients
  /\ call = NoCall /\ ~registered
  /\ \A u \in Threads : At(u, "idle")
  /\ registered' = TRUE
  /\ Goto(t, "start")
  /\ UNCHANGED <<call, media, acceptedBy, relay>>

StartCall(t) ==
  /\ At(t, "start")
  /\ State \in {"none", "ended"}
  /\ call' = [dir |-> "outgoing", prog |-> CS!NewProgress("outgoing"),
              key |-> TRUE, relays |-> NoRelays]
  /\ rtp' = TRUE
  /\ codec' \in {codec, TRUE}                  \* the codec may be unavailable
  /\ Goto(t, "query")
  /\ UNCHANGED <<srtp, keepalive, acceptedBy, registered, relay>>

(* The offer cannot be built or sent: startOutgoing drops the manager. *)
QueryFails(t) ==
  /\ At(t, "query")
  /\ registered' = FALSE
  /\ Rest(t)
  /\ UNCHANGED <<call, media, acceptedBy, relay>>

(* The answer, or nil after the query's timeout, which counts as sent. *)
QueryReturns(t, answered) ==
  /\ At(t, "query")
  /\ call' = Step(call, "offer_sent", "none")
  /\ Emit(call')
  /\ th' = [th EXCEPT ![t] = Resting, 
                       !["ack"] = IF answered THEN [@ EXCEPT !.at = "ack"] ELSE @]
  /\ UNCHANGED <<media, acceptedBy, relay>>

(* HandleCallAck.  An error, or an answer without relays, changes nothing. *)
IgnoreAck ==
  /\ At("ack", "ack")
  /\ Rest("ack")
  /\ UNCHANGED <<call, media, acceptedBy, registered, relay>>

HandleCallAck(eps, peer) ==
  /\ At("ack", "ack")
  /\ call' = [call EXCEPT !.relays = [eps |-> eps, peer |-> peer]]
  /\ IF peer # NoPeer
     THEN rtp' \in {rtp, TRUE} /\ InitSrtp(call', acceptedBy)
     ELSE UNCHANGED <<rtp, srtp>>
  /\ Move("ack", [th["ack"] EXCEPT !.at = "dial", !.eps = eps])
  /\ UNCHANGED <<codec, keepalive, acceptedBy, registered, relay>>

------------------------------------------------------------------------------
(* connectRelays and ConfigureRelays *)

DialCurrent(t) ==              \* AcceptCall reads the endpoints after unlocking
  /\ At(t, "dial_current")
  /\ Move(t, [th[t] EXCEPT !.at = "dial", !.eps = call.relays.eps])
  /\ UNCHANGED <<call, media, acceptedBy, registered, relay>>

Dial(t) ==
  /\ At(t, "dial")
  /\ IF Usable(th[t].eps) = {}
     THEN Rest(t)
     ELSE Move(t, [th[t] EXCEPT !.at = "configure", !.check = Usable(th[t].eps)])
  /\ UNCHANGED <<call, media, acceptedBy, registered, relay>>

Lookup(t, r) ==
  /\ At(t, "configure")
  /\ r \in th[t].check
  /\ Move(t, [th[t] EXCEPT !.check = @ \ {r},
                           !.dial = IF conns[r] = "none" THEN @ \cup {r} ELSE @])
  /\ UNCHANGED <<call, media, acceptedBy, registered, relay>>

Connect(t, r) ==
  /\ At(t, "configure")
  /\ r \in th[t].dial
  /\ Inserted(r)
  /\ Move(t, [th[t] EXCEPT !.dial = @ \ {r}])
  /\ UNCHANGED <<call, media, acceptedBy, registered>>

Configured(t) ==
  /\ At(t, "configure")
  /\ th[t].check = {} /\ th[t].dial = {}
  /\ Rest(t)
  /\ UNCHANGED <<call, media, acceptedBy, registered, relay>>

(* The relay connections themselves: one opens, or fails, times out or     *)
(* closes; a stray one opens or is gone.  The callback comes in two steps. *)
RelayOpens(r) == Opens(r) /\ UNCHANGED <<call, media, acceptedBy, registered, th>>

RelayFails(r) == Lost(r) /\ UNCHANGED <<call, media, acceptedBy, registered, th>>

StrayOpens(r) == StrayOpened(r) /\ UNCHANGED <<call, media, acceptedBy, registered, th>>

StrayGone(r) == StrayLost(r) /\ UNCHANGED <<call, media, acceptedBy, registered, th>>

OnRelayConnected(r) ==
  /\ Reported(r)
  /\ IF State = "connecting"
     THEN /\ call' = Step(call, "media_connected", "none")
          /\ Emit(call')
          /\ StartKeepalive
     ELSE UNCHANGED <<call, registered, keepalive>>
  /\ UNCHANGED <<codec, rtp, srtp, acceptedBy, th>>

------------------------------------------------------------------------------
(* An incoming call: HandleCallOffer and AcceptCall *)

BeginOffer ==
  /\ call = NoCall /\ ~registered
  /\ \A u \in Threads : At(u, "idle")
  /\ registered' = TRUE
  /\ Goto("events", "offer")
  /\ UNCHANGED <<call, media, acceptedBy, relay>>

(* The key is missing if it cannot be decrypted.  An attribute list comes  *)
(* without participants, a structured one with the peer's device.          *)
HandleCallOffer(key, relays) ==
  /\ At("events", "offer")
  /\ call' = [dir |-> "incoming", prog |-> CS!NewProgress("incoming"),
              key |-> key, relays |-> relays]
  /\ rtp' = TRUE
  /\ codec' \in {codec, TRUE}
  /\ Goto("events", "announce")
  /\ UNCHANGED <<srtp, keepalive, acceptedBy, registered, relay>>

Announce ==                      \* OnIncoming, outside the lock
  /\ At("events", "announce")
  /\ Goto("events", "emit")
  /\ UNCHANGED <<call, media, acceptedBy, registered, relay>>

EmitIncoming ==
  /\ At("events", "emit")
  /\ Emit(call)
  /\ Rest("events")
  /\ UNCHANGED <<call, media, acceptedBy, relay>>

(* An operator can name a call once it was announced to it: an incoming    *)
(* one by OnIncoming, an outgoing one by the first OnStateChange.          *)
Announced ==
  /\ registered /\ call # NoCall
  /\ ~At("events", "announce")
  /\ State # "initiating"

BeginRequest(t, request) ==
  /\ t \in Clients /\ At(t, "idle")
  /\ Announced
  /\ Goto(t, request)
  /\ UNCHANGED <<call, media, acceptedBy, registered, relay>>

AcceptCall(t) ==
  /\ At(t, "accept")
  /\ IF State = "incoming_ringing"
     THEN /\ call' = Step(call, "local_accepted", "none")
          /\ Emit(call')
          /\ IF call.relays # NoRelays THEN Goto(t, "accept_media") ELSE Rest(t)
     ELSE Rest(t) /\ UNCHANGED <<call, registered>>
  /\ UNCHANGED <<media, acceptedBy, relay>>

SetupIncomingMedia(t) ==
  /\ At(t, "accept_media")
  /\ rtp' \in IF call.relays.peer # NoPeer THEN {rtp, TRUE} ELSE {rtp}
  /\ InitSrtp(call, acceptedBy)
  /\ Goto(t, "dial_current")
  /\ UNCHANGED <<call, codec, keepalive, acceptedBy, registered, relay>>

------------------------------------------------------------------------------
(* The ways a call ends *)

(* RejectCall answers any call: one that is not an incoming ringing call   *)
(* keeps its state, but its media is cleaned up all the same.              *)
RejectCall(t) ==
  /\ At(t, "reject")
  /\ call' = Step(call, "local_rejected", "declined")
  /\ Emit(call')
  /\ Goto(t, "cleanup")
  /\ UNCHANGED <<media, acceptedBy, relay>>

(* teardownAllCalls takes the manager from the registry, then ends it.     *)
BeginTeardown(t) ==
  /\ t \in Clients /\ At(t, "idle")
  /\ registered
  /\ registered' = FALSE
  /\ Goto(t, "end")
  /\ UNCHANGED <<call, media, acceptedBy, relay>>

EndCall_NoCleanup(t) ==
  /\ At(t, "end")
  /\ IF State \in {"none", "ended"}
     THEN UNCHANGED <<call, registered>>
     ELSE call' = Step(call, "terminated", "user_ended") /\ Emit(call')
  /\ Goto(t, "unregister")
  /\ UNCHANGED <<media, acceptedBy, relay>>

EndCall(t) ==
  /\ At(t, "end")
  /\ IF State \in {"none", "ended"}
     THEN Goto(t, "unregister") /\ UNCHANGED <<call, registered>>
     ELSE /\ call' = Step(call, "terminated", "user_ended")
          /\ Emit(call')
          /\ Goto(t, "cleanup")
  /\ UNCHANGED <<media, acceptedBy, relay>>

HandleCallTerminate_NoCleanup ==
  /\ At("events", "terminate")
  /\ call' = Step(call, "terminated", "peer")
  /\ registered' = FALSE
  /\ Rest("events")
  /\ UNCHANGED <<media, acceptedBy, relay>>

HandleCallTerminate ==
  /\ At("events", "terminate")
  /\ call' = Step(call, "terminated", "peer")
  /\ registered' = FALSE                    \* emitState, and OnEnded
  /\ Goto("events", "cleanup")
  /\ UNCHANGED <<media, acceptedBy, relay>>

CleanupMedia(t) ==
  /\ At(t, "cleanup")
  /\ codec' = FALSE
  /\ keepalive' = FALSE
  /\ rtp' = FALSE
  /\ srtp' = NoKeys
  /\ Goto(t, "relay_cleanup")
  /\ UNCHANGED <<call, acceptedBy, registered, relay>>

(* relay.Cleanup: the map is emptied first and its connections are closed  *)
(* after, so one that was connecting may still open in between.            *)
CleanupRelays(t) ==
  /\ At(t, "relay_cleanup")
  /\ Emptied
  /\ IF t \in Clients THEN Goto(t, "unregister") ELSE Rest(t)
  /\ UNCHANGED <<call, media, acceptedBy, registered>>

(* doReject and doEndCall remove the call, whatever became of it. *)
Unregister(t) ==
  /\ At(t, "unregister")
  /\ registered' = FALSE
  /\ Rest(t)
  /\ UNCHANGED <<call, media, acceptedBy, relay>>

------------------------------------------------------------------------------
(* The stanzas of the peer, one handler at a time *)

BeginEvent(event) ==
  /\ At("events", "idle")
  /\ registered /\ call # NoCall
  /\ Goto("events", event)
  /\ UNCHANGED <<call, media, acceptedBy, registered, relay>>

(* The device that answers an outgoing call; only it may answer again. It  *)
(* may send a call key of its own.                                         *)
BeginAccepted(dev, ownKey) ==
  /\ At("events", "idle")
  /\ registered /\ call # NoCall
  /\ call.dir = "outgoing"
  /\ acceptedBy \in {NoPeer, dev}
  /\ Move("events", [th["events"] EXCEPT !.at = IF ownKey THEN "rekey" ELSE "accepted",
                                          !.dev = dev])
  /\ UNCHANGED <<call, media, acceptedBy, registered, relay>>

ReinitSrtp ==
  /\ At("events", "rekey")
  /\ srtp' = IF call.key THEN [from |-> "peer", dev |-> th["events"].dev] ELSE srtp
  /\ Goto("events", "accepted")
  /\ UNCHANGED <<call, codec, rtp, keepalive, acceptedBy, registered, relay>>

HandleCallAccept ==
  /\ At("events", "accepted")
  /\ call' = Step(call, "remote_accepted", "none")
  /\ Emit(call')
  /\ acceptedBy' = th["events"].dev
  /\ InitSrtp(call', acceptedBy')
  /\ IF HasConnection THEN Goto("events", "connect")
     ELSE IF call.relays = NoRelays THEN Rest("events")
     ELSE Move("events", [th["events"] EXCEPT !.at = "dial", !.eps = call.relays.eps])
  /\ UNCHANGED <<codec, rtp, keepalive, relay>>

ConnectAccepted_Dropped ==
  /\ At("events", "connect")
  /\ Rest("events")
  /\ UNCHANGED <<call, media, acceptedBy, registered, relay>>

(* The second section of HandleCallAccept, on what the first one saw.      *)
ConnectAccepted ==
  /\ At("events", "connect")
  /\ call' = Step(call, "media_connected", "none")
  /\ IF State = "connecting"
     THEN Emit(call') /\ StartKeepalive
     ELSE UNCHANGED <<registered, keepalive>>
  /\ Rest("events")
  /\ UNCHANGED <<codec, rtp, srtp, acceptedBy, relay>>

(* A transport stanza lists relays as attributes, or none. *)
HandleCallTransport(eps) ==
  /\ At("events", "transport")
  /\ IF eps = {} \/ HasConnection
     THEN Rest("events")
     ELSE Move("events", [th["events"] EXCEPT !.at = "transport_set", !.eps = eps])
  /\ UNCHANGED <<call, media, acceptedBy, registered, relay>>

TransportSet ==
  /\ At("events", "transport_set")
  /\ call' = [call EXCEPT !.relays =
                [eps  |-> th["events"].eps,
                 peer |-> IF @ = NoRelays THEN NoPeer ELSE @.peer]]
  /\ Goto("events", "dial")
  /\ UNCHANGED <<media, acceptedBy, registered, relay>>

------------------------------------------------------------------------------
(* The specification *)

OfferRelays ==
  {NoRelays} \cup {[eps |-> e, peer |-> NoPeer] : e \in Listed(FALSE)}
             \cup {[eps |-> e, peer |-> Primary] : e \in Listed(TRUE)}

(* What a thread does once it has begun. *)
Continue(t) ==
  \/ StartCall(t) \/ QueryFails(t) \/ \E a \in BOOLEAN : QueryReturns(t, a)
  \/ AcceptCall(t) \/ SetupIncomingMedia(t) \/ DialCurrent(t)
  \/ RejectCall(t) \/ EndCall(t) \/ CleanupMedia(t) \/ CleanupRelays(t) \/ Unregister(t)
  \/ Dial(t) \/ Configured(t) \/ \E r \in Relays : Lookup(t, r) \/ Connect(t, r)

ContinueAck ==
  IgnoreAck \/ \E eps \in Listed(TRUE) \cup Listed(FALSE), peer \in Devices \cup {NoPeer} :
                 HandleCallAck(eps, peer)

ContinueEvent ==
  \/ \E key \in BOOLEAN, relays \in OfferRelays : HandleCallOffer(key, relays)
  \/ Announce \/ EmitIncoming
  \/ ReinitSrtp \/ HandleCallAccept \/ ConnectAccepted
  \/ \E eps \in Listed(FALSE) \cup {{}} : HandleCallTransport(eps)
  \/ TransportSet \/ HandleCallTerminate

Begin ==
  \/ BeginOffer
  \/ \E event \in {"transport", "terminate"} : BeginEvent(event)
  \/ \E dev \in Devices, ownKey \in BOOLEAN : BeginAccepted(dev, ownKey)
  \/ \E t \in Clients : \/ BeginStart(t) \/ BeginTeardown(t)
                        \/ \E request \in {"accept", "reject", "end"} : BeginRequest(t, request)

RelayStep ==
  \E r \in Relays : \/ RelayOpens(r) \/ RelayFails(r)
                    \/ StrayOpens(r) \/ StrayGone(r)
                    \/ OnRelayConnected(r)

Next ==
  \/ Begin
  \/ \E t \in Threads : Continue(t)
  \/ ContinueAck \/ ContinueEvent
  \/ RelayStep

Spec == Init /\ [][Next]_vars

(* A goroutine that can run does (a query ends by its timeout), a callback *)
(* that was called comes to its lock, and a connecting relay opens or is   *)
(* failed by its 20 s timer.  Nobody has to call, answer or hang up.       *)
Fairness ==
  /\ \A t \in Threads : WF_vars(Continue(t))
  /\ WF_vars(ContinueAck) /\ WF_vars(ContinueEvent)
  /\ \A r \in Relays : /\ WF_vars(OnRelayConnected(r))
                       /\ WF_vars(conns[r] = "connecting" /\ (RelayOpens(r) \/ RelayFails(r)))

FairSpec == Spec /\ Fairness

------------------------------------------------------------------------------
(* Safety *)

(* The audio path of an active call is complete: as long as its RTP        *)
(* session exists, the SRTP keys are there too.  FeedCapturedPCM drops     *)
(* every frame of a call without them, in silence.                         *)
AudioReady ==
  State = "active" /\ rtp /\ call.key => srtp # NoKeys

(* The codec and the keepalive of an ended call are not forgotten: until   *)
(* they are gone, some thread has cleanupMedia still before it.            *)
ReleaseUnderWay ==
  State = "ended" /\ (codec \/ keepalive) => \E t \in Threads : At(t, "cleanup")

(* From the moment it ends, a call is no longer in the registry, so no new *)
(* request or stanza can reach it.                                         *)
EndedIsUnregistered ==
  State = "ended" => ~registered

(* Media is received from the device that accepted the call, in whatever   *)
(* order the answer to the offer and the acceptance are handled.           *)
ReceivesFromAcceptor ==
  acceptedBy # NoPeer /\ srtp # NoKeys => srtp.dev = acceptedBy

(* No relay is connected for an incoming call before an operator accepts   *)
(* it, even if the peer's transport stanza comes first.  A relay that      *)
(* opened earlier would find the call ringing, and its callback is the     *)
(* only thing that makes an accepted incoming call active.                 *)
IncomingWaitsForAnswer ==
  State = "incoming_ringing" => \A r \in Relays : conns[r] = "none" /\ r \notin opened

------------------------------------------------------------------------------
(* The inductive invariant behind the properties above: where the threads  *)
(* are, how far the call is, and what is known of its relays and keys.     *)

(* A thread past the first section of its handler has a call to work on.   *)
NeedCall == {"query", "reject", "announce", "emit", "rekey", "accepted", "connect",
             "transport", "transport_set", "terminate", "ack", "accept_media",
             "dial_current"}

(* The call is created while no other thread works on it. *)
Alone(t) ==
  /\ call = NoCall
  /\ \A u \in Threads \ {t} : th[u].at \in {"idle", "end", "unregister"}

Located ==
  /\ \A t \in Threads :
       /\ th[t].at \in NeedCall => call # NoCall
       /\ th[t].at \in {"accept_media", "dial_current"} => call.relays # NoRelays
       /\ th[t].at \in {"start", "offer"} => Alone(t)
  /\ th["ack"].at \in {"idle", "ack", "dial", "configure"}
  /\ th["events"].at \in {"rekey", "accepted"} =>
       th["events"].dev \in Devices /\ acceptedBy \in {NoPeer, th["events"].dev}

(* What works on an outgoing call only. *)
OutgoingOnly == {"query", "ack", "rekey", "accepted", "connect"}

OutgoingHandlers ==
  \A t \in Threads : th[t].at \in OutgoingOnly => call.dir = "outgoing"

(* How each kind of call rings, and what is known of it until it ends.  No *)
(* call is ever put on hold.                                               *)
CallShape ==
  /\ call.dir = "outgoing" => State # "incoming_ringing" /\ call.key
  /\ call.dir = "incoming" => State \notin {"initiating", "ringing"}
  /\ State # "on_hold"
  /\ State = "active" => call.prog.connectedAt
  /\ State # "ended" => ~call.prog.timed /\ call.prog.reason = "none"

Progression == call # NoCall => OutgoingHandlers /\ CallShape

Dialing(t) ==
  \/ th[t].at \in {"dial_current", "configure"}
  \/ th[t].at = "dial" /\ Usable(th[t].eps) # {}

Quiet ==
  /\ \A r \in Relays : conns[r] = "none"
  /\ strays = {} /\ opened = {}
  /\ \A t \in Threads : ~Dialing(t)

(* The keepalive goroutine encodes with the codec that cleanupMedia        *)
(* closes: it runs only while the codec is there, and only for a call that *)
(* got through, however cleanup and a connecting relay interleave.         *)
KeepaliveHasCodec ==
  keepalive => codec /\ State \in {"active", "ended"}

Keyed == rtp /\ call.key => srtp # NoKeys

(* An incoming call has its keys before it has a relay, an outgoing call   *)
(* has them once it was accepted.                                          *)
KeysFirst ==
  /\ State = "active" => Keyed
  /\ call.dir = "outgoing" /\ State = "connecting" => Keyed
  /\ call.dir = "incoming" /\ ~Quiet => Keyed
  /\ State = "incoming_ringing" => Quiet
  /\ \A t \in Threads : th[t].at = "accept_media" => State # "incoming_ringing"

Paths ==
  /\ \A t \in Threads : th[t].at = "transport_set" => Usable(th[t].eps) = {}
  /\ IF call = NoCall THEN Quiet ELSE KeysFirst

IInv ==
  /\ TypeOK /\ Located /\ Progression /\ Paths
  /\ KeepaliveHasCodec /\ ReleaseUnderWay
  /\ EndedIsUnregistered /\ ReceivesFromAcceptor

------------------------------------------------------------------------------
(* The manager implements the lifecycle *)

Phase ==
  CASE State = "none"                                  -> "none"
    [] State = "initiating"                            -> "placed"
    [] State \in {"ringing", "incoming_ringing"}       -> "ringing"
    [] State = "connecting"                            -> "answered"
    [] State = "active"                                -> "talking"
    [] OTHER                                           -> "over"

Lifecycle == INSTANCE CallLifecycle WITH
  NoReason <- "none",
  phase    <- Phase,
  charged  <- IF call = NoCall THEN FALSE ELSE call.prog.timed,
  reason   <- IF call = NoCall THEN "none" ELSE call.prog.reason

(* Whatever the threads, the peer and the relays do, and in whatever       *)
(* order, the call only moves as the lifecycle allows.                     *)
ImplementsLifecycle == Lifecycle!Spec

------------------------------------------------------------------------------
(* Liveness *)

(* A call that waits for its media path and has an open relay does not     *)
(* stay "connecting": the acceptance and the opening of the relay may      *)
(* happen in any order, one of the two sees the other.                     *)
OpenRelayConnects ==
  State = "connecting" /\ HasConnection ~> State \in {"active", "ended"} \/ ~HasConnection

(* A call that has ended gives its codec and its keepalive goroutine back. *)
EndedIsReleased ==
  State = "ended" ~> ~codec /\ ~keepalive
==============================================================================
