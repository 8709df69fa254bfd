-------------------------- MODULE CallManagerProofs --------------------------
(***************************************************************************)
(* Theorems about CallManager, for any number of clients, relays and peer  *)
(* devices.                                                                *)
(***************************************************************************)
EXTENDS CallManager, TLAPS

(* The transitions the manager issues. *)
Issued == {"offer_sent", "remote_accepted", "local_accepted", "local_rejected",
           "media_connected", "terminated"}

------------------------------------------------------------------------------
(* Lemmas about the operators of the model *)

(* A transition of a well-formed record gives a well-formed record. *)
LEMMA ApplyTyped ==
  ASSUME NEW p \in CS!Progress, NEW t \in Issued, NEW why \in Reasons \cup {"none"}
  PROVE  CS!Apply(p, t, why) \in CS!Progress
<1>1. CS!Target[t] \in CS!States
  BY DEF Issued, CS!Target, CS!States
<1>2. (p.acceptedAt \/ t \in {"local_accepted", "remote_accepted"}) \in BOOLEAN
  OBVIOUS
<1>3. QED
  BY <1>1 DEF CS!Progress, CS!Apply

(* A call that takes a transition stays a call, and keeps all else. *)
LEMMA StepTyped ==
  ASSUME NEW c \in Call, NEW t \in Issued, NEW why \in Reasons \cup {"none"}
  PROVE  /\ Step(c, t, why) \in Call
         /\ Step(c, t, why).dir = c.dir
         /\ Step(c, t, why).key = c.key
         /\ Step(c, t, why).relays = c.relays
         /\ Step(c, t, why).prog = CS!Apply(c.prog, t, why)
<1>1. c.prog \in CS!Progress
  BY DEF Call
<1>2. CS!Apply(c.prog, t, why) \in CS!Progress
  BY <1>1, ApplyTyped
<1>3. QED
  BY <1>2 DEF Call, Step

(* A thread that moves stays well-formed, and the others do not move. *)
LEMMA MoveTyped ==
  ASSUME th \in [Threads -> Thread], NEW t \in Threads, NEW s \in Thread, Move(t, s)
  PROVE  /\ th' \in [Threads -> Thread]
         /\ th'[t] = s
         /\ \A u \in Threads \ {t} : th'[u] = th[u]
BY DEF Move

(* So does one that goes to another section of its handler ... *)
LEMMA GotoTyped ==
  ASSUME th \in [Threads -> Thread], NEW t \in Threads, NEW label \in Labels,
         Goto(t, label)
  PROVE  /\ th' \in [Threads -> Thread]
         /\ th'[t] = [th[t] EXCEPT !.at = label]
         /\ th'[t].at = label
         /\ th'[t].eps = th[t].eps
         /\ th'[t].dev = th[t].dev
         /\ \A u \in Threads \ {t} : th'[u] = th[u]
<1>1. [th[t] EXCEPT !.at = label] \in Thread
  BY DEF Thread
<1>2. QED
  BY <1>1, MoveTyped DEF Goto, Thread

(* ... and one whose handler is done. *)
LEMMA RestTyped ==
  ASSUME th \in [Threads -> Thread], NEW t \in Threads, Rest(t)
  PROVE  /\ th' \in [Threads -> Thread]
         /\ th'[t] = Resting
         /\ th'[t].at = "idle"
         /\ \A u \in Threads \ {t} : th'[u] = th[u]
<1>1. Resting \in Thread
  BY DEF Resting, Thread, Labels
<1>2. QED
  BY <1>1, MoveTyped DEF Rest, Resting

(* Requests, the stanzas and the answer to the offer each have a thread. *)
LEMMA ThreadFacts == Clients \subseteq Threads /\ "events" \in Threads /\ "ack" \in Threads
BY DEF Threads

(* What buildRelayConfigs keeps are relays. *)
LEMMA UsableTyped ==
  ASSUME NEW eps \in SUBSET Endpoint
  PROVE  Usable(eps) \subseteq Relays
BY DEF Usable, Endpoint

(* The relays of a call are endpoints. *)
LEMMA EpsTyped ==
  ASSUME NEW c \in Call, c.relays # NoRelays
  PROVE  c.relays \in RelayData /\ c.relays.eps \in SUBSET Endpoint
BY DEF Call, RelayData

(* The lists of relays in stanzas are endpoints. *)
LEMMA ListedTyped ==
  ASSUME NEW raw \in BOOLEAN, NEW eps \in Listed(raw)
  PROVE  eps \in SUBSET Endpoint
<1>1. PICK R \in SUBSET Relays : eps = {[ip |-> r, raw |-> raw] : r \in R}
  BY DEF Listed
<1>2. \A r \in R : [ip |-> r, raw |-> raw] \in Endpoint
  BY DEF Endpoint
<1>3. QED
  BY <1>1, <1>2

(* And so are the relays of an offer. *)
LEMMA OfferTyped == OfferRelays \subseteq RelayData \cup {NoRelays}
<1>1. \A e \in Listed(FALSE) : [eps |-> e, peer |-> NoPeer] \in RelayData
  BY ListedTyped DEF RelayData
<1>2. \A e \in Listed(TRUE) : [eps |-> e, peer |-> Primary] \in RelayData
  BY ListedTyped, ConstantAssumption DEF RelayData
<1>3. QED
  BY <1>1, <1>2 DEF OfferRelays

(* The keys that initSrtpKeysLocked sets: for a call with a key, they are  *)
(* there, and they are those of the accepting device if there is one.      *)
LEMMA InitSrtpTyped ==
  ASSUME NEW c \in Call, NEW accepted \in Devices \cup {NoPeer},
         srtp \in Keys \cup {NoKeys}, InitSrtp(c, accepted)
  PROVE  /\ srtp' \in Keys \cup {NoKeys}
         /\ c.key => srtp' # NoKeys
         /\ c.key /\ accepted # NoPeer => srtp'.dev = accepted
         /\ ~c.key => srtp' = srtp
<1>1. ReceiveDevice(c, accepted) \in Devices
  BY EpsTyped, ConstantAssumption DEF ReceiveDevice, RelayData
<1>2. [from |-> "call", dev |-> ReceiveDevice(c, accepted)] \in Keys
  BY <1>1 DEF Keys
<1>3. QED
  BY <1>2, ConstantAssumption DEF InitSrtp, ReceiveDevice

(* A thread that takes a list of endpoints along stays well-formed. *)
LEMMA TakeTyped ==
  ASSUME th \in [Threads -> Thread], NEW t \in Threads, NEW label \in Labels,
         NEW eps \in SUBSET Endpoint
  PROVE  [th[t] EXCEPT !.at = label, !.eps = eps] \in Thread
BY DEF Thread

(* The call after a transition: still a call, with the same data. *)
LEMMA StepCall ==
  ASSUME call \in Call \cup {NoCall}, call # NoCall,
         NEW t \in Issued, NEW why \in Reasons \cup {"none"}, call' = Step(call, t, why)
  PROVE  /\ call \in Call /\ call' \in Call /\ call' # NoCall
         /\ call'.dir = call.dir /\ call'.key = call.key /\ call'.relays = call.relays
         /\ call'.prog = CS!Apply(call.prog, t, why)
BY StepTyped, ConstantAssumption

(* The call with another list of relays: still a call, with the same data. *)
LEMMA RelaysCall ==
  ASSUME call \in Call \cup {NoCall}, call # NoCall,
         NEW data \in RelayData, call' = [call EXCEPT !.relays = data]
  PROVE  /\ call' \in Call /\ call' # NoCall /\ call'.relays = data
         /\ call'.dir = call.dir /\ call'.key = call.key /\ call'.prog = call.prog
<1>1. call \in Call /\ call' \in Call
  BY DEF Call
<1>2. QED
  BY <1>1, ConstantAssumption DEF Call

(* What HandleCallAck makes of the call. *)
LEMMA AckCall ==
  ASSUME TypeOK, Located,
         NEW eps \in Listed(TRUE) \cup Listed(FALSE), NEW peer \in Devices \cup {NoPeer},
         HandleCallAck(eps, peer)
  PROVE  /\ call # NoCall /\ call' # NoCall
         /\ call'.relays = [eps |-> eps, peer |-> peer] /\ call'.relays # NoRelays
         /\ call'.dir = call.dir /\ call'.key = call.key /\ call'.prog = call.prog
<1>1. [eps |-> eps, peer |-> peer] \in RelayData
  BY ListedTyped DEF RelayData
<1>2. call # NoCall
  BY ThreadFacts DEF HandleCallAck, Located, NeedCall, At
<1>3. QED
  BY <1>1, <1>2, RelaysCall, ConstantAssumption DEF HandleCallAck, TypeOK, LinksTypeOK

(* What the transport stanza makes of it. *)
LEMMA TransportCall ==
  ASSUME TypeOK, Located, TransportSet
  PROVE  /\ call # NoCall /\ call' # NoCall /\ call'.relays # NoRelays
         /\ call'.dir = call.dir /\ call'.key = call.key /\ call'.prog = call.prog
<1>1. call # NoCall /\ call \in Call
  BY ThreadFacts DEF TransportSet, TypeOK, LinksTypeOK, Located, NeedCall, At
<1> DEFINE data == [eps  |-> th["events"].eps,
                    peer |-> IF call.relays = NoRelays THEN NoPeer ELSE call.relays.peer]
<1>2. data \in RelayData
  BY <1>1, ThreadFacts DEF TypeOK, LinksTypeOK, Thread, Call, RelayData
<1>3. call' = [call EXCEPT !.relays = data]
  BY DEF TransportSet
<1> HIDE DEF data
<1>4. QED
  BY <1>1, <1>2, <1>3, RelaysCall, ConstantAssumption

(* The new call of StartCall: there was none before. *)
LEMMA StartCallNew ==
  ASSUME TypeOK, Located, NEW t \in Threads, StartCall(t)
  PROVE  /\ call = NoCall /\ Alone(t)
         /\ call' # NoCall /\ call'.dir = "outgoing" /\ call'.key
         /\ call'.prog = CS!NewProgress(call'.dir)
<1>1. call' \in Call /\ call'.prog = CS!NewProgress(call'.dir)
  BY DEF StartCall, Call, CS!NewProgress, CS!Progress, CS!States, CS!Directions
<1>2. QED
  BY <1>1, ConstantAssumption DEF StartCall, Located, Alone, At

(* The new call of HandleCallOffer: there was none before it either. *)
LEMMA OfferCallNew ==
  ASSUME TypeOK, Located, NEW key \in BOOLEAN, NEW relays \in OfferRelays,
         HandleCallOffer(key, relays)
  PROVE  /\ call = NoCall /\ Alone("events")
         /\ call' # NoCall /\ call'.dir = "incoming"
         /\ call'.prog = CS!NewProgress(call'.dir)
<1>1. call' \in Call /\ call'.prog = CS!NewProgress(call'.dir)
  BY OfferTyped
     DEF HandleCallOffer, Call, CS!NewProgress, CS!Progress, CS!States,
         CS!Directions
<1>2. QED
  BY <1>1, ThreadFacts, ConstantAssumption DEF HandleCallOffer, Located, Alone, At

(* A thread that does not go to dial leaves the relays as quiet as they    *)
(* were.                                                                   *)
LEMMA CalmGoto ==
  ASSUME th \in [Threads -> Thread], NEW t \in Threads,
         NEW label \in Labels \ {"dial", "configure", "dial_current", "transport_set",
                                 "accept_media"},
         Goto(t, label) \/ Rest(t)
  PROVE  /\ \A u \in Threads : Dialing(u)' => Dialing(u)
         /\ \A u \in Threads : th'[u].at \in {"transport_set", "accept_media"} =>
                                th'[u] = th[u]
<1>1. /\ th'[t].at \in {label, "idle"}
      /\ \A u \in Threads \ {t} : th'[u] = th[u]
  BY GotoTyped, RestTyped
<1>2. QED
  BY <1>1 DEF Dialing

(* A step that touches neither the relays nor the keys, starts no dialing  *)
(* and does not advance the call keeps the paths in order.                 *)
LEMMA CalmPaths ==
  ASSUME Paths, UNCHANGED relay, Keyed => Keyed',
         IF call = NoCall THEN call' = NoCall
                          ELSE call' # NoCall /\ call'.dir = call.dir,
         State' \in {State, "ringing", "ended"},
         \A u \in Threads : Dialing(u)' => Dialing(u),
         \A u \in Threads : th'[u].at \in {"transport_set", "accept_media"} =>
                            th'[u] = th[u]
  PROVE  Paths'
<1>1. Quiet => Quiet'
  BY DEF Quiet, relay, links
<1>2. \A u \in Threads : th'[u].at = "transport_set" => Usable(th'[u].eps) = {}
  BY DEF Paths
<1>3. CASE call = NoCall
  BY <1>1, <1>2, <1>3 DEF Paths
<1>4. CASE call # NoCall
  <2>1. KeysFirst /\ call' # NoCall /\ call'.dir = call.dir
    BY <1>4 DEF Paths
  <2>2. KeysFirst'
    BY <1>1, <2>1 DEF KeysFirst
  <2>3. QED
    BY <1>2, <2>1, <2>2 DEF Paths
<1>5. QED
  BY <1>3, <1>4

(* Nor does a step that deals with relays the call already has.            *)
LEMMA BusyPaths ==
  ASSUME Paths, ~Quiet, call' = call, UNCHANGED <<rtp, srtp>>,
         \A u \in Threads : th'[u].at \in {"transport_set", "accept_media"} =>
                            th'[u] = th[u]
  PROVE  Paths'
<1>1. call # NoCall /\ KeysFirst /\ call' # NoCall
  BY DEF Paths
<1>2. State' = State /\ Keyed' = Keyed /\ call'.dir = call.dir
  BY DEF State, Keyed
<1>3. State # "incoming_ringing"
  BY <1>1 DEF KeysFirst
<1>4. KeysFirst'
  BY <1>1, <1>2, <1>3 DEF KeysFirst
<1>5. QED
  BY <1>1, <1>4 DEF Paths

(* A list of attributes has nothing that can be connected to. *)
LEMMA AttributesUnusable ==
  ASSUME NEW eps \in Listed(FALSE) \cup {{}}
  PROVE  eps \in SUBSET Endpoint /\ Usable(eps) = {}
<1>1. \A e \in eps : ~e.raw
  BY DEF Listed
<1>2. eps \in SUBSET Endpoint
  BY ListedTyped
<1>3. QED
  BY <1>1, <1>2 DEF Usable

(* The steps that may change the call, its media or who accepted it. *)
Active ==
  \/ \E t \in Threads :
       \/ StartCall(t) \/ \E a \in BOOLEAN : QueryReturns(t, a)
       \/ AcceptCall(t) \/ SetupIncomingMedia(t)
       \/ RejectCall(t) \/ EndCall(t) \/ CleanupMedia(t)
  \/ \E eps \in Listed(TRUE) \cup Listed(FALSE), peer \in Devices \cup {NoPeer} :
       HandleCallAck(eps, peer)
  \/ \E key \in BOOLEAN, relays \in OfferRelays : HandleCallOffer(key, relays)
  \/ ReinitSrtp \/ HandleCallAccept \/ ConnectAccepted
  \/ TransportSet \/ HandleCallTerminate
  \/ \E r \in Relays : OnRelayConnected(r)

(* The others leave these alone, and register no manager that has a call.  *)
LEMMA Passive ==
  ASSUME [Next]_vars, ~Active
  PROVE  /\ UNCHANGED <<call, codec, rtp, srtp, keepalive, acceptedBy>>
         /\ call # NoCall /\ registered' => registered
<1> DEFINE Goal == /\ UNCHANGED <<call, codec, rtp, srtp, keepalive, acceptedBy>>
                   /\ call # NoCall /\ registered' => registered
<1>1. ASSUME BeginOffer PROVE Goal
  BY <1>1 DEF BeginOffer, media
<1>2. ASSUME NEW event \in {"transport", "terminate"}, BeginEvent(event)
      PROVE  Goal
  BY <1>2 DEF BeginEvent, media
<1>3. ASSUME NEW dev \in Devices, NEW ownKey \in BOOLEAN, BeginAccepted(dev, ownKey)
      PROVE  Goal
  BY <1>3 DEF BeginAccepted, media
<1>4. ASSUME NEW t \in Clients, BeginStart(t)
      PROVE  Goal
  BY <1>4 DEF BeginStart, media
<1>5. ASSUME NEW t \in Clients, BeginTeardown(t)
      PROVE  Goal
  BY <1>5 DEF BeginTeardown, media
<1>6. ASSUME NEW t \in Clients, NEW request \in {"accept", "reject", "end"},
             BeginRequest(t, request)
      PROVE  Goal
  BY <1>6 DEF BeginRequest, media
<1>7. ASSUME NEW t \in Threads, QueryFails(t)
      PROVE  Goal
  BY <1>7 DEF QueryFails, media
<1>8. ASSUME NEW t \in Threads, DialCurrent(t)
      PROVE  Goal
  BY <1>8 DEF DialCurrent, media
<1>9. ASSUME NEW t \in Threads, CleanupRelays(t)
      PROVE  Goal
  BY <1>9 DEF CleanupRelays, Emptied, media
<1>10. ASSUME NEW t \in Threads, Unregister(t)
      PROVE  Goal
  BY <1>10 DEF Unregister, media
<1>11. ASSUME NEW t \in Threads, Dial(t)
      PROVE  Goal
  BY <1>11 DEF Dial, media
<1>12. ASSUME NEW t \in Threads, Configured(t)
      PROVE  Goal
  BY <1>12 DEF Configured, media
<1>13. ASSUME NEW t \in Threads, NEW r \in Relays, Lookup(t, r)
      PROVE  Goal
  BY <1>13 DEF Lookup, media
<1>14. ASSUME NEW t \in Threads, NEW r \in Relays, Connect(t, r)
      PROVE  Goal
  BY <1>14 DEF Connect, Inserted, media
<1>15. ASSUME IgnoreAck PROVE Goal
  BY <1>15 DEF IgnoreAck, media
<1>16. ASSUME Announce PROVE Goal
  BY <1>16 DEF Announce, media
<1>17. ASSUME EmitIncoming PROVE Goal
  BY <1>17 DEF EmitIncoming, media, Emit
<1>18. ASSUME NEW eps \in Listed(FALSE) \cup {{}}, HandleCallTransport(eps)
      PROVE  Goal
  BY <1>18 DEF HandleCallTransport, media
<1>19. ASSUME NEW r \in Relays, RelayOpens(r)
      PROVE  Goal
  BY <1>19 DEF RelayOpens, Opens, media
<1>20. ASSUME NEW r \in Relays, RelayFails(r)
      PROVE  Goal
  BY <1>20 DEF RelayFails, Lost, media
<1>21. ASSUME NEW r \in Relays, StrayOpens(r)
      PROVE  Goal
  BY <1>21 DEF StrayOpens, StrayOpened, media
<1>22. ASSUME NEW r \in Relays, StrayGone(r)
      PROVE  Goal
  BY <1>22 DEF StrayGone, StrayLost, media
<1>23. ASSUME UNCHANGED vars PROVE Goal
  BY <1>23 DEF vars, links, media
<1> HIDE DEF Goal
<1>24. Goal
  BY <1>1, <1>2, <1>3, <1>4, <1>5, <1>6, <1>7, <1>8, <1>9, <1>10, <1>11, <1>12,
     <1>13, <1>14, <1>15, <1>16, <1>17, <1>18, <1>19, <1>20, <1>21, <1>22, <1>23
     DEF Active, Next, Begin, Continue, ContinueAck, ContinueEvent, RelayStep
<1>25. QED
  BY <1>24 DEF Goal

------------------------------------------------------------------------------
(* The steps keep the invariant, part by part *)

(* Every step from a well-typed state with the threads where they belong   *)
(* leads to a well-typed state: each handler finds the call it works on.   *)
LEMMA TypeStep ==
  ASSUME TypeOK, Located, [Next]_vars
  PROVE  TypeOK'
<1>1. ASSUME NEW dev \in Devices, NEW ownKey \in BOOLEAN, BeginAccepted(dev, ownKey)
      PROVE  TypeOK'
  <2>1. (IF ownKey THEN "rekey" ELSE "accepted") \in Labels
    BY DEF Labels
  <2>2. [th["events"] EXCEPT !.at = IF ownKey THEN "rekey" ELSE "accepted", !.dev =
          dev] \in Thread
    BY <2>1, ThreadFacts DEF TypeOK, LinksTypeOK, Thread
  <2>3. th' \in [Threads -> Thread]
    BY <1>1, <2>2, ThreadFacts, MoveTyped DEF BeginAccepted, TypeOK, LinksTypeOK
  <2>4. QED
    BY <1>1, <2>1, <2>2, <2>3 DEF BeginAccepted, TypeOK, LinksTypeOK, media, relay, links
<1>2. ASSUME NEW t \in Threads, StartCall(t)
      PROVE  TypeOK'
  <2>1. call' \in Call
    BY <1>2 DEF StartCall, Call, CS!NewProgress, CS!Progress, CS!States, CS!Directions
  <2>2. th' \in [Threads -> Thread]
    BY <1>2, ThreadFacts, GotoTyped, RestTyped, MoveTyped DEF StartCall, TypeOK, LinksTypeOK, Labels
  <2>3. QED
    BY <1>2, <2>1, <2>2 DEF StartCall, TypeOK, LinksTypeOK, media, relay, links
<1>3. ASSUME NEW t \in Threads, NEW a \in BOOLEAN, QueryReturns(t, a)
      PROVE  TypeOK'
  <2>1. call' \in Call \cup {NoCall}
    BY <1>3, ThreadFacts, StepTyped
       DEF TypeOK, LinksTypeOK, Located, NeedCall, At, QueryReturns, Reasons, Issued, State
  <2>2. registered' \in BOOLEAN
    BY <1>3 DEF QueryReturns, Emit, TypeOK, LinksTypeOK
  <2>3. /\ Resting \in Thread
        /\ [th["ack"] EXCEPT !.at = "ack"] \in Thread
        /\ [Resting EXCEPT !.at = "ack"] \in Thread
    BY ThreadFacts DEF TypeOK, LinksTypeOK, Thread, Labels, Resting
  <2>4. th' \in [Threads -> Thread]
    BY <1>3, <2>3, ThreadFacts DEF QueryReturns, TypeOK, LinksTypeOK
  <2>5. QED
    BY <1>3, <2>1, <2>2, <2>3, <2>4 DEF QueryReturns, TypeOK, LinksTypeOK, media, relay, links
<1>4. ASSUME NEW t \in Threads, AcceptCall(t)
      PROVE  TypeOK'
  <2>1. call' \in Call \cup {NoCall}
    BY <1>4, ThreadFacts, StepTyped
       DEF TypeOK, LinksTypeOK, Located, NeedCall, At, AcceptCall, Reasons, Issued, State
  <2>2. registered' \in BOOLEAN
    BY <1>4 DEF AcceptCall, Emit, TypeOK, LinksTypeOK
  <2>3. th' \in [Threads -> Thread]
    BY <1>4, ThreadFacts, GotoTyped, RestTyped, MoveTyped DEF AcceptCall, TypeOK, LinksTypeOK, Labels
  <2>4. QED
    BY <1>4, <2>1, <2>2, <2>3 DEF AcceptCall, TypeOK, LinksTypeOK, media, relay, links
<1>5. ASSUME NEW t \in Threads, SetupIncomingMedia(t)
      PROVE  TypeOK'
  <2>1. call \in Call /\ call.relays \in RelayData
    BY <1>5, ConstantAssumption
       DEF SetupIncomingMedia, TypeOK, LinksTypeOK, Located, NeedCall, At, Call
  <2>2. srtp' \in Keys \cup {NoKeys}
    BY <1>5, <2>1, InitSrtpTyped DEF SetupIncomingMedia, TypeOK, LinksTypeOK
  <2>3. rtp' \in BOOLEAN
    BY <1>5 DEF SetupIncomingMedia, TypeOK, LinksTypeOK
  <2>4. th' \in [Threads -> Thread]
    BY <1>5, ThreadFacts, GotoTyped, RestTyped, MoveTyped
       DEF SetupIncomingMedia, TypeOK, LinksTypeOK, Labels
  <2>5. QED
    BY <1>5, <2>1, <2>2, <2>3, <2>4 DEF SetupIncomingMedia, TypeOK, LinksTypeOK, media, relay, links
<1>6. ASSUME NEW t \in Threads, DialCurrent(t)
      PROVE  TypeOK'
  <2>1. call \in Call /\ call.relays \in RelayData
    BY <1>6 DEF DialCurrent, TypeOK, LinksTypeOK, Located, NeedCall, At, Call
  <2>2. [th[t] EXCEPT !.at = "dial", !.eps = call.relays.eps] \in Thread
    BY <2>1, SMTT(30), ZenonT(60) DEF TypeOK, LinksTypeOK, Thread, Labels, RelayData
  <2>3. th' \in [Threads -> Thread]
    BY <1>6, <2>2, MoveTyped DEF DialCurrent, TypeOK, LinksTypeOK
  <2>4. QED
    BY <1>6, <2>1, <2>2, <2>3 DEF DialCurrent, TypeOK, LinksTypeOK, media, relay, links
<1>7. ASSUME NEW t \in Threads, RejectCall(t)
      PROVE  TypeOK'
  <2>1. call' \in Call \cup {NoCall}
    BY <1>7, ThreadFacts, StepTyped
       DEF TypeOK, LinksTypeOK, Located, NeedCall, At, RejectCall, Reasons, Issued, State
  <2>2. registered' \in BOOLEAN
    BY <1>7 DEF RejectCall, Emit, TypeOK, LinksTypeOK
  <2>3. th' \in [Threads -> Thread]
    BY <1>7, ThreadFacts, GotoTyped, RestTyped, MoveTyped DEF RejectCall, TypeOK, LinksTypeOK, Labels
  <2>4. QED
    BY <1>7, <2>1, <2>2, <2>3 DEF RejectCall, TypeOK, LinksTypeOK, media, relay, links
<1>8. ASSUME NEW t \in Threads, EndCall(t)
      PROVE  TypeOK'
  <2>1. call' \in Call \cup {NoCall}
    BY <1>8, ThreadFacts, StepTyped
       DEF TypeOK, LinksTypeOK, Located, NeedCall, At, EndCall, Reasons, Issued, State
  <2>2. registered' \in BOOLEAN
    BY <1>8 DEF EndCall, Emit, TypeOK, LinksTypeOK
  <2>3. th' \in [Threads -> Thread]
    BY <1>8, ThreadFacts, GotoTyped, RestTyped, MoveTyped DEF EndCall, TypeOK, LinksTypeOK, Labels
  <2>4. QED
    BY <1>8, <2>1, <2>2, <2>3 DEF EndCall, TypeOK, LinksTypeOK, media, relay, links
<1>9. ASSUME NEW t \in Threads, Dial(t)
      PROVE  TypeOK'
  <2>1. [th[t] EXCEPT !.at = "configure", !.check = Usable(th[t].eps)] \in Thread
    BY UsableTyped, SMTT(30), ZenonT(60) DEF TypeOK, LinksTypeOK, Thread, Labels
  <2>2. th' \in [Threads -> Thread]
    BY <1>9, <2>1, MoveTyped, RestTyped DEF Dial, TypeOK, LinksTypeOK
  <2>3. QED
    BY <1>9, <2>1, <2>2 DEF Dial, TypeOK, LinksTypeOK, media, relay, links
<1>10. ASSUME NEW t \in Threads, NEW r \in Relays, Lookup(t, r)
      PROVE  TypeOK'
  <2>1. [th[t] EXCEPT !.check = @ \ {r}, !.dial = IF conns[r] =
          "none" THEN @ \cup {r} ELSE @] \in Thread
    BY DEF TypeOK, LinksTypeOK, Thread
  <2>2. th' \in [Threads -> Thread]
    BY <1>10, <2>1, MoveTyped DEF Lookup, TypeOK, LinksTypeOK
  <2>3. QED
    BY <1>10, <2>1, <2>2 DEF Lookup, TypeOK, LinksTypeOK, media, relay, links
<1>11. ASSUME NEW t \in Threads, NEW r \in Relays, Connect(t, r)
      PROVE  TypeOK'
  <2>1. [th[t] EXCEPT !.dial = @ \ {r}] \in Thread
    BY DEF TypeOK, LinksTypeOK, Thread
  <2>2. th' \in [Threads -> Thread]
    BY <1>11, <2>1, MoveTyped DEF Connect, Inserted, TypeOK, LinksTypeOK
  <2>3. QED
    BY <1>11, <2>1, <2>2 DEF Connect, Inserted, TypeOK, LinksTypeOK, media, relay, links
<1>12. ASSUME NEW eps \in Listed(TRUE) \cup Listed(FALSE), NEW peer \in Devices \cup
              {NoPeer}, HandleCallAck(eps, peer)
      PROVE  TypeOK'
  <2>1. call \in Call /\ eps \in SUBSET Endpoint
    BY <1>12, ListedTyped, ThreadFacts DEF HandleCallAck, TypeOK, LinksTypeOK, Located, NeedCall, At
  <2>2. /\ call' \in Call /\ call'.relays \in RelayData
        /\ call'.relays = [eps |-> eps, peer |-> peer]
    BY <1>12, <2>1 DEF HandleCallAck, Call, RelayData
  <2>3. srtp' \in Keys \cup {NoKeys}
    BY <1>12, <2>2, InitSrtpTyped DEF HandleCallAck, TypeOK, LinksTypeOK
  <2>4. rtp' \in BOOLEAN
    BY <1>12 DEF HandleCallAck, TypeOK, LinksTypeOK
  <2>5. [th["ack"] EXCEPT !.at = "dial", !.eps = eps] \in Thread
    BY <2>1, TakeTyped, ThreadFacts DEF TypeOK, LinksTypeOK, Labels
  <2>6. th' \in [Threads -> Thread]
    BY <1>12, <2>5, ThreadFacts, MoveTyped DEF HandleCallAck, TypeOK, LinksTypeOK
  <2>7. QED
    BY <1>12, <2>1, <2>2, <2>3, <2>4, <2>5, <2>6 DEF HandleCallAck, TypeOK, LinksTypeOK, media, relay, links
<1>13. ASSUME NEW key \in BOOLEAN, NEW relays \in OfferRelays, HandleCallOffer(key,
              relays)
      PROVE  TypeOK'
  <2>1. relays \in RelayData \cup {NoRelays}
    BY OfferTyped
  <2>2. call' \in Call
    BY <1>13, <2>1
       DEF HandleCallOffer, Call, CS!NewProgress, CS!Progress, CS!States,
           CS!Directions
  <2>3. th' \in [Threads -> Thread]
    BY <1>13, ThreadFacts, GotoTyped, RestTyped, MoveTyped
       DEF HandleCallOffer, TypeOK, LinksTypeOK, Labels
  <2>4. QED
    BY <1>13, <2>1, <2>2, <2>3 DEF HandleCallOffer, TypeOK, LinksTypeOK, media, relay, links
<1>14. ASSUME ReinitSrtp PROVE TypeOK'
  <2>1. srtp' \in Keys \cup {NoKeys}
    BY <1>14, ThreadFacts DEF ReinitSrtp, Keys, Located, At, TypeOK, LinksTypeOK
  <2>2. th' \in [Threads -> Thread]
    BY <1>14, ThreadFacts, GotoTyped, RestTyped, MoveTyped
       DEF ReinitSrtp, TypeOK, LinksTypeOK, Labels
  <2>3. QED
    BY <1>14, <2>1, <2>2 DEF ReinitSrtp, TypeOK, LinksTypeOK, media, relay, links
<1>15. ASSUME HandleCallAccept PROVE TypeOK'
  <2>1. th["events"].dev \in Devices /\ call \in Call
    BY <1>15, ThreadFacts DEF HandleCallAccept, TypeOK, LinksTypeOK, Located, NeedCall, At
  <2>2. call' \in Call /\ call'.relays = call.relays
    BY <1>15, <2>1, StepTyped DEF HandleCallAccept, Issued
  <2>3. registered' \in BOOLEAN
    BY <1>15 DEF HandleCallAccept, Emit, TypeOK, LinksTypeOK
  <2>4. srtp' \in Keys \cup {NoKeys}
    BY <1>15, <2>1, <2>2, InitSrtpTyped DEF HandleCallAccept, TypeOK, LinksTypeOK
  <2>5. call.relays # NoRelays => call.relays.eps \in SUBSET Endpoint
    BY <2>1, EpsTyped
  <2>6. call.relays # NoRelays =>
          [th["events"] EXCEPT !.at = "dial", !.eps = call.relays.eps] \in Thread
    BY <2>5, TakeTyped, ThreadFacts DEF TypeOK, LinksTypeOK, Labels
  <2>7. th' \in [Threads -> Thread]
    BY <1>15, <2>6, ThreadFacts, MoveTyped, GotoTyped, RestTyped
       DEF HandleCallAccept, TypeOK, LinksTypeOK, Labels
  <2>8. QED
    BY <1>15, <2>1, <2>2, <2>3, <2>4, <2>5, <2>6, <2>7
       DEF HandleCallAccept, TypeOK, LinksTypeOK, media, relay, links
<1>16. ASSUME ConnectAccepted PROVE TypeOK'
  <2>1. call' \in Call \cup {NoCall}
    BY <1>16, ThreadFacts, StepTyped
       DEF TypeOK, LinksTypeOK, Located, NeedCall, At, ConnectAccepted, Reasons, Issued,
           State
  <2>2. registered' \in BOOLEAN
    BY <1>16 DEF ConnectAccepted, Emit, TypeOK, LinksTypeOK
  <2>3. keepalive' \in BOOLEAN
    BY <1>16 DEF ConnectAccepted, StartKeepalive, TypeOK, LinksTypeOK
  <2>4. th' \in [Threads -> Thread]
    BY <1>16, ThreadFacts, GotoTyped, RestTyped, MoveTyped
       DEF ConnectAccepted, TypeOK, LinksTypeOK, Labels
  <2>5. QED
    BY <1>16, <2>1, <2>2, <2>3, <2>4 DEF ConnectAccepted, TypeOK, LinksTypeOK, media, relay, links
<1>17. ASSUME NEW eps \in Listed(FALSE) \cup {{}}, HandleCallTransport(eps)
      PROVE  TypeOK'
  <2>1. eps \in SUBSET Endpoint
    BY ListedTyped
  <2>2. [th["events"] EXCEPT !.at = "transport_set", !.eps = eps] \in Thread
    BY <2>1, TakeTyped, ThreadFacts DEF TypeOK, LinksTypeOK, Labels
  <2>3. th' \in [Threads -> Thread]
    BY <1>17, <2>2, ThreadFacts, MoveTyped, RestTyped DEF HandleCallTransport, TypeOK, LinksTypeOK
  <2>4. QED
    BY <1>17, <2>1, <2>2, <2>3 DEF HandleCallTransport, TypeOK, LinksTypeOK, media, relay, links
<1>18. ASSUME TransportSet PROVE TypeOK'
  <2>1. call \in Call /\ th["events"].eps \in SUBSET Endpoint
    BY <1>18, ThreadFacts DEF TransportSet, TypeOK, LinksTypeOK, Located, NeedCall, At, Thread
  <2>2. call' \in Call
    BY <1>18, <2>1 DEF TransportSet, Call, RelayData
  <2>3. th' \in [Threads -> Thread]
    BY <1>18, ThreadFacts, GotoTyped, RestTyped, MoveTyped
       DEF TransportSet, TypeOK, LinksTypeOK, Labels
  <2>4. QED
    BY <1>18, <2>1, <2>2, <2>3 DEF TransportSet, TypeOK, LinksTypeOK, media, relay, links
<1>19. ASSUME HandleCallTerminate PROVE TypeOK'
  <2>1. call' \in Call \cup {NoCall}
    BY <1>19, ThreadFacts, StepTyped
       DEF TypeOK, LinksTypeOK, Located, NeedCall, At, HandleCallTerminate, Reasons, Issued,
           State
  <2>2. th' \in [Threads -> Thread]
    BY <1>19, ThreadFacts, GotoTyped, RestTyped, MoveTyped
       DEF HandleCallTerminate, TypeOK, LinksTypeOK, Labels
  <2>3. QED
    BY <1>19, <2>1, <2>2 DEF HandleCallTerminate, TypeOK, LinksTypeOK, media, relay, links
<1>20. ASSUME NEW r \in Relays, OnRelayConnected(r)
      PROVE  TypeOK'
  <2>1. call' \in Call \cup {NoCall}
    BY <1>20, StepTyped DEF OnRelayConnected, Reported, TypeOK, LinksTypeOK, State, Reasons, Issued
  <2>2. registered' \in BOOLEAN
    BY <1>20 DEF OnRelayConnected, Reported, Emit, TypeOK, LinksTypeOK
  <2>3. keepalive' \in BOOLEAN
    BY <1>20 DEF OnRelayConnected, Reported, StartKeepalive, TypeOK, LinksTypeOK
  <2>4. QED
    BY <1>20, <2>1, <2>2, <2>3 DEF OnRelayConnected, Reported, TypeOK, LinksTypeOK, media, relay, links
<1> USE GotoTyped, RestTyped, ThreadFacts DEF TypeOK, LinksTypeOK, media, relay, links, Labels, Emit
<1>21. ASSUME BeginOffer PROVE TypeOK'
  BY <1>21 DEF BeginOffer
<1>22. ASSUME NEW event \in {"transport", "terminate"}, BeginEvent(event)
      PROVE  TypeOK'
  BY <1>22 DEF BeginEvent
<1>23. ASSUME NEW t \in Clients, BeginStart(t)
      PROVE  TypeOK'
  BY <1>23 DEF BeginStart
<1>24. ASSUME NEW t \in Clients, BeginTeardown(t)
      PROVE  TypeOK'
  BY <1>24 DEF BeginTeardown
<1>25. ASSUME NEW t \in Clients, NEW request \in {"accept", "reject", "end"},
              BeginRequest(t, request)
      PROVE  TypeOK'
  BY <1>25 DEF BeginRequest
<1>26. ASSUME NEW t \in Threads, QueryFails(t)
      PROVE  TypeOK'
  BY <1>26 DEF QueryFails
<1>27. ASSUME NEW t \in Threads, CleanupMedia(t)
      PROVE  TypeOK'
  BY <1>27 DEF CleanupMedia
<1>28. ASSUME NEW t \in Threads, CleanupRelays(t)
      PROVE  TypeOK'
  BY <1>28 DEF CleanupRelays, Emptied
<1>29. ASSUME NEW t \in Threads, Unregister(t)
      PROVE  TypeOK'
  BY <1>29 DEF Unregister
<1>30. ASSUME NEW t \in Threads, Configured(t)
      PROVE  TypeOK'
  BY <1>30 DEF Configured
<1>31. ASSUME IgnoreAck PROVE TypeOK'
  BY <1>31 DEF IgnoreAck
<1>32. ASSUME Announce PROVE TypeOK'
  BY <1>32 DEF Announce
<1>33. ASSUME EmitIncoming PROVE TypeOK'
  BY <1>33 DEF EmitIncoming
<1>34. ASSUME NEW r \in Relays, RelayOpens(r)
      PROVE  TypeOK'
  BY <1>34 DEF RelayOpens, Opens
<1>35. ASSUME NEW r \in Relays, RelayFails(r)
      PROVE  TypeOK'
  BY <1>35 DEF RelayFails, Lost
<1>36. ASSUME NEW r \in Relays, StrayOpens(r)
      PROVE  TypeOK'
  BY <1>36 DEF StrayOpens, StrayOpened
<1>37. ASSUME NEW r \in Relays, StrayGone(r)
      PROVE  TypeOK'
  BY <1>37 DEF StrayGone, StrayLost
<1>38. ASSUME UNCHANGED vars PROVE TypeOK'
  BY <1>38 DEF vars, links
<1> HIDE DEF TypeOK, LinksTypeOK, media, relay, links, Labels, Emit
<1>39. QED
  BY <1>1, <1>2, <1>3, <1>4, <1>5, <1>6, <1>7, <1>8, <1>9, <1>10, <1>11, <1>12,
     <1>13, <1>14, <1>15, <1>16, <1>17, <1>18, <1>19, <1>20, <1>21, <1>22, <1>23,
     <1>24, <1>25, <1>26, <1>27, <1>28, <1>29, <1>30, <1>31, <1>32, <1>33, <1>34,
     <1>35, <1>36, <1>37, <1>38
     DEF Next, Begin, Continue, ContinueAck, ContinueEvent, RelayStep

(* The threads stay where their handlers allow them. *)
LEMMA LocatedStep ==
  ASSUME TypeOK, TypeOK', Located, [Next]_vars
  PROVE  Located'
<1>1. ASSUME NEW t \in Threads, StartCall(t)
      PROVE  Located'
  <2>1. call' \in Call
    BY <1>1 DEF StartCall, Call, CS!NewProgress, CS!Progress, CS!States, CS!Directions
  <2>2. call' # NoCall
    BY <2>1, ConstantAssumption
  <2>3. QED
    BY <1>1, <2>1, <2>2, ThreadFacts, ConstantAssumption
       DEF StartCall, TypeOK, LinksTypeOK, Located, Alone, NeedCall, At, Goto, Rest, Move,
           Resting, Thread, media, relay, links, State
<1>2. ASSUME NEW t \in Threads, NEW a \in BOOLEAN, QueryReturns(t, a)
      PROVE  Located'
  <2>1. call' # NoCall /\ call'.relays = call.relays
    BY <1>2, ThreadFacts, StepCall
       DEF QueryReturns, TypeOK, LinksTypeOK, Located, NeedCall, At, Reasons, Issued
  <2>2. \A u \in Threads : th'[u] = th[u] \/ th'[u].at \in {"idle", "ack"}
    BY <1>2, ThreadFacts DEF QueryReturns, TypeOK, LinksTypeOK, Resting, Thread
  <2>3. QED
    BY <1>2, <2>1, <2>2, ThreadFacts
       DEF QueryReturns, Located, Alone, NeedCall, At, media, relay, links, State
<1>3. ASSUME NEW t \in Threads, AcceptCall(t)
      PROVE  Located'
  <2>1. call' = call \/ (call' # NoCall /\ call # NoCall /\ call'.relays = call.relays)
    BY <1>3, StepCall DEF AcceptCall, TypeOK, LinksTypeOK, State, Reasons, Issued
  <2>2. QED
    BY <1>3, <2>1, ThreadFacts, ConstantAssumption
       DEF AcceptCall, TypeOK, LinksTypeOK, Located, Alone, NeedCall, At, Goto, Rest, Move,
           Resting, Thread, media, relay, links, State
<1>4. ASSUME NEW t \in Threads, RejectCall(t)
      PROVE  Located'
  <2>1. call' # NoCall /\ call'.relays = call.relays
    BY <1>4, ThreadFacts, StepCall
       DEF RejectCall, TypeOK, LinksTypeOK, Located, NeedCall, At, Reasons, Issued
  <2>2. QED
    BY <1>4, <2>1, ThreadFacts, ConstantAssumption
       DEF RejectCall, TypeOK, LinksTypeOK, Located, Alone, NeedCall, At, Goto, Rest, Move,
           Resting, Thread, media, relay, links, State
<1>5. ASSUME NEW t \in Threads, EndCall(t)
      PROVE  Located'
  <2>1. call' = call \/ (call' # NoCall /\ call # NoCall /\ call'.relays = call.relays)
    BY <1>5, StepCall DEF EndCall, TypeOK, LinksTypeOK, State, Reasons, Issued
  <2>2. QED
    BY <1>5, <2>1, ThreadFacts, ConstantAssumption
       DEF EndCall, TypeOK, LinksTypeOK, Located, Alone, NeedCall, At, Goto, Rest, Move,
           Resting, Thread, media, relay, links, State
<1>6. ASSUME NEW t \in Threads, CleanupRelays(t)
      PROVE  Located'
  <2>1. t # "ack"
    BY <1>6 DEF CleanupRelays, Emptied, Located, At
  <2>2. /\ th'[t].at \in {"idle", "unregister"}
        /\ \A u \in Threads \ {t} : th'[u] = th[u]
    BY <1>6, GotoTyped, RestTyped, ThreadFacts DEF CleanupRelays, Emptied, TypeOK, LinksTypeOK, Labels
  <2>3. QED
    BY <1>6, <2>1, <2>2, ThreadFacts
       DEF CleanupRelays, Emptied, Located, Alone, NeedCall, At, media, relay, links, State
<1>7. ASSUME NEW t \in Threads, Dial(t)
      PROVE  Located'
  <2>1. [th[t] EXCEPT !.at = "configure", !.check = Usable(th[t].eps)] \in Thread
    BY UsableTyped, SMTT(30), ZenonT(60) DEF TypeOK, LinksTypeOK, Thread, Labels
  <2>2. [th[t] EXCEPT !.at = "configure", !.check = Usable(th[t].eps)].at = "configure"
    BY DEF TypeOK, LinksTypeOK, Thread
  <2>3. /\ th'[t].at \in {"idle", "configure"}
        /\ \A u \in Threads \ {t} : th'[u] = th[u]
    BY <1>7, <2>1, <2>2, MoveTyped, RestTyped DEF Dial, TypeOK, LinksTypeOK
  <2>4. QED
    BY <1>7, <2>3, ThreadFacts
       DEF Dial, Located, Alone, NeedCall, At, media, relay, links, State
<1>8. ASSUME NEW eps \in Listed(TRUE) \cup Listed(FALSE), NEW peer \in Devices \cup
             {NoPeer}, HandleCallAck(eps, peer)
      PROVE  Located'
  <2>1. call \in Call /\ eps \in SUBSET Endpoint
    BY <1>8, ListedTyped, ThreadFacts DEF HandleCallAck, TypeOK, LinksTypeOK, Located, NeedCall, At
  <2>2. call' \in Call /\ call'.relays = [eps |-> eps, peer |-> peer]
    BY <1>8, <2>1 DEF HandleCallAck, Call, RelayData
  <2>3. call' # NoCall /\ call'.relays # NoRelays
    BY <2>1, <2>2, ConstantAssumption DEF RelayData
  <2>4. QED
    BY <1>8, <2>1, <2>2, <2>3, ThreadFacts, ConstantAssumption
       DEF HandleCallAck, TypeOK, LinksTypeOK, Located, Alone, NeedCall, At, Goto, Rest,
           Move, Resting, Thread, media, relay, links, State
<1>9. ASSUME NEW key \in BOOLEAN, NEW relays \in OfferRelays, HandleCallOffer(key,
             relays)
      PROVE  Located'
  <2>1. relays \in RelayData \cup {NoRelays}
    BY OfferTyped
  <2>2. call' \in Call
    BY <1>9, <2>1
       DEF HandleCallOffer, Call, CS!NewProgress, CS!Progress, CS!States,
           CS!Directions
  <2>3. call' # NoCall
    BY <2>2, ConstantAssumption
  <2>4. QED
    BY <1>9, <2>1, <2>2, <2>3, ThreadFacts, ConstantAssumption
       DEF HandleCallOffer, TypeOK, LinksTypeOK, Located, Alone, NeedCall, At, Goto, Rest,
           Move, Resting, Thread, media, relay, links, State
<1>10. ASSUME HandleCallAccept PROVE Located'
  <2>1. call' # NoCall /\ call'.relays = call.relays
    BY <1>10, ThreadFacts, StepCall
       DEF HandleCallAccept, TypeOK, LinksTypeOK, Located, NeedCall, At, Reasons, Issued
  <2>2. call \in Call
    BY <1>10, ThreadFacts DEF HandleCallAccept, TypeOK, LinksTypeOK, Located, NeedCall, At
  <2>3. call.relays # NoRelays => call.relays.eps \in SUBSET Endpoint
    BY <2>2, EpsTyped
  <2>4. call.relays # NoRelays =>
          [th["events"] EXCEPT !.at = "dial", !.eps = call.relays.eps] \in Thread
    BY <2>3, TakeTyped, ThreadFacts DEF TypeOK, LinksTypeOK, Labels
  <2>5. [th["events"] EXCEPT !.at = "dial", !.eps = call.relays.eps].at = "dial"
    BY ThreadFacts DEF TypeOK, LinksTypeOK, Thread
  <2>6. /\ th'["events"].at \in {"idle", "connect", "dial"}
        /\ \A u \in Threads \ {"events"} : th'[u] = th[u]
    BY <1>10, <2>1, <2>4, <2>5, ThreadFacts, MoveTyped, GotoTyped, RestTyped, SMTT(30), ZenonT(60)
       DEF HandleCallAccept, TypeOK, LinksTypeOK, Labels
  <2>7. QED
    BY <1>10, <2>1, <2>6, ThreadFacts
       DEF HandleCallAccept, Located, Alone, NeedCall, At, media, relay, links, State
<1>11. ASSUME ConnectAccepted PROVE Located'
  <2>1. call' # NoCall /\ call'.relays = call.relays
    BY <1>11, ThreadFacts, StepCall
       DEF ConnectAccepted, TypeOK, LinksTypeOK, Located, NeedCall, At, Reasons, Issued
  <2>2. QED
    BY <1>11, <2>1, ThreadFacts, ConstantAssumption
       DEF ConnectAccepted, TypeOK, LinksTypeOK, Located, Alone, NeedCall, At, Goto, Rest,
           Move, Resting, Thread, media, relay, links, State
<1>12. ASSUME NEW eps \in Listed(FALSE) \cup {{}}, HandleCallTransport(eps)
      PROVE  Located'
  <2>1. eps \in SUBSET Endpoint
    BY ListedTyped
  <2>2. [th["events"] EXCEPT !.at = "transport_set", !.eps = eps] \in Thread
    BY <2>1, TakeTyped, ThreadFacts DEF TypeOK, LinksTypeOK, Labels
  <2>3. [th["events"] EXCEPT !.at = "transport_set", !.eps = eps].at = "transport_set"
    BY ThreadFacts DEF TypeOK, LinksTypeOK, Thread
  <2>4. /\ th'["events"].at \in {"idle", "transport_set"}
        /\ \A u \in Threads \ {"events"} : th'[u] = th[u]
    BY <1>12, <2>2, <2>3, ThreadFacts, MoveTyped, RestTyped
       DEF HandleCallTransport, TypeOK, LinksTypeOK
  <2>5. QED
    BY <1>12, <2>4, ThreadFacts
       DEF HandleCallTransport, Located, Alone, NeedCall, At, media, relay, links,
           State
<1>13. ASSUME TransportSet PROVE Located'
  <2>1. call \in Call /\ th["events"].eps \in SUBSET Endpoint
    BY <1>13, ThreadFacts DEF TransportSet, TypeOK, LinksTypeOK, Located, NeedCall, At, Thread
  <2>2. call' \in Call /\ call'.relays \in RelayData
    BY <1>13, <2>1 DEF TransportSet, Call, RelayData
  <2>3. call' # NoCall /\ call'.relays # NoRelays
    BY <2>1, <2>2, ConstantAssumption DEF RelayData
  <2>4. QED
    BY <1>13, <2>1, <2>2, <2>3, ThreadFacts, ConstantAssumption
       DEF TransportSet, TypeOK, LinksTypeOK, Located, Alone, NeedCall, At, Goto, Rest,
           Move, Resting, Thread, media, relay, links, State
<1>14. ASSUME HandleCallTerminate PROVE Located'
  <2>1. call' # NoCall /\ call'.relays = call.relays
    BY <1>14, ThreadFacts, StepCall
       DEF HandleCallTerminate, TypeOK, LinksTypeOK, Located, NeedCall, At, Reasons, Issued
  <2>2. QED
    BY <1>14, <2>1, ThreadFacts, ConstantAssumption
       DEF HandleCallTerminate, TypeOK, LinksTypeOK, Located, Alone, NeedCall, At, Goto,
           Rest, Move, Resting, Thread, media, relay, links, State
<1>15. ASSUME NEW r \in Relays, OnRelayConnected(r)
      PROVE  Located'
  <2>1. call' = call \/ (call' # NoCall /\ call # NoCall /\ call'.relays = call.relays)
    BY <1>15, StepCall DEF OnRelayConnected, Reported, TypeOK, LinksTypeOK, State, Reasons, Issued
  <2>2. QED
    BY <1>15, <2>1, ThreadFacts, ConstantAssumption
       DEF OnRelayConnected, Reported, TypeOK, LinksTypeOK, Located, Alone, NeedCall, At, Goto, Rest,
           Move, Resting, Thread, media, relay, links, State
<1> USE ThreadFacts, ConstantAssumption
      DEF TypeOK, LinksTypeOK, Located, Alone, NeedCall, At, Goto, Rest, Move, Resting, Thread,
          media, relay, links, State
<1>16. ASSUME BeginOffer PROVE Located'
  BY <1>16 DEF BeginOffer
<1>17. ASSUME NEW event \in {"transport", "terminate"}, BeginEvent(event)
      PROVE  Located'
  BY <1>17 DEF BeginEvent
<1>18. ASSUME NEW dev \in Devices, NEW ownKey \in BOOLEAN, BeginAccepted(dev, ownKey)
      PROVE  Located'
  BY <1>18 DEF BeginAccepted
<1>19. ASSUME NEW t \in Clients, BeginStart(t)
      PROVE  Located'
  BY <1>19 DEF BeginStart
<1>20. ASSUME NEW t \in Clients, BeginTeardown(t)
      PROVE  Located'
  BY <1>20 DEF BeginTeardown
<1>21. ASSUME NEW t \in Clients, NEW request \in {"accept", "reject", "end"},
              BeginRequest(t, request)
      PROVE  Located'
  BY <1>21 DEF BeginRequest, Announced
<1>22. ASSUME NEW t \in Threads, QueryFails(t)
      PROVE  Located'
  BY <1>22 DEF QueryFails
<1>23. ASSUME NEW t \in Threads, SetupIncomingMedia(t)
      PROVE  Located'
  BY <1>23 DEF SetupIncomingMedia
<1>24. ASSUME NEW t \in Threads, DialCurrent(t)
      PROVE  Located'
  BY <1>24 DEF DialCurrent
<1>25. ASSUME NEW t \in Threads, CleanupMedia(t)
      PROVE  Located'
  BY <1>25 DEF CleanupMedia
<1>26. ASSUME NEW t \in Threads, Unregister(t)
      PROVE  Located'
  BY <1>26 DEF Unregister
<1>27. ASSUME NEW t \in Threads, Configured(t)
      PROVE  Located'
  BY <1>27 DEF Configured
<1>28. ASSUME NEW t \in Threads, NEW r \in Relays, Lookup(t, r)
      PROVE  Located'
  BY <1>28 DEF Lookup
<1>29. ASSUME NEW t \in Threads, NEW r \in Relays, Connect(t, r)
      PROVE  Located'
  BY <1>29 DEF Connect, Inserted
<1>30. ASSUME IgnoreAck PROVE Located'
  BY <1>30 DEF IgnoreAck
<1>31. ASSUME Announce PROVE Located'
  BY <1>31 DEF Announce
<1>32. ASSUME EmitIncoming PROVE Located'
  BY <1>32 DEF EmitIncoming
<1>33. ASSUME ReinitSrtp PROVE Located'
  BY <1>33 DEF ReinitSrtp
<1>34. ASSUME NEW r \in Relays, RelayOpens(r)
      PROVE  Located'
  BY <1>34 DEF RelayOpens, Opens
<1>35. ASSUME NEW r \in Relays, RelayFails(r)
      PROVE  Located'
  BY <1>35 DEF RelayFails, Lost
<1>36. ASSUME NEW r \in Relays, StrayOpens(r)
      PROVE  Located'
  BY <1>36 DEF StrayOpens, StrayOpened
<1>37. ASSUME NEW r \in Relays, StrayGone(r)
      PROVE  Located'
  BY <1>37 DEF StrayGone, StrayLost
<1>38. ASSUME UNCHANGED vars PROVE Located'
  BY <1>38 DEF vars, links
<1> HIDE DEF TypeOK, LinksTypeOK, Located, Alone, NeedCall, At, Goto, Rest, Move, Resting, Thread,
             media, relay, links, State
<1>39. QED
  BY <1>1, <1>2, <1>3, <1>4, <1>5, <1>6, <1>7, <1>8, <1>9, <1>10, <1>11, <1>12,
     <1>13, <1>14, <1>15, <1>16, <1>17, <1>18, <1>19, <1>20, <1>21, <1>22, <1>23,
     <1>24, <1>25, <1>26, <1>27, <1>28, <1>29, <1>30, <1>31, <1>32, <1>33, <1>34,
     <1>35, <1>36, <1>37, <1>38
     DEF Next, Begin, Continue, ContinueAck, ContinueEvent, RelayStep

(* A call that ends leaves the registry in the same step. *)
LEMMA EndedStep ==
  ASSUME TypeOK, TypeOK', Located, EndedIsUnregistered, [Next]_vars
  PROVE  EndedIsUnregistered'
<1>1. ASSUME NEW t \in Threads, StartCall(t)
      PROVE  EndedIsUnregistered'
  <2>1. call'.prog = CS!NewProgress(call'.dir)
    BY <1>1 DEF StartCall
  <2>2. QED
    BY <1>1, <2>1
       DEF EndedIsUnregistered, TypeOK, LinksTypeOK, State, media, relay, links, Emit, At, Located,
           Alone, CS!NewProgress
<1>2. ASSUME NEW t \in Threads, NEW a \in BOOLEAN, QueryReturns(t, a)
      PROVE  EndedIsUnregistered'
  <2>1. /\ call # NoCall
        /\ call' # NoCall
        /\ call'.prog = CS!Apply(call.prog, "offer_sent", "none")
    BY <1>2, ThreadFacts, StepCall
       DEF QueryReturns, TypeOK, LinksTypeOK, Located, NeedCall, At, Reasons, Issued
  <2>2. QED
    BY <1>2, <2>1, ThreadFacts, ConstantAssumption
       DEF QueryReturns, EndedIsUnregistered, TypeOK, LinksTypeOK, State, media, relay, links,
           Emit, At, Located, Alone, CS!Apply, CS!CanApply, CS!Source,
           CS!Target, CS!States
<1>3. ASSUME NEW t \in Threads, AcceptCall(t)
      PROVE  EndedIsUnregistered'
  <2>1. IF State = "incoming_ringing"
        THEN /\ call # NoCall /\ call' # NoCall
             /\ call'.prog = CS!Apply(call.prog, "local_accepted", "none")
        ELSE call' = call
    BY <1>3, StepCall DEF AcceptCall, TypeOK, LinksTypeOK, State, Reasons, Issued
  <2>2. QED
    BY <1>3, <2>1, ThreadFacts, ConstantAssumption
       DEF AcceptCall, EndedIsUnregistered, TypeOK, LinksTypeOK, State, media, relay, links, Emit,
           At, Located, Alone, CS!Apply, CS!CanApply, CS!Source, CS!Target,
           CS!States
<1>4. ASSUME NEW t \in Threads, RejectCall(t)
      PROVE  EndedIsUnregistered'
  <2>1. /\ call # NoCall
        /\ call' # NoCall
        /\ call'.prog = CS!Apply(call.prog, "local_rejected", "declined")
    BY <1>4, ThreadFacts, StepCall
       DEF RejectCall, TypeOK, LinksTypeOK, Located, NeedCall, At, Reasons, Issued
  <2>2. QED
    BY <1>4, <2>1, ThreadFacts, ConstantAssumption
       DEF RejectCall, EndedIsUnregistered, TypeOK, LinksTypeOK, State, media, relay, links, Emit,
           At, Located, Alone, CS!Apply, CS!CanApply, CS!Source, CS!Target,
           CS!States
<1>5. ASSUME NEW t \in Threads, EndCall(t)
      PROVE  EndedIsUnregistered'
  <2>1. IF State \notin {"none", "ended"}
        THEN /\ call # NoCall /\ call' # NoCall
             /\ call'.prog = CS!Apply(call.prog, "terminated", "user_ended")
        ELSE call' = call
    BY <1>5, StepCall DEF EndCall, TypeOK, LinksTypeOK, State, Reasons, Issued
  <2>2. QED
    BY <1>5, <2>1, ThreadFacts, ConstantAssumption
       DEF EndCall, EndedIsUnregistered, TypeOK, LinksTypeOK, State, media, relay, links, Emit, At,
           Located, Alone, CS!Apply, CS!CanApply, CS!Source, CS!Target,
           CS!States
<1>6. ASSUME NEW eps \in Listed(TRUE) \cup Listed(FALSE), NEW peer \in Devices \cup
             {NoPeer}, HandleCallAck(eps, peer)
      PROVE  EndedIsUnregistered'
  <2>1. /\ call # NoCall
        /\ call' # NoCall
        /\ call'.prog = call.prog
        /\ call'.dir = call.dir
        /\ call'.key = call.key
    BY <1>6, AckCall
  <2>2. QED
    BY <1>6, <2>1, ThreadFacts, ConstantAssumption
       DEF HandleCallAck, EndedIsUnregistered, TypeOK, LinksTypeOK, State, media, relay, links,
           Emit, At, Located, Alone
<1>7. ASSUME NEW key \in BOOLEAN, NEW relays \in OfferRelays, HandleCallOffer(key,
             relays)
      PROVE  EndedIsUnregistered'
  <2>1. call'.prog = CS!NewProgress(call'.dir)
    BY <1>7 DEF HandleCallOffer
  <2>2. QED
    BY <1>7, <2>1
       DEF EndedIsUnregistered, TypeOK, LinksTypeOK, State, media, relay, links, Emit, At, Located,
           Alone, CS!NewProgress
<1>8. ASSUME HandleCallAccept PROVE EndedIsUnregistered'
  <2>1. /\ call # NoCall
        /\ call' # NoCall
        /\ call'.prog = CS!Apply(call.prog, "remote_accepted", "none")
    BY <1>8, ThreadFacts, StepCall
       DEF HandleCallAccept, TypeOK, LinksTypeOK, Located, NeedCall, At, Reasons, Issued
  <2>2. QED
    BY <1>8, <2>1, ThreadFacts, ConstantAssumption
       DEF HandleCallAccept, EndedIsUnregistered, TypeOK, LinksTypeOK, State, media, relay, links,
           Emit, At, Located, Alone, CS!Apply, CS!CanApply, CS!Source,
           CS!Target, CS!States
<1>9. ASSUME ConnectAccepted PROVE EndedIsUnregistered'
  <2>1. /\ call # NoCall
        /\ call' # NoCall
        /\ call'.prog = CS!Apply(call.prog, "media_connected", "none")
    BY <1>9, ThreadFacts, StepCall
       DEF ConnectAccepted, TypeOK, LinksTypeOK, Located, NeedCall, At, Reasons, Issued
  <2>2. QED
    BY <1>9, <2>1, ThreadFacts, ConstantAssumption
       DEF ConnectAccepted, EndedIsUnregistered, TypeOK, LinksTypeOK, State, media, relay, links,
           Emit, At, Located, Alone, CS!Apply, CS!CanApply, CS!Source,
           CS!Target, CS!States
<1>10. ASSUME TransportSet PROVE EndedIsUnregistered'
  <2>1. /\ call # NoCall
        /\ call' # NoCall
        /\ call'.prog = call.prog
        /\ call'.dir = call.dir
        /\ call'.key = call.key
    BY <1>10, TransportCall
  <2>2. QED
    BY <1>10, <2>1, ThreadFacts, ConstantAssumption
       DEF TransportSet, EndedIsUnregistered, TypeOK, LinksTypeOK, State, media, relay, links,
           Emit, At, Located, Alone
<1>11. ASSUME HandleCallTerminate PROVE EndedIsUnregistered'
  <2>1. /\ call # NoCall
        /\ call' # NoCall
        /\ call'.prog = CS!Apply(call.prog, "terminated", "peer")
    BY <1>11, ThreadFacts, StepCall
       DEF HandleCallTerminate, TypeOK, LinksTypeOK, Located, NeedCall, At, Reasons, Issued
  <2>2. QED
    BY <1>11, <2>1, ThreadFacts, ConstantAssumption
       DEF HandleCallTerminate, EndedIsUnregistered, TypeOK, LinksTypeOK, State, media,
           relay, links, Emit, At, Located, Alone, CS!Apply, CS!CanApply, CS!Source,
           CS!Target, CS!States
<1>12. ASSUME NEW r \in Relays, OnRelayConnected(r)
      PROVE  EndedIsUnregistered'
  <2>1. IF State = "connecting"
        THEN /\ call # NoCall /\ call' # NoCall
             /\ call'.prog = CS!Apply(call.prog, "media_connected", "none")
        ELSE call' = call
    BY <1>12, StepCall DEF OnRelayConnected, Reported, TypeOK, LinksTypeOK, State, Reasons, Issued
  <2>2. QED
    BY <1>12, <2>1, ThreadFacts, ConstantAssumption
       DEF OnRelayConnected, Reported, EndedIsUnregistered, TypeOK, LinksTypeOK, State, media, relay, links,
           Emit, At, Located, Alone, CS!Apply, CS!CanApply, CS!Source,
           CS!Target, CS!States
<1>13. ASSUME ~Active PROVE EndedIsUnregistered'
  BY <1>13, Passive DEF EndedIsUnregistered, State
<1>14. ASSUME NEW t \in Threads, SetupIncomingMedia(t)
      PROVE  EndedIsUnregistered'
  BY <1>14, ThreadFacts, ConstantAssumption
     DEF SetupIncomingMedia, EndedIsUnregistered, TypeOK, LinksTypeOK, State, media, relay, links,
         Emit, At, Located, Alone
<1>15. ASSUME NEW t \in Threads, CleanupMedia(t)
      PROVE  EndedIsUnregistered'
  BY <1>15, ThreadFacts, ConstantAssumption
     DEF CleanupMedia, EndedIsUnregistered, TypeOK, LinksTypeOK, State, media, relay, links, Emit,
         At, Located, Alone
<1>16. ASSUME ReinitSrtp PROVE EndedIsUnregistered'
  BY <1>16, ThreadFacts, ConstantAssumption
     DEF ReinitSrtp, EndedIsUnregistered, TypeOK, LinksTypeOK, State, media, relay, links, Emit, At,
         Located, Alone
<1>17. QED
  BY <1>1, <1>2, <1>3, <1>4, <1>5, <1>6, <1>7, <1>8, <1>9, <1>10, <1>11, <1>12,
     <1>13, <1>14, <1>15, <1>16
     DEF Active

(* Each handler works on the kind of call it is for. *)
LEMMA ProgressionStep ==
  ASSUME TypeOK, TypeOK', Located, Progression, [Next]_vars
  PROVE  Progression'
<1>1. ASSUME NEW t \in Threads, StartCall(t)
      PROVE  Progression'
  <2>1. call' # NoCall /\ call'.prog = CS!NewProgress(call'.dir)
    BY <1>1, StartCallNew
  <2>2. QED
    BY <1>1, <2>1, ThreadFacts, ConstantAssumption
       DEF StartCall, Progression, OutgoingHandlers, OutgoingOnly, CallShape,
           TypeOK, LinksTypeOK, State, media, relay, links, At, Located, Alone, CS!NewProgress,
           Goto, Rest, Move, Resting, Thread
<1>2. ASSUME NEW t \in Threads, NEW a \in BOOLEAN, QueryReturns(t, a)
      PROVE  Progression'
  <2>1. /\ call # NoCall
        /\ call' # NoCall
        /\ call'.dir = call.dir
        /\ call'.key = call.key
        /\ call'.prog = CS!Apply(call.prog, "offer_sent", "none")
    BY <1>2, ThreadFacts, StepCall
       DEF QueryReturns, TypeOK, LinksTypeOK, Located, NeedCall, At, Reasons, Issued
  <2>2. call.dir = "outgoing"
    BY <1>2, <2>1 DEF QueryReturns, At, Progression, OutgoingHandlers, OutgoingOnly
  <2>3. call # NoCall => CallShape'
    BY <1>2, <2>1
       DEF QueryReturns, Progression, CallShape, State, TypeOK, LinksTypeOK, Call,
           CS!Progress, CS!Apply, CS!CanApply, CS!Source, CS!Target, CS!States
  <2>4. QED
    BY <2>1, <2>2, <2>3 DEF Progression, OutgoingHandlers
<1>3. ASSUME NEW t \in Threads, AcceptCall(t)
      PROVE  Progression'
  <2>1. IF State = "incoming_ringing"
        THEN /\ call # NoCall /\ call' # NoCall /\ call'.dir = call.dir /\ call'.key = call.key
             /\ call'.prog = CS!Apply(call.prog, "local_accepted", "none")
        ELSE call' = call
    BY <1>3, StepCall DEF AcceptCall, TypeOK, LinksTypeOK, State, Reasons, Issued
  <2>2. \A u \in Threads : th'[u].at \in OutgoingOnly => th[u].at \in OutgoingOnly
    BY <1>3, GotoTyped, RestTyped, MoveTyped, ThreadFacts
       DEF AcceptCall, At, TypeOK, LinksTypeOK, Labels, OutgoingOnly
  <2>3. call # NoCall => CallShape'
    BY <1>3, <2>1
       DEF AcceptCall, Progression, CallShape, State, TypeOK, LinksTypeOK, Call,
           CS!Progress, CS!Apply, CS!CanApply, CS!Source, CS!Target, CS!States
  <2>4. QED
    BY <1>3, <2>1, <2>2, <2>3
       DEF Progression, OutgoingHandlers, State, AcceptCall, EndCall,
           OnRelayConnected, Reported
<1>4. ASSUME NEW t \in Threads, RejectCall(t)
      PROVE  Progression'
  <2>1. /\ call # NoCall
        /\ call' # NoCall
        /\ call'.dir = call.dir
        /\ call'.key = call.key
        /\ call'.prog = CS!Apply(call.prog, "local_rejected", "declined")
    BY <1>4, ThreadFacts, StepCall
       DEF RejectCall, TypeOK, LinksTypeOK, Located, NeedCall, At, Reasons, Issued
  <2>2. \A u \in Threads : th'[u].at \in OutgoingOnly => th[u].at \in OutgoingOnly
    BY <1>4, GotoTyped, RestTyped, MoveTyped, ThreadFacts
       DEF RejectCall, At, TypeOK, LinksTypeOK, Labels, OutgoingOnly
  <2>3. call # NoCall => CallShape'
    BY <1>4, <2>1
       DEF RejectCall, Progression, CallShape, State, TypeOK, LinksTypeOK, Call,
           CS!Progress, CS!Apply, CS!CanApply, CS!Source, CS!Target, CS!States
  <2>4. QED
    BY <1>4, <2>1, <2>2, <2>3 DEF Progression, OutgoingHandlers, State
<1>5. ASSUME NEW t \in Threads, EndCall(t)
      PROVE  Progression'
  <2>1. IF State \notin {"none", "ended"}
        THEN /\ call # NoCall /\ call' # NoCall /\ call'.dir = call.dir /\ call'.key = call.key
             /\ call'.prog = CS!Apply(call.prog, "terminated", "user_ended")
        ELSE call' = call
    BY <1>5, StepCall DEF EndCall, TypeOK, LinksTypeOK, State, Reasons, Issued
  <2>2. \A u \in Threads : th'[u].at \in OutgoingOnly => th[u].at \in OutgoingOnly
    BY <1>5, GotoTyped, RestTyped, MoveTyped, ThreadFacts
       DEF EndCall, At, TypeOK, LinksTypeOK, Labels, OutgoingOnly
  <2>3. call # NoCall => CallShape'
    BY <1>5, <2>1
       DEF EndCall, Progression, CallShape, State, TypeOK, LinksTypeOK, Call, CS!Progress,
           CS!Apply, CS!CanApply, CS!Source, CS!Target, CS!States
  <2>4. QED
    BY <1>5, <2>1, <2>2, <2>3
       DEF Progression, OutgoingHandlers, State, AcceptCall, EndCall,
           OnRelayConnected, Reported
<1>6. ASSUME NEW t \in Threads, Unregister(t)
      PROVE  Progression'
  <2>1. \A u \in Threads : th'[u].at \in OutgoingOnly => th[u].at \in OutgoingOnly
    BY <1>6, ThreadFacts
       DEF Unregister, At, TypeOK, LinksTypeOK, Thread, Resting, Move, Goto, Rest,
           OutgoingOnly
  <2>2. QED
    BY <1>6, <2>1 DEF Unregister, Progression, OutgoingHandlers, CallShape, State
<1>7. ASSUME NEW t \in Threads, Dial(t)
      PROVE  Progression'
  <2>1. [th[t] EXCEPT !.at = "configure", !.check = Usable(th[t].eps)] \in Thread
    BY UsableTyped, SMTT(30), ZenonT(60) DEF TypeOK, LinksTypeOK, Thread, Labels
  <2>2. [th[t] EXCEPT !.at = "configure", !.check = Usable(th[t].eps)].at = "configure"
    BY DEF TypeOK, LinksTypeOK, Thread
  <2>3. /\ th'[t].at \in {"idle", "configure"}
        /\ \A u \in Threads \ {t} : th'[u] = th[u]
    BY <1>7, <2>1, <2>2, MoveTyped, RestTyped DEF Dial, TypeOK, LinksTypeOK
  <2>4. QED
    BY <1>7, <2>3
       DEF Dial, Progression, OutgoingHandlers, OutgoingOnly, CallShape, State
<1>8. ASSUME NEW eps \in Listed(TRUE) \cup Listed(FALSE), NEW peer \in Devices \cup
             {NoPeer}, HandleCallAck(eps, peer)
      PROVE  Progression'
  <2>1. /\ call # NoCall
        /\ call' # NoCall
        /\ call'.prog = call.prog
        /\ call'.dir = call.dir
        /\ call'.key = call.key
    BY <1>8, AckCall
  <2>2. QED
    BY <1>8, <2>1, ThreadFacts, ConstantAssumption
       DEF HandleCallAck, Progression, OutgoingHandlers, OutgoingOnly,
           CallShape, TypeOK, LinksTypeOK, State, media, relay, links, At, Located, Alone, Goto,
           Rest, Move, Resting, Thread
<1>9. ASSUME NEW key \in BOOLEAN, NEW relays \in OfferRelays, HandleCallOffer(key,
             relays)
      PROVE  Progression'
  <2>1. call' # NoCall /\ call'.prog = CS!NewProgress(call'.dir)
    BY <1>9, OfferCallNew
  <2>2. QED
    BY <1>9, <2>1, ThreadFacts, ConstantAssumption, SMTT(60)
       DEF HandleCallOffer, Progression, OutgoingHandlers, OutgoingOnly,
           CallShape, TypeOK, LinksTypeOK, State, media, relay, links, At, Located, Alone,
           CS!NewProgress, Goto, Rest, Move, Resting, Thread
<1>10. ASSUME HandleCallAccept PROVE Progression'
  <2>1. /\ call # NoCall
        /\ call' # NoCall
        /\ call'.dir = call.dir
        /\ call'.key = call.key
        /\ call'.prog = CS!Apply(call.prog, "remote_accepted", "none")
    BY <1>10, ThreadFacts, StepCall
       DEF HandleCallAccept, TypeOK, LinksTypeOK, Located, NeedCall, At, Reasons, Issued
  <2>2. \A u \in Threads : th'[u].at \in OutgoingOnly => th[u].at \in OutgoingOnly
    BY <1>10, ThreadFacts
       DEF HandleCallAccept, At, TypeOK, LinksTypeOK, Thread, Resting, Move, Goto, Rest,
           OutgoingOnly
  <2>3. call # NoCall => CallShape'
    BY <1>10, <2>1
       DEF HandleCallAccept, Progression, CallShape, State, TypeOK, LinksTypeOK, Call,
           CS!Progress, CS!Apply, CS!CanApply, CS!Source, CS!Target, CS!States
  <2>4. QED
    BY <1>10, <2>1, <2>2, <2>3 DEF Progression, OutgoingHandlers, State
<1>11. ASSUME ConnectAccepted PROVE Progression'
  <2>1. /\ call # NoCall
        /\ call' # NoCall
        /\ call'.dir = call.dir
        /\ call'.key = call.key
        /\ call'.prog = CS!Apply(call.prog, "media_connected", "none")
    BY <1>11, ThreadFacts, StepCall
       DEF ConnectAccepted, TypeOK, LinksTypeOK, Located, NeedCall, At, Reasons, Issued
  <2>2. \A u \in Threads : th'[u].at \in OutgoingOnly => th[u].at \in OutgoingOnly
    BY <1>11, GotoTyped, RestTyped, MoveTyped, ThreadFacts
       DEF ConnectAccepted, At, TypeOK, LinksTypeOK, Labels, OutgoingOnly
  <2>3. call # NoCall => CallShape'
    BY <1>11, <2>1
       DEF ConnectAccepted, Progression, CallShape, State, TypeOK, LinksTypeOK, Call,
           CS!Progress, CS!Apply, CS!CanApply, CS!Source, CS!Target, CS!States
  <2>4. QED
    BY <1>11, <2>1, <2>2, <2>3 DEF Progression, OutgoingHandlers, State
<1>12. ASSUME NEW eps \in Listed(FALSE) \cup {{}}, HandleCallTransport(eps)
      PROVE  Progression'
  <2>1. eps \in SUBSET Endpoint
    BY ListedTyped
  <2>2. [th["events"] EXCEPT !.at = "transport_set", !.eps = eps] \in Thread
    BY <2>1, TakeTyped, ThreadFacts DEF TypeOK, LinksTypeOK, Labels
  <2>3. [th["events"] EXCEPT !.at = "transport_set", !.eps = eps].at = "transport_set"
    BY ThreadFacts DEF TypeOK, LinksTypeOK, Thread
  <2>4. /\ th'["events"].at \in {"idle", "transport_set"}
        /\ \A u \in Threads \ {"events"} : th'[u] = th[u]
    BY <1>12, <2>2, <2>3, ThreadFacts, MoveTyped, RestTyped
       DEF HandleCallTransport, TypeOK, LinksTypeOK
  <2>5. QED
    BY <1>12, <2>4
       DEF HandleCallTransport, Progression, OutgoingHandlers, OutgoingOnly,
           CallShape, State
<1>13. ASSUME TransportSet PROVE Progression'
  <2>1. /\ call # NoCall
        /\ call' # NoCall
        /\ call'.prog = call.prog
        /\ call'.dir = call.dir
        /\ call'.key = call.key
    BY <1>13, TransportCall
  <2>2. QED
    BY <1>13, <2>1, ThreadFacts, ConstantAssumption
       DEF TransportSet, Progression, OutgoingHandlers, OutgoingOnly,
           CallShape, TypeOK, LinksTypeOK, State, media, relay, links, At, Located, Alone, Goto,
           Rest, Move, Resting, Thread
<1>14. ASSUME HandleCallTerminate PROVE Progression'
  <2>1. /\ call # NoCall
        /\ call' # NoCall
        /\ call'.dir = call.dir
        /\ call'.key = call.key
        /\ call'.prog = CS!Apply(call.prog, "terminated", "peer")
    BY <1>14, ThreadFacts, StepCall
       DEF HandleCallTerminate, TypeOK, LinksTypeOK, Located, NeedCall, At, Reasons, Issued
  <2>2. \A u \in Threads : th'[u].at \in OutgoingOnly => th[u].at \in OutgoingOnly
    BY <1>14, GotoTyped, RestTyped, MoveTyped, ThreadFacts
       DEF HandleCallTerminate, At, TypeOK, LinksTypeOK, Labels, OutgoingOnly
  <2>3. call # NoCall => CallShape'
    BY <1>14, <2>1
       DEF HandleCallTerminate, Progression, CallShape, State, TypeOK, LinksTypeOK, Call,
           CS!Progress, CS!Apply, CS!CanApply, CS!Source, CS!Target, CS!States
  <2>4. QED
    BY <1>14, <2>1, <2>2, <2>3 DEF Progression, OutgoingHandlers, State
<1>15. ASSUME NEW r \in Relays, OnRelayConnected(r)
      PROVE  Progression'
  <2>1. IF State = "connecting"
        THEN /\ call # NoCall /\ call' # NoCall /\ call'.dir = call.dir /\ call'.key = call.key
             /\ call'.prog = CS!Apply(call.prog, "media_connected", "none")
        ELSE call' = call
    BY <1>15, StepCall DEF OnRelayConnected, Reported, TypeOK, LinksTypeOK, State, Reasons, Issued
  <2>2. \A u \in Threads : th'[u].at \in OutgoingOnly => th[u].at \in OutgoingOnly
    BY <1>15 DEF OnRelayConnected, Reported
  <2>3. call # NoCall => CallShape'
    BY <1>15, <2>1
       DEF OnRelayConnected, Reported, Progression, CallShape, State, TypeOK, LinksTypeOK, Call,
           CS!Progress, CS!Apply, CS!CanApply, CS!Source, CS!Target, CS!States
  <2>4. QED
    BY <1>15, <2>1, <2>2, <2>3
       DEF Progression, OutgoingHandlers, State, AcceptCall, EndCall,
           OnRelayConnected, Reported
<1> USE ThreadFacts, ConstantAssumption
      DEF Progression, OutgoingHandlers, OutgoingOnly, CallShape, TypeOK, LinksTypeOK, State,
          media, relay, links, At, Located, Alone, Goto, Rest, Move, Resting, Thread
<1>16. ASSUME BeginOffer PROVE Progression'
  BY <1>16 DEF BeginOffer
<1>17. ASSUME NEW event \in {"transport", "terminate"}, BeginEvent(event)
      PROVE  Progression'
  BY <1>17 DEF BeginEvent
<1>18. ASSUME NEW dev \in Devices, NEW ownKey \in BOOLEAN, BeginAccepted(dev, ownKey)
      PROVE  Progression'
  BY <1>18 DEF BeginAccepted
<1>19. ASSUME NEW t \in Clients, BeginStart(t)
      PROVE  Progression'
  BY <1>19 DEF BeginStart
<1>20. ASSUME NEW t \in Clients, BeginTeardown(t)
      PROVE  Progression'
  BY <1>20 DEF BeginTeardown
<1>21. ASSUME NEW t \in Clients, NEW request \in {"accept", "reject", "end"},
              BeginRequest(t, request)
      PROVE  Progression'
  BY <1>21 DEF BeginRequest
<1>22. ASSUME NEW t \in Threads, QueryFails(t)
      PROVE  Progression'
  BY <1>22 DEF QueryFails
<1>23. ASSUME NEW t \in Threads, SetupIncomingMedia(t)
      PROVE  Progression'
  BY <1>23 DEF SetupIncomingMedia
<1>24. ASSUME NEW t \in Threads, DialCurrent(t)
      PROVE  Progression'
  BY <1>24 DEF DialCurrent
<1>25. ASSUME NEW t \in Threads, CleanupMedia(t)
      PROVE  Progression'
  BY <1>25 DEF CleanupMedia
<1>26. ASSUME NEW t \in Threads, CleanupRelays(t)
      PROVE  Progression'
  BY <1>26 DEF CleanupRelays, Emptied
<1>27. ASSUME NEW t \in Threads, Configured(t)
      PROVE  Progression'
  BY <1>27 DEF Configured
<1>28. ASSUME NEW t \in Threads, NEW r \in Relays, Lookup(t, r)
      PROVE  Progression'
  BY <1>28 DEF Lookup
<1>29. ASSUME NEW t \in Threads, NEW r \in Relays, Connect(t, r)
      PROVE  Progression'
  BY <1>29 DEF Connect, Inserted
<1>30. ASSUME IgnoreAck PROVE Progression'
  BY <1>30 DEF IgnoreAck
<1>31. ASSUME Announce PROVE Progression'
  BY <1>31 DEF Announce
<1>32. ASSUME EmitIncoming PROVE Progression'
  BY <1>32 DEF EmitIncoming
<1>33. ASSUME ReinitSrtp PROVE Progression'
  BY <1>33 DEF ReinitSrtp
<1>34. ASSUME NEW r \in Relays, RelayOpens(r)
      PROVE  Progression'
  BY <1>34 DEF RelayOpens, Opens
<1>35. ASSUME NEW r \in Relays, RelayFails(r)
      PROVE  Progression'
  BY <1>35 DEF RelayFails, Lost
<1>36. ASSUME NEW r \in Relays, StrayOpens(r)
      PROVE  Progression'
  BY <1>36 DEF StrayOpens, StrayOpened
<1>37. ASSUME NEW r \in Relays, StrayGone(r)
      PROVE  Progression'
  BY <1>37 DEF StrayGone, StrayLost
<1>38. ASSUME UNCHANGED vars PROVE Progression'
  BY <1>38 DEF vars, links
<1> HIDE DEF Progression, OutgoingHandlers, OutgoingOnly, CallShape, TypeOK, LinksTypeOK, State,
             media, relay, links, At, Located, Alone, Goto, Rest, Move, Resting, Thread
<1>39. QED
  BY <1>1, <1>2, <1>3, <1>4, <1>5, <1>6, <1>7, <1>8, <1>9, <1>10, <1>11, <1>12,
     <1>13, <1>14, <1>15, <1>16, <1>17, <1>18, <1>19, <1>20, <1>21, <1>22, <1>23,
     <1>24, <1>25, <1>26, <1>27, <1>28, <1>29, <1>30, <1>31, <1>32, <1>33, <1>34,
     <1>35, <1>36, <1>37, <1>38
     DEF Next, Begin, Continue, ContinueAck, ContinueEvent, RelayStep

(* The keepalive starts with the codec, for a call that becomes active, and *)
(* stops when the codec is closed.                                         *)
LEMMA KeepaliveStep ==
  ASSUME TypeOK, TypeOK', Located, KeepaliveHasCodec, [Next]_vars
  PROVE  KeepaliveHasCodec'
<1>1. ASSUME NEW t \in Threads, StartCall(t)
      PROVE  KeepaliveHasCodec'
  <2>1. call' # NoCall /\ call'.prog = CS!NewProgress(call'.dir)
    BY <1>1, StartCallNew
  <2>2. QED
    BY <1>1, <2>1, ThreadFacts, ConstantAssumption
       DEF StartCall, KeepaliveHasCodec, TypeOK, LinksTypeOK, State, media, relay, links, At,
           Located, Alone, StartKeepalive, CS!NewProgress
<1>2. ASSUME NEW t \in Threads, NEW a \in BOOLEAN, QueryReturns(t, a)
      PROVE  KeepaliveHasCodec'
  <2>1. /\ call # NoCall
        /\ call' # NoCall
        /\ call'.prog = CS!Apply(call.prog, "offer_sent", "none")
    BY <1>2, ThreadFacts, StepCall
       DEF QueryReturns, TypeOK, LinksTypeOK, Located, NeedCall, At, Reasons, Issued
  <2>2. QED
    BY <1>2, <2>1, ThreadFacts, ConstantAssumption
       DEF QueryReturns, KeepaliveHasCodec, TypeOK, LinksTypeOK, State, media, relay, links, At,
           Located, Alone, StartKeepalive, CS!Apply, CS!CanApply, CS!Source,
           CS!Target, CS!States
<1>3. ASSUME NEW t \in Threads, AcceptCall(t)
      PROVE  KeepaliveHasCodec'
  <2>1. IF State = "incoming_ringing"
        THEN /\ call # NoCall /\ call' # NoCall
             /\ call'.prog = CS!Apply(call.prog, "local_accepted", "none")
        ELSE call' = call
    BY <1>3, StepCall DEF AcceptCall, TypeOK, LinksTypeOK, State, Reasons, Issued
  <2>2. QED
    BY <1>3, <2>1, ThreadFacts, ConstantAssumption
       DEF AcceptCall, KeepaliveHasCodec, TypeOK, LinksTypeOK, State, media, relay, links, At,
           Located, Alone, StartKeepalive, CS!Apply, CS!CanApply, CS!Source,
           CS!Target, CS!States
<1>4. ASSUME NEW t \in Threads, RejectCall(t)
      PROVE  KeepaliveHasCodec'
  <2>1. /\ call # NoCall
        /\ call' # NoCall
        /\ call'.prog = CS!Apply(call.prog, "local_rejected", "declined")
    BY <1>4, ThreadFacts, StepCall
       DEF RejectCall, TypeOK, LinksTypeOK, Located, NeedCall, At, Reasons, Issued
  <2>2. QED
    BY <1>4, <2>1, ThreadFacts, ConstantAssumption
       DEF RejectCall, KeepaliveHasCodec, TypeOK, LinksTypeOK, State, media, relay, links, At,
           Located, Alone, StartKeepalive, CS!Apply, CS!CanApply, CS!Source,
           CS!Target, CS!States
<1>5. ASSUME NEW t \in Threads, EndCall(t)
      PROVE  KeepaliveHasCodec'
  <2>1. IF State \notin {"none", "ended"}
        THEN /\ call # NoCall /\ call' # NoCall
             /\ call'.prog = CS!Apply(call.prog, "terminated", "user_ended")
        ELSE call' = call
    BY <1>5, StepCall DEF EndCall, TypeOK, LinksTypeOK, State, Reasons, Issued
  <2>2. QED
    BY <1>5, <2>1, ThreadFacts, ConstantAssumption
       DEF EndCall, KeepaliveHasCodec, TypeOK, LinksTypeOK, State, media, relay, links, At,
           Located, Alone, StartKeepalive, CS!Apply, CS!CanApply, CS!Source,
           CS!Target, CS!States
<1>6. ASSUME NEW eps \in Listed(TRUE) \cup Listed(FALSE), NEW peer \in Devices \cup
             {NoPeer}, HandleCallAck(eps, peer)
      PROVE  KeepaliveHasCodec'
  <2>1. /\ call # NoCall
        /\ call' # NoCall
        /\ call'.prog = call.prog
        /\ call'.dir = call.dir
        /\ call'.key = call.key
    BY <1>6, AckCall
  <2>2. QED
    BY <1>6, <2>1, ThreadFacts, ConstantAssumption
       DEF HandleCallAck, KeepaliveHasCodec, TypeOK, LinksTypeOK, State, media, relay, links, At,
           Located, Alone, StartKeepalive
<1>7. ASSUME NEW key \in BOOLEAN, NEW relays \in OfferRelays, HandleCallOffer(key,
             relays)
      PROVE  KeepaliveHasCodec'
  <2>1. call' # NoCall /\ call'.prog = CS!NewProgress(call'.dir)
    BY <1>7, OfferCallNew
  <2>2. QED
    BY <1>7, <2>1, ThreadFacts, ConstantAssumption
       DEF HandleCallOffer, KeepaliveHasCodec, TypeOK, LinksTypeOK, State, media, relay, links, At,
           Located, Alone, StartKeepalive, CS!NewProgress
<1>8. ASSUME HandleCallAccept PROVE KeepaliveHasCodec'
  <2>1. /\ call # NoCall
        /\ call' # NoCall
        /\ call'.prog = CS!Apply(call.prog, "remote_accepted", "none")
    BY <1>8, ThreadFacts, StepCall
       DEF HandleCallAccept, TypeOK, LinksTypeOK, Located, NeedCall, At, Reasons, Issued
  <2>2. QED
    BY <1>8, <2>1, ThreadFacts, ConstantAssumption
       DEF HandleCallAccept, KeepaliveHasCodec, TypeOK, LinksTypeOK, State, media, relay, links,
           At, Located, Alone, StartKeepalive, CS!Apply, CS!CanApply,
           CS!Source, CS!Target, CS!States
<1>9. ASSUME ConnectAccepted PROVE KeepaliveHasCodec'
  <2>1. /\ call # NoCall
        /\ call' # NoCall
        /\ call'.prog = CS!Apply(call.prog, "media_connected", "none")
    BY <1>9, ThreadFacts, StepCall
       DEF ConnectAccepted, TypeOK, LinksTypeOK, Located, NeedCall, At, Reasons, Issued
  <2>2. /\ (State = "connecting" => State' = "active")
        /\ (State # "connecting" => State' = State)
    BY <1>9, <2>1
       DEF ConnectAccepted, State, CS!Apply, CS!CanApply, CS!Source, CS!Target,
           CS!States
  <2>3. State # "connecting" => keepalive' = keepalive
    BY <1>9 DEF ConnectAccepted
  <2>4. State = "connecting" => keepalive' = (keepalive \/ codec)
    BY <1>9 DEF ConnectAccepted, StartKeepalive
  <2>5. codec' = codec
    BY <1>9 DEF ConnectAccepted
  <2>6. QED
    BY <2>2, <2>3, <2>4, <2>5 DEF KeepaliveHasCodec
<1>10. ASSUME TransportSet PROVE KeepaliveHasCodec'
  <2>1. /\ call # NoCall
        /\ call' # NoCall
        /\ call'.prog = call.prog
        /\ call'.dir = call.dir
        /\ call'.key = call.key
    BY <1>10, TransportCall
  <2>2. QED
    BY <1>10, <2>1, ThreadFacts, ConstantAssumption
       DEF TransportSet, KeepaliveHasCodec, TypeOK, LinksTypeOK, State, media, relay, links, At,
           Located, Alone, StartKeepalive
<1>11. ASSUME HandleCallTerminate PROVE KeepaliveHasCodec'
  <2>1. /\ call # NoCall
        /\ call' # NoCall
        /\ call'.prog = CS!Apply(call.prog, "terminated", "peer")
    BY <1>11, ThreadFacts, StepCall
       DEF HandleCallTerminate, TypeOK, LinksTypeOK, Located, NeedCall, At, Reasons, Issued
  <2>2. QED
    BY <1>11, <2>1, ThreadFacts, ConstantAssumption
       DEF HandleCallTerminate, KeepaliveHasCodec, TypeOK, LinksTypeOK, State, media, relay, links,
           At, Located, Alone, StartKeepalive, CS!Apply, CS!CanApply,
           CS!Source, CS!Target, CS!States
<1>12. ASSUME NEW r \in Relays, OnRelayConnected(r)
      PROVE  KeepaliveHasCodec'
  <2>1. IF State = "connecting"
        THEN /\ call # NoCall /\ call' # NoCall
             /\ call'.prog = CS!Apply(call.prog, "media_connected", "none")
        ELSE call' = call
    BY <1>12, StepCall DEF OnRelayConnected, Reported, TypeOK, LinksTypeOK, State, Reasons, Issued
  <2>2. /\ (State = "connecting" => State' = "active")
        /\ (State # "connecting" => State' = State)
    BY <1>12, <2>1
       DEF OnRelayConnected, Reported, State, CS!Apply, CS!CanApply, CS!Source,
           CS!Target, CS!States
  <2>3. State # "connecting" => keepalive' = keepalive
    BY <1>12 DEF OnRelayConnected, Reported
  <2>4. State = "connecting" => keepalive' = (keepalive \/ codec)
    BY <1>12 DEF OnRelayConnected, Reported, StartKeepalive
  <2>5. codec' = codec
    BY <1>12 DEF OnRelayConnected, Reported
  <2>6. QED
    BY <2>2, <2>3, <2>4, <2>5 DEF KeepaliveHasCodec
<1>13. ASSUME ~Active PROVE KeepaliveHasCodec'
  BY <1>13, Passive DEF KeepaliveHasCodec, State
<1>14. ASSUME NEW t \in Threads, SetupIncomingMedia(t)
      PROVE  KeepaliveHasCodec'
  BY <1>14, ThreadFacts, ConstantAssumption
     DEF SetupIncomingMedia, KeepaliveHasCodec, TypeOK, LinksTypeOK, State, media, relay, links, At,
         Located, Alone, StartKeepalive
<1>15. ASSUME NEW t \in Threads, CleanupMedia(t)
      PROVE  KeepaliveHasCodec'
  BY <1>15, ThreadFacts, ConstantAssumption
     DEF CleanupMedia, KeepaliveHasCodec, TypeOK, LinksTypeOK, State, media, relay, links, At,
         Located, Alone, StartKeepalive
<1>16. ASSUME ReinitSrtp PROVE KeepaliveHasCodec'
  BY <1>16, ThreadFacts, ConstantAssumption
     DEF ReinitSrtp, KeepaliveHasCodec, TypeOK, LinksTypeOK, State, media, relay, links, At, Located,
         Alone, StartKeepalive
<1>17. QED
  BY <1>1, <1>2, <1>3, <1>4, <1>5, <1>6, <1>7, <1>8, <1>9, <1>10, <1>11, <1>12,
     <1>13, <1>14, <1>15, <1>16
     DEF Active

(* Whoever ends a call goes on to clean it up. *)
LEMMA ReleaseStep ==
  ASSUME TypeOK, TypeOK', Located, KeepaliveHasCodec, ReleaseUnderWay, [Next]_vars
  PROVE  ReleaseUnderWay'
<1>1. ASSUME NEW t \in Threads, StartCall(t)
      PROVE  ReleaseUnderWay'
  <2>1. call' # NoCall /\ call'.prog = CS!NewProgress(call'.dir)
    BY <1>1, StartCallNew
  <2>2. QED
    BY <1>1, <2>1, ThreadFacts, ConstantAssumption
       DEF StartCall, ReleaseUnderWay, TypeOK, LinksTypeOK, State, media, relay, links, At,
           Located, Alone, StartKeepalive, KeepaliveHasCodec, CS!NewProgress
<1>2. ASSUME NEW t \in Threads, NEW a \in BOOLEAN, QueryReturns(t, a)
      PROVE  ReleaseUnderWay'
  <2>1. /\ call # NoCall
        /\ call' # NoCall
        /\ call'.prog = CS!Apply(call.prog, "offer_sent", "none")
    BY <1>2, ThreadFacts, StepCall
       DEF QueryReturns, TypeOK, LinksTypeOK, Located, NeedCall, At, Reasons, Issued
  <2>2. QED
    BY <1>2, <2>1, ThreadFacts, ConstantAssumption
       DEF QueryReturns, ReleaseUnderWay, TypeOK, LinksTypeOK, State, media, relay, links, At,
           Located, Alone, StartKeepalive, KeepaliveHasCodec, CS!Apply,
           CS!CanApply, CS!Source, CS!Target, CS!States
<1>3. ASSUME NEW t \in Threads, AcceptCall(t)
      PROVE  ReleaseUnderWay'
  <2>1. IF State = "incoming_ringing"
        THEN /\ call # NoCall /\ call' # NoCall
             /\ call'.prog = CS!Apply(call.prog, "local_accepted", "none")
        ELSE call' = call
    BY <1>3, StepCall DEF AcceptCall, TypeOK, LinksTypeOK, State, Reasons, Issued
  <2>2. State' = "ended" => State = "ended"
    BY <1>3, <2>1
       DEF AcceptCall, State, CS!Apply, CS!CanApply, CS!Source, CS!Target,
           CS!States
  <2>3. codec' = codec /\ (keepalive' => keepalive \/ codec)
    BY <1>3 DEF AcceptCall, media, StartKeepalive
  <2>4. \A u \in Threads : th[u].at = "cleanup" => th'[u].at = "cleanup"
    BY <1>3, GotoTyped, RestTyped, MoveTyped, ThreadFacts
       DEF AcceptCall, At, TypeOK, LinksTypeOK, Labels
  <2>5. QED
    BY <2>2, <2>3, <2>4 DEF ReleaseUnderWay, At
<1>4. ASSUME NEW t \in Threads, RejectCall(t)
      PROVE  ReleaseUnderWay'
  <2>1. th'[t].at = "cleanup"
    BY <1>4, GotoTyped, ThreadFacts DEF RejectCall, TypeOK, LinksTypeOK, Labels
  <2>2. QED
    BY <2>1, ThreadFacts DEF ReleaseUnderWay, At
<1>5. ASSUME NEW t \in Threads, EndCall(t)
      PROVE  ReleaseUnderWay'
  <2>1. CASE State \notin {"none", "ended"}
    BY <1>5, <2>1, GotoTyped DEF EndCall, TypeOK, LinksTypeOK, Labels, ReleaseUnderWay, At
  <2>2. CASE State \in {"none", "ended"}
    BY <1>5, <2>2, GotoTyped
       DEF EndCall, TypeOK, LinksTypeOK, Labels, ReleaseUnderWay, At, State, media
  <2>3. QED
    BY <2>1, <2>2
<1>6. ASSUME NEW eps \in Listed(TRUE) \cup Listed(FALSE), NEW peer \in Devices \cup
             {NoPeer}, HandleCallAck(eps, peer)
      PROVE  ReleaseUnderWay'
  <2>1. /\ call # NoCall
        /\ call' # NoCall
        /\ call'.prog = call.prog
        /\ call'.dir = call.dir
        /\ call'.key = call.key
    BY <1>6, AckCall
  <2>2. State' = "ended" => State = "ended"
    BY <1>6, <2>1
       DEF HandleCallAck, State, CS!Apply, CS!CanApply, CS!Source, CS!Target,
           CS!States
  <2>3. codec' = codec /\ (keepalive' => keepalive \/ codec)
    BY <1>6 DEF HandleCallAck, media, StartKeepalive
  <2>4. \A u \in Threads : th[u].at = "cleanup" => th'[u].at = "cleanup"
    BY <1>6, ThreadFacts DEF HandleCallAck, At, TypeOK, LinksTypeOK, Move, Goto, Rest
  <2>5. QED
    BY <2>2, <2>3, <2>4 DEF ReleaseUnderWay, At
<1>7. ASSUME NEW key \in BOOLEAN, NEW relays \in OfferRelays, HandleCallOffer(key,
             relays)
      PROVE  ReleaseUnderWay'
  <2>1. call' # NoCall /\ call'.prog = CS!NewProgress(call'.dir)
    BY <1>7, OfferCallNew
  <2>2. QED
    BY <1>7, <2>1, ThreadFacts, ConstantAssumption
       DEF HandleCallOffer, ReleaseUnderWay, TypeOK, LinksTypeOK, State, media, relay, links, At,
           Located, Alone, StartKeepalive, KeepaliveHasCodec, CS!NewProgress
<1>8. ASSUME HandleCallAccept PROVE ReleaseUnderWay'
  <2>1. /\ call # NoCall
        /\ call' # NoCall
        /\ call'.prog = CS!Apply(call.prog, "remote_accepted", "none")
    BY <1>8, ThreadFacts, StepCall
       DEF HandleCallAccept, TypeOK, LinksTypeOK, Located, NeedCall, At, Reasons, Issued
  <2>2. State' = "ended" => State = "ended"
    BY <1>8, <2>1
       DEF HandleCallAccept, State, CS!Apply, CS!CanApply, CS!Source,
           CS!Target, CS!States
  <2>3. codec' = codec /\ (keepalive' => keepalive \/ codec)
    BY <1>8 DEF HandleCallAccept, media, StartKeepalive
  <2>4. \A u \in Threads : th[u].at = "cleanup" => th'[u].at = "cleanup"
    BY <1>8, ThreadFacts DEF HandleCallAccept, At, TypeOK, LinksTypeOK, Move, Goto, Rest
  <2>5. QED
    BY <2>2, <2>3, <2>4 DEF ReleaseUnderWay, At
<1>9. ASSUME ConnectAccepted PROVE ReleaseUnderWay'
  <2>1. /\ call # NoCall
        /\ call' # NoCall
        /\ call'.prog = CS!Apply(call.prog, "media_connected", "none")
    BY <1>9, ThreadFacts, StepCall
       DEF ConnectAccepted, TypeOK, LinksTypeOK, Located, NeedCall, At, Reasons, Issued
  <2>2. State' = "ended" => State = "ended"
    BY <1>9, <2>1
       DEF ConnectAccepted, State, CS!Apply, CS!CanApply, CS!Source, CS!Target,
           CS!States
  <2>3. codec' = codec /\ (keepalive' => keepalive \/ codec)
    BY <1>9 DEF ConnectAccepted, media, StartKeepalive
  <2>4. \A u \in Threads : th[u].at = "cleanup" => th'[u].at = "cleanup"
    BY <1>9, GotoTyped, RestTyped, MoveTyped, ThreadFacts
       DEF ConnectAccepted, At, TypeOK, LinksTypeOK, Labels
  <2>5. QED
    BY <2>2, <2>3, <2>4 DEF ReleaseUnderWay, At
<1>10. ASSUME TransportSet PROVE ReleaseUnderWay'
  <2>1. /\ call # NoCall
        /\ call' # NoCall
        /\ call'.prog = call.prog
        /\ call'.dir = call.dir
        /\ call'.key = call.key
    BY <1>10, TransportCall
  <2>2. State' = "ended" => State = "ended"
    BY <1>10, <2>1
       DEF TransportSet, State, CS!Apply, CS!CanApply, CS!Source, CS!Target,
           CS!States
  <2>3. codec' = codec /\ (keepalive' => keepalive \/ codec)
    BY <1>10 DEF TransportSet, media, StartKeepalive
  <2>4. \A u \in Threads : th[u].at = "cleanup" => th'[u].at = "cleanup"
    BY <1>10, GotoTyped, RestTyped, MoveTyped, ThreadFacts
       DEF TransportSet, At, TypeOK, LinksTypeOK, Labels
  <2>5. QED
    BY <2>2, <2>3, <2>4 DEF ReleaseUnderWay, At
<1>11. ASSUME HandleCallTerminate PROVE ReleaseUnderWay'
  <2>1. th'["events"].at = "cleanup"
    BY <1>11, GotoTyped, ThreadFacts DEF HandleCallTerminate, TypeOK, LinksTypeOK, Labels
  <2>2. QED
    BY <2>1, ThreadFacts DEF ReleaseUnderWay, At
<1>12. ASSUME NEW r \in Relays, OnRelayConnected(r)
      PROVE  ReleaseUnderWay'
  <2>1. IF State = "connecting"
        THEN /\ call # NoCall /\ call' # NoCall
             /\ call'.prog = CS!Apply(call.prog, "media_connected", "none")
        ELSE call' = call
    BY <1>12, StepCall DEF OnRelayConnected, Reported, TypeOK, LinksTypeOK, State, Reasons, Issued
  <2>2. QED
    BY <1>12, <2>1, ThreadFacts, ConstantAssumption
       DEF OnRelayConnected, Reported, ReleaseUnderWay, TypeOK, LinksTypeOK, State, media, relay, links, At,
           Located, Alone, StartKeepalive, KeepaliveHasCodec, CS!Apply,
           CS!CanApply, CS!Source, CS!Target, CS!States
<1> USE ThreadFacts, ConstantAssumption
      DEF ReleaseUnderWay, TypeOK, LinksTypeOK, State, media, relay, links, At, Located, Alone,
          StartKeepalive, KeepaliveHasCodec, Goto, Rest, Move, Resting, Thread
<1>13. ASSUME BeginOffer PROVE ReleaseUnderWay'
  BY <1>13 DEF BeginOffer
<1>14. ASSUME NEW event \in {"transport", "terminate"}, BeginEvent(event)
      PROVE  ReleaseUnderWay'
  BY <1>14 DEF BeginEvent
<1>15. ASSUME NEW dev \in Devices, NEW ownKey \in BOOLEAN, BeginAccepted(dev, ownKey)
      PROVE  ReleaseUnderWay'
  BY <1>15 DEF BeginAccepted
<1>16. ASSUME NEW t \in Clients, BeginStart(t)
      PROVE  ReleaseUnderWay'
  BY <1>16 DEF BeginStart
<1>17. ASSUME NEW t \in Clients, BeginTeardown(t)
      PROVE  ReleaseUnderWay'
  BY <1>17 DEF BeginTeardown
<1>18. ASSUME NEW t \in Clients, NEW request \in {"accept", "reject", "end"},
              BeginRequest(t, request)
      PROVE  ReleaseUnderWay'
  BY <1>18 DEF BeginRequest
<1>19. ASSUME NEW t \in Threads, QueryFails(t)
      PROVE  ReleaseUnderWay'
  BY <1>19 DEF QueryFails
<1>20. ASSUME NEW t \in Threads, SetupIncomingMedia(t)
      PROVE  ReleaseUnderWay'
  BY <1>20 DEF SetupIncomingMedia
<1>21. ASSUME NEW t \in Threads, DialCurrent(t)
      PROVE  ReleaseUnderWay'
  BY <1>21 DEF DialCurrent
<1>22. ASSUME NEW t \in Threads, CleanupMedia(t)
      PROVE  ReleaseUnderWay'
  BY <1>22 DEF CleanupMedia
<1>23. ASSUME NEW t \in Threads, CleanupRelays(t)
      PROVE  ReleaseUnderWay'
  BY <1>23 DEF CleanupRelays, Emptied
<1>24. ASSUME NEW t \in Threads, Unregister(t)
      PROVE  ReleaseUnderWay'
  BY <1>24 DEF Unregister
<1>25. ASSUME NEW t \in Threads, Dial(t)
      PROVE  ReleaseUnderWay'
  BY <1>25 DEF Dial
<1>26. ASSUME NEW t \in Threads, Configured(t)
      PROVE  ReleaseUnderWay'
  BY <1>26 DEF Configured
<1>27. ASSUME NEW t \in Threads, NEW r \in Relays, Lookup(t, r)
      PROVE  ReleaseUnderWay'
  BY <1>27 DEF Lookup
<1>28. ASSUME NEW t \in Threads, NEW r \in Relays, Connect(t, r)
      PROVE  ReleaseUnderWay'
  BY <1>28 DEF Connect, Inserted
<1>29. ASSUME IgnoreAck PROVE ReleaseUnderWay'
  BY <1>29 DEF IgnoreAck
<1>30. ASSUME Announce PROVE ReleaseUnderWay'
  BY <1>30 DEF Announce
<1>31. ASSUME EmitIncoming PROVE ReleaseUnderWay'
  BY <1>31 DEF EmitIncoming
<1>32. ASSUME ReinitSrtp PROVE ReleaseUnderWay'
  BY <1>32 DEF ReinitSrtp
<1>33. ASSUME NEW eps \in Listed(FALSE) \cup {{}}, HandleCallTransport(eps)
      PROVE  ReleaseUnderWay'
  BY <1>33 DEF HandleCallTransport
<1>34. ASSUME NEW r \in Relays, RelayOpens(r)
      PROVE  ReleaseUnderWay'
  BY <1>34 DEF RelayOpens, Opens
<1>35. ASSUME NEW r \in Relays, RelayFails(r)
      PROVE  ReleaseUnderWay'
  BY <1>35 DEF RelayFails, Lost
<1>36. ASSUME NEW r \in Relays, StrayOpens(r)
      PROVE  ReleaseUnderWay'
  BY <1>36 DEF StrayOpens, StrayOpened
<1>37. ASSUME NEW r \in Relays, StrayGone(r)
      PROVE  ReleaseUnderWay'
  BY <1>37 DEF StrayGone, StrayLost
<1>38. ASSUME UNCHANGED vars PROVE ReleaseUnderWay'
  BY <1>38 DEF vars, links
<1> HIDE DEF ReleaseUnderWay, TypeOK, LinksTypeOK, State, media, relay, links, At, Located, Alone,
             StartKeepalive, KeepaliveHasCodec, Goto, Rest, Move, Resting, Thread
<1>39. QED
  BY <1>1, <1>2, <1>3, <1>4, <1>5, <1>6, <1>7, <1>8, <1>9, <1>10, <1>11, <1>12,
     <1>13, <1>14, <1>15, <1>16, <1>17, <1>18, <1>19, <1>20, <1>21, <1>22, <1>23,
     <1>24, <1>25, <1>26, <1>27, <1>28, <1>29, <1>30, <1>31, <1>32, <1>33, <1>34,
     <1>35, <1>36, <1>37, <1>38
     DEF Next, Begin, Continue, ContinueAck, ContinueEvent, RelayStep

(* Keys come before relays, relays before a call is active. *)
LEMMA PathsStep ==
  ASSUME TypeOK, TypeOK', Located, Progression, Paths, [Next]_vars
  PROVE  Paths'
<1>1. ASSUME BeginOffer PROVE Paths'
  <2>1. /\ \A u \in Threads : Dialing(u)' => Dialing(u)
        /\ \A u \in Threads : th'[u].at \in {"transport_set", "accept_media"} =>
                    th'[u] = th[u]
    BY <1>1, CalmGoto, ThreadFacts DEF BeginOffer, TypeOK, LinksTypeOK, Labels
  <2>2. /\ Keyed => Keyed'
        /\ IF call = NoCall THEN call' = NoCall ELSE call' # NoCall /\ call'.dir = call.dir
        /\ State' \in {State, "ringing", "ended"}
        /\ UNCHANGED relay
    BY <1>1 DEF BeginOffer, Keyed, State, media, relay, links
  <2>3. QED
    BY <2>1, <2>2, CalmPaths
<1>2. ASSUME NEW event \in {"transport", "terminate"}, BeginEvent(event)
      PROVE  Paths'
  <2>1. /\ \A u \in Threads : Dialing(u)' => Dialing(u)
        /\ \A u \in Threads : th'[u].at \in {"transport_set", "accept_media"} =>
                    th'[u] = th[u]
    BY <1>2, CalmGoto, ThreadFacts DEF BeginEvent, TypeOK, LinksTypeOK, Labels
  <2>2. /\ Keyed => Keyed'
        /\ IF call = NoCall THEN call' = NoCall ELSE call' # NoCall /\ call'.dir = call.dir
        /\ State' \in {State, "ringing", "ended"}
        /\ UNCHANGED relay
    BY <1>2 DEF BeginEvent, Keyed, State, media, relay, links
  <2>3. QED
    BY <2>1, <2>2, CalmPaths
<1>3. ASSUME NEW dev \in Devices, NEW ownKey \in BOOLEAN, BeginAccepted(dev, ownKey)
      PROVE  Paths'
  <2>1. th' = [th EXCEPT !["events"] =
             [@ EXCEPT !.at = IF ownKey THEN "rekey" ELSE "accepted", !.dev = dev]]
    BY <1>3 DEF BeginAccepted, Move
  <2>2. /\ \A u \in Threads : Dialing(u)' => Dialing(u)
        /\ \A u \in Threads : th'[u].at \in {"transport_set", "accept_media"} =>
                    th'[u] = th[u]
    BY <2>1, ThreadFacts DEF TypeOK, LinksTypeOK, Thread, Dialing
  <2>3. /\ Keyed => Keyed'
        /\ IF call = NoCall THEN call' = NoCall ELSE call' # NoCall /\ call'.dir = call.dir
        /\ State' \in {State, "ringing", "ended"}
        /\ UNCHANGED relay
    BY <1>3 DEF BeginAccepted, Keyed, State, media, relay, links
  <2>4. QED
    BY <2>2, <2>3, CalmPaths
<1>4. ASSUME NEW t \in Clients, BeginStart(t)
      PROVE  Paths'
  <2>1. /\ \A u \in Threads : Dialing(u)' => Dialing(u)
        /\ \A u \in Threads : th'[u].at \in {"transport_set", "accept_media"} =>
                    th'[u] = th[u]
    BY <1>4, CalmGoto, ThreadFacts DEF BeginStart, TypeOK, LinksTypeOK, Labels
  <2>2. /\ Keyed => Keyed'
        /\ IF call = NoCall THEN call' = NoCall ELSE call' # NoCall /\ call'.dir = call.dir
        /\ State' \in {State, "ringing", "ended"}
        /\ UNCHANGED relay
    BY <1>4 DEF BeginStart, Keyed, State, media, relay, links
  <2>3. QED
    BY <2>1, <2>2, CalmPaths
<1>5. ASSUME NEW t \in Clients, BeginTeardown(t)
      PROVE  Paths'
  <2>1. /\ \A u \in Threads : Dialing(u)' => Dialing(u)
        /\ \A u \in Threads : th'[u].at \in {"transport_set", "accept_media"} =>
                    th'[u] = th[u]
    BY <1>5, CalmGoto, ThreadFacts DEF BeginTeardown, TypeOK, LinksTypeOK, Labels
  <2>2. /\ Keyed => Keyed'
        /\ IF call = NoCall THEN call' = NoCall ELSE call' # NoCall /\ call'.dir = call.dir
        /\ State' \in {State, "ringing", "ended"}
        /\ UNCHANGED relay
    BY <1>5 DEF BeginTeardown, Keyed, State, media, relay, links
  <2>3. QED
    BY <2>1, <2>2, CalmPaths
<1>6. ASSUME NEW t \in Clients, NEW request \in {"accept", "reject", "end"},
             BeginRequest(t, request)
      PROVE  Paths'
  <2>1. /\ \A u \in Threads : Dialing(u)' => Dialing(u)
        /\ \A u \in Threads : th'[u].at \in {"transport_set", "accept_media"} =>
                    th'[u] = th[u]
    BY <1>6, CalmGoto, ThreadFacts DEF BeginRequest, TypeOK, LinksTypeOK, Labels
  <2>2. /\ Keyed => Keyed'
        /\ IF call = NoCall THEN call' = NoCall ELSE call' # NoCall /\ call'.dir = call.dir
        /\ State' \in {State, "ringing", "ended"}
        /\ UNCHANGED relay
    BY <1>6 DEF BeginRequest, Keyed, State, media, relay, links
  <2>3. QED
    BY <2>1, <2>2, CalmPaths
<1>7. ASSUME NEW t \in Threads, StartCall(t)
      PROVE  Paths'
  <2>1. /\ call = NoCall /\ call' # NoCall /\ call'.dir = "outgoing"
        /\ call'.prog = CS!NewProgress(call'.dir)
    BY <1>7, StartCallNew
  <2>2. /\ \A u \in Threads : Dialing(u)' => Dialing(u)
        /\ \A u \in Threads : th'[u].at \in {"transport_set", "accept_media"} =>
                    th'[u] = th[u]
    BY <1>7, CalmGoto, ThreadFacts DEF StartCall, TypeOK, LinksTypeOK, Labels
  <2>3. State' = "initiating"
    BY <2>1 DEF State, CS!NewProgress
  <2>4. KeysFirst'
    BY <2>1, <2>3 DEF KeysFirst
  <2>5. \A u \in Threads : th'[u].at = "transport_set" => Usable(th'[u].eps) = {}
    BY <2>2 DEF Paths
  <2>6. QED
    BY <2>1, <2>4, <2>5 DEF Paths
<1>8. ASSUME NEW t \in Threads, QueryFails(t)
      PROVE  Paths'
  <2>1. /\ \A u \in Threads : Dialing(u)' => Dialing(u)
        /\ \A u \in Threads : th'[u].at \in {"transport_set", "accept_media"} =>
                    th'[u] = th[u]
    BY <1>8, CalmGoto, ThreadFacts DEF QueryFails, TypeOK, LinksTypeOK, Labels
  <2>2. /\ Keyed => Keyed'
        /\ IF call = NoCall THEN call' = NoCall ELSE call' # NoCall /\ call'.dir = call.dir
        /\ State' \in {State, "ringing", "ended"}
        /\ UNCHANGED relay
    BY <1>8 DEF QueryFails, Keyed, State, media, relay, links
  <2>3. QED
    BY <2>1, <2>2, CalmPaths
<1>9. ASSUME NEW t \in Threads, NEW a \in BOOLEAN, QueryReturns(t, a)
      PROVE  Paths'
  <2>1. /\ call # NoCall
        /\ call' # NoCall
        /\ call'.dir = call.dir
        /\ call'.key = call.key
        /\ call'.prog = CS!Apply(call.prog, "offer_sent", "none")
    BY <1>9, ThreadFacts, StepCall
       DEF QueryReturns, TypeOK, LinksTypeOK, Located, NeedCall, At, Reasons, Issued
  <2>2. t # "ack"
    BY <1>9 DEF QueryReturns, At, Located
  <2>3. [th["ack"] EXCEPT !.at = "ack"].at = "ack"
    BY ThreadFacts DEF TypeOK, LinksTypeOK, Thread
  <2>4. th' = [th EXCEPT ![t] = Resting, !["ack"] = IF a THEN [th["ack"] EXCEPT !.at =
          "ack"] ELSE th["ack"]]
    BY <1>9, <2>2 DEF QueryReturns
  <2>5. /\ th'[t] = Resting
        /\ th'["ack"] = th["ack"] \/ th'["ack"].at = "ack"
        /\ \A u \in Threads \ {t, "ack"} : th'[u] = th[u]
    BY <2>2, <2>3, <2>4, ThreadFacts DEF TypeOK, LinksTypeOK
  <2>6. /\ \A u \in Threads : Dialing(u)' => Dialing(u)
        /\ \A u \in Threads : th'[u].at \in {"transport_set", "accept_media"} =>
                    th'[u] = th[u]
    BY <2>5, ThreadFacts DEF Dialing, Resting
  <2>7. /\ Keyed => Keyed'
        /\ UNCHANGED relay
    BY <1>9, <2>1 DEF QueryReturns, Keyed, media, relay, links
  <2>8. /\ IF call = NoCall THEN call' = NoCall ELSE call' # NoCall /\ call'.dir =
          call.dir
        /\ State' \in {State, "ringing", "ended"}
    BY <1>9, <2>1
       DEF QueryReturns, State, CS!Apply, CS!CanApply, CS!Source, CS!Target,
           CS!States
  <2>9. QED
    BY <2>6, <2>7, <2>8, CalmPaths
<1>10. ASSUME NEW t \in Threads, AcceptCall(t)
      PROVE  Paths'
  <2>1. ASSUME State = "incoming_ringing" PROVE Paths'
    <3>1. /\ call # NoCall /\ call' # NoCall /\ call'.dir = call.dir
          /\ call'.prog = CS!Apply(call.prog, "local_accepted", "none")
      BY <1>10, <2>1, StepCall DEF AcceptCall, TypeOK, LinksTypeOK, State, Reasons, Issued
    <3>2. Quiet /\ call.dir = "incoming"
      BY <2>1, <3>1
         DEF Paths, KeysFirst, Progression, CallShape, TypeOK, LinksTypeOK, Call,
             CS!Directions
    <3>3. /\ th'[t].at \in {"accept_media", "idle"}
          /\ \A u \in Threads \ {t} : th'[u] = th[u]
      BY <1>10, <2>1, GotoTyped, RestTyped DEF AcceptCall, TypeOK, LinksTypeOK, Labels
    <3>4. Quiet' /\ State' = "connecting"
      BY <1>10, <2>1, <3>1, <3>2, <3>3
         DEF AcceptCall, Quiet, Dialing, relay, links, State, CS!Apply, CS!CanApply,
             CS!Source, CS!Target
    <3>5. KeysFirst'
      BY <3>1, <3>2, <3>4 DEF KeysFirst
    <3>6. QED
      BY <3>1, <3>3, <3>5 DEF Paths
  <2>2. ASSUME State # "incoming_ringing" PROVE Paths'
    <3>1. Rest(t) /\ call' = call /\ UNCHANGED <<rtp, srtp>> /\ UNCHANGED relay
      BY <1>10, <2>2 DEF AcceptCall, media
    <3>2. /\ \A u \in Threads : Dialing(u)' => Dialing(u)
          /\ \A u \in Threads : th'[u].at \in {"transport_set", "accept_media"} =>
                      th'[u] = th[u]
      BY <3>1, CalmGoto DEF TypeOK, LinksTypeOK, Labels
    <3>3. Keyed' = Keyed /\ State' = State
      BY <3>1 DEF Keyed, State
    <3>4. QED
      BY <3>1, <3>2, <3>3, CalmPaths
  <2>3. QED
    BY <2>1, <2>2
<1>11. ASSUME NEW t \in Threads, SetupIncomingMedia(t)
      PROVE  Paths'
  <2>1. call \in Call /\ call # NoCall /\ State # "incoming_ringing"
    BY <1>11 DEF SetupIncomingMedia, Located, NeedCall, At, TypeOK, LinksTypeOK, Paths, KeysFirst
  <2>2. Keyed'
    BY <1>11, <2>1, InitSrtpTyped DEF SetupIncomingMedia, Keyed, TypeOK, LinksTypeOK
  <2>3. call' = call /\ State' = State
    BY <1>11 DEF SetupIncomingMedia, State
  <2>4. /\ th'[t].at = "dial_current"
        /\ \A u \in Threads \ {t} : th'[u] = th[u]
    BY <1>11, GotoTyped DEF SetupIncomingMedia, TypeOK, LinksTypeOK, Labels
  <2>5. KeysFirst'
    BY <2>1, <2>2, <2>3, <2>4 DEF KeysFirst
  <2>6. QED
    BY <2>1, <2>3, <2>4, <2>5 DEF Paths
<1>12. ASSUME NEW t \in Threads, DialCurrent(t)
      PROVE  Paths'
  <2>1. th'[t].at = "dial" /\ \A u \in Threads \ {t} : th'[u] = th[u]
    BY <1>12 DEF DialCurrent, Move, TypeOK, LinksTypeOK, Thread
  <2>2. ~Quiet
    BY <1>12 DEF DialCurrent, Quiet, Dialing, At
  <2>3. call' = call /\ UNCHANGED <<rtp, srtp>>
    BY <1>12 DEF DialCurrent, media
  <2>4. QED
    BY <2>1, <2>2, <2>3, BusyPaths
<1>13. ASSUME NEW t \in Threads, RejectCall(t)
      PROVE  Paths'
  <2>1. /\ call # NoCall
        /\ call' # NoCall
        /\ call'.dir = call.dir
        /\ call'.key = call.key
        /\ call'.prog = CS!Apply(call.prog, "local_rejected", "declined")
    BY <1>13, ThreadFacts, StepCall
       DEF RejectCall, TypeOK, LinksTypeOK, Located, NeedCall, At, Reasons, Issued
  <2>2. /\ \A u \in Threads : Dialing(u)' => Dialing(u)
        /\ \A u \in Threads : th'[u].at \in {"transport_set", "accept_media"} =>
                    th'[u] = th[u]
    BY <1>13, CalmGoto, ThreadFacts DEF RejectCall, TypeOK, LinksTypeOK, Labels
  <2>3. /\ Keyed => Keyed'
        /\ UNCHANGED relay
    BY <1>13, <2>1 DEF RejectCall, Keyed, media, relay, links
  <2>4. /\ IF call = NoCall THEN call' = NoCall ELSE call' # NoCall /\ call'.dir =
          call.dir
        /\ State' \in {State, "ringing", "ended"}
    BY <1>13, <2>1
       DEF RejectCall, State, CS!Apply, CS!CanApply, CS!Source, CS!Target,
           CS!States
  <2>5. QED
    BY <2>2, <2>3, <2>4, CalmPaths
<1>14. ASSUME NEW t \in Threads, EndCall(t)
      PROVE  Paths'
  <2>1. IF State \notin {"none", "ended"}
        THEN /\ call # NoCall /\ call' # NoCall /\ call'.dir = call.dir /\ call'.key = call.key
             /\ call'.prog = CS!Apply(call.prog, "terminated", "user_ended")
        ELSE call' = call
    BY <1>14, StepCall DEF EndCall, TypeOK, LinksTypeOK, State, Reasons, Issued
  <2>2. /\ \A u \in Threads : Dialing(u)' => Dialing(u)
        /\ \A u \in Threads : th'[u].at \in {"transport_set", "accept_media"} =>
                    th'[u] = th[u]
    BY <1>14, CalmGoto DEF EndCall, TypeOK, LinksTypeOK, Labels
  <2>3. /\ Keyed => Keyed'
        /\ UNCHANGED relay
    BY <1>14, <2>1 DEF EndCall, Keyed, media, relay, links
  <2>4. /\ IF call = NoCall THEN call' = NoCall ELSE call' # NoCall /\ call'.dir =
          call.dir
        /\ State' \in {State, "ringing", "ended"}
    BY <1>14, <2>1
       DEF EndCall, State, CS!Apply, CS!CanApply, CS!Source, CS!Target,
           CS!States
  <2>5. QED
    BY <2>2, <2>3, <2>4, CalmPaths
<1>15. ASSUME NEW t \in Threads, CleanupMedia(t)
      PROVE  Paths'
  <2>1. /\ \A u \in Threads : Dialing(u)' => Dialing(u)
        /\ \A u \in Threads : th'[u].at \in {"transport_set", "accept_media"} =>
                    th'[u] = th[u]
    BY <1>15, CalmGoto, ThreadFacts DEF CleanupMedia, TypeOK, LinksTypeOK, Labels
  <2>2. /\ Keyed => Keyed'
        /\ IF call = NoCall THEN call' = NoCall ELSE call' # NoCall /\ call'.dir = call.dir
        /\ State' \in {State, "ringing", "ended"}
        /\ UNCHANGED relay
    BY <1>15 DEF CleanupMedia, Keyed, State, media, relay, links
  <2>3. QED
    BY <2>1, <2>2, CalmPaths
<1>16. ASSUME NEW t \in Threads, CleanupRelays(t)
      PROVE  Paths'
  <2>1. /\ \A u \in Threads : Dialing(u)' => Dialing(u)
        /\ \A u \in Threads : th'[u].at \in {"transport_set", "accept_media"} =>
                    th'[u] = th[u]
    BY <1>16, CalmGoto, ThreadFacts DEF CleanupRelays, Emptied, TypeOK, LinksTypeOK, Labels
  <2>2. Quiet => Quiet'
    BY <1>16, <2>1 DEF CleanupRelays, Emptied, Quiet
  <2>3. call' = call /\ State' = State /\ Keyed' = Keyed
    BY <1>16 DEF CleanupRelays, Emptied, State, Keyed, media
  <2>4. KeysFirst => KeysFirst'
    BY <2>1, <2>2, <2>3 DEF KeysFirst
  <2>5. QED
    BY <2>1, <2>2, <2>3, <2>4 DEF Paths
<1>17. ASSUME NEW t \in Threads, Unregister(t)
      PROVE  Paths'
  <2>1. /\ \A u \in Threads : Dialing(u)' => Dialing(u)
        /\ \A u \in Threads : th'[u].at \in {"transport_set", "accept_media"} =>
                    th'[u] = th[u]
    BY <1>17, CalmGoto, ThreadFacts DEF Unregister, TypeOK, LinksTypeOK, Labels
  <2>2. /\ Keyed => Keyed'
        /\ IF call = NoCall THEN call' = NoCall ELSE call' # NoCall /\ call'.dir = call.dir
        /\ State' \in {State, "ringing", "ended"}
        /\ UNCHANGED relay
    BY <1>17 DEF Unregister, Keyed, State, media, relay, links
  <2>3. QED
    BY <2>1, <2>2, CalmPaths
<1>18. ASSUME NEW t \in Threads, Dial(t)
      PROVE  Paths'
  <2>1. call' = call /\ UNCHANGED <<rtp, srtp>> /\ UNCHANGED relay
    BY <1>18 DEF Dial, media
  <2>2. ASSUME Usable(th[t].eps) = {} PROVE Paths'
    <3>1. Rest(t)
      BY <1>18, <2>2 DEF Dial
    <3>2. /\ \A u \in Threads : Dialing(u)' => Dialing(u)
          /\ \A u \in Threads : th'[u].at \in {"transport_set", "accept_media"} =>
                      th'[u] = th[u]
      BY <3>1, CalmGoto DEF TypeOK, LinksTypeOK, Labels
    <3>3. Keyed' = Keyed /\ State' = State
      BY <2>1 DEF Keyed, State
    <3>4. QED
      BY <2>1, <3>2, <3>3, CalmPaths
  <2>3. ASSUME Usable(th[t].eps) # {} PROVE Paths'
    <3>1. ~Quiet
      BY <1>18, <2>3 DEF Dial, Quiet, Dialing, At
    <3>2. [th[t] EXCEPT !.at = "configure", !.check = Usable(th[t].eps)] \in Thread
      BY UsableTyped, SMTT(30), ZenonT(60) DEF TypeOK, LinksTypeOK, Thread, Labels
    <3>3. [th[t] EXCEPT !.at = "configure", !.check = Usable(th[t].eps)].at =
            "configure"
      BY DEF TypeOK, LinksTypeOK, Thread
    <3>4. /\ th'[t].at \in {"idle", "configure"}
          /\ \A u \in Threads \ {t} : th'[u] = th[u]
      BY <1>18, <3>2, <3>3, MoveTyped, RestTyped DEF Dial, TypeOK, LinksTypeOK
    <3>5. QED
      BY <2>1, <3>1, <3>4, BusyPaths
  <2>4. QED
    BY <2>2, <2>3
<1>19. ASSUME NEW t \in Threads, Configured(t)
      PROVE  Paths'
  <2>1. /\ \A u \in Threads : Dialing(u)' => Dialing(u)
        /\ \A u \in Threads : th'[u].at \in {"transport_set", "accept_media"} =>
                    th'[u] = th[u]
    BY <1>19, CalmGoto, ThreadFacts DEF Configured, TypeOK, LinksTypeOK, Labels
  <2>2. /\ Keyed => Keyed'
        /\ IF call = NoCall THEN call' = NoCall ELSE call' # NoCall /\ call'.dir = call.dir
        /\ State' \in {State, "ringing", "ended"}
        /\ UNCHANGED relay
    BY <1>19 DEF Configured, Keyed, State, media, relay, links
  <2>3. QED
    BY <2>1, <2>2, CalmPaths
<1>20. ASSUME NEW t \in Threads, NEW r \in Relays, Lookup(t, r)
      PROVE  Paths'
  <2>1. th'[t].at = "configure" /\ \A u \in Threads \ {t} : th'[u] = th[u]
    BY <1>20 DEF Lookup, Move, TypeOK, LinksTypeOK, Thread, At
  <2>2. ~Quiet
    BY <1>20 DEF Lookup, Quiet, Dialing, At
  <2>3. call' = call /\ UNCHANGED <<rtp, srtp>>
    BY <1>20 DEF Lookup, media
  <2>4. QED
    BY <2>1, <2>2, <2>3, BusyPaths
<1>21. ASSUME NEW t \in Threads, NEW r \in Relays, Connect(t, r)
      PROVE  Paths'
  <2>1. th'[t].at = "configure" /\ \A u \in Threads \ {t} : th'[u] = th[u]
    BY <1>21 DEF Connect, Inserted, Move, TypeOK, LinksTypeOK, Thread, At
  <2>2. ~Quiet
    BY <1>21 DEF Connect, Inserted, Quiet, Dialing, At
  <2>3. call' = call /\ UNCHANGED <<rtp, srtp>>
    BY <1>21 DEF Connect, Inserted, media
  <2>4. QED
    BY <2>1, <2>2, <2>3, BusyPaths
<1>22. ASSUME IgnoreAck PROVE Paths'
  <2>1. /\ \A u \in Threads : Dialing(u)' => Dialing(u)
        /\ \A u \in Threads : th'[u].at \in {"transport_set", "accept_media"} =>
                    th'[u] = th[u]
    BY <1>22, CalmGoto, ThreadFacts DEF IgnoreAck, TypeOK, LinksTypeOK, Labels
  <2>2. /\ Keyed => Keyed'
        /\ IF call = NoCall THEN call' = NoCall ELSE call' # NoCall /\ call'.dir = call.dir
        /\ State' \in {State, "ringing", "ended"}
        /\ UNCHANGED relay
    BY <1>22 DEF IgnoreAck, Keyed, State, media, relay, links
  <2>3. QED
    BY <2>1, <2>2, CalmPaths
<1>23. ASSUME NEW eps \in Listed(TRUE) \cup Listed(FALSE), NEW peer \in Devices \cup
              {NoPeer}, HandleCallAck(eps, peer)
      PROVE  Paths'
  <2>1. /\ call # NoCall /\ call' # NoCall /\ call' \in Call
        /\ call'.dir = call.dir /\ call'.key = call.key /\ call'.prog = call.prog
    BY <1>23, AckCall DEF TypeOK, LinksTypeOK
  <2>2. call.dir = "outgoing" /\ State' = State
    BY <1>23, <2>1, ThreadFacts
       DEF HandleCallAck, At, Progression, OutgoingHandlers, OutgoingOnly,
           State
  <2>3. Keyed => Keyed'
    BY <1>23, <2>1, InitSrtpTyped DEF HandleCallAck, Keyed, TypeOK, LinksTypeOK
  <2>4. /\ th'["ack"].at = "dial"
        /\ \A u \in Threads \ {"ack"} : th'[u] = th[u]
    BY <1>23, ThreadFacts DEF HandleCallAck, Move, TypeOK, LinksTypeOK, Thread
  <2>5. KeysFirst'
    BY <2>1, <2>2, <2>3, <2>4 DEF Paths, KeysFirst, Progression, CallShape
  <2>6. QED
    BY <2>1, <2>4, <2>5 DEF Paths
<1>24. ASSUME NEW key \in BOOLEAN, NEW relays \in OfferRelays, HandleCallOffer(key,
              relays)
      PROVE  Paths'
  <2>1. /\ call = NoCall /\ call' # NoCall /\ call'.dir = "incoming" /\ Alone("events")
        /\ call'.prog = CS!NewProgress(call'.dir)
    BY <1>24, OfferCallNew
  <2>2. /\ \A u \in Threads : Dialing(u)' => Dialing(u)
        /\ \A u \in Threads : th'[u].at \in {"transport_set", "accept_media"} =>
                    th'[u] = th[u]
    BY <1>24, CalmGoto, ThreadFacts DEF HandleCallOffer, TypeOK, LinksTypeOK, Labels
  <2>3. State' = "incoming_ringing"
    BY <2>1 DEF State, CS!NewProgress
  <2>4. Quiet'
    BY <1>24, <2>1, <2>2 DEF HandleCallOffer, Paths, Quiet, relay, links
  <2>5. \A u \in Threads : th'[u].at # "accept_media"
    BY <1>24, <2>1, <2>2, GotoTyped, ThreadFacts
       DEF Alone, HandleCallOffer, TypeOK, LinksTypeOK, Labels
  <2>6. KeysFirst'
    BY <2>1, <2>3, <2>4, <2>5 DEF KeysFirst
  <2>7. \A u \in Threads : th'[u].at = "transport_set" => Usable(th'[u].eps) = {}
    BY <2>2 DEF Paths
  <2>8. QED
    BY <2>1, <2>6, <2>7 DEF Paths
<1>25. ASSUME Announce PROVE Paths'
  <2>1. /\ \A u \in Threads : Dialing(u)' => Dialing(u)
        /\ \A u \in Threads : th'[u].at \in {"transport_set", "accept_media"} =>
                    th'[u] = th[u]
    BY <1>25, CalmGoto, ThreadFacts DEF Announce, TypeOK, LinksTypeOK, Labels
  <2>2. /\ Keyed => Keyed'
        /\ IF call = NoCall THEN call' = NoCall ELSE call' # NoCall /\ call'.dir = call.dir
        /\ State' \in {State, "ringing", "ended"}
        /\ UNCHANGED relay
    BY <1>25 DEF Announce, Keyed, State, media, relay, links
  <2>3. QED
    BY <2>1, <2>2, CalmPaths
<1>26. ASSUME EmitIncoming PROVE Paths'
  <2>1. /\ \A u \in Threads : Dialing(u)' => Dialing(u)
        /\ \A u \in Threads : th'[u].at \in {"transport_set", "accept_media"} =>
                    th'[u] = th[u]
    BY <1>26, CalmGoto, ThreadFacts DEF EmitIncoming, TypeOK, LinksTypeOK, Labels
  <2>2. /\ Keyed => Keyed'
        /\ IF call = NoCall THEN call' = NoCall ELSE call' # NoCall /\ call'.dir = call.dir
        /\ State' \in {State, "ringing", "ended"}
        /\ UNCHANGED relay
    BY <1>26 DEF EmitIncoming, Keyed, State, media, relay, links
  <2>3. QED
    BY <2>1, <2>2, CalmPaths
<1>27. ASSUME ReinitSrtp PROVE Paths'
  <2>1. /\ \A u \in Threads : Dialing(u)' => Dialing(u)
        /\ \A u \in Threads : th'[u].at \in {"transport_set", "accept_media"} =>
                    th'[u] = th[u]
    BY <1>27, CalmGoto, ThreadFacts DEF ReinitSrtp, TypeOK, LinksTypeOK, Labels
  <2>2. Keyed => Keyed'
    BY <1>27, ThreadFacts, ConstantAssumption DEF ReinitSrtp, Keyed, Keys, Located, At
  <2>3. call' = call /\ State' = State /\ UNCHANGED relay
    BY <1>27 DEF ReinitSrtp, State
  <2>4. QED
    BY <2>1, <2>2, <2>3, CalmPaths
<1>28. ASSUME HandleCallAccept PROVE Paths'
  <2>1. /\ call # NoCall
        /\ call' # NoCall
        /\ call'.dir = call.dir
        /\ call'.key = call.key
        /\ call'.prog = CS!Apply(call.prog, "remote_accepted", "none")
    BY <1>28, ThreadFacts, StepCall
       DEF HandleCallAccept, TypeOK, LinksTypeOK, Located, NeedCall, At, Reasons, Issued
  <2>2. call.dir = "outgoing" /\ call' \in Call /\ call'.key
    BY <1>28, <2>1, ThreadFacts
       DEF HandleCallAccept, At, Progression, OutgoingHandlers, OutgoingOnly,
           CallShape, TypeOK, LinksTypeOK
  <2>3. InitSrtp(call', acceptedBy') /\ acceptedBy' \in Devices \cup {NoPeer}
    BY <1>28 DEF HandleCallAccept, TypeOK, LinksTypeOK
  <2>4. Keyed'
    BY <2>2, <2>3, InitSrtpTyped DEF Keyed, TypeOK, LinksTypeOK
  <2>5. State' # "incoming_ringing"
    BY <2>1, <2>2
       DEF TypeOK, LinksTypeOK, State, Progression, CallShape, CS!Apply, CS!CanApply,
           CS!Source, CS!Target
  <2>6. KeysFirst'
    BY <2>1, <2>2, <2>4, <2>5 DEF KeysFirst
  <2>7. call.relays # NoRelays => call.relays.eps \in SUBSET Endpoint
    BY <2>1, EpsTyped DEF TypeOK, LinksTypeOK
  <2>8. call.relays # NoRelays =>
          [th["events"] EXCEPT !.at = "dial", !.eps = call.relays.eps] \in Thread
    BY <2>7, TakeTyped, ThreadFacts DEF TypeOK, LinksTypeOK, Labels
  <2>9. [th["events"] EXCEPT !.at = "dial", !.eps = call.relays.eps].at = "dial"
    BY ThreadFacts DEF TypeOK, LinksTypeOK, Thread
  <2>10. /\ th'["events"].at \in {"idle", "connect", "dial"}
        /\ \A u \in Threads \ {"events"} : th'[u] = th[u]
    BY <1>28, <2>1, <2>8, <2>9, ThreadFacts, MoveTyped, GotoTyped, RestTyped, SMTT(30), ZenonT(60)
       DEF HandleCallAccept, TypeOK, LinksTypeOK, Labels
  <2>11. \A u \in Threads : th'[u].at = "transport_set" => Usable(th'[u].eps) = {}
    BY <2>10 DEF Paths
  <2>12. QED
    BY <2>1, <2>6, <2>11 DEF Paths
<1>29. ASSUME ConnectAccepted PROVE Paths'
  <2>1. /\ call # NoCall
        /\ call' # NoCall
        /\ call'.dir = call.dir
        /\ call'.key = call.key
        /\ call'.prog = CS!Apply(call.prog, "media_connected", "none")
    BY <1>29, ThreadFacts, StepCall
       DEF ConnectAccepted, TypeOK, LinksTypeOK, Located, NeedCall, At, Reasons, Issued
  <2>2. call.dir = "outgoing" /\ State # "incoming_ringing"
    BY <1>29, <2>1, ThreadFacts
       DEF ConnectAccepted, At, Progression, OutgoingHandlers, OutgoingOnly,
           CallShape
  <2>3. Keyed' = Keyed
    BY <1>29, <2>1 DEF ConnectAccepted, Keyed
  <2>4. State' = IF State = "connecting" THEN "active" ELSE State
    BY <2>1 DEF State, CS!Apply, CS!CanApply, CS!Source, CS!Target
  <2>5. KeysFirst'
    BY <2>1, <2>2, <2>3, <2>4 DEF Paths, KeysFirst
  <2>6. \A u \in Threads : th'[u].at = "transport_set" => Usable(th'[u].eps) = {}
    BY <1>29, RestTyped, ThreadFacts DEF ConnectAccepted, Paths, TypeOK, LinksTypeOK
  <2>7. QED
    BY <2>1, <2>5, <2>6 DEF Paths
<1>30. ASSUME NEW eps \in Listed(FALSE) \cup {{}}, HandleCallTransport(eps)
      PROVE  Paths'
  <2>1. eps \in SUBSET Endpoint /\ Usable(eps) = {}
    BY AttributesUnusable
  <2>2. [th["events"] EXCEPT !.at = "transport_set", !.eps = eps] \in Thread
    BY <2>1, TakeTyped, ThreadFacts DEF TypeOK, LinksTypeOK, Labels
  <2>3. /\ [th["events"] EXCEPT !.at = "transport_set", !.eps = eps].at =
          "transport_set"
        /\ [th["events"] EXCEPT !.at = "transport_set", !.eps = eps].eps = eps
    BY ThreadFacts DEF TypeOK, LinksTypeOK, Thread
  <2>4. \/ Rest("events")
        \/ /\ th'["events"].at = "transport_set" /\ th'["events"].eps = eps
           /\ \A u \in Threads \ {"events"} : th'[u] = th[u]
    BY <1>30, <2>2, <2>3, MoveTyped, ThreadFacts DEF HandleCallTransport, TypeOK, LinksTypeOK
  <2>5. /\ \A u \in Threads : Dialing(u)' => Dialing(u)
        /\ \A u \in Threads : th'[u].at = "transport_set" => Usable(th'[u].eps) = {}
        /\ \A u \in Threads : th'[u].at = "accept_media" => th'[u] = th[u]
    BY <2>1, <2>4, RestTyped, ThreadFacts DEF TypeOK, LinksTypeOK, Dialing, Paths
  <2>6. call' = call /\ State' = State /\ Keyed' = Keyed /\ UNCHANGED relay
    BY <1>30 DEF HandleCallTransport, State, Keyed, media
  <2>7. Quiet => Quiet'
    BY <2>5, <2>6 DEF Quiet, relay, links
  <2>8. KeysFirst => KeysFirst'
    BY <2>5, <2>6, <2>7 DEF KeysFirst
  <2>9. QED
    BY <2>5, <2>6, <2>7, <2>8 DEF Paths
<1>31. ASSUME TransportSet PROVE Paths'
  <2>1. /\ call # NoCall
        /\ call' # NoCall
        /\ call'.dir = call.dir
        /\ call'.key = call.key
        /\ call'.prog = call.prog
    BY <1>31, TransportCall
  <2>2. /\ th'["events"].at = "dial" /\ th'["events"].eps = th["events"].eps
        /\ \A u \in Threads \ {"events"} : th'[u] = th[u]
    BY <1>31, GotoTyped, ThreadFacts DEF TransportSet, TypeOK, LinksTypeOK, Labels
  <2>3. Usable(th["events"].eps) = {}
    BY <1>31, ThreadFacts DEF TransportSet, At, Paths
  <2>4. /\ \A u \in Threads : Dialing(u)' => Dialing(u)
        /\ \A u \in Threads : th'[u].at \in {"transport_set", "accept_media"} =>
                    th'[u] = th[u]
    BY <2>2, <2>3 DEF Dialing
  <2>5. State' = State /\ Keyed' = Keyed /\ UNCHANGED relay
    BY <1>31, <2>1 DEF TransportSet, State, Keyed, media
  <2>6. QED
    BY <2>1, <2>4, <2>5, CalmPaths
<1>32. ASSUME HandleCallTerminate PROVE Paths'
  <2>1. /\ call # NoCall
        /\ call' # NoCall
        /\ call'.dir = call.dir
        /\ call'.key = call.key
        /\ call'.prog = CS!Apply(call.prog, "terminated", "peer")
    BY <1>32, ThreadFacts, StepCall
       DEF HandleCallTerminate, TypeOK, LinksTypeOK, Located, NeedCall, At, Reasons, Issued
  <2>2. /\ \A u \in Threads : Dialing(u)' => Dialing(u)
        /\ \A u \in Threads : th'[u].at \in {"transport_set", "accept_media"} =>
                    th'[u] = th[u]
    BY <1>32, CalmGoto, ThreadFacts DEF HandleCallTerminate, TypeOK, LinksTypeOK, Labels
  <2>3. /\ Keyed => Keyed'
        /\ UNCHANGED relay
    BY <1>32, <2>1 DEF HandleCallTerminate, Keyed, media, relay, links
  <2>4. /\ IF call = NoCall THEN call' = NoCall ELSE call' # NoCall /\ call'.dir =
          call.dir
        /\ State' \in {State, "ringing", "ended"}
    BY <1>32, <2>1
       DEF HandleCallTerminate, State, CS!Apply, CS!CanApply, CS!Source,
           CS!Target, CS!States
  <2>5. QED
    BY <2>2, <2>3, <2>4, CalmPaths
<1>33. ASSUME NEW r \in Relays, OnRelayConnected(r)
      PROVE  Paths'
  <2>1. IF State = "connecting"
        THEN /\ call # NoCall /\ call' # NoCall /\ call'.dir = call.dir /\ call'.key = call.key
             /\ call'.prog = CS!Apply(call.prog, "media_connected", "none")
        ELSE call' = call
    BY <1>33, StepCall DEF OnRelayConnected, Reported, TypeOK, LinksTypeOK, State, Reasons, Issued
  <2>2. ~Quiet /\ th' = th
    BY <1>33 DEF OnRelayConnected, Reported, Quiet
  <2>3. call # NoCall /\ KeysFirst
    BY <2>2 DEF Paths
  <2>4. /\ call' # NoCall /\ call'.dir = call.dir /\ Keyed' = Keyed
        /\ State' = IF State = "connecting" THEN "active" ELSE State
    BY <1>33, <2>1, <2>3
       DEF OnRelayConnected, Reported, Keyed, State, CS!Apply, CS!CanApply, CS!Source,
           CS!Target
  <2>5. call.dir \in {"outgoing", "incoming"}
    BY <2>3 DEF TypeOK, LinksTypeOK, Call, CS!Directions
  <2>6. KeysFirst'
    BY <2>2, <2>3, <2>4, <2>5 DEF KeysFirst
  <2>7. QED
    BY <2>2, <2>4, <2>6 DEF Paths
<1> USE ThreadFacts, ConstantAssumption
      DEF Paths, KeysFirst, Keyed, Quiet, Dialing, State, media, relay, links, TypeOK, LinksTypeOK, At,
          Goto, Rest, Move, Resting, Thread
<1>34. ASSUME NEW r \in Relays, RelayOpens(r)
      PROVE  Paths'
  BY <1>34 DEF RelayOpens, Opens
<1>35. ASSUME NEW r \in Relays, RelayFails(r)
      PROVE  Paths'
  BY <1>35 DEF RelayFails, Lost
<1>36. ASSUME NEW r \in Relays, StrayOpens(r)
      PROVE  Paths'
  BY <1>36 DEF StrayOpens, StrayOpened
<1>37. ASSUME NEW r \in Relays, StrayGone(r)
      PROVE  Paths'
  BY <1>37 DEF StrayGone, StrayLost
<1>38. ASSUME UNCHANGED vars PROVE Paths'
  BY <1>38 DEF vars, links
<1> HIDE DEF Paths, KeysFirst, Keyed, Quiet, Dialing, State, media, relay, links, TypeOK, LinksTypeOK, At,
             Goto, Rest, Move, Resting, Thread
<1>39. QED
  BY <1>1, <1>2, <1>3, <1>4, <1>5, <1>6, <1>7, <1>8, <1>9, <1>10, <1>11, <1>12,
     <1>13, <1>14, <1>15, <1>16, <1>17, <1>18, <1>19, <1>20, <1>21, <1>22, <1>23,
     <1>24, <1>25, <1>26, <1>27, <1>28, <1>29, <1>30, <1>31, <1>32, <1>33, <1>34,
     <1>35, <1>36, <1>37, <1>38
     DEF Next, Begin, Continue, ContinueAck, ContinueEvent, RelayStep

(* Keys are only ever derived for the accepting device, once there is one. *)
LEMMA ReceivesStep ==
  ASSUME TypeOK, TypeOK', Located, Progression, ReceivesFromAcceptor, [Next]_vars
  PROVE  ReceivesFromAcceptor'
<1>1. ASSUME NEW t \in Threads, SetupIncomingMedia(t)
      PROVE  ReceivesFromAcceptor'
  <2>1. call \in Call /\ acceptedBy \in Devices \cup {NoPeer}
    BY <1>1 DEF SetupIncomingMedia, TypeOK, LinksTypeOK, Located, At, NeedCall
  <2>2. InitSrtp(call, acceptedBy)
    BY <1>1 DEF SetupIncomingMedia
  <2>3. acceptedBy' = acceptedBy
    BY <1>1 DEF SetupIncomingMedia
  <2>4. QED
    BY <2>1, <2>2, <2>3, InitSrtpTyped DEF ReceivesFromAcceptor, TypeOK, LinksTypeOK
<1>2. ASSUME NEW eps \in Listed(TRUE) \cup Listed(FALSE), NEW peer \in Devices \cup
             {NoPeer}, HandleCallAck(eps, peer)
      PROVE  ReceivesFromAcceptor'
  <2>1. call' \in Call /\ acceptedBy \in Devices \cup {NoPeer}
    BY <1>2, AckCall DEF TypeOK, LinksTypeOK
  <2>2. InitSrtp(call', acceptedBy) \/ srtp' = srtp
    BY <1>2 DEF HandleCallAck
  <2>3. acceptedBy' = acceptedBy
    BY <1>2 DEF HandleCallAck
  <2>4. QED
    BY <2>1, <2>2, <2>3, InitSrtpTyped DEF ReceivesFromAcceptor, TypeOK, LinksTypeOK
<1>3. ASSUME ReinitSrtp PROVE ReceivesFromAcceptor'
  BY <1>3, ThreadFacts, ConstantAssumption
     DEF ReinitSrtp, ReceivesFromAcceptor, TypeOK, LinksTypeOK, Located, At, Keys
<1>4. ASSUME HandleCallAccept PROVE ReceivesFromAcceptor'
  <2>1. /\ call # NoCall
        /\ call' # NoCall
        /\ call'.prog = CS!Apply(call.prog, "remote_accepted", "none")
    BY <1>4, ThreadFacts, StepCall
       DEF HandleCallAccept, TypeOK, LinksTypeOK, Located, NeedCall, At, Reasons, Issued
  <2>2. call' \in Call /\ call'.key /\ acceptedBy' \in Devices \cup {NoPeer}
    BY <1>4, <2>1, ThreadFacts, StepCall
       DEF HandleCallAccept, TypeOK, LinksTypeOK, Located, NeedCall, At, Progression,
           OutgoingHandlers, OutgoingOnly, CallShape, Reasons, Issued
  <2>3. InitSrtp(call', acceptedBy')
    BY <1>4 DEF HandleCallAccept
  <2>4. QED
    BY <2>2, <2>3, InitSrtpTyped DEF ReceivesFromAcceptor, TypeOK, LinksTypeOK
<1>5. ASSUME ~Active PROVE ReceivesFromAcceptor'
  BY <1>5, Passive DEF ReceivesFromAcceptor
<1>6. ASSUME NEW t \in Threads, StartCall(t)
      PROVE  ReceivesFromAcceptor'
  BY <1>6, ThreadFacts, ConstantAssumption
     DEF StartCall, ReceivesFromAcceptor, TypeOK, LinksTypeOK, media, relay, links, At
<1>7. ASSUME NEW t \in Threads, NEW a \in BOOLEAN, QueryReturns(t, a)
      PROVE  ReceivesFromAcceptor'
  BY <1>7, ThreadFacts, ConstantAssumption
     DEF QueryReturns, ReceivesFromAcceptor, TypeOK, LinksTypeOK, media, relay, links, At
<1>8. ASSUME NEW t \in Threads, AcceptCall(t)
      PROVE  ReceivesFromAcceptor'
  BY <1>8, ThreadFacts, ConstantAssumption
     DEF AcceptCall, ReceivesFromAcceptor, TypeOK, LinksTypeOK, media, relay, links, At
<1>9. ASSUME NEW t \in Threads, RejectCall(t)
      PROVE  ReceivesFromAcceptor'
  BY <1>9, ThreadFacts, ConstantAssumption
     DEF RejectCall, ReceivesFromAcceptor, TypeOK, LinksTypeOK, media, relay, links, At
<1>10. ASSUME NEW t \in Threads, EndCall(t)
      PROVE  ReceivesFromAcceptor'
  BY <1>10, ThreadFacts, ConstantAssumption
     DEF EndCall, ReceivesFromAcceptor, TypeOK, LinksTypeOK, media, relay, links, At
<1>11. ASSUME NEW t \in Threads, CleanupMedia(t)
      PROVE  ReceivesFromAcceptor'
  BY <1>11, ThreadFacts, ConstantAssumption
     DEF CleanupMedia, ReceivesFromAcceptor, TypeOK, LinksTypeOK, media, relay, links, At
<1>12. ASSUME NEW key \in BOOLEAN, NEW relays \in OfferRelays, HandleCallOffer(key,
              relays)
      PROVE  ReceivesFromAcceptor'
  BY <1>12, ThreadFacts, ConstantAssumption
     DEF HandleCallOffer, ReceivesFromAcceptor, TypeOK, LinksTypeOK, media, relay, links, At
<1>13. ASSUME ConnectAccepted PROVE ReceivesFromAcceptor'
  BY <1>13, ThreadFacts, ConstantAssumption
     DEF ConnectAccepted, ReceivesFromAcceptor, TypeOK, LinksTypeOK, media, relay, links, At
<1>14. ASSUME TransportSet PROVE ReceivesFromAcceptor'
  BY <1>14, ThreadFacts, ConstantAssumption
     DEF TransportSet, ReceivesFromAcceptor, TypeOK, LinksTypeOK, media, relay, links, At
<1>15. ASSUME HandleCallTerminate PROVE ReceivesFromAcceptor'
  BY <1>15, ThreadFacts, ConstantAssumption
     DEF HandleCallTerminate, ReceivesFromAcceptor, TypeOK, LinksTypeOK, media, relay, links, At
<1>16. ASSUME NEW r \in Relays, OnRelayConnected(r)
      PROVE  ReceivesFromAcceptor'
  BY <1>16, ThreadFacts, ConstantAssumption
     DEF OnRelayConnected, Reported, ReceivesFromAcceptor, TypeOK, LinksTypeOK, media, relay, links, At
<1>17. QED
  BY <1>1, <1>2, <1>3, <1>4, <1>5, <1>6, <1>7, <1>8, <1>9, <1>10, <1>11, <1>12,
     <1>13, <1>14, <1>15, <1>16
     DEF Active

------------------------------------------------------------------------------
(* The lifecycle *)

(* Every step of the manager is a step of the lifecycle, or none. *)
LEMMA LifecycleStep ==
  ASSUME TypeOK, TypeOK', Located, Progression, [Next]_vars
  PROVE  [Lifecycle!Next]_(Lifecycle!vars)
<1>1. ASSUME NEW t \in Threads, StartCall(t)
      PROVE  [Lifecycle!Next]_(Lifecycle!vars)
  <2>1. /\ call = NoCall /\ call' # NoCall
        /\ call'.dir = "outgoing" /\ call'.prog = CS!NewProgress(call'.dir)
    BY <1>1, StartCallNew
  <2>2. Lifecycle!Place
    BY <2>1 DEF Lifecycle!Place, Phase, State, CS!NewProgress
  <2>3. QED
    BY <2>2 DEF Lifecycle!Next
<1>2. ASSUME NEW t \in Threads, NEW a \in BOOLEAN, QueryReturns(t, a)
      PROVE  [Lifecycle!Next]_(Lifecycle!vars)
  <2>1. /\ call # NoCall
        /\ call' # NoCall
        /\ call'.prog = CS!Apply(call.prog, "offer_sent", "none")
    BY <1>2, ThreadFacts, StepCall
       DEF QueryReturns, TypeOK, LinksTypeOK, Located, NeedCall, At, Reasons, Issued
  <2>2. ASSUME call.prog.state \in CS!Source["offer_sent"] PROVE Lifecycle!Ring
    BY <2>1, <2>2
       DEF Lifecycle!Ring, Phase, State, Progression, CallShape, Reasons,
           TypeOK, LinksTypeOK, Call, CS!Progress, CS!Apply, CS!CanApply, CS!Source,
           CS!Target, CS!States
  <2>3. ASSUME ~(call.prog.state \in CS!Source["offer_sent"])
        PROVE  UNCHANGED Lifecycle!vars
    BY <2>1, <2>3 DEF Lifecycle!vars, Phase, State, CS!Apply, CS!CanApply
  <2>4. QED
    BY <2>2, <2>3 DEF Lifecycle!Next
<1>3. ASSUME NEW t \in Threads, AcceptCall(t)
      PROVE  [Lifecycle!Next]_(Lifecycle!vars)
  <2>1. IF State = "incoming_ringing"
        THEN /\ call # NoCall /\ call' # NoCall
             /\ call'.prog = CS!Apply(call.prog, "local_accepted", "none")
        ELSE call' = call
    BY <1>3, StepCall DEF AcceptCall, TypeOK, LinksTypeOK, State, Reasons, Issued
  <2>2. ASSUME State = "incoming_ringing" PROVE Lifecycle!Answer
    BY <1>3, <2>1, <2>2
       DEF Lifecycle!Answer, Phase, State, Progression, CallShape, Reasons,
           TypeOK, LinksTypeOK, Call, CS!Progress, CS!Apply, CS!CanApply, CS!Source,
           CS!Target, CS!States
  <2>3. ASSUME ~(State = "incoming_ringing") PROVE UNCHANGED Lifecycle!vars
    BY <1>3, <2>1, <2>3 DEF Lifecycle!vars, Phase, State
  <2>4. QED
    BY <2>2, <2>3 DEF Lifecycle!Next
<1>4. ASSUME NEW t \in Threads, RejectCall(t)
      PROVE  [Lifecycle!Next]_(Lifecycle!vars)
  <2>1. /\ call # NoCall
        /\ call' # NoCall
        /\ call'.prog = CS!Apply(call.prog, "local_rejected", "declined")
    BY <1>4, ThreadFacts, StepCall
       DEF RejectCall, TypeOK, LinksTypeOK, Located, NeedCall, At, Reasons, Issued
  <2>2. ASSUME call.prog.state \in CS!Source["local_rejected"] PROVE Lifecycle!Finish
    BY <2>1, <2>2
       DEF Lifecycle!Finish, Phase, State, Progression, CallShape, Reasons,
           TypeOK, LinksTypeOK, Call, CS!Progress, CS!Apply, CS!CanApply, CS!Source,
           CS!Target, CS!States
  <2>3. ASSUME ~(call.prog.state \in CS!Source["local_rejected"])
        PROVE  UNCHANGED Lifecycle!vars
    BY <2>1, <2>3 DEF Lifecycle!vars, Phase, State, CS!Apply, CS!CanApply
  <2>4. QED
    BY <2>2, <2>3 DEF Lifecycle!Next
<1>5. ASSUME NEW t \in Threads, EndCall(t)
      PROVE  [Lifecycle!Next]_(Lifecycle!vars)
  <2>1. IF State \notin {"none", "ended"}
        THEN /\ call # NoCall /\ call' # NoCall
             /\ call'.prog = CS!Apply(call.prog, "terminated", "user_ended")
        ELSE call' = call
    BY <1>5, StepCall DEF EndCall, TypeOK, LinksTypeOK, State, Reasons, Issued
  <2>2. ASSUME State \notin {"none", "ended"} PROVE Lifecycle!Finish
    BY <1>5, <2>1, <2>2
       DEF Lifecycle!Finish, Phase, State, Progression, CallShape, Reasons,
           TypeOK, LinksTypeOK, Call, CS!Progress, CS!Apply, CS!CanApply, CS!Source,
           CS!Target, CS!States
  <2>3. ASSUME ~(State \notin {"none", "ended"}) PROVE UNCHANGED Lifecycle!vars
    BY <1>5, <2>1, <2>3 DEF Lifecycle!vars, Phase, State
  <2>4. QED
    BY <2>2, <2>3 DEF Lifecycle!Next
<1>6. ASSUME NEW eps \in Listed(TRUE) \cup Listed(FALSE), NEW peer \in Devices \cup
             {NoPeer}, HandleCallAck(eps, peer)
      PROVE  [Lifecycle!Next]_(Lifecycle!vars)
  <2>1. call # NoCall /\ call' # NoCall /\ call'.prog = call.prog
    BY <1>6, AckCall
  <2>2. QED
    BY <2>1 DEF Lifecycle!vars, Phase, State, media
<1>7. ASSUME NEW key \in BOOLEAN, NEW relays \in OfferRelays, HandleCallOffer(key,
             relays)
      PROVE  [Lifecycle!Next]_(Lifecycle!vars)
  <2>1. /\ call = NoCall /\ call' # NoCall
        /\ call'.dir = "incoming" /\ call'.prog = CS!NewProgress(call'.dir)
    BY <1>7, OfferCallNew
  <2>2. Lifecycle!Ring
    BY <2>1 DEF Lifecycle!Ring, Phase, State, CS!NewProgress
  <2>3. QED
    BY <2>2 DEF Lifecycle!Next
<1>8. ASSUME HandleCallAccept PROVE [Lifecycle!Next]_(Lifecycle!vars)
  <2>1. /\ call # NoCall
        /\ call' # NoCall
        /\ call'.prog = CS!Apply(call.prog, "remote_accepted", "none")
    BY <1>8, ThreadFacts, StepCall
       DEF HandleCallAccept, TypeOK, LinksTypeOK, Located, NeedCall, At, Reasons, Issued
  <2>2. ASSUME call.prog.state \in CS!Source["remote_accepted"] PROVE Lifecycle!Answer
    BY <2>1, <2>2
       DEF Lifecycle!Answer, Phase, State, Progression, CallShape, Reasons,
           TypeOK, LinksTypeOK, Call, CS!Progress, CS!Apply, CS!CanApply, CS!Source,
           CS!Target, CS!States
  <2>3. ASSUME ~(call.prog.state \in CS!Source["remote_accepted"])
        PROVE  UNCHANGED Lifecycle!vars
    BY <2>1, <2>3 DEF Lifecycle!vars, Phase, State, CS!Apply, CS!CanApply
  <2>4. QED
    BY <2>2, <2>3 DEF Lifecycle!Next
<1>9. ASSUME ConnectAccepted PROVE [Lifecycle!Next]_(Lifecycle!vars)
  <2>1. /\ call # NoCall
        /\ call' # NoCall
        /\ call'.prog = CS!Apply(call.prog, "media_connected", "none")
    BY <1>9, ThreadFacts, StepCall
       DEF ConnectAccepted, TypeOK, LinksTypeOK, Located, NeedCall, At, Reasons, Issued
  <2>2. ASSUME call.prog.state \in CS!Source["media_connected"] PROVE Lifecycle!Talk
    BY <2>1, <2>2
       DEF Lifecycle!Talk, Phase, State, Progression, CallShape, Reasons,
           TypeOK, LinksTypeOK, Call, CS!Progress, CS!Apply, CS!CanApply, CS!Source,
           CS!Target, CS!States
  <2>3. ASSUME ~(call.prog.state \in CS!Source["media_connected"])
        PROVE  UNCHANGED Lifecycle!vars
    BY <2>1, <2>3 DEF Lifecycle!vars, Phase, State, CS!Apply, CS!CanApply
  <2>4. QED
    BY <2>2, <2>3 DEF Lifecycle!Next
<1>10. ASSUME TransportSet PROVE [Lifecycle!Next]_(Lifecycle!vars)
  <2>1. call # NoCall /\ call' # NoCall /\ call'.prog = call.prog
    BY <1>10, TransportCall
  <2>2. QED
    BY <2>1 DEF Lifecycle!vars, Phase, State, media
<1>11. ASSUME HandleCallTerminate PROVE [Lifecycle!Next]_(Lifecycle!vars)
  <2>1. /\ call # NoCall
        /\ call' # NoCall
        /\ call'.prog = CS!Apply(call.prog, "terminated", "peer")
    BY <1>11, ThreadFacts, StepCall
       DEF HandleCallTerminate, TypeOK, LinksTypeOK, Located, NeedCall, At, Reasons, Issued
  <2>2. ASSUME call.prog.state \in CS!Source["terminated"] PROVE Lifecycle!Finish
    BY <2>1, <2>2
       DEF Lifecycle!Finish, Phase, State, Progression, CallShape, Reasons,
           TypeOK, LinksTypeOK, Call, CS!Progress, CS!Apply, CS!CanApply, CS!Source,
           CS!Target, CS!States
  <2>3. ASSUME ~(call.prog.state \in CS!Source["terminated"])
        PROVE  UNCHANGED Lifecycle!vars
    BY <2>1, <2>3 DEF Lifecycle!vars, Phase, State, CS!Apply, CS!CanApply
  <2>4. QED
    BY <2>2, <2>3 DEF Lifecycle!Next
<1>12. ASSUME NEW r \in Relays, OnRelayConnected(r)
      PROVE  [Lifecycle!Next]_(Lifecycle!vars)
  <2>1. IF State = "connecting"
        THEN /\ call # NoCall /\ call' # NoCall
             /\ call'.prog = CS!Apply(call.prog, "media_connected", "none")
        ELSE call' = call
    BY <1>12, StepCall DEF OnRelayConnected, Reported, TypeOK, LinksTypeOK, State, Reasons, Issued
  <2>2. ASSUME State = "connecting" PROVE Lifecycle!Talk
    BY <1>12, <2>1, <2>2
       DEF Lifecycle!Talk, Phase, State, Progression, CallShape, Reasons,
           TypeOK, LinksTypeOK, Call, CS!Progress, CS!Apply, CS!CanApply, CS!Source,
           CS!Target, CS!States
  <2>3. ASSUME ~(State = "connecting") PROVE UNCHANGED Lifecycle!vars
    BY <1>12, <2>1, <2>3 DEF Lifecycle!vars, Phase, State
  <2>4. QED
    BY <2>2, <2>3 DEF Lifecycle!Next
<1>13. ASSUME ~Active PROVE [Lifecycle!Next]_(Lifecycle!vars)
  BY <1>13, Passive DEF Lifecycle!vars, Phase, State
<1>14. ASSUME NEW t \in Threads, SetupIncomingMedia(t)
      PROVE  [Lifecycle!Next]_(Lifecycle!vars)
  BY <1>14 DEF SetupIncomingMedia, Lifecycle!vars, Phase, State, media
<1>15. ASSUME NEW t \in Threads, CleanupMedia(t)
      PROVE  [Lifecycle!Next]_(Lifecycle!vars)
  BY <1>15 DEF CleanupMedia, Lifecycle!vars, Phase, State, media
<1>16. ASSUME ReinitSrtp PROVE [Lifecycle!Next]_(Lifecycle!vars)
  BY <1>16 DEF ReinitSrtp, Lifecycle!vars, Phase, State, media
<1>17. QED
  BY <1>1, <1>2, <1>3, <1>4, <1>5, <1>6, <1>7, <1>8, <1>9, <1>10, <1>11, <1>12,
     <1>13, <1>14, <1>15, <1>16
     DEF Active

------------------------------------------------------------------------------
(* The theorems *)

(* The invariant is inductive: it holds initially, and every step of every *)
(* thread, of the peer and of the relays keeps it.                         *)
LEMMA InitInv == Init => IInv
<1> SUFFICES ASSUME Init PROVE IInv
  OBVIOUS
<1>1. th \in [Threads -> Thread] /\ \A t \in Threads : th[t] = Resting
  BY DEF Init, LinksInit, Resting, Thread, Labels
<1>2. TypeOK
  BY <1>1 DEF Init, LinksInit, TypeOK, LinksTypeOK
<1>3. Located
  BY <1>1, ThreadFacts DEF Init, LinksInit, Located, Resting, NeedCall
<1>4. Progression /\ ReleaseUnderWay /\ EndedIsUnregistered
  BY DEF Init, LinksInit, Progression, ReleaseUnderWay, EndedIsUnregistered, State
<1>5. KeepaliveHasCodec /\ ReceivesFromAcceptor
  BY DEF Init, LinksInit, KeepaliveHasCodec, ReceivesFromAcceptor
<1>6. Quiet
  BY <1>1 DEF Init, LinksInit, Quiet, Dialing, Resting
<1>7. Paths
  BY <1>1, <1>6 DEF Init, LinksInit, Paths, Resting
<1>8. QED
  BY <1>2, <1>3, <1>4, <1>5, <1>7 DEF IInv

(* One step of the system keeps all the parts together. *)
LEMMA NextInv == IInv /\ [Next]_vars => IInv'
<1> SUFFICES ASSUME IInv, [Next]_vars PROVE IInv'
  OBVIOUS
<1> USE DEF IInv
<1>1. TypeOK'
  BY TypeStep
<1>2. Located'
  BY <1>1, LocatedStep
<1>3. Progression'
  BY <1>1, ProgressionStep
<1>4. Paths'
  BY <1>1, PathsStep
<1>5. KeepaliveHasCodec'
  BY <1>1, KeepaliveStep
<1>6. ReleaseUnderWay'
  BY <1>1, ReleaseStep
<1>7. EndedIsUnregistered'
  BY <1>1, EndedStep
<1>8. ReceivesFromAcceptor'
  BY <1>1, ReceivesStep
<1>9. QED
  BY <1>1, <1>2, <1>3, <1>4, <1>5, <1>6, <1>7, <1>8

(* The inductive invariant of the manager holds in every reachable state.  *)
THEOREM Invariance == Spec => []IInv
BY InitInv, NextInv, PTL DEF Spec

(* Every handler finds and leaves a well-formed call, keys and threads.    *)
THEOREM TypeCorrect == Spec => []TypeOK
<1>1. IInv => TypeOK
  BY DEF IInv
<1>2. QED
  BY <1>1, Invariance, PTL

(* An active call with an RTP session has its SRTP keys, in whatever order *)
(* the acceptance, the answer to the offer and the relays came.            *)
THEOREM AudioIsReady == Spec => []AudioReady
<1>1. IInv => AudioReady
  <2> SUFFICES ASSUME IInv, State = "active" PROVE rtp /\ call.key => srtp # NoKeys
    BY DEF AudioReady
  <2>1. call # NoCall
    BY DEF State
  <2>2. QED
    BY <2>1 DEF IInv, Paths, KeysFirst, Keyed
<1>2. QED
  BY <1>1, Invariance, PTL

(* The silence goroutine never runs without the codec it encodes with.     *)
THEOREM KeepaliveIsSafe == Spec => []KeepaliveHasCodec
<1>1. IInv => KeepaliveHasCodec
  BY DEF IInv
<1>2. QED
  BY <1>1, Invariance, PTL

(* The codec and the keepalive of an ended call always have a thread that  *)
(* is about to release them.                                               *)
THEOREM ReleaseIsAssigned == Spec => []ReleaseUnderWay
<1>1. IInv => ReleaseUnderWay
  BY DEF IInv
<1>2. QED
  BY <1>1, Invariance, PTL

(* No request or stanza can find a call that has ended in the registry.    *)
THEOREM EndedIsGone == Spec => []EndedIsUnregistered
<1>1. IInv => EndedIsUnregistered
  BY DEF IInv
<1>2. QED
  BY <1>1, Invariance, PTL

(* The keys are those of the device that accepted, however its acceptance  *)
(* and the answer to the offer are interleaved.                            *)
THEOREM ReceivesFromTheAcceptor == Spec => []ReceivesFromAcceptor
<1>1. IInv => ReceivesFromAcceptor
  BY DEF IInv
<1>2. QED
  BY <1>1, Invariance, PTL

(* An incoming call has no relay, not even one on its way to a callback,   *)
(* before an operator accepted it.                                         *)
THEOREM IncomingWaits == Spec => []IncomingWaitsForAnswer
<1>1. IInv => IncomingWaitsForAnswer
  <2> SUFFICES ASSUME IInv, State = "incoming_ringing"
               PROVE  \A r \in Relays : conns[r] = "none" /\ r \notin opened
    BY DEF IncomingWaitsForAnswer
  <2>1. call # NoCall
    BY DEF State
  <2>2. QED
    BY <2>1 DEF IInv, Paths, KeysFirst, Quiet
<1>2. QED
  BY <1>1, Invariance, PTL

(* The manager implements the lifecycle of a call.                         *)
THEOREM LifecycleImplemented == Spec => ImplementsLifecycle
<1>1. Init => Lifecycle!Init
  BY DEF Init, LinksInit, Lifecycle!Init, Phase, State
<1>2. IInv /\ [Next]_vars => [Lifecycle!Next]_(Lifecycle!vars)
  <2> SUFFICES ASSUME IInv, [Next]_vars PROVE [Lifecycle!Next]_(Lifecycle!vars)
    OBVIOUS
  <2>1. TypeOK /\ Located /\ Progression
    BY DEF IInv
  <2>2. QED
    BY <2>1, TypeStep, LifecycleStep
<1>3. QED
  BY <1>1, <1>2, Invariance, PTL DEF Spec, ImplementsLifecycle, Lifecycle!Spec
==============================================================================
