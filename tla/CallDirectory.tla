---------------------------- MODULE CallDirectory ----------------------------
(***************************************************************************)
(* The calls of one session as its operators see them: the registry of     *)
(* managers (cmd/server/callregistry.go), the broker's records (broker.go) *)
(* and the recorders, worked on by                                         *)
(*   - HTTP requests (httpapi.go) and the goroutines a browser bridge      *)
(*     starts when it is gone (both are Requests),                         *)
(*   - the event goroutine of the WhatsApp connection ("events"),          *)
(*   - the relay callbacks of each call (the call is the thread's name).   *)
(*                                                                         *)
(* A call's manager is reduced to its state, changed under its lock by the *)
(* transitions of CallState.  OnStateChange runs while the lock is held,   *)
(* but its steps on the broker take the broker's own lock one by one, so   *)
(* other requests come in between: each of them is an action.              *)
(*                                                                         *)
(* Events sent to browsers and webhooks are left out, and so are peers,    *)
(* times, and the history that a filed record goes to.  Every request      *)
(* names its operator, as those of the web client do.                      *)
(***************************************************************************)
EXTENDS Naturals, FiniteSets

CONSTANTS Placed,       \* ids of outgoing calls
          Offered,      \* ids of incoming calls, one offer each
          Operators,    \* client ids of the browsers
          Requests,     \* goroutines for requests and lost bridges
          MaxCalls,     \* max-calls-per-session
          Free, NoCall, NoOwner, NoRecord

VARIABLES phase,        \* the state of the call's manager
          lock,         \* who holds the manager's lock
          registered,   \* callRegistry.calls
          bridged,      \* calls whose browser bridge is set
          gone,         \* bridges that reported a terminal ICE state
          recorder,     \* the recorder of the active call
          audio,        \* calls whose open recorder has audio
          record,       \* Broker.calls
          known,        \* calls that were ever shown to an operator
          th            \* the threads

media == <<bridged, gone, recorder, audio>>
vars  == <<phase, lock, registered, media, record, known, th>>

------------------------------------------------------------------------------
(* Data *)

CS == INSTANCE CallState WITH Reasons <- {"any"}, NoReason <- "none"

Calls == Placed \cup Offered

Threads == Requests \cup {"events"} \cup Calls

ASSUME ConstantAssumption ==
  /\ Placed \cap Offered = {}
  /\ Requests \cap ({"events"} \cup Calls) = {}
  /\ "events" \notin Calls
  /\ Free \notin Threads
  /\ NoCall \notin Calls
  /\ NoOwner \notin Operators
  /\ MaxCalls \in Nat \ {0}
  /\ IsFiniteSet(Requests)

Status == {"starting", "ringing", "connected"}

Record == [owner : Operators \cup {NoOwner}, status : Status,
           recorded : BOOLEAN, url : BOOLEAN]

ASSUME RecordAssumption == NoRecord \notin Record

Labels == { "idle", "capacity", "create", "start", "query", "record",
            "check", "claim", "accept", "reject", "end", "drained",
            "webrtc", "recorder", "bridge",
            "register", "offer", "announce", "emit", "peer_accept", "connect",
            "terminate",
            "read", "write", "remove", "close", "url_read", "url_write",
            "file", "next" }

Thread == [ at   : Labels,
            c    : Calls \cup {NoCall},
            who  : Operators \cup {NoOwner},
            old  : Record \cup {NoRecord},      \* the copy getCall returned
            rest : SUBSET Calls,                \* drained, still to be ended
            more : 0..2,                        \* removals still to come
            then : {"idle", "record", "connect", "drained"} ]

Resting == [at |-> "idle", c |-> NoCall, who |-> NoOwner, old |-> NoRecord,
            rest |-> {}, more |-> 0, then |-> "idle"]

TypeOK ==
  /\ phase \in [Calls -> CS!States \cup {"none"}]
  /\ lock \in [Calls -> Threads \cup {Free}]
  /\ registered \in SUBSET Calls
  /\ bridged \in SUBSET Calls
  /\ gone \in SUBSET Calls
  /\ recorder \in [Calls -> {"none", "open", "closed"}]
  /\ audio \in SUBSET Calls
  /\ record \in [Calls -> Record \cup {NoRecord}]
  /\ known \in SUBSET Calls
  /\ th \in [Threads -> Thread]

Init ==
  /\ phase = [c \in Calls |-> "none"]
  /\ lock = [c \in Calls |-> Free]
  /\ registered = {} /\ bridged = {} /\ gone = {} /\ audio = {}
  /\ recorder = [c \in Calls |-> "none"]
  /\ record = [c \in Calls |-> NoRecord]
  /\ known = {}
  /\ th = [t \in Threads |-> Resting]

At(t, label) == th[t].at = label

Call(t) == th[t].c

Move(t, thread) == th' = [th EXCEPT ![t] = thread]

Goto(t, label) == Move(t, [th[t] EXCEPT !.at = label])

Rest(t) == Move(t, Resting)

Fresh(c) == phase[c] = "none" /\ c \notin registered /\ \A t \in Threads : Call(t) # c

StatusOf_Unmapped(p) == p

(* mapStatus *)
StatusOf(p) ==
  CASE p = "active"     -> "connected"
    [] p = "initiating" -> "starting"
    [] OTHER            -> "ringing"

OwnsActiveCall(who, besides) ==
  \E c \in Calls \ besides : record[c] # NoRecord /\ record[c].owner = who

(* The manager's lock is taken, a transition is tried, and OnStateChange   *)
(* is called whether or not it was valid: for an ended call it removes the *)
(* call and files it, for any other it brings the record up to date.       *)
Transition(t, transition, more, then) ==
  LET c == Call(t)
      p == IF phase[c] \in CS!Source[transition] THEN CS!Target[transition] ELSE phase[c]
  IN  /\ lock[c] = Free
      /\ phase' = [phase EXCEPT ![c] = p]
      /\ lock' = [lock EXCEPT ![c] = t]
      /\ Move(t, [th[t] EXCEPT !.at = IF p = "ended" THEN "remove" ELSE "read",
                               !.more = more, !.then = then])

Unlock(t) == lock' = [c \in Calls |-> IF lock[c] = t THEN Free ELSE lock[c]]

------------------------------------------------------------------------------
(* An outgoing call: doStartCall *)

DoStartCall(t, who) ==
  /\ t \in Requests /\ At(t, "idle")
  /\ ~OwnsActiveCall(who, {})
  /\ Move(t, [th[t] EXCEPT !.at = "capacity", !.who = who])
  /\ UNCHANGED <<phase, lock, registered, media, record, known>>

CheckCapacity(t) ==
  /\ At(t, "capacity")
  /\ IF Cardinality(registered) < MaxCalls THEN Goto(t, "create") ELSE Rest(t)
  /\ UNCHANGED <<phase, lock, registered, media, record, known>>

UnknownPhone(t) ==
  /\ At(t, "create")
  /\ Rest(t)
  /\ UNCHANGED <<phase, lock, registered, media, record, known>>

CreateCall(t, c) ==
  /\ At(t, "create")
  /\ c \in Placed /\ Fresh(c)
  /\ registered' = registered \cup {c}
  /\ Move(t, [th[t] EXCEPT !.at = "start", !.c = c])
  /\ UNCHANGED <<phase, lock, media, record, known>>

StartCall(t) ==
  /\ At(t, "start")
  /\ phase' = [phase EXCEPT ![Call(t)] = "initiating"]
  /\ Goto(t, "query")
  /\ UNCHANGED <<lock, registered, media, record, known>>

StartFails(t) ==
  /\ At(t, "query")
  /\ registered' = registered \ {Call(t)}
  /\ Rest(t)
  /\ UNCHANGED <<phase, lock, media, record, known>>

OfferSent(t) ==
  /\ At(t, "query")
  /\ Transition(t, "offer_sent", 0, "record")
  /\ UNCHANGED <<registered, media, record, known>>

RecordStart(t, recorded) ==
  /\ At(t, "record")
  /\ record' = [record EXCEPT ![Call(t)] = [owner |-> th[t].who, status |-> "ringing",
                                            recorded |-> recorded, url |-> FALSE]]
  /\ known' = known \cup {Call(t)}
  /\ Rest(t)
  /\ UNCHANGED <<phase, lock, registered, media>>

------------------------------------------------------------------------------
(* An incoming call: onIncomingOffer and HandleCallOffer.  At the limit    *)
(* the offer is refused, and nothing changes.                              *)

OnIncomingOffer_Unlimited(c) ==
  /\ At("events", "idle")
  /\ c \in Offered /\ Fresh(c)
  /\ Move("events", [th["events"] EXCEPT !.at = "register", !.c = c])
  /\ UNCHANGED <<phase, lock, registered, media, record, known>>

OnIncomingOffer(c) ==
  /\ At("events", "idle")
  /\ c \in Offered /\ Fresh(c)
  /\ Cardinality(registered) < MaxCalls
  /\ Move("events", [th["events"] EXCEPT !.at = "register", !.c = c])
  /\ UNCHANGED <<phase, lock, registered, media, record, known>>

RegisterOffer ==
  /\ At("events", "register")
  /\ registered' = registered \cup {Call("events")}
  /\ Goto("events", "offer")
  /\ UNCHANGED <<phase, lock, media, record, known>>

HandleCallOffer ==
  /\ At("events", "offer")
  /\ phase' = [phase EXCEPT ![Call("events")] = "incoming_ringing"]
  /\ Goto("events", "announce")
  /\ UNCHANGED <<lock, registered, media, record, known>>

OnIncoming ==
  /\ At("events", "announce")
  /\ record' = [record EXCEPT ![Call("events")] =
                  [owner |-> NoOwner, status |-> "ringing", recorded |-> FALSE, url |-> FALSE]]
  /\ known' = known \cup {Call("events")}
  /\ Goto("events", "emit")
  /\ UNCHANGED <<phase, lock, registered, media>>

EmitOffer_Omitted ==
  /\ At("events", "emit")
  /\ Rest("events")
  /\ UNCHANGED <<phase, lock, registered, media, record, known>>

EmitOffer ==
  /\ At("events", "emit")
  /\ lock[Call("events")] = Free
  /\ lock' = [lock EXCEPT ![Call("events")] = "events"]
  /\ Goto("events", IF phase[Call("events")] = "ended" THEN "remove" ELSE "read")
  /\ UNCHANGED <<phase, registered, media, record, known>>

------------------------------------------------------------------------------
(* Stanzas of the peer, and the relays *)

(* The peer can name a call once it was offered to it. *)
BeginEvent(c, label) ==
  /\ At("events", "idle")
  /\ c \in registered /\ phase[c] # "none"
  /\ label \in {"terminate"} \cup (IF c \in Placed THEN {"peer_accept"} ELSE {})
  /\ Move("events", [th["events"] EXCEPT !.at = label, !.c = c])
  /\ UNCHANGED <<phase, lock, registered, media, record, known>>

HandleCallAccept ==
  /\ At("events", "peer_accept")
  /\ Transition("events", "remote_accepted", 0, "connect")
  /\ UNCHANGED <<registered, media, record, known>>

(* The media path was there before the acceptance, or it was not. *)
ConnectAccepted ==
  /\ At("events", "connect")
  /\ \/ /\ phase[Call("events")] = "connecting"
        /\ Transition("events", "media_connected", 0, "idle")
     \/ Rest("events") /\ UNCHANGED <<phase, lock>>
  /\ UNCHANGED <<registered, media, record, known>>

OnRelayConnected_Silent(c) ==
  /\ At(c, "idle")
  /\ phase[c] = "connecting" /\ lock[c] = Free
  /\ phase' = [phase EXCEPT ![c] = "active"]
  /\ UNCHANGED <<lock, registered, media, record, known, th>>

OnRelayConnected(c) ==
  /\ At(c, "idle")
  /\ phase[c] = "connecting" /\ lock[c] = Free
  /\ phase' = [phase EXCEPT ![c] = "active"]
  /\ lock' = [lock EXCEPT ![c] = c]
  /\ Move(c, [th[c] EXCEPT !.at = "read", !.c = c])
  /\ UNCHANGED <<registered, media, record, known>>

(* EndCall calls back once under the lock and once after it (OnEnded), and *)
(* so does HandleCallTerminate.                                            *)
HandleCallTerminate ==
  /\ At("events", "terminate")
  /\ Transition("events", "terminated", 1, "idle")
  /\ UNCHANGED <<registered, media, record, known>>

------------------------------------------------------------------------------
(* doAccept, doReject, doEndCall, and the teardown of the session *)

BeginRequest(t, who, c, label) ==
  /\ t \in Requests /\ At(t, "idle")
  /\ c \in known
  /\ LET at == CASE label \in {"check", "webrtc"} -> label
                 [] c \in registered              -> label
                 [] OTHER                         -> "remove"
     IN  Move(t, [th[t] EXCEPT !.at = at, !.c = c, !.who = who,
                               !.more = IF at = "end" THEN 1 ELSE 0])
  /\ label \in {"check", "webrtc"} => c \in registered        \* else 404
  /\ UNCHANGED <<phase, lock, registered, media, record, known>>

(* ownerActiveCall returns any call of the operator: this one, perhaps.    *)
CheckOwner(t) ==
  LET c == Call(t)  who == th[t].who IN
  /\ At(t, "check")
  /\ \/ OwnsActiveCall(who, {c}) /\ Rest(t)
     \/ (OwnsActiveCall(who, Calls \ {c}) \/ ~OwnsActiveCall(who, {})) /\ Goto(t, "claim")
  /\ UNCHANGED <<phase, lock, registered, media, record, known>>

SetOwner(t) ==
  LET c == Call(t) IN
  /\ At(t, "claim")
  /\ IF record[c] # NoRecord /\ record[c].owner \in {NoOwner, th[t].who}
     THEN record' = [record EXCEPT ![c].owner = th[t].who] /\ Goto(t, "accept")
     ELSE Rest(t) /\ UNCHANGED record
  /\ UNCHANGED <<phase, lock, registered, media, known>>

AcceptCall(t) ==
  /\ At(t, "accept")
  /\ IF phase[Call(t)] = "incoming_ringing"
     THEN Transition(t, "local_accepted", 0, "idle")
     ELSE lock[Call(t)] = Free /\ Rest(t) /\ UNCHANGED <<phase, lock>>
  /\ UNCHANGED <<registered, media, record, known>>

RejectCall(t) ==
  /\ At(t, "reject")
  /\ Transition(t, "local_rejected", 1, "idle")
  /\ UNCHANGED <<registered, media, record, known>>


EndCall(t) ==
  LET c == Call(t) IN
  /\ At(t, "end")
  /\ IF phase[c] \in {"none", "ended"}
     THEN /\ lock[c] = Free
          /\ IF th[t].more = 0
             THEN Goto(t, "next")
             ELSE Move(t, [th[t] EXCEPT !.at = "remove", !.more = @ - 1])
          /\ UNCHANGED <<phase, lock>>
     ELSE Transition(t, "terminated", th[t].more + 1, th[t].then)
  /\ UNCHANGED <<registered, media, record, known>>

TeardownAllCalls(t) ==
  /\ t \in Requests /\ At(t, "idle")
  /\ registered # {}
  /\ registered' = {}
  /\ Move(t, [th[t] EXCEPT !.at = "drained", !.rest = registered, !.then = "drained"])
  /\ UNCHANGED <<phase, lock, media, record, known>>

Drained(t) ==
  /\ At(t, "drained")
  /\ IF th[t].rest = {}
     THEN Rest(t)
     ELSE \E c \in th[t].rest :
            Move(t, [th[t] EXCEPT !.at = "end", !.c = c, !.rest = @ \ {c}])
  /\ bridged' = bridged \ {Call(t)}
  /\ UNCHANGED <<phase, lock, registered, gone, recorder, audio, record, known>>

------------------------------------------------------------------------------
(* doWebRTC: the browser's leg and the recorder *)

ReadRecorded(t) ==
  LET r == record[Call(t)] IN
  /\ At(t, "webrtc")
  /\ Goto(t, IF r # NoRecord /\ r.recorded THEN "recorder" ELSE "bridge")
  /\ UNCHANGED <<phase, lock, registered, media, record, known>>

NewRecorder(t) ==
  LET c == Call(t) IN
  /\ At(t, "recorder")
  /\ recorder' = [recorder EXCEPT ![c] = "open"]
  /\ audio' = audio \ {c}
  /\ Goto(t, "bridge")
  /\ UNCHANGED <<phase, lock, registered, bridged, gone, record, known>>

(* The old bridge is closed, and reports that as it reports any other loss *)
(* of the browser: its call is ended.                                      *)
SetBridge(t) ==
  LET c == Call(t) IN
  /\ At(t, "bridge")
  /\ IF c \in registered
     THEN /\ bridged' = bridged \cup {c}
          /\ gone' = IF c \in bridged THEN gone \cup {c} ELSE gone
     ELSE UNCHANGED <<bridged, gone>>
  /\ Rest(t)
  /\ UNCHANGED <<phase, lock, registered, recorder, audio, record, known>>

TerminalICE(c) ==
  /\ c \in bridged
  /\ gone' = gone \cup {c}
  /\ UNCHANGED <<phase, lock, registered, bridged, recorder, audio, record, known, th>>

TerminateCall(t, c) ==
  /\ t \in Requests /\ At(t, "idle")
  /\ c \in gone
  /\ gone' = gone \ {c}
  /\ IF c \in registered THEN Move(t, [th[t] EXCEPT !.at = "end", !.c = c]) ELSE UNCHANGED th
  /\ UNCHANGED <<phase, lock, registered, bridged, recorder, audio, record, known>>

(* The browser's microphone is recorded whatever state the call is in. *)
Capture(c) ==
  /\ c \in bridged /\ recorder[c] = "open"
  /\ audio' = audio \cup {c}
  /\ UNCHANGED <<phase, lock, registered, bridged, gone, recorder, record, known, th>>

------------------------------------------------------------------------------
(* OnStateChange of a call that goes on: getCall, then upsertCall *)

ReadRecord(t) ==
  /\ At(t, "read")
  /\ Move(t, [th[t] EXCEPT !.at = "write", !.old = record[Call(t)]])
  /\ UNCHANGED <<phase, lock, registered, media, record, known>>

WriteRecord(t) ==
  LET c == Call(t)  old == th[t].old  status == StatusOf(phase[c]) IN
  /\ At(t, "write")
  /\ record' = [record EXCEPT ![c] =
       IF old # NoRecord
       THEN [old EXCEPT !.status = status]
       ELSE [owner |-> NoOwner, status |-> status, recorded |-> FALSE, url |-> FALSE]]
  /\ known' = known \cup {c}
  /\ Unlock(t)
  /\ Move(t, [th[t] EXCEPT !.at = "next", !.old = NoRecord])
  /\ UNCHANGED <<phase, registered, media>>

------------------------------------------------------------------------------
(* removeCall, and the broker's endCall, which always follows it *)

Remove_StaysRegistered(t) ==
  LET c == Call(t) IN
  /\ At(t, "remove")
  /\ bridged' = bridged \ {c}
  /\ Goto(t, IF c \in registered THEN "close" ELSE "file")
  /\ UNCHANGED <<phase, lock, registered, gone, recorder, audio, record, known>>

Remove(t) ==
  LET c == Call(t) IN
  /\ At(t, "remove")
  /\ registered' = registered \ {c}
  /\ bridged' = IF c \in registered THEN bridged \ {c} ELSE bridged
  /\ Goto(t, IF c \in registered THEN "close" ELSE "file")
  /\ UNCHANGED <<phase, lock, gone, recorder, audio, record, known>>

(* The upload fails, or there is nothing to upload, or it succeeds. *)
CloseRecorder(t) ==
  LET c == Call(t) IN
  /\ At(t, "close")
  /\ recorder' = [recorder EXCEPT ![c] = IF @ = "open" THEN "closed" ELSE @]
  /\ \/ Goto(t, "file")
     \/ recorder[c] = "open" /\ c \in audio /\ Goto(t, "url_read")
  /\ UNCHANGED <<phase, lock, registered, bridged, gone, audio, record, known>>

ReadForUrl(t) ==
  LET r == record[Call(t)] IN
  /\ At(t, "url_read")
  /\ Move(t, [th[t] EXCEPT !.at = IF r = NoRecord THEN "file" ELSE "url_write", !.old = r])
  /\ UNCHANGED <<phase, lock, registered, media, record, known>>

WriteUrl(t) ==
  /\ At(t, "url_write")
  /\ record' = [record EXCEPT ![Call(t)] = [th[t].old EXCEPT !.url = TRUE]]
  /\ Move(t, [th[t] EXCEPT !.at = "file", !.old = NoRecord])
  /\ UNCHANGED <<phase, lock, registered, media, known>>

FileCall_StaysLocked(t) ==
  /\ At(t, "file")
  /\ record' = [record EXCEPT ![Call(t)] = NoRecord]
  /\ Goto(t, "next")
  /\ UNCHANGED <<phase, lock, registered, media, known>>

(* endCall, and the end of the section if this is its callback. *)
FileCall(t) ==
  /\ At(t, "file")
  /\ record' = [record EXCEPT ![Call(t)] = NoRecord]
  /\ Unlock(t)
  /\ Goto(t, "next")
  /\ UNCHANGED <<phase, registered, media, known>>

Proceed(t) ==
  /\ At(t, "next")
  /\ CASE th[t].more > 0       -> Move(t, [th[t] EXCEPT !.at = "remove", !.more = @ - 1])
       [] th[t].then = "idle"  -> Rest(t)
       [] OTHER                -> Goto(t, th[t].then)
  /\ UNCHANGED <<phase, lock, registered, media, record, known>>

------------------------------------------------------------------------------
(* Specification *)

Start(t) ==
  \/ CheckCapacity(t) \/ UnknownPhone(t) \/ \E c \in Placed : CreateCall(t, c)
  \/ StartCall(t) \/ StartFails(t) \/ OfferSent(t)
  \/ \E recorded \in BOOLEAN : RecordStart(t, recorded)

Serve(t) ==
  \/ CheckOwner(t) \/ SetOwner(t) \/ AcceptCall(t) \/ RejectCall(t) \/ EndCall(t) \/ Drained(t)
  \/ ReadRecorded(t) \/ NewRecorder(t) \/ SetBridge(t)

Report(t) ==
  \/ ReadRecord(t) \/ WriteRecord(t)
  \/ Remove(t) \/ CloseRecorder(t) \/ ReadForUrl(t) \/ WriteUrl(t)
  \/ FileCall(t) \/ Proceed(t)

Event ==
  \/ RegisterOffer \/ HandleCallOffer \/ OnIncoming \/ EmitOffer
  \/ HandleCallAccept \/ ConnectAccepted \/ HandleCallTerminate

Arrival ==
  \/ \E t \in Requests, who \in Operators : DoStartCall(t, who)
  \/ \E t \in Requests, who \in Operators, c \in Calls,
       label \in {"check", "reject", "end", "webrtc"} : BeginRequest(t, who, c, label)
  \/ \E t \in Requests : TeardownAllCalls(t)
  \/ \E t \in Requests, c \in Calls : TerminateCall(t, c)
  \/ \E c \in Offered : OnIncomingOffer(c)
  \/ \E c \in Calls, label \in {"peer_accept", "terminate"} : BeginEvent(c, label)
  \/ \E c \in Calls : OnRelayConnected(c) \/ TerminalICE(c) \/ Capture(c)

Next ==
  \/ Arrival
  \/ Event
  \/ \E t \in Requests : Start(t) \/ Serve(t)
  \/ \E t \in Threads : Report(t)

Spec == Init /\ [][Next]_vars

(* A goroutine that can run does, and a query or an upload ends by its     *)
(* timeout.  A request or a handler may wait for a manager's lock that     *)
(* others take again and again (a peer may repeat its acceptance): Go's    *)
(* mutex hands itself over to whoever has waited for a millisecond, which  *)
(* is strong fairness.  Nobody has to call, answer or hang up.             *)
Fairness ==
  /\ \A t \in Requests : SF_vars(Start(t) \/ Serve(t))
  /\ SF_vars(Event)
  /\ \A t \in Threads : WF_vars(Report(t))

FairSpec == Spec /\ Fairness

------------------------------------------------------------------------------
(* Safety *)

(* A call that was shown to the operators and whose manager is still       *)
(* registered can be seen by them: whoever files a record has taken the    *)
(* manager out of the registry before, in all the ways a call may end.     *)
VisibleWhileRegistered ==
  \A c \in known \cap registered : record[c] # NoRecord

(* The status that operators see of an incoming call is the state of its   *)
(* manager, whenever nobody is at work on it: emitState brings the record  *)
(* up to date before the lock is given back.                               *)
StatusIsCurrent ==
  \A c \in Offered \cap registered :
    record[c] # NoRecord /\ lock[c] = Free => record[c].status = StatusOf(phase[c])

(* An incoming call that has ended and still has a record is about to be   *)
(* filed: some thread has removeCall and endCall before it, however the    *)
(* announcement, the end and the operators' requests interleave.           *)
EndedIsFiled ==
  \A c \in Offered :
    phase[c] = "ended" /\ record[c] # NoRecord =>
      \E t \in Threads : Call(t) = c /\ th[t].at \in
        {"emit", "remove", "close", "url_read", "url_write", "file"}

(* One thread at most closes the recorder of a call and publishes its URL, *)
(* although four handlers remove the call and none looks whether another   *)
(* one has.                                                                *)
RemovedByOne ==
  \A t, u \in Threads :
    /\ t # u /\ Call(t) = Call(u)
    /\ th[t].at \in {"close", "url_read", "url_write"}
    => th[u].at \notin {"close", "url_read", "url_write"}

(* The record of an ended call that names its recording does so until it   *)
(* is filed.                                                               *)
UrlStays ==
  \A c \in Calls :
    phase[c] = "ended" /\ record[c] # NoRecord /\ record[c].url =>
      record'[c] = NoRecord \/ record'[c].url


(* Requests count the calls first and register theirs later, so the limit  *)
(* can be passed, but not by more than one call for each goroutine that    *)
(* starts or offers calls, less the one that was let in.                   *)
CapacityBound ==
  Cardinality(registered) <= MaxCalls + Cardinality(Requests)

(* Every request comes to its end, and so does every handler of a stanza:  *)
(* nobody waits for ever for a manager's lock.                             *)
RequestsReturn ==
  \A t \in Requests \cup {"events"} : ~At(t, "idle") ~> At(t, "idle")

------------------------------------------------------------------------------
(* What the documents say *)

Idle == \A t \in Threads : At(t, "idle")

(* broker_test.go:24: the operator of a call that has ended has no active  *)
(* call.  So when all requests and handlers are done, an ended call has no *)
(* record, and no owner.                                                   *)
EndedIsForgotten ==
  Idle => \A c \in Calls : phase[c] = "ended" => record[c] = NoRecord
==============================================================================
