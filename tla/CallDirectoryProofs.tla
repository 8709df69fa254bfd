------------------------- MODULE CallDirectoryProofs -------------------------
(***************************************************************************)
(* Proofs about CallDirectory, for any number of calls, operators and      *)
(* requests.                                                               *)
(***************************************************************************)
EXTENDS CallDirectory, FiniteSetTheorems, TLAPS

------------------------------------------------------------------------------
(* The inductive invariant.                                                *)

Removed == {"close", "url_read", "url_write", "file"}

Reporting == {"read", "write"}

Section == Reporting \cup {"remove"} \cup Removed

(* What a thread carries from one of its steps to the next.                *)
Carries(t) ==
  /\ At(t, "idle") => th[t] = Resting
  /\ th[t].at \notin {"idle", "capacity", "create", "drained"} => Call(t) \in Calls
  /\ th[t].at \in {"capacity", "create"} => th[t].then = "idle"
  /\ At(t, "end") => th[t].more \in {0, 1}
  /\ At(t, "drained") => th[t].more = 0 /\ th[t].then = "drained"
  /\ At(t, "url_write") => th[t].old # NoRecord
  /\ th[t].at \in {"start", "query", "record", "peer_accept"} \/ th[t].then = "record" => Call(t) \in Placed
  /\ th[t].at \in {"register", "offer", "announce", "emit"} => Call(t) \in Offered /\ t = "events"

(* How far the call of a thread has come.                                  *)
Finds(t) ==
  LET c == Call(t) IN
  /\ th[t].at \in {"start", "register", "offer"} => phase[c] = "none"
  /\ th[t].at \in {"query", "peer_accept", "terminate", "announce", "emit", "record", "url_write"} => phase[c] # "none"
  /\ th[t].then = "record" => phase[c] # "none"
  /\ At(t, "announce") => c \notin known
  /\ th[t].at \in {"check", "claim", "accept", "reject", "emit"} => c \in known
  /\ th[t].at \in Reporting =>
       lock[c] = t /\ phase[c] \notin {"none", "ended"} /\ (c \in Offered => c \in known)

(* Whoever removed a call goes on with it unregistered: ids are not used   *)
(* again.                                                                  *)
RemovedIsOut ==
  \A t \in Threads : th[t].at \in Removed => Call(t) \notin registered

(* A manager's lock is held by a thread in OnStateChange of its call.      *)
LocksAreHeld ==
  \A c \in Calls, t \in Threads : lock[c] = t => Call(t) = c /\ th[t].at \in Section

(* A call without a state is known to nobody but the thread that makes it, *)
(* and to those that drained the registry meanwhile.                       *)
Starting(c) == \E t \in Threads : Call(t) = c /\ th[t].at \in {"start", "offer"}

Untouched(c) ==
  phase[c] = "none" =>
    /\ record[c] = NoRecord /\ c \notin known
    /\ Starting(c) \/ (c \notin registered /\ \A t \in Threads : c \notin th[t].rest)

(* Nobody can accept an offer that was not announced.                      *)
UnknownRings(c) ==
  c \in Offered \ known => phase[c] \in {"none", "incoming_ringing", "ended"}

MadeByOne ==
  \A t, u \in Threads : t # u /\ Call(t) = Call(u) =>
    /\ ~At(t, "register")
    /\ At(t, "start") => ~At(u, "start")

Visible(c) == c \in known \cap registered => record[c] # NoRecord

ShowsState(c) ==
  c \in Offered \cap registered /\ record[c] # NoRecord /\ lock[c] = Free =>
    record[c].status = StatusOf(phase[c])

IsFiled(c) ==
  c \in Offered /\ phase[c] = "ended" /\ record[c] # NoRecord =>
    \E t \in Threads : Call(t) = c /\ th[t].at \in Removed \cup {"emit", "remove"}

CallInv(c) == Untouched(c) /\ UnknownRings(c) /\ Visible(c) /\ ShowsState(c) /\ IsFiled(c)

IInv ==
  /\ TypeOK
  /\ \A t \in Threads : Carries(t) /\ Finds(t)
  /\ RemovedIsOut /\ LocksAreHeld /\ MadeByOne
  /\ \A c \in Calls : CallInv(c)

(* The limit: each goroutine that passed the check will register one call. *)
LetIn == {t \in Requests \cup {"events"} : th[t].at \in {"create", "register"}}

CapacityInv ==
  /\ IsFiniteSet(registered)
  /\ Cardinality(registered) + Cardinality(LetIn) <= MaxCalls + Cardinality(Requests)

------------------------------------------------------------------------------
(* Threads.                                                                *)

LEMMA Constants ==
  /\ \A c \in Calls : c # NoCall
  /\ \A t \in Threads : t # Free
  /\ \A c \in Offered : c \in Calls /\ c \notin Placed
  /\ \A c \in Placed : c \in Calls
  /\ "events" \in Threads /\ Requests \subseteq Threads /\ Calls \subseteq Threads
  /\ "events" \notin Requests
BY ConstantAssumption DEF Calls, Threads

LEMMA RestingIsThread == Resting \in Thread
BY DEF Resting, Thread, Labels

LEMMA Moves ==
  ASSUME TypeOK, NEW t \in Threads, NEW r \in Thread, Move(t, r)
  PROVE  /\ th' \in [Threads -> Thread] /\ th'[t] = r
         /\ \A u \in Threads \ {t} : th'[u] = th[u]
BY DEF TypeOK, Move

LEMMA Rests ==
  ASSUME TypeOK, NEW t \in Threads, Rest(t)
  PROVE  /\ th' \in [Threads -> Thread] /\ th'[t] = Resting
         /\ \A u \in Threads \ {t} : th'[u] = th[u]
BY Moves, RestingIsThread DEF Rest

LEMMA Goes ==
  ASSUME TypeOK, NEW t \in Threads, NEW label \in Labels, Goto(t, label)
  PROVE  /\ th' \in [Threads -> Thread]
         /\ \A u \in Threads \ {t} : th'[u] = th[u]
         /\ th'[t].at = label /\ th'[t].c = th[t].c /\ th'[t].who = th[t].who
         /\ th'[t].old = th[t].old /\ th'[t].rest = th[t].rest
         /\ th'[t].more = th[t].more /\ th'[t].then = th[t].then
<1> DEFINE r == [th[t] EXCEPT !.at = label]
<1>1. th[t] \in Thread
  BY DEF TypeOK
<1>2. /\ r \in Thread /\ r.at = label /\ r.c = th[t].c /\ r.who = th[t].who /\ r.old = th[t].old
      /\ r.rest = th[t].rest /\ r.more = th[t].more /\ r.then = th[t].then
  BY <1>1 DEF Thread
<1>3. Move(t, r)
  BY DEF Goto
<1> HIDE DEF r
<1> QED
  BY <1>2, <1>3, Moves

------------------------------------------------------------------------------
(* A step of thread t that changes nothing about any call but c.           *)

LEMMA Step ==
  ASSUME IInv, TypeOK', NEW t \in Threads, NEW c,
         \A u \in Threads \ {t} : th'[u] = th[u],
         Carries(t)', Finds(t)',
         \A d \in Calls \ {c} :
           phase'[d] = phase[d] /\ lock'[d] = lock[d] /\ record'[d] = record[d] /\ (d \in known' <=> d \in known),
         registered' \subseteq registered \cup {c},
         c \in Calls =>
           /\ phase[c] # "none" => phase'[c] # "none"
           /\ phase'[c] # phase[c] => phase[c] = "none" \/ lock[c] = Free
           /\ lock[c] \notin {Free, t} => lock'[c] = lock[c]
           /\ lock'[c] \in {lock[c], t, Free}
           /\ c \in known => c \in known'
           /\ c \in known' => c \in known \/ \A u \in Threads \ {t} : ~(Call(u) = c /\ At(u, "announce"))
           /\ phase'[c] = phase[c] \/ phase[c] # "none"
                \/ \A u \in Threads \ {t} : ~(Call(u) = c /\ th[u].at \in {"start", "register", "offer"})
           /\ c \in registered' => c \in registered \/ \A u \in Threads \ {t} : ~(Call(u) = c /\ th[u].at \in Removed)
           /\ CallInv(c)',
         \A d \in Calls : lock'[d] = t => Call(t)' = d /\ th'[t].at \in Section,
         th'[t].at \in Removed => Call(t)' \notin registered',
         th'[t].rest \subseteq th[t].rest \cup registered,
         th[t].at \in {"start", "offer"} => Call(t) = c,
         \/ th[t].at \notin Removed \cup {"emit", "remove"}
         \/ Call(t) = c
         \/ Call(t)' = Call(t) /\ th'[t].at \in Removed \cup {"emit", "remove"},
         \A u \in Threads \ {t} : Call(u) = Call(t)' =>
           /\ th'[t].at # "register" /\ ~At(u, "register")
           /\ th'[t].at = "start" => ~At(u, "start")
  PROVE  IInv'
<1> USE DEF Call, At
<1>1. TypeOK /\ RemovedIsOut /\ LocksAreHeld /\ MadeByOne /\ \A d \in Calls : CallInv(d)
  BY DEF IInv
<1>2. ASSUME NEW u \in Threads \ {t} PROVE Carries(u)' /\ Finds(u)'
  <2> DEFINE d == th[u].c
  <2>1. Carries(u) /\ Finds(u) /\ th'[u] = th[u]
    BY DEF IInv
  <2>2. Carries(u)'
    BY <2>1 DEF Carries
  <2>3. CASE d \notin Calls
    BY <2>1, <2>2, <2>3, Constants DEF Carries, Finds, Reporting
  <2>4. CASE d \in Calls \ {c}
    BY <2>1, <2>2, <2>4 DEF Finds
  <2>5. CASE d = c /\ c \in Calls
    <3>1. th[u].at \in {"start", "register", "offer"} => phase'[c] = "none"
      BY <2>1, <2>5 DEF Finds
    <3>2. th[u].at = "announce" => c \notin known'
      BY <2>1, <2>5 DEF Finds
    <3>3. ASSUME th[u].at \in Reporting
          PROVE  lock'[c] = u /\ phase'[c] \notin {"none", "ended"} /\ (c \in Offered => c \in known')
      <4>1. lock[c] = u /\ phase[c] \notin {"none", "ended"} /\ (c \in Offered => c \in known)
        BY <2>1, <2>5, <3>3 DEF Finds
      <4>2. u # Free /\ u # t
        BY Constants
      <4> QED
        BY <2>5, <4>1, <4>2
    <3> QED
      BY <2>1, <2>2, <2>5, <3>1, <3>2, <3>3 DEF Finds
  <2> QED
    BY <2>3, <2>4, <2>5
<1>3. \A u \in Threads : Carries(u)' /\ Finds(u)'
  BY <1>2
<1>4. RemovedIsOut'
  <2> SUFFICES ASSUME NEW u \in Threads \ {t}, th[u].at \in Removed PROVE th[u].c \notin registered'
    BY DEF RemovedIsOut
  <2>1. th[u].c \in Calls
    BY DEF IInv, Carries, Removed
  <2>2. th[u].c \notin registered
    BY <1>1 DEF RemovedIsOut
  <2> QED
    BY <2>1, <2>2
<1>5. LocksAreHeld'
  <2> SUFFICES ASSUME NEW d \in Calls, NEW u \in Threads \ {t}, lock'[d] = u
               PROVE  th[u].c = d /\ th[u].at \in Section
    BY DEF LocksAreHeld
  <2>1. u # Free
    BY Constants
  <2>2. lock[d] = u
    BY <2>1
  <2> QED
    BY <1>1, <2>2 DEF LocksAreHeld
<1>6. MadeByOne'
  BY <1>1 DEF MadeByOne
<1>7. ASSUME NEW d \in Calls \ {c} PROVE CallInv(d)'
  <2>1. CallInv(d)
    BY <1>1
  <2>2. d \in registered' => d \in registered
    OBVIOUS
  <2>3. Starting(d) => Starting(d)'
    BY DEF Starting
  <2>4. ASSUME d \notin registered, \A u \in Threads : d \notin th[u].rest
        PROVE  \A u \in Threads : d \notin th'[u].rest
    BY <2>4
  <2>5. Untouched(d)'
    BY <2>1, <2>2, <2>3, <2>4 DEF CallInv, Untouched
  <2>6. UnknownRings(d)' /\ Visible(d)'
    BY <2>1, <2>2 DEF CallInv, UnknownRings, Visible
  <2>7. ShowsState(d)'
    BY <2>1, <2>2 DEF CallInv, ShowsState, StatusOf
  <2>8. IsFiled(d)'
    <3> SUFFICES ASSUME d \in Offered, phase[d] = "ended", record[d] # NoRecord
                 PROVE  \E u \in Threads : th'[u].c = d /\ th'[u].at \in Removed \cup {"emit", "remove"}
      BY DEF IsFiled
    <3>1. PICK u \in Threads : th[u].c = d /\ th[u].at \in Removed \cup {"emit", "remove"}
      BY <2>1 DEF CallInv, IsFiled
    <3>2. CASE u = t
      BY <3>1, <3>2
    <3>3. CASE u # t
      BY <3>1, <3>3
    <3> QED
      BY <3>2, <3>3
  <2> QED
    BY <2>5, <2>6, <2>7, <2>8 DEF CallInv
<1> QED
  BY <1>3, <1>4, <1>5, <1>6, <1>7 DEF IInv

(* An offered call that its handler is about to register is known to no    *)
(* other thread.                                                           *)
LEMMA RegisteringIsAlone ==
  ASSUME IInv, NEW u \in Threads, At(u, "register")
  PROVE  /\ u = "events" /\ Call(u) \in Offered /\ Call(u) \in Calls /\ phase[Call(u)] = "none"
         /\ Call(u) \notin registered /\ Call(u) \notin known
         /\ \A v \in Threads : Call(u) \notin th[v].rest
<1>1. Carries(u) /\ Finds(u)
  BY DEF IInv
<1>2. u = "events" /\ Call(u) \in Offered /\ phase[Call(u)] = "none"
  BY <1>1 DEF Carries, Finds, At
<1>3. Call(u) \in Calls /\ Call(u) \notin Placed
  BY <1>2, Constants
<1>4. Untouched(Call(u))
  BY <1>3 DEF IInv, CallInv
<1>5. ~Starting(Call(u))
  <2> SUFFICES ASSUME NEW v \in Threads, Call(v) = Call(u), th[v].at \in {"start", "offer"} PROVE FALSE
    BY DEF Starting
  <2>1. Carries(v)
    BY DEF IInv
  <2> QED
    BY <1>2, <1>3, <2>1 DEF Carries, At
<1> QED
  BY <1>2, <1>3, <1>4, <1>5 DEF Untouched

(* A thread that is in no section goes on, and leaves calls alone.         *)
LEMMA PrivateStep ==
  ASSUME IInv, TypeOK', NEW t \in Threads, UNCHANGED <<phase, lock, registered, record, known>>,
         \A u \in Threads \ {t} : th'[u] = th[u],
         Carries(t)', Finds(t)',
         th[t].at \notin Section \cup {"start", "offer", "emit"},
         th'[t].at \notin Removed \cup {"start"},
         th'[t].rest \subseteq th[t].rest,
         \/ Call(t)' = Call(t) /\ th'[t].at # "register"
         \/ Call(t)' = NoCall /\ th'[t].at # "register"
         \/ phase[Call(t)'] # "none" /\ th'[t].at # "register"
         \/ Call(t)' \in known \cup registered \cup th[t].rest /\ th'[t].at # "register"
         \/ Fresh(Call(t)')
  PROVE  IInv'
<1> USE Constants DEF Call, At
<1>1. ASSUME NEW u \in Threads \ {t}, th[u].c = th'[t].c
      PROVE  th'[t].at # "register" /\ th[u].at # "register"
  <2>1. th[u].at = "register" => /\ th[u].c \in Calls /\ phase[th[u].c] = "none"
                                 /\ th[u].c \notin known \cup registered \cup th[t].rest
    BY RegisteringIsAlone
  <2>2. th[u].at = "register" => th[u].c # th[t].c
    BY DEF IInv, MadeByOne
  <2>3. ~Fresh(th'[t].c)
    BY <1>1 DEF Fresh
  <2> QED
    BY <1>1, <2>1, <2>2, <2>3
<1>2. \A d \in Calls : lock[d] # t
  BY DEF IInv, LocksAreHeld
<1>3. /\ \A d \in Calls \ {NoCall} : phase'[d] = phase[d] /\ lock'[d] = lock[d] /\ record'[d] = record[d]
                                     /\ (d \in known' <=> d \in known)
      /\ registered' \subseteq registered \cup {NoCall}
      /\ NoCall \notin Calls
  OBVIOUS
<1>4. th[t].at \notin Removed \cup {"emit", "remove"}
  BY DEF Section
<1> QED
  BY <1>1, <1>2, <1>3, <1>4, Step

LEMMA GotoStep ==
  ASSUME IInv, NEW t \in Threads, NEW label \in Labels, Goto(t, label),
         UNCHANGED <<phase, lock, registered, record, known>>,
         bridged' \subseteq Calls, gone' \subseteq Calls, audio' \subseteq Calls,
         recorder' \in [Calls -> {"none", "open", "closed"}],
         th[t].at \notin Section \cup {"start", "offer", "emit", "idle"},
         label \in {"create", "claim", "recorder", "bridge", "next"},
         label = "create" => At(t, "capacity"),
         label # "create" => Call(t) \in Calls,
         label = "claim" => Call(t) \in known
  PROVE  IInv'
<1>1. TypeOK /\ Carries(t) /\ Finds(t)
  BY DEF IInv
<1>2. /\ th' \in [Threads -> Thread]
      /\ \A u \in Threads \ {t} : th'[u] = th[u]
      /\ th'[t].at = label /\ th'[t].c = th[t].c /\ th'[t].rest = th[t].rest
      /\ th'[t].more = th[t].more /\ th'[t].then = th[t].then
  BY <1>1, Goes
<1>3. TypeOK'
  BY <1>1, <1>2 DEF TypeOK
<1>4. Carries(t)'
  BY <1>1, <1>2 DEF Carries, At, Call
<1>5. Finds(t)'
  BY <1>1, <1>2 DEF Finds, At, Call, Reporting
<1>6. label \notin Removed \cup {"start"} /\ label # "register" /\ Call(t)' = Call(t)
  BY <1>2 DEF Removed, Call
<1> QED
  BY <1>2, <1>3, <1>4, <1>5, <1>6, PrivateStep

LEMMA RestStep ==
  ASSUME IInv, NEW t \in Threads, Rest(t),
         UNCHANGED <<phase, lock, registered, record, known>>,
         bridged' \subseteq Calls, gone' \subseteq Calls, audio' \subseteq Calls,
         recorder' \in [Calls -> {"none", "open", "closed"}],
         th[t].at \notin Section \cup {"start", "offer", "emit"}
  PROVE  IInv'
<1>1. TypeOK
  BY DEF IInv
<1>2. /\ th' \in [Threads -> Thread]
      /\ \A u \in Threads \ {t} : th'[u] = th[u]
      /\ th'[t] = Resting
  BY <1>1, Rests
<1>3. /\ th'[t].at = "idle" /\ th'[t].c = NoCall /\ th'[t].rest = {} /\ th'[t].then = "idle"
      /\ Resting' = Resting
  BY <1>2 DEF Resting
<1>4. TypeOK'
  BY <1>1, <1>2 DEF TypeOK
<1>5. Carries(t)' /\ Finds(t)'
  BY <1>2, <1>3 DEF Carries, Finds, At, Reporting
<1> QED
  BY <1>2, <1>3, <1>4, <1>5, PrivateStep DEF Call, Removed

(* A thread at rest takes up something to do.                              *)
LEMMA BeginStep ==
  ASSUME IInv, NEW t \in Threads, At(t, "idle"), NEW r \in Thread, Move(t, r),
         UNCHANGED <<phase, lock, registered, record, known, bridged, recorder, audio>>, gone' \subseteq Calls,
         r.old = NoRecord, r.rest = {}, r.then = "idle",
         \/ r.at = "capacity" /\ r.c = NoCall
         \/ r.at = "register" /\ t = "events" /\ r.c \in Offered /\ Fresh(r.c)
         \/ r.at \in {"peer_accept", "terminate"} /\ r.c \in Calls /\ phase[r.c] # "none"
              /\ (r.at = "peer_accept" => r.c \in Placed)
         \/ r.at \in {"check", "webrtc", "reject", "remove"} /\ r.c \in known
         \/ r.at = "end" /\ r.c \in registered \cup known /\ r.more \in {0, 1}
  PROVE  IInv'
<1>1. TypeOK
  BY DEF IInv
<1>2. /\ th' \in [Threads -> Thread] /\ th'[t] = r
      /\ \A u \in Threads \ {t} : th'[u] = th[u]
  BY <1>1, Moves
<1>3. TypeOK'
  BY <1>1, <1>2 DEF TypeOK
<1>4. r.c \in Calls \/ r.at = "capacity"
  BY <1>1, Constants DEF TypeOK
<1>5. Carries(t)'
  BY <1>2, <1>4 DEF Carries, At, Call
<1>6. Finds(t)'
  BY <1>2 DEF Finds, At, Call, Reporting, Fresh
<1>7. th[t].at \notin Section \cup {"start", "offer", "emit"}
  BY DEF At, Section, Reporting, Removed
<1>8. r.at \notin Removed \cup {"start"}
  BY DEF Removed
<1> QED
  BY <1>2, <1>3, <1>5, <1>6, <1>7, <1>8, PrivateStep DEF Call

------------------------------------------------------------------------------
(* Requests and stanzas begin.                                             *)

LEMMA BeginsStep ==
  ASSUME IInv, NEW t \in Threads, NEW c \in Calls \cup {NoCall}, NEW who \in Operators \cup {NoOwner},
         \/ DoStartCall(t, who)
         \/ c \in Offered /\ OnIncomingOffer(c) /\ t = "events"
         \/ c \in Calls /\ \E label \in {"peer_accept", "terminate"} : BeginEvent(c, label) /\ t = "events"
         \/ \E label \in {"check", "reject", "end", "webrtc"} : BeginRequest(t, who, c, label)
  PROVE  IInv'
<1>1. TypeOK /\ Carries(t)
  BY DEF IInv
<1>2. ASSUME At(t, "idle")
      PROVE  /\ th[t] \in Thread /\ th[t].c = NoCall /\ th[t].old = NoRecord
             /\ th[t].rest = {} /\ th[t].more = 0 /\ th[t].then = "idle"
  <2>1. th[t] = Resting
    BY <1>1, <1>2 DEF Carries
  <2> QED
    BY <2>1, RestingIsThread DEF Resting
<1>3. CASE DoStartCall(t, who)
  <2> DEFINE r == [th[t] EXCEPT !.at = "capacity", !.who = who]
  <2>1. At(t, "idle") /\ Move(t, r) /\ UNCHANGED <<phase, lock, registered, media, record, known>>
    BY <1>3 DEF DoStartCall
  <2>2. /\ r \in Thread /\ r.at = "capacity" /\ r.c = NoCall /\ r.old = NoRecord /\ r.rest = {} /\ r.then = "idle"
    BY <1>2, <2>1 DEF Thread, Labels
  <2> HIDE DEF r
  <2> QED
    BY <1>1, <2>1, <2>2, BeginStep DEF media, TypeOK
<1>4. CASE c \in Offered /\ OnIncomingOffer(c) /\ t = "events"
  <2> DEFINE r == [th[t] EXCEPT !.at = "register", !.c = c]
  <2>1. At(t, "idle") /\ Move(t, r) /\ Fresh(c) /\ UNCHANGED <<phase, lock, registered, media, record, known>>
    BY <1>4 DEF OnIncomingOffer
  <2>2. /\ r \in Thread /\ r.at = "register" /\ r.c = c /\ r.old = NoRecord /\ r.rest = {} /\ r.then = "idle"
    BY <1>2, <2>1 DEF Thread, Labels
  <2> HIDE DEF r
  <2> QED
    BY <1>1, <1>4, <2>1, <2>2, BeginStep DEF media, TypeOK
<1>5. ASSUME NEW label \in {"peer_accept", "terminate"}, c \in Calls, BeginEvent(c, label), t = "events" PROVE IInv'
  <2> DEFINE r == [th[t] EXCEPT !.at = label, !.c = c]
  <2>1. /\ At(t, "idle") /\ Move(t, r) /\ phase[c] # "none"
        /\ label = "peer_accept" => c \in Placed
        /\ UNCHANGED <<phase, lock, registered, media, record, known>>
    BY <1>5 DEF BeginEvent
  <2>2. /\ r \in Thread /\ r.at = label /\ r.c = c /\ r.old = NoRecord /\ r.rest = {} /\ r.then = "idle"
    BY <1>2, <2>1 DEF Thread, Labels
  <2> HIDE DEF r
  <2> QED
    BY <1>1, <1>5, <2>1, <2>2, BeginStep DEF media, TypeOK
<1>6. ASSUME NEW label \in {"check", "reject", "end", "webrtc"}, BeginRequest(t, who, c, label) PROVE IInv'
  <2>1. PICK at \in {"check", "webrtc", "reject", "end", "remove"}, more \in {0, 1} :
          Move(t, [th[t] EXCEPT !.at = at, !.c = c, !.who = who, !.more = more])
    BY <1>6 DEF BeginRequest
  <2> DEFINE r == [th[t] EXCEPT !.at = at, !.c = c, !.who = who, !.more = more]
  <2>2. At(t, "idle") /\ c \in known /\ UNCHANGED <<phase, lock, registered, media, record, known>>
    BY <1>6 DEF BeginRequest
  <2>3. /\ r \in Thread /\ r.at = at /\ r.c = c /\ r.old = NoRecord /\ r.rest = {} /\ r.then = "idle"
        /\ r.more \in {0, 1}
    <3>1. th[t] \in Thread /\ more \in 0..2
      BY <1>2, <2>2
    <3>2. r \in Thread
      BY <3>1 DEF Thread, Labels
    <3>3. r.at = at /\ r.c = c /\ r.more = more
      BY <3>1 DEF Thread
    <3>4. r.old = th[t].old /\ r.rest = th[t].rest /\ r.then = th[t].then
      BY <3>1 DEF Thread
    <3> QED
      BY <1>2, <2>2, <3>2, <3>3, <3>4
  <2>4. Move(t, r)
    BY <2>1
  <2> HIDE DEF r
  <2> QED
    BY <1>1, <2>2, <2>3, <2>4, BeginStep DEF media, TypeOK
<1> QED
  BY <1>3, <1>4, <1>5, <1>6

LEMMA TerminateCallStep ==
  ASSUME IInv, NEW t \in Threads, NEW c \in Calls, TerminateCall(t, c)
  PROVE  IInv'
<1>1. TypeOK /\ Carries(t)
  BY DEF IInv
<1>2. /\ At(t, "idle") /\ gone' = gone \ {c}
      /\ UNCHANGED <<phase, lock, registered, bridged, recorder, audio, record, known>>
  BY DEF TerminateCall
<1>3. CASE c \in registered
  <2> DEFINE r == [th[t] EXCEPT !.at = "end", !.c = c]
  <2>1. Move(t, r)
    BY <1>3 DEF TerminateCall
  <2>2. th[t] = Resting /\ th[t] \in Thread
    BY <1>1, <1>2 DEF Carries, TypeOK
  <2>3. /\ r \in Thread /\ r.at = "end" /\ r.c = c /\ r.old = NoRecord /\ r.rest = {} /\ r.then = "idle"
        /\ r.more = 0
    <3>1. r \in Thread
      BY <2>2 DEF Thread, Labels
    <3>2. r.at = "end" /\ r.c = c
      BY <2>2 DEF Thread
    <3>3. r.old = th[t].old /\ r.rest = th[t].rest /\ r.then = th[t].then /\ r.more = th[t].more
      BY <2>2 DEF Thread
    <3> QED
      BY <2>2, <3>1, <3>2, <3>3 DEF Resting
  <2> HIDE DEF r
  <2> QED
    BY <1>1, <1>2, <1>3, <2>1, <2>3, BeginStep DEF TypeOK
<1>4. CASE UNCHANGED th
  <2>1. th'[t].at = "idle" /\ th'[t].rest = {}
    BY <1>1, <1>2, <1>4 DEF Carries, At, Resting
  <2>2. TypeOK'
    BY <1>1, <1>2, <1>4 DEF TypeOK
  <2>3. Carries(t)' /\ Finds(t)'
    BY <1>1, <1>2, <1>4 DEF IInv, Carries, Finds, At, Call, Resting
  <2> QED
    BY <1>1, <1>2, <1>4, <2>1, <2>2, <2>3, PrivateStep DEF At, Call, Section, Removed, Reporting
<1> QED
  BY <1>3, <1>4 DEF TerminateCall

(* A browser's loss and its samples change the media only; a step that     *)
(* changes nothing is treated alike.                                       *)
LEMMA MediaStep ==
  ASSUME IInv, NEW c, TerminalICE(c) \/ Capture(c) \/ UNCHANGED vars
  PROVE  IInv'
<1>1. UNCHANGED <<phase, lock, registered, record, known, th>>
  BY DEF TerminalICE, Capture, vars
<1>2. TypeOK'
  BY DEF IInv, TypeOK, TerminalICE, Capture, vars, media
<1>3. ASSUME NEW t \in Threads PROVE Carries(t)' /\ Finds(t)'
  <2>1. Carries(t) /\ Finds(t)
    BY DEF IInv
  <2> QED
    BY <1>1, <2>1 DEF Carries, Finds, At, Call, Resting, Reporting
<1>4. RemovedIsOut' /\ LocksAreHeld' /\ MadeByOne'
  BY <1>1 DEF IInv, RemovedIsOut, LocksAreHeld, MadeByOne, At, Call
<1>5. \A d \in Calls : CallInv(d)'
  BY <1>1 DEF IInv, CallInv, Untouched, Starting, UnknownRings, Visible, ShowsState, IsFiled, StatusOf, Call
<1> QED
  BY <1>2, <1>3, <1>4, <1>5 DEF IInv

------------------------------------------------------------------------------
(* Requests go on, outside the manager's lock.                             *)

LEMMA ChecksStep ==
  ASSUME IInv, NEW t \in Threads,
         CheckCapacity(t) \/ UnknownPhone(t) \/ CheckOwner(t) \/ ReadRecorded(t) \/ NewRecorder(t) \/ SetBridge(t)
  PROVE  IInv'
<1>1. TypeOK /\ Carries(t) /\ Finds(t)
  BY DEF IInv
<1> USE <1>1 DEF At, Call, TypeOK, media, Labels, Section, Removed, Reporting
<1>2. CASE CheckCapacity(t)
  BY <1>2, GotoStep, RestStep DEF CheckCapacity
<1>3. CASE UnknownPhone(t)
  BY <1>3, RestStep DEF UnknownPhone
<1>4. CASE CheckOwner(t)
  <2>1. th[t].c \in Calls /\ th[t].c \in known
    BY <1>4 DEF CheckOwner, Carries, Finds
  <2> QED
    BY <1>4, <2>1, GotoStep, RestStep DEF CheckOwner
<1>5. CASE ReadRecorded(t)
  <2>1. th[t].c \in Calls
    BY <1>5 DEF ReadRecorded, Carries
  <2> QED
    BY <1>5, <2>1, GotoStep DEF ReadRecorded
<1>6. CASE NewRecorder(t)
  <2>1. th[t].c \in Calls
    BY <1>6 DEF NewRecorder, Carries
  <2> QED
    BY <1>6, <2>1, GotoStep DEF NewRecorder
<1>7. CASE SetBridge(t)
  <2>1. th[t].c \in Calls
    BY <1>7 DEF SetBridge, Carries
  <2>2. Rest(t) /\ bridged' \subseteq Calls /\ gone' \subseteq Calls
    BY <1>7, <2>1 DEF SetBridge
  <2> QED
    BY <1>7, <2>1, <2>2, RestStep DEF SetBridge
<1> QED
  BY <1>2, <1>3, <1>4, <1>5, <1>6, <1>7

------------------------------------------------------------------------------
(* Requests and stanzas that change a call's state.                        *)

LEMMA TransitionStep ==
  ASSUME IInv, NEW t \in Threads,
         NEW transition \in {"offer_sent", "remote_accepted", "local_accepted", "local_rejected",
                             "media_connected", "terminated"},
         NEW more \in 0..2, NEW then \in {"idle", "record", "connect", "drained"},
         Transition(t, transition, more, then), UNCHANGED <<registered, media, record, known>>,
         th[t].at \notin Section \cup {"start", "offer", "emit"},
         Call(t) \in Calls, phase[Call(t)] # "none",
         then = "record" => Call(t) \in Placed,
         transition = "terminated" \/ (Call(t) \in Offered => Call(t) \in known)
  PROVE  IInv'
<1>1. PICK c \in Calls : c = Call(t)
  OBVIOUS
<1> DEFINE p == IF phase[c] \in CS!Source[transition] THEN CS!Target[transition] ELSE phase[c]
           at == IF p = "ended" THEN "remove" ELSE "read"
           r == [th[t] EXCEPT !.at = at, !.more = more, !.then = then]
<1>2. TypeOK /\ Carries(t) /\ Finds(t) /\ CallInv(c)
  BY <1>1 DEF IInv
<1>3. /\ lock[c] = Free /\ phase' = [phase EXCEPT ![c] = p] /\ lock' = [lock EXCEPT ![c] = t]
      /\ Move(t, r) /\ UNCHANGED <<registered, bridged, gone, recorder, audio, record, known>>
  BY <1>1 DEF Transition, media
<1>4. p \in CS!States /\ p # "none" /\ (transition = "terminated" => p = "ended")
  <2>1. phase[c] \in CS!States
    BY <1>1, <1>2 DEF TypeOK
  <2> QED
    BY <2>1 DEF CS!States, CS!Source, CS!Target
<1> HIDE DEF p
<1>5. at \in {"remove", "read"} /\ (at = "remove" <=> p = "ended")
  OBVIOUS
<1> HIDE DEF at
<1>6. /\ r \in Thread /\ r.at = at /\ r.c = c /\ r.rest = th[t].rest /\ r.then = then
  <2>1. th[t] \in Thread
    BY <1>2 DEF TypeOK
  <2>2. r \in Thread
    BY <1>5, <2>1 DEF Thread, Labels
  <2>3. r.at = at /\ r.then = then
    BY <2>1 DEF Thread
  <2>4. r.c = th[t].c /\ r.rest = th[t].rest
    BY <2>1 DEF Thread
  <2> QED
    BY <1>1, <2>2, <2>3, <2>4 DEF Call
<1> HIDE DEF r
<1>7. /\ th' \in [Threads -> Thread] /\ th'[t] = r
      /\ \A u \in Threads \ {t} : th'[u] = th[u]
  BY <1>2, <1>3, <1>6, Moves
<1>8. phase'[c] = p /\ lock'[c] = t /\ \A d \in Calls \ {c} : phase'[d] = phase[d] /\ lock'[d] = lock[d]
  BY <1>2, <1>3 DEF TypeOK
<1>9. TypeOK'
  <2>1. phase' \in [Calls -> CS!States \cup {"none"}]
    BY <1>2, <1>3, <1>4 DEF TypeOK
  <2>2. CS!States' = CS!States
    BY DEF CS!States
  <2> QED
    BY <1>2, <1>3, <1>7, <2>1, <2>2 DEF TypeOK
<1>10. Carries(t)'
  BY <1>1, <1>5, <1>6, <1>7 DEF Carries, At, Call
<1>11. Finds(t)'
  <2>1. c \in Offered /\ p # "ended" => c \in known
    BY <1>1, <1>4
  <2> QED
    BY <1>1, <1>3, <1>4, <1>5, <1>6, <1>7, <1>8, <2>1 DEF Finds, At, Call, Reporting
<1>12. CallInv(c)'
  <2>1. Untouched(c)' /\ Visible(c)'
    BY <1>2, <1>3, <1>4, <1>8 DEF CallInv, Untouched, Visible
  <2>2. UnknownRings(c)'
    BY <1>1, <1>3, <1>4, <1>8 DEF UnknownRings
  <2>3. ShowsState(c)'
    BY <1>8, Constants DEF ShowsState
  <2>4. IsFiled(c)'
    BY <1>5, <1>6, <1>7, <1>8 DEF IsFiled, Call
  <2> QED
    BY <2>1, <2>2, <2>3, <2>4 DEF CallInv
<1>13. \A d \in Calls : lock[d] # t
  BY DEF IInv, LocksAreHeld
<1>14. \A u \in Threads \ {t} : Call(u) = c => ~At(u, "register")
  BY <1>1 DEF IInv, MadeByOne
<1>15. /\ Call(t)' = c /\ th'[t].at = at /\ th'[t].rest = th[t].rest
  BY <1>6, <1>7 DEF Call
<1>16. at \in Section /\ at \notin Removed /\ at # "register" /\ at # "start"
  BY <1>5 DEF Section, Removed, Reporting
<1>17. /\ \A d \in Calls \ {c} : phase'[d] = phase[d] /\ lock'[d] = lock[d] /\ record'[d] = record[d]
                                 /\ (d \in known' <=> d \in known)
       /\ registered' \subseteq registered \cup {c} /\ c \in Calls
  BY <1>3, <1>8
<1>18. /\ phase[c] # "none" => phase'[c] # "none"
       /\ phase'[c] # phase[c] => phase[c] = "none" \/ lock[c] = Free
       /\ lock[c] \notin {Free, t} => lock'[c] = lock[c]
       /\ lock'[c] \in {lock[c], t, Free}
       /\ c \in known => c \in known'
       /\ c \in known' => c \in known
       /\ phase[c] # "none"
       /\ c \in registered' => c \in registered
  BY <1>1, <1>3, <1>4, <1>8
<1>19. \A d \in Calls : lock'[d] = t => Call(t)' = d /\ th'[t].at \in Section
  BY <1>8, <1>13, <1>15, <1>16
<1> QED
  BY <1>1, <1>7, <1>9, <1>10, <1>11, <1>12, <1>14, <1>15, <1>16, <1>17, <1>18, <1>19, Step

(* A thread that is not in a section has the call it names.                *)
LEMMA OfferSentStep ==
  ASSUME IInv, NEW t \in Requests, OfferSent(t) PROVE IInv'
<1>1. Carries(t) /\ Finds(t) /\ t \in Threads
  BY Constants DEF IInv
<1>2. Transition(t, "offer_sent", 0, "record") /\ UNCHANGED <<registered, media, record, known>> /\ th[t].at = "query"
  BY DEF OfferSent, At
<1>3. Call(t) \in Calls /\ phase[Call(t)] # "none" /\ Call(t) \in Placed
  BY <1>1, <1>2 DEF Carries, Finds, At
<1> QED
  BY <1>1, <1>2, <1>3, TransitionStep, Constants DEF Section, Removed, Reporting

LEMMA HandleAcceptStep ==
  ASSUME IInv, HandleCallAccept \/ HandleCallTerminate PROVE IInv'
<1>1. "events" \in Threads /\ Carries("events") /\ Finds("events")
  BY Constants DEF IInv
<1>2. CASE HandleCallAccept
  <2>1. /\ Transition("events", "remote_accepted", 0, "connect") /\ UNCHANGED <<registered, media, record, known>>
        /\ th["events"].at = "peer_accept"
    BY <1>2 DEF HandleCallAccept, At
  <2>2. Call("events") \in Calls /\ phase[Call("events")] # "none" /\ Call("events") \in Placed
    BY <1>1, <2>1 DEF Carries, Finds, At
  <2> QED
    BY <1>1, <2>1, <2>2, TransitionStep, Constants DEF Section, Removed, Reporting
<1>3. CASE HandleCallTerminate
  <2>1. /\ Transition("events", "terminated", 1, "idle") /\ UNCHANGED <<registered, media, record, known>>
        /\ th["events"].at = "terminate"
    BY <1>3 DEF HandleCallTerminate, At
  <2>2. Call("events") \in Calls /\ phase[Call("events")] # "none"
    BY <1>1, <2>1 DEF Carries, Finds, At
  <2> QED
    BY <1>1, <2>1, <2>2, TransitionStep DEF Section, Removed, Reporting
<1> QED
  BY <1>2, <1>3

LEMMA ConnectAcceptedStep ==
  ASSUME IInv, ConnectAccepted PROVE IInv'
<1> DEFINE t == "events"
<1>1. t \in Threads /\ Carries(t) /\ TypeOK
  BY Constants DEF IInv
<1>2. th[t].at = "connect" /\ UNCHANGED <<registered, media, record, known>> /\ Call(t) \in Calls
  BY <1>1 DEF ConnectAccepted, At, Carries
<1>3. th[t].at \notin Section \cup {"start", "offer", "emit"}
  BY <1>2 DEF Section, Removed, Reporting
<1>4. CASE phase[Call(t)] = "connecting" /\ Transition(t, "media_connected", 0, "idle")
  <2>1. UnknownRings(Call(t))
    BY <1>2 DEF IInv, CallInv
  <2>2. Call(t) \in Offered => Call(t) \in known
    BY <1>4, <2>1 DEF UnknownRings
  <2> QED
    BY <1>1, <1>2, <1>3, <1>4, <2>2, TransitionStep
<1>5. CASE Rest(t) /\ UNCHANGED <<phase, lock>>
  BY <1>1, <1>2, <1>3, <1>5, RestStep DEF media, TypeOK
<1> QED
  BY <1>4, <1>5 DEF ConnectAccepted

LEMMA AnswerStep ==
  ASSUME IInv, NEW t \in Requests, AcceptCall(t) \/ RejectCall(t) PROVE IInv'
<1>1. t \in Threads /\ Carries(t) /\ Finds(t) /\ TypeOK
  BY Constants DEF IInv
<1>2. th[t].at \in {"accept", "reject"} /\ UNCHANGED <<registered, media, record, known>>
  BY DEF AcceptCall, RejectCall, At
<1>3. Call(t) \in Calls /\ Call(t) \in known
  BY <1>1, <1>2 DEF Carries, Finds
<1>4. phase[Call(t)] # "none"
  BY <1>3 DEF IInv, CallInv, Untouched
<1>5. th[t].at \notin Section \cup {"start", "offer", "emit"}
  BY <1>2 DEF Section, Removed, Reporting
<1>6. CASE Transition(t, "local_accepted", 0, "idle")
  BY <1>1, <1>2, <1>3, <1>4, <1>5, <1>6, TransitionStep
<1>7. CASE Transition(t, "local_rejected", 1, "idle")
  BY <1>1, <1>2, <1>3, <1>4, <1>5, <1>7, TransitionStep
<1>8. CASE Rest(t) /\ UNCHANGED <<phase, lock>>
  BY <1>1, <1>2, <1>5, <1>8, RestStep DEF media, TypeOK
<1> QED
  BY <1>6, <1>7, <1>8 DEF AcceptCall, RejectCall

LEMMA EndCallStep ==
  ASSUME IInv, NEW t \in Requests, EndCall(t) PROVE IInv'
<1>1. t \in Threads /\ Carries(t) /\ Finds(t) /\ TypeOK /\ th[t] \in Thread
  BY Constants DEF IInv, TypeOK
<1>2. PICK c \in Calls : c = Call(t)
  BY <1>1 DEF EndCall, At, Carries
<1>3. th[t].at = "end" /\ th[t].more \in {0, 1} /\ UNCHANGED <<registered, media, record, known>>
  BY <1>1 DEF EndCall, At, Carries
<1>4. th[t].at \notin Section \cup {"start", "offer", "emit"}
  BY <1>3 DEF Section, Removed, Reporting
<1>5. CASE Goto(t, "next") /\ UNCHANGED <<phase, lock>>
  BY <1>1, <1>2, <1>3, <1>4, <1>5, GotoStep DEF Labels, media, TypeOK
<1>6. CASE th[t].more = 1 /\ Move(t, [th[t] EXCEPT !.at = "remove", !.more = @ - 1]) /\ UNCHANGED <<phase, lock>>
  <2> DEFINE r == [th[t] EXCEPT !.at = "remove", !.more = 0]
  <2>1. Move(t, r)
    BY <1>6
  <2>2. r \in Thread /\ r.at = "remove" /\ r.c = th[t].c /\ r.rest = th[t].rest /\ r.then = th[t].then
    <3> 0 \in 0..2
      OBVIOUS
    <3>1. r \in Thread
      BY <1>1 DEF Thread, Labels
    <3>2. r.at = "remove" /\ r.c = th[t].c /\ r.rest = th[t].rest /\ r.then = th[t].then
      BY <1>1 DEF Thread
    <3> QED
      BY <3>1, <3>2
  <2> HIDE DEF r
  <2>3. th' \in [Threads -> Thread] /\ th'[t] = r /\ \A u \in Threads \ {t} : th'[u] = th[u]
    BY <1>1, <2>1, <2>2, Moves
  <2>4. TypeOK'
    BY <1>1, <1>3, <1>6, <2>3 DEF TypeOK, media
  <2>5. Carries(t)'
    BY <1>1, <1>2, <2>2, <2>3 DEF Carries, At, Call
  <2>6. Finds(t)'
    BY <1>1, <1>3, <1>6, <2>2, <2>3 DEF Finds, At, Call, Reporting
  <2>7. Call(t)' = Call(t) /\ th'[t].at = "remove"
    BY <2>2, <2>3 DEF Call
  <2> QED
    BY <1>1, <1>3, <1>4, <1>6, <2>2, <2>3, <2>4, <2>5, <2>6, <2>7, PrivateStep DEF Removed
<1>7. CASE phase[c] \notin {"none", "ended"} /\ Transition(t, "terminated", th[t].more + 1, th[t].then)
  <2>1. /\ th[t].more + 1 \in 0..2 /\ th[t].then \in {"idle", "record", "connect", "drained"}
        /\ th[t].then = "record" => Call(t) \in Placed
    BY <1>1, <1>3 DEF Thread, Carries
  <2> QED
    BY <1>1, <1>2, <1>3, <1>4, <1>7, <2>1, TransitionStep
<1> QED
  BY <1>2, <1>3, <1>5, <1>6, <1>7 DEF EndCall

LEMMA DrainedStep ==
  ASSUME IInv, NEW t \in Requests, Drained(t) PROVE IInv'
<1>1. t \in Threads /\ Carries(t) /\ TypeOK /\ th[t] \in Thread
  BY Constants DEF IInv, TypeOK
<1>2. /\ th[t].at = "drained" /\ th[t].more = 0 /\ th[t].then = "drained"
      /\ bridged' \subseteq Calls
      /\ UNCHANGED <<phase, lock, registered, gone, recorder, audio, record, known>>
  BY <1>1 DEF Drained, At, Carries, TypeOK
<1>3. th[t].at \notin Section \cup {"start", "offer", "emit"}
  BY <1>2 DEF Section, Removed, Reporting
<1>4. CASE Rest(t)
  BY <1>1, <1>2, <1>3, <1>4, RestStep DEF TypeOK
<1>5. ASSUME NEW c \in th[t].rest, Move(t, [th[t] EXCEPT !.at = "end", !.c = c, !.rest = @ \ {c}])
      PROVE  IInv'
  <2> DEFINE left == th[t].rest \ {c}
             r == [th[t] EXCEPT !.at = "end", !.c = c, !.rest = left]
  <2>1. Move(t, r)
    BY <1>5
  <2>2. /\ r \in Thread /\ r.at = "end" /\ r.c = c /\ r.rest = left /\ r.then = "drained" /\ r.more = 0
        /\ c \in Calls
    <3>1. c \in Calls /\ left \subseteq Calls
      BY <1>1 DEF Thread
    <3>2. r \in Thread
      BY <1>1, <3>1 DEF Thread, Labels
    <3>3. r.at = "end" /\ r.c = c /\ r.rest = left /\ r.then = th[t].then /\ r.more = th[t].more
      BY <1>1 DEF Thread
    <3> QED
      BY <1>2, <3>1, <3>2, <3>3
  <2>3. left \subseteq th[t].rest
    OBVIOUS
  <2> HIDE DEF r, left
  <2>4. th' \in [Threads -> Thread] /\ th'[t] = r /\ \A u \in Threads \ {t} : th'[u] = th[u]
    BY <1>1, <2>1, <2>2, Moves
  <2>5. TypeOK'
    BY <1>1, <1>2, <2>4 DEF TypeOK
  <2>6. Carries(t)' /\ Finds(t)'
    BY <2>2, <2>4 DEF Carries, Finds, At, Call, Reporting
  <2>7. Call(t)' \in known \cup registered \cup th[t].rest /\ th'[t].at = "end" /\ th'[t].rest \subseteq th[t].rest
    BY <2>2, <2>3, <2>4 DEF Call
  <2> QED
    BY <1>1, <1>2, <1>3, <2>4, <2>5, <2>6, <2>7, PrivateStep DEF Removed
<1> QED
  BY <1>4, <1>5 DEF Drained

LEMMA ProceedStep ==
  ASSUME IInv, NEW t \in Threads, Proceed(t) PROVE IInv'
<1>1. Carries(t) /\ Finds(t) /\ TypeOK /\ th[t] \in Thread
  BY DEF IInv, TypeOK
<1>2. /\ th[t].at = "next" /\ Call(t) \in Calls
      /\ UNCHANGED <<phase, lock, registered, bridged, gone, recorder, audio, record, known>>
  BY <1>1 DEF Proceed, At, Carries, media
<1>3. th[t].at \notin Section \cup {"start", "offer", "emit"}
  BY <1>2 DEF Section, Removed, Reporting
<1>4. CASE Rest(t)
  BY <1>1, <1>2, <1>3, <1>4, RestStep DEF TypeOK
<1>5. ASSUME NEW at \in {"remove", "record", "connect", "drained"}, NEW more \in 0..2,
             Move(t, [th[t] EXCEPT !.at = at, !.more = more]),
             at # "remove" => at = th[t].then /\ more = 0
      PROVE  IInv'
  <2> DEFINE r == [th[t] EXCEPT !.at = at, !.more = more]
  <2>1. /\ r \in Thread /\ r.at = at /\ r.c = th[t].c /\ r.rest = th[t].rest /\ r.then = th[t].then
        /\ r.more = more
    <3>1. r \in Thread
      BY <1>1 DEF Thread, Labels
    <3>2. r.at = at /\ r.more = more
      BY <1>1 DEF Thread
    <3>3. r.c = th[t].c /\ r.rest = th[t].rest /\ r.then = th[t].then
      BY <1>1 DEF Thread
    <3> QED
      BY <3>1, <3>2, <3>3
  <2>2. Move(t, r)
    BY <1>5
  <2> HIDE DEF r
  <2>3. th' \in [Threads -> Thread] /\ th'[t] = r /\ \A u \in Threads \ {t} : th'[u] = th[u]
    BY <1>1, <2>1, <2>2, Moves
  <2>4. TypeOK'
    BY <1>1, <1>2, <2>3 DEF TypeOK
  <2>5. Carries(t)'
    BY <1>1, <1>2, <1>5, <2>1, <2>3 DEF Carries, At, Call
  <2>6. Finds(t)'
    BY <1>1, <1>2, <1>5, <2>1, <2>3 DEF Finds, At, Call, Reporting
  <2>7. Call(t)' = Call(t) /\ th'[t].at \in {"remove", "record", "connect", "drained"}
    BY <2>1, <2>3 DEF Call
  <2> QED
    BY <1>1, <1>2, <1>3, <2>1, <2>3, <2>4, <2>5, <2>6, <2>7, PrivateStep DEF Removed
<1>6. CASE th[t].more > 0 /\ Move(t, [th[t] EXCEPT !.at = "remove", !.more = @ - 1])
  <2>1. th[t].more - 1 \in 0..2
    BY <1>1, <1>6 DEF Thread
  <2> QED
    BY <1>5, <1>6, <2>1
<1>7. CASE ~(th[t].more > 0) /\ th[t].then # "idle" /\ Goto(t, th[t].then)
  <2>1. th[t].more = 0 /\ 0 \in 0..2
    BY <1>1, <1>7 DEF Thread
  <2>2. PICK at \in {"remove", "record", "connect", "drained"} : at = th[t].then /\ Goto(t, at)
    BY <1>1, <1>7 DEF Thread
  <2>3. [th[t] EXCEPT !.at = at] = [th[t] EXCEPT !.at = at, !.more = 0]
    BY <1>1, <2>1 DEF Thread
  <2>4. Move(t, [th[t] EXCEPT !.at = at, !.more = 0])
    BY <2>2, <2>3 DEF Goto
  <2> QED
    BY <1>5, <2>1, <2>2, <2>4
<1> QED
  BY <1>4, <1>6, <1>7 DEF Proceed

LEMMA TeardownStep ==
  ASSUME IInv, NEW t \in Requests, TeardownAllCalls(t) PROVE IInv'
<1>1. t \in Threads /\ Carries(t) /\ TypeOK /\ th[t] = Resting
  BY Constants DEF IInv, Carries, TeardownAllCalls, At
<1>2. /\ registered' = {} /\ UNCHANGED <<phase, lock, bridged, gone, recorder, audio, record, known>>
      /\ Move(t, [th[t] EXCEPT !.at = "drained", !.rest = registered, !.then = "drained"])
  BY DEF TeardownAllCalls, media
<1> DEFINE r == [th[t] EXCEPT !.at = "drained", !.rest = registered, !.then = "drained"]
<1>3. r \in Thread /\ r.at = "drained" /\ r.rest = registered /\ r.then = "drained" /\ r.more = 0 /\ r.c = NoCall
  <2>1. th[t] \in Thread /\ registered \subseteq Calls
    BY <1>1 DEF TypeOK
  <2>2. r \in Thread
    BY <2>1 DEF Thread, Labels
  <2>3. r.at = "drained" /\ r.rest = registered /\ r.then = "drained"
    BY <2>1 DEF Thread
  <2>4. r.more = th[t].more /\ r.c = th[t].c
    BY <2>1 DEF Thread
  <2> QED
    BY <1>1, <2>2, <2>3, <2>4 DEF Resting
<1>4. Move(t, r)
  BY <1>2
<1> HIDE DEF r
<1>5. th' \in [Threads -> Thread] /\ th'[t] = r /\ \A u \in Threads \ {t} : th'[u] = th[u]
  BY <1>1, <1>3, <1>4, Moves
<1>6. TypeOK'
  BY <1>1, <1>2, <1>5 DEF TypeOK
<1>7. Carries(t)' /\ Finds(t)'
  BY <1>3, <1>5 DEF Carries, Finds, At, Call, Reporting
<1>8. th[t].at = "idle" /\ \A d \in Calls : lock'[d] # t
  BY <1>1, <1>2 DEF IInv, LocksAreHeld, Resting, Section, Removed, Reporting
<1>9. \A u \in Threads \ {t} : Call(u) = Call(t)' => ~At(u, "register")
  BY <1>3, <1>5, RegisteringIsAlone, Constants DEF Call
<1>10. /\ Call(t)' = NoCall /\ NoCall \notin Calls /\ th'[t].at = "drained" /\ th'[t].rest = registered
       /\ \A d \in Calls \ {NoCall} : phase'[d] = phase[d] /\ lock'[d] = lock[d] /\ record'[d] = record[d]
                                      /\ (d \in known' <=> d \in known)
       /\ registered' \subseteq registered \cup {NoCall}
  BY <1>2, <1>3, <1>5, Constants DEF Call
<1> QED
  BY <1>1, <1>5, <1>6, <1>7, <1>8, <1>9, <1>10, Step DEF Removed

------------------------------------------------------------------------------
(* OnStateChange, removeCall and endCall.                                  *)

LEMMA SectionStep ==
  ASSUME IInv, TypeOK', NEW t \in Threads, UNCHANGED <<phase, lock, record, known>>,
         registered' \subseteq registered,
         \A u \in Threads \ {t} : th'[u] = th[u],
         Carries(t)', Finds(t)',
         th[t].at \in Section, th'[t].at \in Section, th'[t].c = th[t].c, th'[t].rest = th[t].rest,
         th[t].at \in Reporting \/ th'[t].at \in Removed,
         th'[t].at \in Removed => Call(t) \notin registered'
  PROVE  IInv'
<1>1. \A d \in Calls : lock'[d] = t => Call(t)' = d
  BY DEF IInv, LocksAreHeld, Call
<1>2. \A u \in Threads \ {t} : Call(u) = Call(t)' => ~At(u, "register")
  BY DEF IInv, MadeByOne, Call
<1>3. th[t].at \notin {"start", "offer"} /\ th'[t].at \notin {"register", "start"}
  BY DEF Section, Removed, Reporting
<1>4. th[t].at \in Reporting => th[t].at \notin Removed \cup {"emit", "remove"}
  BY DEF Removed, Reporting
<1>5. /\ NoCall \notin Calls /\ Call(t)' = Call(t)
      /\ \A d \in Calls \ {NoCall} : phase'[d] = phase[d] /\ lock'[d] = lock[d] /\ record'[d] = record[d]
                                     /\ (d \in known' <=> d \in known)
      /\ registered' \subseteq registered \cup {NoCall}
  BY Constants DEF Call
<1> QED
  BY <1>1, <1>2, <1>3, <1>4, <1>5, Step

LEMMA ReadRecordStep ==
  ASSUME IInv, NEW t \in Threads, ReadRecord(t) PROVE IInv'
<1>1. Carries(t) /\ Finds(t) /\ TypeOK /\ th[t] \in Thread
  BY DEF IInv, TypeOK
<1>2. PICK c \in Calls : c = Call(t)
  BY <1>1 DEF ReadRecord, At, Carries
<1>3. PICK old \in Record \cup {NoRecord} : old = record[c]
  BY <1>1 DEF TypeOK
<1> DEFINE r == [th[t] EXCEPT !.at = "write", !.old = old]
<1>4. /\ th[t].at = "read" /\ UNCHANGED <<phase, lock, registered, bridged, gone, recorder, audio, record, known>>
      /\ Move(t, r)
  BY <1>2, <1>3 DEF ReadRecord, At, media
<1>5. r \in Thread /\ r.at = "write" /\ r.c = th[t].c /\ r.rest = th[t].rest /\ r.then = th[t].then
  <2>1. r \in Thread
    BY <1>1 DEF Thread, Labels
  <2>2. r.at = "write" /\ r.c = th[t].c /\ r.rest = th[t].rest /\ r.then = th[t].then
    BY <1>1 DEF Thread
  <2> QED
    BY <2>1, <2>2
<1> HIDE DEF r
<1>6. th' \in [Threads -> Thread] /\ th'[t] = r /\ \A u \in Threads \ {t} : th'[u] = th[u]
  BY <1>1, <1>4, <1>5, Moves
<1>7. TypeOK'
  BY <1>1, <1>4, <1>6 DEF TypeOK
<1>8. Carries(t)'
  BY <1>1, <1>4, <1>5, <1>6 DEF Carries, At, Call
<1>9. Finds(t)'
  BY <1>1, <1>4, <1>5, <1>6 DEF Finds, At, Call, Reporting
<1> QED
  BY <1>4, <1>5, <1>6, <1>7, <1>8, <1>9, SectionStep DEF Section, Removed, Reporting

LEMMA RemoveStep ==
  ASSUME IInv, NEW t \in Threads, Remove(t) PROVE IInv'
<1>1. Carries(t) /\ Finds(t) /\ TypeOK
  BY DEF IInv
<1>2. PICK c \in Calls : c = Call(t)
  BY <1>1 DEF Remove, At, Carries
<1>3. /\ th[t].at = "remove" /\ registered' = registered \ {c} /\ bridged' \subseteq bridged
      /\ UNCHANGED <<phase, lock, gone, recorder, audio, record, known>>
  BY <1>2 DEF Remove, At
<1>4. PICK label \in {"close", "file"} : Goto(t, label)
  BY DEF Remove
<1>5. /\ th' \in [Threads -> Thread] /\ \A u \in Threads \ {t} : th'[u] = th[u]
      /\ th'[t].at = label /\ th'[t].c = th[t].c /\ th'[t].rest = th[t].rest /\ th'[t].then = th[t].then
  BY <1>1, <1>4, Goes DEF Labels
<1>6. TypeOK'
  BY <1>1, <1>3, <1>5 DEF TypeOK
<1>7. Carries(t)'
  BY <1>1, <1>2, <1>4, <1>5 DEF Carries, At, Call
<1>8. Finds(t)'
  BY <1>1, <1>3, <1>4, <1>5 DEF Finds, At, Call, Reporting
<1> QED
  BY <1>2, <1>3, <1>4, <1>5, <1>6, <1>7, <1>8, SectionStep DEF Section, Removed, Reporting

LEMMA CloseRecorderStep ==
  ASSUME IInv, NEW t \in Threads, CloseRecorder(t) PROVE IInv'
<1>1. Carries(t) /\ Finds(t) /\ TypeOK
  BY DEF IInv
<1>2. PICK c \in Calls : c = Call(t)
  BY <1>1 DEF CloseRecorder, At, Carries
<1>3. /\ th[t].at = "close" /\ recorder' = [recorder EXCEPT ![c] = IF @ = "open" THEN "closed" ELSE @]
      /\ UNCHANGED <<phase, lock, registered, bridged, gone, audio, record, known>>
  BY <1>2 DEF CloseRecorder, At
<1>4. PICK label \in {"file", "url_read"} : Goto(t, label)
  BY DEF CloseRecorder
<1>5. /\ th' \in [Threads -> Thread] /\ \A u \in Threads \ {t} : th'[u] = th[u]
      /\ th'[t].at = label /\ th'[t].c = th[t].c /\ th'[t].rest = th[t].rest /\ th'[t].then = th[t].then
  BY <1>1, <1>4, Goes DEF Labels
<1>6. recorder' \in [Calls -> {"none", "open", "closed"}]
  BY <1>1, <1>3 DEF TypeOK
<1>7. TypeOK'
  BY <1>1, <1>3, <1>5, <1>6 DEF TypeOK
<1>8. Carries(t)'
  BY <1>1, <1>2, <1>4, <1>5 DEF Carries, At, Call
<1>9. Finds(t)'
  BY <1>1, <1>3, <1>4, <1>5 DEF Finds, At, Call, Reporting
<1>10. Call(t) \notin registered
  BY <1>3 DEF IInv, RemovedIsOut, Removed
<1> QED
  BY <1>3, <1>4, <1>5, <1>7, <1>8, <1>9, <1>10, SectionStep DEF Section, Removed, Reporting

LEMMA ReadForUrlStep ==
  ASSUME IInv, NEW t \in Threads, ReadForUrl(t) PROVE IInv'
<1>1. Carries(t) /\ Finds(t) /\ TypeOK /\ th[t] \in Thread
  BY DEF IInv, TypeOK
<1>2. PICK c \in Calls : c = Call(t)
  BY <1>1 DEF ReadForUrl, At, Carries
<1>3. PICK old \in Record \cup {NoRecord} : old = record[c]
  BY <1>1 DEF TypeOK
<1>4. PICK at \in {"file", "url_write"} : at = IF old = NoRecord THEN "file" ELSE "url_write"
  OBVIOUS
<1> DEFINE r == [th[t] EXCEPT !.at = at, !.old = old]
<1>5. /\ th[t].at = "url_read" /\ UNCHANGED <<phase, lock, registered, bridged, gone, recorder, audio, record, known>>
      /\ Move(t, r)
  BY <1>2, <1>3, <1>4 DEF ReadForUrl, At, media
<1>6. /\ r \in Thread /\ r.at = at /\ r.old = old /\ r.c = th[t].c /\ r.rest = th[t].rest
      /\ r.then = th[t].then
  <2>1. r \in Thread
    BY <1>1 DEF Thread, Labels
  <2>2. r.at = at /\ r.old = old
    BY <1>1 DEF Thread
  <2>3. r.c = th[t].c /\ r.rest = th[t].rest /\ r.then = th[t].then
    BY <1>1 DEF Thread
  <2> QED
    BY <2>1, <2>2, <2>3
<1> HIDE DEF r
<1>7. th' \in [Threads -> Thread] /\ th'[t] = r /\ \A u \in Threads \ {t} : th'[u] = th[u]
  BY <1>1, <1>5, <1>6, Moves
<1>8. TypeOK'
  BY <1>1, <1>5, <1>7 DEF TypeOK
<1>9. Carries(t)'
  BY <1>1, <1>2, <1>4, <1>5, <1>6, <1>7 DEF Carries, At, Call
<1>10. Finds(t)'
  <2>1. phase[c] = "none" => record[c] = NoRecord
    BY DEF IInv, CallInv, Untouched
  <2> QED
    BY <1>1, <1>2, <1>3, <1>4, <1>5, <1>6, <1>7, <2>1 DEF Finds, At, Call, Reporting
<1>11. Call(t) \notin registered
  BY <1>5 DEF IInv, RemovedIsOut, Removed
<1> QED
  BY <1>4, <1>5, <1>6, <1>7, <1>8, <1>9, <1>10, <1>11, SectionStep DEF Section, Removed, Reporting

(* A thread works on the record of its call.                               *)
LEMMA RecordStep ==
  ASSUME IInv, TypeOK', NEW t \in Threads, NEW c \in Calls, c = Call(t),
         UNCHANGED <<phase, registered>>,
         \A u \in Threads \ {t} : th'[u] = th[u],
         Carries(t)', Finds(t)',
         \A d \in Calls \ {c} : record'[d] = record[d] /\ (d \in known' <=> d \in known),
         c \in known => c \in known',
         c \in known' => c \in known \/ \A u \in Threads \ {t} : ~(Call(u) = c /\ At(u, "announce")),
         \A d \in Calls : lock'[d] = lock[d] \/ (lock[d] = t /\ lock'[d] = Free),
         lock'[c] = t => Call(t)' = c /\ th'[t].at \in Section,
         Call(t)' \in {c, NoCall}, th'[t].at \notin {"register", "start"},
         th'[t].rest \subseteq th[t].rest,
         th'[t].at \in Removed => Call(t)' \notin registered,
         CallInv(c)'
  PROVE  IInv'
<1>1. \A d \in Calls : lock[d] = t => d = c
  BY DEF IInv, LocksAreHeld
<1>2. \A d \in Calls \ {c} : lock'[d] = lock[d]
  BY <1>1
<1>3. \A d \in Calls : lock'[d] = t => Call(t)' = d /\ th'[t].at \in Section
  BY <1>1, Constants
<1>4. \A u \in Threads \ {t} : Call(u) = Call(t)' => ~At(u, "register")
  <2> SUFFICES ASSUME NEW u \in Threads \ {t}, Call(u) = Call(t)', At(u, "register") PROVE FALSE
    OBVIOUS
  <2>1. Call(u) \in Calls
    BY RegisteringIsAlone
  <2>2. Call(u) = Call(t)
    BY <2>1, Constants
  <2> QED
    BY <2>2 DEF IInv, MadeByOne
<1>5. lock'[c] \in {lock[c], t, Free} /\ (lock[c] \notin {Free, t} => lock'[c] = lock[c])
  OBVIOUS
<1>6. phase'[c] = phase[c] /\ registered' \subseteq registered \cup {c} /\ th'[t].rest \subseteq th[t].rest \cup registered
      /\ \A d \in Calls \ {c} : phase'[d] = phase[d]
  OBVIOUS
<1> QED
  BY <1>2, <1>3, <1>4, <1>5, <1>6, Step

LEMMA Unlocks ==
  ASSUME IInv, NEW t \in Threads, Unlock(t)
  PROVE  /\ lock' \in [Calls -> Threads \cup {Free}]
         /\ \A d \in Calls : lock'[d] # t /\ (lock'[d] = lock[d] \/ (lock[d] = t /\ lock'[d] = Free))
<1>1. lock \in [Calls -> Threads \cup {Free}] /\ lock' = [d \in Calls |-> IF lock[d] = t THEN Free ELSE lock[d]]
  BY DEF IInv, TypeOK, Unlock
<1> QED
  BY <1>1, Constants

LEMMA SetOwnerStep ==
  ASSUME IInv, NEW t \in Requests, SetOwner(t) PROVE IInv'
<1>1. t \in Threads /\ Carries(t) /\ Finds(t) /\ TypeOK /\ th[t] \in Thread
  BY Constants DEF IInv, TypeOK
<1>2. PICK c \in Calls : c = Call(t)
  BY <1>1 DEF SetOwner, At, Carries
<1>3. /\ th[t].at = "claim" /\ UNCHANGED <<phase, lock, registered, bridged, gone, recorder, audio, known>>
      /\ c \in known
  BY <1>1, <1>2 DEF SetOwner, At, media, Finds
<1>4. th[t].at \notin Section \cup {"start", "offer", "emit"}
  BY <1>3 DEF Section, Removed, Reporting
<1>5. CASE Rest(t) /\ UNCHANGED record
  BY <1>1, <1>3, <1>4, <1>5, RestStep DEF TypeOK
<1>6. CASE /\ record[c] # NoRecord /\ Goto(t, "accept")
           /\ record' = [record EXCEPT ![c].owner = th[t].who]
  <2>1. /\ th' \in [Threads -> Thread] /\ \A u \in Threads \ {t} : th'[u] = th[u]
        /\ th'[t].at = "accept" /\ th'[t].c = th[t].c /\ th'[t].rest = th[t].rest /\ th'[t].then = th[t].then
    BY <1>1, <1>6, Goes DEF Labels
  <2> DEFINE n == [record[c] EXCEPT !.owner = th[t].who]
  <2>2. n \in Record /\ n.status = record[c].status
    <3>1. record[c] \in Record /\ th[t].who \in Operators \cup {NoOwner}
      BY <1>1, <1>6 DEF TypeOK, Thread
    <3> QED
      BY <3>1 DEF Record
  <2>3. record' = [record EXCEPT ![c] = n]
    BY <1>6
  <2> HIDE DEF n
  <2>4. record' \in [Calls -> Record \cup {NoRecord}] /\ record'[c] = n /\ \A d \in Calls \ {c} : record'[d] = record[d]
    BY <1>1, <2>2, <2>3 DEF TypeOK
  <2>5. TypeOK'
    BY <1>1, <1>3, <2>1, <2>4 DEF TypeOK
  <2>6. Carries(t)' /\ Finds(t)'
    BY <1>1, <1>2, <1>3, <2>1 DEF Carries, Finds, At, Call, Reporting
  <2>7. CallInv(c)'
    <3>1. CallInv(c)
      BY DEF IInv
    <3>2. phase[c] # "none" /\ n # NoRecord
      BY <1>3, <2>2, <3>1, RecordAssumption DEF CallInv, Untouched
    <3>3. Untouched(c)' /\ UnknownRings(c)' /\ Visible(c)' /\ ShowsState(c)'
      BY <1>3, <1>6, <2>2, <2>4, <3>1, <3>2
      DEF CallInv, Untouched, UnknownRings, Visible, ShowsState, StatusOf
    <3>4. IsFiled(c)'
      <4> SUFFICES ASSUME c \in Offered, phase[c] = "ended"
                   PROVE  \E u \in Threads : th'[u].c = c /\ th'[u].at \in Removed \cup {"emit", "remove"}
        BY <1>3 DEF IsFiled, Call
      <4>1. PICK u \in Threads : th[u].c = c /\ th[u].at \in Removed \cup {"emit", "remove"}
        BY <1>6, <3>1 DEF CallInv, IsFiled, Call
      <4>2. u # t
        BY <1>3, <4>1 DEF Removed
      <4> QED
        BY <2>1, <4>1, <4>2
    <3> QED
      BY <3>3, <3>4 DEF CallInv
  <2>8. Call(t)' = c /\ \A d \in Calls : lock[d] # t
    BY <1>1, <1>2, <1>4, <2>1 DEF Call, IInv, LocksAreHeld
  <2> QED
    BY <1>1, <1>2, <1>3, <2>1, <2>4, <2>5, <2>6, <2>7, <2>8, RecordStep DEF Removed
<1> QED
  BY <1>2, <1>5, <1>6 DEF SetOwner

LEMMA WriteRecordStep ==
  ASSUME IInv, NEW t \in Threads, WriteRecord(t) PROVE IInv'
<1>1. Carries(t) /\ Finds(t) /\ TypeOK /\ th[t] \in Thread
  BY DEF IInv, TypeOK
<1>2. PICK c \in Calls : c = Call(t)
  BY <1>1 DEF WriteRecord, At, Carries
<1>3. /\ th[t].at = "write" /\ UNCHANGED <<phase, registered, bridged, gone, recorder, audio>>
      /\ known' = known \cup {c} /\ Unlock(t)
      /\ phase[c] \notin {"none", "ended"} /\ (c \in Offered => c \in known)
  BY <1>1, <1>2 DEF WriteRecord, At, media, Finds, Reporting
<1> DEFINE old == th[t].old
           status == StatusOf(phase[c])
           n == IF old # NoRecord THEN [old EXCEPT !.status = status]
                ELSE [owner |-> NoOwner, status |-> status, recorded |-> FALSE, url |-> FALSE]
           r == [th[t] EXCEPT !.at = "next", !.old = NoRecord]
<1>4. record' = [record EXCEPT ![c] = n] /\ Move(t, r)
  BY <1>2 DEF WriteRecord
<1>5. n \in Record /\ n.status = status
  <2>1. status \in Status
    BY DEF StatusOf, Status
  <2> HIDE DEF status
  <2>2. old \in Record \cup {NoRecord}
    BY <1>1 DEF Thread
  <2> HIDE DEF old
  <2>3. CASE old # NoRecord
    BY <2>1, <2>2, <2>3 DEF Record
  <2>4. CASE old = NoRecord
    BY <2>1, <2>4 DEF Record
  <2> QED
    BY <2>3, <2>4
<1> HIDE DEF n
<1>6. record' \in [Calls -> Record \cup {NoRecord}] /\ record'[c] = n /\ \A d \in Calls \ {c} : record'[d] = record[d]
  BY <1>1, <1>4, <1>5 DEF TypeOK
<1>7. r \in Thread /\ r.at = "next" /\ r.c = th[t].c /\ r.rest = th[t].rest /\ r.then = th[t].then
  <2>1. r \in Thread
    BY <1>1 DEF Thread, Labels
  <2>2. r.at = "next" /\ r.c = th[t].c /\ r.rest = th[t].rest /\ r.then = th[t].then
    BY <1>1 DEF Thread
  <2> QED
    BY <2>1, <2>2
<1> HIDE DEF r
<1>8. th' \in [Threads -> Thread] /\ th'[t] = r /\ \A u \in Threads \ {t} : th'[u] = th[u]
  BY <1>1, <1>4, <1>7, Moves
<1>9. /\ lock' \in [Calls -> Threads \cup {Free}]
      /\ \A d \in Calls : lock'[d] # t /\ (lock'[d] = lock[d] \/ (lock[d] = t /\ lock'[d] = Free))
  BY <1>3, Unlocks
<1>10. TypeOK'
  BY <1>1, <1>3, <1>6, <1>8, <1>9 DEF TypeOK
<1>11. Carries(t)'
  BY <1>1, <1>2, <1>7, <1>8 DEF Carries, At, Call
<1>12. Finds(t)'
  BY <1>1, <1>3, <1>7, <1>8 DEF Finds, At, Call, Reporting
<1>13. CallInv(c)'
  <2>1. n # NoRecord /\ StatusOf(phase[c])' = StatusOf(phase[c])
    BY <1>3, <1>5, RecordAssumption DEF StatusOf
  <2> QED
    BY <1>3, <1>5, <1>6, <2>1 DEF CallInv, Untouched, UnknownRings, Visible, ShowsState, IsFiled
<1>14. c \in known \/ \A u \in Threads \ {t} : ~(Call(u) = c /\ At(u, "announce"))
  <2> SUFFICES ASSUME c \notin Offered, NEW u \in Threads \ {t}, At(u, "announce") PROVE Call(u) # c
    BY <1>3
  <2> QED
    BY DEF IInv, Carries, At
<1>15. Call(t)' = c /\ th'[t].at = "next" /\ th'[t].rest = th[t].rest
  BY <1>2, <1>7, <1>8 DEF Call
<1> QED
  BY <1>2, <1>3, <1>6, <1>8, <1>9, <1>10, <1>11, <1>12, <1>13, <1>14, <1>15, RecordStep DEF Removed

LEMMA WriteUrlStep ==
  ASSUME IInv, NEW t \in Threads, WriteUrl(t) PROVE IInv'
<1>1. Carries(t) /\ Finds(t) /\ TypeOK /\ th[t] \in Thread
  BY DEF IInv, TypeOK
<1>2. PICK c \in Calls : c = Call(t)
  BY <1>1 DEF WriteUrl, At, Carries
<1>3. /\ th[t].at = "url_write" /\ UNCHANGED <<phase, lock, registered, bridged, gone, recorder, audio, known>>
      /\ phase[c] # "none" /\ th[t].old # NoRecord /\ c \notin registered
  BY <1>1, <1>2 DEF WriteUrl, At, media, Carries, Finds, IInv, RemovedIsOut, Removed
<1> DEFINE n == [th[t].old EXCEPT !.url = TRUE]
           r == [th[t] EXCEPT !.at = "file", !.old = NoRecord]
<1>4. record' = [record EXCEPT ![c] = n] /\ Move(t, r)
  BY <1>2 DEF WriteUrl
<1>5. n \in Record
  <2>1. th[t].old \in Record
    BY <1>1, <1>3 DEF Thread
  <2> QED
    BY <2>1 DEF Record
<1> HIDE DEF n
<1>6. record' \in [Calls -> Record \cup {NoRecord}] /\ record'[c] = n /\ \A d \in Calls \ {c} : record'[d] = record[d]
  BY <1>1, <1>4, <1>5 DEF TypeOK
<1>7. r \in Thread /\ r.at = "file" /\ r.c = th[t].c /\ r.rest = th[t].rest /\ r.then = th[t].then
  <2>1. r \in Thread
    BY <1>1 DEF Thread, Labels
  <2>2. r.at = "file" /\ r.c = th[t].c /\ r.rest = th[t].rest /\ r.then = th[t].then
    BY <1>1 DEF Thread
  <2> QED
    BY <2>1, <2>2
<1> HIDE DEF r
<1>8. th' \in [Threads -> Thread] /\ th'[t] = r /\ \A u \in Threads \ {t} : th'[u] = th[u]
  BY <1>1, <1>4, <1>7, Moves
<1>9. TypeOK'
  BY <1>1, <1>3, <1>6, <1>8 DEF TypeOK
<1>10. Carries(t)'
  BY <1>1, <1>2, <1>7, <1>8 DEF Carries, At, Call
<1>11. Finds(t)'
  BY <1>1, <1>3, <1>7, <1>8 DEF Finds, At, Call, Reporting
<1>12. Call(t)' = c /\ th'[t].at = "file" /\ th'[t].rest = th[t].rest
  BY <1>2, <1>7, <1>8 DEF Call
<1>13. CallInv(c)'
  <2>1. CallInv(c)
    BY DEF IInv
  <2>2. Untouched(c)' /\ UnknownRings(c)' /\ Visible(c)' /\ ShowsState(c)'
    BY <1>3, <2>1 DEF CallInv, Untouched, UnknownRings, Visible, ShowsState
  <2>3. IsFiled(c)'
    BY <1>12 DEF IsFiled, Removed
  <2> QED
    BY <2>2, <2>3 DEF CallInv
<1> QED
  BY <1>2, <1>3, <1>6, <1>8, <1>9, <1>10, <1>11, <1>12, <1>13, RecordStep DEF Removed, Section

LEMMA FileCallStep ==
  ASSUME IInv, NEW t \in Threads, FileCall(t) PROVE IInv'
<1>1. Carries(t) /\ Finds(t) /\ TypeOK
  BY DEF IInv
<1>2. PICK c \in Calls : c = Call(t)
  BY <1>1 DEF FileCall, At, Carries
<1>3. /\ th[t].at = "file" /\ UNCHANGED <<phase, registered, bridged, gone, recorder, audio, known>>
      /\ Unlock(t) /\ Goto(t, "next") /\ record' = [record EXCEPT ![c] = NoRecord] /\ c \notin registered
  BY <1>2 DEF FileCall, At, media, IInv, RemovedIsOut, Removed
<1>4. record' \in [Calls -> Record \cup {NoRecord}] /\ record'[c] = NoRecord
      /\ \A d \in Calls \ {c} : record'[d] = record[d]
  BY <1>1, <1>3 DEF TypeOK
<1>5. /\ th' \in [Threads -> Thread] /\ \A u \in Threads \ {t} : th'[u] = th[u]
      /\ th'[t].at = "next" /\ th'[t].c = th[t].c /\ th'[t].rest = th[t].rest /\ th'[t].then = th[t].then
  BY <1>1, <1>3, Goes DEF Labels
<1>6. /\ lock' \in [Calls -> Threads \cup {Free}]
      /\ \A d \in Calls : lock'[d] # t /\ (lock'[d] = lock[d] \/ (lock[d] = t /\ lock'[d] = Free))
  BY <1>3, Unlocks
<1>7. TypeOK'
  BY <1>1, <1>3, <1>4, <1>5, <1>6 DEF TypeOK
<1>8. Carries(t)'
  BY <1>1, <1>2, <1>5 DEF Carries, At, Call
<1>9. Finds(t)'
  BY <1>1, <1>3, <1>5 DEF Finds, At, Call, Reporting
<1>10. CallInv(c)'
  <2>1. CallInv(c)
    BY DEF IInv
  <2>2. Starting(c) => Starting(c)'
    BY <1>3, <1>5 DEF Starting, Call
  <2>3. \A u \in Threads : th'[u].rest = th[u].rest
    BY <1>5
  <2> QED
    BY <1>3, <1>4, <2>1, <2>2, <2>3 DEF CallInv, Untouched, UnknownRings, Visible, ShowsState, IsFiled
<1> QED
  BY <1>2, <1>3, <1>4, <1>5, <1>6, <1>7, <1>8, <1>9, <1>10, RecordStep DEF Removed, Call

LEMMA RecordStartStep ==
  ASSUME IInv, NEW t \in Requests, NEW recorded \in BOOLEAN, RecordStart(t, recorded) PROVE IInv'
<1>1. t \in Threads /\ Carries(t) /\ Finds(t) /\ TypeOK /\ th[t] \in Thread
  BY Constants DEF IInv, TypeOK
<1>2. PICK c \in Placed : c = Call(t) /\ c \in Calls
  BY <1>1, Constants DEF RecordStart, At, Carries
<1>3. /\ th[t].at = "record" /\ UNCHANGED <<phase, lock, registered, bridged, gone, recorder, audio>>
      /\ known' = known \cup {c} /\ Rest(t) /\ phase[c] # "none"
  BY <1>1, <1>2 DEF RecordStart, At, media, Finds
<1> DEFINE n == [owner |-> th[t].who, status |-> "ringing", recorded |-> recorded, url |-> FALSE]
<1>4. record' = [record EXCEPT ![c] = n]
  BY <1>2 DEF RecordStart
<1>5. n \in Record
  BY <1>1 DEF Thread, Record, Status
<1> HIDE DEF n
<1>6. record' \in [Calls -> Record \cup {NoRecord}] /\ record'[c] = n /\ \A d \in Calls \ {c} : record'[d] = record[d]
  BY <1>1, <1>2, <1>4, <1>5 DEF TypeOK
<1>7. /\ th' \in [Threads -> Thread] /\ \A u \in Threads \ {t} : th'[u] = th[u]
      /\ th'[t] = Resting
  BY <1>1, <1>3, Rests
<1>8. th'[t].at = "idle" /\ th'[t].c = NoCall /\ th'[t].rest = {} /\ th'[t].then = "idle"
  BY <1>7 DEF Resting
<1>9. TypeOK'
  BY <1>1, <1>2, <1>3, <1>6, <1>7 DEF TypeOK
<1>10. Carries(t)' /\ Finds(t)'
  <2>1. Resting' = Resting
    BY DEF Resting
  <2> QED
    BY <1>7, <1>8, <2>1 DEF Carries, Finds, At, Reporting
<1>11. CallInv(c)'
  BY <1>2, <1>3, <1>5, <1>6, RecordAssumption, Constants
  DEF CallInv, Untouched, UnknownRings, Visible, ShowsState, IsFiled
<1>12. ASSUME NEW u \in Threads, Call(u) = c PROVE ~At(u, "announce")
  <2>1. Carries(u)
    BY DEF IInv
  <2> QED
    BY <1>2, <1>12, <2>1, Constants DEF Carries, At
<1>13. \A d \in Calls : lock[d] # t
  BY <1>1, <1>3 DEF IInv, LocksAreHeld, Section, Reporting, Removed
<1> QED
  BY <1>1, <1>2, <1>3, <1>6, <1>7, <1>8, <1>9, <1>10, <1>11, <1>12, <1>13, RecordStep DEF Removed, Call

LEMMA OnIncomingStep ==
  ASSUME IInv, OnIncoming PROVE IInv'
<1>1. PICK t \in Threads : t = "events"
  BY Constants
<1>2. Carries(t) /\ Finds(t) /\ TypeOK
  BY DEF IInv
<1>3. PICK c \in Offered : c = Call(t) /\ c \in Calls
  BY <1>1, <1>2, Constants DEF OnIncoming, At, Carries
<1> DEFINE n == [owner |-> NoOwner, status |-> "ringing", recorded |-> FALSE, url |-> FALSE]
<1>4. /\ th[t].at = "announce" /\ UNCHANGED <<phase, lock, registered, bridged, gone, recorder, audio>>
      /\ known' = known \cup {c} /\ Goto(t, "emit") /\ phase[c] # "none" /\ c \notin known
      /\ record' = [record EXCEPT ![c] = n]
  BY <1>1, <1>2, <1>3 DEF OnIncoming, At, media, Finds
<1>5. n \in Record /\ n.status = "ringing"
  BY DEF Record, Status
<1> HIDE DEF n
<1>6. record' \in [Calls -> Record \cup {NoRecord}] /\ record'[c] = n /\ \A d \in Calls \ {c} : record'[d] = record[d]
  BY <1>2, <1>3, <1>4, <1>5 DEF TypeOK
<1>7. /\ th' \in [Threads -> Thread] /\ \A u \in Threads \ {t} : th'[u] = th[u]
      /\ th'[t].at = "emit" /\ th'[t].c = th[t].c /\ th'[t].rest = th[t].rest /\ th'[t].then = th[t].then
  BY <1>2, <1>4, Goes DEF Labels
<1>8. TypeOK'
  BY <1>2, <1>3, <1>4, <1>6, <1>7 DEF TypeOK
<1>9. Carries(t)'
  BY <1>1, <1>2, <1>3, <1>7 DEF Carries, At, Call
<1>10. Finds(t)'
  BY <1>2, <1>3, <1>4, <1>7 DEF Finds, At, Call, Reporting
<1>11. CallInv(c)'
  <2>1. phase[c] \in {"incoming_ringing", "ended"}
    BY <1>3, <1>4 DEF IInv, CallInv, UnknownRings
  <2>2. StatusOf(phase[c])' = "ringing"
    BY <1>4, <2>1 DEF StatusOf
  <2>3. Untouched(c)' /\ UnknownRings(c)' /\ Visible(c)'
    BY <1>4, <1>5, <1>6, <2>1, RecordAssumption DEF Untouched, UnknownRings, Visible
  <2>4. ShowsState(c)'
    BY <1>5, <1>6, <2>2 DEF ShowsState
  <2>5. IsFiled(c)'
    BY <1>3, <1>7 DEF IsFiled, Call
  <2> QED
    BY <2>3, <2>4, <2>5 DEF CallInv
<1>12. ASSUME NEW u \in Threads \ {t} PROVE ~At(u, "announce")
  <2>1. Carries(u)
    BY DEF IInv
  <2> QED
    BY <1>1, <2>1 DEF Carries, At
<1>13. \A d \in Calls : lock[d] # t
  BY <1>4 DEF IInv, LocksAreHeld, Section, Reporting, Removed
<1> QED
  BY <1>3, <1>4, <1>6, <1>7, <1>8, <1>9, <1>10, <1>11, <1>12, <1>13, RecordStep DEF Removed, Call

------------------------------------------------------------------------------
(* Calls are made.                                                         *)

LEMMA CreateCallStep ==
  ASSUME IInv, NEW t \in Requests, NEW c \in Placed, CreateCall(t, c) PROVE IInv'
<1>1. t \in Threads /\ c \in Calls /\ c \notin Offered /\ Carries(t) /\ Finds(t) /\ TypeOK /\ th[t] \in Thread
  BY Constants DEF IInv, TypeOK
<1> DEFINE r == [th[t] EXCEPT !.at = "start", !.c = c]
<1>2. /\ th[t].at = "create" /\ Fresh(c) /\ registered' = registered \cup {c} /\ Move(t, r)
      /\ UNCHANGED <<phase, lock, bridged, gone, recorder, audio, record, known>>
  BY DEF CreateCall, At, media
<1>3. r \in Thread /\ r.at = "start" /\ r.c = c /\ r.rest = th[t].rest /\ r.then = th[t].then
  <2>1. r \in Thread
    BY <1>1 DEF Thread, Labels
  <2>2. r.at = "start" /\ r.c = c /\ r.rest = th[t].rest /\ r.then = th[t].then
    BY <1>1 DEF Thread
  <2> QED
    BY <2>1, <2>2
<1> HIDE DEF r
<1>4. th' \in [Threads -> Thread] /\ th'[t] = r /\ \A u \in Threads \ {t} : th'[u] = th[u]
  BY <1>1, <1>2, <1>3, Moves
<1>5. TypeOK'
  BY <1>1, <1>2, <1>4 DEF TypeOK
<1>6. th[t].then = "idle"
  BY <1>1, <1>2 DEF Carries, At
<1>7. Carries(t)' /\ Finds(t)'
  BY <1>1, <1>2, <1>3, <1>4, <1>6 DEF Carries, Finds, At, Call, Reporting, Fresh
<1>8. \A u \in Threads : Call(u) # c
  BY <1>2 DEF Fresh
<1>9. CallInv(c)'
  <2>1. Starting(c)'
    BY <1>1, <1>3, <1>4 DEF Starting, Call
  <2>2. record[c] = NoRecord /\ c \notin known
    BY <1>1, <1>2 DEF IInv, CallInv, Untouched, Fresh
  <2> QED
    BY <1>1, <1>2, <2>1, <2>2 DEF CallInv, Untouched, UnknownRings, Visible, ShowsState, IsFiled
<1>10. \A d \in Calls : lock'[d] # t
  BY <1>1, <1>2 DEF IInv, LocksAreHeld, Section, Reporting, Removed
<1>11. Call(t)' = c /\ th'[t].at = "start" /\ th'[t].rest = th[t].rest
  BY <1>3, <1>4 DEF Call
<1>12. th[t].at \notin Removed \cup {"emit", "remove"} /\ th[t].at \notin {"start", "offer"}
       /\ th'[t].at \notin Removed
  BY <1>2, <1>11 DEF Removed
<1> QED
  BY <1>1, <1>2, <1>4, <1>5, <1>7, <1>8, <1>9, <1>10, <1>11, <1>12, Step

LEMMA StartCallStep ==
  ASSUME IInv, NEW t \in Requests, StartCall(t) PROVE IInv'
<1>1. t \in Threads /\ Carries(t) /\ Finds(t) /\ TypeOK
  BY Constants DEF IInv
<1>2. PICK c \in Placed : c = Call(t) /\ c \in Calls /\ c \notin Offered
  BY <1>1, Constants DEF StartCall, At, Carries
<1>3. /\ th[t].at = "start" /\ Goto(t, "query") /\ phase' = [phase EXCEPT ![c] = "initiating"] /\ phase[c] = "none"
      /\ UNCHANGED <<lock, registered, bridged, gone, recorder, audio, record, known>>
  BY <1>1, <1>2 DEF StartCall, At, media, Finds
<1>4. /\ th' \in [Threads -> Thread] /\ \A u \in Threads \ {t} : th'[u] = th[u]
      /\ th'[t].at = "query" /\ th'[t].c = th[t].c /\ th'[t].rest = th[t].rest /\ th'[t].then = th[t].then
  BY <1>1, <1>3, Goes DEF Labels
<1>5. phase' \in [Calls -> CS!States \cup {"none"}] /\ phase'[c] = "initiating"
      /\ \A d \in Calls \ {c} : phase'[d] = phase[d]
  BY <1>1, <1>2, <1>3 DEF TypeOK, CS!States
<1>6. TypeOK'
  <2>1. CS!States' = CS!States
    BY DEF CS!States
  <2> QED
    BY <1>1, <1>3, <1>4, <1>5, <2>1 DEF TypeOK
<1>7. Carries(t)' /\ Finds(t)'
  BY <1>1, <1>2, <1>4, <1>5 DEF Carries, Finds, At, Call, Reporting
<1>8. CallInv(c)'
  <2>1. CallInv(c)
    BY <1>2 DEF IInv
  <2> QED
    BY <1>2, <1>3, <1>5, <2>1 DEF CallInv, Untouched, UnknownRings, Visible, ShowsState, IsFiled
<1>9. ASSUME NEW u \in Threads \ {t}, Call(u) = c PROVE th[u].at \notin {"start", "register", "offer"}
  <2>1. Carries(u)
    BY DEF IInv
  <2>2. th[u].at \notin {"register", "offer"}
    BY <1>2, <1>9, <2>1 DEF Carries
  <2>3. th[u].at # "start"
    BY <1>1, <1>2, <1>3, <1>9 DEF IInv, MadeByOne, At
  <2> QED
    BY <2>2, <2>3
<1>10. \A d \in Calls : lock'[d] # t
  BY <1>1, <1>3 DEF IInv, LocksAreHeld, Section, Reporting, Removed
<1>11. Call(t)' = c
  BY <1>2, <1>4 DEF Call
<1>12. th'[t].at \notin Removed \cup {"start", "register"} /\ registered' \subseteq registered \cup {c}
  BY <1>3, <1>4 DEF Removed
<1> QED
  BY <1>1, <1>2, <1>3, <1>4, <1>5, <1>6, <1>7, <1>8, <1>9, <1>10, <1>11, <1>12, Step DEF At

LEMMA StartFailsStep ==
  ASSUME IInv, NEW t \in Requests, StartFails(t) PROVE IInv'
<1>1. t \in Threads /\ Carries(t) /\ Finds(t) /\ TypeOK
  BY Constants DEF IInv
<1>2. PICK c \in Placed : c = Call(t) /\ c \in Calls /\ c \notin Offered
  BY <1>1, Constants DEF StartFails, At, Carries
<1>3. /\ th[t].at = "query" /\ Rest(t) /\ registered' = registered \ {c} /\ phase[c] # "none"
      /\ UNCHANGED <<phase, lock, bridged, gone, recorder, audio, record, known>>
  BY <1>1, <1>2 DEF StartFails, At, media, Finds
<1>4. /\ th' \in [Threads -> Thread] /\ \A u \in Threads \ {t} : th'[u] = th[u]
      /\ th'[t] = Resting
  BY <1>1, <1>3, Rests
<1>5. th'[t].at = "idle" /\ th'[t].c = NoCall /\ th'[t].rest = {} /\ th'[t].then = "idle"
  BY <1>4 DEF Resting
<1>6. TypeOK'
  BY <1>1, <1>3, <1>4 DEF TypeOK
<1>7. Carries(t)' /\ Finds(t)'
  <2>1. Resting' = Resting
    BY DEF Resting
  <2> QED
    BY <1>4, <1>5, <2>1 DEF Carries, Finds, At, Reporting
<1>8. CallInv(c)'
  <2>1. CallInv(c)
    BY <1>2 DEF IInv
  <2> QED
    BY <1>2, <1>3, <2>1 DEF CallInv, Untouched, UnknownRings, Visible, ShowsState, IsFiled
<1>9. \A d \in Calls : lock'[d] # t
  BY <1>1, <1>3 DEF IInv, LocksAreHeld, Section, Reporting, Removed
<1>10. \A u \in Threads : Call(u) = Call(t)' => ~At(u, "register")
  BY <1>5, RegisteringIsAlone, Constants DEF Call
<1>11. th'[t].at \notin Removed \cup {"start", "register"} /\ registered' \subseteq registered \cup {c}
       /\ (c \in registered' => c \in registered)
  BY <1>3, <1>5 DEF Removed
<1> QED
  BY <1>1, <1>2, <1>3, <1>4, <1>5, <1>6, <1>7, <1>8, <1>9, <1>10, <1>11, Step

LEMMA RegisterOfferStep ==
  ASSUME IInv, RegisterOffer PROVE IInv'
<1>1. PICK t \in Threads : t = "events"
  BY Constants
<1>2. Carries(t) /\ Finds(t) /\ TypeOK /\ th[t].at = "register"
  BY <1>1 DEF IInv, RegisterOffer, At
<1>3. PICK c \in Offered : c = Call(t) /\ c \in Calls
  BY <1>1, <1>2, Constants DEF Carries
<1>4. /\ Goto(t, "offer") /\ registered' = registered \cup {c}
      /\ UNCHANGED <<phase, lock, bridged, gone, recorder, audio, record, known>>
      /\ phase[c] = "none" /\ record[c] = NoRecord /\ c \notin known
  BY <1>1, <1>2, <1>3 DEF RegisterOffer, media, Finds, IInv, CallInv, Untouched
<1>5. /\ th' \in [Threads -> Thread] /\ \A u \in Threads \ {t} : th'[u] = th[u]
      /\ th'[t].at = "offer" /\ th'[t].c = th[t].c /\ th'[t].rest = th[t].rest /\ th'[t].then = th[t].then
  BY <1>2, <1>4, Goes DEF Labels
<1>6. TypeOK'
  BY <1>2, <1>3, <1>4, <1>5 DEF TypeOK
<1>7. Carries(t)' /\ Finds(t)'
  BY <1>1, <1>2, <1>3, <1>4, <1>5 DEF Carries, Finds, At, Call, Reporting
<1>8. CallInv(c)'
  <2>1. Starting(c)'
    BY <1>3, <1>5 DEF Starting, Call
  <2> QED
    BY <1>4, <2>1 DEF CallInv, Untouched, UnknownRings, Visible, ShowsState, IsFiled
<1>9. \A u \in Threads \ {t} : Call(u) # c
  BY <1>2, <1>3 DEF IInv, MadeByOne, At
<1>10. \A d \in Calls : lock'[d] # t
  BY <1>2, <1>4 DEF IInv, LocksAreHeld, Section, Reporting, Removed
<1>11. Call(t)' = c
  BY <1>3, <1>5 DEF Call
<1>12. th'[t].at \notin Removed
  BY <1>5 DEF Removed
<1> QED
  BY <1>2, <1>3, <1>4, <1>5, <1>6, <1>7, <1>8, <1>9, <1>10, <1>11, <1>12, Step

LEMMA HandleOfferStep ==
  ASSUME IInv, HandleCallOffer PROVE IInv'
<1>1. PICK t \in Threads : t = "events"
  BY Constants
<1>2. Carries(t) /\ Finds(t) /\ TypeOK /\ th[t].at = "offer"
  BY <1>1 DEF IInv, HandleCallOffer, At
<1>3. PICK c \in Offered : c = Call(t) /\ c \in Calls /\ c \notin Placed
  BY <1>1, <1>2, Constants DEF Carries
<1>4. /\ Goto(t, "announce") /\ phase' = [phase EXCEPT ![c] = "incoming_ringing"]
      /\ UNCHANGED <<lock, registered, bridged, gone, recorder, audio, record, known>>
      /\ phase[c] = "none" /\ record[c] = NoRecord /\ c \notin known
  BY <1>1, <1>2, <1>3 DEF HandleCallOffer, media, Finds, IInv, CallInv, Untouched
<1>5. /\ th' \in [Threads -> Thread] /\ \A u \in Threads \ {t} : th'[u] = th[u]
      /\ th'[t].at = "announce" /\ th'[t].c = th[t].c /\ th'[t].rest = th[t].rest /\ th'[t].then = th[t].then
  BY <1>2, <1>4, Goes DEF Labels
<1>6. phase' \in [Calls -> CS!States \cup {"none"}] /\ phase'[c] = "incoming_ringing"
      /\ \A d \in Calls \ {c} : phase'[d] = phase[d]
  BY <1>2, <1>3, <1>4 DEF TypeOK, CS!States
<1>7. TypeOK'
  <2>1. CS!States' = CS!States
    BY DEF CS!States
  <2> QED
    BY <1>2, <1>4, <1>5, <1>6, <2>1 DEF TypeOK
<1>8. Carries(t)' /\ Finds(t)'
  BY <1>1, <1>2, <1>3, <1>4, <1>5, <1>6 DEF Carries, Finds, At, Call, Reporting
<1>9. CallInv(c)'
  BY <1>4, <1>6 DEF CallInv, Untouched, UnknownRings, Visible, ShowsState, IsFiled
<1>10. ASSUME NEW u \in Threads \ {t}, Call(u) = c PROVE th[u].at \notin {"start", "register", "offer"}
  <2>1. Carries(u)
    BY DEF IInv
  <2> QED
    BY <1>1, <1>3, <1>10, <2>1 DEF Carries
<1>11. \A d \in Calls : lock'[d] # t
  BY <1>2, <1>4 DEF IInv, LocksAreHeld, Section, Reporting, Removed
<1>12. Call(t)' = c
  BY <1>3, <1>5 DEF Call
<1>13. th'[t].at \notin Removed \cup {"start", "register"} /\ registered' \subseteq registered \cup {c}
  BY <1>4, <1>5 DEF Removed
<1> QED
  BY <1>2, <1>3, <1>4, <1>5, <1>6, <1>7, <1>8, <1>9, <1>10, <1>11, <1>12, <1>13, Step DEF At

(* EmitOffer reports the state that the announced call has by now.         *)
LEMMA EmitOfferStep ==
  ASSUME IInv, EmitOffer PROVE IInv'
<1>1. PICK t \in Threads : t = "events"
  BY Constants
<1>2. Carries(t) /\ Finds(t) /\ TypeOK /\ th[t].at = "emit"
  BY <1>1 DEF IInv, EmitOffer, At
<1>3. PICK c \in Offered : c = Call(t) /\ c \in Calls
  BY <1>1, <1>2, Constants DEF Carries
<1>4. phase[c] # "none" /\ c \in known
  BY <1>2, <1>3 DEF Finds
<1>5. PICK at \in {"remove", "read"} : Goto(t, at) /\ (at = "remove" <=> phase[c] = "ended")
  BY <1>1, <1>3 DEF EmitOffer
<1>6. /\ lock[c] = Free /\ lock' = [lock EXCEPT ![c] = t]
      /\ UNCHANGED <<phase, registered, bridged, gone, recorder, audio, record, known>>
  BY <1>1, <1>3 DEF EmitOffer, media
<1>7. /\ th' \in [Threads -> Thread] /\ \A u \in Threads \ {t} : th'[u] = th[u]
      /\ th'[t].at = at /\ th'[t].c = c /\ th'[t].rest = th[t].rest /\ th'[t].then = th[t].then
  BY <1>2, <1>3, <1>5, Goes DEF Labels, Call
<1>8. lock'[c] = t /\ \A d \in Calls \ {c} : lock'[d] = lock[d]
  BY <1>2, <1>3, <1>6 DEF TypeOK
<1>9. TypeOK'
  BY <1>2, <1>3, <1>6, <1>7 DEF TypeOK
<1>10. Carries(t)'
  BY <1>2, <1>3, <1>7 DEF Carries, At, Call
<1>11. Finds(t)'
  BY <1>1, <1>2, <1>3, <1>4, <1>5, <1>6, <1>7, <1>8, Constants DEF Finds, Carries, At, Call, Reporting
<1>12. CallInv(c)'
  <2>1. CallInv(c)
    BY <1>3 DEF IInv
  <2>2. Untouched(c)' /\ Visible(c)' /\ UnknownRings(c)'
    BY <1>4, <1>6, <2>1 DEF CallInv, Untouched, Visible, UnknownRings
  <2>3. ShowsState(c)'
    BY <1>8, Constants DEF ShowsState
  <2>4. IsFiled(c)'
    BY <1>5, <1>6, <1>7 DEF IsFiled, Call
  <2> QED
    BY <2>2, <2>3, <2>4 DEF CallInv
<1>13. \A d \in Calls : lock[d] # t
  BY <1>2 DEF IInv, LocksAreHeld, Section, Removed, Reporting
<1>14. \A u \in Threads \ {t} : Call(u) = c => ~At(u, "register")
  BY <1>3 DEF IInv, MadeByOne
<1>15. at \in Section /\ at \notin Removed /\ at # "register" /\ at # "start" /\ Call(t)' = c
  BY <1>7 DEF Section, Removed, Reporting, Call
<1>16. \A d \in Calls : lock'[d] = t => Call(t)' = d /\ th'[t].at \in Section
  BY <1>7, <1>8, <1>13, <1>15
<1> QED
  BY <1>2, <1>3, <1>4, <1>6, <1>7, <1>8, <1>9, <1>10, <1>11, <1>12, <1>14, <1>15, <1>16, Step

(* The relays carry a call that was accepted: it is active, and the thread *)
(* of the relays reports that.                                             *)
LEMMA OnRelayConnectedStep ==
  ASSUME IInv, NEW c \in Calls, OnRelayConnected(c) PROVE IInv'
<1>1. PICK t \in Threads : t = c
  BY Constants
<1> DEFINE r == [th[t] EXCEPT !.at = "read", !.c = c]
<1>2. Carries(t) /\ TypeOK /\ CallInv(c) /\ th[t].at = "idle" /\ th[t] = Resting
  BY <1>1 DEF IInv, OnRelayConnected, At, Carries
<1>3. /\ phase[c] = "connecting" /\ lock[c] = Free
      /\ phase' = [phase EXCEPT ![c] = "active"] /\ lock' = [lock EXCEPT ![c] = t] /\ Move(t, r)
      /\ UNCHANGED <<registered, bridged, gone, recorder, audio, record, known>>
  BY <1>1 DEF OnRelayConnected, media
<1>4. r \in Thread /\ r.at = "read" /\ r.c = c /\ r.rest = {} /\ r.then = "idle"
  <2>1. th[t] \in Thread /\ th[t].rest = {} /\ th[t].then = "idle"
    BY <1>2, RestingIsThread DEF Resting
  <2>2. r \in Thread
    BY <2>1 DEF Thread, Labels
  <2>3. r.at = "read" /\ r.c = c
    BY <2>1 DEF Thread
  <2>4. r.rest = th[t].rest /\ r.then = th[t].then
    BY <2>1 DEF Thread
  <2> QED
    BY <2>1, <2>2, <2>3, <2>4
<1> HIDE DEF r
<1>5. th' \in [Threads -> Thread] /\ th'[t] = r /\ \A u \in Threads \ {t} : th'[u] = th[u]
  BY <1>2, <1>3, <1>4, Moves
<1>6. /\ phase'[c] = "active" /\ lock'[c] = t
      /\ \A d \in Calls \ {c} : phase'[d] = phase[d] /\ lock'[d] = lock[d]
      /\ phase' \in [Calls -> CS!States \cup {"none"}]
  BY <1>2, <1>3 DEF TypeOK, CS!States
<1>7. TypeOK'
  <2>1. CS!States' = CS!States
    BY DEF CS!States
  <2> QED
    BY <1>2, <1>3, <1>5, <1>6, <2>1 DEF TypeOK
<1>8. c \in Offered => c \in known
  BY <1>2, <1>3 DEF CallInv, UnknownRings
<1>9. Carries(t)' /\ Finds(t)'
  BY <1>1, <1>3, <1>4, <1>5, <1>6, <1>8 DEF Carries, Finds, At, Call, Reporting
<1>10. CallInv(c)'
  <2>1. Untouched(c)' /\ IsFiled(c)'
    BY <1>6 DEF Untouched, IsFiled
  <2>2. UnknownRings(c)' /\ Visible(c)'
    BY <1>2, <1>3, <1>8 DEF CallInv, UnknownRings, Visible
  <2>3. ShowsState(c)'
    BY <1>6, Constants DEF ShowsState
  <2> QED
    BY <2>1, <2>2, <2>3 DEF CallInv
<1>11. \A d \in Calls : lock[d] # t
  BY <1>2 DEF IInv, LocksAreHeld, Section, Removed, Reporting
<1>12. \A u \in Threads : Call(u) = c => ~At(u, "register")
  BY <1>3, RegisteringIsAlone
<1>13. Call(t)' = c /\ th'[t].at = "read" /\ th'[t].rest = {}
  BY <1>4, <1>5 DEF Call
<1>14. "read" \in Section /\ "read" \notin Removed /\ th[t].at \notin Removed \cup {"emit", "remove", "start", "offer"}
  BY <1>2 DEF Section, Removed, Reporting
<1>15. \A d \in Calls : lock'[d] = t => Call(t)' = d /\ th'[t].at \in Section
  BY <1>6, <1>11, <1>13, <1>14
<1> QED
  BY <1>1, <1>2, <1>3, <1>5, <1>6, <1>7, <1>9, <1>10, <1>12, <1>13, <1>14, <1>15, Step

------------------------------------------------------------------------------
(* The invariant holds.                                                    *)

LEMMA InitHolds == Init => IInv
<1> SUFFICES ASSUME Init PROVE IInv
  OBVIOUS
<1>1. \A t \in Threads : /\ th[t] = Resting /\ th[t].at = "idle" /\ th[t].c = NoCall
                         /\ th[t].rest = {} /\ th[t].then = "idle"
  BY DEF Init, Resting
<1>2. \A c \in Calls : phase[c] = "none" /\ lock[c] = Free /\ record[c] = NoRecord
  BY DEF Init
<1>3. known = {} /\ registered = {}
  BY DEF Init
<1>4. TypeOK
  BY RestingIsThread DEF Init, TypeOK
<1>5. \A t \in Threads : Carries(t) /\ Finds(t)
  BY <1>1 DEF Carries, Finds, At, Reporting
<1>6. RemovedIsOut /\ LocksAreHeld
  BY <1>2, <1>3, Constants DEF RemovedIsOut, LocksAreHeld
<1>7. MadeByOne
  BY <1>1 DEF MadeByOne, At
<1>8. \A c \in Calls : CallInv(c)
  BY <1>1, <1>2, <1>3 DEF CallInv, Untouched, UnknownRings, Visible, ShowsState, IsFiled
<1> QED
  BY <1>4, <1>5, <1>6, <1>7, <1>8 DEF IInv

LEMMA NextStep ==
  ASSUME IInv, [Next]_vars PROVE IInv'
<1> USE Constants
<1>1. ASSUME Arrival PROVE IInv'
  <2>1. ASSUME NEW t \in Requests, NEW who \in Operators, DoStartCall(t, who) PROVE IInv'
    BY <2>1, BeginsStep
  <2>2. ASSUME NEW t \in Requests, NEW who \in Operators, NEW c \in Calls,
               NEW label \in {"check", "reject", "end", "webrtc"}, BeginRequest(t, who, c, label)
        PROVE  IInv'
    BY <2>2, BeginsStep
  <2>3. ASSUME NEW t \in Requests, TeardownAllCalls(t) PROVE IInv'
    BY <2>3, TeardownStep
  <2>4. ASSUME NEW t \in Requests, NEW c \in Calls, TerminateCall(t, c) PROVE IInv'
    BY <2>4, TerminateCallStep
  <2>5. ASSUME NEW c \in Offered, OnIncomingOffer(c) PROVE IInv'
    BY <2>5, BeginsStep
  <2>6. ASSUME NEW c \in Calls, NEW label \in {"peer_accept", "terminate"}, BeginEvent(c, label) PROVE IInv'
    BY <2>6, BeginsStep
  <2>7. ASSUME NEW c \in Calls, OnRelayConnected(c) PROVE IInv'
    BY <2>7, OnRelayConnectedStep
  <2>8. ASSUME NEW c \in Calls, TerminalICE(c) \/ Capture(c) PROVE IInv'
    BY <2>8, MediaStep
  <2> QED
    BY <1>1, <2>1, <2>2, <2>3, <2>4, <2>5, <2>6, <2>7, <2>8 DEF Arrival
<1>2. ASSUME Event PROVE IInv'
  BY <1>2, RegisterOfferStep, HandleOfferStep, OnIncomingStep, EmitOfferStep, HandleAcceptStep, ConnectAcceptedStep DEF Event
<1>3. ASSUME NEW t \in Requests, Start(t) PROVE IInv'
  BY <1>3, ChecksStep, CreateCallStep, StartCallStep, StartFailsStep, OfferSentStep, RecordStartStep DEF Start
<1>4. ASSUME NEW t \in Requests, Serve(t) PROVE IInv'
  BY <1>4, ChecksStep, SetOwnerStep, AnswerStep, EndCallStep, DrainedStep DEF Serve
<1>5. ASSUME NEW t \in Threads, Report(t) PROVE IInv'
  BY <1>5, ReadRecordStep, WriteRecordStep, RemoveStep, CloseRecorderStep, ReadForUrlStep, WriteUrlStep,
     FileCallStep, ProceedStep DEF Report
<1>6. CASE UNCHANGED vars
  BY <1>6, MediaStep
<1> QED
  BY <1>1, <1>2, <1>3, <1>4, <1>5, <1>6 DEF Next

LEMMA Invariance == Spec => []IInv
<1>1. IInv /\ [Next]_vars => IInv'
  BY NextStep
<1> QED
  BY <1>1, InitHolds, PTL DEF Spec

------------------------------------------------------------------------------
(* How a step changes who is at work and what is registered.               *)

Closing == {"close", "url_read", "url_write"}

Entering == {"create", "register"}

(* Thread t makes a step: to close a recorder it must have taken the call  *)
(* out of the registry, and to add a call it must have been let in.        *)
Advances(t) ==
  /\ \A u \in Threads \ {t} : th'[u] = th[u]
  /\ th'[t].at \in Closing =>
       th'[t].c = th[t].c /\ (th[t].at \in Closing \/ th[t].c \in registered)
  /\ \/ registered' \subseteq registered /\ th'[t].at \notin Entering
     \/ /\ t \in Requests \cup {"events"}
        /\ registered' = registered /\ Cardinality(registered) < MaxCalls
     \/ /\ t \in Requests \cup {"events"}
        /\ th[t].at \in Entering /\ th'[t].at \notin Entering
        /\ \E c \in Calls : registered' = registered \cup {c}

LEMMA NewLabel ==
  \A x \in Thread : \A label, v, w, y :
    /\ [x EXCEPT !.at = label].at = label /\ [x EXCEPT !.at = label].c = x.c
    /\ [x EXCEPT !.at = label, !.c = v].at = label
    /\ [x EXCEPT !.at = label, !.who = v].at = label
    /\ [x EXCEPT !.at = label, !.more = v].at = label
    /\ [x EXCEPT !.at = label, !.old = v].at = label /\ [x EXCEPT !.at = label, !.old = v].c = x.c
    /\ [x EXCEPT !.at = label, !.more = v, !.then = w].at = label
    /\ [x EXCEPT !.at = label, !.c = v, !.rest = w].at = label
    /\ [x EXCEPT !.at = label, !.rest = v, !.then = w].at = label
    /\ [x EXCEPT !.at = label, !.c = v, !.who = w, !.more = y].at = label
<1> SUFFICES ASSUME NEW x \in Thread, NEW label, NEW v, NEW w, NEW y
             PROVE  /\ [x EXCEPT !.at = label].at = label /\ [x EXCEPT !.at = label].c = x.c
                    /\ [x EXCEPT !.at = label, !.c = v].at = label
                    /\ [x EXCEPT !.at = label, !.who = v].at = label
                    /\ [x EXCEPT !.at = label, !.more = v].at = label
                    /\ [x EXCEPT !.at = label, !.old = v].at = label /\ [x EXCEPT !.at = label, !.old = v].c = x.c
                    /\ [x EXCEPT !.at = label, !.more = v, !.then = w].at = label
                    /\ [x EXCEPT !.at = label, !.c = v, !.rest = w].at = label
                    /\ [x EXCEPT !.at = label, !.rest = v, !.then = w].at = label
                    /\ [x EXCEPT !.at = label, !.c = v, !.who = w, !.more = y].at = label
  OBVIOUS
<1>1. [x EXCEPT !.at = label].at = label /\ [x EXCEPT !.at = label].c = x.c
  BY DEF Thread
<1>2. [x EXCEPT !.at = label, !.c = v].at = label
  BY DEF Thread
<1>3. [x EXCEPT !.at = label, !.who = v].at = label /\ [x EXCEPT !.at = label, !.more = v].at = label
  BY DEF Thread
<1>4. [x EXCEPT !.at = label, !.old = v].at = label /\ [x EXCEPT !.at = label, !.old = v].c = x.c
  BY DEF Thread
<1>5. [x EXCEPT !.at = label, !.more = v, !.then = w].at = label
  BY DEF Thread
<1>6. [x EXCEPT !.at = label, !.c = v, !.rest = w].at = label
  BY DEF Thread
<1>7. [x EXCEPT !.at = label, !.rest = v, !.then = w].at = label
  BY DEF Thread
<1>8. [x EXCEPT !.at = label, !.c = v, !.who = w, !.more = y].at = label
  BY DEF Thread
<1> QED
  BY <1>1, <1>2, <1>3, <1>4, <1>5, <1>6, <1>7, <1>8

LEMMA Moved ==
  ASSUME TypeOK, NEW t \in Threads, NEW r, Move(t, r)
  PROVE  th'[t] = r /\ \A u \in Threads \ {t} : th'[u] = th[u]
BY DEF TypeOK, Move

(* Most steps neither close anything nor let anybody in.                   *)
LEMMA Quiet ==
  ASSUME TypeOK, NEW t \in Threads, NEW r, Move(t, r), r.at \notin Closing \cup Entering,
         registered' \subseteq registered
  PROVE  Advances(t)
BY Moved DEF Advances

LEMMA GoesTo ==
  ASSUME TypeOK, NEW t \in Threads, NEW label, Goto(t, label)
  PROVE  /\ th'[t].at = label /\ th'[t].c = th[t].c
         /\ \A u \in Threads \ {t} : th'[u] = th[u]
<1> DEFINE r == [th[t] EXCEPT !.at = label]
<1>1. th[t] \in Thread
  BY DEF TypeOK
<1>2. r.at = label /\ r.c = th[t].c /\ Move(t, r)
  BY <1>1, NewLabel DEF Goto
<1> HIDE DEF r
<1> QED
  BY <1>2, Moved

LEMMA QuietGoto ==
  ASSUME TypeOK, NEW t \in Threads, NEW label, Goto(t, label), label \notin Closing \cup Entering,
         registered' \subseteq registered
  PROVE  Advances(t)
BY GoesTo DEF Advances

LEMMA QuietRest ==
  ASSUME TypeOK, NEW t \in Threads, Rest(t), registered' \subseteq registered
  PROVE  Advances(t)
<1>1. th'[t] = Resting /\ \A u \in Threads \ {t} : th'[u] = th[u]
  BY Moved DEF Rest
<1>2. Resting.at \notin Closing \cup Entering
  BY DEF Resting, Closing, Entering
<1> QED
  BY <1>1, <1>2 DEF Advances

LEMMA QuietTransition ==
  ASSUME TypeOK, NEW t \in Threads, NEW transition, NEW more, NEW then, Transition(t, transition, more, then),
         registered' \subseteq registered
  PROVE  Advances(t)
<1>1. PICK at \in {"remove", "read"} : Move(t, [th[t] EXCEPT !.at = at, !.more = more, !.then = then])
  BY DEF Transition
<1> DEFINE r == [th[t] EXCEPT !.at = at, !.more = more, !.then = then]
<1>2. th[t] \in Thread
  BY DEF TypeOK
<1>3. r.at = at /\ Move(t, r)
  BY <1>1, <1>2, NewLabel
<1> HIDE DEF r
<1>4. th'[t].at = at /\ \A u \in Threads \ {t} : th'[u] = th[u]
  BY <1>3, Moved
<1> QED
  BY <1>4 DEF Advances, Closing, Entering

LEMMA ArrivalAdvances ==
  ASSUME TypeOK, Arrival
  PROVE  (\E t \in Threads : Advances(t)) \/ UNCHANGED <<registered, th>>
<1> USE Constants
<1>1. \A t \in Threads : th[t] \in Thread
  BY DEF TypeOK
<1>2. ASSUME NEW t \in Requests, NEW who \in Operators, DoStartCall(t, who) PROVE Advances(t)
  <2> DEFINE r == [th[t] EXCEPT !.at = "capacity", !.who = who]
  <2>1. Move(t, r) /\ registered' = registered /\ r.at = "capacity"
    BY <1>1, <1>2, NewLabel DEF DoStartCall
  <2> HIDE DEF r
  <2> QED
    BY <2>1, Moved DEF Advances, Closing, Entering
<1>3. ASSUME NEW t \in Requests, NEW who \in Operators, NEW c \in Calls,
             NEW label \in {"check", "reject", "end", "webrtc"}, BeginRequest(t, who, c, label)
      PROVE  Advances(t)
  <2>1. PICK at \in {"check", "webrtc", "reject", "end", "remove"}, more \in {0, 1} :
          Move(t, [th[t] EXCEPT !.at = at, !.c = c, !.who = who, !.more = more])
    BY <1>3 DEF BeginRequest
  <2> DEFINE r == [th[t] EXCEPT !.at = at, !.c = c, !.who = who, !.more = more]
  <2>2. Move(t, r) /\ registered' = registered /\ r.at = at
    BY <1>1, <1>3, <2>1, NewLabel DEF BeginRequest
  <2> HIDE DEF r
  <2> QED
    BY <2>2, Moved DEF Advances, Closing, Entering
<1>4. ASSUME NEW t \in Requests, TeardownAllCalls(t) PROVE Advances(t)
  <2> DEFINE r == [th[t] EXCEPT !.at = "drained", !.rest = registered, !.then = "drained"]
  <2>1. Move(t, r) /\ registered' = {} /\ r.at = "drained"
    BY <1>1, <1>4, NewLabel DEF TeardownAllCalls
  <2> HIDE DEF r
  <2> QED
    BY <2>1, Moved DEF Advances, Closing, Entering
<1>5. ASSUME NEW t \in Requests, NEW c \in Calls, TerminateCall(t, c)
      PROVE  Advances(t) \/ UNCHANGED <<registered, th>>
  <2> DEFINE r == [th[t] EXCEPT !.at = "end", !.c = c]
  <2>1. (Move(t, r) \/ UNCHANGED th) /\ registered' = registered /\ r.at = "end"
    BY <1>1, <1>5, NewLabel DEF TerminateCall
  <2> HIDE DEF r
  <2> QED
    BY <2>1, Moved DEF Advances, Closing, Entering
<1>6. ASSUME NEW c \in Offered, OnIncomingOffer(c) PROVE Advances("events")
  <2> DEFINE r == [th["events"] EXCEPT !.at = "register", !.c = c]
  <2>1. /\ Move("events", r) /\ registered' = registered /\ Cardinality(registered) < MaxCalls
        /\ r.at = "register"
    BY <1>1, <1>6, NewLabel DEF OnIncomingOffer
  <2> HIDE DEF r
  <2> QED
    BY <2>1, Moved DEF Advances, Closing
<1>7. ASSUME NEW c \in Calls, NEW label \in {"peer_accept", "terminate"}, BeginEvent(c, label) PROVE Advances("events")
  <2> DEFINE r == [th["events"] EXCEPT !.at = label, !.c = c]
  <2>1. Move("events", r) /\ registered' = registered /\ r.at = label
    BY <1>1, <1>7, NewLabel DEF BeginEvent
  <2> HIDE DEF r
  <2> QED
    BY <2>1, Moved DEF Advances, Closing, Entering
<1>8. ASSUME NEW c \in Calls, OnRelayConnected(c) PROVE Advances(c)
  <2> DEFINE r == [th[c] EXCEPT !.at = "read", !.c = c]
  <2>1. Move(c, r) /\ registered' = registered /\ r.at = "read"
    BY <1>1, <1>8, NewLabel DEF OnRelayConnected
  <2> HIDE DEF r
  <2> QED
    BY <2>1, Moved DEF Advances, Closing, Entering
<1>9. ASSUME NEW c \in Calls, TerminalICE(c) \/ Capture(c) PROVE UNCHANGED <<registered, th>>
  BY <1>9 DEF TerminalICE, Capture
<1> QED
  BY <1>2, <1>3, <1>4, <1>5, <1>6, <1>7, <1>8, <1>9 DEF Arrival

LEMMA EventAdvances ==
  ASSUME TypeOK, Carries("events"), Event
  PROVE  Advances("events")
<1> DEFINE t == "events"
<1> USE Constants DEF Closing, Entering
<1>1. CASE RegisterOffer
  <2>1. Goto(t, "offer") /\ registered' = registered \cup {th[t].c} /\ th[t].at = "register"
    BY <1>1 DEF RegisterOffer, At, Call
  <2>2. th[t].c \in Calls
    BY <2>1 DEF Carries, Call
  <2>3. th'[t].at = "offer" /\ \A u \in Threads \ {t} : th'[u] = th[u]
    BY <2>1, GoesTo
  <2> QED
    BY <2>1, <2>2, <2>3 DEF Advances
<1>2. CASE HandleCallOffer \/ OnIncoming
  BY <1>2, QuietGoto DEF HandleCallOffer, OnIncoming
<1>3. CASE EmitOffer
  BY <1>3, QuietGoto DEF EmitOffer
<1>4. CASE HandleCallAccept \/ HandleCallTerminate
  BY <1>4, QuietTransition DEF HandleCallAccept, HandleCallTerminate
<1>5. CASE ConnectAccepted
  BY <1>5, QuietTransition, QuietRest DEF ConnectAccepted
<1> QED
  BY <1>1, <1>2, <1>3, <1>4, <1>5 DEF Event

LEMMA StartAdvances ==
  ASSUME TypeOK, NEW t \in Requests, Start(t)
  PROVE  Advances(t)
<1> USE Constants DEF Closing, Entering
<1>1. CASE CheckCapacity(t)
  <2>1. CASE Cardinality(registered) < MaxCalls /\ Goto(t, "create")
    BY <1>1, <2>1, GoesTo DEF CheckCapacity, Advances
  <2>2. CASE Rest(t)
    BY <1>1, <2>2, QuietRest DEF CheckCapacity
  <2> QED
    BY <1>1, <2>1, <2>2 DEF CheckCapacity
<1>2. CASE UnknownPhone(t) \/ StartFails(t)
  BY <1>2, QuietRest DEF UnknownPhone, StartFails
<1>3. ASSUME NEW c \in Placed, CreateCall(t, c) PROVE Advances(t)
  <2> DEFINE r == [th[t] EXCEPT !.at = "start", !.c = c]
  <2>1. th[t] \in Thread
    BY DEF TypeOK
  <2>2. Move(t, r) /\ registered' = registered \cup {c} /\ r.at = "start" /\ th[t].at = "create" /\ c \in Calls
    BY <1>3, <2>1, NewLabel DEF CreateCall, At
  <2> HIDE DEF r
  <2> QED
    BY <2>2, Moved DEF Advances
<1>4. CASE StartCall(t)
  BY <1>4, QuietGoto DEF StartCall
<1>5. CASE OfferSent(t)
  BY <1>5, QuietTransition DEF OfferSent
<1>6. ASSUME NEW recorded \in BOOLEAN, RecordStart(t, recorded) PROVE Advances(t)
  BY <1>6, QuietRest DEF RecordStart
<1> QED
  BY <1>1, <1>2, <1>3, <1>4, <1>5, <1>6 DEF Start

LEMMA ServeAdvances ==
  ASSUME TypeOK, NEW t \in Requests, Serve(t)
  PROVE  Advances(t)
<1> USE Constants DEF Closing, Entering
<1>1. th[t] \in Thread
  BY DEF TypeOK
<1>2. CASE CheckOwner(t)
  BY <1>2, QuietGoto, QuietRest DEF CheckOwner
<1>3. CASE SetOwner(t)
  BY <1>3, QuietGoto, QuietRest DEF SetOwner
<1>4. CASE AcceptCall(t) \/ RejectCall(t)
  BY <1>4, QuietTransition, QuietRest DEF AcceptCall, RejectCall
<1>5. CASE EndCall(t)
  <2>1. CASE Goto(t, "next")
    BY <1>5, <2>1, QuietGoto DEF EndCall
  <2>2. CASE Move(t, [th[t] EXCEPT !.at = "remove", !.more = @ - 1])
    <3> DEFINE r == [th[t] EXCEPT !.at = "remove", !.more = th[t].more - 1]
    <3>1. Move(t, r) /\ registered' = registered /\ r.at = "remove"
      BY <1>1, <1>5, <2>2, NewLabel DEF EndCall
    <3> HIDE DEF r
    <3> QED
      BY <3>1, Quiet
  <2>3. ASSUME NEW more, NEW then, Transition(t, "terminated", more, then) PROVE Advances(t)
    BY <1>5, <2>3, QuietTransition DEF EndCall
  <2> QED
    BY <1>5, <2>1, <2>2, <2>3 DEF EndCall
<1>6. CASE Drained(t)
  <2>1. CASE Rest(t)
    BY <1>6, <2>1, QuietRest DEF Drained
  <2>2. ASSUME NEW c \in th[t].rest, Move(t, [th[t] EXCEPT !.at = "end", !.c = c, !.rest = @ \ {c}])
        PROVE  Advances(t)
    <3> DEFINE r == [th[t] EXCEPT !.at = "end", !.c = c, !.rest = th[t].rest \ {c}]
    <3>1. Move(t, r)
      BY <2>2
    <3>2. r.at = "end"
      BY <1>1 DEF Thread
    <3>3. registered' = registered
      BY <1>6 DEF Drained
    <3> HIDE DEF r
    <3> QED
      BY <3>1, <3>2, <3>3, Quiet
  <2> QED
    BY <1>6, <2>1, <2>2 DEF Drained
<1>7. CASE ReadRecorded(t)
  BY <1>7, QuietGoto DEF ReadRecorded
<1>8. CASE NewRecorder(t)
  BY <1>8, QuietGoto DEF NewRecorder
<1>9. CASE SetBridge(t)
  BY <1>9, QuietRest DEF SetBridge
<1> QED
  BY <1>2, <1>3, <1>4, <1>5, <1>6, <1>7, <1>8, <1>9 DEF Serve

LEMMA ReportAdvances ==
  ASSUME TypeOK, NEW t \in Threads, Report(t)
  PROVE  Advances(t)
<1> USE DEF Closing, Entering, At, Call
<1>1. th[t] \in Thread
  BY DEF TypeOK
<1>2. CASE ReadRecord(t)
  <2> DEFINE r == [th[t] EXCEPT !.at = "write", !.old = record[th[t].c]]
  <2>1. Move(t, r) /\ registered' = registered /\ r.at = "write"
    BY <1>1, <1>2, NewLabel DEF ReadRecord
  <2> HIDE DEF r
  <2> QED
    BY <2>1, Quiet
<1>3. CASE WriteRecord(t)
  <2> DEFINE r == [th[t] EXCEPT !.at = "next", !.old = NoRecord]
  <2>1. Move(t, r) /\ registered' = registered /\ r.at = "next"
    BY <1>1, <1>3, NewLabel DEF WriteRecord
  <2> HIDE DEF r
  <2> QED
    BY <2>1, Quiet
<1>4. CASE Remove(t)
  <2>1. CASE th[t].c \in registered
    BY <1>4, <2>1, GoesTo DEF Remove, Advances
  <2>2. CASE th[t].c \notin registered
    BY <1>4, <2>2, QuietGoto DEF Remove
  <2> QED
    BY <2>1, <2>2
<1>5. CASE CloseRecorder(t)
  <2>1. registered' = registered /\ th[t].at = "close" /\ (Goto(t, "file") \/ Goto(t, "url_read"))
    BY <1>5 DEF CloseRecorder
  <2> QED
    BY <2>1, GoesTo DEF Advances
<1>6. CASE ReadForUrl(t)
  <2>1. PICK at \in {"file", "url_write"} : Move(t, [th[t] EXCEPT !.at = at, !.old = record[th[t].c]])
    BY <1>6 DEF ReadForUrl
  <2> DEFINE r == [th[t] EXCEPT !.at = at, !.old = record[th[t].c]]
  <2>2. Move(t, r) /\ registered' = registered /\ r.at = at /\ r.c = th[t].c /\ th[t].at = "url_read"
    BY <1>1, <1>6, <2>1, NewLabel DEF ReadForUrl
  <2> HIDE DEF r
  <2> QED
    BY <2>2, Moved DEF Advances
<1>7. CASE WriteUrl(t)
  <2> DEFINE r == [th[t] EXCEPT !.at = "file", !.old = NoRecord]
  <2>1. Move(t, r) /\ registered' = registered /\ r.at = "file"
    BY <1>1, <1>7, NewLabel DEF WriteUrl
  <2> HIDE DEF r
  <2> QED
    BY <2>1, Quiet
<1>8. CASE FileCall(t)
  BY <1>8, QuietGoto DEF FileCall
<1>9. CASE Proceed(t)
  <2>1. CASE Move(t, [th[t] EXCEPT !.at = "remove", !.more = @ - 1])
    <3> DEFINE r == [th[t] EXCEPT !.at = "remove", !.more = th[t].more - 1]
    <3>1. Move(t, r) /\ registered' = registered /\ r.at = "remove"
      BY <1>1, <1>9, <2>1, NewLabel DEF Proceed
    <3> HIDE DEF r
    <3> QED
      BY <3>1, Quiet
  <2>2. CASE Rest(t)
    BY <1>9, <2>2, QuietRest DEF Proceed
  <2>3. CASE Goto(t, th[t].then)
    <3>1. th[t].then \notin Closing \cup Entering
      BY <1>1 DEF Thread
    <3>2. registered' = registered
      BY <1>9 DEF Proceed
    <3> QED
      BY <2>3, <3>1, <3>2, QuietGoto
  <2> QED
    BY <1>9, <2>1, <2>2, <2>3 DEF Proceed
<1> QED
  BY <1>2, <1>3, <1>4, <1>5, <1>6, <1>7, <1>8, <1>9 DEF Report

LEMMA NextAdvances ==
  ASSUME IInv, [Next]_vars
  PROVE  (\E t \in Threads : Advances(t)) \/ UNCHANGED <<registered, th>>
<1>1. TypeOK /\ Carries("events")
  BY Constants DEF IInv
<1>2. CASE UNCHANGED vars
  BY <1>2 DEF vars
<1>3. CASE Next
  BY <1>1, <1>3, ArrivalAdvances, EventAdvances, StartAdvances, ServeAdvances, ReportAdvances, Constants DEF Next
<1> QED
  BY <1>2, <1>3

------------------------------------------------------------------------------
(* One thread at most closes the recorder of a call.                       *)

LEMMA RemovedByOneStep ==
  ASSUME IInv, [Next]_vars, RemovedByOne PROVE RemovedByOne'
<1> USE DEF RemovedByOne, Call, Closing
<1>1. ASSUME NEW t \in Threads, Advances(t) PROVE RemovedByOne'
  <2> SUFFICES ASSUME NEW u \in Threads \ {t}, th'[t].at \in Closing, th[u].at \in Closing, th'[t].c = th[u].c
               PROVE  FALSE
    BY <1>1 DEF Advances
  <2>1. th'[t].c = th[t].c /\ (th[t].at \in Closing \/ th[t].c \in registered)
    BY <1>1 DEF Advances
  <2>2. th[u].c \notin registered
    BY DEF IInv, RemovedIsOut, Removed
  <2> QED
    BY <2>1, <2>2
<1>2. CASE UNCHANGED <<registered, th>>
  BY <1>2
<1> QED
  BY <1>1, <1>2, NextAdvances

------------------------------------------------------------------------------
(* The limit.                                                              *)

LEMMA LetInIsFinite ==
  /\ IsFiniteSet(LetIn) /\ Cardinality(LetIn) \in Nat
  /\ Cardinality(LetIn) <= Cardinality(Requests) + 1 /\ Cardinality(Requests) \in Nat
<1>1. IsFiniteSet(Requests) /\ "events" \notin Requests
  BY ConstantAssumption
<1>2. /\ IsFiniteSet(Requests \cup {"events"})
      /\ Cardinality(Requests \cup {"events"}) = Cardinality(Requests) + 1
  BY <1>1, FS_AddElement
<1>3. LetIn \subseteq Requests \cup {"events"}
  BY DEF LetIn
<1> QED
  BY <1>1, <1>2, <1>3, FS_Subset, FS_CardinalityType

LEMMA CapacityStep ==
  ASSUME IInv, [Next]_vars, CapacityInv PROVE CapacityInv'
<1> DEFINE S == Requests \cup {"events"}
<1>1. /\ IsFiniteSet(registered) /\ Cardinality(registered) \in Nat
      /\ Cardinality(registered) + Cardinality(LetIn) <= MaxCalls + Cardinality(Requests)
      /\ MaxCalls \in Nat
  BY FS_CardinalityType, ConstantAssumption DEF CapacityInv
<1>2. ASSUME NEW t \in Threads, Advances(t) PROVE CapacityInv'
  <2> DEFINE N == {u \in S : th'[u].at \in {"create", "register"}}
  <2>1. LetIn' = N
    BY DEF LetIn
  <2>2. \A u \in S \ {t} : u \in N <=> u \in LetIn
    BY <1>2, Constants DEF LetIn, Advances
  <2>3. IsFiniteSet(N) /\ Cardinality(N) \in Nat /\ Cardinality(N) <= Cardinality(Requests) + 1
    <3>1. IsFiniteSet(Requests) /\ "events" \notin Requests
      BY ConstantAssumption
    <3>2. IsFiniteSet(S) /\ Cardinality(S) = Cardinality(Requests) + 1
      BY <3>1, FS_AddElement
    <3>3. N \subseteq S
      OBVIOUS
    <3> HIDE DEF N
    <3> QED
      BY <3>2, <3>3, FS_Subset, FS_CardinalityType
  <2>4. CASE registered' \subseteq registered /\ th'[t].at \notin Entering
    <3>1. N \subseteq LetIn
      BY <2>2, <2>4 DEF Entering, LetIn
    <3>2. IsFiniteSet(registered') /\ Cardinality(registered') \in Nat /\ Cardinality(registered') <= Cardinality(registered)
      BY <1>1, <2>4, FS_Subset, FS_CardinalityType
    <3> HIDE DEF N
    <3>3. Cardinality(N) <= Cardinality(LetIn)
      BY <3>1, LetInIsFinite, FS_Subset
    <3> QED
      BY <1>1, <2>1, <2>3, <3>2, <3>3, LetInIsFinite DEF CapacityInv
  <2>5. CASE registered' = registered /\ Cardinality(registered) < MaxCalls
    <3> HIDE DEF N
    <3> QED
      BY <1>1, <2>1, <2>3, <2>5, LetInIsFinite DEF CapacityInv
  <2>6. ASSUME t \in S, th[t].at \in Entering, th'[t].at \notin Entering,
               NEW c \in Calls, registered' = registered \cup {c}
        PROVE  CapacityInv'
    <3>1. N = LetIn \ {t} /\ t \in LetIn
      BY <2>2, <2>6 DEF Entering, LetIn
    <3> HIDE DEF N
    <3>2. Cardinality(N) = Cardinality(LetIn) - 1
      BY <3>1, LetInIsFinite, FS_RemoveElement
    <3>3. /\ IsFiniteSet(registered \cup {c}) /\ Cardinality(registered \cup {c}) \in Nat
          /\ Cardinality(registered \cup {c}) <= Cardinality(registered) + 1
      <4>1. /\ IsFiniteSet(registered \cup {c})
            /\ Cardinality(registered \cup {c}) =
                 IF c \in registered THEN Cardinality(registered) ELSE Cardinality(registered) + 1
        BY <1>1, FS_AddElement
      <4>2. Cardinality(registered) \in Nat
        BY <1>1
      <4> QED
        BY <4>1, <4>2
    <3> QED
      BY <1>1, <2>1, <2>3, <2>6, <3>2, <3>3, LetInIsFinite DEF CapacityInv
  <2> QED
    BY <1>2, <2>4, <2>5, <2>6 DEF Advances
<1>3. CASE UNCHANGED <<registered, th>>
  BY <1>3 DEF CapacityInv, LetIn
<1> QED
  BY <1>2, <1>3, NextAdvances

LEMMA CapacityInit == Init => CapacityInv
<1> SUFFICES ASSUME Init PROVE CapacityInv
  OBVIOUS
<1>1. registered = {} /\ LetIn = {}
  BY DEF Init, LetIn, Resting, Threads
<1>2. IsFiniteSet({}) /\ Cardinality({}) = 0
  BY FS_EmptySet
<1> QED
  BY <1>1, <1>2, LetInIsFinite, ConstantAssumption DEF CapacityInv

------------------------------------------------------------------------------
(* Theorems.                                                               *)

(* The registry, the managers, the broker's records and the recorders stay *)
(* what callRegistry, Broker and CallManager may hold, and every thread    *)
(* keeps the call it works on.                                             *)
THEOREM DirectoryTypes == Spec => []TypeOK
<1>1. IInv => TypeOK
  BY DEF IInv
<1> QED
  BY <1>1, Invariance, PTL

(* An announced call whose manager is registered can be seen by the        *)
(* operators: every way in which removeCall and the broker's endCall are   *)
(* reached takes the manager out of callRegistry first.                    *)
THEOREM RegisteredIsVisible == Spec => []VisibleWhileRegistered
<1>1. IInv => VisibleWhileRegistered
  BY DEF IInv, TypeOK, CallInv, Visible, VisibleWhileRegistered
<1> QED
  BY <1>1, Invariance, PTL

(* The operators see the state of an incoming call whenever its manager's  *)
(* lock is free: emitState has written it before the lock is given back.   *)
THEOREM ShownIsCurrent == Spec => []StatusIsCurrent
<1>1. IInv => StatusIsCurrent
  BY Constants DEF IInv, CallInv, ShowsState, StatusIsCurrent
<1> QED
  BY <1>1, Invariance, PTL

(* An incoming call that ended will be filed by a thread that is about to  *)
(* do so, although the record may be written after the end: the handler of *)
(* its offer has emitState before it.                                      *)
THEOREM EndedCallsAreFiled == Spec => []EndedIsFiled
<1>1. IInv => EndedIsFiled
  BY Constants DEF IInv, CallInv, IsFiled, EndedIsFiled, Removed
<1> QED
  BY <1>1, Invariance, PTL

(* One thread at most closes the recorder of a call and publishes its URL, *)
(* although four handlers remove calls and none asks whether another one   *)
(* has: callRegistry gives the manager to one of them (session.go:264).    *)
THEOREM RecorderIsClosedByOne == Spec => []RemovedByOne
<1>1. Init => RemovedByOne
  BY DEF Init, RemovedByOne, Resting
<1>2. IInv /\ [Next]_vars /\ RemovedByOne => RemovedByOne'
  BY RemovedByOneStep
<1> QED
  BY <1>1, <1>2, Invariance, PTL DEF Spec

(* The limit on the calls of a session is passed by one call at most for   *)
(* each goroutine that starts or offers calls, less the one let in.        *)
THEOREM LimitIsPassedByFew == Spec => []CapacityBound
<1>1. IInv /\ [Next]_vars /\ CapacityInv => CapacityInv'
  BY CapacityStep
<1>2. CapacityInv => CapacityBound
  BY LetInIsFinite, FS_CardinalityType, ConstantAssumption DEF CapacityInv, CapacityBound
<1> QED
  BY <1>1, <1>2, CapacityInit, Invariance, PTL DEF Spec
===============================================================================
