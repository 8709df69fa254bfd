------------------------------- MODULE SctpRelay -------------------------------
(***************************************************************************)
(* The relay connections of one CallManager (transport/sctprelay.go).      *)
(*                                                                         *)
(* A connection is an object of its own: the map names at most one for an  *)
(* id, but goroutines and callbacks of an object run on after the map has  *)
(* lost it or names another.  They are                                     *)
(*   - the callers of ConfigureRelays and the goroutine per relay they     *)
(*     start (connectToRelay), which looks the id up before it starts and  *)
(*     inserts without looking again,                                      *)
(*   - the WebRTC callbacks OnOpen, OnClose and the ICE state,             *)
(*   - the 20 s timer, the keepalive and the delayed registrations,        *)
(*   - teardown, which runs without the lock.                              *)
(* Only the sections between Lock and Unlock are atomic; conn.state is     *)
(* also read and written outside them.  What the registrations say is left *)
(* out.                                                                    *)
(***************************************************************************)
EXTENDS Naturals, FiniteSets

CONSTANTS Relays,       \* connection ids (address and auth token id)
          Conns,        \* connection objects; bounds the dials of a run
          Configures,   \* bounds the calls of ConfigureRelays
          NoConn, NoRelay

ASSUME SctpAssumption ==
  /\ NoConn \notin Conns
  /\ NoRelay \notin Relays
  /\ Configures \in Nat

VARIABLES connections,  \* the map
          conn,         \* the connection objects
          lost,         \* history: how an object that nothing tore down left the map
          configured,   \* calls of ConfigureRelays so far
          lookups,      \* how many of them have yet to look an id up
          dials,        \* goroutines about to dial an id
          cleaned,      \* Cleanup has run
          panicked      \* close of a closed channel: the process is gone

calls == <<configured, lookups, dials>>

vars == <<connections, conn, lost, calls, cleaned, panicked>>

------------------------------------------------------------------------------
Connection ==
  [ id      : Relays \cup {NoRelay},
    state   : {"none", "connecting", "open", "closed", "failed"},
    setup   : BOOLEAN,                               \* connectToRelay has not returned
    wire    : {"none", "dialling", "open", "closed"}, \* the WebRTC channel
    onopen  : {"none", "called", "reports", "done"},  \* the OnOpen callback
    onclose : BOOLEAN,                               \* the OnClose callback was called
    timer   : {"off", "armed", "fired"},
    runs    : BOOLEAN,                               \* the keepalive and the delayed registrations
    stopped : BOOLEAN,                               \* stopCh is closed
    down    : Nat,                                   \* teardowns before the select
    raced   : BOOLEAN,                               \* some of them passed it before stopCh closed
    bare    : BOOLEAN,                               \* a teardown found no channel yet
    late    : BOOLEAN ]                              \* inserted after Cleanup

Unused ==
  [ id |-> NoRelay, state |-> "none", setup |-> FALSE, wire |-> "none", onopen |-> "none",
    onclose |-> FALSE, timer |-> "off", runs |-> FALSE, stopped |-> FALSE,
    down |-> 0, raced |-> FALSE, bare |-> FALSE, late |-> FALSE ]

TypeOK ==
  /\ connections \in [Relays -> Conns \cup {NoConn}]
  /\ conn \in [Conns -> Connection]
  /\ lost \in [Conns -> {"no", "displaced", "unmapped"}]
  /\ configured \in 0 .. Configures
  /\ lookups \in [Relays -> 0 .. Configures]
  /\ dials \in [Relays -> 0 .. Configures]
  /\ cleaned \in BOOLEAN
  /\ panicked \in BOOLEAN

Init ==
  /\ connections = [r \in Relays |-> NoConn]
  /\ conn = [c \in Conns |-> Unused]
  /\ lost = [c \in Conns |-> "no"]
  /\ configured = 0
  /\ lookups = [r \in Relays |-> 0]
  /\ dials = [r \in Relays |-> 0]
  /\ cleaned = FALSE
  /\ panicked = FALSE

Mapped(c) == conn[c].id # NoRelay /\ connections[conn[c].id] = c

Siblings(c) == {d \in Conns \ {c} : conn[d].id = conn[c].id}

Update(c, o) == conn' = [conn EXCEPT ![c] = o]

Unmap(r) == connections' = [connections EXCEPT ![r] = NoConn]

Loses(d, how) == [c \in Conns |-> IF c = d THEN how ELSE lost[c]]

------------------------------------------------------------------------------
(* ConfigureRelays and connectToRelay *)

(* connectRelays sets the SSRCs and calls ConfigureRelays. *)
ConnectRelays(ids) ==
  /\ configured < Configures
  /\ configured' = configured + 1
  /\ lookups' = [r \in Relays |-> lookups[r] + (IF r \in ids THEN 1 ELSE 0)]
  /\ UNCHANGED <<connections, conn, lost, dials, cleaned, panicked>>

Lookup_Repeats(r) ==
  /\ lookups[r] > 0
  /\ dials' = [dials EXCEPT ![r] = @ + 1]
  /\ UNCHANGED <<connections, conn, lost, configured, lookups, cleaned, panicked>>

Lookup(r) ==
  /\ lookups[r] > 0
  /\ lookups' = [lookups EXCEPT ![r] = @ - 1]
  /\ dials' = IF connections[r] = NoConn THEN [dials EXCEPT ![r] = @ + 1] ELSE dials
  /\ UNCHANGED <<connections, conn, lost, configured, cleaned, panicked>>

NewConn == CHOOSE c \in Conns : conn[c] = Unused

ConnectToRelay(r) ==
  /\ dials[r] > 0
  /\ \E c \in Conns : conn[c] = Unused
  /\ dials' = [dials EXCEPT ![r] = @ - 1]
  /\ connections' = [connections EXCEPT ![r] = NewConn]
  /\ Update(NewConn, [Unused EXCEPT !.id = r, !.state = "connecting", !.setup = TRUE, !.late = cleaned])
  /\ lost' = Loses(connections[r], "displaced")
  /\ UNCHANGED <<configured, lookups, cleaned, panicked>>

Dialled_NoTimer(c) ==
  /\ conn[c].setup
  /\ Update(c, [conn[c] EXCEPT !.setup = FALSE, !.wire = "dialling"])
  /\ UNCHANGED <<connections, lost, calls, cleaned, panicked>>

Dialled_Reports(c) ==
  /\ conn[c].setup
  /\ Update(c, [conn[c] EXCEPT !.setup = FALSE, !.wire = "dialling", !.timer = "armed", !.onopen = "reports"])
  /\ UNCHANGED <<connections, lost, calls, cleaned, panicked>>

(* Peer connection, channel and callbacks are made, the timer is started.  *)
Dialled(c) ==
  /\ conn[c].setup
  /\ Update(c, [conn[c] EXCEPT !.setup = FALSE, !.wire = "dialling", !.timer = "armed"])
  /\ UNCHANGED <<connections, lost, calls, cleaned, panicked>>

FailConnection_KeepsEntry(c, o) ==
  /\ UNCHANGED <<connections, lost>>
  /\ Update(c, IF o.state = "failed" THEN o ELSE [o EXCEPT !.state = "failed", !.down = @ + 1])

(* Removes the id from the map, whichever connection it names; the         *)
(* teardown of this one follows without the lock.                          *)
FailConnection(c, o) ==
  IF o.state = "failed"
  THEN Update(c, o) /\ UNCHANGED <<connections, lost>>
  ELSE /\ Update(c, [o EXCEPT !.state = "failed", !.down = @ + 1])
       /\ Unmap(o.id)
       /\ lost' = [Loses(connections[o.id], "unmapped") EXCEPT ![c] = "no"]

DialFails(c) ==
  /\ conn[c].setup
  /\ FailConnection(c, [conn[c] EXCEPT !.setup = FALSE])
  /\ UNCHANGED <<calls, cleaned, panicked>>

TimerFires(c) ==
  /\ conn[c].timer = "armed"
  /\ Update(c, [conn[c] EXCEPT !.timer = IF conn[c].state = "connecting" THEN "fired" ELSE "off"])
  /\ UNCHANGED <<connections, lost, calls, cleaned, panicked>>

TimedOut(c) ==
  /\ conn[c].timer = "fired"
  /\ FailConnection(c, [conn[c] EXCEPT !.timer = "off"])
  /\ UNCHANGED <<calls, cleaned, panicked>>

TimerStops(c) ==
  /\ conn[c].timer = "armed" /\ conn[c].stopped
  /\ Update(c, [conn[c] EXCEPT !.timer = "off"])
  /\ UNCHANGED <<connections, lost, calls, cleaned, panicked>>

------------------------------------------------------------------------------
(* Registration and keepalive *)

(* The keepalive ends at a tick when the state is not open, or, with the   *)
(* delayed registrations, when stopCh is closed.                           *)
KeepaliveEnds(c) ==
  /\ conn[c].runs
  /\ conn[c].state # "open" \/ conn[c].stopped
  /\ Update(c, [conn[c] EXCEPT !.runs = FALSE])
  /\ UNCHANGED <<connections, lost, calls, cleaned, panicked>>

------------------------------------------------------------------------------
(* The WebRTC side.  Callbacks run in goroutines of their own, after the   *)
(* event they report.                                                      *)

WireOpens(c) ==
  /\ conn[c].wire = "dialling"
  /\ Update(c, [conn[c] EXCEPT !.wire = "open", !.onopen = "called"])
  /\ UNCHANGED <<connections, lost, calls, cleaned, panicked>>

WireCloses(c) ==
  /\ conn[c].wire = "open"
  /\ Update(c, [conn[c] EXCEPT !.wire = "closed", !.onclose = TRUE])
  /\ UNCHANGED <<connections, lost, calls, cleaned, panicked>>

(* ICE state failed or disconnected: the wire may still be as it was. *)
IceFails(c) ==
  /\ conn[c].wire \in {"dialling", "open"}
  /\ FailConnection(c, conn[c])
  /\ UNCHANGED <<calls, cleaned, panicked>>

OnOpen(c) ==
  /\ conn[c].onopen = "called"
  /\ Update(c, [conn[c] EXCEPT !.onopen = "reports", !.state = "open", !.runs = TRUE])
  /\ UNCHANGED <<connections, lost, calls, cleaned, panicked>>

OnConnected(c) ==                               \* CallManager.onRelayConnected
  /\ conn[c].onopen = "reports"
  /\ Update(c, [conn[c] EXCEPT !.onopen = "done"])
  /\ UNCHANGED <<connections, lost, calls, cleaned, panicked>>

OnClose_ClosesItself(c) ==
  /\ conn[c].onclose
  /\ Update(c, [conn[c] EXCEPT !.onclose = FALSE, !.state = "closed", !.down = @ + 1])
  /\ Unmap(conn[c].id)
  /\ UNCHANGED <<lost, calls, cleaned, panicked>>

(* closeConnection takes the connection the map has under the id now. *)
OnClose(c) ==
  /\ conn[c].onclose
  /\ LET called == [conn EXCEPT ![c].onclose = FALSE]
         d == connections[conn[c].id]
     IN IF d = NoConn
        THEN conn' = called /\ UNCHANGED connections
        ELSE /\ conn' = [called EXCEPT ![d].state = "closed", ![d].down = @ + 1]
             /\ Unmap(conn[c].id)
  /\ UNCHANGED <<lost, calls, cleaned, panicked>>

------------------------------------------------------------------------------
(* teardown and Cleanup *)

(* The tickers stop, the channel and the peer connection are closed. *)
Released(o) ==
  [o EXCEPT !.wire    = IF @ \in {"dialling", "open"} THEN "closed" ELSE @,
            !.onclose = @ \/ o.wire = "open",
            !.bare    = @ \/ o.setup]

TeardownCloses(c) ==
  /\ conn[c].down > 0 /\ ~conn[c].stopped
  /\ Update(c, Released([conn[c] EXCEPT !.down = @ - 1, !.stopped = TRUE, !.raced = conn[c].down > 1]))
  /\ UNCHANGED <<connections, lost, calls, cleaned, panicked>>

TeardownSkips(c) ==
  /\ conn[c].down > 0 /\ conn[c].stopped
  /\ Update(c, Released([conn[c] EXCEPT !.down = @ - 1, !.raced = @ /\ conn[c].down > 1]))
  /\ UNCHANGED <<connections, lost, calls, cleaned, panicked>>

(* Two teardowns may both have found stopCh open: the second one panics.   *)
TeardownPanics(c) ==
  /\ conn[c].raced
  /\ panicked' = TRUE
  /\ UNCHANGED <<connections, conn, lost, calls, cleaned>>

Cleanup_Forgets ==
  /\ ~cleaned
  /\ cleaned' = TRUE
  /\ connections' = [r \in Relays |-> NoConn]
  /\ UNCHANGED <<conn, lost, calls, panicked>>

(* Once: the CallManager cleans up for good, and a second time finds what  *)
(* was inserted since.                                                     *)
Cleanup ==
  /\ ~cleaned
  /\ cleaned' = TRUE
  /\ connections' = [r \in Relays |-> NoConn]
  /\ conn' = [c \in Conns |-> IF Mapped(c) THEN [conn[c] EXCEPT !.down = @ + 1] ELSE conn[c]]
  /\ UNCHANGED <<lost, calls, panicked>>

------------------------------------------------------------------------------
Configure(r) == Lookup(r) \/ ConnectToRelay(r)

Dial(c) == Dialled(c) \/ DialFails(c)

Timer(c) == TimerFires(c) \/ TimedOut(c) \/ TimerStops(c)

Callback(c) == OnOpen(c) \/ OnConnected(c) \/ OnClose(c)

Teardown(c) == TeardownCloses(c) \/ TeardownSkips(c) \/ TeardownPanics(c)

Goroutines ==
  \/ \E r \in Relays : Configure(r)
  \/ \E c \in Conns : Dial(c) \/ Timer(c) \/ KeepaliveEnds(c) \/ Callback(c) \/ Teardown(c)

Network == \E c \in Conns : WireOpens(c) \/ WireCloses(c) \/ IceFails(c)

Next ==
  /\ ~panicked
  /\ \/ \E ids \in (SUBSET Relays) \ {{}} : ConnectRelays(ids)
     \/ Goroutines \/ Cleanup \/ Network

Spec == Init /\ [][Next]_vars

(* Goroutines and callbacks run, and time passes: while one of them has a  *)
(* step to take, one is taken.  Each takes finitely many, so that is all   *)
(* of them in the end.  The network owes nothing: a channel need not open, *)
(* close or fail.                                                          *)
FairSpec == Spec /\ WF_vars(~panicked /\ Goroutines)

------------------------------------------------------------------------------
(* Safety *)

(* A connection that the map names is being dialled or open, never one     *)
(* that was closed or failed: HasConnection and Broadcast do not count on  *)
(* a connection that is gone, whichever callback took it down.             *)
MapIsLive ==
  \A r \in Relays : connections[r] # NoConn =>
    /\ conn[connections[r]].id = r
    /\ conn[connections[r]].state \in {"connecting", "open"}

(* An open connection in the map has its channel up, or the callback that  *)
(* will remove it has been called: the map never shows a dead channel as   *)
(* open for good.                                                          *)
OpenIsUp ==
  \A c \in Conns : Mapped(c) /\ conn[c].state = "open" =>
    conn[c].wire = "open" \/ conn[c].onclose

(* What HasConnection and Broadcast read of the map is so.                  *)
MapIsCurrent == MapIsLive /\ OpenIsUp

TornDown(o) == o.stopped \/ o.down > 0

(* A connection that has left the map is closed or being closed - also the *)
(* newer one that an old one's OnClose finds under its id (closeConnection)*)
(* - with two exceptions, which the code has: it was overwritten by a      *)
(* second dial of its id (connectToRelay), or it was taken out by the      *)
(* failure of another of its id (failConnection), which had left the map   *)
(* before and is itself torn down.                                         *)
LostIsTornDown ==
  \A c \in Conns : conn[c].id # NoRelay /\ ~Mapped(c) =>
    \/ TornDown(conn[c])
    \/ lost[c] = "displaced" /\ Siblings(c) # {}
    \/ lost[c] = "unmapped" /\ \E d \in Siblings(c) : ~Mapped(d) /\ TornDown(conn[d])

(* After Cleanup, and once every teardown has run, a channel is still up   *)
(* only for one of four reasons: it was dialled after Cleanup, a second    *)
(* dial displaced it, the failure of another of its id took it out of the  *)
(* map, or the teardown came before the channel was made.                  *)
LeftoverHasCause ==
  \A c \in Conns :
    (cleaned /\ conn[c].wire \in {"dialling", "open"} /\ conn[c].down = 0)
      => \/ conn[c].late \/ conn[c].bare
         \/ lost[c] \in {"displaced", "unmapped"}

------------------------------------------------------------------------------
(* What CallManager relies on *)

MayOpen(c) == conn[c].setup \/ conn[c].wire = "dialling" \/ conn[c].onopen = "called"

StateOf == [r \in Relays |-> IF connections[r] = NoConn THEN "none" ELSE conn[connections[r]].state]

Strays == {conn[c].id : c \in {d \in Conns : MayOpen(d) /\ ~Mapped(d)}}

Reporting == {conn[c].id : c \in {d \in Conns : conn[d].onopen = "reports"}}

Links == INSTANCE RelayLinks WITH conns <- StateOf, strays <- Strays, opened <- Reporting

(* The objects, goroutines and callbacks do to the map what CallManager is *)
(* modelled to expect, and no OnOpen reports that it does not expect.      *)
ImplementsLinks == Links!LinksSpec

------------------------------------------------------------------------------
(* Liveness *)

(* No id stays connecting: its connection opens, fails or is timed out.    *)
ConnectingEnds ==
  \A r \in Relays :
    (connections[r] # NoConn /\ conn[connections[r]].state = "connecting")
      ~> (panicked \/ connections[r] = NoConn \/ conn[connections[r]].state # "connecting")

(* After stopCh is closed the timer, the keepalive and the registrations   *)
(* of the connection come to an end, even if OnOpen starts them later.     *)
Leaks(c) == conn[c].stopped /\ (conn[c].timer # "off" \/ conn[c].runs)

GoroutinesEnd ==
  (\E c \in Conns : Leaks(c)) ~> (panicked \/ \A c \in Conns : ~Leaks(c))

(* Every attempt to connect ends, and a connection that ended runs nothing.*)
ConnectionsSettle == ConnectingEnds /\ GoroutinesEnd
===============================================================================
