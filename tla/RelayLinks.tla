------------------------------ MODULE RelayLinks ------------------------------
(***************************************************************************)
(* What a CallManager may rely on of its relay connections, and all it may *)
(* rely on: the map of connections by id, connections that have left the   *)
(* map and may open all the same, and the OnOpen callbacks that have yet   *)
(* to report to onRelayConnected.  CallManager is written with these       *)
(* actions; SctpRelay, the map with its connection objects, goroutines and *)
(* callbacks, is shown to implement LinksSpec.                             *)
(***************************************************************************)
CONSTANT Relays         \* relay connections, by connection id

VARIABLES conns,        \* the map of relay connections
          strays,       \* connections no longer in the map that may still open
          opened        \* OnOpen callbacks on their way to onRelayConnected

links == <<conns, strays, opened>>

LinksTypeOK ==
  /\ conns \in [Relays -> {"none", "connecting", "open"}]
  /\ strays \in SUBSET Relays
  /\ opened \in SUBSET Relays

LinksInit ==
  /\ conns = [r \in Relays |-> "none"]
  /\ strays = {}
  /\ opened = {}

(* connectToRelay inserts without looking again: a connection of the same  *)
(* id that has not opened yet is on its own from now on.                   *)
Inserted(r) ==
  /\ conns' = [conns EXCEPT ![r] = "connecting"]
  /\ strays' = IF conns[r] = "connecting" THEN strays \cup {r} ELSE strays
  /\ UNCHANGED opened

Opens(r) ==
  /\ conns[r] = "connecting"
  /\ conns' = [conns EXCEPT ![r] = "open"]
  /\ opened' = opened \cup {r}
  /\ UNCHANGED strays

(* The map loses a connection; if it had not opened, it may do so later.   *)
(* It may be a stray that failed and took the entry of the id with it.     *)
Lost(r) ==
  /\ conns[r] # "none"
  /\ conns' = [conns EXCEPT ![r] = "none"]
  /\ \/ strays' \in {strays, strays \ {r}}
     \/ conns[r] = "connecting" /\ strays' = strays \cup {r}
  /\ UNCHANGED opened

(* strays holds ids: another connection of the id may be left.             *)
StrayOpened(r) ==
  /\ r \in strays
  /\ strays' \in {strays, strays \ {r}}
  /\ opened' = opened \cup {r}
  /\ UNCHANGED conns

StrayLost(r) ==
  /\ r \in strays
  /\ strays' = strays \ {r}
  /\ UNCHANGED <<conns, opened>>

Reported(r) ==
  /\ r \in opened
  /\ opened' \in {opened, opened \ {r}}
  /\ UNCHANGED <<conns, strays>>

Emptied ==
  /\ conns' = [r \in Relays |-> "none"]
  /\ strays' = strays \cup {r \in Relays : conns[r] = "connecting"}
  /\ UNCHANGED opened

LinksNext ==
  \/ Emptied
  \/ \E r \in Relays :
       Inserted(r) \/ Opens(r) \/ Lost(r) \/ StrayOpened(r) \/ StrayLost(r) \/ Reported(r)

LinksSpec == LinksInit /\ [][LinksNext]_links
===============================================================================
