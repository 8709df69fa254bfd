-------------------------------- MODULE Sessions --------------------------------
(***************************************************************************)
(* The sessions of the server: SessionManager, the Session objects it      *)
(* keeps in memory, their rows in PostgreSQL, and the WhatsApp clients     *)
(* under them, across crashes and restarts (cmd/server/sessionmanager.go,  *)
(* sessionstore.go, session.go).                                           *)
(*                                                                         *)
(* Requests are HTTP goroutines; each step of one is what it does between  *)
(* two points where others may run: a lock, a database statement, a call   *)
(* of the client, or an unlocked access to Session.client.  The events of  *)
(* a client and the goroutine that reads its QR channel belong to the      *)
(* Session object, and use whatever client the object has by then.  A      *)
(* client stands for the device it logs in as; the device of a paired      *)
(* client is stored by the library.                                        *)
(***************************************************************************)
EXTENDS Naturals, FiniteSets

CONSTANTS Ids,          \* session ids: slugs of names
          Objs,         \* Session objects
          Clients,      \* clients, one per device; bounds the pairings of a run
          Threads,      \* HTTP goroutines
          NoObj, NoClient, NoRow,
          Idle, Down    \* a thread without a request; the server is not running

VARIABLES rows,         \* table sessions: the jid of each row
          devices,      \* clients whose device is stored
          sessions,     \* SessionManager.sessions
          obj,          \* the Session objects
          client,       \* the clients
          events,       \* events being handled
          thread,       \* the requests
          marks         \* what happened to a session (only the properties read it)

volatile == <<sessions, obj, client, events, thread>>

vars == <<rows, devices, volatile, marks>>

------------------------------------------------------------------------------
Session ==
  [ id : Ids, client : Clients,
    auth : {"waiting", "open", "logged_out"} ]   \* connecting and qr are waiting

Client ==
  [ owner  : Objs \cup {NoObj},          \* whose handleEvent it calls
    paired : BOOLEAN,                    \* Store.ID is set
    wire   : {"off", "pairing", "on"} ]

Event ==
  [ of : Clients,
    kind : {"in", "out"},    \* QR success and Connected; QR timeout and LoggedOut
    at : {"arrived", "read", "stored"}, jid : Clients \cup {NoClient} ]

Request ==
  [ op : {"create", "delete", "logout", "pair"}, id : Ids, obj : Objs \cup {NoObj},
    at : {"begun", "inserted", "registered", "left", "released", "unregistered",
          "disconnected", "replaced", "cleared"} ]

(* A placeholder is none of the values it stands beside.                   *)
ASSUME SessionsAssumption ==
  /\ NoObj \notin Objs \cup Session
  /\ NoClient \notin Clients
  /\ NoRow \notin Clients \cup {NoClient}
  /\ Idle # Down /\ {Idle, Down} \cap Request = {}

TypeOK ==
  /\ rows \in [Ids -> Clients \cup {NoClient, NoRow}]
  /\ devices \subseteq Clients
  /\ sessions \in [Ids -> Objs \cup {NoObj}]
  /\ obj \in [Objs -> Session \cup {NoObj}]
  /\ client \in [Clients -> Client]
  /\ events \subseteq Event
  /\ thread \in [Threads -> Request \cup {Idle, Down}]
  /\ marks \in [Ids -> SUBSET {"crossed", "unsaved", "unheard", "outdated"}]

Fresh == [owner |-> NoObj, paired |-> FALSE, wire |-> "off"]

Init ==
  /\ rows = [i \in Ids |-> NoRow]
  /\ devices = {}
  /\ sessions = [i \in Ids |-> NoObj]
  /\ obj = [o \in Objs |-> NoObj]
  /\ client = [c \in Clients |-> Fresh]
  /\ events = {}
  /\ thread = [t \in Threads |-> Idle]
  /\ marks = [i \in Ids |-> {}]

Up == \A t \in Threads : thread[t] # Down

Busy(t) == thread[t] \notin {Idle, Down}

InProgress(i) == {t \in Threads : Busy(t) /\ thread[t].id = i}

Mark(i, what) == marks' = [marks EXCEPT ![i] = @ \cup {what}]

Go(t, at) == thread' = [thread EXCEPT ![t].at = at]

Done(t) == thread' = [thread EXCEPT ![t] = Idle]

Current(o) == IF o = NoObj THEN NoClient ELSE obj[o].client

(* A client nobody has used: NewDevice makes a new identity. *)
Unused == {c \in Clients : client[c] = Fresh /\ c \notin devices /\ \A i \in Ids : rows[i] # c}

NewClient == CHOOSE c \in Unused : TRUE

(* Requests that undo each other's work when both are in progress. *)
Conflict(op, other) ==
  {op, other} # {"create"}

Begins(t, op, i) ==
  /\ thread[t] = Idle
  /\ thread' = [thread EXCEPT ![t] = [op |-> op, id |-> i, obj |-> sessions[i], at |-> "begun"]]
  /\ IF \E u \in InProgress(i) : Conflict(op, thread[u].op) THEN Mark(i, "crossed") ELSE UNCHANGED marks
  /\ UNCHANGED <<rows, devices, sessions, obj, client, events>>

Doing(t, op, at) == Busy(t) /\ thread[t].op = op /\ thread[t].at = at

------------------------------------------------------------------------------
(* The store: statements that take effect on the row if there is one.      *)
(* Their errors are dropped, but for the insertion's.                      *)

SetJid_Upsert(i, jid) == rows' = [rows EXCEPT ![i] = jid]

SetJid(i, jid) == rows' = [rows EXCEPT ![i] = IF @ = NoRow THEN NoRow ELSE jid]

------------------------------------------------------------------------------
(* startPairing of an object, with the client it has now *)

Pairs(o) ==
  LET c == Current(o) IN
  \/ /\ ~client[c].paired /\ client[c].wire = "off"
     /\ client' = [client EXCEPT ![c].wire = "pairing"]
  \/ UNCHANGED client                          \* GetQRChannel or Connect fails

(* replaceClient, first the Disconnect, then the assignment.               *)
Disconnects_Omitted(t) ==
  /\ Go(t, "disconnected")
  /\ UNCHANGED <<rows, devices, sessions, obj, client, events, marks>>

Disconnects(t) ==
  /\ Go(t, "disconnected")
  /\ client' = [client EXCEPT ![Current(thread[t].obj)].wire = "off"]
  /\ UNCHANGED <<rows, devices, sessions, obj, events, marks>>

Replaces(t) ==
  /\ Busy(t) /\ thread[t].at = "disconnected"
  /\ Unused # {}
  /\ obj' = [obj EXCEPT ![thread[t].obj].client = NewClient]
  /\ client' = [client EXCEPT ![NewClient].owner = thread[t].obj]
  /\ Go(t, "replaced")
  /\ UNCHANGED <<rows, devices, sessions, events, marks>>

------------------------------------------------------------------------------
(* Create *)

BeginCreate(t, i) == sessions[i] = NoObj /\ Begins(t, "create", i)

(* The primary key refuses a second row. *)
Insert(t) ==
  /\ Doing(t, "create", "begun")
  /\ \/ /\ rows[thread[t].id] = NoRow
        /\ rows' = [rows EXCEPT ![thread[t].id] = NoClient]
        /\ Go(t, "inserted")
     \/ Done(t) /\ UNCHANGED rows
  /\ UNCHANGED <<devices, sessions, obj, client, events, marks>>

Register_ClientLater(t) ==
  /\ Doing(t, "create", "inserted")
  /\ Unused # {}
  /\ \E o \in Objs : obj[o] = NoObj
  /\ LET o == CHOOSE p \in Objs : obj[p] = NoObj IN
       /\ obj' = [obj EXCEPT ![o] = [id |-> thread[t].id, client |-> NoClient, auth |-> "waiting"]]
       /\ sessions' = [sessions EXCEPT ![thread[t].id] = o]
       /\ thread' = [thread EXCEPT ![t].at = "registered", ![t].obj = o]
  /\ UNCHANGED <<rows, devices, client, events, marks>>

Register(t) ==
  /\ Doing(t, "create", "inserted")
  /\ Unused # {}
  /\ \E o \in Objs : obj[o] = NoObj
  /\ LET o == CHOOSE p \in Objs : obj[p] = NoObj IN
       /\ obj' = [obj EXCEPT ![o] = [id |-> thread[t].id, client |-> NewClient,
                                     auth |-> "waiting"]]
       /\ sessions' = [sessions EXCEPT ![thread[t].id] = o]
       /\ client' = [client EXCEPT ![NewClient].owner = o]
       /\ thread' = [thread EXCEPT ![t].at = "registered", ![t].obj = o]
  /\ UNCHANGED <<rows, devices, events, marks>>

(* An error answers 500, but the session stays registered and stored.      *)
StartPairing(t) ==
  /\ Doing(t, "create", "registered") \/ Doing(t, "pair", "replaced")
  /\ Pairs(thread[t].obj)
  /\ Done(t)
  /\ UNCHANGED <<rows, devices, sessions, obj, events, marks>>

------------------------------------------------------------------------------
(* Delete *)

BeginDelete(t, i) == sessions[i] # NoObj /\ Begins(t, "delete", i)

(* Logout tells WhatsApp, disconnects and deletes the device; if it fails, *)
(* Delete removes the device itself, which may fail as well, and leaves    *)
(* the client as it is.                                                    *)
Leaves(t) ==
  LET c == Current(thread[t].obj) IN
  \/ /\ client' = [client EXCEPT ![c].paired = FALSE, ![c].wire = "off"]
     /\ devices' = devices \ {c}
     /\ UNCHANGED marks
  \/ /\ client[c].paired
     /\ UNCHANGED client
     /\ \/ thread[t].op = "delete" /\ devices' \in {devices, devices \ {c}} /\ Mark(thread[t].id, "unheard")
        \/ thread[t].op = "logout" /\ UNCHANGED <<devices, marks>>

LeaveAndDelete_RowFirst(t) ==
  /\ Doing(t, "delete", "begun")
  /\ Leaves(t)
  /\ rows' = [rows EXCEPT ![thread[t].id] = NoRow]
  /\ Go(t, "released")
  /\ UNCHANGED <<sessions, obj, events>>

LeaveAndDelete(t) ==
  /\ Doing(t, "delete", "begun")
  /\ Leaves(t)
  /\ Go(t, "released")
  /\ UNCHANGED <<rows, sessions, obj, events>>

Unregister(t) ==
  /\ Doing(t, "delete", "released")
  /\ sessions' = [sessions EXCEPT ![thread[t].id] = NoObj]
  /\ Go(t, "unregistered")
  /\ UNCHANGED <<rows, devices, obj, client, events, marks>>

DeleteRow(t) ==
  /\ Doing(t, "delete", "unregistered")
  /\ rows' = [rows EXCEPT ![thread[t].id] = NoRow] \/ UNCHANGED rows
  /\ Done(t)
  /\ UNCHANGED <<devices, sessions, obj, client, events, marks>>

------------------------------------------------------------------------------
(* Logout and Pair *)

BeginLogout(t, i) == sessions[i] # NoObj /\ Begins(t, "logout", i)

LeaveAndStay(t) ==
  /\ Doing(t, "logout", "begun")
  /\ \/ client[Current(thread[t].obj)].paired /\ Leaves(t)
     \/ ~client[Current(thread[t].obj)].paired /\ UNCHANGED <<devices, client, marks>>
  /\ Go(t, "left")
  /\ UNCHANGED <<rows, sessions, obj, events>>

LogoutDisconnects(t) == Doing(t, "logout", "left") /\ Disconnects(t)

ClearJid(t) ==
  /\ Doing(t, "logout", "replaced")
  /\ SetJid(thread[t].id, NoClient) \/ UNCHANGED rows
  /\ Go(t, "cleared")
  /\ UNCHANGED <<devices, sessions, obj, client, events, marks>>

LoggedOutByRequest(t) ==
  /\ Doing(t, "logout", "cleared")
  /\ obj' = [obj EXCEPT ![thread[t].obj].auth = "logged_out"]
  /\ Done(t)
  /\ UNCHANGED <<rows, devices, sessions, client, events, marks>>

BeginPair(t, i) ==
  /\ sessions[i] # NoObj
  /\ ~client[Current(sessions[i])].paired
  /\ Begins(t, "pair", i)

PairDisconnects(t) == Doing(t, "pair", "begun") /\ Disconnects(t)

------------------------------------------------------------------------------
(* WhatsApp and the library *)

Arrives(c, kind) ==
  events' = events \cup {[of |-> c, kind |-> kind, at |-> "arrived", jid |-> NoClient]}

(* The code is scanned: the device is stored under its new identity.       *)
Scan(c) ==
  /\ client[c].wire = "pairing"
  /\ client' = [client EXCEPT ![c].paired = TRUE, ![c].wire = "on"]
  /\ devices' = devices \cup {c}
  /\ Arrives(c, "in")
  /\ UNCHANGED <<rows, sessions, obj, thread, marks>>

Connected(c) ==
  /\ client[c].wire = "on" /\ client[c].paired
  /\ Arrives(c, "in")
  /\ UNCHANGED <<rows, devices, sessions, obj, client, thread, marks>>

QRCode(c) ==
  /\ client[c].wire = "pairing"
  /\ obj' = [obj EXCEPT ![client[c].owner].auth = "waiting"]
  /\ UNCHANGED <<rows, devices, sessions, client, events, thread, marks>>

QRTimeout(c) ==
  /\ client[c].wire = "pairing"
  /\ client' = [client EXCEPT ![c].wire = "off"]
  /\ Arrives(c, "out")
  /\ UNCHANGED <<rows, devices, sessions, obj, thread, marks>>

(* The phone removes the device. *)
Removed(c) ==
  /\ client[c].wire = "on"
  /\ client' = [client EXCEPT ![c].paired = FALSE, ![c].wire = "off"]
  /\ devices' = devices \ {c}
  /\ Arrives(c, "out")
  /\ UNCHANGED <<rows, sessions, obj, thread, marks>>

------------------------------------------------------------------------------
(* handleEvent and the loop over the QR channel *)

Owner(e) == client[e.of].owner

ReadIdentity_Skipped(e) ==
  /\ e \in events /\ e.at = "arrived" /\ e.kind = "in"
  /\ events' = (events \ {e}) \cup {[e EXCEPT !.at = "stored"]}
  /\ UNCHANGED <<rows, devices, sessions, obj, client, thread, marks>>

ReadIdentity(e) ==
  /\ e \in events /\ e.at = "arrived" /\ e.kind = "in"
  /\ LET c == Current(Owner(e)) IN
     events' = (events \ {e}) \cup
       {IF client[c].paired THEN [e EXCEPT !.at = "read", !.jid = c] ELSE [e EXCEPT !.at = "stored"]}
  /\ UNCHANGED <<rows, devices, sessions, obj, client, thread, marks>>

(* An error of the statement is dropped. *)
StoreIdentity(e) ==
  /\ e \in events /\ e.at = "read"
  /\ LET i == obj[Owner(e)].id IN
     \/ /\ SetJid(i, e.jid)
        /\ \/ e.jid = Current(sessions[i]) /\ UNCHANGED marks
           \/ e.jid # Current(sessions[i]) /\ Mark(i, "outdated")
     \/ UNCHANGED rows /\ Mark(i, "unsaved")
  /\ events' = (events \ {e}) \cup {[e EXCEPT !.at = "stored", !.jid = NoClient]}
  /\ UNCHANGED <<devices, sessions, obj, client, thread>>

SetAuth(e) ==
  /\ e \in events
  /\ e.at = "stored" \/ e.kind = "out"
  /\ obj' = [obj EXCEPT ![Owner(e)].auth = IF e.at = "stored" THEN "open" ELSE "logged_out"]
  /\ events' = events \ {e}
  /\ UNCHANGED <<rows, devices, sessions, client, thread, marks>>

------------------------------------------------------------------------------
(* Crash, or shutdown, and Restore *)

Crash ==
  /\ Up
  /\ sessions' = [i \in Ids |-> NoObj]
  /\ obj' = [o \in Objs |-> NoObj]
  /\ client' = [c \in Clients |-> Fresh]
  /\ events' = {}
  /\ thread' = [t \in Threads |-> Down]
  /\ marks' = [i \in Ids |-> {}]
  /\ UNCHANGED <<rows, devices>>

(* A row without a jid, or whose device is gone or cannot be read, is      *)
(* deleted, unless that fails; for the others a client of the stored       *)
(* device connects.                                                        *)
Restore ==
  /\ ~Up
  /\ \E unread \in SUBSET devices, undeleted \in SUBSET Ids, home \in [Ids -> Objs] :
       LET kept == {i \in Ids : rows[i] \in devices \ unread}
       IN /\ \A i, j \in kept : home[i] = home[j] => i = j
          /\ rows' = [i \in Ids |-> IF i \in kept \cup undeleted THEN rows[i] ELSE NoRow]
          /\ sessions' = [i \in Ids |-> IF i \in kept THEN home[i] ELSE NoObj]
          /\ obj' = [o \in Objs |->
               IF \E i \in kept : home[i] = o
               THEN LET i == CHOOSE j \in kept : home[j] = o
                    IN [id |-> i, client |-> rows[i], auth |-> "waiting"]
               ELSE NoObj]
          /\ \E failed \in SUBSET kept :
               client' = [c \in Clients |->
                 IF \E i \in kept : rows[i] = c
                 THEN LET i == CHOOSE j \in kept : rows[j] = c
                      IN [owner |-> home[i], paired |-> TRUE, wire |-> IF i \in failed THEN "off" ELSE "on"]
                 ELSE Fresh]
  /\ thread' = [t \in Threads |-> Idle]
  /\ UNCHANGED <<devices, events, marks>>

------------------------------------------------------------------------------
Requests(t) ==
  \E i \in Ids : BeginCreate(t, i) \/ BeginDelete(t, i) \/ BeginLogout(t, i) \/ BeginPair(t, i)

Proceeds(t) ==
  \/ Insert(t) \/ Register(t) \/ StartPairing(t)
  \/ LeaveAndDelete(t) \/ Unregister(t) \/ DeleteRow(t)
  \/ LeaveAndStay(t) \/ LogoutDisconnects(t) \/ PairDisconnects(t) \/ Replaces(t)
  \/ ClearJid(t) \/ LoggedOutByRequest(t)

Network(c) == Scan(c) \/ Connected(c) \/ QRCode(c) \/ QRTimeout(c) \/ Removed(c)

Handles(e) == ReadIdentity(e) \/ StoreIdentity(e) \/ SetAuth(e)

Next ==
  \/ \E t \in Threads : Requests(t) \/ Proceeds(t)
  \/ \E c \in Clients : Network(c)
  \/ \E e \in events : Handles(e)
  \/ Crash \/ Restore

Spec == Init /\ [][Next]_vars

(* Requests and events that have begun are carried on; nobody has to begin *)
(* one, to scan a code or to start the server again.                       *)
FairSpec ==
  /\ Spec
  /\ \A t \in Threads : WF_vars(Proceeds(t))
  /\ WF_vars(\E e \in events : ReadIdentity(e))
  /\ WF_vars(\E e \in events : StoreIdentity(e))

------------------------------------------------------------------------------
(* Safety.  The marks are what the code does not guard against: two        *)
(* requests at once for one session (crossed), an error of setJID, which   *)
(* is dropped (unsaved), the identity of a client that was replaced after  *)
(* it was read (outdated), and a Logout that failed while the session was  *)
(* deleted (unheard).                                                      *)

Quiet(i) == InProgress(i) = {} /\ \A e \in events : obj[Owner(e)].id # i

Pristine(i) == marks[i] = {}

(* A registered session has its row: what clients see of it survives a     *)
(* restart, unless two requests for it were in progress at once.           *)
RegisteredIsStored ==
  \A i \in Ids : sessions[i] # NoObj /\ "crossed" \notin marks[i] => rows[i] # NoRow

(* A client that is connected is the one its registered session uses:      *)
(* replaced and deleted clients do not go on receiving messages and calls, *)
(* not even while the request that replaces or deletes them is under way.  *)
LiveIsCurrent ==
  \A c \in Clients : client[c].wire # "off" =>
    LET i == obj[client[c].owner].id IN
    \/ sessions[i] = client[c].owner /\ Current(sessions[i]) = c
    \/ ~Pristine(i)

(* Once its events are handled, a session that is open with a paired       *)
(* client has that client's identity in its row, so a restart restores it. *)
OpenIsStored ==
  \A i \in Ids : (sessions[i] # NoObj /\ Quiet(i) /\ Pristine(i)) =>
    LET o == obj[sessions[i]] IN
    (o.auth = "open" /\ client[o.client].paired) => rows[i] = o.client

(* The rows say what a restart needs: which sessions there are, and whose  *)
(* device each open one is.                                                *)
StoreKeepsUp == RegisteredIsStored /\ OpenIsStored

(* A row appears only by Create: the identity that an event of a deleted   *)
(* session stores late does not bring the session back.                    *)
DeletedStaysDeleted ==
  [][\A i \in Ids : rows[i] = NoRow /\ rows'[i] # NoRow => rows'[i] = NoClient]_vars

------------------------------------------------------------------------------
(* A client whose code was scanned has its identity stored, unless it is   *)
(* replaced, removed or deleted, or the server stops or the store fails.   *)
PairingIsStored ==
  \A c \in Clients :
    (client[c].paired /\ client[c].wire = "on")
      ~> \/ \E i \in Ids : rows[i] = c
         \/ client[c].wire = "off"
         \/ Current(client[c].owner) # c
         \/ ~Pristine(obj[client[c].owner].id)
         \/ sessions[obj[client[c].owner].id] # client[c].owner
===============================================================================
