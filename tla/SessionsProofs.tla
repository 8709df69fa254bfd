----------------------------- MODULE SessionsProofs -----------------------------
(***************************************************************************)
(* Proofs about Sessions, for any number of sessions, objects, clients and *)
(* requests at once.                                                       *)
(***************************************************************************)
EXTENDS Sessions, TLAPS

------------------------------------------------------------------------------
(* The inductive invariant.  Memory: objects have one client each, and a   *)
(* client belongs to one object for good.                                  *)

Made(o) == o \in Objs /\ obj[o] \in Session

ClientBelongs(c) ==
  /\ client[c].owner = NoObj => client[c] = Fresh
  /\ client[c].owner # NoObj => Made(client[c].owner)

ObjectHasClient(o) == Made(o) => client[obj[o].client].owner = o

Registered(i) == sessions[i] # NoObj => Made(sessions[i]) /\ obj[sessions[i]].id = i

(* A row names a client of its own session, which no other row names.      *)
RowIsOwn(i) ==
  rows[i] \in Clients =>
    /\ client[rows[i]].owner # NoObj => obj[client[rows[i]].owner].id = i
    /\ \A j \in Ids : rows[j] = rows[i] => j = i

EventBelongs(e) ==
  /\ client[e.of].owner # NoObj
  /\ e.at = "read" => e.jid \in Clients /\ client[e.jid].owner = client[e.of].owner

Stages(op) ==
  CASE op = "create" -> {"begun", "inserted", "registered"}
    [] op = "delete" -> {"begun", "released", "unregistered"}
    [] op = "logout" -> {"begun", "left", "disconnected", "replaced", "cleared"}
    [] op = "pair"   -> {"begun", "disconnected", "replaced"}

HasObject(t) == thread[t].op # "create" \/ thread[t].at = "registered"

RequestIsSound(t) ==
  /\ thread[t].at \in Stages(thread[t].op)
  /\ HasObject(t) => Made(thread[t].obj) /\ obj[thread[t].obj].id = thread[t].id

(* Nothing is in memory while the server is down.                          *)
DownIsEmpty ==
  ~Up => /\ events = {}
         /\ \A t \in Threads : thread[t] = Down
         /\ \A c \in Clients : client[c] = Fresh

Uncrossed(i) == "crossed" \notin marks[i]

(* Requests that do not cross: several may create a session, but one goes  *)
(* beyond the insertion of its row; any other is alone.                    *)
Undisturbed(t, u) ==
  Busy(t) /\ Busy(u) /\ t # u /\ thread[t].id = thread[u].id /\ Uncrossed(thread[t].id) =>
    /\ thread[t].op = "create" /\ thread[u].op = "create"
    /\ thread[t].at = "begun" \/ thread[u].at = "begun"

Holds(t) == HasObject(t) /\ thread[t].at # "unregistered"

FindsSession(t) ==
  Uncrossed(thread[t].id) =>
    /\ Holds(t) => sessions[thread[t].id] = thread[t].obj
    /\ thread[t].at \in {"inserted", "unregistered"} => sessions[thread[t].id] = NoObj
    /\ thread[t].at = "inserted" => rows[thread[t].id] # NoRow

(* A client that is about to be forgotten is disconnected, and a new one   *)
(* rests until its session is logged out.                                  *)
Silenced(t) ==
  Pristine(thread[t].id) =>
    LET c == client[Current(thread[t].obj)] IN
    /\ thread[t].at \in {"disconnected", "released"} => c.wire = "off"
    /\ (thread[t].op = "logout" /\ thread[t].at \in {"replaced", "cleared"}) => c.wire = "off" /\ ~c.paired

(* The events that will store the identity of client c of object o.        *)
WillStore(o, c) ==
  \E e \in events :
    /\ e.kind = "in" /\ client[e.of].owner = o
    /\ e.at \in {"arrived", "read"}
    /\ e.at = "read" => e.jid = c

IdentityIsSaved(i) ==
  sessions[i] # NoObj /\ Pristine(i) /\ client[Current(sessions[i])].paired =>
    rows[i] = Current(sessions[i]) \/ WillStore(sessions[i], Current(sessions[i]))

Memory ==
  /\ \A c \in Clients : ClientBelongs(c)
  /\ \A o \in Objs : ObjectHasClient(o)
  /\ \A i \in Ids : Registered(i) /\ RowIsOwn(i)
  /\ \A e \in events : EventBelongs(e)
  /\ \A t \in Threads : Busy(t) => RequestIsSound(t)
  /\ DownIsEmpty

RequestsInv ==
  /\ \A t, u \in Threads : Undisturbed(t, u)
  /\ \A t \in Threads : Busy(t) => FindsSession(t) /\ Silenced(t)

IInv ==
  /\ TypeOK
  /\ Memory
  /\ RequestsInv
  /\ RegisteredIsStored
  /\ LiveIsCurrent
  /\ \A i \in Ids : IdentityIsSaved(i)

------------------------------------------------------------------------------
(* Requests.                                                               *)

Stage == {"begun", "inserted", "registered", "left", "released", "unregistered",
          "disconnected", "replaced", "cleared"}

(* A request that goes on keeps everything but its stage.                  *)
LEMMA Goes ==
  ASSUME TypeOK, NEW t \in Threads, Busy(t), NEW at \in Stage, Go(t, at)
  PROVE  /\ thread' \in [Threads -> Request \cup {Idle, Down}]
         /\ \A u \in Threads \ {t} : thread'[u] = thread[u]
         /\ Busy(t)' /\ thread'[t] \in Request
         /\ thread'[t].op = thread[t].op /\ thread'[t].id = thread[t].id
         /\ thread'[t].obj = thread[t].obj /\ thread'[t].at = at
<1> DEFINE r == [thread[t] EXCEPT !.at = at]
<1>1. thread[t] \in Request
  BY DEF TypeOK, Busy
<1>2. r \in Request /\ r.op = thread[t].op /\ r.id = thread[t].id /\ r.obj = thread[t].obj /\ r.at = at
  BY <1>1 DEF Request, Stage
<1>3. thread' = [thread EXCEPT ![t] = r]
  BY DEF Go
<1> HIDE DEF r
<1>4. thread'[t] = r /\ \A u \in Threads \ {t} : thread'[u] = thread[u]
  BY <1>3 DEF TypeOK
<1>5. thread' \in [Threads -> Request \cup {Idle, Down}]
  BY <1>2, <1>3 DEF TypeOK
<1>6. r # Idle /\ r # Down
  BY <1>2, SessionsAssumption
<1> QED
  BY <1>2, <1>4, <1>5, <1>6 DEF Busy

LEMMA Ends ==
  ASSUME TypeOK, NEW t \in Threads, Done(t)
  PROVE  /\ thread' \in [Threads -> Request \cup {Idle, Down}]
         /\ \A u \in Threads \ {t} : thread'[u] = thread[u]
         /\ ~Busy(t)' /\ thread'[t] = Idle
BY DEF TypeOK, Done, Busy

(* What a request finds.                                                   *)
LEMMA Finds ==
  ASSUME IInv, NEW t \in Threads, Busy(t)
  PROVE  /\ Up
         /\ thread[t] \in Request /\ thread[t].id \in Ids
         /\ RequestIsSound(t) /\ FindsSession(t) /\ Silenced(t)
         /\ HasObject(t) =>
              /\ thread[t].obj \in Objs /\ thread[t].obj # NoObj
              /\ Made(thread[t].obj)
              /\ obj[thread[t].obj].id = thread[t].id
              /\ Current(thread[t].obj) = obj[thread[t].obj].client
              /\ Current(thread[t].obj) \in Clients
              /\ client[Current(thread[t].obj)].owner = thread[t].obj
<1>1. TypeOK /\ Memory /\ RequestsInv
  BY DEF IInv
<1>2. Up
  BY <1>1 DEF Memory, DownIsEmpty, Up, Busy
<1>3. thread[t] \in Request /\ thread[t].id \in Ids
  BY <1>1 DEF TypeOK, Busy, Request
<1>4. RequestIsSound(t) /\ FindsSession(t) /\ Silenced(t)
  BY <1>1 DEF Memory, RequestsInv
<1>5. ASSUME HasObject(t)
      PROVE  /\ thread[t].obj \in Objs /\ thread[t].obj # NoObj
             /\ Made(thread[t].obj)
             /\ obj[thread[t].obj].id = thread[t].id
             /\ Current(thread[t].obj) = obj[thread[t].obj].client
             /\ Current(thread[t].obj) \in Clients
             /\ client[Current(thread[t].obj)].owner = thread[t].obj
  <2>1. Made(thread[t].obj) /\ obj[thread[t].obj].id = thread[t].id
    BY <1>4, <1>5 DEF RequestIsSound
  <2>2. thread[t].obj \in Objs /\ thread[t].obj # NoObj /\ obj[thread[t].obj].client \in Clients
    BY <2>1, SessionsAssumption DEF Made, Session
  <2>3. client[obj[thread[t].obj].client].owner = thread[t].obj
    BY <1>1, <2>1, <2>2 DEF Memory, ObjectHasClient
  <2> QED
    BY <2>1, <2>2, <2>3 DEF Current
<1> QED
  BY <1>2, <1>3, <1>4, <1>5

------------------------------------------------------------------------------
(* Steps that leave the sessions where they are: no object is made, none   *)
(* gets another client, and no client that rests is woken.                 *)

SameObjects ==
  \A o \in Objs :
    /\ Made(o)' <=> Made(o)
    /\ Made(o) => obj'[o].id = obj[o].id /\ obj'[o].client = obj[o].client

SameOwners ==
  \A c \in Clients :
    /\ client'[c].owner = client[c].owner
    /\ client[c].owner = NoObj => client'[c] = client[c]

Calm ==
  \A c \in Clients :
    client[c].wire = "off" => client'[c].wire = "off" /\ (client'[c].paired => client[c].paired)

MarksGrow == \A i \in Ids : marks[i] \subseteq marks'[i]

(* A row is lost only when no session needs it.                            *)
RowsStay ==
  \A i \in Ids : rows[i] # NoRow /\ rows'[i] = NoRow =>
    \/ ~Uncrossed(i)
    \/ /\ sessions[i] = NoObj
       /\ \A u \in Threads : Busy(u) /\ thread[u].id = i => thread[u].at # "inserted"

RowsOwn ==
  \A i \in Ids : rows'[i] \in Clients =>
    \/ rows'[i] = rows[i]
    \/ client[rows'[i]].owner # NoObj /\ obj[client[rows'[i]].owner].id = i

EventsOwn == \A e \in events' : e \in events \/ EventBelongs(e)

ThreadsHold ==
  \A t \in Threads : Busy(t)' =>
    \/ thread'[t] = thread[t]
    \/ RequestIsSound(t)' /\ FindsSession(t)' /\ Silenced(t)'

LEMMA SteadyMemory ==
  ASSUME IInv, TypeOK', Up', sessions' = sessions, SameObjects, SameOwners,
         RowsOwn, EventsOwn, ThreadsHold
  PROVE  Memory'
<1> USE DEF IInv
<1>1. ASSUME NEW c \in Clients PROVE ClientBelongs(c)'
  <2>1. ClientBelongs(c)
    BY DEF Memory
  <2>2. client'[c].owner = client[c].owner /\ (client[c].owner = NoObj => client'[c] = client[c])
    BY DEF SameOwners
  <2>3. ASSUME client[c].owner # NoObj PROVE Made(client[c].owner)'
    <3>1. Made(client[c].owner)
      BY <2>1, <2>3 DEF ClientBelongs
    <3>2. PICK o \in Objs : o = client[c].owner /\ Made(o)
      BY <3>1 DEF Made
    <3>3. Made(o)'
      BY <3>2 DEF SameObjects
    <3> QED
      BY <2>2, <3>2, <3>3 DEF Made
  <2>4. Fresh' = Fresh
    BY DEF Fresh
  <2>5. client'[c].owner # NoObj => client'[c].owner \in Objs /\ obj'[client'[c].owner] \in Session
    BY <2>2, <2>3 DEF Made
  <2> QED
    BY <2>1, <2>2, <2>5 DEF ClientBelongs, Made, Fresh
<1>2. ASSUME NEW o \in Objs PROVE ObjectHasClient(o)'
  <2> SUFFICES ASSUME Made(o)' PROVE client'[obj'[o].client].owner = o
    BY DEF ObjectHasClient
  <2>1. Made(o) /\ obj'[o].client = obj[o].client
    BY DEF SameObjects
  <2>2. obj[o].client \in Clients /\ client[obj[o].client].owner = o
    BY <2>1 DEF Memory, ObjectHasClient, Made, Session
  <2> QED
    BY <2>1, <2>2 DEF SameOwners
<1>3. ASSUME NEW i \in Ids PROVE Registered(i)'
  <2>1. Registered(i)
    BY DEF Memory
  <2> QED
    BY <2>1 DEF Registered, Made, SameObjects
<1>4. ASSUME NEW c \in Clients, NEW i \in Ids, client[c].owner # NoObj, obj[client[c].owner].id = i
      PROVE  client'[c].owner # NoObj /\ obj'[client'[c].owner].id = i
  <2>1. Made(client[c].owner)
    BY <1>4 DEF Memory, ClientBelongs
  <2> QED
    BY <1>4, <2>1 DEF Made, SameObjects, SameOwners
<1>5. ASSUME NEW i \in Ids PROVE RowIsOwn(i)'
  <2> SUFFICES ASSUME rows'[i] \in Clients
               PROVE  /\ client'[rows'[i]].owner # NoObj => obj'[client'[rows'[i]].owner].id = i
                      /\ \A j \in Ids : rows'[j] = rows'[i] => j = i
    BY DEF RowIsOwn
  <2>1. PICK c \in Clients : c = rows'[i]
    OBVIOUS
  <2>2. ASSUME NEW j \in Ids, rows'[j] = c
        PROVE  \/ rows[j] = c
               \/ client[c].owner # NoObj /\ obj[client[c].owner].id = j
    BY <2>2 DEF RowsOwn
  <2>3. ASSUME NEW j \in Ids, rows[j] = c, client[c].owner # NoObj
        PROVE  obj[client[c].owner].id = j
    BY <2>3 DEF Memory, RowIsOwn
  <2>4. ASSUME NEW j \in Ids, rows'[j] = c PROVE j = i
    <3>1. CASE rows[j] = c /\ rows[i] = c
      BY <3>1 DEF Memory, RowIsOwn
    <3>2. CASE ~(rows[j] = c /\ rows[i] = c)
      BY <2>1, <2>2, <2>3, <2>4, <3>2
    <3> QED
      BY <3>1, <3>2
  <2>5. ASSUME client'[c].owner # NoObj PROVE obj'[client'[c].owner].id = i
    <3>1. client[c].owner # NoObj
      BY <2>5 DEF SameOwners
    <3>2. obj[client[c].owner].id = i
      BY <2>1, <2>2, <2>3, <3>1
    <3> QED
      BY <1>4, <3>1, <3>2
  <2> QED
    BY <2>1, <2>4, <2>5
<1>6. ASSUME NEW e \in events' PROVE EventBelongs(e)'
  <2>1. EventBelongs(e)
    BY DEF EventsOwn, Memory
  <2>2. e.of \in Clients
    BY DEF TypeOK, Event
  <2> QED
    BY <2>1, <2>2 DEF EventBelongs, SameOwners
<1>7. ASSUME NEW t \in Threads, Busy(t)' PROVE RequestIsSound(t)'
  <2>1. CASE thread'[t] = thread[t]
    <3>1. Busy(t)
      BY <1>7, <2>1 DEF Busy
    <3>2. RequestIsSound(t)
      BY <3>1 DEF Memory
    <3> QED
      BY <2>1, <3>2 DEF RequestIsSound, HasObject, Made, SameObjects, Stages
  <2>2. CASE RequestIsSound(t)'
    BY <2>2
  <2> QED
    BY <1>7, <2>1, <2>2 DEF ThreadsHold
<1>8. DownIsEmpty'
  BY DEF DownIsEmpty
<1> QED
  BY <1>1, <1>2, <1>3, <1>5, <1>6, <1>7, <1>8 DEF Memory

LEMMA SteadyStep ==
  ASSUME IInv, TypeOK', Up', sessions' = sessions, SameObjects, SameOwners, Calm, MarksGrow,
         RowsStay, RowsOwn, EventsOwn, ThreadsHold,
         \A t, u \in Threads : Undisturbed(t, u)',
         \A i \in Ids : IdentityIsSaved(i)'
  PROVE  IInv'
<1> USE DEF IInv
<1>1. Memory'
  BY SteadyMemory
<1>2. ASSUME NEW o, Made(o) PROVE Current(o)' = Current(o) /\ Current(o) \in Clients
  BY <1>2, SessionsAssumption DEF Made, Current, SameObjects, Session
<1>3. ASSUME NEW i \in Ids PROVE (Uncrossed(i)' => Uncrossed(i)) /\ (Pristine(i)' => Pristine(i))
  BY DEF MarksGrow, Uncrossed, Pristine
<1>4. ASSUME NEW t \in Threads, Busy(t)' PROVE FindsSession(t)' /\ Silenced(t)'
  <2>1. CASE thread'[t] = thread[t]
    <3>1. Busy(t)
      BY <1>4, <2>1 DEF Busy
    <3>2. thread[t].id \in Ids /\ FindsSession(t) /\ Silenced(t)
          /\ (HasObject(t) => Made(thread[t].obj)) /\ RequestIsSound(t) /\ thread[t] \in Request
      BY <3>1, Finds
    <3>3. FindsSession(t)'
      <4> DEFINE i == thread[t].id
      <4>1. ASSUME Uncrossed(i), thread[t].at = "inserted", rows[i] # NoRow PROVE rows'[i] # NoRow
        BY <3>1, <3>2, <4>1 DEF RowsStay
      <4> QED
        BY <1>3, <2>1, <3>2, <4>1 DEF FindsSession, Holds, HasObject
    <3>4. Silenced(t)'
      <4> SUFFICES ASSUME Pristine(thread[t].id),
                          \/ thread[t].at \in {"disconnected", "released"}
                          \/ thread[t].op = "logout" /\ thread[t].at \in {"replaced", "cleared"}
                   PROVE  LET c == client'[Current(thread[t].obj)'] IN
                          /\ thread[t].at \in {"disconnected", "released"} => c.wire = "off"
                          /\ (thread[t].op = "logout" /\ thread[t].at \in {"replaced", "cleared"}) => c.wire = "off" /\ ~c.paired
        BY <1>3, <2>1, <3>2 DEF Silenced, Current
      <4>1. HasObject(t)
        BY <3>2 DEF HasObject, RequestIsSound, Stages
      <4>2. Current(thread[t].obj)' = Current(thread[t].obj) /\ Current(thread[t].obj) \in Clients
        BY <1>2, <3>2, <4>1, <2>1
      <4>3. PICK c \in Clients : c = Current(thread[t].obj)
        BY <4>2
      <4>4. client[c].wire = "off" => client'[c].wire = "off" /\ (client'[c].paired => client[c].paired)
        BY DEF Calm
      <4> QED
        BY <3>2, <4>2, <4>3, <4>4 DEF Silenced
    <3> QED
      BY <3>3, <3>4
  <2>2. CASE FindsSession(t)' /\ Silenced(t)'
    BY <2>2
  <2> QED
    BY <1>4, <2>1, <2>2 DEF ThreadsHold
<1>5. RequestsInv'
  BY <1>4 DEF RequestsInv
<1>6. RegisteredIsStored'
  <2> SUFFICES ASSUME NEW i \in Ids, sessions[i] # NoObj, Uncrossed(i)'
               PROVE  rows'[i] # NoRow
    BY DEF RegisteredIsStored, Uncrossed
  <2>1. rows[i] # NoRow
    BY <1>3 DEF RegisteredIsStored, Uncrossed
  <2> QED
    BY <1>3, <2>1 DEF RowsStay
<1>7. LiveIsCurrent'
  <2> SUFFICES ASSUME NEW c \in Clients, client'[c].wire # "off", marks'[obj'[client'[c].owner].id] = {}
               PROVE  /\ sessions[obj'[client'[c].owner].id] = client'[c].owner
                      /\ client'[c].owner # NoObj /\ obj'[client'[c].owner].client = c
    BY DEF LiveIsCurrent, Current, Pristine
  <2>1. client[c].wire # "off" /\ client'[c].owner = client[c].owner
    BY DEF Calm, SameOwners
  <2>2. Made(client[c].owner)
    BY <2>1 DEF Memory, ClientBelongs, Fresh
  <2>3. PICK o \in Objs : o = client[c].owner /\ obj'[o].id = obj[o].id /\ obj[o].id \in Ids
    BY <2>2 DEF Made, SameObjects, Session
  <2>4. Pristine(obj[o].id)
    BY <1>3, <2>1, <2>3 DEF Pristine
  <2>5. sessions[obj[o].id] = o /\ Current(sessions[obj[o].id]) = c
    BY <2>1, <2>3, <2>4 DEF LiveIsCurrent
  <2>6. Current(o)' = c
    BY <1>2, <2>2, <2>3, <2>5
  <2> QED
    BY <2>1, <2>3, <2>5, <2>6, SessionsAssumption DEF Current
<1> QED
  BY <1>1, <1>5, <1>6, <1>7

(* Who undoes whose work is settled when a request begins.                 *)
LEMMA UndisturbedStays ==
  ASSUME IInv, MarksGrow, NEW t \in Threads, Busy(t),
         \A u \in Threads \ {t} : thread'[u] = thread[u],
         Busy(t)' => /\ thread'[t].op = thread[t].op /\ thread'[t].id = thread[t].id
                     /\ thread[t].op # "create" \/ thread[t].at # "begun"
  PROVE  \A u, v \in Threads : Undisturbed(u, v)'
<1> SUFFICES ASSUME NEW u \in Threads, NEW v \in Threads, Busy(u)', Busy(v)', u # v,
                    thread'[u].id = thread'[v].id, "crossed" \notin marks'[thread'[u].id]
             PROVE  /\ thread'[u].op = "create" /\ thread'[v].op = "create"
                    /\ thread'[u].at = "begun" \/ thread'[v].at = "begun"
  BY DEF Undisturbed, Uncrossed
<1>1. Busy(u) /\ Busy(v) /\ thread'[u].id = thread[u].id /\ thread'[v].id = thread[v].id
      /\ thread'[u].op = thread[u].op /\ thread'[v].op = thread[v].op
  BY DEF Busy
<1>2. thread[u].id \in Ids
  BY <1>1, Finds
<1>3. Uncrossed(thread[u].id)
  BY <1>1, <1>2 DEF MarksGrow, Uncrossed
<1>4. thread[u].op = "create" /\ thread[v].op = "create" /\ (thread[u].at = "begun" \/ thread[v].at = "begun")
  BY <1>1, <1>3 DEF IInv, RequestsInv, Undisturbed
<1> QED
  BY <1>1, <1>4

(* No event of a session, no row and no new identity.                      *)
LEMMA SavedStays ==
  ASSUME IInv, sessions' = sessions, SameObjects, SameOwners, MarksGrow,
         NEW i \in Ids, rows'[i] = rows[i],
         \A e \in events : e.kind = "in" /\ e.at \in {"arrived", "read"} => e \in events',
         \A c \in Clients : c = Current(sessions[i]) /\ client'[c].paired => client[c].paired
  PROVE  IdentityIsSaved(i)'
<1> SUFFICES ASSUME sessions[i] # NoObj, Pristine(i)', client'[Current(sessions[i])'].paired
             PROVE  rows'[i] = Current(sessions[i])' \/ WillStore(sessions[i], Current(sessions[i]))'
  BY DEF IdentityIsSaved, Current, WillStore
<1>1. Made(sessions[i])
  BY DEF IInv, Memory, Registered
<1>2. Current(sessions[i])' = Current(sessions[i]) /\ Current(sessions[i]) \in Clients
  BY <1>1, SessionsAssumption DEF Made, Current, SameObjects, Session
<1>3. Pristine(i)
  BY DEF MarksGrow, Pristine
<1>4. CASE rows[i] = Current(sessions[i])
  BY <1>2, <1>4
<1>5. CASE WillStore(sessions[i], Current(sessions[i]))
  <2>1. PICK e \in events : /\ e.kind = "in" /\ client[e.of].owner = sessions[i]
                            /\ e.at \in {"arrived", "read"}
                            /\ e.at = "read" => e.jid = Current(sessions[i])
    BY <1>5 DEF WillStore
  <2>2. e \in events' /\ e.of \in Clients
    BY <2>1 DEF IInv, TypeOK, Event
  <2> QED
    BY <1>2, <2>1, <2>2 DEF WillStore, SameOwners
<1> QED
  BY <1>2, <1>3, <1>4, <1>5 DEF IInv, IdentityIsSaved

------------------------------------------------------------------------------
(* What the actions do to a client and to the threads.                     *)

LEMMA ClientChanges ==
  ASSUME TypeOK, NEW c \in Clients, client[c].owner # NoObj,
         NEW q \in Client, q.owner = client[c].owner, client' = [client EXCEPT ![c] = q]
  PROVE  /\ client' \in [Clients -> Client]
         /\ SameOwners
         /\ client'[c] = q
         /\ \A d \in Clients \ {c} : client'[d] = client[d]
BY DEF TypeOK, SameOwners

LEMMA Wires ==
  ASSUME TypeOK, NEW c \in Clients, client[c].owner # NoObj, NEW w \in {"off", "pairing", "on"},
         client' = [client EXCEPT ![c].wire = w]
  PROVE  /\ client' \in [Clients -> Client]
         /\ SameOwners
         /\ client'[c].wire = w /\ client'[c].paired = client[c].paired
         /\ \A d \in Clients \ {c} : client'[d] = client[d]
<1> DEFINE q == [client[c] EXCEPT !.wire = w]
<1>1. client[c] \in Client
  BY DEF TypeOK
<1>2. q \in Client /\ q.owner = client[c].owner /\ q.wire = w /\ q.paired = client[c].paired
  BY <1>1 DEF Client
<1>3. client' = [client EXCEPT ![c] = q]
  OBVIOUS
<1> HIDE DEF q
<1> QED
  BY <1>2, <1>3, ClientChanges

LEMMA PairsAndWires ==
  ASSUME TypeOK, NEW c \in Clients, client[c].owner # NoObj, NEW w \in {"off", "pairing", "on"},
         NEW p \in BOOLEAN, client' = [client EXCEPT ![c].paired = p, ![c].wire = w]
  PROVE  /\ client' \in [Clients -> Client]
         /\ SameOwners
         /\ client'[c].wire = w /\ client'[c].paired = p
         /\ \A d \in Clients \ {c} : client'[d] = client[d]
<1> DEFINE q == [client[c] EXCEPT !.paired = p, !.wire = w]
<1>1. client[c] \in Client
  BY DEF TypeOK
<1>2. q \in Client /\ q.owner = client[c].owner /\ q.wire = w
  BY <1>1 DEF Client
<1>3. q.paired = p
  BY <1>1 DEF Client
<1>4. client' = [client EXCEPT ![c] = q]
  BY DEF TypeOK
<1> HIDE DEF q
<1> QED
  BY <1>2, <1>3, <1>4, ClientChanges

LEMMA MarksStay ==
  ASSUME TypeOK, UNCHANGED marks
  PROVE  MarksGrow /\ marks' \in [Ids -> SUBSET {"crossed", "unsaved", "unheard", "outdated"}]
BY DEF TypeOK, MarksGrow

LEMMA Marks ==
  ASSUME TypeOK, NEW i \in Ids, NEW m \in {"crossed", "unsaved", "unheard", "outdated"}, Mark(i, m)
  PROVE  /\ MarksGrow /\ marks' \in [Ids -> SUBSET {"crossed", "unsaved", "unheard", "outdated"}]
         /\ m \in marks'[i]
BY DEF TypeOK, MarksGrow, Mark

(* A thread's own step: only it needs to be looked at.                     *)
LEMMA OwnThread ==
  ASSUME Up, NEW t \in Threads, \A u \in Threads \ {t} : thread'[u] = thread[u],
         thread'[t] # Down,
         Busy(t)' => RequestIsSound(t)' /\ FindsSession(t)' /\ Silenced(t)'
  PROVE  Up' /\ ThreadsHold
BY DEF Up, ThreadsHold

LEMMA SameRows ==
  ASSUME UNCHANGED rows
  PROVE  RowsStay /\ RowsOwn
BY DEF RowsStay, RowsOwn

LEMMA SameMemory ==
  /\ UNCHANGED obj => SameObjects
  /\ UNCHANGED client => SameOwners /\ Calm
  /\ UNCHANGED events => EventsOwn
BY DEF SameObjects, SameOwners, Calm, EventsOwn, Made

------------------------------------------------------------------------------
(* The steps of requests, but for those that change a session's place.     *)

LEMMA BeginsStep ==
  ASSUME IInv, NEW t \in Threads, NEW i \in Ids,
         NEW op \in {"create", "delete", "logout", "pair"},
         Begins(t, op, i), op # "create" => sessions[i] # NoObj
  PROVE  IInv'
<1> DEFINE r == [op |-> op, id |-> i, obj |-> sessions[i], at |-> "begun"]
<1>1. TypeOK /\ Memory /\ RequestsInv
  BY DEF IInv
<1>2. /\ UNCHANGED <<rows, devices, sessions, obj, client, events>>
      /\ thread[t] = Idle /\ thread' = [thread EXCEPT ![t] = r]
  BY DEF Begins
<1>3. r \in Request /\ r.op = op /\ r.id = i /\ r.obj = sessions[i] /\ r.at = "begun"
  BY <1>1 DEF TypeOK, Request
<1> HIDE DEF r
<1>4. /\ thread' \in [Threads -> Request \cup {Idle, Down}] /\ thread'[t] = r
      /\ \A u \in Threads \ {t} : thread'[u] = thread[u]
  BY <1>1, <1>2, <1>3 DEF TypeOK
<1>5. /\ MarksGrow /\ marks' \in [Ids -> SUBSET {"crossed", "unsaved", "unheard", "outdated"}]
      /\ (\E u \in InProgress(i) : Conflict(op, thread[u].op)) => "crossed" \in marks'[i]
  <2>1. CASE \E u \in InProgress(i) : Conflict(op, thread[u].op)
    <3>1. Mark(i, "crossed")
      BY <2>1 DEF Begins
    <3> QED
      BY <1>1, <3>1, Marks
  <2>2. CASE ~ \E u \in InProgress(i) : Conflict(op, thread[u].op)
    <3>1. UNCHANGED marks
      BY <2>2 DEF Begins
    <3> QED
      BY <1>1, <2>2, <3>1, MarksStay
  <2> QED
    BY <2>1, <2>2
<1>6. TypeOK'
  BY <1>1, <1>2, <1>4, <1>5 DEF TypeOK
<1>7. Up
  BY <1>1, <1>2, SessionsAssumption DEF Memory, DownIsEmpty
<1>8. thread'[t] # Down
  BY <1>3, <1>4, SessionsAssumption
<1>9. RequestIsSound(t)' /\ FindsSession(t)' /\ Silenced(t)'
  <2>1. op # "create" => Made(sessions[i]) /\ obj[sessions[i]].id = i
    BY <1>1 DEF Memory, Registered
  <2>2. RequestIsSound(t)'
    BY <1>2, <1>3, <1>4, <2>1 DEF RequestIsSound, HasObject, Stages, Made
  <2>3. FindsSession(t)'
    BY <1>2, <1>3, <1>4 DEF FindsSession, Holds
  <2>4. Silenced(t)'
    BY <1>3, <1>4 DEF Silenced
  <2> QED
    BY <2>2, <2>3, <2>4
<1>10. Up' /\ ThreadsHold
  BY <1>4, <1>7, <1>8, <1>9, OwnThread
<1>11. ASSUME NEW u \in Threads, u # t, Busy(u), thread[u].id = i, "crossed" \notin marks'[i]
       PROVE  op = "create" /\ thread[u].op = "create"
  BY <1>5, <1>11 DEF InProgress, Conflict
<1>12. ASSUME NEW u \in Threads, NEW v \in Threads PROVE Undisturbed(u, v)'
  <2> SUFFICES ASSUME Busy(u)', Busy(v)', u # v, thread'[u].id = thread'[v].id,
                      "crossed" \notin marks'[thread'[u].id]
               PROVE  /\ thread'[u].op = "create" /\ thread'[v].op = "create"
                      /\ thread'[u].at = "begun" \/ thread'[v].at = "begun"
    BY DEF Undisturbed, Uncrossed
  <2>1. CASE u # t /\ v # t
    <3>1. Busy(u) /\ Busy(v) /\ thread'[u] = thread[u] /\ thread'[v] = thread[v]
      BY <1>4, <2>1 DEF Busy
    <3>2. Uncrossed(thread[u].id)
      BY <1>5, <3>1, Finds DEF MarksGrow, Uncrossed
    <3> QED
      BY <1>1, <3>1, <3>2 DEF RequestsInv, Undisturbed
  <2>2. CASE u = t
    <3>1. Busy(v) /\ thread'[v] = thread[v]
      BY <1>4, <2>2 DEF Busy
    <3> QED
      BY <1>3, <1>4, <1>11, <2>2, <3>1
  <2>3. CASE v = t
    <3>1. Busy(u) /\ thread'[u] = thread[u]
      BY <1>4, <2>3 DEF Busy
    <3> QED
      BY <1>3, <1>4, <1>11, <2>3, <3>1
  <2> QED
    BY <2>1, <2>2, <2>3
<1>13. \A j \in Ids : IdentityIsSaved(j)'
  BY <1>2, <1>5, SameMemory, SavedStays
<1> QED
  BY <1>2, <1>5, <1>6, <1>10, <1>12, <1>13, SameRows, SameMemory, SteadyStep

LEMMA InsertStep ==
  ASSUME IInv, NEW t \in Threads, Insert(t)
  PROVE  IInv'
<1> DEFINE i == thread[t].id
<1>1. TypeOK /\ Memory /\ RequestsInv /\ RegisteredIsStored /\ \A j \in Ids : IdentityIsSaved(j)
  BY DEF IInv
<1>2. /\ Busy(t) /\ thread[t].op = "create" /\ thread[t].at = "begun"
      /\ UNCHANGED <<devices, sessions, obj, client, events, marks>>
  BY DEF Insert, Doing
<1>3. Up /\ i \in Ids
  BY <1>2, Finds
<1>4. MarksGrow
  BY <1>1, <1>2, MarksStay
<1>5. SameObjects /\ SameOwners /\ Calm /\ EventsOwn
  BY <1>2, SameMemory
<1>6. CASE rows[i] = NoRow /\ rows' = [rows EXCEPT ![i] = NoClient] /\ Go(t, "inserted")
  <2>1. /\ thread' \in [Threads -> Request \cup {Idle, Down}]
        /\ \A u \in Threads \ {t} : thread'[u] = thread[u]
        /\ Busy(t)' /\ thread'[t] \in Request
        /\ thread'[t].op = "create" /\ thread'[t].id = i /\ thread'[t].at = "inserted"
    BY <1>1, <1>2, <1>6, Goes DEF Stage
  <2>2. rows' \in [Ids -> Clients \cup {NoClient, NoRow}] /\ rows'[i] = NoClient
        /\ \A j \in Ids \ {i} : rows'[j] = rows[j]
    BY <1>1, <1>3, <1>6 DEF TypeOK
  <2>3. TypeOK'
    BY <1>1, <1>2, <2>1, <2>2 DEF TypeOK
  <2>4. Uncrossed(i) => sessions[i] = NoObj
    BY <1>3, <1>1, <1>6 DEF RegisteredIsStored, Uncrossed
  <2>5. RequestIsSound(t)' /\ FindsSession(t)' /\ Silenced(t)'
    <3>1. RequestIsSound(t)'
      BY <2>1 DEF RequestIsSound, HasObject, Stages
    <3>2. FindsSession(t)'
      BY <1>2, <2>1, <2>2, <2>4, SessionsAssumption DEF FindsSession, Holds, HasObject, Uncrossed
    <3>3. Silenced(t)'
      BY <2>1 DEF Silenced
    <3> QED
      BY <3>1, <3>2, <3>3
  <2>6. thread'[t] # Down
    BY <2>1 DEF Busy
  <2>7. Up' /\ ThreadsHold
    BY <1>3, <2>1, <2>5, <2>6, OwnThread
  <2>8. ASSUME NEW u \in Threads, u # t, Busy(u), thread[u].id = i, Uncrossed(i)
        PROVE  thread[u].op = "create" /\ thread[u].at = "begun"
    <3>1. thread[u].op = "create"
      BY <1>1, <1>2, <2>8 DEF RequestsInv, Undisturbed
    <3>2. thread[u].at \in {"begun", "inserted", "registered"} /\ FindsSession(u)
      BY <2>8, <3>1, Finds DEF RequestIsSound, Stages
    <3>3. thread[u].at # "inserted"
      BY <1>6, <2>8, <3>2 DEF FindsSession
    <3>4. thread[u].at # "registered"
      <4> SUFFICES ASSUME thread[u].at = "registered" PROVE FALSE
        OBVIOUS
      <4>1. sessions[i] = thread[u].obj
        BY <2>8, <3>2 DEF FindsSession, Holds, HasObject
      <4>2. thread[u].obj # NoObj
        BY <2>8, Finds DEF HasObject
      <4> QED
        BY <2>4, <2>8, <4>1, <4>2
    <3> QED
      BY <3>1, <3>2, <3>3, <3>4
  <2>9. ASSUME NEW u \in Threads, NEW v \in Threads PROVE Undisturbed(u, v)'
    <3> SUFFICES ASSUME Busy(u)', Busy(v)', u # v, thread'[u].id = thread'[v].id,
                        "crossed" \notin marks'[thread'[u].id]
                 PROVE  /\ thread'[u].op = "create" /\ thread'[v].op = "create"
                        /\ thread'[u].at = "begun" \/ thread'[v].at = "begun"
      BY DEF Undisturbed, Uncrossed
    <3>1. CASE u # t /\ v # t
      <4>1. Busy(u) /\ Busy(v) /\ thread'[u] = thread[u] /\ thread'[v] = thread[v]
        BY <2>1, <3>1 DEF Busy
      <4>2. Uncrossed(thread[u].id)
        BY <1>2, <4>1 DEF Uncrossed
      <4> QED
        BY <1>1, <4>1, <4>2 DEF RequestsInv, Undisturbed
    <3>2. CASE u = t
      <4>1. Busy(v) /\ thread'[v] = thread[v] /\ Uncrossed(i) /\ thread[v].id = i
        BY <1>2, <2>1, <3>2 DEF Busy, Uncrossed
      <4> QED
        BY <2>1, <2>8, <3>2, <4>1
    <3>3. CASE v = t
      <4>1. Busy(u) /\ thread'[u] = thread[u] /\ Uncrossed(i) /\ thread[u].id = i
        BY <1>2, <2>1, <3>3 DEF Busy, Uncrossed
      <4> QED
        BY <2>1, <2>8, <3>3, <4>1
    <3> QED
      BY <3>1, <3>2, <3>3
  <2>10. ASSUME NEW j \in Ids PROVE IdentityIsSaved(j)'
    <3>1. CASE j = i
      BY <1>2, <2>4, <3>1 DEF IdentityIsSaved, Pristine, Uncrossed
    <3>2. CASE j # i
      BY <1>2, <1>4, <1>5, <2>2, <3>2, SavedStays
    <3> QED
      BY <3>1, <3>2
  <2>11. RowsStay /\ RowsOwn
    BY <1>6, <2>2, SessionsAssumption DEF RowsStay, RowsOwn
  <2> QED
    BY <1>2, <1>4, <1>5, <2>3, <2>7, <2>9, <2>10, <2>11, SteadyStep
<1>7. CASE Done(t) /\ UNCHANGED rows
  <2>1. /\ thread' \in [Threads -> Request \cup {Idle, Down}]
        /\ \A u \in Threads \ {t} : thread'[u] = thread[u]
        /\ ~Busy(t)' /\ thread'[t] = Idle
    BY <1>1, <1>7, Ends
  <2>2. TypeOK'
    BY <1>1, <1>2, <1>7, <2>1 DEF TypeOK
  <2>3. Up' /\ ThreadsHold
    BY <1>3, <2>1, OwnThread, SessionsAssumption
  <2>4. \A u, v \in Threads : Undisturbed(u, v)'
    BY <1>2, <1>4, <2>1, UndisturbedStays
  <2>5. \A j \in Ids : IdentityIsSaved(j)'
    BY <1>2, <1>4, <1>5, <1>7, SavedStays
  <2> QED
    BY <1>2, <1>4, <1>5, <1>7, <2>2, <2>3, <2>4, <2>5, SameRows, SteadyStep
<1> QED
  BY <1>6, <1>7 DEF Insert

(* Logout and Pair disconnect the client that they are going to replace.   *)
LEMMA DisconnectsStep ==
  ASSUME IInv, NEW t \in Threads, Busy(t), Disconnects(t),
         \/ thread[t].op = "logout" /\ thread[t].at = "left"
         \/ thread[t].op = "pair" /\ thread[t].at = "begun"
  PROVE  IInv'
<1> DEFINE o == thread[t].obj
           c == Current(o)
<1>1. TypeOK /\ Memory /\ RequestsInv
  BY DEF IInv
<1>2. /\ Up /\ thread[t].id \in Ids /\ FindsSession(t)
      /\ o \in Objs /\ Made(o) /\ obj[o].id = thread[t].id
      /\ c = obj[o].client /\ c \in Clients /\ client[c].owner = o /\ o # NoObj
  BY Finds DEF HasObject
<1>3. /\ UNCHANGED <<rows, devices, sessions, obj, events, marks>>
      /\ Go(t, "disconnected") /\ client' = [client EXCEPT ![c].wire = "off"]
  BY DEF Disconnects
<1>4. /\ thread' \in [Threads -> Request \cup {Idle, Down}]
      /\ \A u \in Threads \ {t} : thread'[u] = thread[u]
      /\ Busy(t)' /\ thread'[t] \in Request
      /\ thread'[t].op = thread[t].op /\ thread'[t].id = thread[t].id
      /\ thread'[t].obj = o /\ thread'[t].at = "disconnected"
  BY <1>1, <1>3, Goes DEF Stage
<1>5. /\ client' \in [Clients -> Client] /\ SameOwners
      /\ client'[c].wire = "off" /\ client'[c].paired = client[c].paired
      /\ \A d \in Clients \ {c} : client'[d] = client[d]
  <2> HIDE DEF c
  <2> QED
    BY <1>1, <1>2, <1>3, Wires
<1>6. Calm /\ \A d \in Clients : client'[d].paired => client[d].paired
  BY <1>5 DEF Calm
<1>7. TypeOK'
  BY <1>1, <1>3, <1>4, <1>5 DEF TypeOK
<1>8. RequestIsSound(t)' /\ FindsSession(t)' /\ Silenced(t)'
  <2>1. RequestIsSound(t)'
    BY <1>2, <1>3, <1>4 DEF RequestIsSound, HasObject, Stages, Made
  <2>2. FindsSession(t)'
    BY <1>2, <1>3, <1>4 DEF FindsSession, Holds, HasObject, Uncrossed
  <2>3. Current(thread[t].obj)' = c
    BY <1>2, <1>3, <1>4 DEF Current
  <2>4. Silenced(t)'
    BY <1>2, <1>4, <1>5, <2>3 DEF Silenced
  <2> QED
    BY <2>1, <2>2, <2>4
<1>9. thread'[t] # Down
  BY <1>4 DEF Busy
<1>10. Up' /\ ThreadsHold
  BY <1>2, <1>4, <1>8, <1>9, OwnThread
<1>11. MarksGrow /\ SameObjects /\ EventsOwn /\ RowsStay /\ RowsOwn
  BY <1>1, <1>3, MarksStay, SameMemory, SameRows
<1>12. \A u, v \in Threads : Undisturbed(u, v)'
  BY <1>4, <1>11, UndisturbedStays
<1>13. \A j \in Ids : IdentityIsSaved(j)'
  BY <1>3, <1>5, <1>6, <1>11, SavedStays
<1> QED
  BY <1>3, <1>5, <1>6, <1>7, <1>10, <1>11, <1>12, <1>13, SteadyStep

LEMMA LeavesClient ==
  ASSUME IInv, NEW t \in Threads, Busy(t), HasObject(t), Leaves(t),
         thread[t].op \in {"delete", "logout"}
  PROVE  /\ devices' \subseteq Clients
         /\ client' \in [Clients -> Client] /\ SameOwners /\ Calm
         /\ \A d \in Clients : client'[d].paired => client[d].paired
         /\ MarksGrow /\ marks' \in [Ids -> SUBSET {"crossed", "unsaved", "unheard", "outdated"}]
         /\ thread[t].op = "delete" /\ marks'[thread[t].id] = {} => client'[Current(thread[t].obj)].wire = "off"
<1> DEFINE c == Current(thread[t].obj)
<1>1. TypeOK
  BY DEF IInv
<1>2. c \in Clients /\ client[c].owner # NoObj /\ thread[t].id \in Ids
  BY Finds
<1>3. devices' \subseteq Clients
  BY <1>1 DEF Leaves, TypeOK
<1>4. CASE client' = [client EXCEPT ![c].paired = FALSE, ![c].wire = "off"] /\ UNCHANGED marks
  <2> HIDE DEF c
  <2>1. /\ client' \in [Clients -> Client] /\ SameOwners
        /\ client'[c].wire = "off" /\ client'[c].paired = FALSE
        /\ \A d \in Clients \ {c} : client'[d] = client[d]
    BY <1>1, <1>2, <1>4, PairsAndWires
  <2>2. Calm /\ \A d \in Clients : client'[d].paired => client[d].paired
    BY <2>1 DEF Calm
  <2>3. MarksGrow /\ marks' \in [Ids -> SUBSET {"crossed", "unsaved", "unheard", "outdated"}]
    BY <1>1, <1>4, MarksStay
  <2> QED
    BY <1>3, <2>1, <2>2, <2>3 DEF c
<1>5. CASE UNCHANGED client /\ thread[t].op = "delete" /\ Mark(thread[t].id, "unheard")
  <2>1. /\ MarksGrow /\ marks' \in [Ids -> SUBSET {"crossed", "unsaved", "unheard", "outdated"}]
        /\ "unheard" \in marks'[thread[t].id]
    BY <1>1, <1>2, <1>5, Marks
  <2> QED
    BY <1>1, <1>3, <1>5, <2>1, SameMemory DEF TypeOK
<1>6. CASE UNCHANGED client /\ thread[t].op = "logout" /\ UNCHANGED marks
  <2>1. MarksGrow /\ marks' \in [Ids -> SUBSET {"crossed", "unsaved", "unheard", "outdated"}]
    BY <1>1, <1>6, MarksStay
  <2> QED
    BY <1>1, <1>3, <1>6, <2>1, SameMemory DEF TypeOK
<1> QED
  BY <1>4, <1>5, <1>6 DEF Leaves

LEMMA LeaveAndDeleteStep ==
  ASSUME IInv, NEW t \in Threads, LeaveAndDelete(t)
  PROVE  IInv'
<1> DEFINE o == thread[t].obj
<1>1. TypeOK /\ Memory /\ RequestsInv
  BY DEF IInv
<1>2. /\ Busy(t) /\ thread[t].op = "delete" /\ thread[t].at = "begun"
      /\ Leaves(t) /\ Go(t, "released")
      /\ UNCHANGED <<rows, sessions, obj, events>>
  BY DEF LeaveAndDelete, Doing
<1>3. /\ Up /\ thread[t].id \in Ids /\ FindsSession(t)
      /\ o \in Objs /\ Made(o) /\ obj[o].id = thread[t].id
  BY <1>2, Finds DEF HasObject
<1>4. /\ thread' \in [Threads -> Request \cup {Idle, Down}]
      /\ \A u \in Threads \ {t} : thread'[u] = thread[u]
      /\ Busy(t)' /\ thread'[t] \in Request
      /\ thread'[t].op = thread[t].op /\ thread'[t].id = thread[t].id
      /\ thread'[t].obj = o /\ thread'[t].at = "released"
  BY <1>1, <1>2, Goes DEF Stage
<1>5. /\ devices' \subseteq Clients
      /\ client' \in [Clients -> Client] /\ SameOwners /\ Calm
      /\ \A d \in Clients : client'[d].paired => client[d].paired
      /\ MarksGrow /\ marks' \in [Ids -> SUBSET {"crossed", "unsaved", "unheard", "outdated"}]
      /\ marks'[thread[t].id] = {} => client'[Current(o)].wire = "off"
  BY <1>2, LeavesClient DEF HasObject
<1>6. TypeOK'
  BY <1>1, <1>2, <1>4, <1>5 DEF TypeOK
<1>7. RequestIsSound(t)' /\ FindsSession(t)' /\ Silenced(t)'
  <2>1. RequestIsSound(t)'
    BY <1>2, <1>3, <1>4 DEF RequestIsSound, HasObject, Stages, Made
  <2>2. Uncrossed(thread[t].id)' => Uncrossed(thread[t].id)
    BY <1>3, <1>4, <1>5 DEF Uncrossed, MarksGrow
  <2>3. FindsSession(t)'
    BY <1>2, <1>3, <1>4, <2>2 DEF FindsSession, Holds, HasObject
  <2>4. Current(thread[t].obj)' = Current(o)
    BY <1>2, <1>4 DEF Current
  <2>5. Silenced(t)'
    BY <1>2, <1>4, <1>5, <2>4 DEF Silenced, Pristine
  <2> QED
    BY <2>1, <2>3, <2>5
<1>8. thread'[t] # Down
  BY <1>4 DEF Busy
<1>9. Up' /\ ThreadsHold
  BY <1>3, <1>4, <1>7, <1>8, OwnThread
<1>10. SameObjects /\ EventsOwn /\ RowsStay /\ RowsOwn
  BY <1>2, SameMemory, SameRows
<1>11. \A u, v \in Threads : Undisturbed(u, v)'
  BY <1>2, <1>4, <1>5, UndisturbedStays
<1>12. \A j \in Ids : IdentityIsSaved(j)'
  BY <1>2, <1>5, <1>10, SavedStays
<1> QED
  BY <1>2, <1>5, <1>6, <1>9, <1>10, <1>11, <1>12, SteadyStep

LEMMA LeaveAndStayStep ==
  ASSUME IInv, NEW t \in Threads, LeaveAndStay(t)
  PROVE  IInv'
<1> DEFINE o == thread[t].obj
<1>1. TypeOK /\ Memory /\ RequestsInv
  BY DEF IInv
<1>2. /\ Busy(t) /\ thread[t].op = "logout" /\ thread[t].at = "begun"
      /\ Leaves(t) \/ UNCHANGED <<devices, client, marks>>
      /\ Go(t, "left")
      /\ UNCHANGED <<rows, sessions, obj, events>>
  BY DEF LeaveAndStay, Doing
<1>3. /\ Up /\ thread[t].id \in Ids /\ FindsSession(t)
      /\ o \in Objs /\ Made(o) /\ obj[o].id = thread[t].id
  BY <1>2, Finds DEF HasObject
<1>4. /\ thread' \in [Threads -> Request \cup {Idle, Down}]
      /\ \A u \in Threads \ {t} : thread'[u] = thread[u]
      /\ Busy(t)' /\ thread'[t] \in Request
      /\ thread'[t].op = thread[t].op /\ thread'[t].id = thread[t].id
      /\ thread'[t].obj = o /\ thread'[t].at = "left"
  BY <1>1, <1>2, Goes DEF Stage
<1>5. /\ devices' \subseteq Clients
      /\ client' \in [Clients -> Client] /\ SameOwners /\ Calm
      /\ \A d \in Clients : client'[d].paired => client[d].paired
      /\ MarksGrow /\ marks' \in [Ids -> SUBSET {"crossed", "unsaved", "unheard", "outdated"}]
  <2>1. CASE Leaves(t)
    BY <1>2, <2>1, LeavesClient DEF HasObject
  <2>2. CASE UNCHANGED <<devices, client, marks>>
    <3>1. MarksGrow /\ marks' \in [Ids -> SUBSET {"crossed", "unsaved", "unheard", "outdated"}]
      BY <1>1, <2>2, MarksStay
    <3> QED
      BY <1>1, <2>2, <3>1, SameMemory DEF TypeOK
  <2> QED
    BY <1>2, <2>1, <2>2
<1>6. TypeOK'
  BY <1>1, <1>2, <1>4, <1>5 DEF TypeOK
<1>7. RequestIsSound(t)' /\ FindsSession(t)' /\ Silenced(t)'
  <2>1. RequestIsSound(t)'
    BY <1>2, <1>3, <1>4 DEF RequestIsSound, HasObject, Stages, Made
  <2>2. Uncrossed(thread[t].id)' => Uncrossed(thread[t].id)
    BY <1>3, <1>4, <1>5 DEF Uncrossed, MarksGrow
  <2>3. FindsSession(t)'
    BY <1>2, <1>3, <1>4, <2>2 DEF FindsSession, Holds, HasObject
  <2>4. Silenced(t)'
    BY <1>4 DEF Silenced
  <2> QED
    BY <2>1, <2>3, <2>4
<1>8. thread'[t] # Down
  BY <1>4 DEF Busy
<1>9. Up' /\ ThreadsHold
  BY <1>3, <1>4, <1>7, <1>8, OwnThread
<1>10. SameObjects /\ EventsOwn /\ RowsStay /\ RowsOwn
  BY <1>2, SameMemory, SameRows
<1>11. \A u, v \in Threads : Undisturbed(u, v)'
  BY <1>2, <1>4, <1>5, UndisturbedStays
<1>12. \A j \in Ids : IdentityIsSaved(j)'
  BY <1>2, <1>5, <1>10, SavedStays
<1> QED
  BY <1>2, <1>5, <1>6, <1>9, <1>10, <1>11, <1>12, SteadyStep

LEMMA DeleteRowStep ==
  ASSUME IInv, NEW t \in Threads, DeleteRow(t)
  PROVE  IInv'
<1> DEFINE i == thread[t].id
<1>1. TypeOK /\ Memory /\ RequestsInv
  BY DEF IInv
<1>2. /\ Busy(t) /\ thread[t].op = "delete" /\ thread[t].at = "unregistered" /\ Done(t)
      /\ UNCHANGED <<devices, sessions, obj, client, events, marks>>
      /\ rows' = [rows EXCEPT ![i] = NoRow] \/ UNCHANGED rows
  BY DEF DeleteRow, Doing
<1>3. Up /\ i \in Ids /\ FindsSession(t)
  BY <1>2, Finds
<1>4. /\ thread' \in [Threads -> Request \cup {Idle, Down}]
      /\ \A u \in Threads \ {t} : thread'[u] = thread[u]
      /\ ~Busy(t)' /\ thread'[t] = Idle
  BY <1>1, <1>2, Ends
<1>5. /\ rows' \in [Ids -> Clients \cup {NoClient, NoRow}]
      /\ rows'[i] \in {rows[i], NoRow}
      /\ \A j \in Ids \ {i} : rows'[j] = rows[j]
  BY <1>1, <1>2, <1>3 DEF TypeOK
<1>6. TypeOK'
  BY <1>1, <1>2, <1>4, <1>5 DEF TypeOK
<1>7. Up' /\ ThreadsHold
  BY <1>3, <1>4, OwnThread, SessionsAssumption
<1>8. MarksGrow /\ SameObjects /\ SameOwners /\ Calm /\ EventsOwn
  BY <1>1, <1>2, MarksStay, SameMemory
<1>9. Uncrossed(i) => sessions[i] = NoObj
  BY <1>2, <1>3 DEF FindsSession
<1>10. RowsStay
  <2>1. ASSUME Uncrossed(i), NEW u \in Threads, Busy(u), thread[u].id = i
        PROVE  thread[u].at # "inserted"
    BY <1>1, <1>2, <2>1 DEF RequestsInv, Undisturbed
  <2> QED
    BY <1>3, <1>5, <1>9, <2>1 DEF RowsStay
<1>11. RowsOwn
  BY <1>3, <1>5, SessionsAssumption DEF RowsOwn
<1>12. \A u, v \in Threads : Undisturbed(u, v)'
  BY <1>2, <1>4, <1>8, UndisturbedStays
<1>13. ASSUME NEW j \in Ids PROVE IdentityIsSaved(j)'
  <2>1. CASE j = i
    BY <1>2, <1>9, <2>1 DEF IdentityIsSaved, Pristine, Uncrossed
  <2>2. CASE j # i
    BY <1>2, <1>5, <1>8, <2>2, SavedStays
  <2> QED
    BY <2>1, <2>2
<1> QED
  BY <1>2, <1>6, <1>7, <1>8, <1>10, <1>11, <1>12, <1>13, SteadyStep

LEMMA ClearJidStep ==
  ASSUME IInv, NEW t \in Threads, ClearJid(t)
  PROVE  IInv'
<1> DEFINE i == thread[t].id
           o == thread[t].obj
<1>1. TypeOK /\ Memory /\ RequestsInv
  BY DEF IInv
<1>2. /\ Busy(t) /\ thread[t].op = "logout" /\ thread[t].at = "replaced" /\ Go(t, "cleared")
      /\ UNCHANGED <<devices, sessions, obj, client, events, marks>>
      /\ rows' = [rows EXCEPT ![i] = IF @ = NoRow THEN NoRow ELSE NoClient] \/ UNCHANGED rows
  BY DEF ClearJid, Doing, SetJid
<1>3. /\ Up /\ i \in Ids /\ FindsSession(t) /\ Silenced(t)
      /\ o \in Objs /\ Made(o) /\ obj[o].id = i /\ Current(o) \in Clients
  BY <1>2, Finds DEF HasObject
<1>4. /\ thread' \in [Threads -> Request \cup {Idle, Down}]
      /\ \A u \in Threads \ {t} : thread'[u] = thread[u]
      /\ Busy(t)' /\ thread'[t] \in Request
      /\ thread'[t].op = "logout" /\ thread'[t].id = i
      /\ thread'[t].obj = o /\ thread'[t].at = "cleared"
  BY <1>1, <1>2, Goes DEF Stage
<1>5. /\ rows' \in [Ids -> Clients \cup {NoClient, NoRow}]
      /\ rows'[i] \in {rows[i], NoClient}
      /\ rows'[i] = NoRow => rows[i] = NoRow
      /\ \A j \in Ids \ {i} : rows'[j] = rows[j]
  BY <1>1, <1>2, <1>3, SessionsAssumption DEF TypeOK
<1>6. TypeOK'
  BY <1>1, <1>2, <1>4, <1>5 DEF TypeOK
<1>7. RequestIsSound(t)' /\ FindsSession(t)' /\ Silenced(t)'
  <2>1. RequestIsSound(t)'
    BY <1>2, <1>3, <1>4 DEF RequestIsSound, HasObject, Stages, Made
  <2>2. FindsSession(t)'
    BY <1>2, <1>3, <1>4 DEF FindsSession, Holds, HasObject, Uncrossed
  <2>3. Current(thread[t].obj)' = Current(o)
    BY <1>2, <1>4 DEF Current
  <2>4. Silenced(t)'
    BY <1>2, <1>3, <1>4, <2>3 DEF Silenced, Pristine
  <2> QED
    BY <2>1, <2>2, <2>4
<1>8. thread'[t] # Down
  BY <1>4 DEF Busy
<1>9. Up' /\ ThreadsHold
  BY <1>3, <1>4, <1>7, <1>8, OwnThread
<1>10. MarksGrow /\ SameObjects /\ SameOwners /\ Calm /\ EventsOwn
  BY <1>1, <1>2, MarksStay, SameMemory
<1>11. RowsStay /\ RowsOwn
  BY <1>3, <1>5, SessionsAssumption DEF RowsStay, RowsOwn
<1>12. \A u, v \in Threads : Undisturbed(u, v)'
  BY <1>2, <1>4, <1>10, UndisturbedStays
<1>13. ASSUME NEW j \in Ids PROVE IdentityIsSaved(j)'
  <2>1. CASE j = i
    <3>1. Pristine(i) => sessions[i] = o /\ ~client[Current(o)].paired
      BY <1>2, <1>3 DEF FindsSession, Holds, HasObject, Silenced, Pristine, Uncrossed
    <3>2. Current(sessions[j])' = Current(sessions[j])
      BY <1>2 DEF Current
    <3> QED
      BY <1>2, <2>1, <3>1, <3>2 DEF IdentityIsSaved, Pristine, Current
  <2>2. CASE j # i
    BY <1>2, <1>5, <1>10, <2>2, SavedStays
  <2> QED
    BY <2>1, <2>2
<1> QED
  BY <1>2, <1>6, <1>9, <1>10, <1>11, <1>12, <1>13, SteadyStep

LEMMA LoggedOutStep ==
  ASSUME IInv, NEW t \in Threads, LoggedOutByRequest(t)
  PROVE  IInv'
<1> DEFINE o == thread[t].obj
           s == [obj[o] EXCEPT !.auth = "logged_out"]
<1>1. TypeOK /\ Memory /\ RequestsInv
  BY DEF IInv
<1>2. /\ Busy(t) /\ thread[t].op = "logout" /\ thread[t].at = "cleared" /\ Done(t)
      /\ UNCHANGED <<rows, devices, sessions, client, events, marks>>
      /\ obj' = [obj EXCEPT ![o].auth = "logged_out"]
  BY DEF LoggedOutByRequest, Doing
<1>3. Up /\ o \in Objs /\ Made(o)
  BY <1>2, Finds DEF HasObject
<1>4. /\ thread' \in [Threads -> Request \cup {Idle, Down}]
      /\ \A u \in Threads \ {t} : thread'[u] = thread[u]
      /\ ~Busy(t)' /\ thread'[t] = Idle
  BY <1>1, <1>2, Ends
<1>5. s \in Session /\ s.id = obj[o].id /\ s.client = obj[o].client
  BY <1>3 DEF Made, Session
<1>6. obj' = [obj EXCEPT ![o] = s]
  BY <1>2
<1> HIDE DEF s
<1>7. obj' \in [Objs -> Session \cup {NoObj}] /\ SameObjects
  BY <1>1, <1>3, <1>5, <1>6 DEF TypeOK, SameObjects, Made
<1>8. TypeOK'
  BY <1>1, <1>2, <1>4, <1>7 DEF TypeOK
<1>9. Up' /\ ThreadsHold
  BY <1>3, <1>4, OwnThread, SessionsAssumption
<1>10. MarksGrow /\ SameOwners /\ Calm /\ EventsOwn /\ RowsStay /\ RowsOwn
  BY <1>1, <1>2, MarksStay, SameMemory, SameRows
<1>11. \A u, v \in Threads : Undisturbed(u, v)'
  BY <1>2, <1>4, <1>10, UndisturbedStays
<1>12. \A j \in Ids : IdentityIsSaved(j)'
  BY <1>2, <1>7, <1>10, SavedStays
<1> QED
  BY <1>2, <1>7, <1>8, <1>9, <1>10, <1>11, <1>12, SteadyStep

------------------------------------------------------------------------------
(* The network, and the events it leaves behind.                           *)

LEMMA ThreadsRest ==
  ASSUME IInv, Up, UNCHANGED thread, MarksGrow
  PROVE  /\ Up' /\ ThreadsHold
         /\ \A u, v \in Threads : Undisturbed(u, v)'
<1>1. Up' /\ ThreadsHold
  BY DEF Up, ThreadsHold
<1>2. ASSUME NEW u \in Threads, NEW v \in Threads PROVE Undisturbed(u, v)'
  <2> SUFFICES ASSUME Busy(u), Busy(v), u # v, thread[u].id = thread[v].id,
                      "crossed" \notin marks'[thread[u].id]
               PROVE  /\ thread[u].op = "create" /\ thread[v].op = "create"
                      /\ thread[u].at = "begun" \/ thread[v].at = "begun"
    BY DEF Undisturbed, Uncrossed, Busy
  <2>1. Uncrossed(thread[u].id)
    BY Finds DEF MarksGrow, Uncrossed
  <2> QED
    BY <2>1 DEF IInv, RequestsInv, Undisturbed
<1> QED
  BY <1>1, <1>2

LEMMA WiredClient ==
  ASSUME IInv, NEW c \in Clients, client[c].wire # "off"
  PROVE  /\ Up
         /\ client[c].owner \in Objs /\ client[c].owner # NoObj /\ Made(client[c].owner)
<1>1. client[c] # Fresh
  BY DEF Fresh
<1>2. Up /\ client[c].owner # NoObj /\ Made(client[c].owner)
  BY <1>1 DEF IInv, Memory, DownIsEmpty, ClientBelongs
<1> QED
  BY <1>2 DEF Made

LEMMA EventOwner ==
  ASSUME IInv, NEW e \in events
  PROVE  /\ Up /\ e \in Event /\ e.of \in Clients
         /\ Owner(e) \in Objs /\ Owner(e) # NoObj /\ Made(Owner(e))
         /\ obj[Owner(e)].id \in Ids
         /\ Current(Owner(e)) = obj[Owner(e)].client
         /\ Current(Owner(e)) \in Clients
         /\ client[Current(Owner(e))].owner = Owner(e)
<1>1. TypeOK /\ Memory
  BY DEF IInv
<1>2. Up
  BY <1>1 DEF Memory, DownIsEmpty
<1>3. e \in Event /\ e.of \in Clients
  BY <1>1 DEF TypeOK, Event
<1>4. client[e.of].owner # NoObj
  BY <1>1 DEF Memory, EventBelongs
<1>5. Made(Owner(e))
  BY <1>1, <1>3, <1>4 DEF Memory, ClientBelongs, Owner
<1>6. /\ Owner(e) \in Objs /\ obj[Owner(e)].id \in Ids /\ obj[Owner(e)].client \in Clients
      /\ Owner(e) # NoObj
  BY <1>4, <1>5 DEF Made, Session, Owner
<1>7. client[obj[Owner(e)].client].owner = Owner(e)
  BY <1>1, <1>5, <1>6 DEF Memory, ObjectHasClient
<1> QED
  BY <1>2, <1>3, <1>5, <1>6, <1>7 DEF Current

LEMMA Arrival ==
  ASSUME IInv, NEW c \in Clients, client[c].owner # NoObj, NEW kind \in {"in", "out"}, Arrives(c, kind)
  PROVE  /\ events' \subseteq Event /\ EventsOwn /\ events \subseteq events'
         /\ \E e \in events' : e.of = c /\ e.kind = kind /\ e.at = "arrived"
<1> DEFINE n == [of |-> c, kind |-> kind, at |-> "arrived", jid |-> NoClient]
<1>1. n \in Event /\ n.of = c /\ n.kind = kind /\ n.at = "arrived"
  BY DEF Event
<1>2. events' = events \cup {n}
  BY DEF Arrives
<1> HIDE DEF n
<1> QED
  BY <1>1, <1>2 DEF IInv, TypeOK, EventsOwn, EventBelongs

(* Steps that lower a client or leave it, with or without an event.        *)
LEMMA LoweredStep ==
  ASSUME IInv, NEW c \in Clients, client[c].wire # "off",
         client' \in [Clients -> Client], SameOwners, Calm,
         \A d \in Clients : client'[d].paired => client[d].paired,
         NEW kind \in {"in", "out"}, Arrives(c, kind) \/ UNCHANGED events,
         devices' \subseteq Clients,
         obj' \in [Objs -> Session \cup {NoObj}], SameObjects,
         UNCHANGED <<rows, sessions, thread, marks>>
  PROVE  IInv'
<1>1. TypeOK
  BY DEF IInv
<1>2. Up /\ client[c].owner # NoObj
  BY WiredClient
<1>3. events' \subseteq Event /\ EventsOwn /\ events \subseteq events'
  <2>1. CASE Arrives(c, kind)
    BY <1>2, <2>1, Arrival
  <2>2. CASE UNCHANGED events
    BY <1>1, <2>2, SameMemory DEF TypeOK
  <2> QED
    BY <2>1, <2>2
<1>4. TypeOK'
  BY <1>1, <1>3 DEF TypeOK
<1>5. MarksGrow /\ RowsStay /\ RowsOwn
  BY <1>1, MarksStay, SameRows
<1>6. Up' /\ ThreadsHold /\ \A u, v \in Threads : Undisturbed(u, v)'
  BY <1>2, <1>5, ThreadsRest
<1>7. \A j \in Ids : IdentityIsSaved(j)'
  BY <1>3, <1>5, SavedStays
<1> QED
  BY <1>3, <1>4, <1>5, <1>6, <1>7, SteadyStep

LEMMA NetworkStep ==
  ASSUME IInv, NEW c \in Clients, Connected(c) \/ QRCode(c) \/ QRTimeout(c) \/ Removed(c)
  PROVE  IInv'
<1>1. TypeOK
  BY DEF IInv
<1>2. client[c].wire # "off"
  BY DEF Connected, QRCode, QRTimeout, Removed
<1>3. client[c].owner \in Objs /\ client[c].owner # NoObj /\ Made(client[c].owner)
  BY <1>2, WiredClient
<1>4. CASE Connected(c)
  <2>1. UNCHANGED <<rows, devices, sessions, obj, client, thread, marks>> /\ Arrives(c, "in")
    BY <1>4 DEF Connected
  <2> QED
    BY <1>1, <1>2, <2>1, SameMemory, LoweredStep DEF TypeOK
<1>5. CASE QRCode(c)
  <2> DEFINE o == client[c].owner
             s == [obj[o] EXCEPT !.auth = "waiting"]
  <2>1. /\ UNCHANGED <<rows, devices, sessions, client, events, thread, marks>>
        /\ obj' = [obj EXCEPT ![o] = s]
    BY <1>5 DEF QRCode
  <2>2. s \in Session /\ s.id = obj[o].id /\ s.client = obj[o].client
    BY <1>3 DEF Made, Session
  <2> HIDE DEF s
  <2>3. obj' \in [Objs -> Session \cup {NoObj}] /\ SameObjects
    BY <1>1, <1>3, <2>1, <2>2 DEF TypeOK, SameObjects, Made
  <2>4. \A d \in Clients : client'[d].paired => client[d].paired
    BY <2>1
  <2> QED
    BY <1>1, <1>2, <2>1, <2>3, <2>4, SameMemory, LoweredStep DEF TypeOK
<1>6. CASE QRTimeout(c)
  <2>1. /\ UNCHANGED <<rows, devices, sessions, obj, thread, marks>>
        /\ client' = [client EXCEPT ![c].wire = "off"] /\ Arrives(c, "out")
    BY <1>6 DEF QRTimeout
  <2>2. /\ client' \in [Clients -> Client] /\ SameOwners
        /\ client'[c].wire = "off" /\ client'[c].paired = client[c].paired
        /\ \A d \in Clients \ {c} : client'[d] = client[d]
    BY <1>1, <1>3, <2>1, Wires
  <2>3. Calm /\ \A d \in Clients : client'[d].paired => client[d].paired
    BY <2>2 DEF Calm
  <2> QED
    BY <1>1, <1>2, <2>1, <2>2, <2>3, SameMemory, LoweredStep DEF TypeOK
<1>7. CASE Removed(c)
  <2>1. /\ UNCHANGED <<rows, sessions, obj, thread, marks>> /\ devices' \subseteq devices
        /\ client' = [client EXCEPT ![c].paired = FALSE, ![c].wire = "off"] /\ Arrives(c, "out")
    BY <1>7 DEF Removed
  <2>2. /\ client' \in [Clients -> Client] /\ SameOwners
        /\ client'[c].wire = "off" /\ client'[c].paired = FALSE
        /\ \A d \in Clients \ {c} : client'[d] = client[d]
    BY <1>1, <1>3, <2>1, PairsAndWires
  <2>3. Calm /\ \A d \in Clients : client'[d].paired => client[d].paired
    BY <2>2 DEF Calm
  <2>4. devices' \subseteq Clients
    BY <1>1, <2>1 DEF TypeOK
  <2> QED
    BY <1>1, <1>2, <2>1, <2>2, <2>3, <2>4, SameMemory, LoweredStep DEF TypeOK
<1> QED
  BY <1>4, <1>5, <1>6, <1>7

LEMMA ScanStep ==
  ASSUME IInv, NEW c \in Clients, Scan(c)
  PROVE  IInv'
<1>1. TypeOK
  BY DEF IInv
<1>2. /\ UNCHANGED <<rows, sessions, obj, thread, marks>> /\ devices' = devices \cup {c}
      /\ client' = [client EXCEPT ![c].paired = TRUE, ![c].wire = "on"] /\ Arrives(c, "in")
      /\ client[c].wire = "pairing"
  BY DEF Scan
<1>3. Up /\ client[c].owner \in Objs /\ client[c].owner # NoObj
  BY <1>2, WiredClient
<1>4. /\ client' \in [Clients -> Client] /\ SameOwners
      /\ client'[c].wire = "on" /\ client'[c].paired = TRUE
      /\ \A d \in Clients \ {c} : client'[d] = client[d]
  BY <1>1, <1>2, <1>3, PairsAndWires
<1>5. Calm
  BY <1>2, <1>4 DEF Calm
<1>6. /\ events' \subseteq Event /\ EventsOwn /\ events \subseteq events'
      /\ \E e \in events' : e.of = c /\ e.kind = "in" /\ e.at = "arrived"
  BY <1>2, <1>3, Arrival
<1>7. TypeOK'
  BY <1>1, <1>2, <1>4, <1>6 DEF TypeOK
<1>8. MarksGrow /\ RowsStay /\ RowsOwn /\ SameObjects
  BY <1>1, <1>2, MarksStay, SameRows, SameMemory
<1>9. Up' /\ ThreadsHold /\ \A u, v \in Threads : Undisturbed(u, v)'
  BY <1>2, <1>3, <1>8, ThreadsRest
<1>10. ASSUME NEW j \in Ids PROVE IdentityIsSaved(j)'
  <2>1. CASE sessions[j] # NoObj /\ Current(sessions[j]) = c
    <3>1. Made(sessions[j])
      BY <2>1 DEF IInv, Memory, Registered
    <3>2. client[c].owner = sessions[j]
      BY <2>1, <3>1 DEF IInv, Memory, ObjectHasClient, Made, Current
    <3>3. PICK e \in events' : e.of = c /\ e.kind = "in" /\ e.at = "arrived"
      BY <1>6
    <3>4. WillStore(sessions[j], Current(sessions[j]))'
      BY <1>2, <1>4, <3>2, <3>3 DEF WillStore, SameOwners
    <3> QED
      BY <1>2, <3>4 DEF IdentityIsSaved
  <2>2. CASE sessions[j] # NoObj /\ Current(sessions[j]) # c
    <3>1. \A d \in Clients : d = Current(sessions[j]) /\ client'[d].paired => client[d].paired
      BY <1>4, <2>2
    <3> QED
      BY <1>2, <1>4, <1>6, <1>8, <3>1, SavedStays
  <2>3. CASE sessions[j] = NoObj
    BY <1>2, <2>3 DEF IdentityIsSaved
  <2> QED
    BY <2>1, <2>2, <2>3
<1> QED
  BY <1>2, <1>4, <1>5, <1>6, <1>7, <1>8, <1>9, <1>10, SteadyStep

LEMMA ReadIdentityStep ==
  ASSUME IInv, NEW e \in events, ReadIdentity(e)
  PROVE  IInv'
<1> DEFINE c == Current(Owner(e))
           n == IF client[c].paired THEN [e EXCEPT !.at = "read", !.jid = c] ELSE [e EXCEPT !.at = "stored"]
<1>1. TypeOK
  BY DEF IInv
<1>2. /\ Up /\ e \in Event /\ e.of \in Clients /\ Owner(e) # NoObj
      /\ c \in Clients /\ client[c].owner = Owner(e)
  BY EventOwner
<1>3. /\ e.at = "arrived" /\ e.kind = "in" /\ events' = (events \ {e}) \cup {n}
      /\ UNCHANGED <<rows, devices, sessions, obj, client, thread, marks>>
  BY DEF ReadIdentity
<1>4. /\ n \in Event /\ n.of = e.of /\ n.kind = "in"
      /\ client[c].paired => n.at = "read" /\ n.jid = c
      /\ n.at = "read" => n.jid = c
  <2>1. CASE client[c].paired
    <3>1. n = [e EXCEPT !.at = "read", !.jid = c]
      BY <2>1
    <3> HIDE DEF c
    <3>2. /\ [e EXCEPT !.at = "read", !.jid = c] \in Event
          /\ [e EXCEPT !.at = "read", !.jid = c].of = e.of
          /\ [e EXCEPT !.at = "read", !.jid = c].kind = "in"
          /\ [e EXCEPT !.at = "read", !.jid = c].at = "read"
          /\ [e EXCEPT !.at = "read", !.jid = c].jid = c
      BY <1>2, <1>3 DEF Event
    <3> HIDE DEF n
    <3> QED
      BY <3>1, <3>2
  <2>2. CASE ~client[c].paired
    <3>1. n = [e EXCEPT !.at = "stored"]
      BY <2>2
    <3> HIDE DEF c
    <3>2. /\ [e EXCEPT !.at = "stored"] \in Event
          /\ [e EXCEPT !.at = "stored"].of = e.of
          /\ [e EXCEPT !.at = "stored"].kind = "in"
          /\ [e EXCEPT !.at = "stored"].at = "stored"
      BY <1>2, <1>3 DEF Event
    <3> HIDE DEF n
    <3> QED
      BY <2>2, <3>1, <3>2
  <2> QED
    BY <2>1, <2>2
<1> HIDE DEF n
<1>5. TypeOK'
  BY <1>1, <1>3, <1>4 DEF TypeOK
<1>6. EventsOwn
  <2>1. EventBelongs(n)
    BY <1>2, <1>4 DEF EventBelongs, Owner
  <2> QED
    BY <1>3, <2>1 DEF EventsOwn
<1>7. MarksGrow /\ RowsStay /\ RowsOwn /\ SameObjects /\ SameOwners /\ Calm
  BY <1>1, <1>3, MarksStay, SameRows, SameMemory
<1>8. Up' /\ ThreadsHold /\ \A u, v \in Threads : Undisturbed(u, v)'
  BY <1>2, <1>3, <1>7, ThreadsRest
<1>9. ASSUME NEW j \in Ids PROVE IdentityIsSaved(j)'
  <2> SUFFICES ASSUME sessions[j] # NoObj, Pristine(j), client[Current(sessions[j])].paired,
                      WillStore(sessions[j], Current(sessions[j]))
               PROVE  WillStore(sessions[j], Current(sessions[j]))'
    BY <1>3 DEF IInv, IdentityIsSaved, Pristine, Current
  <2>1. PICK w \in events : /\ w.kind = "in" /\ client[w.of].owner = sessions[j]
                            /\ w.at \in {"arrived", "read"}
                            /\ w.at = "read" => w.jid = Current(sessions[j])
    BY DEF WillStore
  <2>2. CASE w = e
    <3>1. Owner(e) = sessions[j] /\ c = Current(sessions[j])
      BY <2>1, <2>2 DEF Owner
    <3>2. n.kind = "in" /\ client[n.of].owner = sessions[j] /\ n.at = "read" /\ n.jid = Current(sessions[j])
      BY <1>4, <2>1, <2>2, <3>1
    <3> QED
      BY <1>3, <3>2 DEF WillStore, Current
  <2>3. CASE w # e
    BY <1>3, <2>1, <2>3 DEF WillStore, Current
  <2> QED
    BY <2>2, <2>3
<1> QED
  BY <1>3, <1>5, <1>6, <1>7, <1>8, <1>9, SteadyStep

LEMMA StoreIdentityStep ==
  ASSUME IInv, NEW e \in events, StoreIdentity(e)
  PROVE  IInv'
<1> DEFINE n == [e EXCEPT !.at = "stored", !.jid = NoClient]
<1>1. TypeOK
  BY DEF IInv
<1>2. PICK i \in Ids : i = obj[Owner(e)].id
  BY EventOwner
<1>3. /\ Up /\ e \in Event /\ e.of \in Clients /\ Owner(e) # NoObj
  BY EventOwner
<1>4. /\ e.at = "read" /\ events' = (events \ {e}) \cup {n}
      /\ UNCHANGED <<devices, sessions, obj, client, thread>>
      /\ \/ /\ rows' = [rows EXCEPT ![i] = IF @ = NoRow THEN NoRow ELSE e.jid]
            /\ \/ e.jid = Current(sessions[i]) /\ UNCHANGED marks
               \/ Mark(i, "outdated")
         \/ UNCHANGED rows /\ Mark(i, "unsaved")
  BY <1>2 DEF StoreIdentity, SetJid
<1>5. n \in Event /\ n.of = e.of /\ n.at = "stored"
  BY <1>3 DEF Event
<1> HIDE DEF n
<1>6. e.jid \in Clients /\ client[e.jid].owner = Owner(e)
  BY <1>4 DEF IInv, Memory, EventBelongs, Owner
<1>7. /\ MarksGrow /\ marks' \in [Ids -> SUBSET {"crossed", "unsaved", "unheard", "outdated"}]
      /\ \/ marks'[i] # {}
         \/ e.jid = Current(sessions[i]) /\ rows' = [rows EXCEPT ![i] = IF @ = NoRow THEN NoRow ELSE e.jid]
  <2>1. CASE e.jid = Current(sessions[i]) /\ UNCHANGED marks
             /\ rows' = [rows EXCEPT ![i] = IF @ = NoRow THEN NoRow ELSE e.jid]
    BY <1>1, <2>1, MarksStay
  <2>2. CASE Mark(i, "outdated")
    BY <1>1, <2>2, Marks
  <2>3. CASE Mark(i, "unsaved")
    BY <1>1, <2>3, Marks
  <2> QED
    BY <1>4, <2>1, <2>2, <2>3
<1>8. /\ rows' \in [Ids -> Clients \cup {NoClient, NoRow}]
      /\ rows'[i] \in {rows[i], e.jid} /\ (rows'[i] = NoRow => rows[i] = NoRow)
      /\ \A j \in Ids \ {i} : rows'[j] = rows[j]
  <2>1. CASE UNCHANGED rows
    BY <1>1, <2>1 DEF TypeOK
  <2>2. CASE rows' = [rows EXCEPT ![i] = IF @ = NoRow THEN NoRow ELSE e.jid]
    BY <1>1, <1>6, <2>2, SessionsAssumption DEF TypeOK
  <2> QED
    BY <1>4, <2>1, <2>2
<1>9. TypeOK'
  BY <1>1, <1>4, <1>5, <1>7, <1>8 DEF TypeOK
<1>10. EventsOwn
  <2>1. EventBelongs(n)
    BY <1>3, <1>5 DEF EventBelongs, Owner
  <2> QED
    BY <1>4, <2>1 DEF EventsOwn
<1>11. RowsStay
  BY <1>8 DEF RowsStay
<1>12. RowsOwn
  BY <1>2, <1>3, <1>6, <1>8 DEF RowsOwn
<1>13. SameObjects /\ SameOwners /\ Calm
  BY <1>4, SameMemory
<1>14. Up' /\ ThreadsHold /\ \A u, v \in Threads : Undisturbed(u, v)'
  BY <1>3, <1>4, <1>7, ThreadsRest
<1>15. ASSUME NEW j \in Ids PROVE IdentityIsSaved(j)'
  <2> SUFFICES ASSUME sessions[j] # NoObj, marks'[j] = {}, client[Current(sessions[j])].paired
               PROVE  rows'[j] = Current(sessions[j]) \/ WillStore(sessions[j], Current(sessions[j]))'
    BY <1>4 DEF IdentityIsSaved, Pristine, Current
  <2>1. Pristine(j) /\ Uncrossed(j)
    BY <1>7 DEF MarksGrow, Pristine, Uncrossed
  <2>2. CASE j = i
    <3>1. rows[i] # NoRow
      BY <2>1, <2>2 DEF IInv, RegisteredIsStored, Uncrossed
    <3>2. rows' = [rows EXCEPT ![i] = IF @ = NoRow THEN NoRow ELSE e.jid] /\ e.jid = Current(sessions[i])
      BY <1>7, <2>2
    <3> QED
      BY <1>1, <2>2, <3>1, <3>2 DEF TypeOK
  <2>3. CASE j # i
    <3>1. rows[j] = Current(sessions[j]) \/ WillStore(sessions[j], Current(sessions[j]))
      BY <2>1 DEF IInv, IdentityIsSaved
    <3>2. CASE rows[j] = Current(sessions[j])
      BY <1>8, <2>3, <3>2
    <3>3. CASE WillStore(sessions[j], Current(sessions[j]))
      <4>1. PICK w \in events : /\ w.kind = "in" /\ client[w.of].owner = sessions[j]
                                /\ w.at \in {"arrived", "read"}
                                /\ w.at = "read" => w.jid = Current(sessions[j])
        BY <3>3 DEF WillStore
      <4>2. obj[sessions[j]].id = j
        BY DEF IInv, Memory, Registered
      <4>3. w # e
        BY <1>2, <2>3, <4>1, <4>2 DEF Owner
      <4> QED
        BY <1>4, <4>1, <4>3 DEF WillStore, Current
    <3> QED
      BY <3>1, <3>2, <3>3
  <2> QED
    BY <2>2, <2>3
<1> QED
  BY <1>4, <1>7, <1>9, <1>10, <1>11, <1>12, <1>13, <1>14, <1>15, SteadyStep

LEMMA SetAuthStep ==
  ASSUME IInv, NEW e \in events, SetAuth(e)
  PROVE  IInv'
<1> DEFINE o == Owner(e)
           a == IF e.at = "stored" THEN "open" ELSE "logged_out"
           s == [obj[o] EXCEPT !.auth = a]
<1>1. TypeOK
  BY DEF IInv
<1>2. Up /\ o \in Objs /\ Made(o)
  BY EventOwner
<1>3. /\ e.at = "stored" \/ e.kind = "out"
      /\ obj' = [obj EXCEPT ![o] = s] /\ events' = events \ {e}
      /\ UNCHANGED <<rows, devices, sessions, client, thread, marks>>
  BY DEF SetAuth
<1>4. a \in {"waiting", "open", "logged_out"}
  OBVIOUS
<1> HIDE DEF a
<1>5. s \in Session /\ s.id = obj[o].id /\ s.client = obj[o].client
  BY <1>2, <1>4 DEF Made, Session
<1> HIDE DEF s
<1>6. obj' \in [Objs -> Session \cup {NoObj}] /\ SameObjects
  BY <1>1, <1>2, <1>3, <1>5 DEF TypeOK, SameObjects, Made
<1>7. TypeOK'
  BY <1>1, <1>3, <1>6 DEF TypeOK
<1>8. EventsOwn
  BY <1>3 DEF EventsOwn
<1>9. MarksGrow /\ RowsStay /\ RowsOwn /\ SameOwners /\ Calm
  BY <1>1, <1>3, MarksStay, SameRows, SameMemory
<1>10. Up' /\ ThreadsHold /\ \A u, v \in Threads : Undisturbed(u, v)'
  BY <1>2, <1>3, <1>9, ThreadsRest
<1>11. \A j \in Ids : IdentityIsSaved(j)'
  BY <1>3, <1>6, <1>9, SavedStays
<1> QED
  BY <1>3, <1>6, <1>7, <1>8, <1>9, <1>10, <1>11, SteadyStep

------------------------------------------------------------------------------
(* The steps that make an object, give it another client, wake its client  *)
(* or take it out of the map.                                              *)

LEMMA StartPairingStep ==
  ASSUME IInv, NEW t \in Threads, StartPairing(t)
  PROVE  IInv'
<1> DEFINE o == thread[t].obj
           c == Current(o)
<1>1. TypeOK /\ Memory /\ RequestsInv
  BY DEF IInv
<1>2. /\ Busy(t) /\ HasObject(t) /\ Done(t) /\ Pairs(o)
      /\ thread[t].op \in {"create", "pair"} /\ thread[t].at \in {"registered", "replaced"}
      /\ UNCHANGED <<rows, devices, sessions, obj, events, marks>>
  BY DEF StartPairing, Doing, HasObject
<1>3. /\ Up /\ thread[t].id \in Ids /\ FindsSession(t)
      /\ o \in Objs /\ Made(o) /\ obj[o].id = thread[t].id /\ o # NoObj
      /\ c = obj[o].client /\ c \in Clients /\ client[c].owner = o
  BY <1>2, Finds
<1>4. /\ thread' \in [Threads -> Request \cup {Idle, Down}]
      /\ \A u \in Threads \ {t} : thread'[u] = thread[u]
      /\ ~Busy(t)' /\ thread'[t] = Idle
  BY <1>1, <1>2, Ends
<1>5. MarksGrow /\ RowsStay /\ RowsOwn /\ SameObjects /\ EventsOwn
  BY <1>1, <1>2, MarksStay, SameRows, SameMemory
<1>6. Up' /\ ThreadsHold
  BY <1>3, <1>4, OwnThread, SessionsAssumption
<1>7. \A u, v \in Threads : Undisturbed(u, v)'
  BY <1>2, <1>4, <1>5, UndisturbedStays
<1>8. CASE UNCHANGED client
  <2>1. TypeOK'
    BY <1>1, <1>2, <1>4, <1>8 DEF TypeOK
  <2>2. SameOwners /\ Calm
    BY <1>8, SameMemory
  <2>3. \A j \in Ids : IdentityIsSaved(j)'
    BY <1>2, <1>5, <1>8, <2>2, SavedStays
  <2> QED
    BY <1>2, <1>5, <1>6, <1>7, <2>1, <2>2, <2>3, SteadyStep
<1>9. CASE client' = [client EXCEPT ![c].wire = "pairing"]
  <2>1. /\ client' \in [Clients -> Client] /\ SameOwners
        /\ client'[c].wire = "pairing" /\ client'[c].paired = client[c].paired
        /\ \A d \in Clients \ {c} : client'[d] = client[d]
    <3> HIDE DEF c
    <3> QED
      BY <1>1, <1>3, <1>9, Wires
  <2>2. TypeOK'
    BY <1>1, <1>2, <1>4, <2>1 DEF TypeOK
  <2>3. Memory'
    BY <1>2, <1>5, <1>6, <2>1, <2>2, SteadyMemory
  <2>4. ASSUME NEW u \in Threads, Busy(u)' PROVE FindsSession(u)' /\ Silenced(u)'
    <3>1. u # t /\ Busy(u) /\ thread'[u] = thread[u]
      BY <1>4, <2>4 DEF Busy
    <3>2. FindsSession(u) /\ Silenced(u) /\ RequestIsSound(u)
          /\ (HasObject(u) => obj[thread[u].obj].id = thread[u].id
                              /\ Current(thread[u].obj) \in Clients
                              /\ client[Current(thread[u].obj)].owner = thread[u].obj)
      BY <3>1, Finds
    <3>3. FindsSession(u)'
      BY <1>2, <3>1, <3>2 DEF FindsSession, Holds, HasObject, Uncrossed
    <3>4. Silenced(u)'
      <4> SUFFICES ASSUME Pristine(thread[u].id),
                          \/ thread[u].at \in {"disconnected", "released"}
                          \/ thread[u].op = "logout" /\ thread[u].at \in {"replaced", "cleared"}
                   PROVE  client'[Current(thread[u].obj)] = client[Current(thread[u].obj)]
        BY <1>2, <3>1, <3>2 DEF Silenced, Pristine, Current
      <4>1. HasObject(u) /\ thread[u].op # "create"
        BY <3>2 DEF HasObject, RequestIsSound, Stages
      <4>2. thread[u].id # thread[t].id
        BY <1>1, <1>2, <3>1, <4>1 DEF RequestsInv, Undisturbed, Pristine, Uncrossed
      <4>3. Current(thread[u].obj) # c
        BY <1>3, <3>2, <4>1, <4>2
      <4> QED
        BY <2>1, <3>2, <4>1, <4>3
    <3> QED
      BY <3>3, <3>4
  <2>5. LiveIsCurrent'
    <3> SUFFICES ASSUME NEW d \in Clients, client'[d].wire # "off", marks[obj[client[d].owner].id] = {}
                 PROVE  sessions[obj[client[d].owner].id] = client[d].owner
                        /\ Current(sessions[obj[client[d].owner].id]) = d
      BY <1>2, <2>1 DEF LiveIsCurrent, Current, Pristine, SameOwners
    <3>1. CASE d = c
      BY <1>2, <1>3, <3>1 DEF FindsSession, Holds, Uncrossed
    <3>2. CASE d # c
      BY <2>1, <3>2 DEF IInv, LiveIsCurrent, Pristine
    <3> QED
      BY <3>1, <3>2
  <2>6. \A j \in Ids : IdentityIsSaved(j)'
    BY <1>2, <1>5, <2>1, SavedStays
  <2>7. RegisteredIsStored'
    BY <1>2 DEF IInv, RegisteredIsStored
  <2> QED
    BY <1>7, <2>2, <2>3, <2>4, <2>5, <2>6, <2>7 DEF IInv, RequestsInv
<1> QED
  BY <1>2, <1>8, <1>9 DEF Pairs

LEMMA UnregisterStep ==
  ASSUME IInv, NEW t \in Threads, Unregister(t)
  PROVE  IInv'
<1> DEFINE i == thread[t].id
           o == thread[t].obj
<1>1. TypeOK /\ Memory /\ RequestsInv
  BY DEF IInv
<1>2. /\ Busy(t) /\ thread[t].op = "delete" /\ thread[t].at = "released" /\ Go(t, "unregistered")
      /\ UNCHANGED <<rows, devices, obj, client, events, marks>>
      /\ sessions' = [sessions EXCEPT ![i] = NoObj]
  BY DEF Unregister, Doing
<1>3. /\ Up /\ i \in Ids /\ FindsSession(t) /\ Silenced(t) /\ RequestIsSound(t)
      /\ o \in Objs /\ Made(o) /\ obj[o].id = i /\ o # NoObj
  BY <1>2, Finds DEF HasObject
<1>4. /\ thread' \in [Threads -> Request \cup {Idle, Down}]
      /\ \A u \in Threads \ {t} : thread'[u] = thread[u]
      /\ Busy(t)' /\ thread'[t] \in Request
      /\ thread'[t].op = "delete" /\ thread'[t].id = i
      /\ thread'[t].obj = o /\ thread'[t].at = "unregistered"
  BY <1>1, <1>2, Goes DEF Stage
<1>5. sessions' \in [Ids -> Objs \cup {NoObj}] /\ sessions'[i] = NoObj
      /\ \A j \in Ids \ {i} : sessions'[j] = sessions[j]
  BY <1>1, <1>2, <1>3 DEF TypeOK
<1>6. TypeOK'
  BY <1>1, <1>2, <1>4, <1>5 DEF TypeOK
<1>7. Up'
  BY <1>3, <1>4 DEF Up, Busy
<1>8. ASSUME NEW u \in Threads, Busy(u)'
      PROVE  RequestIsSound(u)' /\ FindsSession(u)' /\ Silenced(u)'
  <2>1. CASE u = t
    <3>1. RequestIsSound(t)'
      BY <1>2, <1>3, <1>4 DEF RequestIsSound, HasObject, Stages, Made
    <3>2. FindsSession(t)'
      BY <1>4, <1>5 DEF FindsSession, Holds
    <3>3. Silenced(t)'
      BY <1>4 DEF Silenced
    <3> QED
      BY <2>1, <3>1, <3>2, <3>3
  <2>2. CASE u # t
    <3>1. Busy(u) /\ thread'[u] = thread[u]
      BY <1>4, <1>8, <2>2 DEF Busy
    <3>2. RequestIsSound(u) /\ FindsSession(u) /\ Silenced(u) /\ thread[u].id \in Ids
      BY <3>1, Finds
    <3>3. RequestIsSound(u)'
      BY <1>2, <3>1, <3>2 DEF RequestIsSound, HasObject, Made, Stages
    <3>4. Silenced(u)'
      BY <1>2, <3>1, <3>2 DEF Silenced, Pristine, Current
    <3>5. Uncrossed(thread[u].id) => thread[u].id # i
      BY <1>1, <1>2, <2>2, <3>1 DEF RequestsInv, Undisturbed
    <3>6. FindsSession(u)'
      BY <1>2, <1>5, <3>1, <3>2, <3>5 DEF FindsSession, Holds, HasObject, Uncrossed
    <3> QED
      BY <3>3, <3>4, <3>6
  <2> QED
    BY <2>1, <2>2
<1>9. Memory'
  <2>1. ASSUME NEW d \in Clients PROVE ClientBelongs(d)'
    BY <1>1, <1>2 DEF Memory, ClientBelongs, Made, Fresh
  <2>2. ASSUME NEW p \in Objs PROVE ObjectHasClient(p)'
    BY <1>1, <1>2 DEF Memory, ObjectHasClient, Made
  <2>3. ASSUME NEW j \in Ids PROVE Registered(j)' /\ RowIsOwn(j)'
    BY <1>1, <1>2, <1>5 DEF Memory, Registered, RowIsOwn, Made
  <2>4. ASSUME NEW e \in events' PROVE EventBelongs(e)'
    BY <1>1, <1>2 DEF Memory, EventBelongs
  <2> QED
    BY <1>7, <1>8, <2>1, <2>2, <2>3, <2>4 DEF Memory, DownIsEmpty
<1>10. RequestsInv'
  <2>1. MarksGrow
    BY <1>1, <1>2, MarksStay
  <2>2. \A u, v \in Threads : Undisturbed(u, v)'
    BY <1>2, <1>4, <2>1, UndisturbedStays
  <2> QED
    BY <1>8, <2>2 DEF RequestsInv
<1>11. RegisteredIsStored'
  BY <1>2, <1>3, <1>5 DEF IInv, RegisteredIsStored
<1>12. LiveIsCurrent'
  <2> SUFFICES ASSUME NEW d \in Clients, client[d].wire # "off", marks[obj[client[d].owner].id] = {}
               PROVE  /\ sessions'[obj[client[d].owner].id] = client[d].owner
                      /\ client[d].owner # NoObj /\ obj[client[d].owner].client = d
    BY <1>2 DEF LiveIsCurrent, Current, Pristine
  <2>1. sessions[obj[client[d].owner].id] = client[d].owner
        /\ Current(client[d].owner) = d
    BY DEF IInv, LiveIsCurrent, Pristine
  <2>2. client[d].owner # NoObj /\ Made(client[d].owner)
    BY WiredClient
  <2>3. obj[client[d].owner].id \in Ids /\ obj[client[d].owner].client = d
    BY <2>1, <2>2 DEF Made, Session, Current
  <2>4. obj[client[d].owner].id # i
    <3> SUFFICES ASSUME obj[client[d].owner].id = i PROVE FALSE
      OBVIOUS
    <3>1. client[d].owner = o
      BY <1>2, <1>3, <2>1 DEF FindsSession, Holds, HasObject, Uncrossed
    <3> QED
      BY <1>2, <1>3, <2>1, <3>1 DEF Silenced, Pristine
  <2> QED
    BY <1>5, <2>1, <2>2, <2>3, <2>4
<1>13. ASSUME NEW j \in Ids PROVE IdentityIsSaved(j)'
  <2>1. CASE j = i
    BY <1>5, <2>1 DEF IdentityIsSaved
  <2>2. CASE j # i
    <3>1. IdentityIsSaved(j)
      BY DEF IInv
    <3>2. sessions'[j] = sessions[j] /\ Current(sessions[j])' = Current(sessions[j])
      BY <1>2, <1>5, <2>2 DEF Current
    <3>3. WillStore(sessions[j], Current(sessions[j])) => WillStore(sessions[j], Current(sessions[j]))'
      BY <1>2, <3>2 DEF WillStore
    <3> QED
      BY <1>2, <3>1, <3>2, <3>3 DEF IdentityIsSaved, Pristine
  <2> QED
    BY <2>1, <2>2
<1> QED
  BY <1>6, <1>9, <1>10, <1>11, <1>12, <1>13 DEF IInv

(* A client nobody has used becomes the client of an object.               *)
Gets(o, c, s) ==
  /\ c \in Clients /\ client[c].owner = NoObj
  /\ obj' \in [Objs -> Session \cup {NoObj}] /\ obj'[o] = s
  /\ \A p \in Objs \ {o} : obj'[p] = obj[p]
  /\ \A p \in Objs : Made(p) => Made(p)' /\ obj'[p].id = obj[p].id
  /\ client' \in [Clients -> Client]
  /\ client'[c].owner = o /\ client'[c].wire = "off" /\ ~client'[c].paired
  /\ \A d \in Clients \ {c} : client'[d] = client[d]
  /\ \A d \in Clients : ClientBelongs(d)'
  /\ \A p \in Objs : ObjectHasClient(p)'
  /\ \A i \in Ids : RowIsOwn(i)'
  /\ \A e \in events' : EventBelongs(e)'

LEMMA GetsClient ==
  ASSUME IInv, NEW o \in Objs, NEW c \in Unused, NEW s \in Session, s.client = c,
         Made(o) => s.id = obj[o].id, obj' = [obj EXCEPT ![o] = s],
         client' = [client EXCEPT ![c].owner = o], UNCHANGED <<rows, events>>
  PROVE  Gets(o, c, s)
<1> DEFINE q == [client[c] EXCEPT !.owner = o]
<1>1. TypeOK /\ Memory
  BY DEF IInv
<1>2. c \in Clients /\ client[c] = Fresh /\ \A i \in Ids : rows[i] # c
  BY DEF Unused
<1>3. client[c].owner = NoObj /\ o # NoObj
  BY <1>2, SessionsAssumption DEF Fresh
<1>4. client[c] \in Client /\ client[c].wire = "off" /\ ~client[c].paired
  <2>1. client[c] \in Client
    BY <1>1, <1>2 DEF TypeOK
  <2>2. Fresh.wire = "off" /\ Fresh.paired = FALSE
    BY DEF Fresh
  <2> QED
    BY <1>2, <2>1, <2>2
<1>5. q \in Client /\ q.owner = o /\ q.wire = "off" /\ ~q.paired
  BY <1>4 DEF Client
<1>6. client' = [client EXCEPT ![c] = q]
  OBVIOUS
<1> HIDE DEF q
<1>7. /\ client' \in [Clients -> Client] /\ client'[c] = q
      /\ \A d \in Clients \ {c} : client'[d] = client[d]
  BY <1>1, <1>2, <1>5, <1>6 DEF TypeOK
<1>8. /\ obj' \in [Objs -> Session \cup {NoObj}] /\ obj'[o] = s
      /\ \A p \in Objs \ {o} : obj'[p] = obj[p]
  BY <1>1 DEF TypeOK
<1>9. ASSUME NEW p \in Objs, Made(p) PROVE Made(p)' /\ obj'[p].id = obj[p].id
  BY <1>8, <1>9 DEF Made
<1>10. ASSUME NEW d \in Clients PROVE ClientBelongs(d)'
  <2>1. CASE d = c
    BY <1>3, <1>5, <1>7, <1>8, <2>1 DEF ClientBelongs, Made
  <2>2. CASE d # c
    <3>1. ClientBelongs(d) /\ client'[d] = client[d]
      BY <1>1, <1>7, <2>2 DEF Memory
    <3>2. client[d].owner # NoObj => client[d].owner \in Objs /\ obj'[client[d].owner] \in Session
      BY <3>1, <1>9 DEF ClientBelongs, Made
    <3> QED
      BY <3>1, <3>2 DEF ClientBelongs, Made, Fresh
  <2> QED
    BY <2>1, <2>2
<1>11. ASSUME NEW p \in Objs PROVE ObjectHasClient(p)'
  <2>1. CASE p = o
    BY <1>5, <1>7, <1>8, <2>1 DEF ObjectHasClient
  <2>2. CASE p # o
    <3> SUFFICES ASSUME obj[p] \in Session PROVE client'[obj[p].client].owner = p
      BY <1>8, <2>2 DEF ObjectHasClient, Made
    <3>1. obj[p].client \in Clients /\ client[obj[p].client].owner = p
      BY <1>1 DEF Memory, ObjectHasClient, Made, Session
    <3>2. p # NoObj
      BY SessionsAssumption
    <3> QED
      BY <1>3, <1>7, <3>1, <3>2
  <2> QED
    BY <2>1, <2>2
<1>12. ASSUME NEW i \in Ids PROVE RowIsOwn(i)'
  <2> SUFFICES ASSUME rows[i] \in Clients
               PROVE  /\ client'[rows[i]].owner # NoObj => obj'[client'[rows[i]].owner].id = i
                      /\ \A j \in Ids : rows[j] = rows[i] => j = i
    BY DEF RowIsOwn
  <2>1. client'[rows[i]] = client[rows[i]] /\ RowIsOwn(i)
    BY <1>1, <1>2, <1>7 DEF Memory
  <2>2. client[rows[i]].owner # NoObj => Made(client[rows[i]].owner)
    BY <1>1 DEF Memory, ClientBelongs
  <2> QED
    BY <1>9, <2>1, <2>2 DEF RowIsOwn, Made
<1>13. ASSUME NEW e \in events' PROVE EventBelongs(e)'
  <2>1. EventBelongs(e) /\ e.of \in Clients
    BY <1>1 DEF Memory, TypeOK, Event
  <2> QED
    BY <1>3, <1>7, <2>1 DEF EventBelongs
<1> QED
  BY <1>2, <1>3, <1>5, <1>7, <1>8, <1>9, <1>10, <1>11, <1>12, <1>13 DEF Gets

LEMMA RegisterStep ==
  ASSUME IInv, NEW t \in Threads, Register(t)
  PROVE  IInv'
<1> DEFINE i == thread[t].id
           new == CHOOSE p \in Objs : obj[p] = NoObj
           made == [id |-> i, client |-> NewClient, auth |-> "waiting"]
           r == [thread[t] EXCEPT !.at = "registered", !.obj = new]
<1>1. TypeOK /\ Memory /\ RequestsInv
  BY DEF IInv
<1>2. /\ Busy(t) /\ thread[t].op = "create" /\ thread[t].at = "inserted"
      /\ Unused # {} /\ (\E p \in Objs : obj[p] = NoObj)
      /\ obj' = [obj EXCEPT ![new] = made]
      /\ sessions' = [sessions EXCEPT ![i] = new]
      /\ client' = [client EXCEPT ![NewClient].owner = new]
      /\ thread' = [thread EXCEPT ![t] = r]
      /\ UNCHANGED <<rows, devices, events, marks>>
  BY DEF Register, Doing
<1>3. /\ Up /\ i \in Ids /\ FindsSession(t) /\ thread[t] \in Request
  BY <1>2, Finds
<1>4. PICK o \in Objs : o = new /\ obj[o] = NoObj
  BY <1>2
<1>5. PICK c \in Unused : c = NewClient
  BY <1>2 DEF NewClient
<1>6. c \in Clients
  BY DEF Unused
<1>7. PICK s \in Session : s = made /\ s.id = i /\ s.client = c
  <2>1. made = [id |-> i, client |-> c, auth |-> "waiting"]
    BY <1>5
  <2> HIDE DEF made
  <2>2. made \in Session /\ made.id = i /\ made.client = c
    BY <1>3, <1>6, <2>1 DEF Session
  <2> QED
    BY <2>2
<1>8. o # NoObj /\ ~Made(o)
  BY <1>4, SessionsAssumption DEF Made
<1>9. r \in Request /\ r.op = "create" /\ r.id = i /\ r.at = "registered" /\ r.obj = o
  <2> HIDE DEF new
  <2>1. new \in Objs /\ new = o
    BY <1>4
  <2> QED
    BY <1>2, <1>3, <2>1 DEF Request
<1>10. /\ obj' = [obj EXCEPT ![o] = s]
       /\ client' = [client EXCEPT ![c].owner = o]
       /\ sessions' = [sessions EXCEPT ![i] = o]
  BY <1>2, <1>4, <1>5, <1>7
<1> HIDE DEF made, new, r
<1>11. /\ thread' \in [Threads -> Request \cup {Idle, Down}] /\ thread'[t] = r
       /\ \A u \in Threads \ {t} : thread'[u] = thread[u]
  BY <1>1, <1>2, <1>9 DEF TypeOK
<1>12. /\ c \in Clients /\ client[c].owner = NoObj
       /\ obj' \in [Objs -> Session \cup {NoObj}] /\ obj'[o] = s
       /\ \A p \in Objs \ {o} : obj'[p] = obj[p]
       /\ \A p \in Objs : Made(p) => Made(p)' /\ obj'[p].id = obj[p].id
       /\ client' \in [Clients -> Client]
       /\ client'[c].owner = o /\ client'[c].wire = "off" /\ ~client'[c].paired
       /\ \A d \in Clients \ {c} : client'[d] = client[d]
       /\ \A d \in Clients : ClientBelongs(d)'
       /\ \A p \in Objs : ObjectHasClient(p)'
       /\ \A j \in Ids : RowIsOwn(j)'
       /\ \A e \in events' : EventBelongs(e)'
  <2>1. UNCHANGED <<rows, events>> /\ s.client = c /\ (Made(o) => s.id = obj[o].id)
    BY <1>2, <1>7, <1>8
  <2>2. Gets(o, c, s)
    BY <1>10, <2>1, GetsClient
  <2> QED
    BY <2>2 DEF Gets
<1>13. /\ sessions' \in [Ids -> Objs \cup {NoObj}] /\ sessions'[i] = o
       /\ \A j \in Ids \ {i} : sessions'[j] = sessions[j]
  BY <1>1, <1>3, <1>10 DEF TypeOK
<1>14. TypeOK'
  BY <1>1, <1>2, <1>11, <1>12, <1>13 DEF TypeOK
<1>15. Busy(t)' /\ thread'[t] # Down
  BY <1>9, <1>11, SessionsAssumption DEF Busy
<1>16. Up'
  BY <1>3, <1>11, <1>15 DEF Up
<1>17. ASSUME NEW u \in Threads, Busy(u)'
       PROVE  RequestIsSound(u)' /\ FindsSession(u)' /\ Silenced(u)'
  <2>1. CASE u = t
    <3>1. RequestIsSound(t)'
      BY <1>7, <1>9, <1>11, <1>12 DEF RequestIsSound, HasObject, Stages, Made
    <3>2. FindsSession(t)'
      BY <1>9, <1>11, <1>13 DEF FindsSession, Holds
    <3>3. Silenced(t)'
      BY <1>9, <1>11 DEF Silenced
    <3> QED
      BY <2>1, <3>1, <3>2, <3>3
  <2>2. CASE u # t
    <3>1. Busy(u) /\ thread'[u] = thread[u]
      BY <1>11, <1>17, <2>2 DEF Busy
    <3>2. RequestIsSound(u) /\ FindsSession(u) /\ Silenced(u) /\ thread[u].id \in Ids
          /\ (HasObject(u) => /\ thread[u].obj \in Objs /\ Made(thread[u].obj)
                              /\ thread[u].obj # NoObj
                              /\ obj[thread[u].obj].id = thread[u].id
                              /\ Current(thread[u].obj) \in Clients
                              /\ client[Current(thread[u].obj)].owner = thread[u].obj)
      BY <3>1, Finds
    <3>3. HasObject(u) => thread[u].obj # o /\ obj'[thread[u].obj] = obj[thread[u].obj]
      BY <1>8, <1>12, <3>2
    <3>4. RequestIsSound(u)'
      BY <3>1, <3>2, <3>3 DEF RequestIsSound, HasObject, Made, Stages
    <3>5. ASSUME Uncrossed(thread[u].id), thread[u].id = i PROVE thread[u].op = "create" /\ thread[u].at = "begun"
      BY <1>1, <1>2, <2>2, <3>1, <3>5 DEF RequestsInv, Undisturbed
    <3>6. FindsSession(u)'
      BY <1>2, <1>13, <3>1, <3>2, <3>5 DEF FindsSession, Holds, HasObject, Uncrossed
    <3>7. Silenced(u)'
      <4> SUFFICES ASSUME Pristine(thread[u].id),
                          \/ thread[u].at \in {"disconnected", "released"}
                          \/ thread[u].op = "logout" /\ thread[u].at \in {"replaced", "cleared"}
                   PROVE  /\ Current(thread[u].obj)' = Current(thread[u].obj)
                          /\ client'[Current(thread[u].obj)] = client[Current(thread[u].obj)]
        BY <1>2, <3>1, <3>2 DEF Silenced, Pristine
      <4>1. HasObject(u)
        BY <3>2 DEF HasObject, RequestIsSound, Stages
      <4>2. Current(thread[u].obj)' = Current(thread[u].obj)
        BY <3>1, <3>3, <4>1 DEF Current
      <4>3. Current(thread[u].obj) # c
        BY <1>12, <3>2, <4>1
      <4> QED
        BY <1>12, <3>2, <4>1, <4>2, <4>3
    <3> QED
      BY <3>4, <3>6, <3>7
  <2> QED
    BY <2>1, <2>2
<1>18. ASSUME NEW j \in Ids PROVE Registered(j)'
  <2>1. CASE j = i
    BY <1>7, <1>12, <1>13, <2>1 DEF Registered, Made
  <2>2. CASE j # i
    <3>1. Registered(j) /\ sessions'[j] = sessions[j]
      BY <1>1, <1>13, <2>2 DEF Memory
    <3> QED
      BY <1>12, <3>1 DEF Registered, Made
  <2> QED
    BY <2>1, <2>2
<1>19. Memory'
  BY <1>12, <1>16, <1>17, <1>18 DEF Memory, DownIsEmpty
<1>20. RequestsInv'
  <2>1. MarksGrow
    BY <1>1, <1>2, MarksStay
  <2>2. \A u, v \in Threads : Undisturbed(u, v)'
    BY <1>2, <1>9, <1>11, <2>1, UndisturbedStays
  <2> QED
    BY <1>17, <2>2 DEF RequestsInv
<1>21. RegisteredIsStored'
  BY <1>2, <1>3, <1>13 DEF IInv, RegisteredIsStored, FindsSession, Uncrossed
<1>22. LiveIsCurrent'
  <2> SUFFICES ASSUME NEW d \in Clients, client'[d].wire # "off", marks[obj'[client'[d].owner].id] = {}
               PROVE  /\ sessions'[obj'[client'[d].owner].id] = client'[d].owner
                      /\ client'[d].owner # NoObj /\ obj'[client'[d].owner].client = d
    BY <1>2 DEF LiveIsCurrent, Current, Pristine
  <2>1. client'[d] = client[d] /\ client[d].wire # "off"
    BY <1>12
  <2>2. PICK p \in Objs : p = client[d].owner /\ p # NoObj /\ Made(p) /\ obj[p].id \in Ids
    BY <2>1, WiredClient DEF Made, Session
  <2>3. p # o /\ obj'[p] = obj[p]
    BY <1>8, <1>12, <2>2
  <2>4. sessions[obj[p].id] = p /\ Current(p) = d
    BY <2>1, <2>2, <2>3 DEF IInv, LiveIsCurrent, Pristine
  <2>5. obj[p].id # i
    BY <1>2, <1>3, <2>1, <2>2, <2>3, <2>4 DEF FindsSession, Uncrossed
  <2> QED
    BY <1>13, <2>1, <2>2, <2>3, <2>4, <2>5 DEF Current
<1>23. ASSUME NEW j \in Ids PROVE IdentityIsSaved(j)'
  <2>1. CASE j = i
    <3>1. Current(sessions[j])' = c
      BY <1>7, <1>8, <1>12, <1>13, <2>1 DEF Current
    <3> QED
      BY <1>12, <3>1 DEF IdentityIsSaved
  <2>2. CASE j # i
    <3> SUFFICES ASSUME sessions'[j] # NoObj, marks[j] = {}, client'[Current(sessions[j])'].paired
                 PROVE  rows[j] = Current(sessions[j])' \/ WillStore(sessions[j], Current(sessions[j]))'
      BY <1>2 DEF IdentityIsSaved, Pristine
    <3>1. sessions'[j] = sessions[j] /\ Made(sessions[j])
      BY <1>1, <1>13, <2>2 DEF Memory, Registered
    <3>2. /\ Current(sessions[j])' = Current(sessions[j]) /\ Current(sessions[j]) \in Clients
          /\ client[Current(sessions[j])].owner = sessions[j]
      BY <1>1, <1>8, <1>12, <3>1, SessionsAssumption DEF Current, Made, Session, Memory, ObjectHasClient
    <3>3. client'[Current(sessions[j])] = client[Current(sessions[j])]
      BY <1>12, <3>1, <3>2
    <3>4. rows[j] = Current(sessions[j]) \/ WillStore(sessions[j], Current(sessions[j]))
      BY <3>1, <3>2, <3>3 DEF IInv, IdentityIsSaved, Pristine
    <3>5. ASSUME WillStore(sessions[j], Current(sessions[j])) PROVE WillStore(sessions[j], Current(sessions[j]))'
      <4>1. PICK w \in events : /\ w.kind = "in" /\ client[w.of].owner = sessions[j]
                                /\ w.at \in {"arrived", "read"}
                                /\ w.at = "read" => w.jid = Current(sessions[j])
        BY <3>5 DEF WillStore
      <4>2. w.of \in Clients /\ w.of # c
        BY <1>1, <1>12, <3>1, <4>1 DEF TypeOK, Event
      <4>3. client'[w.of].owner = sessions'[j] /\ w \in events'
            /\ (w.at = "read" => w.jid = Current(sessions[j])')
        BY <1>2, <1>12, <3>1, <3>2, <4>1, <4>2
      <4> QED
        BY <4>1, <4>3 DEF WillStore
    <3> QED
      BY <3>2, <3>4, <3>5
  <2> QED
    BY <2>1, <2>2
<1> QED
  BY <1>14, <1>19, <1>20, <1>21, <1>22, <1>23 DEF IInv

LEMMA ReplacesStep ==
  ASSUME IInv, NEW t \in Threads, Replaces(t)
  PROVE  IInv'
<1> DEFINE i == thread[t].id
           o == thread[t].obj
           s == [obj[o] EXCEPT !.client = NewClient]
<1>1. TypeOK /\ Memory /\ RequestsInv
  BY DEF IInv
<1>2. /\ Busy(t) /\ thread[t].at = "disconnected" /\ Unused # {}
      /\ obj' = [obj EXCEPT ![o] = s]
      /\ client' = [client EXCEPT ![NewClient].owner = o]
      /\ Go(t, "replaced")
      /\ UNCHANGED <<rows, devices, sessions, events, marks>>
  BY DEF Replaces
<1>3. /\ Up /\ i \in Ids /\ FindsSession(t) /\ Silenced(t) /\ thread[t].op \in {"logout", "pair"}
  BY <1>2, Finds DEF RequestIsSound, Stages, Request
<1>4. /\ HasObject(t) /\ o \in Objs /\ o # NoObj /\ Made(o) /\ obj[o].id = i
      /\ Current(o) = obj[o].client /\ Current(o) \in Clients
  BY <1>2, <1>3, Finds DEF HasObject
<1>5. PICK c \in Unused : c = NewClient
  BY <1>2 DEF NewClient
<1>6. c \in Clients
  BY DEF Unused
<1>7. s \in Session /\ s.id = i /\ s.client = c
  <2>1. s = [obj[o] EXCEPT !.client = c]
    BY <1>5
  <2>2. [obj[o] EXCEPT !.client = c] \in Session /\ [obj[o] EXCEPT !.client = c].id = i
        /\ [obj[o] EXCEPT !.client = c].client = c
    BY <1>4, <1>6 DEF Made, Session
  <2> HIDE DEF s
  <2> QED
    BY <2>1, <2>2
<1> HIDE DEF s
<1>8. Gets(o, c, s)
  <2>1. client' = [client EXCEPT ![c].owner = o] /\ UNCHANGED <<rows, events>> /\ (Made(o) => s.id = obj[o].id)
    BY <1>2, <1>4, <1>5, <1>7
  <2> QED
    BY <1>2, <1>4, <1>7, <2>1, GetsClient
<1>9. /\ c \in Clients /\ client[c].owner = NoObj
      /\ obj' \in [Objs -> Session \cup {NoObj}] /\ obj'[o] = s
      /\ \A p \in Objs \ {o} : obj'[p] = obj[p]
      /\ \A p \in Objs : Made(p) => Made(p)' /\ obj'[p].id = obj[p].id
      /\ client' \in [Clients -> Client]
      /\ client'[c].owner = o /\ client'[c].wire = "off" /\ ~client'[c].paired
      /\ \A d \in Clients \ {c} : client'[d] = client[d]
      /\ \A d \in Clients : ClientBelongs(d)'
      /\ \A p \in Objs : ObjectHasClient(p)'
      /\ \A j \in Ids : RowIsOwn(j)'
      /\ \A e \in events' : EventBelongs(e)'
  BY <1>8 DEF Gets
<1>10. /\ thread' \in [Threads -> Request \cup {Idle, Down}]
       /\ \A u \in Threads \ {t} : thread'[u] = thread[u]
       /\ Busy(t)' /\ thread'[t] \in Request
       /\ thread'[t].op = thread[t].op /\ thread'[t].id = i
       /\ thread'[t].obj = o /\ thread'[t].at = "replaced"
  BY <1>1, <1>2, Goes DEF Stage
<1>11. TypeOK'
  BY <1>1, <1>2, <1>9, <1>10 DEF TypeOK
<1>12. Up'
  BY <1>3, <1>10 DEF Up, Busy
<1>13. ASSUME NEW u \in Threads, Busy(u)'
       PROVE  RequestIsSound(u)' /\ FindsSession(u)' /\ Silenced(u)'
  <2>1. CASE u = t
    <3>1. RequestIsSound(t)'
      BY <1>3, <1>4, <1>9, <1>10 DEF RequestIsSound, HasObject, Stages, Made
    <3>2. FindsSession(t)'
      BY <1>2, <1>3, <1>4, <1>10 DEF FindsSession, Holds, HasObject, Uncrossed
    <3>3. Current(thread[t].obj)' = c
      BY <1>4, <1>7, <1>9, <1>10 DEF Current
    <3>4. Silenced(t)'
      BY <1>9, <1>10, <3>3 DEF Silenced
    <3> QED
      BY <2>1, <3>1, <3>2, <3>4
  <2>2. CASE u # t
    <3>1. Busy(u) /\ thread'[u] = thread[u]
      BY <1>10, <1>13, <2>2 DEF Busy
    <3>2. RequestIsSound(u) /\ FindsSession(u) /\ Silenced(u) /\ thread[u].id \in Ids
          /\ (HasObject(u) => /\ thread[u].obj \in Objs /\ Made(thread[u].obj)
                              /\ thread[u].obj # NoObj
                              /\ obj[thread[u].obj].id = thread[u].id
                              /\ Current(thread[u].obj) \in Clients
                              /\ client[Current(thread[u].obj)].owner = thread[u].obj)
      BY <3>1, Finds
    <3>3. RequestIsSound(u)'
      BY <1>9, <3>1, <3>2 DEF RequestIsSound, HasObject, Made, Stages
    <3>4. FindsSession(u)'
      BY <1>2, <3>1, <3>2 DEF FindsSession, Holds, HasObject, Uncrossed
    <3>5. Silenced(u)'
      <4> SUFFICES ASSUME Pristine(thread[u].id),
                          \/ thread[u].at \in {"disconnected", "released"}
                          \/ thread[u].op = "logout" /\ thread[u].at \in {"replaced", "cleared"}
                   PROVE  /\ Current(thread[u].obj)' = Current(thread[u].obj)
                          /\ client'[Current(thread[u].obj)] = client[Current(thread[u].obj)]
        BY <1>2, <3>1, <3>2 DEF Silenced, Pristine
      <4>1. HasObject(u) /\ thread[u].op # "create"
        BY <3>2 DEF HasObject, RequestIsSound, Stages
      <4>2. thread[u].id # i
        BY <1>1, <1>2, <2>2, <3>1, <4>1 DEF RequestsInv, Undisturbed, Pristine, Uncrossed
      <4>3. thread[u].obj # o
        BY <1>4, <3>2, <4>1, <4>2
      <4>4. Current(thread[u].obj)' = Current(thread[u].obj)
        BY <1>9, <3>1, <3>2, <4>1, <4>3 DEF Current
      <4>5. Current(thread[u].obj) # c
        BY <1>9, <3>2, <4>1
      <4> QED
        BY <1>9, <3>2, <4>1, <4>4, <4>5
    <3> QED
      BY <3>3, <3>4, <3>5
  <2> QED
    BY <2>1, <2>2
<1>14. ASSUME NEW j \in Ids PROVE Registered(j)'
  <2>1. Registered(j) /\ sessions'[j] = sessions[j]
    BY <1>1, <1>2 DEF Memory
  <2> QED
    BY <1>9, <2>1 DEF Registered, Made
<1>15. Memory'
  BY <1>9, <1>12, <1>13, <1>14 DEF Memory, DownIsEmpty
<1>16. RequestsInv'
  <2>1. MarksGrow
    BY <1>1, <1>2, MarksStay
  <2>2. \A u, v \in Threads : Undisturbed(u, v)'
    BY <1>2, <1>10, <2>1, UndisturbedStays
  <2> QED
    BY <1>13, <2>2 DEF RequestsInv
<1>17. RegisteredIsStored'
  BY <1>2 DEF IInv, RegisteredIsStored
<1>18. LiveIsCurrent'
  <2> SUFFICES ASSUME NEW d \in Clients, client'[d].wire # "off", marks[obj'[client'[d].owner].id] = {}
               PROVE  /\ sessions[obj'[client'[d].owner].id] = client'[d].owner
                      /\ client'[d].owner # NoObj /\ obj'[client'[d].owner].client = d
    BY <1>2 DEF LiveIsCurrent, Current, Pristine
  <2>1. client'[d] = client[d] /\ client[d].wire # "off"
    BY <1>9
  <2>2. PICK p \in Objs : p = client[d].owner /\ p # NoObj /\ Made(p) /\ obj[p].id \in Ids
    BY <2>1, WiredClient DEF Made, Session
  <2>3. obj'[p].id = obj[p].id
    BY <1>9, <2>2
  <2>4. sessions[obj[p].id] = p /\ Current(p) = d
    BY <2>1, <2>2, <2>3 DEF IInv, LiveIsCurrent, Pristine
  <2>5. p # o
    BY <1>2, <1>3, <1>4, <2>1, <2>2, <2>3, <2>4 DEF Silenced, Pristine
  <2> QED
    BY <1>9, <2>1, <2>2, <2>3, <2>4, <2>5 DEF Current
<1>19. ASSUME NEW j \in Ids PROVE IdentityIsSaved(j)'
  <2> SUFFICES ASSUME sessions[j] # NoObj, marks[j] = {}, client'[Current(sessions[j])'].paired
               PROVE  rows[j] = Current(sessions[j])' \/ WillStore(sessions[j], Current(sessions[j]))'
    BY <1>2 DEF IdentityIsSaved, Pristine
  <2>1. Made(sessions[j]) /\ sessions[j] \in Objs /\ sessions'[j] = sessions[j]
    BY <1>1, <1>2 DEF Memory, Registered, Made
  <2>2. sessions[j] # o
    <3> SUFFICES ASSUME sessions[j] = o PROVE FALSE
      OBVIOUS
    <3>1. Current(sessions[j])' = c
      BY <1>4, <1>7, <1>9, <2>1 DEF Current
    <3> QED
      BY <1>9, <3>1
  <2>3. /\ Current(sessions[j])' = Current(sessions[j]) /\ Current(sessions[j]) \in Clients
        /\ client[Current(sessions[j])].owner = sessions[j]
    BY <1>1, <1>9, <2>1, <2>2, SessionsAssumption DEF Current, Made, Session, Memory, ObjectHasClient
  <2>4. client'[Current(sessions[j])] = client[Current(sessions[j])]
    BY <1>9, <2>1, <2>3
  <2>5. rows[j] = Current(sessions[j]) \/ WillStore(sessions[j], Current(sessions[j]))
    BY <2>3, <2>4 DEF IInv, IdentityIsSaved, Pristine
  <2>6. ASSUME WillStore(sessions[j], Current(sessions[j])) PROVE WillStore(sessions[j], Current(sessions[j]))'
    <3>1. PICK w \in events : /\ w.kind = "in" /\ client[w.of].owner = sessions[j]
                              /\ w.at \in {"arrived", "read"}
                              /\ w.at = "read" => w.jid = Current(sessions[j])
      BY <2>6 DEF WillStore
    <3>2. w.of \in Clients /\ w.of # c
      BY <1>1, <1>9, <3>1 DEF TypeOK, Event
    <3>3. client'[w.of].owner = sessions'[j] /\ w \in events'
          /\ (w.at = "read" => w.jid = Current(sessions[j])')
      BY <1>2, <1>9, <2>1, <2>3, <3>1, <3>2
    <3> QED
      BY <3>1, <3>3 DEF WillStore
  <2> QED
    BY <2>3, <2>5, <2>6
<1> QED
  BY <1>11, <1>15, <1>16, <1>17, <1>18, <1>19 DEF IInv

------------------------------------------------------------------------------
(* The end of the process and the next start.                              *)

LEMMA CrashStep ==
  ASSUME IInv, Crash
  PROVE  IInv'
<1>1. TypeOK /\ Memory
  BY DEF IInv
<1>2. /\ sessions' = [i \in Ids |-> NoObj] /\ obj' = [o \in Objs |-> NoObj]
      /\ client' = [c \in Clients |-> Fresh] /\ events' = {}
      /\ thread' = [t \in Threads |-> Down] /\ marks' = [i \in Ids |-> {}]
      /\ UNCHANGED <<rows, devices>>
  BY DEF Crash
<1>3. Fresh \in Client /\ Fresh.owner = NoObj /\ Fresh.wire = "off" /\ Fresh' = Fresh
  BY DEF Fresh, Client
<1>4. TypeOK'
  BY <1>1, <1>2, <1>3 DEF TypeOK
<1>5. ASSUME NEW t \in Threads PROVE ~Busy(t)'
  BY <1>2, <1>5 DEF Busy
<1>6. ASSUME NEW c \in Clients PROVE ClientBelongs(c)' /\ client'[c].wire = "off" /\ client'[c].owner = NoObj
  <2>1. client'[c] = Fresh
    BY <1>2
  <2> QED
    BY <1>3, <2>1 DEF ClientBelongs
<1>7. ASSUME NEW o \in Objs PROVE ~Made(o)'
  BY <1>2, SessionsAssumption DEF Made
<1>8. ASSUME NEW i \in Ids PROVE Registered(i)' /\ RowIsOwn(i)'
  <2>1. RowIsOwn(i)
    BY <1>1 DEF Memory
  <2> QED
    BY <1>2, <1>6, <2>1 DEF Registered, RowIsOwn
<1>9. DownIsEmpty'
  BY <1>2, <1>3 DEF DownIsEmpty
<1>10. Memory'
  BY <1>2, <1>5, <1>6, <1>7, <1>8, <1>9 DEF Memory, ObjectHasClient
<1>11. RequestsInv'
  BY <1>5 DEF RequestsInv, Undisturbed
<1>12. RegisteredIsStored'
  BY <1>2 DEF RegisteredIsStored
<1>13. LiveIsCurrent'
  BY <1>6 DEF LiveIsCurrent
<1>14. \A i \in Ids : IdentityIsSaved(i)'
  BY <1>2 DEF IdentityIsSaved
<1> QED
  BY <1>4, <1>10, <1>11, <1>12, <1>13, <1>14 DEF IInv

LEMMA RestoreStep ==
  ASSUME IInv, Restore
  PROVE  IInv'
<1>1. TypeOK /\ Memory
  BY DEF IInv
<1>2. PICK unread \in SUBSET devices, undeleted \in SUBSET Ids, home \in [Ids -> Objs] :
       LET kept == {i \in Ids : rows[i] \in devices \ unread}
       IN /\ \A i, j \in kept : home[i] = home[j] => i = j
          /\ rows' = [i \in Ids |-> IF i \in kept \cup undeleted THEN rows[i] ELSE NoRow]
          /\ sessions' = [i \in Ids |-> IF i \in kept THEN home[i] ELSE NoObj]
          /\ obj' = [o \in Objs |->
               IF \E i \in kept : home[i] = o
               THEN LET i == CHOOSE j \in kept : home[j] = o
                    IN [id |-> i, client |-> rows[i], auth |-> "waiting"]
               ELSE NoObj]
          /\ \E failed \in SUBSET kept :
               client' = [c \in Clients |->
                 IF \E i \in kept : rows[i] = c
                 THEN LET i == CHOOSE j \in kept : rows[j] = c
                      IN [owner |-> home[i], paired |-> TRUE, wire |-> IF i \in failed THEN "off" ELSE "on"]
                 ELSE Fresh]
  BY DEF Restore
<1> DEFINE kept == {i \in Ids : rows[i] \in devices \ unread}
<1>3. /\ ~Up /\ thread' = [t \in Threads |-> Idle] /\ UNCHANGED <<devices, events, marks>>
  BY DEF Restore
<1>4. events' = {}
  BY <1>1, <1>3 DEF Memory, DownIsEmpty
<1>5. ASSUME NEW i \in kept PROVE i \in Ids /\ rows[i] \in Clients
  BY <1>1 DEF TypeOK
<1>6. ASSUME NEW i \in kept, NEW j \in kept PROVE /\ home[i] = home[j] => i = j
                                                  /\ rows[i] = rows[j] => i = j
  <2>1. RowIsOwn(i) /\ rows[i] \in Clients
    BY <1>1, <1>5 DEF Memory
  <2> QED
    BY <1>2, <2>1 DEF RowIsOwn
<1>7. ASSUME NEW i \in kept
      PROVE  /\ sessions'[i] = home[i] /\ home[i] \in Objs /\ rows'[i] = rows[i]
             /\ obj'[home[i]] \in Session
             /\ obj'[home[i]].id = i /\ obj'[home[i]].client = rows[i]
  <2>1. i \in Ids /\ home[i] \in Objs
    BY <1>5
  <2>2. sessions'[i] = home[i] /\ rows'[i] = rows[i]
    BY <1>2, <2>1
  <2>3. (CHOOSE j \in kept : home[j] = home[i]) = i
    BY <1>6
  <2>4. obj'[home[i]] = [id |-> i, client |-> rows[i], auth |-> "waiting"]
    BY <1>2, <2>1, <2>3
  <2> QED
    BY <1>5, <2>1, <2>2, <2>4 DEF Session
<1>8. ASSUME NEW i \in kept
      PROVE  /\ client'[rows[i]] \in Client /\ client'[rows[i]].owner = home[i]
  <2>1. PICK failed \in SUBSET kept :
           client' = [c \in Clients |->
                 IF \E k \in kept : rows[k] = c
                 THEN LET k == CHOOSE j \in kept : rows[j] = c
                      IN [owner |-> home[k], paired |-> TRUE, wire |-> IF k \in failed THEN "off" ELSE "on"]
                 ELSE Fresh]
    BY <1>2
  <2>2. (CHOOSE j \in kept : rows[j] = rows[i]) = i
    BY <1>6
  <2>3. client'[rows[i]] = [owner |-> home[i], paired |-> TRUE, wire |-> IF i \in failed THEN "off" ELSE "on"]
    BY <1>5, <2>1, <2>2
  <2> QED
    BY <1>5, <1>7, <2>3 DEF Client
<1>9. ASSUME NEW i \in Ids, i \notin kept
      PROVE  sessions'[i] = NoObj /\ rows'[i] \in {rows[i], NoRow}
  BY <1>2, <1>9
<1>10. ASSUME NEW o \in Objs, \A i \in kept : home[i] # o PROVE obj'[o] = NoObj
  BY <1>2, <1>10
<1>11. ASSUME NEW c \in Clients, \A i \in kept : rows[i] # c PROVE client'[c] = Fresh
  BY <1>2, <1>11
<1>12. Fresh \in Client /\ Fresh.owner = NoObj /\ Fresh.wire = "off" /\ Fresh' = Fresh
  BY DEF Fresh, Client
<1>13. /\ DOMAIN rows' = Ids /\ DOMAIN sessions' = Ids /\ DOMAIN obj' = Objs /\ DOMAIN client' = Clients
       /\ rows' = [i \in Ids |-> rows'[i]] /\ sessions' = [i \in Ids |-> sessions'[i]]
       /\ obj' = [o \in Objs |-> obj'[o]] /\ client' = [c \in Clients |-> client'[c]]
  BY <1>2
<1> HIDE DEF kept
<1>14. TypeOK'
  <2>1. \A i \in Ids : rows'[i] \in Clients \cup {NoClient, NoRow} /\ sessions'[i] \in Objs \cup {NoObj}
    BY <1>1, <1>5, <1>7, <1>9 DEF TypeOK
  <2>2. \A o \in Objs : obj'[o] \in Session \cup {NoObj}
    BY <1>7, <1>10
  <2>3. \A c \in Clients : client'[c] \in Client
    BY <1>8, <1>11, <1>12
  <2>4. rows' \in [Ids -> Clients \cup {NoClient, NoRow}] /\ sessions' \in [Ids -> Objs \cup {NoObj}]
    BY <1>13, <2>1
  <2>5. obj' \in [Objs -> Session \cup {NoObj}] /\ client' \in [Clients -> Client]
    BY <1>13, <2>2, <2>3
  <2>6. thread' \in [Threads -> Request \cup {Idle, Down}]
    BY <1>3
  <2> QED
    BY <1>1, <1>3, <1>4, <2>4, <2>5, <2>6 DEF TypeOK
<1>15. ASSUME NEW t \in Threads PROVE ~Busy(t)' /\ thread'[t] # Down
  BY <1>3, SessionsAssumption DEF Busy
<1>16. ASSUME NEW i \in kept
       PROVE  /\ home[i] # NoObj /\ Made(home[i])' /\ client'[rows[i]].owner = home[i]
  BY <1>7, <1>8, SessionsAssumption DEF Made
<1>17. ASSUME NEW c \in Clients PROVE ClientBelongs(c)'
  <2>1. CASE \E i \in kept : rows[i] = c
    BY <1>7, <1>16, <2>1 DEF ClientBelongs, Made
  <2>2. CASE ~ \E i \in kept : rows[i] = c
    BY <1>11, <1>12, <2>2 DEF ClientBelongs
  <2> QED
    BY <2>1, <2>2
<1>18. ASSUME NEW o \in Objs PROVE ObjectHasClient(o)'
  <2>1. CASE \E i \in kept : home[i] = o
    BY <1>7, <1>8, <2>1 DEF ObjectHasClient
  <2>2. CASE ~ \E i \in kept : home[i] = o
    BY <1>10, <2>2, SessionsAssumption DEF ObjectHasClient, Made
  <2> QED
    BY <2>1, <2>2
<1>19. ASSUME NEW i \in Ids PROVE Registered(i)' /\ RowIsOwn(i)' /\ IdentityIsSaved(i)'
                                  /\ (sessions'[i] # NoObj => rows'[i] # NoRow)
  <2>1. Registered(i)'
    BY <1>7, <1>9 DEF Registered, Made
  <2>2. RowIsOwn(i)'
    <3> SUFFICES ASSUME rows'[i] \in Clients
                 PROVE  /\ client'[rows'[i]].owner # NoObj => obj'[client'[rows'[i]].owner].id = i
                        /\ \A j \in Ids : rows'[j] = rows'[i] => j = i
      BY DEF RowIsOwn
    <3>1. \A j \in Ids : rows'[j] \in Clients => rows'[j] = rows[j]
      BY <1>7, <1>9, SessionsAssumption
    <3>2. RowIsOwn(i) /\ rows[i] \in Clients /\ rows'[i] = rows[i]
      BY <1>1, <3>1 DEF Memory
    <3>3. CASE \E k \in kept : rows[k] = rows[i]
      <4>1. PICK k \in kept : rows[k] = rows[i]
        BY <3>3
      <4>2. k = i
        BY <1>5, <3>2, <4>1 DEF RowIsOwn
      <4> QED
        BY <1>7, <1>16, <3>1, <3>2, <4>1, <4>2 DEF RowIsOwn
    <3>4. CASE ~ \E k \in kept : rows[k] = rows[i]
      BY <1>11, <1>12, <3>1, <3>2, <3>4 DEF RowIsOwn
    <3> QED
      BY <3>3, <3>4
  <2>3. IdentityIsSaved(i)'
    <3>1. CASE i \in kept
      <4>1. Current(sessions[i])' = rows'[i]
        BY <1>7, <1>16, <3>1 DEF Current
      <4> QED
        BY <4>1 DEF IdentityIsSaved
    <3>2. CASE i \notin kept
      BY <1>9, <3>2 DEF IdentityIsSaved
    <3> QED
      BY <3>1, <3>2
  <2>4. sessions'[i] # NoObj => rows'[i] # NoRow
    BY <1>5, <1>7, <1>9, SessionsAssumption
  <2> QED
    BY <2>1, <2>2, <2>3, <2>4
<1>20. Memory'
  <2>1. DownIsEmpty'
    BY <1>15 DEF DownIsEmpty, Up
  <2> QED
    BY <1>4, <1>15, <1>17, <1>18, <1>19, <2>1 DEF Memory
<1>21. RequestsInv'
  BY <1>15 DEF RequestsInv, Undisturbed
<1>22. RegisteredIsStored'
  BY <1>19 DEF RegisteredIsStored
<1>23. LiveIsCurrent'
  <2> SUFFICES ASSUME NEW c \in Clients, client'[c].wire # "off"
               PROVE  /\ sessions'[obj'[client'[c].owner].id] = client'[c].owner
                      /\ client'[c].owner # NoObj /\ obj'[client'[c].owner].client = c
    BY DEF LiveIsCurrent, Current
  <2>1. PICK i \in kept : rows[i] = c
    BY <1>11, <1>12
  <2> QED
    BY <1>7, <1>16, <2>1
<1> QED
  BY <1>14, <1>19, <1>20, <1>21, <1>22, <1>23 DEF IInv

------------------------------------------------------------------------------
LEMMA InitHolds == Init => IInv
<1> SUFFICES ASSUME Init PROVE IInv
  OBVIOUS
<1>1. /\ rows = [i \in Ids |-> NoRow] /\ devices = {} /\ sessions = [i \in Ids |-> NoObj]
      /\ obj = [o \in Objs |-> NoObj] /\ client = [c \in Clients |-> Fresh] /\ events = {}
      /\ thread = [t \in Threads |-> Idle] /\ marks = [i \in Ids |-> {}]
  BY DEF Init
<1>2. Fresh \in Client /\ Fresh.owner = NoObj /\ Fresh.wire = "off"
  BY DEF Fresh, Client
<1>3. TypeOK
  BY <1>1, <1>2 DEF TypeOK
<1>4. \A t \in Threads : ~Busy(t)
  BY <1>1 DEF Busy
<1>5. \A c \in Clients : client[c] = Fresh /\ client[c].owner = NoObj /\ client[c].wire = "off"
  BY <1>1, <1>2
<1>6. \A o \in Objs : ~Made(o)
  BY <1>1, SessionsAssumption DEF Made
<1>7. \A i \in Ids : Registered(i) /\ RowIsOwn(i)
  BY <1>1, SessionsAssumption DEF Registered, RowIsOwn
<1>8. DownIsEmpty
  BY <1>1, SessionsAssumption DEF DownIsEmpty, Up
<1>9. Memory
  BY <1>1, <1>4, <1>5, <1>6, <1>7, <1>8 DEF Memory, ClientBelongs, ObjectHasClient
<1>10. RequestsInv
  BY <1>4 DEF RequestsInv, Undisturbed
<1>11. RegisteredIsStored /\ LiveIsCurrent /\ \A i \in Ids : IdentityIsSaved(i)
  BY <1>1, <1>5 DEF RegisteredIsStored, LiveIsCurrent, IdentityIsSaved
<1> QED
  BY <1>3, <1>9, <1>10, <1>11 DEF IInv

LEMMA StutterStep == IInv /\ UNCHANGED vars => IInv'
<1> SUFFICES ASSUME IInv, UNCHANGED vars PROVE IInv'
  OBVIOUS
<1>1. UNCHANGED <<rows, devices, sessions, obj, client, events, thread, marks>>
  BY DEF vars, volatile
<1>2. TypeOK'
  BY <1>1 DEF IInv, TypeOK
<1>3. Memory'
  BY <1>1, SMTT(30), ZenonT(60) DEF IInv, Memory, ClientBelongs, ObjectHasClient, Registered, RowIsOwn, EventBelongs, Made,
              Fresh, RequestIsSound, HasObject, Stages, Busy, DownIsEmpty, Up
<1>4. RequestsInv'
  BY <1>1 DEF IInv, RequestsInv, Undisturbed, Uncrossed, FindsSession, Silenced, Holds, HasObject,
              Pristine, Current, Busy
<1>5. RegisteredIsStored' /\ LiveIsCurrent'
  BY <1>1 DEF IInv, RegisteredIsStored, LiveIsCurrent, Pristine, Current
<1>6. \A i \in Ids : IdentityIsSaved(i)'
  BY <1>1 DEF IInv, IdentityIsSaved, WillStore, Pristine, Current
<1> QED
  BY <1>2, <1>3, <1>4, <1>5, <1>6 DEF IInv

LEMMA NextStep == IInv /\ [Next]_vars => IInv'
<1> SUFFICES ASSUME IInv, [Next]_vars PROVE IInv'
  OBVIOUS
<1>1. ASSUME NEW t \in Threads, NEW i \in Ids,
             BeginCreate(t, i) \/ BeginDelete(t, i) \/ BeginLogout(t, i) \/ BeginPair(t, i)
      PROVE  IInv'
  BY <1>1, BeginsStep DEF BeginCreate, BeginDelete, BeginLogout, BeginPair
<1>2. ASSUME NEW t \in Threads, Proceeds(t) PROVE IInv'
  <2>1. CASE Insert(t) \/ Register(t) \/ StartPairing(t) \/ Replaces(t)
    BY <2>1, InsertStep, RegisterStep, StartPairingStep, ReplacesStep
  <2>2. CASE LeaveAndDelete(t) \/ Unregister(t) \/ DeleteRow(t)
    BY <2>2, LeaveAndDeleteStep, UnregisterStep, DeleteRowStep
  <2>3. CASE LeaveAndStay(t) \/ ClearJid(t) \/ LoggedOutByRequest(t)
    BY <2>3, LeaveAndStayStep, ClearJidStep, LoggedOutStep
  <2>4. CASE LogoutDisconnects(t) \/ PairDisconnects(t)
    BY <2>4, DisconnectsStep DEF LogoutDisconnects, PairDisconnects, Doing
  <2> QED
    BY <1>2, <2>1, <2>2, <2>3, <2>4 DEF Proceeds
<1>3. ASSUME NEW c \in Clients, Network(c) PROVE IInv'
  BY <1>3, ScanStep, NetworkStep DEF Network
<1>4. ASSUME NEW e \in events, Handles(e) PROVE IInv'
  BY <1>4, ReadIdentityStep, StoreIdentityStep, SetAuthStep DEF Handles
<1>5. CASE Crash \/ Restore
  BY <1>5, CrashStep, RestoreStep
<1>6. CASE UNCHANGED vars
  BY <1>6, StutterStep
<1> QED
  BY <1>1, <1>2, <1>3, <1>4, <1>5, <1>6 DEF Next, Requests

LEMMA Invariance == Spec => []IInv
BY InitHolds, NextStep, PTL DEF Spec

------------------------------------------------------------------------------
(* Every variable has its type: in particular every Session object has a   *)
(* client from the moment it is registered (Create, Restore).              *)
THEOREM SessionTypes == Spec => []TypeOK
<1>1. IInv => TypeOK
  BY DEF IInv
<1> QED
  BY <1>1, Invariance, PTL

(* A registered session has its row, unless conflicting requests crossed;  *)
(* and the row of an open session holds its identity once the events of    *)
(* its client are handled, unless, besides, a statement failed or the      *)
(* identity of a replaced client was stored late (Create, Delete, Logout,  *)
(* handleEvent, Restore).                                                  *)
THEOREM StoreIsKeptUp == Spec => []StoreKeepsUp
<1>1. ASSUME IInv, NEW i \in Ids, sessions[i] # NoObj, Quiet(i), Pristine(i),
             client[obj[sessions[i]].client].paired
      PROVE  rows[i] = obj[sessions[i]].client
  <2>1. Current(sessions[i]) = obj[sessions[i]].client
    BY <1>1 DEF Current
  <2>2. ASSUME NEW e \in events, client[e.of].owner = sessions[i] PROVE FALSE
    BY <1>1, <2>2 DEF IInv, Memory, Registered, Quiet, Owner
  <2>3. ~WillStore(sessions[i], Current(sessions[i]))
    BY <2>2 DEF WillStore
  <2> QED
    BY <1>1, <2>1, <2>3 DEF IInv, IdentityIsSaved
<1>2. IInv => StoreKeepsUp
  BY <1>1 DEF IInv, StoreKeepsUp, OpenIsStored
<1> QED
  BY <1>2, Invariance, PTL

(* A client that is connected is the one its registered session uses, even *)
(* while a request replaces or deletes it (replaceClient, Delete, Logout,  *)
(* Pair).  Sessions with a mark are exempt: requests for one session that  *)
(* crossed, a logout that WhatsApp did not hear of, and an identity that   *)
(* was not stored or stored late.                                          *)
THEOREM LiveClientsAreCurrent == Spec => []LiveIsCurrent
<1>1. IInv => LiveIsCurrent
  BY DEF IInv
<1> QED
  BY <1>1, Invariance, PTL

(* Only Create adds a row, without an identity: the late event of a        *)
(* deleted session updates no row (setJID), and Restore adds none.         *)
THEOREM DeletedNeverReturns == Spec => DeletedStaysDeleted
<1> DEFINE Step == \A i \in Ids : rows[i] = NoRow /\ rows'[i] # NoRow => rows'[i] = NoClient
<1>1. ASSUME TypeOK, Next PROVE Step
  <2>1. ASSUME NEW t \in Threads, Requests(t) \/ Proceeds(t) PROVE Step
    <3>1. CASE UNCHANGED rows
      BY <3>1
    <3>2. CASE Insert(t) \/ DeleteRow(t) \/ ClearJid(t)
      BY <1>1, <3>2 DEF Insert, DeleteRow, ClearJid, SetJid, TypeOK
    <3>3. UNCHANGED rows \/ Insert(t) \/ DeleteRow(t) \/ ClearJid(t)
      BY <2>1 DEF Requests, Proceeds, BeginCreate, BeginDelete, BeginLogout, BeginPair, Begins, Register,
                  StartPairing, LeaveAndDelete, Unregister, LeaveAndStay, LogoutDisconnects,
                  PairDisconnects, Disconnects, Replaces, LoggedOutByRequest
    <3> QED
      BY <3>1, <3>2, <3>3
  <2>2. ASSUME NEW c \in Clients, Network(c) PROVE Step
    BY <2>2 DEF Network, Scan, Connected, QRCode, QRTimeout, Removed
  <2>3. ASSUME NEW e \in events, Handles(e) PROVE Step
    BY <1>1, <2>3 DEF Handles, ReadIdentity, StoreIdentity, SetAuth, SetJid, TypeOK
  <2>4. CASE Crash
    BY <2>4 DEF Crash
  <2>5. CASE Restore
    <3>1. \E kept \in SUBSET Ids : rows' = [i \in Ids |-> IF i \in kept THEN rows[i] ELSE NoRow]
      BY <2>5 DEF Restore
    <3> QED
      BY <3>1
  <2> QED
    BY <1>1, <2>1, <2>2, <2>3, <2>4, <2>5 DEF Next
<1>2. IInv /\ [Next]_vars => [Step]_vars
  BY <1>1 DEF IInv
<1> QED
  BY <1>2, Invariance, PTL DEF Spec, DeletedStaysDeleted
===============================================================================
