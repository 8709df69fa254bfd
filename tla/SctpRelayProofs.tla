----------------------------- MODULE SctpRelayProofs -----------------------------
(***************************************************************************)
(* Proofs about SctpRelay, for every number of relays, of connection       *)
(* objects and of calls of ConfigureRelays: the types, what the map says   *)
(* of its connections, that none is left to run unless it must, and that   *)
(* the objects implement RelayLinks.                                       *)
(***************************************************************************)
EXTENDS SctpRelay, TLAPS

(* The object may still call OnOpen.                                       *)
Opening(o) == o.setup \/ o.wire = "dialling" \/ o.onopen = "called"

(* How far a connection has come: the channel is made after the set-up,    *)
(* opens before OnOpen is called, and the state is open once OnOpen has    *)
(* set it.  After stopCh is closed a channel can be up only if a teardown  *)
(* came before it was made.                                                *)
Ordered(o) ==
  /\ o.setup => o.wire = "none" /\ o.onopen = "none"
  /\ o.onopen # "none" => o.wire \in {"open", "closed"}
  /\ o.state = "open" => o.onopen \in {"reports", "done"}
  /\ o.stopped /\ (o.setup \/ o.wire \in {"dialling", "open"}) => o.bare

(* What the map may count on: nobody tears the connection down; it may     *)
(* still open or has opened, and then its channel is up or OnClose called. *)
Running(o) ==
  /\ o.state \in {"connecting", "open"}
  /\ o.down = 0 /\ ~o.stopped
  /\ o.state = "connecting" => Opening(o)
  /\ o.onopen # "none" => o.wire = "open" \/ o.onclose

(* An object without an id is one that nobody has made.                    *)
MadeHasId == \A c \in Conns : conn[c].id = NoRelay => conn[c] = Unused

(* Each call of ConfigureRelays looks an id up or dials it, once at most.  *)
CallsBound == \A r \in Relays : lookups[r] + dials[r] <= configured

MapNamesIds == \A r \in Relays : connections[r] # NoConn => conn[connections[r]].id = r

(* Cleanup leaves nothing in the map but what is inserted after it.        *)
MappedRuns ==
  \A c \in Conns : Mapped(c) => Running(conn[c]) /\ (cleaned => conn[c].late)

(* The inductive invariant.                                                *)
IInv ==
  /\ TypeOK
  /\ CallsBound
  /\ MadeHasId
  /\ \A c \in Conns : Ordered(conn[c])
  /\ MapNamesIds
  /\ MappedRuns
  /\ LostIsTornDown

-----------------------------------------------------------------------------
(* The initial states.                                                     *)

LEMMA UnusedFacts == Unused \in Connection /\ Ordered(Unused) /\ Unused.id = NoRelay
BY DEF Unused, Connection, Ordered

LEMMA InvInit == Init => IInv
<1> SUFFICES ASSUME Init PROVE IInv
  OBVIOUS
<1>1. \A c \in Conns : conn[c] = Unused
  BY DEF Init
<1>2. \A c \in Conns : ~Mapped(c)
  BY <1>1, UnusedFacts DEF Mapped
<1>3. TypeOK
  <2>1. conn \in [Conns -> Connection]
    BY UnusedFacts DEF Init
  <2>2. 0 \in 0 .. Configures
    BY SctpAssumption
  <2>3. /\ connections \in [Relays -> Conns \cup {NoConn}]
        /\ lost \in [Conns -> {"no", "displaced", "unmapped"}]
        /\ configured \in 0 .. Configures
        /\ lookups \in [Relays -> 0 .. Configures] /\ dials \in [Relays -> 0 .. Configures]
    BY <2>2, Zenon DEF Init
  <2>4. QED
    BY <2>1, <2>3 DEF TypeOK, Init
<1>4. CallsBound
  BY DEF Init, CallsBound
<1>5. MapNamesIds
  BY DEF Init, MapNamesIds
<1>6. MadeHasId /\ \A c \in Conns : Ordered(conn[c])
  BY <1>1, UnusedFacts DEF MadeHasId
<1>7. MappedRuns
  BY <1>2 DEF MappedRuns
<1>8. LostIsTornDown
  BY <1>1, UnusedFacts DEF LostIsTornDown
<1>9. QED
  BY <1>3, <1>4, <1>5, <1>6, <1>7, <1>8 DEF IInv

-----------------------------------------------------------------------------
(* The steps that insert nothing.                                          *)

(* Objects change and keep their ids; those that stay in the map remain    *)
(* what it may count on, those that leave it are torn down, or taken out   *)
(* by another of their id, itself torn down.                               *)
LEMMA ShrinkStep ==
  ASSUME IInv, UNCHANGED <<calls, panicked>>,
         cleaned' \in BOOLEAN, cleaned' => cleaned \/ \A c \in Conns : ~Mapped(c)',
         conn' \in [Conns -> Connection],
         \A c \in Conns : /\ conn'[c].id = conn[c].id /\ conn'[c].late = conn[c].late
                          /\ conn[c] = Unused => conn'[c] = Unused
                          /\ Ordered(conn'[c])
                          /\ TornDown(conn[c]) => TornDown(conn'[c]),
         connections' \in [Relays -> Conns \cup {NoConn}],
         \A r \in Relays : connections'[r] \in {connections[r], NoConn},
         \A c \in Conns : Mapped(c) /\ Mapped(c)' => Running(conn'[c]),
         lost' \in [Conns -> {"no", "displaced", "unmapped"}],
         \A c \in Conns : ~Mapped(c) => lost'[c] = lost[c] \/ TornDown(conn'[c]),
         \A c \in Conns : Mapped(c) /\ ~Mapped(c)' =>
           \/ TornDown(conn'[c])
           \/ lost'[c] = "unmapped" /\ \E d \in Siblings(c) : ~Mapped(d)' /\ TornDown(conn'[d])
  PROVE  IInv'
<1>1. /\ conn \in [Conns -> Connection] /\ connections \in [Relays -> Conns \cup {NoConn}]
      /\ NoConn \notin Conns
  BY SctpAssumption DEF IInv, TypeOK
<1>2. TypeOK' /\ CallsBound'
  BY DEF IInv, TypeOK, CallsBound, calls
<1>3. MadeHasId'
  BY DEF IInv, MadeHasId
<1>4. MapNamesIds'
  BY <1>1 DEF IInv, MapNamesIds
<1>5. \A c \in Conns : Mapped(c)' => Mapped(c)
  BY <1>1 DEF Mapped, Connection
<1>6. MappedRuns'
  BY <1>5 DEF IInv, MappedRuns
<1>7. \A c \in Conns : Siblings(c)' = Siblings(c)
  BY DEF Siblings
<1>8. LostIsTornDown'
  <2> SUFFICES ASSUME NEW c \in Conns, conn'[c].id # NoRelay, ~Mapped(c)', ~TornDown(conn'[c])
               PROVE  \/ lost'[c] = "displaced" /\ Siblings(c)' # {}
                      \/ /\ lost'[c] = "unmapped"
                         /\ \E d \in Siblings(c)' : ~Mapped(d)' /\ TornDown(conn'[d])
    BY DEF LostIsTornDown
  <2>1. CASE Mapped(c)
    BY <2>1, <1>7
  <2>2. CASE ~Mapped(c)
    <3>1. /\ lost'[c] = lost[c]
          /\ \/ lost[c] = "displaced" /\ Siblings(c) # {}
             \/ lost[c] = "unmapped" /\ \E d \in Siblings(c) : ~Mapped(d) /\ TornDown(conn[d])
      BY <2>2 DEF IInv, LostIsTornDown
    <3>2. \A d \in Siblings(c) : ~Mapped(d) /\ TornDown(conn[d]) => ~Mapped(d)' /\ TornDown(conn'[d])
      BY <1>5 DEF Siblings
    <3>3. QED
      BY <3>1, <3>2, <1>7
  <2>3. QED
    BY <2>1, <2>2
<1>9. QED
  BY <1>2, <1>3, <1>4, <1>6, <1>8 DEF IInv

(* One object changes, and stays where it is or leaves the map, torn down.*)
LEMMA ObjectStep ==
  ASSUME IInv, NEW c \in Conns, NEW o \in Connection,
         Update(c, o), UNCHANGED <<calls, cleaned, panicked>>,
         o.id = conn[c].id, o.id # NoRelay, o.late = conn[c].late,
         Ordered(o), TornDown(conn[c]) => TornDown(o),
         \/ UNCHANGED <<connections, lost>> /\ (Mapped(c) => Running(o))
         \/ /\ Unmap(o.id) /\ TornDown(o)
            /\ lost' = [Loses(connections[o.id], "unmapped") EXCEPT ![c] = "no"]
  PROVE  IInv'
<1>1. /\ conn \in [Conns -> Connection] /\ connections \in [Relays -> Conns \cup {NoConn}]
      /\ o.id \in Relays /\ NoConn \notin Conns
  BY SctpAssumption DEF IInv, TypeOK, Connection
<1>2. /\ conn' \in [Conns -> Connection] /\ conn'[c] = o
      /\ \A d \in Conns : d # c => conn'[d] = conn[d]
      /\ \A d \in Conns : conn'[d].id = conn[d].id
  BY <1>1 DEF Update
<1>3. /\ connections' \in [Relays -> Conns \cup {NoConn}]
      /\ \A r \in Relays : connections'[r] \in {connections[r], NoConn}
      /\ \A r \in Relays : connections'[r] # connections[r] => r = o.id /\ TornDown(o)
  BY <1>1 DEF Unmap
<1>4. \A d \in Conns : /\ conn'[d].late = conn[d].late
                       /\ conn[d] = Unused => conn'[d] = Unused
                       /\ Ordered(conn'[d])
                       /\ TornDown(conn[d]) => TornDown(conn'[d])
  BY <1>2, UnusedFacts DEF IInv
<1>5. ASSUME NEW d \in Conns, Mapped(d), Mapped(d)' PROVE Running(conn'[d])
  <2>1. CASE d # c
    BY <2>1, <1>2, <1>5 DEF IInv, MappedRuns
  <2>2. CASE d = c
    <3>1. ~Unmap(o.id)
      BY <1>1, <1>2, <1>5, <2>2 DEF Mapped, Unmap
    <3>2. QED
      BY <3>1, <2>2, <1>2, <1>5
  <2>3. QED
    BY <2>1, <2>2
<1>6. ASSUME NEW d \in Conns, Mapped(d), ~Mapped(d)'
      PROVE  \/ TornDown(conn'[d])
             \/ lost'[d] = "unmapped" /\ \E e \in Siblings(d) : ~Mapped(e)' /\ TornDown(conn'[e])
  <2>1. conn[d].id = o.id /\ connections[o.id] = d /\ TornDown(o) /\ connections'[o.id] = NoConn
    BY <1>1, <1>2, <1>3, <1>6 DEF Mapped, Connection
  <2>2. CASE d = c
    BY <2>1, <2>2, <1>2
  <2>3. CASE d # c
    <3>1. connections[o.id] # connections'[o.id]
      BY <2>1, <1>1
    <3>2. lost' = [Loses(connections[o.id], "unmapped") EXCEPT ![c] = "no"]
      BY <3>1
    <3>3. lost'[d] = "unmapped"
      BY <3>2, <2>1, <2>3 DEF Loses
    <3>4. c \in Siblings(d) /\ ~Mapped(c)' /\ TornDown(conn'[c])
      BY <2>1, <2>3, <1>1, <1>2 DEF Siblings, Mapped
    <3>5. QED
      BY <3>3, <3>4
  <2>4. QED
    BY <2>2, <2>3
<1>7. lost' \in [Conns -> {"no", "displaced", "unmapped"}]
  BY DEF IInv, TypeOK, Loses
<1>8. ASSUME NEW d \in Conns, ~Mapped(d) PROVE lost'[d] = lost[d] \/ TornDown(conn'[d])
  <2>1. CASE UNCHANGED lost
    BY <2>1
  <2>2. CASE TornDown(o) /\ lost' = [Loses(connections[o.id], "unmapped") EXCEPT ![c] = "no"]
    <3>1. connections[o.id] # d
      BY <1>1, <1>8 DEF IInv, MapNamesIds, Mapped
    <3>2. QED
      BY <3>1, <2>2, <1>2 DEF Loses
  <2>3. QED
    BY <2>1, <2>2
<1>9. cleaned' \in BOOLEAN /\ (cleaned' => cleaned)
  BY DEF IInv, TypeOK
<1>10. QED
  BY <1>2, <1>3, <1>4, <1>5, <1>6, <1>9, <1>7, <1>8, ShrinkStep

(* A connection fails: it is out of the map, or leaves it now.             *)
LEMMA FailStep ==
  ASSUME IInv, NEW c \in Conns, NEW o \in Connection,
         FailConnection(c, o), UNCHANGED <<calls, cleaned, panicked>>,
         o.id = conn[c].id, o.id # NoRelay, o.late = conn[c].late,
         o.state = conn[c].state, o.stopped = conn[c].stopped, o.down = conn[c].down,
         Ordered(o)
  PROVE  IInv'
<1>1. CASE o.state = "failed"
  <2>1. ~Mapped(c)
    BY <1>1 DEF IInv, MappedRuns, Running
  <2>2. Update(c, o) /\ UNCHANGED <<connections, lost>>
    BY <1>1 DEF FailConnection
  <2>3. TornDown(conn[c]) => TornDown(o)
    BY DEF TornDown
  <2>4. QED
    BY <2>1, <2>2, <2>3, ObjectStep
<1>2. CASE o.state # "failed"
  <2> DEFINE p == [o EXCEPT !.state = "failed", !.down = @ + 1]
  <2>1. p \in Connection /\ p.id = o.id /\ p.late = o.late /\ p.down > 0
    <3>1. o.down \in Nat
      BY DEF Connection
    <3>2. p.id = o.id /\ p.late = o.late /\ p.down = o.down + 1
      BY DEF Connection
    <3>3. p \in Connection
      <4>1. o.down + 1 \in Nat
        BY <3>1
      <4>2. \A n \in Nat : [o EXCEPT !.state = "failed", !.down = n] \in Connection
        BY DEF Connection
      <4>3. QED
        BY <4>1, <4>2, Zenon
    <3>4. QED
      BY <3>1, <3>2, <3>3
  <2>2. Ordered(p)
    BY DEF Connection, Ordered
  <2>3. /\ Update(c, p) /\ Unmap(p.id)
        /\ lost' = [Loses(connections[p.id], "unmapped") EXCEPT ![c] = "no"]
    BY <1>2, <2>1 DEF FailConnection
  <2> HIDE DEF p
  <2>4. TornDown(p)
    BY <2>1 DEF TornDown
  <2>5. QED
    BY <2>1, <2>2, <2>3, <2>4, ObjectStep
<1>3. QED
  BY <1>1, <1>2

(* An object that takes a step of its own has been made.                   *)
LEMMA MadeFacts ==
  ASSUME IInv, NEW c \in Conns, conn[c] # Unused
  PROVE  /\ conn[c] \in Connection /\ conn[c].id # NoRelay /\ conn[c].id \in Relays
         /\ Ordered(conn[c])
         /\ Mapped(c) => Running(conn[c])
BY DEF IInv, TypeOK, MadeHasId, MappedRuns, Connection

(* A step of one object that the map has no part in.                       *)
LEMMA OwnStep ==
  ASSUME IInv, NEW c \in Conns, conn[c] # Unused, NEW o \in Connection,
         Update(c, o), UNCHANGED <<connections, lost, calls, cleaned, panicked>>,
         o.id = conn[c].id, o.late = conn[c].late,
         Ordered(o), Running(conn[c]) => Running(o), TornDown(conn[c]) => TornDown(o)
  PROVE  IInv'
BY MadeFacts, ObjectStep

(* The steps of one object, one lemma each.                                *)
LEMMA DialledInv == ASSUME IInv, NEW c \in Conns, Dialled(c) PROVE IInv'
<1> DEFINE o == [conn[c] EXCEPT !.setup = FALSE, !.wire = "dialling", !.timer = "armed"]
<1>1. conn[c] # Unused
  BY DEF Dialled, Unused
<1>2. conn[c] \in Connection /\ Ordered(conn[c])
  BY <1>1, MadeFacts
<1>3. o \in Connection /\ o.id = conn[c].id /\ o.late = conn[c].late
  BY <1>2 DEF Connection
<1>4. TornDown(conn[c]) => TornDown(o)
  BY <1>2 DEF Dialled, Connection, TornDown
<1>5. Ordered(o) /\ (Running(conn[c]) => Running(o))
  BY <1>2 DEF Dialled, Connection, Ordered, Running, Opening
<1>6. Update(c, o) /\ UNCHANGED <<connections, lost, calls, cleaned, panicked>>
  BY DEF Dialled
<1> HIDE DEF o
<1>7. QED
  BY <1>1, <1>3, <1>4, <1>5, <1>6, OwnStep

LEMMA TimerFiresInv == ASSUME IInv, NEW c \in Conns, TimerFires(c) PROVE IInv'
<1> DEFINE o == [conn[c] EXCEPT !.timer = IF conn[c].state = "connecting" THEN "fired" ELSE "off"]
<1>1. conn[c] # Unused
  BY DEF TimerFires, Unused
<1>2. conn[c] \in Connection /\ Ordered(conn[c])
  BY <1>1, MadeFacts
<1>3. o \in Connection /\ o.id = conn[c].id /\ o.late = conn[c].late
  BY <1>2 DEF Connection
<1>4. TornDown(conn[c]) => TornDown(o)
  BY <1>2 DEF TimerFires, Connection, TornDown
<1>5. Ordered(o) /\ (Running(conn[c]) => Running(o))
  BY <1>2 DEF TimerFires, Connection, Ordered, Running, Opening
<1>6. Update(c, o) /\ UNCHANGED <<connections, lost, calls, cleaned, panicked>>
  BY DEF TimerFires
<1> HIDE DEF o
<1>7. QED
  BY <1>1, <1>3, <1>4, <1>5, <1>6, OwnStep

LEMMA TimerStopsInv == ASSUME IInv, NEW c \in Conns, TimerStops(c) PROVE IInv'
<1> DEFINE o == [conn[c] EXCEPT !.timer = "off"]
<1>1. conn[c] # Unused
  BY DEF TimerStops, Unused
<1>2. conn[c] \in Connection /\ Ordered(conn[c])
  BY <1>1, MadeFacts
<1>3. o \in Connection /\ o.id = conn[c].id /\ o.late = conn[c].late
  BY <1>2 DEF Connection
<1>4. TornDown(conn[c]) => TornDown(o)
  BY <1>2 DEF TimerStops, Connection, TornDown
<1>5. Ordered(o) /\ (Running(conn[c]) => Running(o))
  BY <1>2 DEF TimerStops, Connection, Ordered, Running, Opening
<1>6. Update(c, o) /\ UNCHANGED <<connections, lost, calls, cleaned, panicked>>
  BY DEF TimerStops
<1> HIDE DEF o
<1>7. QED
  BY <1>1, <1>3, <1>4, <1>5, <1>6, OwnStep

LEMMA KeepaliveEndsInv == ASSUME IInv, NEW c \in Conns, KeepaliveEnds(c) PROVE IInv'
<1> DEFINE o == [conn[c] EXCEPT !.runs = FALSE]
<1>1. conn[c] # Unused
  BY DEF KeepaliveEnds, Unused
<1>2. conn[c] \in Connection /\ Ordered(conn[c])
  BY <1>1, MadeFacts
<1>3. o \in Connection /\ o.id = conn[c].id /\ o.late = conn[c].late
  BY <1>2 DEF Connection
<1>4. TornDown(conn[c]) => TornDown(o)
  BY <1>2 DEF KeepaliveEnds, Connection, TornDown
<1>5. Ordered(o) /\ (Running(conn[c]) => Running(o))
  BY <1>2 DEF KeepaliveEnds, Connection, Ordered, Running, Opening
<1>6. Update(c, o) /\ UNCHANGED <<connections, lost, calls, cleaned, panicked>>
  BY DEF KeepaliveEnds
<1> HIDE DEF o
<1>7. QED
  BY <1>1, <1>3, <1>4, <1>5, <1>6, OwnStep

LEMMA WireOpensInv == ASSUME IInv, NEW c \in Conns, WireOpens(c) PROVE IInv'
<1> DEFINE o == [conn[c] EXCEPT !.wire = "open", !.onopen = "called"]
<1>1. conn[c] # Unused
  BY DEF WireOpens, Unused
<1>2. conn[c] \in Connection /\ Ordered(conn[c])
  BY <1>1, MadeFacts
<1>3. o \in Connection /\ o.id = conn[c].id /\ o.late = conn[c].late
  BY <1>2 DEF Connection
<1>4. TornDown(conn[c]) => TornDown(o)
  BY <1>2 DEF WireOpens, Connection, TornDown
<1>5. Ordered(o) /\ (Running(conn[c]) => Running(o))
  BY <1>2 DEF WireOpens, Connection, Ordered, Running, Opening
<1>6. Update(c, o) /\ UNCHANGED <<connections, lost, calls, cleaned, panicked>>
  BY DEF WireOpens
<1> HIDE DEF o
<1>7. QED
  BY <1>1, <1>3, <1>4, <1>5, <1>6, OwnStep

LEMMA WireClosesInv == ASSUME IInv, NEW c \in Conns, WireCloses(c) PROVE IInv'
<1> DEFINE o == [conn[c] EXCEPT !.wire = "closed", !.onclose = TRUE]
<1>1. conn[c] # Unused
  BY DEF WireCloses, Unused
<1>2. conn[c] \in Connection /\ Ordered(conn[c])
  BY <1>1, MadeFacts
<1>3. o \in Connection /\ o.id = conn[c].id /\ o.late = conn[c].late
  BY <1>2 DEF Connection
<1>4. TornDown(conn[c]) => TornDown(o)
  BY <1>2 DEF WireCloses, Connection, TornDown
<1>5. Ordered(o) /\ (Running(conn[c]) => Running(o))
  BY <1>2 DEF WireCloses, Connection, Ordered, Running, Opening
<1>6. Update(c, o) /\ UNCHANGED <<connections, lost, calls, cleaned, panicked>>
  BY DEF WireCloses
<1> HIDE DEF o
<1>7. QED
  BY <1>1, <1>3, <1>4, <1>5, <1>6, OwnStep

LEMMA OnOpenInv == ASSUME IInv, NEW c \in Conns, OnOpen(c) PROVE IInv'
<1> DEFINE o == [conn[c] EXCEPT !.onopen = "reports", !.state = "open", !.runs = TRUE]
<1>1. conn[c] # Unused
  BY DEF OnOpen, Unused
<1>2. conn[c] \in Connection /\ Ordered(conn[c])
  BY <1>1, MadeFacts
<1>3. o \in Connection /\ o.id = conn[c].id /\ o.late = conn[c].late
  BY <1>2 DEF Connection
<1>4. TornDown(conn[c]) => TornDown(o)
  BY <1>2 DEF OnOpen, Connection, TornDown
<1>5. Ordered(o) /\ (Running(conn[c]) => Running(o))
  BY <1>2 DEF OnOpen, Connection, Ordered, Running, Opening
<1>6. Update(c, o) /\ UNCHANGED <<connections, lost, calls, cleaned, panicked>>
  BY DEF OnOpen
<1> HIDE DEF o
<1>7. QED
  BY <1>1, <1>3, <1>4, <1>5, <1>6, OwnStep

LEMMA OnConnectedInv == ASSUME IInv, NEW c \in Conns, OnConnected(c) PROVE IInv'
<1> DEFINE o == [conn[c] EXCEPT !.onopen = "done"]
<1>1. conn[c] # Unused
  BY DEF OnConnected, Unused
<1>2. conn[c] \in Connection /\ Ordered(conn[c])
  BY <1>1, MadeFacts
<1>3. o \in Connection /\ o.id = conn[c].id /\ o.late = conn[c].late
  BY <1>2 DEF Connection
<1>4. TornDown(conn[c]) => TornDown(o)
  BY <1>2 DEF OnConnected, Connection, TornDown
<1>5. Ordered(o) /\ (Running(conn[c]) => Running(o))
  BY <1>2 DEF OnConnected, Connection, Ordered, Running, Opening
<1>6. Update(c, o) /\ UNCHANGED <<connections, lost, calls, cleaned, panicked>>
  BY DEF OnConnected
<1> HIDE DEF o
<1>7. QED
  BY <1>1, <1>3, <1>4, <1>5, <1>6, OwnStep

LEMMA ReleasedFacts ==
  ASSUME NEW p \in Connection
  PROVE  Released(p) \in Connection /\ Released(p).id = p.id /\ Released(p).late = p.late
<1>1. \A w \in {"none", "dialling", "open", "closed"}, a, b \in BOOLEAN :
        [p EXCEPT !.wire = w, !.onclose = a, !.bare = b] \in Connection
  BY DEF Connection
<1>2. /\ (IF p.wire \in {"dialling", "open"} THEN "closed" ELSE p.wire)
           \in {"none", "dialling", "open", "closed"}
      /\ (p.onclose \/ p.wire = "open") \in BOOLEAN
      /\ (p.bare \/ p.setup) \in BOOLEAN
  BY DEF Connection
<1>3. Released(p) \in Connection
  BY <1>1, <1>2, Zenon DEF Released
<1>4. QED
  BY <1>3 DEF Connection, Released

LEMMA TeardownClosesInv == ASSUME IInv, NEW c \in Conns, TeardownCloses(c) PROVE IInv'
<1> DEFINE p == [conn[c] EXCEPT !.down = @ - 1, !.stopped = TRUE, !.raced = conn[c].down > 1]
           o == Released(p)
<1>1. conn[c] # Unused
  BY DEF TeardownCloses, Unused
<1>2. conn[c] \in Connection /\ Ordered(conn[c])
  BY <1>1, MadeFacts
<1>3. o \in Connection /\ o.id = conn[c].id /\ o.late = conn[c].late
  <2>1. conn[c].down - 1 \in Nat /\ (conn[c].down > 1) \in BOOLEAN
    BY <1>2 DEF TeardownCloses, Connection
  <2>2. \A n \in Nat, b \in BOOLEAN : [conn[c] EXCEPT !.down = n, !.stopped = TRUE, !.raced = b] \in Connection
    BY <1>2 DEF Connection
  <2>3. p \in Connection
    BY <2>1, <2>2, Zenon
  <2>4. p.id = conn[c].id /\ p.late = conn[c].late
    BY <1>2 DEF Connection
  <2> HIDE DEF p
  <2>5. QED
    BY <2>3, <2>4, ReleasedFacts
<1>4. TornDown(conn[c]) => TornDown(o)
  BY <1>2 DEF TeardownCloses, Connection, TornDown, Released
<1>5. Ordered(o) /\ (Running(conn[c]) => Running(o))
  BY <1>2 DEF TeardownCloses, Connection, Ordered, Running, Opening, Released
<1>6. Update(c, o) /\ UNCHANGED <<connections, lost, calls, cleaned, panicked>>
  BY DEF TeardownCloses
<1> HIDE DEF o
<1>7. QED
  BY <1>1, <1>3, <1>4, <1>5, <1>6, OwnStep

LEMMA TeardownSkipsInv == ASSUME IInv, NEW c \in Conns, TeardownSkips(c) PROVE IInv'
<1> DEFINE p == [conn[c] EXCEPT !.down = @ - 1, !.raced = @ /\ conn[c].down > 1]
           o == Released(p)
<1>1. conn[c] # Unused
  BY DEF TeardownSkips, Unused
<1>2. conn[c] \in Connection /\ Ordered(conn[c])
  BY <1>1, MadeFacts
<1>3. o \in Connection /\ o.id = conn[c].id /\ o.late = conn[c].late
  <2>1. conn[c].down - 1 \in Nat /\ (conn[c].raced /\ conn[c].down > 1) \in BOOLEAN
    BY <1>2 DEF TeardownSkips, Connection
  <2>2. \A n \in Nat, b \in BOOLEAN : [conn[c] EXCEPT !.down = n, !.raced = b] \in Connection
    BY <1>2 DEF Connection
  <2>3. p \in Connection
    BY <2>1, <2>2, Zenon
  <2>4. p.id = conn[c].id /\ p.late = conn[c].late
    BY <1>2 DEF Connection
  <2> HIDE DEF p
  <2>5. QED
    BY <2>3, <2>4, ReleasedFacts
<1>4. TornDown(conn[c]) => TornDown(o)
  BY <1>2 DEF TeardownSkips, Connection, TornDown, Released
<1>5. Ordered(o) /\ (Running(conn[c]) => Running(o))
  BY <1>2 DEF TeardownSkips, Connection, Ordered, Running, Opening, Released
<1>6. Update(c, o) /\ UNCHANGED <<connections, lost, calls, cleaned, panicked>>
  BY DEF TeardownSkips
<1> HIDE DEF o
<1>7. QED
  BY <1>1, <1>3, <1>4, <1>5, <1>6, OwnStep

LEMMA DialFailsInv == ASSUME IInv, NEW c \in Conns, DialFails(c) PROVE IInv'
<1> DEFINE o == [conn[c] EXCEPT !.setup = FALSE]
<1>1. conn[c] # Unused
  BY DEF DialFails, Unused
<1>2. conn[c] \in Connection /\ Ordered(conn[c]) /\ conn[c].id # NoRelay
  BY <1>1, MadeFacts
<1>3. /\ o \in Connection /\ o.id = conn[c].id /\ o.late = conn[c].late
      /\ o.state = conn[c].state /\ o.stopped = conn[c].stopped /\ o.down = conn[c].down
  BY <1>2 DEF Connection
<1>4. Ordered(o)
  BY <1>2 DEF DialFails, Connection, Ordered
<1>5. FailConnection(c, o) /\ UNCHANGED <<calls, cleaned, panicked>>
  BY DEF DialFails
<1> HIDE DEF o
<1>6. QED
  BY <1>2, <1>3, <1>4, <1>5, FailStep

LEMMA TimedOutInv == ASSUME IInv, NEW c \in Conns, TimedOut(c) PROVE IInv'
<1> DEFINE o == [conn[c] EXCEPT !.timer = "off"]
<1>1. conn[c] # Unused
  BY DEF TimedOut, Unused
<1>2. conn[c] \in Connection /\ Ordered(conn[c]) /\ conn[c].id # NoRelay
  BY <1>1, MadeFacts
<1>3. /\ o \in Connection /\ o.id = conn[c].id /\ o.late = conn[c].late
      /\ o.state = conn[c].state /\ o.stopped = conn[c].stopped /\ o.down = conn[c].down
  BY <1>2 DEF Connection
<1>4. Ordered(o)
  BY <1>2 DEF TimedOut, Connection, Ordered
<1>5. FailConnection(c, o) /\ UNCHANGED <<calls, cleaned, panicked>>
  BY DEF TimedOut
<1> HIDE DEF o
<1>6. QED
  BY <1>2, <1>3, <1>4, <1>5, FailStep

LEMMA IceFailsInv == ASSUME IInv, NEW c \in Conns, IceFails(c) PROVE IInv'
<1> DEFINE o == conn[c]
<1>1. conn[c] # Unused
  BY DEF IceFails, Unused
<1>2. conn[c] \in Connection /\ Ordered(conn[c]) /\ conn[c].id # NoRelay
  BY <1>1, MadeFacts
<1>3. /\ o \in Connection /\ o.id = conn[c].id /\ o.late = conn[c].late
      /\ o.state = conn[c].state /\ o.stopped = conn[c].stopped /\ o.down = conn[c].down
  BY <1>2 DEF Connection
<1>4. Ordered(o)
  BY <1>2 DEF IceFails, Connection, Ordered
<1>5. FailConnection(c, o) /\ UNCHANGED <<calls, cleaned, panicked>>
  BY DEF IceFails
<1> HIDE DEF o
<1>6. QED
  BY <1>2, <1>3, <1>4, <1>5, FailStep

-----------------------------------------------------------------------------
(* The other steps.                                                        *)

(* Nothing changes but the calls of ConfigureRelays under way.             *)
LEMMA CallsStep ==
  ASSUME IInv, UNCHANGED <<connections, conn, lost, cleaned>>, panicked' \in BOOLEAN,
         configured' \in 0 .. Configures, CallsBound',
         lookups' \in [Relays -> Nat], dials' \in [Relays -> Nat]
  PROVE  IInv'
<1>1. \A r \in Relays : lookups'[r] \in 0 .. Configures /\ dials'[r] \in 0 .. Configures
  BY SctpAssumption, SMT DEF CallsBound
<1>2. lookups' \in [Relays -> 0 .. Configures] /\ dials' \in [Relays -> 0 .. Configures]
  BY <1>1
<1>3. TypeOK'
  BY <1>2 DEF IInv, TypeOK
<1>4. UNCHANGED <<MadeHasId, MapNamesIds, MappedRuns, LostIsTornDown>>
  BY DEF MadeHasId, MapNamesIds, MappedRuns, LostIsTornDown, Mapped, Siblings
<1>5. QED
  BY <1>3, <1>4 DEF IInv

LEMMA ConnectRelaysInv == ASSUME IInv, NEW ids \in SUBSET Relays, ConnectRelays(ids) PROVE IInv'
<1>1. /\ configured' = configured + 1 /\ configured < Configures
      /\ lookups' = [r \in Relays |-> lookups[r] + (IF r \in ids THEN 1 ELSE 0)]
      /\ UNCHANGED <<connections, conn, lost, dials, cleaned, panicked>>
  BY DEF ConnectRelays
<1>2. /\ configured \in Nat /\ panicked \in BOOLEAN /\ Configures \in Nat
      /\ \A r \in Relays : lookups[r] \in Nat /\ dials[r] \in Nat
      /\ dials \in [Relays -> Nat] /\ CallsBound
  BY SctpAssumption DEF IInv, TypeOK
<1>3. configured' \in 0 .. Configures
  BY <1>1, <1>2
<1>4. lookups' \in [Relays -> Nat] /\ \A r \in Relays : lookups'[r] <= lookups[r] + 1
  BY <1>1, <1>2
<1>5. CallsBound'
  BY <1>1, <1>2, <1>4 DEF CallsBound
<1>6. QED
  BY <1>1, <1>2, <1>3, <1>4, <1>5, CallsStep

LEMMA LookupInv == ASSUME IInv, NEW r \in Relays, Lookup(r) PROVE IInv'
<1>1. /\ configured \in 0 .. Configures /\ panicked \in BOOLEAN
      /\ lookups \in [Relays -> Nat] /\ dials \in [Relays -> Nat] /\ CallsBound
  BY DEF IInv, TypeOK
<1>2. /\ lookups[r] > 0
      /\ lookups' = [lookups EXCEPT ![r] = @ - 1]
      /\ dials' \in {dials, [dials EXCEPT ![r] = @ + 1]}
      /\ UNCHANGED <<connections, conn, lost, configured, cleaned, panicked>>
  BY DEF Lookup
<1>3. /\ lookups' \in [Relays -> Nat] /\ dials' \in [Relays -> Nat]
      /\ \A q \in Relays : lookups'[q] + dials'[q] <= lookups[q] + dials[q]
  BY <1>1, <1>2
<1>4. CallsBound'
  BY <1>1, <1>2, <1>3 DEF CallsBound
<1>5. QED
  BY <1>1, <1>2, <1>3, <1>4, CallsStep

LEMMA TeardownPanicsInv == ASSUME IInv, NEW c \in Conns, TeardownPanics(c) PROVE IInv'
<1>1. /\ UNCHANGED <<connections, conn, lost, cleaned, configured, lookups, dials>>
      /\ panicked' \in BOOLEAN
  BY DEF TeardownPanics, calls
<1>2. /\ configured' \in 0 .. Configures /\ CallsBound'
      /\ lookups' \in [Relays -> Nat] /\ dials' \in [Relays -> Nat]
  BY <1>1 DEF IInv, TypeOK, CallsBound
<1>3. QED
  BY <1>1, <1>2, CallsStep

(* A new object takes the place of the one the map had under the id, which *)
(* runs on beside it.                                                      *)
LEMMA NewFacts ==
  ASSUME \E c \in Conns : conn[c] = Unused
  PROVE  NewConn \in Conns /\ conn[NewConn] = Unused
BY DEF NewConn

LEMMA ConnectToRelayInv == ASSUME IInv, NEW r \in Relays, ConnectToRelay(r) PROVE IInv'
<1> DEFINE n == NewConn
           o == [Unused EXCEPT !.id = r, !.state = "connecting", !.setup = TRUE, !.late = cleaned]
<1>1. n \in Conns /\ conn[n] = Unused
  BY NewFacts DEF ConnectToRelay
<1>2. /\ conn \in [Conns -> Connection] /\ connections \in [Relays -> Conns \cup {NoConn}]
      /\ cleaned \in BOOLEAN /\ NoConn \notin Conns /\ r # NoRelay /\ NoRelay \notin Relays
  BY SctpAssumption DEF IInv, TypeOK
<1>3. /\ o \in Connection /\ o.id = r /\ o.late = cleaned
      /\ Ordered(o) /\ Running(o)
  BY <1>2 DEF Unused, Connection, Ordered, Running, Opening
<1>4. /\ dials[r] > 0 /\ dials' = [dials EXCEPT ![r] = @ - 1]
      /\ connections' = [connections EXCEPT ![r] = n]
      /\ conn' = [conn EXCEPT ![n] = o]
      /\ lost' = Loses(connections[r], "displaced")
      /\ UNCHANGED <<configured, lookups, cleaned, panicked>>
  BY DEF ConnectToRelay, Update
<1> HIDE DEF n, o
<1>5. /\ conn' \in [Conns -> Connection] /\ conn'[n] = o
      /\ \A c \in Conns : c # n => conn'[c] = conn[c]
      /\ connections' \in [Relays -> Conns \cup {NoConn}] /\ connections'[r] = n
      /\ \A q \in Relays : q # r => connections'[q] = connections[q]
  BY <1>1, <1>2, <1>3, <1>4
<1>6. ~Mapped(n) /\ \A q \in Relays : connections[q] # n
  BY <1>1, <1>2, UnusedFacts DEF Mapped, IInv, MapNamesIds
<1>7. TypeOK' /\ CallsBound'
  <2>1. /\ configured \in Nat /\ CallsBound
        /\ lookups \in [Relays -> 0 .. Configures] /\ dials \in [Relays -> 0 .. Configures]
        /\ Configures \in Nat
    BY SctpAssumption DEF IInv, TypeOK
  <2>2. dials[r] - 1 \in 0 .. Configures
    BY <2>1, <1>4
  <2>3. dials' \in [Relays -> 0 .. Configures]
    BY <2>1, <2>2, <1>4
  <2>4. \A q \in Relays : dials'[q] <= dials[q]
    BY <2>1, <1>4
  <2>5. CallsBound'
    BY <2>1, <2>3, <2>4, <1>4 DEF CallsBound
  <2>6. lost' \in [Conns -> {"no", "displaced", "unmapped"}]
    BY <1>4 DEF IInv, TypeOK, Loses
  <2>7. QED
    BY <2>3, <2>5, <2>6, <1>4, <1>5 DEF IInv, TypeOK
<1>8. MadeHasId'
  BY <1>2, <1>3, <1>5 DEF IInv, MadeHasId
<1>9. \A c \in Conns : Ordered(conn'[c])
  BY <1>3, <1>5 DEF IInv
<1>10. MapNamesIds'
  BY <1>2, <1>3, <1>5, <1>6 DEF IInv, MapNamesIds
<1>11. /\ conn'[n].id # NoRelay /\ connections'[conn'[n].id] = n
       /\ \A c \in Conns : Mapped(c)' => c = n \/ Mapped(c)
  <2>1. conn'[n].id # NoRelay /\ connections'[conn'[n].id] = n
    BY <1>2, <1>3, <1>5
  <2>2. ASSUME NEW c \in Conns, Mapped(c)', c # n PROVE Mapped(c)
    <3>1. conn'[c] = conn[c] /\ conn[c].id \in Relays
      BY <2>2, <1>2, <1>5 DEF Mapped, Connection
    <3>2. QED
      BY <3>1, <2>2, <1>5 DEF Mapped
  <2>3. QED
    BY <2>1, <2>2
<1>12. MappedRuns'
  BY <1>3, <1>4, <1>5, <1>11 DEF IInv, MappedRuns
<1>13. LostIsTornDown'
  <2> SUFFICES ASSUME NEW c \in Conns, conn'[c].id # NoRelay, ~Mapped(c)', ~TornDown(conn'[c])
               PROVE  \/ lost'[c] = "displaced" /\ Siblings(c)' # {}
                      \/ /\ lost'[c] = "unmapped"
                         /\ \E d \in Siblings(c)' : ~Mapped(d)' /\ TornDown(conn'[d])
    BY DEF LostIsTornDown
  <2>1. c # n /\ conn'[c] = conn[c]
    BY <1>5, <1>11 DEF Mapped
  <2>2. CASE connections[r] = c
    <3>1. lost'[c] = "displaced"
      BY <2>2, <1>4 DEF Loses
    <3>2. conn[c].id = r
      BY <2>2, <1>2 DEF IInv, MapNamesIds
    <3>3. n \in Siblings(c)'
      BY <3>2, <2>1, <1>1, <1>3, <1>5 DEF Siblings
    <3>4. QED
      BY <3>1, <3>3
  <2>3. CASE connections[r] # c
    <3>1. ~Mapped(c) /\ lost'[c] = lost[c]
      BY <2>1, <2>3, <1>2, <1>4, <1>5 DEF Mapped, Connection, Loses
    <3>2. \/ lost[c] = "displaced" /\ Siblings(c) # {}
          \/ lost[c] = "unmapped" /\ \E d \in Siblings(c) : ~Mapped(d) /\ TornDown(conn[d])
      BY <3>1, <2>1 DEF IInv, LostIsTornDown
    <3>3. ASSUME NEW d \in Siblings(c)
          PROVE  d \in Siblings(c)' /\ conn'[d] = conn[d] /\ (~Mapped(d) => ~Mapped(d)')
      <4>1. d # n /\ d \in Siblings(c)' /\ conn'[d] = conn[d]
        BY <3>3, <2>1, <1>1, <1>5, UnusedFacts DEF Siblings
      <4>2. QED
        BY <4>1, <1>11 DEF Siblings
    <3>4. QED
      BY <3>1, <3>2, <3>3
  <2>4. QED
    BY <2>2, <2>3
<1>14. QED
  BY <1>7, <1>8, <1>9, <1>10, <1>12, <1>13 DEF IInv

LEMMA OnCloseInv == ASSUME IInv, NEW c \in Conns, OnClose(c) PROVE IInv'
<1> DEFINE d == connections[conn[c].id]
           o == [conn[c] EXCEPT !.onclose = FALSE]
<1>1. conn[c] # Unused
  <2>1. conn[c].onclose
    BY DEF OnClose
  <2>2. Unused.onclose = FALSE
    BY DEF Unused
  <2>3. QED
    BY <2>1, <2>2
<1>2. /\ conn[c] \in Connection /\ Ordered(conn[c]) /\ conn[c].id \in Relays
      /\ conn[c].id # NoRelay
  BY <1>1, MadeFacts
<1>3. /\ conn \in [Conns -> Connection] /\ connections \in [Relays -> Conns \cup {NoConn}]
      /\ NoConn \notin Conns
  BY SctpAssumption DEF IInv, TypeOK
<1>4. /\ o \in Connection /\ o.id = conn[c].id /\ o.late = conn[c].late
      /\ Ordered(o) /\ (TornDown(conn[c]) => TornDown(o))
  BY <1>2, SMTT(30), ZenonT(60) DEF Connection, Ordered, TornDown
<1>5. /\ UNCHANGED <<lost, calls, cleaned, panicked>>
      /\ lost \in [Conns -> {"no", "displaced", "unmapped"}]
  BY DEF OnClose, IInv, TypeOK
<1>6. CASE d = NoConn
  <2>1. Update(c, o) /\ UNCHANGED <<connections, lost>> /\ ~Mapped(c)
    BY <1>3, <1>6 DEF OnClose, Update, Mapped
  <2> HIDE DEF o
  <2>2. QED
    BY <2>1, <1>2, <1>4, <1>5, ObjectStep
<1>7. CASE d # NoConn
  <2>1. d \in Conns /\ conn[d].id = conn[c].id /\ Mapped(d)
    BY <1>2, <1>3, <1>7 DEF IInv, MapNamesIds, Mapped
  <2> DEFINE called == [conn EXCEPT ![c] = o]
             p == [called[d] EXCEPT !.state = "closed", !.down = @ + 1]
  <2>2. called \in [Conns -> Connection] /\ called[d] \in Connection
    BY <2>1, <1>3, <1>4
  <2>3. conn' = [called EXCEPT ![d] = p] /\ connections' = [connections EXCEPT ![conn[c].id] = NoConn]
    BY <1>7, <2>1, <1>3 DEF OnClose, Unmap
  <2>4. \A e \in Conns : /\ called[e].id = conn[e].id /\ called[e].late = conn[e].late
                         /\ conn[e] = Unused => called[e] = Unused
                         /\ Ordered(called[e])
                         /\ TornDown(conn[e]) => TornDown(called[e])
    BY <1>1, <1>3, <1>4 DEF IInv
  <2> HIDE DEF called
  <2>5. /\ p \in Connection /\ p.id = called[d].id /\ p.late = called[d].late
        /\ Ordered(p) /\ TornDown(p)
    <3>1. called[d].down \in Nat /\ called[d].down + 1 \in Nat
      BY <2>2 DEF Connection
    <3>2. \A n \in Nat : [called[d] EXCEPT !.state = "closed", !.down = n] \in Connection
      BY <2>2 DEF Connection
    <3>3. p \in Connection
      BY <3>1, <3>2, Zenon
    <3>4. p.down = called[d].down + 1 /\ p.id = called[d].id /\ p.late = called[d].late
      BY <2>2 DEF Connection
    <3>5. Ordered(p)
      BY <2>1, <2>2, <2>4 DEF Ordered, Connection
    <3>6. TornDown(p)
      BY <3>1, <3>4 DEF TornDown
    <3>7. QED
      BY <3>3, <3>4, <3>5, <3>6
  <2> HIDE DEF p
  <2>6. /\ conn' \in [Conns -> Connection] /\ conn'[d] = p
        /\ \A e \in Conns : e # d => conn'[e] = called[e]
    BY <2>1, <2>2, <2>3, <2>5
  <2>7. \A e \in Conns : /\ conn'[e].id = conn[e].id /\ conn'[e].late = conn[e].late
                         /\ conn[e] = Unused => conn'[e] = Unused
                         /\ Ordered(conn'[e])
                         /\ TornDown(conn[e]) => TornDown(conn'[e])
    <3>1. conn[d] # Unused
      BY <2>1, <1>2, UnusedFacts
    <3>2. QED
      BY <3>1, <2>1, <2>4, <2>5, <2>6
  <2>8. /\ connections' \in [Relays -> Conns \cup {NoConn}]
        /\ \A r \in Relays : connections'[r] \in {connections[r], NoConn}
    BY <1>2, <1>3, <2>3
  <2>9. ASSUME NEW e \in Conns, Mapped(e), Mapped(e)' PROVE Running(conn'[e])
    <3>1. e # d /\ e # c
      BY <2>1, <2>3, <2>7, <2>9, <1>2, <1>3 DEF Mapped
    <3>2. conn'[e] = conn[e]
      BY <3>1, <2>6, <1>3 DEF called
    <3>3. QED
      BY <3>2, <2>9 DEF IInv, MappedRuns
  <2>10. ASSUME NEW e \in Conns, Mapped(e), ~Mapped(e)' PROVE TornDown(conn'[e])
    <3>1. e = d
      BY <2>3, <2>7, <2>10, <1>2, <1>3 DEF Mapped, Connection
    <3>2. QED
      BY <3>1, <2>5, <2>6
  <2>11. cleaned' \in BOOLEAN /\ (cleaned' => cleaned)
    BY <1>5 DEF IInv, TypeOK
  <2>12. QED
    BY <1>5, <2>6, <2>7, <2>8, <2>9, <2>10, <2>11, ShrinkStep
<1>8. QED
  BY <1>6, <1>7

LEMMA CleanupInv == ASSUME IInv, Cleanup PROVE IInv'
<1>1. /\ conn \in [Conns -> Connection] /\ connections \in [Relays -> Conns \cup {NoConn}]
      /\ NoConn \notin Conns
  BY SctpAssumption DEF IInv, TypeOK
<1>2. /\ cleaned' = TRUE /\ UNCHANGED <<lost, calls, panicked>>
      /\ connections' = [r \in Relays |-> NoConn]
      /\ conn' = [c \in Conns |-> IF Mapped(c) THEN [conn[c] EXCEPT !.down = @ + 1] ELSE conn[c]]
  BY DEF Cleanup
<1>3. ASSUME NEW c \in Conns
      PROVE  LET p == [conn[c] EXCEPT !.down = @ + 1] IN
             /\ p \in Connection /\ p.id = conn[c].id /\ p.late = conn[c].late
             /\ Ordered(p) /\ TornDown(p)
  <2>1. conn[c] \in Connection /\ conn[c].down \in Nat /\ conn[c].down + 1 \in Nat
    BY <1>1 DEF Connection
  <2>2. \A n \in Nat : [conn[c] EXCEPT !.down = n] \in Connection
    BY <2>1 DEF Connection
  <2> DEFINE p == [conn[c] EXCEPT !.down = @ + 1]
  <2>3. p \in Connection
    BY <2>1, <2>2, Zenon
  <2>4. p.down = conn[c].down + 1 /\ p.id = conn[c].id /\ p.late = conn[c].late
    BY <2>1 DEF Connection
  <2>5. Ordered(p)
    BY <2>1 DEF IInv, Ordered, Connection
  <2>6. TornDown(p)
    BY <2>1, <2>4 DEF TornDown
  <2>7. QED
    BY <2>3, <2>4, <2>5, <2>6
<1>4. /\ conn' \in [Conns -> Connection]
      /\ \A c \in Conns : /\ conn'[c].id = conn[c].id /\ conn'[c].late = conn[c].late
                          /\ conn[c] = Unused => conn'[c] = Unused
                          /\ Ordered(conn'[c])
                          /\ TornDown(conn[c]) => TornDown(conn'[c])
                          /\ Mapped(c) => TornDown(conn'[c])
  <2> SUFFICES ASSUME NEW c \in Conns
               PROVE  /\ conn'[c] \in Connection
                      /\ conn'[c].id = conn[c].id /\ conn'[c].late = conn[c].late
                      /\ conn[c] = Unused => conn'[c] = Unused
                      /\ Ordered(conn'[c])
                      /\ TornDown(conn[c]) => TornDown(conn'[c])
                      /\ Mapped(c) => TornDown(conn'[c])
    BY <1>2
  <2>1. CASE Mapped(c)
    <3>1. conn[c] # Unused
      BY <2>1, UnusedFacts DEF Mapped
    <3>2. conn'[c] = [conn[c] EXCEPT !.down = @ + 1]
      BY <2>1, <1>2
    <3>3. QED
      BY <3>1, <3>2, <1>3
  <2>2. CASE ~Mapped(c)
    BY <2>2, <1>1, <1>2 DEF IInv
  <2>3. QED
    BY <2>1, <2>2
<1>5. \A c \in Conns : ~Mapped(c)'
  <2> SUFFICES ASSUME NEW c \in Conns, Mapped(c)' PROVE FALSE
    OBVIOUS
  <2>1. conn'[c].id \in Relays
    BY <1>4 DEF Mapped, Connection
  <2>2. QED
    BY <2>1, <1>1, <1>2 DEF Mapped
<1>6. /\ connections' \in [Relays -> Conns \cup {NoConn}]
      /\ \A r \in Relays : connections'[r] \in {connections[r], NoConn}
  BY <1>2
<1>7. lost' \in [Conns -> {"no", "displaced", "unmapped"}]
  BY <1>2 DEF IInv, TypeOK
<1>8. QED
  BY <1>2, <1>4, <1>5, <1>6, <1>7, ShrinkStep

-----------------------------------------------------------------------------
(* The invariant, and what it says.                                        *)

LEMMA InvGoroutines == ASSUME IInv, Goroutines PROVE IInv'
<1>1. ASSUME NEW r \in Relays, Configure(r) PROVE IInv'
  BY <1>1, LookupInv, ConnectToRelayInv DEF Configure
<1>2. ASSUME NEW c \in Conns, Dial(c) PROVE IInv'
  BY <1>2, DialledInv, DialFailsInv DEF Dial
<1>3. ASSUME NEW c \in Conns, Timer(c) PROVE IInv'
  BY <1>3, TimerFiresInv, TimedOutInv, TimerStopsInv DEF Timer
<1>4. ASSUME NEW c \in Conns, Callback(c) PROVE IInv'
  BY <1>4, OnOpenInv, OnConnectedInv, OnCloseInv DEF Callback
<1>5. ASSUME NEW c \in Conns, Teardown(c) PROVE IInv'
  BY <1>5, TeardownClosesInv, TeardownSkipsInv, TeardownPanicsInv DEF Teardown
<1>6. QED
  BY <1>1, <1>2, <1>3, <1>4, <1>5, KeepaliveEndsInv DEF Goroutines

LEMMA InvStep == IInv /\ [Next]_vars => IInv'
<1> SUFFICES ASSUME IInv, [Next]_vars PROVE IInv'
  OBVIOUS
<1>1. ASSUME NEW ids \in SUBSET Relays, ConnectRelays(ids) PROVE IInv'
  BY <1>1, ConnectRelaysInv
<1>2. CASE Network
  BY <1>2, WireOpensInv, WireClosesInv, IceFailsInv DEF Network
<1>3. CASE UNCHANGED vars
  BY <1>3 DEF vars, calls, IInv, TypeOK, CallsBound, MadeHasId, MapNamesIds, MappedRuns,
              LostIsTornDown, Mapped, Siblings
<1>4. QED
  BY <1>1, <1>2, <1>3, InvGoroutines, CleanupInv DEF Next

LEMMA Invariant == Spec => []IInv
BY InvInit, InvStep, PTL DEF Spec

(* Every reachable state is well-typed; no more lookups and dials are      *)
(* under way than ConfigureRelays was called.                              *)
THEOREM RelayTypes == Spec => []TypeOK
<1>1. IInv => TypeOK
  BY DEF IInv
<1>2. QED
  BY <1>1, Invariant, PTL

(* The map names connections that are dialled or open, and an open one has *)
(* its channel up or OnClose called, whichever callbacks, timers and       *)
(* teardowns of other objects with the same id come in between             *)
(* (failConnection, closeConnection, connectToRelay).                      *)
THEOREM MapStaysCurrent == Spec => []MapIsCurrent
<1>1. ASSUME IInv PROVE MapIsLive
  <2> SUFFICES ASSUME NEW r \in Relays, connections[r] # NoConn
               PROVE  /\ conn[connections[r]].id = r
                      /\ conn[connections[r]].state \in {"connecting", "open"}
    BY DEF MapIsLive
  <2>1. connections[r] \in Conns /\ conn[connections[r]].id = r /\ r # NoRelay
    BY <1>1, SctpAssumption DEF IInv, TypeOK, MapNamesIds
  <2>2. Mapped(connections[r])
    BY <2>1 DEF Mapped
  <2>3. QED
    BY <1>1, <2>1, <2>2 DEF IInv, MappedRuns, Running
<1>2. ASSUME IInv PROVE OpenIsUp
  BY <1>2 DEF OpenIsUp, IInv, MappedRuns, Running, Ordered
<1>3. IInv => MapIsCurrent
  BY <1>1, <1>2 DEF MapIsCurrent
<1>4. QED
  BY <1>3, Invariant, PTL

(* A connection that the map has lost is closed or being closed, unless a  *)
(* second dial of its id overwrote it (connectToRelay), or the failure of  *)
(* another of its id, itself lost and torn down, took it out               *)
(* (failConnection).                                                       *)
THEOREM LostConnectionsEnd == Spec => []LostIsTornDown
<1>1. IInv => LostIsTornDown
  BY DEF IInv
<1>2. QED
  BY <1>1, Invariant, PTL

(* What Cleanup and the teardowns leave up was dialled after Cleanup,      *)
(* displaced by a second dial, taken out by the failure of another of its  *)
(* id, or torn down before its channel was made; nothing else is left.     *)
THEOREM LeftoversAreKnown == Spec => []LeftoverHasCause
<1>1. ASSUME IInv PROVE LeftoverHasCause
  <2> SUFFICES ASSUME NEW c \in Conns, cleaned, conn[c].wire \in {"dialling", "open"},
                      conn[c].down = 0, ~conn[c].late,
                      lost[c] \notin {"displaced", "unmapped"}
               PROVE  conn[c].bare
    BY DEF LeftoverHasCause
  <2>1. conn[c].id # NoRelay
    BY <1>1 DEF IInv, MadeHasId, Unused
  <2>2. ~Mapped(c)
    BY <1>1 DEF IInv, MappedRuns
  <2>3. conn[c].stopped
    BY <1>1, <2>1, <2>2 DEF IInv, LostIsTornDown, TornDown
  <2>4. QED
    BY <1>1, <2>3 DEF IInv, Ordered
<1>2. QED
  BY <1>1, Invariant, PTL

-----------------------------------------------------------------------------
(* The refinement.                                                         *)

(* Membership in the sets of ids that RelayLinks knows.                    *)
LEMMA IdFacts ==
  /\ \A r : r \in Strays <=> \E c \in Conns : conn[c].id = r /\ Opening(conn[c]) /\ ~Mapped(c)
  /\ \A r : r \in Reporting <=> \E c \in Conns : conn[c].id = r /\ conn[c].onopen = "reports"
  /\ \A r : r \in Strays' <=> \E c \in Conns : conn'[c].id = r /\ Opening(conn'[c]) /\ ~Mapped(c)'
  /\ \A r : r \in Reporting' <=> \E c \in Conns : conn'[c].id = r /\ conn'[c].onopen = "reports"
BY DEF Strays, Reporting, MayOpen, Opening

(* Objects change and report nothing new, and none that could not open can *)
(* open now; the map loses the connection of one id at most.  RelayLinks   *)
(* sees nothing, a stray or the connection of that id lost.                *)
LEMMA LinkStep ==
  ASSUME IInv, NEW r \in Relays,
         \/ UNCHANGED connections
         \/ connections' = [connections EXCEPT ![r] = NoConn],
         \A c \in Conns : /\ conn'[c].id = conn[c].id
                          /\ conn'[c].onopen = "reports" <=> conn[c].onopen = "reports"
                          /\ Opening(conn'[c]) => Opening(conn[c])
                          /\ Opening(conn[c]) /\ conn[c].id # r => Opening(conn'[c])
                          /\ Mapped(c) /\ Mapped(c)' => conn'[c].state = conn[c].state
  PROVE  UNCHANGED <<StateOf, Strays, Reporting>> \/ Links!StrayLost(r) \/ Links!Lost(r)
<1>1. /\ conn \in [Conns -> Connection] /\ connections \in [Relays -> Conns \cup {NoConn}]
      /\ NoConn \notin Conns /\ NoRelay \notin Relays
  BY SctpAssumption DEF IInv, TypeOK
<1>2. /\ \A q \in Relays : q # r => connections'[q] = connections[q]
      /\ connections'[r] \in {connections[r], NoConn}
  BY <1>1
<1>3. ASSUME NEW q \in Relays, connections[q] # NoConn
      PROVE  connections[q] \in Conns /\ conn[connections[q]].id = q /\ Mapped(connections[q])
  BY <1>1, <1>3 DEF IInv, MapNamesIds, Mapped
<1>4. \A q \in Relays : connections'[q] = connections[q] => StateOf'[q] = StateOf[q]
  <2> SUFFICES ASSUME NEW q \in Relays, connections'[q] = connections[q]
               PROVE  StateOf'[q] = StateOf[q]
    OBVIOUS
  <2>1. CASE connections[q] = NoConn
    BY <2>1 DEF StateOf
  <2>2. CASE connections[q] # NoConn
    <3>1. connections[q] \in Conns /\ conn[connections[q]].id = q /\ Mapped(connections[q])
      BY <2>2, <1>3
    <3>2. conn'[connections[q]].id = q /\ connections'[q] = connections[q] /\ q # NoRelay
      BY <3>1, <1>1
    <3>3. Mapped(connections[q])'
      BY <3>2 DEF Mapped
    <3>4. conn'[connections[q]].state = conn[connections[q]].state
      BY <3>1, <3>3
    <3>5. QED
      BY <3>4, <2>2 DEF StateOf
  <2>3. QED
    BY <2>1, <2>2
<1>5. Reporting' = Reporting
  BY IdFacts DEF Reporting
<1>6. ASSUME NEW c \in Conns, connections'[r] = connections[r] \/ conn[c].id # r
      PROVE  Mapped(c)' <=> Mapped(c)
  BY <1>1, <1>2, <1>6 DEF Mapped, Connection
<1>7. \A q : q # r => (q \in Strays' <=> q \in Strays)
  BY <1>6, IdFacts
<1>8. /\ StateOf = [q \in Relays |-> StateOf[q]] /\ StateOf' = [q \in Relays |-> StateOf'[q]]
  BY DEF StateOf
<1>9. CASE connections'[r] = connections[r]
  <2>1. StateOf' = StateOf
    BY <1>2, <1>4, <1>8, <1>9
  <2>2. r \in Strays' => r \in Strays
    BY <1>6, <1>9, IdFacts
  <2>3. Strays' = Strays \/ (r \in Strays /\ Strays' = Strays \ {r})
    BY <2>2, <1>7
  <2>4. QED
    BY <2>1, <2>3, <1>5 DEF Links!StrayLost
<1>10. CASE connections'[r] # connections[r]
  <2> DEFINE m == connections[r]
  <2>1. m # NoConn /\ m \in Conns /\ conn[m].id = r /\ Mapped(m) /\ connections'[r] = NoConn
    BY <1>2, <1>3, <1>10
  <2>2. Running(conn[m]) /\ Ordered(conn[m]) /\ StateOf[r] = conn[m].state
    BY <2>1 DEF IInv, MappedRuns, StateOf
  <2>3. StateOf[r] \in {"connecting", "open"} /\ (StateOf[r] = "open" => ~Opening(conn[m]))
    BY <2>2 DEF Running, Ordered, Opening
  <2>4. StateOf' = [StateOf EXCEPT ![r] = "none"]
    <3>1. StateOf'[r] = "none"
      BY <2>1 DEF StateOf
    <3>2. \A q \in Relays : q # r => StateOf'[q] = StateOf[q]
      BY <1>2, <1>4
    <3>3. QED
      BY <3>1, <3>2, <1>8
  <2>5. CASE StateOf[r] = "connecting"
    <3>1. Strays' \in {Strays, Strays \ {r}, Strays \cup {r}}
      BY <1>7
    <3>2. QED
      BY <3>1, <2>4, <2>5, <1>5 DEF Links!Lost
  <2>6. CASE StateOf[r] = "open"
    <3>1. ASSUME NEW c \in Conns, conn'[c].id = r, Opening(conn'[c])
          PROVE  Opening(conn[c]) /\ ~Mapped(c)
      <4>1. Opening(conn[c]) /\ c # m
        BY <3>1, <2>3, <2>6
      <4>2. QED
        BY <4>1, <3>1 DEF Mapped
    <3>2. r \in Strays' => r \in Strays
      BY <3>1, IdFacts
    <3>3. Strays' \in {Strays, Strays \ {r}}
      BY <3>2, <1>7
    <3>4. QED
      BY <3>3, <2>3, <2>4, <1>5 DEF Links!Lost
  <2>7. QED
    BY <2>3, <2>5, <2>6
<1>11. QED
  BY <1>9, <1>10

(* A step as RelayLinks sees it.                                           *)
LinksStep == Links!LinksNext \/ UNCHANGED <<StateOf, Strays, Reporting>>

(* One object changes.                                                     *)
LEMMA ObjectLink ==
  ASSUME IInv, NEW c \in Conns, conn[c] # Unused, NEW o,
         Update(c, o), o.id = conn[c].id,
         \/ UNCHANGED connections /\ o.state = conn[c].state
         \/ Unmap(o.id),
         o.onopen = "reports" <=> conn[c].onopen = "reports",
         Opening(o) => Opening(conn[c])
  PROVE  LinksStep
<1>1. conn \in [Conns -> Connection] /\ conn[c].id \in Relays /\ conn[c].id # NoRelay
  BY MadeFacts DEF IInv, TypeOK
<1>2. conn'[c] = o /\ \A d \in Conns : d # c => conn'[d] = conn[d]
  BY <1>1 DEF Update
<1>3. \/ UNCHANGED connections
      \/ connections' = [connections EXCEPT ![conn[c].id] = NoConn]
  BY DEF Unmap
<1>4. \A d \in Conns : /\ conn'[d].id = conn[d].id
                       /\ conn'[d].onopen = "reports" <=> conn[d].onopen = "reports"
                       /\ Opening(conn'[d]) => Opening(conn[d])
                       /\ Opening(conn[d]) /\ conn[d].id # conn[c].id => Opening(conn'[d])
  BY <1>2
<1>5. ASSUME NEW d \in Conns, Mapped(d), Mapped(d)' PROVE conn'[d].state = conn[d].state
  <2>1. CASE d # c
    BY <2>1, <1>2
  <2>2. CASE d = c
    <3>1. connections'[conn[c].id] = c /\ c # NoConn
      BY <1>2, <1>5, <2>2, SctpAssumption DEF Mapped
    <3>2. connections \in [Relays -> Conns \cup {NoConn}]
      BY DEF IInv, TypeOK
    <3>3. UNCHANGED connections \/ ~Unmap(o.id)
      BY <3>1, <3>2, <1>1 DEF Unmap
    <3>4. ~Unmap(o.id)
      BY <3>1, <3>2, <1>1 DEF Unmap
    <3>5. QED
      BY <3>4, <2>2, <1>2
  <2>3. QED
    BY <2>1, <2>2
<1>6. \/ UNCHANGED <<StateOf, Strays, Reporting>>
      \/ Links!StrayLost(conn[c].id) \/ Links!Lost(conn[c].id)
  BY <1>1, <1>3, <1>4, <1>5, LinkStep
<1>7. QED
  BY <1>1, <1>6 DEF LinksStep, Links!LinksNext

LEMMA FailLink ==
  ASSUME IInv, NEW c \in Conns, conn[c] # Unused, NEW o \in Connection,
         FailConnection(c, o), o.id = conn[c].id, o.state = conn[c].state,
         o.onopen = conn[c].onopen, Opening(o) => Opening(conn[c])
  PROVE  LinksStep
<1>1. CASE o.state = "failed"
  BY <1>1, ObjectLink DEF FailConnection
<1>2. CASE o.state # "failed"
  <2> DEFINE p == [o EXCEPT !.state = "failed", !.down = @ + 1]
  <2>1. p.id = o.id /\ p.onopen = o.onopen /\ (Opening(p) => Opening(o))
    BY DEF Connection, Opening
  <2>2. Update(c, p) /\ Unmap(p.id)
    BY <1>2, <2>1 DEF FailConnection
  <2> HIDE DEF p
  <2>3. QED
    BY <2>1, <2>2, ObjectLink
<1>3. QED
  BY <1>1, <1>2

LEMMA DialledLinks == ASSUME IInv, NEW c \in Conns, Dialled(c) PROVE LinksStep
<1> DEFINE o == [conn[c] EXCEPT !.setup = FALSE, !.wire = "dialling", !.timer = "armed"]
<1>1. conn[c] # Unused
  BY DEF Dialled, Unused
<1>2. conn[c] \in Connection /\ Ordered(conn[c])
  BY <1>1, MadeFacts
<1>3. /\ o.id = conn[c].id /\ o.state = conn[c].state
      /\ o.onopen = "reports" <=> conn[c].onopen = "reports"
      /\ Opening(o) => Opening(conn[c])
  BY <1>2 DEF Dialled, Connection, Ordered, Opening
<1>4. Update(c, o) /\ UNCHANGED connections
  BY DEF Dialled
<1> HIDE DEF o
<1>5. QED
  BY <1>1, <1>3, <1>4, ObjectLink

LEMMA TimerFiresLinks == ASSUME IInv, NEW c \in Conns, TimerFires(c) PROVE LinksStep
<1> DEFINE o == [conn[c] EXCEPT !.timer = IF conn[c].state = "connecting" THEN "fired" ELSE "off"]
<1>1. conn[c] # Unused
  BY DEF TimerFires, Unused
<1>2. conn[c] \in Connection /\ Ordered(conn[c])
  BY <1>1, MadeFacts
<1>3. /\ o.id = conn[c].id /\ o.state = conn[c].state
      /\ o.onopen = "reports" <=> conn[c].onopen = "reports"
      /\ Opening(o) => Opening(conn[c])
  BY <1>2 DEF TimerFires, Connection, Ordered, Opening
<1>4. Update(c, o) /\ UNCHANGED connections
  BY DEF TimerFires
<1> HIDE DEF o
<1>5. QED
  BY <1>1, <1>3, <1>4, ObjectLink

LEMMA TimerStopsLinks == ASSUME IInv, NEW c \in Conns, TimerStops(c) PROVE LinksStep
<1> DEFINE o == [conn[c] EXCEPT !.timer = "off"]
<1>1. conn[c] # Unused
  BY DEF TimerStops, Unused
<1>2. conn[c] \in Connection /\ Ordered(conn[c])
  BY <1>1, MadeFacts
<1>3. /\ o.id = conn[c].id /\ o.state = conn[c].state
      /\ o.onopen = "reports" <=> conn[c].onopen = "reports"
      /\ Opening(o) => Opening(conn[c])
  BY <1>2 DEF TimerStops, Connection, Ordered, Opening
<1>4. Update(c, o) /\ UNCHANGED connections
  BY DEF TimerStops
<1> HIDE DEF o
<1>5. QED
  BY <1>1, <1>3, <1>4, ObjectLink

LEMMA KeepaliveEndsLinks == ASSUME IInv, NEW c \in Conns, KeepaliveEnds(c) PROVE LinksStep
<1> DEFINE o == [conn[c] EXCEPT !.runs = FALSE]
<1>1. conn[c] # Unused
  BY DEF KeepaliveEnds, Unused
<1>2. conn[c] \in Connection /\ Ordered(conn[c])
  BY <1>1, MadeFacts
<1>3. /\ o.id = conn[c].id /\ o.state = conn[c].state
      /\ o.onopen = "reports" <=> conn[c].onopen = "reports"
      /\ Opening(o) => Opening(conn[c])
  BY <1>2 DEF KeepaliveEnds, Connection, Ordered, Opening
<1>4. Update(c, o) /\ UNCHANGED connections
  BY DEF KeepaliveEnds
<1> HIDE DEF o
<1>5. QED
  BY <1>1, <1>3, <1>4, ObjectLink

LEMMA WireOpensLinks == ASSUME IInv, NEW c \in Conns, WireOpens(c) PROVE LinksStep
<1> DEFINE o == [conn[c] EXCEPT !.wire = "open", !.onopen = "called"]
<1>1. conn[c] # Unused
  BY DEF WireOpens, Unused
<1>2. conn[c] \in Connection /\ Ordered(conn[c])
  BY <1>1, MadeFacts
<1>3. /\ o.id = conn[c].id /\ o.state = conn[c].state
      /\ o.onopen = "reports" <=> conn[c].onopen = "reports"
      /\ Opening(o) => Opening(conn[c])
  BY <1>2 DEF WireOpens, Connection, Ordered, Opening
<1>4. Update(c, o) /\ UNCHANGED connections
  BY DEF WireOpens
<1> HIDE DEF o
<1>5. QED
  BY <1>1, <1>3, <1>4, ObjectLink

LEMMA WireClosesLinks == ASSUME IInv, NEW c \in Conns, WireCloses(c) PROVE LinksStep
<1> DEFINE o == [conn[c] EXCEPT !.wire = "closed", !.onclose = TRUE]
<1>1. conn[c] # Unused
  BY DEF WireCloses, Unused
<1>2. conn[c] \in Connection /\ Ordered(conn[c])
  BY <1>1, MadeFacts
<1>3. /\ o.id = conn[c].id /\ o.state = conn[c].state
      /\ o.onopen = "reports" <=> conn[c].onopen = "reports"
      /\ Opening(o) => Opening(conn[c])
  BY <1>2 DEF WireCloses, Connection, Ordered, Opening
<1>4. Update(c, o) /\ UNCHANGED connections
  BY DEF WireCloses
<1> HIDE DEF o
<1>5. QED
  BY <1>1, <1>3, <1>4, ObjectLink

LEMMA TeardownClosesLinks == ASSUME IInv, NEW c \in Conns, TeardownCloses(c) PROVE LinksStep
<1> DEFINE o == Released([conn[c] EXCEPT !.down = @ - 1, !.stopped = TRUE, !.raced = conn[c].down > 1])
<1>1. conn[c] # Unused
  BY DEF TeardownCloses, Unused
<1>2. conn[c] \in Connection /\ Ordered(conn[c])
  BY <1>1, MadeFacts
<1>3. /\ o.id = conn[c].id /\ o.state = conn[c].state
      /\ o.onopen = "reports" <=> conn[c].onopen = "reports"
      /\ Opening(o) => Opening(conn[c])
  BY <1>2 DEF TeardownCloses, Connection, Ordered, Opening, Released
<1>4. Update(c, o) /\ UNCHANGED connections
  BY DEF TeardownCloses
<1> HIDE DEF o
<1>5. QED
  BY <1>1, <1>3, <1>4, ObjectLink

LEMMA TeardownSkipsLinks == ASSUME IInv, NEW c \in Conns, TeardownSkips(c) PROVE LinksStep
<1> DEFINE o == Released([conn[c] EXCEPT !.down = @ - 1, !.raced = @ /\ conn[c].down > 1])
<1>1. conn[c] # Unused
  BY DEF TeardownSkips, Unused
<1>2. conn[c] \in Connection /\ Ordered(conn[c])
  BY <1>1, MadeFacts
<1>3. /\ o.id = conn[c].id /\ o.state = conn[c].state
      /\ o.onopen = "reports" <=> conn[c].onopen = "reports"
      /\ Opening(o) => Opening(conn[c])
  BY <1>2 DEF TeardownSkips, Connection, Ordered, Opening, Released
<1>4. Update(c, o) /\ UNCHANGED connections
  BY DEF TeardownSkips
<1> HIDE DEF o
<1>5. QED
  BY <1>1, <1>3, <1>4, ObjectLink

LEMMA DialFailsLinks == ASSUME IInv, NEW c \in Conns, DialFails(c) PROVE LinksStep
<1> DEFINE o == [conn[c] EXCEPT !.setup = FALSE]
<1>1. conn[c] # Unused
  BY DEF DialFails, Unused
<1>2. conn[c] \in Connection
  BY <1>1, MadeFacts
<1>3. /\ o \in Connection /\ o.id = conn[c].id /\ o.state = conn[c].state
      /\ o.onopen = conn[c].onopen /\ (Opening(o) => Opening(conn[c]))
  BY <1>2 DEF Connection, Opening
<1>4. FailConnection(c, o)
  BY DEF DialFails
<1> HIDE DEF o
<1>5. QED
  BY <1>1, <1>3, <1>4, FailLink

LEMMA TimedOutLinks == ASSUME IInv, NEW c \in Conns, TimedOut(c) PROVE LinksStep
<1> DEFINE o == [conn[c] EXCEPT !.timer = "off"]
<1>1. conn[c] # Unused
  BY DEF TimedOut, Unused
<1>2. conn[c] \in Connection
  BY <1>1, MadeFacts
<1>3. /\ o \in Connection /\ o.id = conn[c].id /\ o.state = conn[c].state
      /\ o.onopen = conn[c].onopen /\ (Opening(o) => Opening(conn[c]))
  BY <1>2 DEF Connection, Opening
<1>4. FailConnection(c, o)
  BY DEF TimedOut
<1> HIDE DEF o
<1>5. QED
  BY <1>1, <1>3, <1>4, FailLink

LEMMA IceFailsLinks == ASSUME IInv, NEW c \in Conns, IceFails(c) PROVE LinksStep
<1> DEFINE o == conn[c]
<1>1. conn[c] # Unused
  BY DEF IceFails, Unused
<1>2. conn[c] \in Connection
  BY <1>1, MadeFacts
<1>3. /\ o \in Connection /\ o.id = conn[c].id /\ o.state = conn[c].state
      /\ o.onopen = conn[c].onopen /\ (Opening(o) => Opening(conn[c]))
  BY <1>2 DEF Connection, Opening
<1>4. FailConnection(c, o)
  BY DEF IceFails
<1> HIDE DEF o
<1>5. QED
  BY <1>1, <1>3, <1>4, FailLink

(* OnOpen reports: of the connection in the map, or of a stray.            *)
LEMMA OnOpenLinks == ASSUME IInv, NEW c \in Conns, OnOpen(c) PROVE LinksStep
<1> DEFINE o == [conn[c] EXCEPT !.onopen = "reports", !.state = "open", !.runs = TRUE]
           r == conn[c].id
<1>1. conn[c] # Unused
  BY DEF OnOpen, Unused
<1>2. /\ conn[c] \in Connection /\ Ordered(conn[c]) /\ r \in Relays /\ r # NoRelay
      /\ Mapped(c) => Running(conn[c])
  BY <1>1, MadeFacts
<1>3. /\ conn \in [Conns -> Connection] /\ connections \in [Relays -> Conns \cup {NoConn}]
      /\ NoConn \notin Conns
  BY SctpAssumption DEF IInv, TypeOK
<1>4. /\ o.id = r /\ o.state = "open" /\ o.onopen = "reports"
      /\ Opening(conn[c]) /\ ~Opening(o)
      /\ Mapped(c) => conn[c].state = "connecting"
  BY <1>2 DEF OnOpen, Connection, Ordered, Opening, Running
<1>5. Update(c, o) /\ UNCHANGED connections
  BY DEF OnOpen
<1> HIDE DEF o
<1>6. conn'[c] = o /\ \A d \in Conns : d # c => conn'[d] = conn[d]
  BY <1>3, <1>5 DEF Update
<1>7. \A d \in Conns : Mapped(d)' <=> Mapped(d)
  BY <1>4, <1>5, <1>6 DEF Mapped
<1>8. Reporting' = Reporting \cup {r}
  <2>1. \A q : q \in Reporting' <=> q \in Reporting \/ q = r
    BY <1>4, <1>6, IdFacts
  <2>2. QED
    BY <2>1
<1>9. CASE Mapped(c)
  <2>1. Strays' = Strays
    <3>1. \A q : q \in Strays' <=> q \in Strays
      BY <1>4, <1>6, <1>7, <1>9, IdFacts
    <3>2. QED
      BY <3>1
  <2>2. connections[r] = c /\ c # NoConn
    BY <1>3, <1>9 DEF Mapped
  <2>3. StateOf[r] = "connecting" /\ StateOf' = [StateOf EXCEPT ![r] = "open"]
    <3>1. StateOf[r] = "connecting" /\ StateOf'[r] = "open"
      BY <1>2, <1>4, <1>5, <1>6, <1>9, <2>2 DEF StateOf
    <3>2. ASSUME NEW q \in Relays, q # r PROVE StateOf'[q] = StateOf[q]
      <4>1. connections[q] # NoConn => connections[q] \in Conns /\ connections[q] # c
        BY <1>3, <3>2 DEF IInv, MapNamesIds
      <4>2. QED
        BY <4>1, <1>5, <1>6 DEF StateOf
    <3>3. QED
      BY <3>1, <3>2 DEF StateOf
  <2>4. Links!Opens(r)
    BY <2>1, <2>3, <1>8 DEF Links!Opens
  <2>5. QED
    BY <2>4, <1>2 DEF LinksStep, Links!LinksNext
<1>10. CASE ~Mapped(c)
  <2>1. r \in Strays
    BY <1>4, <1>10, IdFacts
  <2>2. Strays' \in {Strays, Strays \ {r}}
    <3>1. \A q : q # r => (q \in Strays' <=> q \in Strays)
      BY <1>4, <1>6, <1>7, IdFacts
    <3>2. QED
      BY <2>1, <3>1
  <2>3. StateOf' = StateOf
    <3>1. ASSUME NEW q \in Relays PROVE StateOf'[q] = StateOf[q]
      <4>1. connections[q] # NoConn => connections[q] \in Conns /\ connections[q] # c
        BY <1>3, <1>10, <1>2 DEF IInv, MapNamesIds, Mapped
      <4>2. QED
        BY <4>1, <1>5, <1>6 DEF StateOf
    <3>2. QED
      BY <3>1 DEF StateOf
  <2>4. Links!StrayOpened(r)
    BY <2>1, <2>2, <2>3, <1>8 DEF Links!StrayOpened
  <2>5. QED
    BY <2>4, <1>2 DEF LinksStep, Links!LinksNext
<1>11. QED
  BY <1>9, <1>10

LEMMA OnConnectedLinks == ASSUME IInv, NEW c \in Conns, OnConnected(c) PROVE LinksStep
<1> DEFINE o == [conn[c] EXCEPT !.onopen = "done"]
           r == conn[c].id
<1>1. conn[c] # Unused
  BY DEF OnConnected, Unused
<1>2. conn[c] \in Connection /\ r \in Relays
  BY <1>1, MadeFacts
<1>3. conn \in [Conns -> Connection] /\ connections \in [Relays -> Conns \cup {NoConn}]
  BY DEF IInv, TypeOK
<1>4. /\ o.id = r /\ o.state = conn[c].state /\ o.onopen = "done" /\ conn[c].onopen = "reports"
      /\ Opening(o) <=> Opening(conn[c])
  BY <1>2 DEF OnConnected, Connection, Opening
<1>5. Update(c, o) /\ UNCHANGED connections
  BY DEF OnConnected
<1> HIDE DEF o
<1>6. conn'[c] = o /\ \A d \in Conns : d # c => conn'[d] = conn[d]
  BY <1>3, <1>5 DEF Update
<1>7. \A d \in Conns : Mapped(d)' <=> Mapped(d)
  BY <1>4, <1>5, <1>6 DEF Mapped
<1>8. Strays' = Strays
  <2>1. \A q : q \in Strays' <=> q \in Strays
    BY <1>4, <1>6, <1>7, IdFacts
  <2>2. QED
    BY <2>1
<1>9. StateOf' = StateOf
  BY <1>3, <1>4, <1>5, <1>6 DEF StateOf
<1>10. r \in Reporting /\ Reporting' \in {Reporting, Reporting \ {r}}
  <2>1. r \in Reporting /\ \A q : q # r => (q \in Reporting' <=> q \in Reporting)
    BY <1>4, <1>6, IdFacts
  <2>2. QED
    BY <2>1
<1>11. Links!Reported(r)
  BY <1>8, <1>9, <1>10 DEF Links!Reported
<1>12. QED
  BY <1>2, <1>11 DEF LinksStep, Links!LinksNext

(* closeConnection takes the connection out that the map has by then.      *)
LEMMA OnCloseLinks == ASSUME IInv, NEW c \in Conns, OnClose(c) PROVE LinksStep
<1> DEFINE r == conn[c].id
           d == connections[r]
           o == [conn[c] EXCEPT !.onclose = FALSE]
<1>1. conn[c] # Unused
  <2>1. conn[c].onclose
    BY DEF OnClose
  <2>2. Unused.onclose = FALSE
    BY DEF Unused
  <2>3. QED
    BY <2>1, <2>2
<1>2. conn[c] \in Connection /\ r \in Relays /\ r # NoRelay
  BY <1>1, MadeFacts
<1>3. /\ conn \in [Conns -> Connection] /\ connections \in [Relays -> Conns \cup {NoConn}]
      /\ NoConn \notin Conns
  BY SctpAssumption DEF IInv, TypeOK
<1>4. /\ o.id = r /\ o.state = conn[c].state /\ o.onopen = conn[c].onopen
      /\ Opening(o) <=> Opening(conn[c])
  BY <1>2 DEF Connection, Opening
<1>5. CASE d = NoConn
  <2>1. Update(c, o) /\ UNCHANGED connections
    BY <1>3, <1>5 DEF OnClose, Update
  <2> HIDE DEF o
  <2>2. QED
    BY <2>1, <1>1, <1>4, ObjectLink
<1>6. CASE d # NoConn
  <2>1. d \in Conns /\ conn[d].id = r
    BY <1>2, <1>3, <1>6 DEF IInv, MapNamesIds
  <2> DEFINE called == [conn EXCEPT ![c] = o]
             p == [called[d] EXCEPT !.state = "closed", !.down = @ + 1]
  <2>2. conn' = [called EXCEPT ![d] = p] /\ connections' = [connections EXCEPT ![r] = NoConn]
    BY <1>6, <2>1, <1>3 DEF OnClose, Unmap
  <2>3. \A e \in Conns : /\ called[e].id = conn[e].id /\ called[e].onopen = conn[e].onopen
                         /\ called[e].state = conn[e].state
                         /\ Opening(called[e]) <=> Opening(conn[e])
    BY <1>3, <1>4
  <2>4. called \in [Conns -> Connection]
    <3>1. o \in Connection
      BY <1>2 DEF Connection
    <3>2. QED
      BY <3>1, <1>3
  <2> HIDE DEF called
  <2>5. p.id = called[d].id /\ p.onopen = called[d].onopen /\ (Opening(p) <=> Opening(called[d]))
    BY <2>1, <2>4 DEF Connection, Opening
  <2> HIDE DEF p
  <2>6. conn'[d] = p /\ \A e \in Conns : e # d => conn'[e] = called[e]
    BY <2>1, <2>2, <2>4
  <2>7. \A e \in Conns : /\ conn'[e].id = conn[e].id /\ conn'[e].onopen = conn[e].onopen
                         /\ Opening(conn'[e]) <=> Opening(conn[e])
    BY <2>1, <2>3, <2>5, <2>6
  <2>8. ASSUME NEW e \in Conns, Mapped(e), Mapped(e)' PROVE conn'[e].state = conn[e].state
    <3>1. e # d
      BY <2>1, <2>2, <2>7, <2>8, <1>2, <1>3 DEF Mapped
    <3>2. QED
      BY <3>1, <2>3, <2>6
  <2>9. UNCHANGED <<StateOf, Strays, Reporting>> \/ Links!StrayLost(r) \/ Links!Lost(r)
    BY <1>2, <2>2, <2>7, <2>8, LinkStep
  <2>10. QED
    BY <2>9, <1>2 DEF LinksStep, Links!LinksNext
<1>7. QED
  BY <1>5, <1>6

(* A new connection takes the place of another, which is a stray now if it *)
(* may still open.                                                         *)
LEMMA ConnectToRelayLinks == ASSUME IInv, NEW r \in Relays, ConnectToRelay(r) PROVE LinksStep
<1> DEFINE n == NewConn
           m == connections[r]
           o == [Unused EXCEPT !.id = r, !.state = "connecting", !.setup = TRUE, !.late = cleaned]
<1>1. n \in Conns /\ conn[n] = Unused
  BY NewFacts DEF ConnectToRelay
<1>2. /\ conn \in [Conns -> Connection] /\ connections \in [Relays -> Conns \cup {NoConn}]
      /\ NoConn \notin Conns /\ r # NoRelay /\ NoRelay \notin Relays
  BY SctpAssumption DEF IInv, TypeOK
<1>3. o.id = r /\ o.state = "connecting" /\ o.onopen = "none"
  BY DEF Unused
<1>4. connections' = [connections EXCEPT ![r] = n] /\ conn' = [conn EXCEPT ![n] = o]
  BY DEF ConnectToRelay, Update
<1>5. Unused.onopen = "none" /\ ~Opening(Unused) /\ Unused.id = NoRelay
  BY DEF Unused, Opening
<1> HIDE DEF n, o
<1>6. /\ conn'[n] = o /\ \A c \in Conns : c # n => conn'[c] = conn[c]
      /\ connections'[r] = n /\ \A q \in Relays : q # r => connections'[q] = connections[q]
  BY <1>1, <1>2, <1>4
<1>7. \A q \in Relays : connections[q] # n
  BY <1>1, <1>2, <1>5 DEF IInv, MapNamesIds
<1>8. Reporting' = Reporting
  <2>1. \A q : q \in Reporting' <=> q \in Reporting
    BY <1>1, <1>3, <1>5, <1>6, IdFacts
  <2>2. QED
    BY <2>1
<1>9. StateOf' = [StateOf EXCEPT ![r] = "connecting"]
  <2>1. StateOf'[r] = "connecting"
    BY <1>1, <1>2, <1>3, <1>6 DEF StateOf
  <2>2. ASSUME NEW q \in Relays, q # r PROVE StateOf'[q] = StateOf[q]
    BY <2>2, <1>2, <1>6, <1>7 DEF StateOf
  <2>3. QED
    BY <2>1, <2>2 DEF StateOf
<1>10. ASSUME NEW c \in Conns
       PROVE  /\ Opening(conn'[c]) /\ ~Mapped(c)' =>
                   c # n /\ conn'[c] = conn[c] /\ Opening(conn[c]) /\ (Mapped(c) => c = m)
              /\ Opening(conn[c]) /\ ~Mapped(c) => c # n /\ conn'[c] = conn[c] /\ ~Mapped(c)'
  <2>1. c = n => ~Opening(conn[c]) /\ conn'[c].id = r /\ connections'[r] = c
    BY <1>1, <1>3, <1>5, <1>6
  <2>2. c = n => Mapped(c)'
    BY <2>1, <1>2 DEF Mapped
  <2>3. c # n => conn'[c] = conn[c]
    BY <1>6
  <2>4. c # n /\ Mapped(c) /\ ~Mapped(c)' => c = m
    BY <2>3, <1>2, <1>6 DEF Mapped, Connection
  <2>5. c # n /\ ~Mapped(c) => ~Mapped(c)'
    BY <2>3, <1>2, <1>6 DEF Mapped, Connection
  <2>6. QED
    BY <2>1, <2>2, <2>3, <2>4, <2>5
<1>11. CASE m = NoConn
  <2>1. StateOf[r] = "none"
    BY <1>11 DEF StateOf
  <2>2. \A c \in Conns : c # m
    BY <1>2, <1>11
  <2>3. \A q : q \in Strays' <=> q \in Strays
    BY <1>10, <2>2, IdFacts
  <2>4. Links!Inserted(r)
    BY <2>1, <2>3, <1>8, <1>9 DEF Links!Inserted
  <2>5. QED
    BY <2>4 DEF LinksStep, Links!LinksNext
<1>12. CASE m # NoConn
  <2>1. m \in Conns /\ conn[m].id = r
    BY <1>2, <1>12 DEF IInv, MapNamesIds
  <2>2. Mapped(m) /\ StateOf[r] = conn[m].state /\ m # n
    BY <2>1, <1>2, <1>7, <1>12 DEF Mapped, StateOf
  <2>3. /\ StateOf[r] \in {"connecting", "open"}
        /\ StateOf[r] = "connecting" <=> Opening(conn[m])
    BY <2>1, <2>2 DEF IInv, MappedRuns, Running, Ordered, Opening
  <2>4. ASSUME NEW d \in Conns, d = m PROVE conn'[d] = conn[d] /\ ~Mapped(d)'
    <3>1. d # n /\ conn[d].id = r
      BY <2>1, <2>2, <2>4
    <3>2. conn'[d] = conn[d] /\ conn'[d].id = r /\ connections'[r] # d
      BY <3>1, <1>6
    <3>3. QED
      BY <3>2 DEF Mapped
  <2>5. \A q : q \in Strays' <=> q \in Strays \/ (q = r /\ Opening(conn[m]))
    <3>1. ASSUME NEW q, q \in Strays' PROVE q \in Strays \/ (q = r /\ Opening(conn[m]))
      <4>1. PICK c \in Conns : conn'[c].id = q /\ Opening(conn'[c]) /\ ~Mapped(c)'
        BY <3>1, IdFacts
      <4>2. conn[c].id = q /\ Opening(conn[c]) /\ (Mapped(c) => c = m)
        BY <4>1, <1>10
      <4>3. CASE Mapped(c)
        BY <4>2, <4>3, <2>1
      <4>4. CASE ~Mapped(c)
        BY <4>2, <4>4, IdFacts
      <4>5. QED
        BY <4>3, <4>4
    <3>2. ASSUME NEW q, q \in Strays PROVE q \in Strays'
      BY <3>2, <1>10, IdFacts
    <3>3. Opening(conn[m]) => r \in Strays'
      <4>1. PICK d \in Conns : d = m
        BY <2>1
      <4>2. conn'[d] = conn[d] /\ conn[d].id = r /\ ~Mapped(d)'
        BY <4>1, <2>1, <2>4
      <4>3. QED
        BY <4>1, <4>2, IdFacts
    <3>4. QED
      BY <3>1, <3>2, <3>3
  <2>6. Strays' = IF StateOf[r] = "connecting" THEN Strays \cup {r} ELSE Strays
    <3>1. CASE StateOf[r] = "connecting"
      BY <3>1, <2>3, <2>5
    <3>2. CASE StateOf[r] # "connecting"
      BY <3>2, <2>3, <2>5
    <3>3. QED
      BY <3>1, <3>2
  <2>7. Links!Inserted(r)
    BY <2>6, <1>8, <1>9 DEF Links!Inserted
  <2>8. QED
    BY <2>7 DEF LinksStep, Links!LinksNext
<1>13. QED
  BY <1>11, <1>12

LEMMA CleanupLinks == ASSUME IInv, Cleanup PROVE LinksStep
<1>1. /\ conn \in [Conns -> Connection] /\ connections \in [Relays -> Conns \cup {NoConn}]
      /\ NoConn \notin Conns /\ NoRelay \notin Relays
  BY SctpAssumption DEF IInv, TypeOK
<1>2. /\ connections' = [r \in Relays |-> NoConn]
      /\ conn' = [c \in Conns |-> IF Mapped(c) THEN [conn[c] EXCEPT !.down = @ + 1] ELSE conn[c]]
  BY DEF Cleanup
<1>3. ASSUME NEW c \in Conns
      PROVE  /\ conn'[c].id = conn[c].id /\ conn'[c].onopen = conn[c].onopen
             /\ Opening(conn'[c]) <=> Opening(conn[c])
             /\ ~Mapped(c)'
  <2>1. conn[c] \in Connection
    BY <1>1
  <2>2. conn'[c] \in {conn[c], [conn[c] EXCEPT !.down = @ + 1]}
    BY <1>2
  <2>3. /\ conn'[c].id = conn[c].id /\ conn'[c].onopen = conn[c].onopen
        /\ Opening(conn'[c]) <=> Opening(conn[c])
    BY <2>1, <2>2 DEF Connection, Opening
  <2>4. ~Mapped(c)'
    BY <2>1, <2>3, <1>1, <1>2 DEF Mapped, Connection
  <2>5. QED
    BY <2>3, <2>4
<1>4. Reporting' = Reporting
  <2>1. \A q : q \in Reporting' <=> q \in Reporting
    BY <1>3, IdFacts
  <2>2. QED
    BY <2>1
<1>5. StateOf' = [r \in Relays |-> "none"]
  BY <1>2 DEF StateOf
<1>6. \A r : r \in Strays' <=> r \in Strays \/ (r \in Relays /\ StateOf[r] = "connecting")
  <2>1. ASSUME NEW r, r \in Strays', r \notin Strays PROVE r \in Relays /\ StateOf[r] = "connecting"
    <3>1. PICK c \in Conns : conn[c].id = r /\ Opening(conn[c]) /\ Mapped(c)
      BY <2>1, <1>3, IdFacts
    <3>2. Running(conn[c]) /\ Ordered(conn[c]) /\ r \in Relays
      BY <3>1, <1>1 DEF IInv, MappedRuns, Mapped, Connection
    <3>3. conn[c].state = "connecting"
      BY <3>1, <3>2 DEF Running, Ordered, Opening
    <3>4. QED
      BY <3>1, <3>2, <3>3, <1>1 DEF Mapped, StateOf
  <2>2. ASSUME NEW r, r \in Strays PROVE r \in Strays'
    BY <2>2, <1>3, IdFacts
  <2>3. ASSUME NEW r \in Relays, StateOf[r] = "connecting" PROVE r \in Strays'
    <3>1. connections[r] \in Conns /\ conn[connections[r]].id = r
          /\ conn[connections[r]].state = "connecting"
      BY <2>3, <1>1 DEF StateOf, IInv, MapNamesIds
    <3>2. Opening(conn[connections[r]])
      BY <3>1, <1>1 DEF IInv, MappedRuns, Mapped, Running
    <3>3. QED
      BY <3>1, <3>2, <1>3, IdFacts
  <2>4. QED
    BY <2>1, <2>2, <2>3
<1>7. Strays' = Strays \cup {r \in Relays : StateOf[r] = "connecting"}
  BY <1>6
<1>8. Links!Emptied
  BY <1>4, <1>5, <1>7 DEF Links!Emptied
<1>9. QED
  BY <1>8 DEF LinksStep, Links!LinksNext

LEMMA SameLinks == ASSUME UNCHANGED <<connections, conn>> PROVE LinksStep
BY DEF LinksStep, StateOf, Strays, Reporting, MayOpen, Mapped

LEMMA GoroutinesLinks == ASSUME IInv, Goroutines PROVE LinksStep
<1>1. ASSUME NEW r \in Relays, Configure(r) PROVE LinksStep
  BY <1>1, SameLinks, ConnectToRelayLinks DEF Configure, Lookup
<1>2. ASSUME NEW c \in Conns, Dial(c) PROVE LinksStep
  BY <1>2, DialledLinks, DialFailsLinks DEF Dial
<1>3. ASSUME NEW c \in Conns, Timer(c) PROVE LinksStep
  BY <1>3, TimerFiresLinks, TimedOutLinks, TimerStopsLinks DEF Timer
<1>4. ASSUME NEW c \in Conns, Callback(c) PROVE LinksStep
  BY <1>4, OnOpenLinks, OnConnectedLinks, OnCloseLinks DEF Callback
<1>5. ASSUME NEW c \in Conns, Teardown(c) PROVE LinksStep
  BY <1>5, TeardownClosesLinks, TeardownSkipsLinks, SameLinks DEF Teardown, TeardownPanics
<1>6. QED
  BY <1>1, <1>2, <1>3, <1>4, <1>5, KeepaliveEndsLinks DEF Goroutines

LEMMA LinksNextStep == IInv /\ [Next]_vars => [Links!LinksNext]_(Links!links)
<1> SUFFICES ASSUME IInv, [Next]_vars PROVE LinksStep
  BY DEF LinksStep, Links!links
<1>1. ASSUME NEW ids \in SUBSET Relays, ConnectRelays(ids) PROVE LinksStep
  BY <1>1, SameLinks DEF ConnectRelays
<1>2. CASE Network
  BY <1>2, WireOpensLinks, WireClosesLinks, IceFailsLinks DEF Network
<1>3. CASE UNCHANGED vars
  BY <1>3, SameLinks DEF vars
<1>4. QED
  BY <1>1, <1>2, <1>3, GoroutinesLinks, CleanupLinks DEF Next

(* The connection objects, with their goroutines, callbacks, timers and    *)
(* teardowns, do to the map, to the connections that left it and to the    *)
(* reports of OnOpen nothing but what CallManager is modelled to expect.   *)
THEOREM ObjectsImplementLinks == Spec => ImplementsLinks
<1>1. Init => Links!LinksInit
  <2> SUFFICES ASSUME Init PROVE Links!LinksInit
    OBVIOUS
  <2>1. \A c \in Conns : conn[c] = Unused
    BY DEF Init
  <2>2. StateOf = [r \in Relays |-> "none"]
    BY DEF Init, StateOf
  <2>3. Unused.onopen = "none" /\ ~Opening(Unused)
    BY DEF Unused, Opening
  <2>4. Strays = {} /\ Reporting = {}
    BY <2>1, <2>3, IdFacts
  <2>5. QED
    BY <2>2, <2>4 DEF Links!LinksInit
<1>2. QED
  BY <1>1, LinksNextStep, Invariant, PTL DEF Spec, ImplementsLinks, Links!LinksSpec
===============================================================================
