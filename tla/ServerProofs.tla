------------------------------ MODULE ServerProofs ------------------------------
(***************************************************************************)
(* Proofs about the parts of MCServer, for every value of the constants.   *)
(* EventStream, for every set of publishers and of streams, every size of  *)
(* a channel and every number of changes: no broadcast sends on a closed   *)
(* channel, and a browser which has read its channel shows the calls as    *)
(* they are.  Recording, for every set of calls and every number of takes: *)
(* what the database names is what is stored.  Requests: the answer tells  *)
(* what was done.  At the end, what was proved of the components is        *)
(* carried over to the specification of MCServer, whose runs check them.   *)
(***************************************************************************)
EXTENDS MCServer, SequenceTheorems, FiniteSetTheorems, TLAPS

(* The event stream.                                                       *)

(* The subscribers are the streams that are being served: Unsubscribe      *)
(* comes before the channel is closed.                                     *)
SubscribersAreServed == subs = {s \in Streams : connection[s] = "serving"}

(* A broadcast goes on under the read lock, so whom it has still to send   *)
(* to is still subscribed.                                                 *)
LeftAreSubscribed ==
  \A g \in Senders : /\ task[g].left \subseteq subs
                     /\ task[g].left # {} => task[g].at = "sending"

(* What is held or sent is what the task names first. *)
TaskIsPrepared ==
  \A g \in Senders :
    IF task[g].at = "idle" THEN task[g].event = OtherEvent
    ELSE task[g].todo # <<>> /\ (task[g].event # OtherEvent <=> Head(task[g].todo) = "list")

(* g will yet offer the table as it is to s: it has still to copy it, or   *)
(* it has copied it since the last change and not yet sent it to s.        *)
Owes(g, s) ==
  \/ task[g].at = "idle" /\ task[g].todo \in {<<"list">>, <<"event", "list">>, <<"list", "event">>}
  \/ task[g].todo = <<"event", "list">>
  \/ task[g].at = "holding" /\ task[g].event = version
  \/ task[g].at = "sending" /\ task[g].event = version /\ s \in task[g].left

NewestComes ==
  \A s \in Streams : connection[s] = "serving" =>
    newest[s] = version \/ \E g \in Senders : Owes(g, s)

NoListFrom(s, i) == \A j \in i .. Len(channel[s]) : channel[s][j] = OtherEvent

NothingIsNewer ==
  \A s \in Streams : \A i \in 1 .. Len(channel[s]) : channel[s][i] <= newest[s]

(* The last list in the channel, or the view if there is none, is the      *)
(* newest that was offered, unless the last one offered was dropped or     *)
(* overtaken.                                                              *)
LastListIsNewest ==
  \A s \in Streams : ~behind[s] =>
    \/ view[s] = newest[s] /\ NoListFrom(s, 1)
    \/ \E i \in 1 .. Len(channel[s]) :
         channel[s][i] = newest[s] /\ newest[s] # OtherEvent /\ NoListFrom(s, i + 1)

IInv ==
  /\ StreamTypeOK
  /\ SubscribersAreServed
  /\ LeftAreSubscribed
  /\ TaskIsPrepared
  /\ NewestComes
  /\ NothingIsNewer
  /\ LastListIsNewest

------------------------------------------------------------------------------
(* Tasks *)

LEMMA TodoFacts ==
  /\ <<>> \in Todos /\ <<"list">> \in Todos /\ <<"event">> \in Todos
  /\ <<"list", "event">> \in Todos /\ <<"event", "list">> \in Todos
  /\ \A t \in Todos : t # <<>> =>
       /\ Tail(t) \in Todos
       /\ Head(t) \in {"list", "event"}
       /\ Head(t) = "list" <=> t \in {<<"list">>, <<"list", "event">>}
       /\ t = <<"event", "list">> => Tail(t) = <<"list">>
       /\ t # <<"event", "list">> => Tail(t) \in {<<>>, <<"event">>}
  /\ <<>> \notin {<<"list">>, <<"event", "list">>, <<"list", "event">>}
<1>1. ASSUME NEW t \in Todos, t # <<>>
      PROVE  /\ Tail(t) \in Todos
             /\ Head(t) \in {"list", "event"}
             /\ Head(t) = "list" <=> t \in {<<"list">>, <<"list", "event">>}
             /\ t = <<"event", "list">> => Tail(t) = <<"list">>
             /\ t # <<"event", "list">> => Tail(t) \in {<<>>, <<"event">>}
  <2>1. CASE t = <<"event">>
    BY <2>1 DEF Todos
  <2>2. CASE t = <<"list">>
    BY <2>2 DEF Todos
  <2>3. CASE t = <<"event", "list">>
    BY <2>3 DEF Todos
  <2>4. CASE t = <<"list", "event">>
    BY <2>4 DEF Todos
  <2>5. QED
    BY <1>1, <2>1, <2>2, <2>3, <2>4 DEF Todos
<1>2. QED
  BY <1>1 DEF Todos

LEMMA TaskFacts ==
  /\ Free \in Task
  /\ \A t \in Task, todo \in Todos : [t EXCEPT !.todo = todo] \in Task
  /\ \A t \in Task, e \in OtherEvent .. MaxVersion :
       [t EXCEPT !.at = "holding", !.event = e] \in Task
  /\ \A t \in Task, ss \in SUBSET Streams : [t EXCEPT !.at = "sending", !.left = ss] \in Task
  /\ \A t \in Task, ss \in SUBSET Streams : [t EXCEPT !.left = ss] \in Task
  /\ \A todo \in Todos : [Free EXCEPT !.todo = todo] \in Task
<1>1. Free \in Task
  BY TodoFacts, StreamsAssumption DEF Free, Task, OtherEvent
<1> HIDE DEF Free
<1>2. QED
  BY <1>1 DEF Task

------------------------------------------------------------------------------
(* A step of a publisher changes nothing of a stream but what is owed to it.*)

LEMMA TypeInit == StreamInit => StreamTypeOK
<1> SUFFICES ASSUME StreamInit PROVE StreamTypeOK
  OBVIOUS
<1>1. <<>> \in Seq(OtherEvent .. version) /\ Len(<<>>) = 0
  OBVIOUS
<1>2. task \in [Senders -> Task] /\ \A g \in Senders : task[g].event = 0
  BY TaskFacts DEF StreamInit, Free, OtherEvent
<1>3. QED
  BY <1>1, <1>2, StreamsAssumption DEF StreamInit, StreamTypeOK, OtherEvent

LEMMA InitInv == StreamInit => IInv
<1> SUFFICES ASSUME StreamInit PROVE IInv
  OBVIOUS
<1>1. \A g \in Senders : task[g].at = "idle" /\ task[g].event = OtherEvent /\ task[g].left = {}
  BY DEF StreamInit, Free
<1>2. SubscribersAreServed /\ NewestComes
  BY DEF StreamInit, SubscribersAreServed, NewestComes
<1>3. LeftAreSubscribed /\ TaskIsPrepared
  BY <1>1 DEF LeftAreSubscribed, TaskIsPrepared
<1>4. NothingIsNewer /\ LastListIsNewest
  BY DEF StreamInit, NothingIsNewer, LastListIsNewest, NoListFrom
<1>5. QED
  BY TypeInit, <1>2, <1>3, <1>4 DEF IInv

(* What a step that touches no stream has to respect: the task it leaves   *)
(* is well-formed, and it owes what was owed; a change of the table owes   *)
(* the new list to everybody.                                              *)
LEMMA TaskStep ==
  ASSUME IInv, NEW g \in Senders, NEW t \in Task, task' = [task EXCEPT ![g] = t],
         UNCHANGED <<subs, channel, connection, view, newest, behind>>,
         \/ version' = version + 1 /\ version < MaxVersion /\ Owes(g, g)' /\ t.at = "idle"
         \/ /\ version' = version
            /\ \A s \in subs : Owes(g, s) => Owes(g, s)',
         t.event <= version, t.left \subseteq subs, t.left # {} => t.at = "sending",
         IF t.at = "idle" THEN t.event = OtherEvent
         ELSE t.todo # <<>> /\ (t.event # OtherEvent <=> Head(t.todo) = "list")
  PROVE  IInv'
<1>1. /\ task \in [Senders -> Task] /\ version \in 1 .. MaxVersion
      /\ version' \in 1 .. MaxVersion /\ version <= version'
  BY StreamsAssumption DEF IInv, StreamTypeOK
<1>2. task' \in [Senders -> Task] /\ task'[g] = t /\ \A h \in Senders : h # g => task'[h] = task[h]
  BY <1>1
<1>3. StreamTypeOK'
  <2>1. \A s \in Streams : channel[s] \in Seq(OtherEvent .. version) => channel[s] \in Seq(OtherEvent .. version')
    BY <1>1 DEF OtherEvent
  <2>2. channel \in [Streams -> Seq(OtherEvent .. version')]
    BY <2>1 DEF IInv, StreamTypeOK
  <2>3. view \in [Streams -> 0 .. version'] /\ newest \in [Streams -> 0 .. version']
    BY <1>1 DEF IInv, StreamTypeOK
  <2>4. \A h \in Senders : task'[h].event <= version'
    <3>1. \A h \in Senders : task[h].event \in OtherEvent .. MaxVersion /\ task[h].event <= version
      BY <1>1 DEF IInv, StreamTypeOK, Task
    <3>2. t.event \in OtherEvent .. MaxVersion
      BY DEF Task
    <3>3. QED
      BY <1>1, <1>2, <3>1, <3>2 DEF OtherEvent
  <2>5. QED
    BY <1>1, <1>2, <2>2, <2>3, <2>4 DEF IInv, StreamTypeOK
<1>4. SubscribersAreServed' /\ NothingIsNewer' /\ LastListIsNewest'
  BY DEF IInv, SubscribersAreServed, NothingIsNewer, LastListIsNewest, NoListFrom
<1>5. LeftAreSubscribed' /\ TaskIsPrepared'
  BY <1>2 DEF IInv, LeftAreSubscribed, TaskIsPrepared
<1>6. NewestComes'
  <2> SUFFICES ASSUME NEW s \in Streams, connection[s] = "serving"
               PROVE  newest[s] = version' \/ \E h \in Senders : Owes(h, s)'
    BY DEF NewestComes
  <2>1. CASE version' = version + 1
    <3>1. Owes(g, g)' /\ task'[g].at = "idle"
      BY <2>1, <1>1, <1>2
    <3>2. Owes(g, s)'
      BY <3>1 DEF Owes
    <3>3. QED
      BY <3>2
  <2>2. CASE version' = version /\ \A x \in subs : Owes(g, x) => Owes(g, x)'
    <3>1. s \in subs
      BY DEF IInv, SubscribersAreServed
    <3>2. ASSUME NEW h \in Senders, Owes(h, s) PROVE Owes(h, s)'
      <4>1. CASE h = g
        BY <4>1, <3>1, <3>2, <2>2
      <4>2. CASE h # g
        BY <4>2, <3>2, <2>2, <1>2 DEF Owes
      <4>3. QED
        BY <4>1, <4>2
    <3>3. QED
      BY <3>2, <2>2 DEF IInv, NewestComes
  <2>3. QED
    BY <2>1, <2>2
<1>7. QED
  BY <1>3, <1>4, <1>5, <1>6 DEF IInv

LEMMA StartsFacts ==
  ASSUME NEW g \in Senders, NEW todo \in Todos, Starts(g, todo)
  PROVE  LET t == [Free EXCEPT !.todo = todo]
         IN  /\ task' = [task EXCEPT ![g] = t] /\ task[g] = Free
             /\ t \in Task /\ t.at = "idle" /\ t.event = OtherEvent /\ t.left = {} /\ t.todo = todo
<1>1. task' = [task EXCEPT ![g] = [Free EXCEPT !.todo = todo]]
  BY DEF Starts
<1>2. QED
  BY <1>1, TaskFacts DEF Free, Starts

LEMMA ChangeInv ==
  ASSUME IInv, NEW g \in Senders, NEW todo \in {<<"list", "event">>, <<"event", "list">>},
         Changes, Starts(g, todo), UNCHANGED <<subs, channel, connection, view, newest, behind>>
  PROVE  IInv'
<1> DEFINE t == [Free EXCEPT !.todo = todo]
<1>1. /\ task' = [task EXCEPT ![g] = t] /\ t \in Task /\ t.at = "idle" /\ t.event = OtherEvent
      /\ t.left = {} /\ t.todo = todo
  BY TodoFacts, StartsFacts
<1> HIDE DEF t
<1>2. version' = version + 1 /\ version < MaxVersion /\ version \in 1 .. MaxVersion
  BY DEF Changes, IInv, StreamTypeOK
<1>3. task'[g] = t
  BY <1>1 DEF IInv, StreamTypeOK
<1>4. Owes(g, g)'
  BY <1>1, <1>3 DEF Owes
<1>5. t.event <= version /\ t.left \subseteq subs
  BY <1>1, <1>2, StreamsAssumption DEF OtherEvent
<1>6. QED
  BY <1>1, <1>2, <1>4, <1>5, TaskStep

LEMMA EmitEventInv == ASSUME IInv, NEW g \in Senders, emitEvent(g) PROVE IInv'
<1> DEFINE t == [Free EXCEPT !.todo = <<"event">>]
<1>1. /\ task' = [task EXCEPT ![g] = t] /\ t \in Task /\ t.at = "idle" /\ t.event = OtherEvent
      /\ t.left = {} /\ t.todo = <<"event">> /\ task[g] = Free
  BY TodoFacts, StartsFacts DEF emitEvent
<1> HIDE DEF t
<1>2. \A s : ~Owes(g, s)
  BY <1>1, TodoFacts DEF Owes, Free
<1>3. version \in 1 .. MaxVersion
  BY DEF IInv, StreamTypeOK
<1>4. t.event <= version /\ t.left \subseteq subs
  BY <1>1, <1>3, StreamsAssumption DEF OtherEvent
<1>5. QED
  BY <1>1, <1>2, <1>4, TaskStep DEF emitEvent

LEMMA PrepareInv == ASSUME IInv, NEW g \in Senders, Prepare(g) PROVE IInv'
<1> DEFINE e == IF Head(task[g].todo) = "list" THEN version ELSE OtherEvent
           t == [task[g] EXCEPT !.at = "holding", !.event = e]
<1>1. task \in [Senders -> Task] /\ version \in 1 .. MaxVersion /\ MaxVersion \in Nat
  BY StreamsAssumption DEF IInv, StreamTypeOK
<1>2. e \in OtherEvent .. MaxVersion /\ e <= version /\ (e # OtherEvent <=> Head(task[g].todo) = "list")
      /\ (e = version <=> Head(task[g].todo) = "list")
  BY <1>1 DEF OtherEvent
<1> HIDE DEF e
<1>3. /\ task' = [task EXCEPT ![g] = t] /\ t \in Task /\ t.at = "holding" /\ t.event = e
      /\ t.left = task[g].left /\ t.todo = task[g].todo
  <2>1. t \in Task
    BY <1>1, <1>2, TaskFacts
  <2>2. task' = [task EXCEPT ![g] = t]
    BY <1>1 DEF Prepare, e
  <2>3. QED
    BY <2>1, <2>2, <1>1 DEF Task
<1> HIDE DEF t
<1>4. task[g].at = "idle" /\ task[g].todo # <<>> /\ task[g].todo \in Todos /\ t.left = {}
  BY <1>1, <1>3 DEF Prepare, IInv, LeftAreSubscribed, Task
<1>5. ASSUME NEW s \in subs, Owes(g, s) PROVE Owes(g, s)'
  <2>1. task'[g] = t /\ version' = version
    BY <1>1, <1>3 DEF Prepare
  <2>2. CASE task[g].todo = <<"event", "list">>
    BY <2>1, <2>2, <1>3 DEF Owes
  <2>3. CASE Head(task[g].todo) = "list"
    BY <2>1, <2>3, <1>2, <1>3 DEF Owes
  <2>4. task[g].todo = <<"event", "list">> \/ Head(task[g].todo) = "list"
    BY <1>4, <1>5, TodoFacts DEF Owes
  <2>5. QED
    BY <2>2, <2>3, <2>4
<1>6. QED
  BY <1>2, <1>3, <1>4, <1>5, TaskStep DEF Prepare

LEMMA BroadcastInv == ASSUME IInv, NEW g \in Senders, Broadcast(g) PROVE IInv'
<1> DEFINE t == [task[g] EXCEPT !.at = "sending", !.left = subs]
<1>1. /\ task \in [Senders -> Task] /\ version \in 1 .. MaxVersion /\ subs \in SUBSET Streams
      /\ task[g].event <= version
  BY DEF IInv, StreamTypeOK
<1>2. /\ task' = [task EXCEPT ![g] = t] /\ t \in Task /\ t.at = "sending" /\ t.left = subs
      /\ t.event = task[g].event /\ t.todo = task[g].todo
  <2>1. t \in Task
    BY <1>1, TaskFacts
  <2>2. task' = [task EXCEPT ![g] = t]
    BY <1>1 DEF Broadcast
  <2>3. QED
    BY <2>1, <2>2, <1>1 DEF Task
<1> HIDE DEF t
<1>3. task[g].at = "holding" /\ task[g].todo # <<>>
      /\ (task[g].event # OtherEvent <=> Head(task[g].todo) = "list")
  BY DEF Broadcast, IInv, TaskIsPrepared
<1>4. ASSUME NEW s \in subs, Owes(g, s) PROVE Owes(g, s)'
  <2>1. task'[g] = t /\ version' = version
    BY <1>1, <1>2 DEF Broadcast
  <2>2. QED
    BY <2>1, <1>2, <1>3, <1>4 DEF Owes
<1>5. QED
  BY <1>1, <1>2, <1>3, <1>4, TaskStep DEF Broadcast

LEMMA FinishInv == ASSUME IInv, NEW g \in Senders, Finish(g) PROVE IInv'
<1> DEFINE t == [Free EXCEPT !.todo = Tail(task[g].todo)]
<1>1. task \in [Senders -> Task] /\ version \in 1 .. MaxVersion /\ task[g].todo \in Todos
  BY DEF IInv, StreamTypeOK, Task
<1>2. /\ task[g].at = "sending" /\ task[g].left = {} /\ task[g].todo # <<>>
      /\ task' = [task EXCEPT ![g] = t] /\ version' = version
  BY DEF Finish, IInv, TaskIsPrepared
<1>3. Tail(task[g].todo) \in Todos
  BY <1>1, <1>2, TodoFacts
<1>4. t \in Task /\ t.at = "idle" /\ t.event = OtherEvent /\ t.left = {} /\ t.todo = Tail(task[g].todo)
  BY <1>3, TaskFacts DEF Free
<1> HIDE DEF t
<1>5. ASSUME NEW s \in subs, Owes(g, s) PROVE Owes(g, s)'
  <2>1. task'[g] = t
    BY <1>1, <1>2
  <2>2. task[g].todo = <<"event", "list">>
    BY <1>2, <1>5 DEF Owes
  <2>3. t.todo = <<"list">>
    BY <1>1, <1>2, <1>4, <2>2, TodoFacts
  <2>4. QED
    BY <2>1, <2>3, <1>4 DEF Owes
<1>6. t.event <= version /\ t.left \subseteq subs
  BY <1>1, <1>4, StreamsAssumption DEF OtherEvent
<1>7. QED
  BY <1>2, <1>4, <1>5, <1>6, TaskStep DEF Finish

------------------------------------------------------------------------------
(* Deliver: the channel of one subscriber, and what was offered to it. *)

LEMMA DeliverInv == ASSUME IInv, NEW g \in Senders, Deliver(g) PROVE IInv'
<1>1. PICK s \in task[g].left :
        /\ task' = [task EXCEPT ![g].left = @ \ {s}]
        /\ channel' = [channel EXCEPT ![s] = IF Len(channel[s]) < ChannelSize
                                             THEN Append(@, task[g].event) ELSE @]
        /\ IF task[g].event = OtherEvent THEN UNCHANGED <<newest, behind>>
           ELSE /\ newest' = [newest EXCEPT ![s] = IF task[g].event > @ THEN task[g].event ELSE @]
                /\ behind' = [behind EXCEPT ![s] = ~(Len(channel[s]) < ChannelSize)
                                                   \/ task[g].event < newest[s]]
  BY DEF Deliver
<1> DEFINE e == task[g].event
           room == Len(channel[s]) < ChannelSize
           c == IF room THEN Append(channel[s], e) ELSE channel[s]
           t == [task[g] EXCEPT !.left = @ \ {s}]
           n == IF e > newest[s] THEN e ELSE newest[s]
           b == ~room \/ e < newest[s]
<1>2. /\ task \in [Senders -> Task] /\ version \in Nat /\ task[g] \in Task
      /\ channel \in [Streams -> Seq(OtherEvent .. version)]
      /\ newest \in [Streams -> 0 .. version] /\ view \in [Streams -> 0 .. version]
      /\ behind \in [Streams -> BOOLEAN] /\ ChannelSize \in Nat
      /\ s \in Streams /\ s \in subs /\ task[g].at = "sending"
      /\ Len(channel[s]) <= ChannelSize /\ view[s] <= newest[s]
      /\ version' = version /\ UNCHANGED <<subs, connection, view>>
  BY <1>1, StreamsAssumption DEF IInv, StreamTypeOK, LeftAreSubscribed, Task, Deliver
<1>3. e \in OtherEvent .. version
  BY <1>2, StreamsAssumption DEF IInv, StreamTypeOK, Task, OtherEvent
<1>4. /\ task' = [task EXCEPT ![g] = t] /\ t \in Task /\ t.at = "sending" /\ t.event = e
      /\ t.left = task[g].left \ {s} /\ t.todo = task[g].todo
  <2>1. task[g].left \ {s} \in SUBSET Streams
    BY <1>2 DEF Task
  <2>2. t \in Task
    BY <2>1, <1>2, TaskFacts
  <2>3. QED
    BY <2>2, <1>1, <1>2 DEF Task
<1>5. task'[g] = t /\ \A h \in Senders : h # g => task'[h] = task[h]
  BY <1>2, <1>4
<1>6. /\ channel' = [channel EXCEPT ![s] = c]
      /\ e # OtherEvent => newest' = [newest EXCEPT ![s] = n] /\ behind' = [behind EXCEPT ![s] = b]
      /\ e = OtherEvent => UNCHANGED <<newest, behind>>
  BY <1>1, <1>2
<1>7. c \in Seq(OtherEvent .. version) /\ Len(c) <= ChannelSize
      /\ channel[s] \in Seq(OtherEvent .. version) /\ Len(channel[s]) \in Nat
  <2>1. channel[s] \in Seq(OtherEvent .. version) /\ Len(channel[s]) \in Nat
    BY <1>2
  <2>2. /\ Append(channel[s], e) \in Seq(OtherEvent .. version)
        /\ Len(Append(channel[s], e)) = Len(channel[s]) + 1
    BY <2>1, <1>3
  <2>3. CASE room
    BY <2>1, <2>2, <2>3, <1>2
  <2>4. CASE ~room
    BY <2>1, <2>4, <1>2
  <2>5. QED
    BY <2>3, <2>4
<1>8. n \in 0 .. version /\ n >= newest[s] /\ b \in BOOLEAN /\ (n = e \/ b)
  BY <1>2, <1>3 DEF OtherEvent
<1>9. /\ room => /\ Len(c) = Len(channel[s]) + 1 /\ c[Len(channel[s]) + 1] = e
                 /\ \A i \in 1 .. Len(channel[s]) : c[i] = channel[s][i]
      /\ ~room => c = channel[s] /\ b
  BY <1>2, <1>3
<1> HIDE DEF t, c, n, room
<1>10. \A x \in Streams : x # s => /\ channel'[x] = channel[x] /\ newest'[x] = newest[x]
                                   /\ behind'[x] = behind[x]
  BY <1>2, <1>6
<1>11. /\ channel'[s] = c
       /\ e # OtherEvent => newest'[s] = n /\ behind'[s] = b
       /\ e = OtherEvent => newest'[s] = newest[s] /\ behind'[s] = behind[s]
  BY <1>2, <1>6
<1>12. StreamTypeOK'
  <2>1. task' \in [Senders -> Task] /\ channel' \in [Streams -> Seq(OtherEvent .. version)]
    BY <1>2, <1>4, <1>6, <1>7
  <2>2. newest' \in [Streams -> 0 .. version] /\ behind' \in [Streams -> BOOLEAN]
    <3>1. CASE e = OtherEvent
      BY <3>1, <1>2, <1>6
    <3>2. CASE e # OtherEvent
      <4>1. newest' \in [Streams -> 0 .. version]
        BY <3>2, <1>2, <1>6, <1>8
      <4> HIDE DEF b
      <4>2. behind' \in [Streams -> BOOLEAN]
        BY <3>2, <1>2, <1>6, <1>8, Zenon
      <4>3. QED
        BY <4>1, <4>2
    <3>3. QED
      BY <3>1, <3>2
  <2>3. \A x \in Streams : Len(channel'[x]) <= ChannelSize /\ view'[x] <= newest'[x]
    <3>1. Len(channel'[s]) <= ChannelSize /\ view'[s] <= newest'[s]
      BY <1>2, <1>7, <1>8, <1>11
    <3>2. QED
      BY <3>1, <1>2, <1>10 DEF IInv, StreamTypeOK
  <2>4. \A h \in Senders : task'[h].event <= version
    BY <1>4, <1>5 DEF IInv, StreamTypeOK
  <2>5. QED
    BY <2>1, <2>2, <2>3, <2>4, <1>2 DEF IInv, StreamTypeOK
<1>13. SubscribersAreServed'
  BY <1>2 DEF IInv, SubscribersAreServed
<1>14. LeftAreSubscribed' /\ TaskIsPrepared'
  BY <1>2, <1>4, <1>5 DEF IInv, LeftAreSubscribed, TaskIsPrepared
<1>15. NewestComes'
  <2> SUFFICES ASSUME NEW x \in Streams, connection[x] = "serving"
               PROVE  newest'[x] = version \/ \E h \in Senders : Owes(h, x)'
    BY <1>2 DEF NewestComes
  <2>1. CASE \E h \in Senders : Owes(h, x)
    <3>1. PICK h \in Senders : Owes(h, x)
      BY <2>1
    <3>2. CASE h # g
      BY <3>1, <3>2, <1>2, <1>5 DEF Owes
    <3>3. CASE h = g /\ (x # s \/ task[g].todo = <<"event", "list">>)
      BY <3>1, <3>3, <1>2, <1>4, <1>5 DEF Owes
    <3>4. CASE h = g /\ x = s /\ task[g].todo # <<"event", "list">>
      <4>1. e = version /\ e # OtherEvent
        BY <3>1, <3>4, <1>2 DEF Owes, OtherEvent, IInv, StreamTypeOK
      <4>2. newest'[s] = version
        BY <4>1, <1>2, <1>11 DEF n
      <4>3. QED
        BY <3>4, <4>2
    <3>5. QED
      BY <3>2, <3>3, <3>4
  <2>2. CASE newest[x] = version
    <3>1. newest'[x] >= newest[x] /\ newest'[x] \in 0 .. version /\ newest[x] \in 0 .. version
      BY <1>2, <1>8, <1>10, <1>11, SMTT(60)
    <3>2. QED
      BY <3>1, <2>2, <1>2
  <2>3. QED
    BY <2>1, <2>2 DEF IInv, NewestComes
<1>16. LastListIsNewest'
  <2> SUFFICES ASSUME NEW x \in Streams, ~behind'[x]
               PROVE  \/ view'[x] = newest'[x] /\ NoListFrom(x, 1)'
                      \/ \E i \in 1 .. Len(channel'[x]) :
                           /\ channel'[x][i] = newest'[x] /\ newest'[x] # OtherEvent
                           /\ NoListFrom(x, i + 1)'
    BY DEF LastListIsNewest
  <2>1. CASE x # s
    <3>1. \/ view[x] = newest[x] /\ NoListFrom(x, 1)
          \/ \E i \in 1 .. Len(channel[x]) :
               channel[x][i] = newest[x] /\ newest[x] # OtherEvent /\ NoListFrom(x, i + 1)
      BY <2>1, <1>10 DEF IInv, LastListIsNewest
    <3>2. QED
      BY <2>1, <3>1, <1>2, <1>10 DEF NoListFrom
  <2>2. CASE x = s /\ e # OtherEvent
    <3>1. room /\ n = e /\ newest'[s] = e
      BY <2>2, <1>8, <1>9, <1>11
    <3>2. PICK k \in Nat \ {0} : k = Len(channel[s]) + 1
      BY <1>7
    <3>3. channel'[s][k] = e /\ Len(channel'[s]) = k /\ k \in 1 .. Len(channel'[s])
      BY <3>1, <3>2, <1>9, <1>11
    <3>4. NoListFrom(s, k + 1)'
      BY <3>3 DEF NoListFrom
    <3>5. QED
      BY <2>2, <3>1, <3>2, <3>3, <3>4
  <2>3. CASE x = s /\ e = OtherEvent
    <3>1. /\ ~behind[s] /\ newest'[s] = newest[s] /\ view'[s] = view[s]
          /\ \A i \in 1 .. Len(channel[s]) : channel'[s][i] = channel[s][i]
          /\ Len(channel'[s]) \in {Len(channel[s]), Len(channel[s]) + 1}
          /\ \A i \in Len(channel[s]) + 1 .. Len(channel'[s]) : channel'[s][i] = OtherEvent
      BY <2>3, <1>2, <1>7, <1>9, <1>11
    <3>2. CASE view[s] = newest[s] /\ NoListFrom(s, 1)
      BY <2>3, <3>1, <3>2, <1>7 DEF NoListFrom
    <3>3. CASE \E i \in 1 .. Len(channel[s]) :
                 channel[s][i] = newest[s] /\ newest[s] # OtherEvent /\ NoListFrom(s, i + 1)
      <4>1. PICK i \in 1 .. Len(channel[s]) :
              channel[s][i] = newest[s] /\ newest[s] # OtherEvent /\ NoListFrom(s, i + 1)
        BY <3>3
      <4>2. i \in 1 .. Len(channel'[s]) /\ channel'[s][i] = newest'[s] /\ newest'[s] # OtherEvent
        BY <4>1, <3>1, <1>7
      <4>3. NoListFrom(s, i + 1)'
        <5>1. ASSUME NEW j \in i + 1 .. Len(channel'[s]) PROVE channel'[s][j] = OtherEvent
          <6>1. CASE j <= Len(channel[s])
            <7>1. j \in i + 1 .. Len(channel[s]) /\ j \in 1 .. Len(channel[s])
              BY <6>1, <1>7
            <7>2. QED
              BY <7>1, <4>1, <3>1 DEF NoListFrom
          <6>2. CASE j > Len(channel[s])
            <7>1. j \in Len(channel[s]) + 1 .. Len(channel'[s])
              BY <6>2, <1>7
            <7>2. QED
              BY <7>1, <3>1
          <6>3. QED
            BY <6>1, <6>2, <1>7
        <5>2. QED
          BY <5>1 DEF NoListFrom
      <4>4. QED
        BY <2>3, <4>2, <4>3
    <3>4. QED
      BY <3>1, <3>2, <3>3, <1>2 DEF IInv, LastListIsNewest
  <2>4. QED
    BY <2>1, <2>2, <2>3
<1>17. NothingIsNewer'
  <2>1. newest'[s] >= newest[s] /\ newest'[s] \in Nat /\ newest[s] \in Nat
        /\ (e = OtherEvent \/ newest'[s] >= e)
    BY <1>2, <1>3, <1>8, <1>11 DEF n, OtherEvent
  <2>2. \A i \in 1 .. Len(channel[s]) : channel[s][i] \in Nat /\ channel[s][i] <= newest[s]
    BY <1>2, <1>7, StreamsAssumption DEF IInv, NothingIsNewer, OtherEvent
  <2>3. \A i \in 1 .. Len(c) : c[i] <= newest'[s]
    <3>1. CASE room
      BY <3>1, <2>1, <2>2, <1>3, <1>7, <1>9, SMTT(30), ZenonT(60) DEF OtherEvent
    <3>2. CASE ~room
      BY <3>2, <2>1, <2>2, <1>9
    <3>3. QED
      BY <3>1, <3>2
  <2>4. QED
    BY <2>3, <1>10, <1>11 DEF IInv, NothingIsNewer
<1>18. QED
  BY <1>12, <1>13, <1>14, <1>15, <1>16, <1>17 DEF IInv

------------------------------------------------------------------------------
(* The streams *)

LEMMA SubscribeInv == ASSUME IInv, NEW s \in Streams, Subscribe(s) PROVE IInv'
<1> DEFINE t == [Free EXCEPT !.todo = <<"list">>]
<1>1. s \in Senders /\ <<"list">> \in Todos
  BY TodoFacts DEF Senders
<1>2. /\ task' = [task EXCEPT ![s] = t] /\ t \in Task /\ t.at = "idle" /\ t.event = OtherEvent
      /\ t.left = {} /\ t.todo = <<"list">> /\ task[s] = Free
  BY <1>1, StartsFacts DEF Subscribe
<1> HIDE DEF t
<1>3. /\ task \in [Senders -> Task] /\ connection[s] = "new"
      /\ connection \in [Streams -> {"new", "serving", "leaving", "closed"}]
      /\ connection' = [connection EXCEPT ![s] = "serving"]
      /\ subs' = subs \cup {s} /\ subs \subseteq Streams
      /\ UNCHANGED <<version, channel, view, newest, behind>>
  BY DEF Subscribe, IInv, StreamTypeOK
<1>4. task'[s] = t /\ \A h \in Senders : h # s => task'[h] = task[h]
  BY <1>1, <1>2, <1>3
<1>5. \A h \in Senders : task[h].left = {}
  BY DEF IInv, LeftAreSubscribed, Subscribe, ReadLocked
<1>6. StreamTypeOK'
  <2>1. \A h \in Senders : task'[h].event <= version
    BY <1>2, <1>4, StreamsAssumption DEF IInv, StreamTypeOK, OtherEvent
  <2>2. task' \in [Senders -> Task]
    BY <1>2, <1>3
  <2>3. QED
    BY <2>1, <2>2, <1>3 DEF IInv, StreamTypeOK
<1>7. SubscribersAreServed'
  BY <1>3 DEF IInv, SubscribersAreServed
<1>8. LeftAreSubscribed' /\ TaskIsPrepared'
  BY <1>2, <1>4, <1>5 DEF IInv, LeftAreSubscribed, TaskIsPrepared
<1>9. NewestComes'
  <2> SUFFICES ASSUME NEW x \in Streams PROVE \E h \in Senders : Owes(h, x)'
    BY DEF NewestComes
  <2>1. Owes(s, x)'
    BY <1>2, <1>4 DEF Owes
  <2>2. QED
    BY <2>1, <1>1
<1>10. NothingIsNewer' /\ LastListIsNewest'
  BY <1>3 DEF IInv, NothingIsNewer, LastListIsNewest, NoListFrom
<1>11. QED
  BY <1>6, <1>7, <1>8, <1>9, <1>10 DEF IInv

LEMMA ServeInv == ASSUME IInv, NEW s \in Streams, Serve(s) PROVE IInv'
<1> DEFINE c == Tail(channel[s])
           e == Head(channel[s])
           v == IF e = OtherEvent THEN view[s] ELSE e
<1>1. /\ channel \in [Streams -> Seq(OtherEvent .. version)] /\ version \in Nat
      /\ view \in [Streams -> 0 .. version] /\ newest \in [Streams -> 0 .. version]
      /\ view[s] <= newest[s] /\ ChannelSize \in Nat
      /\ channel[s] \in Seq(OtherEvent .. version) /\ channel[s] # <<>> /\ Len(channel[s]) <= ChannelSize
      /\ channel' = [channel EXCEPT ![s] = c] /\ view' = [view EXCEPT ![s] = v]
      /\ UNCHANGED <<version, subs, connection, task, newest, behind>>
  BY StreamsAssumption DEF Serve, IInv, StreamTypeOK
<1>2. /\ c \in Seq(OtherEvent .. version) /\ Len(c) = Len(channel[s]) - 1 /\ Len(channel[s]) \in Nat \ {0}
      /\ \A i \in 1 .. Len(c) : c[i] = channel[s][i + 1]
      /\ e = channel[s][1] /\ e \in OtherEvent .. version
  <2> DEFINE S == OtherEvent .. version
             q == channel[s]
  <2>1. q \in Seq(S) /\ q # <<>>
    BY <1>1
  <2> HIDE DEF S, q
  <2>2. /\ Head(q) \in S /\ Head(q) = q[1] /\ Tail(q) \in Seq(S)
        /\ Len(Tail(q)) = Len(q) - 1 /\ Len(q) \in Nat \ {0}
        /\ \A i \in 1 .. Len(Tail(q)) : Tail(q)[i] = q[i + 1]
    BY <2>1
  <2>3. QED
    BY <2>2 DEF S, q
<1> HIDE DEF c, e
<1>3. /\ channel'[s] = c /\ view'[s] = v
      /\ \A x \in Streams : x # s => channel'[x] = channel[x] /\ view'[x] = view[x]
  BY <1>1
<1>4. e <= newest[s] /\ v \in 0 .. version /\ v <= newest[s]
      /\ \A i \in 1 .. Len(c) : c[i] <= newest[s]
  <2>1. \A i \in 1 .. Len(channel[s]) : channel[s][i] <= newest[s]
    BY DEF IInv, NothingIsNewer
  <2>2. e <= newest[s]
    BY <2>1, <1>2
  <2>3. \A i \in 1 .. Len(c) : i + 1 \in 1 .. Len(channel[s])
    BY <1>2
  <2>4. \A i \in 1 .. Len(c) : c[i] <= newest[s]
    BY <2>1, <2>3, <1>2
  <2>5. v \in 0 .. version /\ v <= newest[s]
    BY <2>2, <1>1, <1>2 DEF OtherEvent
  <2>6. QED
    BY <2>2, <2>4, <2>5
<1> HIDE DEF v
<1>5. StreamTypeOK'
  <2>1. channel' \in [Streams -> Seq(OtherEvent .. version)] /\ view' \in [Streams -> 0 .. version]
    BY <1>1, <1>2, <1>4
  <2>2. \A x \in Streams : Len(channel'[x]) <= ChannelSize /\ view'[x] <= newest[x]
    <3>1. Len(channel'[s]) <= ChannelSize /\ view'[s] <= newest[s]
      BY <1>1, <1>2, <1>3, <1>4
    <3>2. QED
      BY <3>1, <1>3 DEF IInv, StreamTypeOK
  <2>3. QED
    BY <2>1, <2>2, <1>1 DEF IInv, StreamTypeOK
<1>6. SubscribersAreServed' /\ LeftAreSubscribed' /\ TaskIsPrepared' /\ NewestComes'
  BY <1>1 DEF IInv, SubscribersAreServed, LeftAreSubscribed, TaskIsPrepared, NewestComes, Owes
<1>7. NothingIsNewer'
  BY <1>1, <1>3, <1>4 DEF IInv, NothingIsNewer
<1>8. LastListIsNewest'
  <2> SUFFICES ASSUME NEW x \in Streams, ~behind'[x]
               PROVE  \/ view'[x] = newest'[x] /\ NoListFrom(x, 1)'
                      \/ \E i \in 1 .. Len(channel'[x]) :
                           /\ channel'[x][i] = newest'[x] /\ newest'[x] # OtherEvent
                           /\ NoListFrom(x, i + 1)'
    BY DEF LastListIsNewest
  <2>1. \/ view[x] = newest[x] /\ NoListFrom(x, 1)
        \/ \E i \in 1 .. Len(channel[x]) :
             channel[x][i] = newest[x] /\ newest[x] # OtherEvent /\ NoListFrom(x, i + 1)
    BY <1>1 DEF IInv, LastListIsNewest
  <2>2. CASE x # s
    BY <2>1, <2>2, <1>1, <1>3 DEF NoListFrom
  <2>3. CASE x = s /\ view[s] = newest[s] /\ NoListFrom(s, 1)
    <3>1. e = OtherEvent /\ \A i \in 1 .. Len(c) : c[i] = OtherEvent
      BY <2>3, <1>2 DEF NoListFrom
    <3>2. view'[s] = newest'[s] /\ NoListFrom(s, 1)'
      BY <3>1, <2>3, <1>1, <1>3 DEF NoListFrom, v
    <3>3. QED
      BY <3>2, <2>3
  <2>4. ASSUME x = s, NEW i \in 1 .. Len(channel[s]), channel[s][i] = newest[s],
               newest[s] # OtherEvent, NoListFrom(s, i + 1)
        PROVE  \/ view'[s] = newest'[s] /\ NoListFrom(s, 1)'
               \/ \E j \in 1 .. Len(channel'[s]) :
                    /\ channel'[s][j] = newest'[s] /\ newest'[s] # OtherEvent
                    /\ NoListFrom(s, j + 1)'
    <3>1. CASE i = 1
      <4>1. view'[s] = newest'[s]
        BY <3>1, <2>4, <1>1, <1>2, <1>3 DEF v
      <4>2. NoListFrom(s, 1)'
        <5>1. \A k \in 1 .. Len(c) : k + 1 \in i + 1 .. Len(channel[s])
          BY <3>1, <1>2
        <5>2. \A k \in i + 1 .. Len(channel[s]) : channel[s][k] = OtherEvent
          BY <2>4 DEF NoListFrom
        <5>3. \A k \in 1 .. Len(c) : c[k] = OtherEvent
          BY <5>1, <5>2, <1>2
        <5>4. QED
          BY <5>3, <1>3 DEF NoListFrom
      <4>3. QED
        BY <4>1, <4>2
    <3>2. CASE i # 1
      <4>1. PICK j \in 1 .. Len(c) : i = j + 1
        <5>1. i - 1 \in 1 .. Len(c) /\ i = (i - 1) + 1
          BY <3>2, <1>2
        <5>2. QED
          BY <5>1
      <4>2. c[j] = newest[s] /\ \A k \in j + 1 .. Len(c) : c[k] = OtherEvent
        <5>1. \A k \in 1 .. Len(c) : k + 1 \in 1 .. Len(channel[s])
          BY <1>2
        <5>2. \A k \in j + 1 .. Len(c) : k \in 1 .. Len(c) /\ k + 1 \in i + 1 .. Len(channel[s])
          BY <4>1, <1>2
        <5>3. \A k \in i + 1 .. Len(channel[s]) : channel[s][k] = OtherEvent
          BY <2>4 DEF NoListFrom
        <5>4. QED
          BY <5>2, <5>3, <4>1, <2>4, <1>2
      <4>3. NoListFrom(s, j + 1)'
        BY <4>2, <1>3 DEF NoListFrom
      <4>4. QED
        BY <4>1, <4>2, <4>3, <2>4, <1>1, <1>3
    <3>3. QED
      BY <3>1, <3>2
  <2>5. QED
    BY <2>1, <2>2, <2>3, <2>4
<1>9. QED
  BY <1>5, <1>6, <1>7, <1>8 DEF IInv

LEMMA UnsubscribeInv == ASSUME IInv, NEW s \in Streams, Unsubscribe(s) PROVE IInv'
<1>1. /\ connection \in [Streams -> {"new", "serving", "leaving", "closed"}]
      /\ connection' = [connection EXCEPT ![s] = "leaving"]
      /\ subs' = subs \ {s} /\ subs \subseteq Streams /\ ~ReadLocked
      /\ UNCHANGED <<version, channel, task, view, newest, behind>>
  BY DEF Unsubscribe, IInv, StreamTypeOK
<1>2. \A h \in Senders : task[h].left = {}
  BY <1>1 DEF IInv, LeftAreSubscribed, ReadLocked
<1>3. StreamTypeOK'
  BY <1>1 DEF IInv, StreamTypeOK
<1>4. SubscribersAreServed' /\ LeftAreSubscribed' /\ TaskIsPrepared'
  BY <1>1, <1>2 DEF IInv, SubscribersAreServed, LeftAreSubscribed, TaskIsPrepared
<1>5. NewestComes' /\ NothingIsNewer' /\ LastListIsNewest'
  BY <1>1 DEF IInv, NewestComes, Owes, NothingIsNewer, LastListIsNewest, NoListFrom
<1>6. QED
  BY <1>3, <1>4, <1>5 DEF IInv

LEMMA CloseChannelInv == ASSUME IInv, NEW s \in Streams, CloseChannel(s) PROVE IInv'
<1>1. /\ connection \in [Streams -> {"new", "serving", "leaving", "closed"}]
      /\ connection[s] = "leaving" /\ connection' = [connection EXCEPT ![s] = "closed"]
      /\ UNCHANGED <<version, subs, channel, task, view, newest, behind>>
  BY DEF CloseChannel, IInv, StreamTypeOK
<1>2. StreamTypeOK'
  BY <1>1 DEF IInv, StreamTypeOK
<1>3. SubscribersAreServed' /\ LeftAreSubscribed' /\ TaskIsPrepared'
  BY <1>1 DEF IInv, SubscribersAreServed, LeftAreSubscribed, TaskIsPrepared
<1>4. NewestComes' /\ NothingIsNewer' /\ LastListIsNewest'
  BY <1>1 DEF IInv, NewestComes, Owes, NothingIsNewer, LastListIsNewest, NoListFrom
<1>5. QED
  BY <1>2, <1>3, <1>4 DEF IInv

------------------------------------------------------------------------------
LEMMA StreamInvStep == IInv /\ [StreamNext]_streamVars => IInv'
<1> SUFFICES ASSUME IInv, [StreamNext]_streamVars PROVE IInv'
  OBVIOUS
<1>1. ASSUME NEW g \in Senders, upsertCall(g) \/ endCall(g) PROVE IInv'
  BY <1>1, ChangeInv DEF upsertCall, endCall
<1>2. ASSUME NEW g \in Senders, emitEvent(g) \/ Prepare(g) \/ Broadcast(g) \/ Deliver(g) \/ Finish(g)
      PROVE  IInv'
  BY <1>2, EmitEventInv, PrepareInv, BroadcastInv, DeliverInv, FinishInv
<1>3. ASSUME NEW s \in Streams, Subscribe(s) \/ Serve(s) \/ Unsubscribe(s) \/ CloseChannel(s)
      PROVE  IInv'
  BY <1>3, SubscribeInv, ServeInv, UnsubscribeInv, CloseChannelInv
<1>4. CASE UNCHANGED streamVars
  <2>1. StreamTypeOK' /\ SubscribersAreServed' /\ LeftAreSubscribed' /\ TaskIsPrepared'
    BY <1>4 DEF streamVars, IInv, StreamTypeOK, SubscribersAreServed, LeftAreSubscribed, TaskIsPrepared
  <2>2. NewestComes' /\ NothingIsNewer' /\ LastListIsNewest'
    BY <1>4 DEF streamVars, IInv, NewestComes, Owes, NothingIsNewer, LastListIsNewest, NoListFrom
  <2>3. QED
    BY <2>1, <2>2 DEF IInv
<1>5. QED
  BY <1>1, <1>2, <1>3, <1>4 DEF StreamNext

LEMMA StreamInvariant == StreamSpec => []IInv
BY InitInv, StreamInvStep, PTL DEF StreamSpec

(* Every variable has its type, and no browser shows a list that was never *)
(* offered to it.                                                          *)
THEOREM StreamTypes == StreamSpec => []StreamTypeOK
<1>1. IInv => StreamTypeOK
  BY DEF IInv
<1>2. QED
  BY <1>1, StreamInvariant, PTL

(* No broadcast has a closed channel before it: it keeps the read lock     *)
(* until it is over, and a stream closes its channel only after it has     *)
(* left the subscribers under the write lock (Broadcast, Unsubscribe).     *)
THEOREM ClosedIsNeverSentTo == StreamSpec => []NoSendOnClosed
<1>1. IInv => NoSendOnClosed
  BY DEF IInv, LeftAreSubscribed, SubscribersAreServed, NoSendOnClosed
<1>2. QED
  BY <1>1, StreamInvariant, PTL

(* A browser that has read its channel shows the calls as they are, but    *)
(* for owners, when nothing is left to broadcast and the last list offered *)
(* to it was neither dropped nor overtaken (broadcastCallList, Subscribe). *)
THEOREM BrowsersAreCurrent == StreamSpec => []ViewIsCurrent
<1>1. IInv => ViewIsCurrent
  <2> SUFFICES ASSUME IInv, NEW s \in Streams, connection[s] = "serving", channel[s] = <<>>,
                      ~behind[s], \A g \in Senders : task[g] = Free
               PROVE  view[s] = version
    BY DEF ViewIsCurrent
  <2>1. \A g \in Senders : ~Owes(g, s)
    BY TodoFacts DEF Owes, Free
  <2>2. newest[s] = version
    BY <2>1 DEF IInv, NewestComes
  <2>3. view[s] = newest[s]
    BY DEF IInv, LastListIsNewest
  <2>4. QED
    BY <2>2, <2>3
<1>2. QED
  BY <1>1, StreamInvariant, PTL

-----------------------------------------------------------------------------
(* The recordings.                                                         *)

(* An object is uploaded once, by the goroutine that unregisters the call, *)
(* and its take is the call's last.                                        *)
StoredOnce(c) ==
  /\ ~recorder[c].gone \/ remover[c].at = "close" => \A k \in Urls : <<c, k>> \notin objects
  /\ \A j, k \in Urls : <<c, j>> \in objects /\ <<c, k>> \in objects => j = k

RemoverFacts(c) ==
  /\ remover[c].at = "away" => remover[c] = Away
  /\ remover[c].at # "away" => recorder[c].gone
  /\ remover[c].at \in {"close", "get", "upsert"} => ~remover[c].known

(* Every URL on its way to the row is that of the stored object, so it     *)
(* does not matter in which order the statements reach the database.       *)
UrlsAreStored(c) ==
  /\ remover[c].at \in {"get", "upsert", "update"} => <<c, remover[c].url>> \in objects
  /\ record[c] \notin {NoRow, NoUrl} => <<c, record[c]>> \in objects
  /\ \A k \in Urls : <<c, k>> \in inserts /\ k # NoUrl => <<c, k>> \in objects
  /\ row[c] \notin {NoRow, NoUrl} /\ c \notin old => <<c, row[c]>> \in objects

(* Someone still has the URL of an object that is not lost: the row, the   *)
(* record, an INSERT under way, or removeCall, until it has given it to    *)
(* the record or to the row.                                               *)
IsNamed(c) ==
  \A k \in Urls : <<c, k>> \in objects /\ c \notin lost =>
    \/ row[c] = k
    \/ record[c] = k
    \/ <<c, k>> \in inserts
    \/ remover[c].at \in {"get", "upsert"}
    \/ remover[c].at = "update" /\ ~remover[c].known

(* The cleanup works on calls for which nothing is under way. *)
OldFacts(c) ==
  /\ c \in old => Settled(c)
  /\ c \in cleanup.expired => c \in old
  /\ c \in cleanup.removed => <<c, row[c]>> \notin objects

CallInv(c) == StoredOnce(c) /\ RemoverFacts(c) /\ UrlsAreStored(c) /\ IsNamed(c) /\ OldFacts(c)

RecordingInv == RecordingTypeOK /\ \A c \in Recorded : CallInv(c)

------------------------------------------------------------------------------
(* What is known of a call depends on its own parts of the state alone.    *)
LEMMA CallFrame ==
  ASSUME RecordingTypeOK, RecordingTypeOK', NEW c \in Recorded, CallInv(c),
         recorder'[c] = recorder[c], record'[c] = record[c], remover'[c] = remover[c], row'[c] = row[c],
         \A k \in Urls : <<c, k>> \in inserts' <=> <<c, k>> \in inserts,
         \A k \in Urls : <<c, k>> \in objects' <=> <<c, k>> \in objects,
         c \in old' <=> c \in old, c \in lost => c \in lost',
         c \in cleanup'.expired => c \in old, c \in cleanup'.removed => c \in cleanup.removed
  PROVE  CallInv(c)'
<1>1. inserts' \subseteq Recorded \X Urls
  BY DEF RecordingTypeOK
<1>2. Settled(c) => Settled(c)'
  <2> SUFFICES ASSUME Settled(c), NEW i \in inserts' PROVE i[1] # c
    BY DEF Settled
  <2>1. PICK k \in Urls, d \in Recorded : i = <<d, k>>
    BY <1>1
  <2>2. QED
    BY <2>1 DEF Settled
<1>3. /\ record[c] \in Urls \cup {NoRow} /\ row[c] \in Urls \cup {NoRow}
      /\ remover[c].url \in Urls
  BY DEF RecordingTypeOK, Remover
<1>4. StoredOnce(c)' /\ RemoverFacts(c)'
  BY DEF CallInv, StoredOnce, RemoverFacts
<1>5. UrlsAreStored(c)'
  BY <1>3 DEF CallInv, UrlsAreStored
<1>6. IsNamed(c)'
  BY DEF CallInv, IsNamed
<1>7. OldFacts(c)'
  <2>1. c \in old' => Settled(c)'
    BY <1>2 DEF CallInv, OldFacts
  <2>2. objects' \subseteq Recorded \X Urls /\ NoRow \notin Urls
    BY RecordingAssumption DEF RecordingTypeOK, Urls, NoUrl
  <2>3. c \in cleanup'.removed => <<c, row'[c]>> \notin objects'
    BY <1>3, <2>2 DEF CallInv, OldFacts
  <2>4. QED
    BY <2>1, <2>3 DEF CallInv, OldFacts
<1>8. QED
  BY <1>4, <1>5, <1>6, <1>7 DEF CallInv

Untouched(c) ==
  /\ recorder'[c] = recorder[c] /\ record'[c] = record[c] /\ remover'[c] = remover[c] /\ row'[c] = row[c]
  /\ \A k \in Urls : <<c, k>> \in inserts' <=> <<c, k>> \in inserts
  /\ \A k \in Urls : <<c, k>> \in objects' <=> <<c, k>> \in objects
  /\ c \in old' <=> c \in old
  /\ c \in lost => c \in lost'
  /\ c \in cleanup'.expired => c \in old
  /\ c \in cleanup'.removed => c \in cleanup.removed

LEMMA CallStep ==
  ASSUME RecordingInv, RecordingTypeOK', NEW c \in Recorded, CallInv(c)',
         \A d \in Recorded \ {c} : Untouched(d)
  PROVE  RecordingInv'
<1>1. ASSUME NEW d \in Recorded, d # c PROVE CallInv(d)'
  <2>1. Untouched(d) /\ CallInv(d) /\ RecordingTypeOK
    BY <1>1 DEF RecordingInv
  <2>2. QED
    BY <2>1, CallFrame DEF Untouched
<1>2. QED
  BY <1>1 DEF RecordingInv

LEMMA RecordTypes ==
  /\ NoUrl \in Urls /\ NoRow \notin Urls /\ Urls \subseteq Nat
  /\ Registered \in Recorder /\ ~Registered.audio /\ Away \in Remover /\ Away.at = "away"
  /\ Sleeping \in [expired : SUBSET Recorded, removed : SUBSET Recorded]
  /\ Sleeping.expired = {} /\ Sleeping.removed = {}
<1>1. NoUrl \in Urls /\ NoRow \notin Urls /\ Urls \subseteq Nat
  BY RecordingAssumption DEF Urls, NoUrl
<1>2. QED
  BY <1>1 DEF Registered, Recorder, Away, Remover, Sleeping

LEMMA NotYetOld ==
  ASSUME RecordingInv, NEW c \in Recorded, ~Settled(c)
  PROVE  c \notin old /\ c \notin cleanup.expired /\ c \notin cleanup.removed
BY DEF RecordingInv, CallInv, OldFacts, RecordingTypeOK

LEMMA RecordingInit_Inv == RecordingInit => RecordingInv
<1> SUFFICES ASSUME RecordingInit PROVE RecordingInv
  OBVIOUS
<1>1. RecordingTypeOK
  BY RecordTypes DEF RecordingInit, RecordingTypeOK
<1>2. ASSUME NEW c \in Recorded PROVE CallInv(c)
  BY <1>2, RecordTypes DEF RecordingInit, CallInv, StoredOnce, RemoverFacts, UrlsAreStored, IsNamed, OldFacts
<1>3. QED
  BY <1>1, <1>2 DEF RecordingInv

------------------------------------------------------------------------------
(* During the call: nothing is stored yet. *)

LEMMA RecorderInv ==
  ASSUME RecordingInv, NEW c \in Recorded, ~recorder[c].gone,
         NEW r \in Recorder, r.audio => r.take # NoUrl, ~r.gone,
         recorder' = [recorder EXCEPT ![c] = r],
         UNCHANGED <<record, remover, inserts, objects, row, old, cleanup, lost>>
  PROVE  RecordingInv'
<1>1. RecordingTypeOK /\ CallInv(c) /\ c \notin old /\ c \notin cleanup.expired /\ c \notin cleanup.removed
  BY NotYetOld DEF RecordingInv, Settled
<1>2. recorder'[c] = r /\ \A d \in Recorded : d # c => recorder'[d] = recorder[d]
  BY <1>1 DEF RecordingTypeOK
<1>3. RecordingTypeOK'
  BY <1>1, <1>2 DEF RecordingTypeOK
<1>4. CallInv(c)'
  BY <1>1, <1>2 DEF CallInv, StoredOnce, RemoverFacts, UrlsAreStored, IsNamed, OldFacts
<1>5. \A d \in Recorded \ {c} : Untouched(d)
  BY <1>2 DEF RecordingInv, CallInv, OldFacts, Untouched
<1>6. QED
  BY <1>3, <1>4, <1>5, CallStep

LEMMA NewRecorderInv == ASSUME RecordingInv, NEW c \in Recorded, NewRecorder(c) PROVE RecordingInv'
<1> DEFINE r == [recorder[c] EXCEPT !.take = @ + 1, !.audio = FALSE]
<1>1. recorder \in [Recorded -> Recorder] /\ ~recorder[c].gone
  BY DEF NewRecorder, RecordingInv, RecordingTypeOK
<1>2. recorder[c].take + 1 \in Urls
  BY <1>1, RecordingAssumption DEF NewRecorder, Recorder, Urls, NoUrl
<1>3. r \in Recorder /\ ~r.audio /\ ~r.gone
  BY <1>1, <1>2 DEF Recorder
<1>4. recorder' = [recorder EXCEPT ![c] = r]
  BY <1>1 DEF NewRecorder
<1> HIDE DEF r
<1>5. QED
  BY <1>1, <1>3, <1>4, RecorderInv DEF NewRecorder

LEMMA WriteAudioInv == ASSUME RecordingInv, NEW c \in Recorded, WriteAudio(c) PROVE RecordingInv'
<1> DEFINE r == [recorder[c] EXCEPT !.audio = TRUE]
<1>1. recorder \in [Recorded -> Recorder] /\ ~recorder[c].gone
  BY DEF WriteAudio, RecordingInv, RecordingTypeOK
<1>2. r \in Recorder /\ ~r.gone /\ r.take # NoUrl
  BY <1>1 DEF WriteAudio, Recorder
<1>3. recorder' = [recorder EXCEPT ![c] = r]
  BY <1>1 DEF WriteAudio
<1> HIDE DEF r
<1>4. QED
  BY <1>1, <1>2, <1>3, RecorderInv DEF WriteAudio

(* The call is taken out: by the goroutine that will close its recorder,   *)
(* or by teardownAllCalls.                                                 *)
LEMMA UnregisterInv ==
  ASSUME RecordingInv, NEW c \in Recorded, Unregister(c) \/ Drain(c) PROVE RecordingInv'
<1>1. RecordingTypeOK /\ CallInv(c) /\ c \notin old /\ c \notin cleanup.expired /\ c \notin cleanup.removed
  BY NotYetOld DEF RecordingInv, Settled, Unregister, Drain
<1>2. PICK at \in {"close", "end"} :
        /\ recorder' = [recorder EXCEPT ![c].gone = TRUE]
        /\ remover' = [remover EXCEPT ![c].at = at]
        /\ UNCHANGED <<record, inserts, objects, row, old, cleanup, lost>>
        /\ ~recorder[c].gone
  BY DEF Unregister, Drain, Goes
<1>3. /\ recorder' \in [Recorded -> Recorder] /\ recorder'[c].gone
      /\ recorder'[c].audio = recorder[c].audio /\ recorder'[c].take = recorder[c].take
      /\ \A d \in Recorded : d # c => recorder'[d] = recorder[d]
  <2> DEFINE r == [recorder[c] EXCEPT !.gone = TRUE]
  <2>1. recorder \in [Recorded -> Recorder]
    BY <1>1 DEF RecordingTypeOK
  <2>2. r \in Recorder /\ r.gone /\ r.audio = recorder[c].audio /\ r.take = recorder[c].take
    BY <2>1 DEF Recorder
  <2>3. recorder' = [recorder EXCEPT ![c] = r]
    BY <1>2, <2>1
  <2> HIDE DEF r
  <2>4. QED
    BY <2>1, <2>2, <2>3
<1>4. /\ remover' \in [Recorded -> Remover] /\ remover'[c].at = at /\ remover'[c].known = remover[c].known
      /\ \A d \in Recorded : d # c => remover'[d] = remover[d]
  BY <1>1, <1>2 DEF RecordingTypeOK, Remover
<1>5. remover[c] = Away
  BY <1>1, <1>2 DEF CallInv, RemoverFacts
<1>6. RecordingTypeOK'
  BY <1>1, <1>2, <1>3, <1>4 DEF RecordingTypeOK
<1>7. CallInv(c)'
  BY <1>1, <1>2, <1>3, <1>4, <1>5 DEF Away, CallInv, StoredOnce, RemoverFacts, UrlsAreStored, IsNamed, OldFacts
<1>8. \A d \in Recorded \ {c} : Untouched(d)
  BY <1>2, <1>3, <1>4 DEF RecordingInv, CallInv, OldFacts, Untouched
<1>9. QED
  BY <1>6, <1>7, <1>8, CallStep

------------------------------------------------------------------------------
(* removeCall, step by step *)

(* A remover that is not away works on a call that is not old. *)
LEMMA RemoverAtWork ==
  ASSUME RecordingInv, NEW c \in Recorded, remover[c].at # "away"
  PROVE  /\ RecordingTypeOK /\ CallInv(c) /\ recorder[c].gone
         /\ c \notin old /\ c \notin cleanup.expired /\ c \notin cleanup.removed
<1>1. remover[c] # Away
  BY DEF Away
<1>2. QED
  BY <1>1, NotYetOld DEF RecordingInv, Settled, CallInv, RemoverFacts

LEMMA GoesFacts ==
  ASSUME RecordingTypeOK, NEW c \in Recorded,
         NEW at \in {"close", "get", "upsert", "update", "end"}, Goes(c, at)
  PROVE  /\ remover' \in [Recorded -> Remover] /\ remover'[c].at = at
         /\ remover'[c].url = remover[c].url /\ remover'[c].known = remover[c].known
         /\ \A d \in Recorded : d # c => remover'[d] = remover[d]
<1> DEFINE o == [remover[c] EXCEPT !.at = at]
<1>1. remover \in [Recorded -> Remover]
  BY DEF RecordingTypeOK
<1>2. o \in Remover /\ o.at = at /\ o.url = remover[c].url /\ o.known = remover[c].known
  BY <1>1 DEF Remover
<1>3. remover' = [remover EXCEPT ![c] = o]
  BY <1>1 DEF Goes
<1> HIDE DEF o
<1>4. QED
  BY <1>1, <1>2, <1>3

LEMMA SkipsInv ==
  ASSUME RecordingInv, NEW c \in Recorded, remover[c].at = "close", Goes(c, "end"), UNCHANGED <<objects, lost>>,
         UNCHANGED <<recorder, record, inserts, row, old, cleanup>>
  PROVE  RecordingInv'
<1>1. /\ RecordingTypeOK /\ CallInv(c) /\ recorder[c].gone
      /\ c \notin old /\ c \notin cleanup.expired /\ c \notin cleanup.removed
  BY RemoverAtWork
<1>2. /\ remover' \in [Recorded -> Remover] /\ remover'[c].at = "end"
      /\ remover'[c].url = remover[c].url /\ remover'[c].known = remover[c].known
      /\ \A d \in Recorded : d # c => remover'[d] = remover[d]
  BY <1>1, GoesFacts
<1>3. RecordingTypeOK'
  BY <1>1, <1>2 DEF RecordingTypeOK
<1>4. CallInv(c)'
  BY <1>1, <1>2 DEF CallInv, StoredOnce, RemoverFacts, UrlsAreStored, IsNamed, OldFacts
<1>5. \A d \in Recorded \ {c} : Untouched(d)
  BY <1>2 DEF RecordingInv, CallInv, OldFacts, Untouched
<1>6. QED
  BY <1>3, <1>4, <1>5, CallStep

(* The one upload of a call: its URL is handed on, or the object is lost. *)
LEMMA UploadInv ==
  ASSUME RecordingInv, NEW c \in Recorded, remover[c].at = "close", recorder[c].audio,
         objects' = objects \cup {<<c, recorder[c].take>>},
         \/ remover' = [remover EXCEPT ![c].at = "get", ![c].url = recorder[c].take] /\ UNCHANGED lost
         \/ Goes(c, "end") /\ lost' = lost \cup {c},
         UNCHANGED <<recorder, record, inserts, row, old, cleanup>>
  PROVE  RecordingInv'
<1> DEFINE k == recorder[c].take
<1>1. /\ RecordingTypeOK /\ CallInv(c) /\ recorder[c].gone
      /\ c \notin old /\ c \notin cleanup.expired /\ c \notin cleanup.removed
  BY RemoverAtWork
<1>2. k \in Urls \ {NoUrl}
  BY <1>1 DEF RecordingTypeOK, Recorder
<1>3. /\ \A j \in Urls : <<c, j>> \in objects' <=> j = k
      /\ \A d \in Recorded, j \in Urls : d # c => (<<d, j>> \in objects' <=> <<d, j>> \in objects)
  BY <1>1, <1>2 DEF CallInv, StoredOnce
<1>4. /\ remover' \in [Recorded -> Remover]
      /\ \/ remover'[c].at = "get" /\ remover'[c].url = k /\ ~remover'[c].known
         \/ remover'[c].at = "end" /\ c \in lost'
      /\ \A d \in Recorded : d # c => remover'[d] = remover[d]
      /\ lost \subseteq lost' /\ lost' \subseteq Recorded
  <2>1. CASE Goes(c, "end") /\ lost' = lost \cup {c}
    BY <2>1, <1>1, GoesFacts DEF RecordingTypeOK
  <2>2. CASE remover' = [remover EXCEPT ![c].at = "get", ![c].url = k] /\ UNCHANGED lost
    <3> DEFINE o == [remover[c] EXCEPT !.at = "get", !.url = k]
    <3>1. remover \in [Recorded -> Remover] /\ ~remover[c].known
      BY <1>1 DEF RecordingTypeOK, CallInv, RemoverFacts
    <3>2. o \in Remover /\ o.at = "get" /\ o.url = k /\ o.known = remover[c].known
      BY <3>1, <1>2 DEF Remover
    <3>3. remover' = [remover EXCEPT ![c] = o]
      BY <2>2, <3>1
    <3> HIDE DEF o, k
    <3>4. QED
      BY <2>2, <3>1, <3>2, <3>3, <1>1 DEF RecordingTypeOK
  <2>3. QED
    BY <2>1, <2>2
<1>5. UNCHANGED <<recorder, record, inserts, row, old, cleanup>>
      /\ record[c] \in Urls \cup {NoRow} /\ row[c] \in Urls \cup {NoRow}
  BY <1>1 DEF RecordingTypeOK
<1>6. objects' \subseteq Recorded \X (Urls \ {NoUrl})
  BY <1>1, <1>2 DEF RecordingTypeOK
<1> HIDE DEF k
<1>7. RecordingTypeOK'
  BY <1>1, <1>4, <1>5, <1>6 DEF RecordingTypeOK
<1>8. StoredOnce(c)' /\ RemoverFacts(c)'
  BY <1>1, <1>2, <1>3, <1>4, <1>5 DEF StoredOnce, RemoverFacts
<1>9. UrlsAreStored(c)'
  <2>1. \A j \in Urls : <<c, j>> \notin objects
    BY <1>1 DEF CallInv, StoredOnce
  <2>2. /\ record[c] \in {NoRow, NoUrl} /\ row[c] \in {NoRow, NoUrl}
        /\ \A j \in Urls : <<c, j>> \in inserts => j = NoUrl
    BY <2>1, <1>1, <1>5 DEF CallInv, UrlsAreStored
  <2>3. QED
    BY <2>2, <1>2, <1>3, <1>4, <1>5 DEF UrlsAreStored
<1>10. IsNamed(c)'
  BY <1>3, <1>4 DEF IsNamed
<1>11. OldFacts(c)'
  BY <1>1, <1>5 DEF OldFacts
<1>12. \A d \in Recorded \ {c} : Untouched(d)
  BY <1>3, <1>4, <1>5 DEF RecordingInv, CallInv, OldFacts, Untouched
<1>13. QED
  BY <1>7, <1>8, <1>9, <1>10, <1>11, <1>12, CallStep DEF CallInv

LEMMA CloseInv == ASSUME RecordingInv, NEW c \in Recorded, Close(c) PROVE RecordingInv'
BY SkipsInv, UploadInv DEF Close, Skips

LEMMA GetCallInv == ASSUME RecordingInv, NEW c \in Recorded, GetCall(c) PROVE RecordingInv'
<1>1. /\ RecordingTypeOK /\ CallInv(c) /\ recorder[c].gone /\ remover[c].at = "get"
      /\ c \notin old /\ c \notin cleanup.expired /\ c \notin cleanup.removed
      /\ UNCHANGED <<recorder, record, inserts, objects, row, old, cleanup, lost>>
  BY RemoverAtWork DEF GetCall
<1>2. /\ remover' \in [Recorded -> Remover] /\ remover'[c].at \in {"upsert", "update"}
      /\ remover'[c].url = remover[c].url /\ remover'[c].known = remover[c].known
      /\ \A d \in Recorded : d # c => remover'[d] = remover[d]
  BY <1>1, GoesFacts DEF GetCall
<1>3. RecordingTypeOK'
  BY <1>1, <1>2 DEF RecordingTypeOK
<1>4. CallInv(c)'
  BY <1>1, <1>2 DEF CallInv, StoredOnce, RemoverFacts, UrlsAreStored, IsNamed, OldFacts
<1>5. \A d \in Recorded \ {c} : Untouched(d)
  BY <1>1, <1>2 DEF RecordingInv, CallInv, OldFacts, Untouched
<1>6. QED
  BY <1>3, <1>4, <1>5, CallStep

LEMMA UpsertCallInv == ASSUME RecordingInv, NEW c \in Recorded, UpsertCall(c) PROVE RecordingInv'
<1> DEFINE o == [remover[c] EXCEPT !.at = "update", !.known = TRUE]
<1>1. /\ RecordingTypeOK /\ CallInv(c) /\ recorder[c].gone /\ remover[c].at = "upsert"
      /\ c \notin old /\ c \notin cleanup.expired /\ c \notin cleanup.removed
      /\ UNCHANGED <<recorder, inserts, objects, row, old, cleanup, lost>>
      /\ remover \in [Recorded -> Remover] /\ record \in [Recorded -> Urls \cup {NoRow}]
  BY RemoverAtWork DEF UpsertCall, RecordingTypeOK
<1>2. o \in Remover /\ o.at = "update" /\ o.url = remover[c].url /\ o.known /\ remover[c].url \in Urls
  BY <1>1 DEF Remover
<1>3. remover' = [remover EXCEPT ![c] = o] /\ record' = [record EXCEPT ![c] = remover[c].url]
  BY <1>1 DEF UpsertCall
<1> HIDE DEF o
<1>4. /\ remover'[c] = o /\ record'[c] = remover[c].url
      /\ \A d \in Recorded : d # c => remover'[d] = remover[d] /\ record'[d] = record[d]
  BY <1>1, <1>3
<1>5. RecordingTypeOK'
  BY <1>1, <1>2, <1>3 DEF RecordingTypeOK
<1>6. StoredOnce(c)' /\ RemoverFacts(c)' /\ UrlsAreStored(c)'
  BY <1>1, <1>2, <1>4 DEF CallInv, StoredOnce, RemoverFacts, UrlsAreStored
<1>7. IsNamed(c)'
  <2>1. <<c, remover[c].url>> \in objects
    BY <1>1 DEF CallInv, UrlsAreStored
  <2>2. \A k \in Urls : <<c, k>> \in objects => k = remover[c].url
    BY <2>1, <1>1, <1>2 DEF CallInv, StoredOnce
  <2>3. QED
    BY <2>2, <1>1, <1>4 DEF IsNamed
<1>8. OldFacts(c)'
  BY <1>1 DEF OldFacts
<1>9. \A d \in Recorded \ {c} : Untouched(d)
  BY <1>1, <1>4 DEF RecordingInv, CallInv, OldFacts, Untouched
<1>10. QED
  BY <1>5, <1>6, <1>7, <1>8, <1>9, CallStep DEF CallInv

LEMMA UpdateRecordingURLInv ==
  ASSUME RecordingInv, NEW c \in Recorded, UpdateRecordingURL(c) PROVE RecordingInv'
<1>1. /\ RecordingTypeOK /\ CallInv(c) /\ recorder[c].gone /\ remover[c].at = "update"
      /\ c \notin old /\ c \notin cleanup.expired /\ c \notin cleanup.removed
      /\ UNCHANGED <<recorder, record, inserts, objects, old, cleanup>>
  BY RemoverAtWork DEF UpdateRecordingURL
<1>2. /\ remover' \in [Recorded -> Remover] /\ remover'[c].at = "end"
      /\ remover'[c].url = remover[c].url /\ remover'[c].known = remover[c].known
      /\ \A d \in Recorded : d # c => remover'[d] = remover[d]
  BY <1>1, GoesFacts DEF UpdateRecordingURL
<1>3. remover[c].url \in Urls /\ row \in [Recorded -> Urls \cup {NoRow}]
  BY <1>1 DEF RecordingTypeOK, Remover
<1>4. /\ row' \in [Recorded -> Urls \cup {NoRow}] /\ lost \subseteq lost' /\ lost' \subseteq Recorded
      /\ \/ row'[c] = remover[c].url
         \/ row'[c] = row[c] /\ (c \in lost' \/ remover[c].known)
      /\ \A d \in Recorded : d # c => row'[d] = row[d]
  <2>1. CASE row' = [row EXCEPT ![c] = remover[c].url] /\ UNCHANGED lost
    BY <2>1, <1>1, <1>3 DEF RecordingTypeOK
  <2>2. CASE UNCHANGED row /\ lost' = IF remover[c].known THEN lost ELSE lost \cup {c}
    BY <2>2, <1>1, <1>3 DEF RecordingTypeOK
  <2>3. QED
    BY <2>1, <2>2 DEF UpdateRecordingURL
<1>5. RecordingTypeOK'
  BY <1>1, <1>2, <1>4 DEF RecordingTypeOK
<1>6. StoredOnce(c)' /\ RemoverFacts(c)' /\ UrlsAreStored(c)'
  BY <1>1, <1>2, <1>4 DEF CallInv, StoredOnce, RemoverFacts, UrlsAreStored
<1>7. IsNamed(c)'
  <2>1. <<c, remover[c].url>> \in objects
    BY <1>1 DEF CallInv, UrlsAreStored
  <2>2. \A k \in Urls : <<c, k>> \in objects => k = remover[c].url
    BY <2>1, <1>1, <1>3 DEF CallInv, StoredOnce
  <2>3. CASE row'[c] = remover[c].url
    BY <2>2, <2>3, <1>1 DEF IsNamed
  <2>4. CASE row'[c] = row[c] /\ (c \in lost' \/ remover[c].known)
    BY <2>4, <1>1, <1>4 DEF CallInv, IsNamed
  <2>5. QED
    BY <2>3, <2>4, <1>4
<1>8. OldFacts(c)'
  BY <1>1 DEF OldFacts
<1>9. \A d \in Recorded \ {c} : Untouched(d)
  BY <1>1, <1>2, <1>4 DEF RecordingInv, CallInv, OldFacts, Untouched
<1>10. QED
  BY <1>5, <1>6, <1>7, <1>8, <1>9, CallStep DEF CallInv

------------------------------------------------------------------------------
(* The end of the call *)

LEMMA EndsFacts ==
  ASSUME RecordingTypeOK, NEW c \in Recorded, Ends(c)
  PROVE  /\ record' \in [Recorded -> Urls \cup {NoRow}] /\ record'[c] = NoRow
         /\ inserts' \subseteq Recorded \X Urls
         /\ \A k \in Urls : <<c, k>> \in inserts' <=> <<c, k>> \in inserts \/ record[c] = k
         /\ \A d \in Recorded : d # c =>
              /\ record'[d] = record[d]
              /\ \A k \in Urls : <<d, k>> \in inserts' <=> <<d, k>> \in inserts
<1>1. record \in [Recorded -> Urls \cup {NoRow}] /\ inserts \subseteq Recorded \X Urls /\ NoRow \notin Urls
  BY RecordTypes DEF RecordingTypeOK
<1>2. CASE record[c] = NoRow
  BY <1>1, <1>2 DEF Ends
<1>3. CASE record[c] # NoRow
  <2>1. record' = [record EXCEPT ![c] = NoRow] /\ inserts' = inserts \cup {<<c, record[c]>>}
    BY <1>3 DEF Ends
  <2>2. record[c] \in Urls
    BY <1>1, <1>3
  <2>3. QED
    BY <2>1, <2>2, <1>1
<1>4. QED
  BY <1>2, <1>3

LEMMA EndInv ==
  ASSUME RecordingInv, NEW c \in Recorded, ~Settled(c), recorder[c].gone, Ends(c),
         \/ UNCHANGED remover
         \/ remover[c].at = "end" /\ remover' = [remover EXCEPT ![c] = Away],
         UNCHANGED <<recorder, objects, row, old, cleanup, lost>>
  PROVE  RecordingInv'
<1>1. RecordingTypeOK /\ CallInv(c) /\ c \notin old /\ c \notin cleanup.expired /\ c \notin cleanup.removed
  BY NotYetOld DEF RecordingInv
<1>2. /\ record' \in [Recorded -> Urls \cup {NoRow}] /\ record'[c] = NoRow
      /\ inserts' \subseteq Recorded \X Urls
      /\ \A k \in Urls : <<c, k>> \in inserts' <=> <<c, k>> \in inserts \/ record[c] = k
      /\ \A d \in Recorded : d # c =>
           /\ record'[d] = record[d]
           /\ \A k \in Urls : <<d, k>> \in inserts' <=> <<d, k>> \in inserts
  BY <1>1, EndsFacts
<1>3. /\ remover' \in [Recorded -> Remover]
      /\ remover'[c] = remover[c] \/ (remover[c].at = "end" /\ remover'[c] = Away)
      /\ \A d \in Recorded : d # c => remover'[d] = remover[d]
  BY <1>1, RecordTypes DEF RecordingTypeOK
<1>4. RecordingTypeOK'
  BY <1>1, <1>2, <1>3 DEF RecordingTypeOK
<1>5. StoredOnce(c)' /\ RemoverFacts(c)'
  BY <1>1, <1>3 DEF CallInv, StoredOnce, RemoverFacts, Away
<1>6. UrlsAreStored(c)'
  BY <1>1, <1>2, <1>3, RecordTypes DEF CallInv, UrlsAreStored, Away
<1>7. IsNamed(c)'
  BY <1>1, <1>2, <1>3 DEF CallInv, IsNamed
<1>8. OldFacts(c)'
  BY <1>1 DEF OldFacts
<1>9. \A d \in Recorded \ {c} : Untouched(d)
  BY <1>2, <1>3 DEF RecordingInv, CallInv, OldFacts, Untouched
<1>10. QED
  BY <1>4, <1>5, <1>6, <1>7, <1>8, <1>9, CallStep DEF CallInv

LEMMA EndCallInv ==
  ASSUME RecordingInv, NEW c \in Recorded, EndCall(c) \/ EndCallByRequest(c) PROVE RecordingInv'
<1>1. CASE EndCall(c)
  <2>1. recorder[c].gone /\ ~Settled(c)
    BY <1>1, RemoverAtWork DEF EndCall, Settled, Away
  <2>2. QED
    BY <2>1, <1>1, EndInv DEF EndCall
<1>2. CASE EndCallByRequest(c)
  BY <1>2, EndInv DEF EndCallByRequest, Settled
<1>3. QED
  BY <1>1, <1>2

(* The row takes the URL of the object, or keeps what it has. *)
LEMMA InsertInv == ASSUME RecordingInv, NEW i \in inserts, Insert(i) PROVE RecordingInv'
<1>1. PICK c \in Recorded, url \in Urls : i = <<c, url>>
  BY DEF RecordingInv, RecordingTypeOK
<1>2. ~Settled(c)
  BY <1>1 DEF Settled
<1>3. RecordingTypeOK /\ CallInv(c) /\ c \notin old /\ c \notin cleanup.expired /\ c \notin cleanup.removed
  BY <1>2, NotYetOld DEF RecordingInv
<1>4. /\ UNCHANGED <<recorder, record, remover, objects, old, cleanup>>
      /\ inserts' = inserts \ {<<c, url>>}
      /\ \/ /\ row' = [row EXCEPT ![c] = IF url = NoUrl /\ @ # NoRow THEN @ ELSE url]
            /\ UNCHANGED lost
         \/ UNCHANGED row /\ lost' = lost \cup {c}
  BY <1>1 DEF Insert
<1>5. row \in [Recorded -> Urls \cup {NoRow}] /\ record \in [Recorded -> Urls \cup {NoRow}]
  BY <1>3 DEF RecordingTypeOK
<1>6. /\ row' \in [Recorded -> Urls \cup {NoRow}] /\ lost \subseteq lost' /\ lost' \subseteq Recorded
      /\ \/ row'[c] = url /\ (url # NoUrl \/ row[c] = NoRow)
         \/ row'[c] = row[c] /\ (c \in lost' \/ url = NoUrl)
      /\ \A d \in Recorded : d # c => row'[d] = row[d]
  BY <1>3, <1>4, <1>5 DEF RecordingTypeOK
<1>7. RecordingTypeOK'
  BY <1>3, <1>4, <1>6 DEF RecordingTypeOK
<1>8. StoredOnce(c)' /\ RemoverFacts(c)' /\ UrlsAreStored(c)'
  BY <1>1, <1>3, <1>4, <1>6 DEF CallInv, StoredOnce, RemoverFacts, UrlsAreStored
<1>9. IsNamed(c)'
  <2> SUFFICES ASSUME NEW k \in Urls, <<c, k>> \in objects, c \notin lost'
               PROVE  \/ row'[c] = k \/ record'[c] = k \/ <<c, k>> \in inserts'
                      \/ remover'[c].at \in {"get", "upsert"}
                      \/ remover'[c].at = "update" /\ ~remover'[c].known
    BY <1>4 DEF IsNamed
  <2>1. k # NoUrl /\ NoRow \notin Urls
    BY <1>3, RecordTypes DEF RecordingTypeOK
  <2>2. url # NoUrl => url = k
    BY <1>1, <1>3 DEF CallInv, UrlsAreStored, StoredOnce
  <2>3. CASE url = NoUrl
    BY <2>1, <2>3, <1>3, <1>4, <1>6 DEF CallInv, IsNamed
  <2>4. CASE url # NoUrl
    BY <2>2, <2>4, <1>6
  <2>5. QED
    BY <2>3, <2>4
<1>10. OldFacts(c)'
  BY <1>3, <1>4 DEF OldFacts
<1>11. \A d \in Recorded \ {c} : Untouched(d)
  BY <1>4, <1>6 DEF RecordingInv, CallInv, OldFacts, Untouched
<1>12. QED
  BY <1>7, <1>8, <1>9, <1>10, <1>11, CallStep DEF CallInv

------------------------------------------------------------------------------
(* Age and the cleanup *)

LEMMA AgesInv == ASSUME RecordingInv, NEW c \in Recorded, Ages(c) PROVE RecordingInv'
<1>1. /\ RecordingTypeOK /\ CallInv(c) /\ Settled(c) /\ old' = old \cup {c}
      /\ UNCHANGED <<recorder, record, remover, inserts, objects, row, cleanup, lost>>
  BY DEF RecordingInv, Ages
<1>2. RecordingTypeOK'
  BY <1>1 DEF RecordingTypeOK
<1>3. Settled(c)'
  BY <1>1 DEF Settled
<1>4. CallInv(c)'
  BY <1>1, <1>3 DEF CallInv, StoredOnce, RemoverFacts, UrlsAreStored, IsNamed, OldFacts
<1>5. \A d \in Recorded \ {c} : Untouched(d)
  BY <1>1 DEF RecordingInv, CallInv, OldFacts, Untouched
<1>6. QED
  BY <1>2, <1>4, <1>5, CallStep

(* The cleanup starts, or leaves a call as it is. *)
LEMMA CleanupInv ==
  ASSUME RecordingInv, NEW expired \in SUBSET Recorded, expired \subseteq old,
         cleanup' = [Sleeping EXCEPT !.expired = expired],
         UNCHANGED <<recorder, record, remover, inserts, objects, row, old, lost>>
  PROVE  RecordingInv'
<1>1. /\ cleanup' \in [expired : SUBSET Recorded, removed : SUBSET Recorded]
      /\ cleanup'.expired = expired /\ cleanup'.removed = {}
  BY DEF Sleeping
<1>2. RecordingTypeOK /\ RecordingTypeOK'
  BY <1>1 DEF RecordingInv, RecordingTypeOK
<1>3. ASSUME NEW c \in Recorded PROVE CallInv(c)'
  BY <1>1, <1>2, CallFrame DEF RecordingInv
<1>4. QED
  BY <1>2, <1>3 DEF RecordingInv

LEMMA ExpiredIsOld ==
  ASSUME RecordingInv
  PROVE  /\ cleanup.expired \subseteq old /\ cleanup.expired \in SUBSET Recorded
         /\ cleanup.removed \subseteq cleanup.expired
BY DEF RecordingInv, RecordingTypeOK, CallInv, OldFacts

LEMMA RunCleanupInv == ASSUME RecordingInv, runCleanup PROVE RecordingInv'
<1>1. listExpiredRecordings \subseteq old /\ listExpiredRecordings \in SUBSET Recorded
  BY DEF listExpiredRecordings, RecordingInv, RecordingTypeOK
<1>2. QED
  BY <1>1, CleanupInv DEF runCleanup

LEMMA CleanupFailsInv == ASSUME RecordingInv, NEW c \in Recorded, CleanupFails(c) PROVE RecordingInv'
BY ExpiredIsOld, CleanupInv DEF CleanupFails, NextExpired

LEMMA RemoveObjectInv == ASSUME RecordingInv, NEW c \in Recorded, RemoveObject(c) PROVE RecordingInv'
<1>1. /\ RecordingTypeOK /\ CallInv(c) /\ c \in cleanup.expired /\ c \in old
      /\ objects' = objects \ {<<c, row[c]>>} /\ cleanup' = [cleanup EXCEPT !.removed = {c}]
      /\ UNCHANGED <<recorder, record, remover, inserts, row, old, lost>>
  BY ExpiredIsOld DEF RemoveObject, RecordingInv
<1>2. Settled(c) /\ Settled(c)'
  BY <1>1 DEF CallInv, OldFacts, Settled
<1>3. /\ cleanup' \in [expired : SUBSET Recorded, removed : SUBSET Recorded]
      /\ cleanup'.expired = cleanup.expired /\ cleanup'.removed = {c}
  BY <1>1 DEF RecordingTypeOK
<1>4. RecordingTypeOK'
  BY <1>1, <1>3 DEF RecordingTypeOK
<1>5. /\ remover[c].at = "away" /\ record[c] = NoRow
      /\ \A k \in Urls : <<c, k>> \notin inserts
  BY <1>2 DEF Settled, Away
<1>6. CallInv(c)'
  BY <1>1, <1>2, <1>3, <1>5 DEF CallInv, StoredOnce, RemoverFacts, UrlsAreStored, IsNamed, OldFacts
<1>7. \A d \in Recorded \ {c} : Untouched(d)
  BY <1>1, <1>3 DEF RecordingInv, CallInv, OldFacts, Untouched
<1>8. QED
  BY <1>4, <1>6, <1>7, CallStep

LEMMA ClearRecordingURLInv ==
  ASSUME RecordingInv, NEW c \in Recorded, ClearRecordingURL(c) PROVE RecordingInv'
<1>1. /\ RecordingTypeOK /\ CallInv(c) /\ c \in cleanup.removed /\ c \in old
      /\ row' = [row EXCEPT ![c] = NoUrl]
      /\ cleanup' = [Sleeping EXCEPT !.expired = cleanup.expired \ {c}]
      /\ UNCHANGED <<recorder, record, remover, inserts, objects, old, lost>>
  BY ExpiredIsOld DEF ClearRecordingURL, NextExpired, RecordingInv
<1>2. Settled(c) /\ Settled(c)'
  BY <1>1 DEF CallInv, OldFacts, Settled
<1>3. /\ cleanup' \in [expired : SUBSET Recorded, removed : SUBSET Recorded]
      /\ cleanup'.expired = cleanup.expired \ {c} /\ cleanup'.removed = {}
  BY <1>1, ExpiredIsOld DEF Sleeping
<1>4. /\ row' \in [Recorded -> Urls \cup {NoRow}] /\ row'[c] = NoUrl
      /\ \A d \in Recorded : d # c => row'[d] = row[d]
  BY <1>1, RecordTypes DEF RecordingTypeOK
<1>5. RecordingTypeOK'
  BY <1>1, <1>3, <1>4 DEF RecordingTypeOK
<1>6. /\ remover[c].at = "away" /\ record[c] = NoRow
      /\ \A k \in Urls : <<c, k>> \notin inserts
  BY <1>2 DEF Settled, Away
<1>7. StoredOnce(c)' /\ RemoverFacts(c)' /\ UrlsAreStored(c)' /\ OldFacts(c)'
  BY <1>1, <1>2, <1>3, <1>4, <1>6 DEF CallInv, StoredOnce, RemoverFacts, UrlsAreStored, OldFacts
<1>8. IsNamed(c)'
  <2>1. \A k \in Urls : <<c, k>> \in objects /\ c \notin lost => row[c] = k
    BY <1>1, <1>6, RecordTypes DEF CallInv, IsNamed
  <2>2. <<c, row[c]>> \notin objects
    BY <1>1 DEF CallInv, OldFacts
  <2>3. QED
    BY <2>1, <2>2, <1>1 DEF IsNamed
<1>9. \A d \in Recorded \ {c} : Untouched(d)
  BY <1>1, <1>3, <1>4 DEF RecordingInv, CallInv, OldFacts, Untouched
<1>10. QED
  BY <1>5, <1>7, <1>8, <1>9, CallStep DEF CallInv

(* A crash loses what was under way, and nothing else. *)
LEMMA CrashInv == ASSUME RecordingInv, Crash PROVE RecordingInv'
<1>1. [Registered EXCEPT !.gone = TRUE] \in Recorder /\ ~[Registered EXCEPT !.gone = TRUE].audio
      /\ [Registered EXCEPT !.gone = TRUE].gone
  BY RecordTypes DEF Registered, Recorder
<1>2. RecordingTypeOK /\ RecordingTypeOK'
  BY <1>1, RecordTypes DEF Crash, RecordingInv, RecordingTypeOK
<1>3. ASSUME NEW c \in Recorded PROVE CallInv(c)'
  <2>1. /\ CallInv(c) /\ recorder'[c].gone /\ record'[c] = NoRow /\ remover'[c] = Away
        /\ inserts' = {} /\ cleanup'.expired = {} /\ cleanup'.removed = {}
        /\ UNCHANGED <<objects, row, old>>
        /\ c \notin lost' => c \notin lost /\ Settled(c)
    BY <1>1, RecordTypes DEF Crash, RecordingInv
  <2>2. Settled(c)' /\ remover'[c].at = "away"
    BY <2>1 DEF Settled, Away
  <2>3. StoredOnce(c)' /\ RemoverFacts(c)' /\ UrlsAreStored(c)' /\ OldFacts(c)'
    BY <2>1, <2>2 DEF CallInv, StoredOnce, RemoverFacts, UrlsAreStored, OldFacts
  <2>4. ASSUME Settled(c) PROVE \A k \in Urls : <<c, k>> \in objects /\ c \notin lost => row[c] = k
    BY <2>1, <2>4, RecordTypes DEF CallInv, IsNamed, Settled
  <2>5. IsNamed(c)'
    BY <2>1, <2>4 DEF IsNamed
  <2>6. QED
    BY <2>3, <2>5 DEF CallInv
<1>4. QED
  BY <1>2, <1>3 DEF RecordingInv

------------------------------------------------------------------------------
LEMMA RecordingInvStep == RecordingInv /\ [RecordingNext]_recordingVars => RecordingInv'
<1> SUFFICES ASSUME RecordingInv, [RecordingNext]_recordingVars PROVE RecordingInv'
  OBVIOUS
<1>1. ASSUME NEW c \in Recorded, CallSteps(c) PROVE RecordingInv'
  BY <1>1, NewRecorderInv, WriteAudioInv, UnregisterInv, CloseInv, GetCallInv, UpsertCallInv,
     UpdateRecordingURLInv, EndCallInv, AgesInv DEF CallSteps
<1>2. ASSUME NEW c \in Recorded, CleanupSteps(c) PROVE RecordingInv'
  BY <1>2, RemoveObjectInv, ClearRecordingURLInv, CleanupFailsInv DEF CleanupSteps
<1>3. CASE UNCHANGED recordingVars
  <2>1. RecordingTypeOK /\ RecordingTypeOK'
    BY <1>3 DEF recordingVars, RecordingInv, RecordingTypeOK
  <2>2. ASSUME NEW c \in Recorded PROVE CallInv(c)'
    BY <2>1, <1>3, CallFrame, ExpiredIsOld DEF recordingVars, RecordingInv
  <2>3. QED
    BY <2>1, <2>2 DEF RecordingInv
<1>4. QED
  BY <1>1, <1>2, <1>3, InsertInv, RunCleanupInv, CrashInv DEF RecordingNext

LEMMA RecordingInvariant == RecordingSpec => []RecordingInv
BY RecordingInit_Inv, RecordingInvStep, PTL DEF RecordingSpec

LEMMA RecordingInvAgrees == RecordingInv => RecordingsAgree
<1> SUFFICES ASSUME RecordingInv PROVE RecordingsAgree
  OBVIOUS
<1>1. RowNamesObject
  BY DEF RecordingInv, CallInv, UrlsAreStored, RowNamesObject
<1>2. ASSUME NEW o \in objects, Settled(o[1]), o[1] \notin lost PROVE row[o[1]] = o[2]
  <2>1. PICK c \in Recorded, k \in Urls : o = <<c, k>>
    BY DEF RecordingInv, RecordingTypeOK
  <2>2. /\ CallInv(c) /\ record[c] = NoRow /\ remover[c].at = "away" /\ <<c, k>> \in objects
        /\ c \notin lost /\ <<c, k>> \notin inserts
    BY <2>1, <1>2 DEF RecordingInv, Settled, Away
  <2>3. row[c] = k
    BY <2>2, RecordTypes DEF CallInv, IsNamed
  <2>4. QED
    BY <2>1, <2>3
<1>3. QED
  BY <1>1, <1>2 DEF StoredIsNamed, RecordingsAgree

------------------------------------------------------------------------------
(* The requests.  Steps that test a condition come before the changes;     *)
(* what comes after refuses nothing.                                       *)

StepSet ==
  {Session, Connected, Paired, Body, NoBody, Resolve, Ask, Glance, Settle}
    \cup {Apply(e) : e \in Effects} \cup {Try(e) : e \in Effects}
    \cup {Answer(n) : n \in Codes}

(* The step may end the request with an answer that denies any change. *)
Refuses(s) ==
  \/ s[1] \in {"session", "connected", "paired", "body", "nobody", "resolve"}
  \/ s[1] = "answer" /\ s[2] \in {400, 401, 404, 501, 503}

Alters(s) == s[1] \in {"apply", "try"} /\ s[2] # "upload"

Confirms(s) == s[1] = "answer" /\ s[2] \in {200, 204}

Before == {s \in StepSet : ~Alters(s) /\ s[1] # "try"}

After == {s \in StepSet : ~Refuses(s) /\ s[1] # "try"}

TrySet == {Try(e) : e \in Effects}

(* A program without a change whose failure it remembers. *)
Shaped(p) == \E a \in Seq(Before), b \in Seq(After) : p = a \o b

(* What a program must be for its answer to be true. *)
Sound(p) ==
  /\ p \in Seq(StepSet)
  /\ \A i, j \in 1..Len(p) : i < j /\ Refuses(p[j]) => ~Alters(p[i])
  /\ \A i, j \in 1..Len(p) : i < j /\ p[i][1] = "try" /\ Confirms(p[j]) => p[j-1][1] = "settle"

LEMMA StepFacts ==
  /\ {Session, Connected, Paired, Body, NoBody, Resolve, Ask, Glance, Settle} \subseteq Before
  /\ {Ask, Glance, Settle, OK, NoContent} \subseteq After
  /\ {NotImplemented, Answer(400), Apply("upload")} \subseteq Before
  /\ \A e \in Effects : Apply(e) \in After
  /\ Before \subseteq StepSet /\ After \subseteq StepSet
<1>1. {Session, Connected, Paired, Body, NoBody, Resolve, Ask, Glance, Settle} \subseteq StepSet
  BY DEF StepSet
<1>2. \A e \in Effects : Apply(e) \in StepSet
  BY DEF StepSet
<1>3. \A n \in Codes : Answer(n) \in StepSet
  BY DEF StepSet
<1>4. {Session, Connected, Paired, Body, NoBody, Resolve, Ask, Glance, Settle} \subseteq Before
  BY <1>1 DEF Before, Alters, Session, Connected, Paired, Body, NoBody, Resolve, Ask, Glance, Settle
<1>5. {Ask, Glance, Settle} \subseteq After
  BY <1>1 DEF After, Refuses, Ask, Glance, Settle
<1>6. OK \in After /\ NoContent \in After
  BY <1>3 DEF After, Refuses, OK, NoContent, Answer, Codes
<1>7. NotImplemented \in Before /\ Answer(400) \in Before
  BY <1>3 DEF Before, Alters, NotImplemented, Answer, Codes
<1>8. Apply("upload") \in Before
  BY <1>2 DEF Before, Alters, Apply, Effects
<1>9. \A e \in Effects : Apply(e) \in After
  BY <1>2 DEF After, Refuses, Apply
<1>10. QED
  BY <1>4, <1>5, <1>6, <1>7, <1>8, <1>9 DEF Before, After

LEMMA TrySteps ==
  /\ TrySet \subseteq StepSet
  /\ \A s \in TrySet : ~Refuses(s) /\ ~Confirms(s)
<1>1. TrySet \subseteq StepSet
  BY DEF TrySet, StepSet
<1>2. \A s \in TrySet : s[1] = "try"
  BY DEF TrySet, Try
<1>3. QED
  BY <1>1, <1>2 DEF Refuses, Confirms

LEMMA ShapedIsSound == ASSUME NEW p, Shaped(p) PROVE Sound(p)
<1>1. PICK a \in Seq(Before), b \in Seq(After) : p = a \o b
  BY DEF Shaped
<1>2. a \in Seq(StepSet) /\ b \in Seq(StepSet)
  BY StepFacts
<1>3. p \in Seq(StepSet) /\ Len(p) = Len(a) + Len(b) /\ Len(a) \in Nat /\ Len(b) \in Nat
  BY <1>1, <1>2
<1>4. \A i \in 1..Len(p) : IF i <= Len(a) THEN p[i] = a[i] ELSE p[i] = b[i - Len(a)]
  BY <1>1, <1>3
<1>5. \A i \in 1..Len(a) : a[i] \in Before
  OBVIOUS
<1>6. \A i \in 1..Len(b) : b[i] \in After
  OBVIOUS
<1>7. \A i \in 1..Len(p) : p[i][1] # "try" /\ (i <= Len(a) => ~Alters(p[i])) /\ (i > Len(a) => ~Refuses(p[i]))
  <2> SUFFICES ASSUME NEW i \in 1..Len(p)
               PROVE p[i][1] # "try" /\ (i <= Len(a) => ~Alters(p[i])) /\ (i > Len(a) => ~Refuses(p[i]))
    OBVIOUS
  <2>1. CASE i <= Len(a)
    <3>1. p[i] \in Before
      BY <2>1, <1>3, <1>4, <1>5
    <3>2. QED
      BY <3>1, <2>1, <1>3 DEF Before
  <2>2. CASE i > Len(a)
    <3>1. i - Len(a) \in 1..Len(b) /\ p[i] = b[i - Len(a)]
      BY <2>2, <1>3, <1>4
    <3>2. p[i] \in After
      BY <3>1, <1>6
    <3>3. QED
      BY <3>2, <2>2, <1>3 DEF After
  <2>3. QED
    BY <2>1, <2>2, <1>3
<1>8. ASSUME NEW i \in 1..Len(p), NEW j \in 1..Len(p), i < j, Refuses(p[j])
      PROVE ~Alters(p[i])
  BY <1>7, <1>8, <1>3
<1>9. QED
  BY <1>3, <1>7, <1>8 DEF Sound

(* Each setting is tried, then Settle looks for a failure. *)
LEMMA TriedIsSound ==
  ASSUME NEW a \in Seq(Before), NEW t \in Seq(TrySet)
  PROVE Sound(a \o t \o <<Settle, NoContent>>)
<1> DEFINE z == <<Settle, NoContent>>
           q == a \o t
           p == q \o z
<1>1. a \in Seq(StepSet) /\ t \in Seq(StepSet) /\ Len(a) \in Nat /\ Len(t) \in Nat
  BY StepFacts, TrySteps
<1>2. z \in Seq(StepSet) /\ Len(z) = 2 /\ z[1] = Settle /\ z[2] = NoContent
  BY StepFacts
<1>3. ~Refuses(Settle) /\ ~Refuses(NoContent) /\ Settle[1] = "settle" /\ ~Confirms(Settle)
  BY DEF Refuses, Confirms, Settle, NoContent, Answer
<1> HIDE DEF z
<1>4. q \in Seq(StepSet) /\ Len(q) = Len(a) + Len(t)
  BY <1>1
<1>5. \A i \in 1..Len(q) : IF i <= Len(a) THEN q[i] = a[i] ELSE q[i] = t[i - Len(a)]
  BY <1>1
<1> HIDE DEF q
<1>6. /\ p \in Seq(StepSet) /\ Len(p) = Len(q) + Len(z)
       /\ \A i \in 1..Len(q) + Len(z) : p[i] = IF i <= Len(q) THEN q[i] ELSE z[i - Len(q)]
  <2>1. q \in Seq(StepSet) /\ z \in Seq(StepSet)
    BY <1>2, <1>4
  <2>2. QED
    BY <2>1, ConcatProperties, Zenon
<1>7. p \in Seq(StepSet) /\ Len(p) = Len(a) + Len(t) + 2
  BY <1>1, <1>2, <1>4, <1>6
<1>8. \A i \in 1..Len(p) : IF i <= Len(q) THEN p[i] = q[i] ELSE p[i] = z[i - Len(q)]
  BY <1>6
<1> HIDE DEF p
<1>9. p[Len(a) + Len(t) + 1] = Settle /\ p[Len(a) + Len(t) + 2] = NoContent
  <2>1. p[Len(a) + Len(t) + 1] = z[1]
    BY <1>1, <1>2, <1>7, <1>4, <1>8, SMTT(60)
  <2>2. p[Len(a) + Len(t) + 2] = z[2]
    BY <1>1, <1>2, <1>7, <1>4, <1>8, SMTT(60)
  <2>3. QED
    BY <2>1, <2>2, <1>2
<1>10. \A i \in 1..Len(a) : p[i] \in Before
  <2> SUFFICES ASSUME NEW i \in 1..Len(a) PROVE p[i] \in Before
    OBVIOUS
  <2>1. i \in 1..Len(q) /\ i \in 1..Len(p) /\ i <= Len(q) /\ i <= Len(a)
    BY <1>1, <1>7, <1>4
  <2>2. p[i] = q[i] /\ q[i] = a[i]
    BY <2>1, <1>5, <1>8
  <2>3. QED
    BY <2>2
<1>11. \A i \in 1..Len(p) : Len(a) < i /\ i <= Len(a) + Len(t) => p[i] \in TrySet
  <2> SUFFICES ASSUME NEW i \in 1..Len(p), Len(a) < i, i <= Len(a) + Len(t) PROVE p[i] \in TrySet
    OBVIOUS
  <2>1. i - Len(a) \in 1..Len(t) /\ p[i] = t[i - Len(a)]
    BY <1>1, <1>7, <1>4, <1>5, <1>8
  <2>2. QED
    BY <2>1
<1>12. \A j \in 1..Len(p) : Refuses(p[j]) => j <= Len(a)
  <2> SUFFICES ASSUME NEW j \in 1..Len(p), j > Len(a) PROVE ~Refuses(p[j])
    BY <1>7
  <2>1. \/ j <= Len(a) + Len(t)
        \/ j = Len(a) + Len(t) + 1
        \/ j = Len(a) + Len(t) + 2
    BY <1>7
  <2>2. QED
    BY <2>1, <1>3, <1>9, <1>11, TrySteps
<1>13. \A i, j \in 1..Len(p) : i < j /\ Refuses(p[j]) => ~Alters(p[i])
  <2> SUFFICES ASSUME NEW i \in 1..Len(p), NEW j \in 1..Len(p), i < j, Refuses(p[j]) PROVE ~Alters(p[i])
    OBVIOUS
  <2>1. i \in 1..Len(a)
    BY <1>12, <1>7
  <2>2. QED
    BY <2>1, <1>10 DEF Before
<1>14. \A i, j \in 1..Len(p) : i < j /\ p[i][1] = "try" /\ Confirms(p[j]) => p[j-1][1] = "settle"
  <2> SUFFICES ASSUME NEW i \in 1..Len(p), NEW j \in 1..Len(p), i < j, p[i][1] = "try", Confirms(p[j])
               PROVE p[j-1][1] = "settle"
    OBVIOUS
  <2>1. i > Len(a)
    BY <1>1, <1>7, <1>10 DEF Before
  <2>2. j > Len(a) + Len(t) + 1
    <3>1. ~(j <= Len(a) + Len(t))
      BY <2>1, <1>1, <1>7, <1>11, TrySteps
    <3>2. j # Len(a) + Len(t) + 1
      BY <1>3, <1>9
    <3>3. j \in Int
      BY <1>7
    <3>4. QED
      BY <3>1, <3>2, <3>3, <1>1
  <2>3. j - 1 = Len(a) + Len(t) + 1
    BY <2>2, <1>7
  <2>4. QED
    BY <2>3, <1>3, <1>9
<1>15. QED
  BY <1>7, <1>13, <1>14 DEF Sound, p, q, z

LEMMA BeforeTuples ==
  /\ \A s \in Before : <<s>> \in Seq(Before)
  /\ \A s, t \in Before : <<s, t>> \in Seq(Before)
  /\ \A s, t, u \in Before : <<s, t, u>> \in Seq(Before)
  /\ \A s, t, u, v \in Before : <<s, t, u, v>> \in Seq(Before)
OBVIOUS

LEMMA AfterTuples ==
  /\ \A s \in After : <<s>> \in Seq(After)
  /\ \A s, t \in After : <<s, t>> \in Seq(After)
OBVIOUS

LEMMA Split == ASSUME NEW a \in Seq(Before), NEW b \in Seq(After) PROVE Shaped(a \o b)
BY DEF Shaped

LEMMA ShapedPrefix ==
  ASSUME NEW a \in Seq(Before), NEW p, Shaped(p)
  PROVE Shaped(a \o p)
<1>1. PICK b \in Seq(Before), c \in Seq(After) : p = b \o c
  BY DEF Shaped
<1>2. a \in Seq(StepSet) /\ b \in Seq(StepSet) /\ c \in Seq(StepSet)
  BY StepFacts
<1>3. a \o p = (a \o b) \o c
  <2>1. a \o (b \o c) = (a \o b) \o c
    BY <1>2, ConcatAssociative, ZenonT(60), SMTT(30)
  <2>2. QED
    BY <1>1, <2>1
<1>4. a \o b \in Seq(Before)
  OBVIOUS
<1>5. QED
  BY <1>3, <1>4 DEF Shaped

LEMMA ShapedSuffix ==
  ASSUME NEW p, Shaped(p), NEW c \in Seq(After)
  PROVE Shaped(p \o c)
<1>1. PICK a \in Seq(Before), b \in Seq(After) : p = a \o b
  BY DEF Shaped
<1>2. a \in Seq(StepSet) /\ b \in Seq(StepSet) /\ c \in Seq(StepSet)
  BY StepFacts
<1>3. p \o c = a \o (b \o c)
  <2>1. (a \o b) \o c = a \o (b \o c)
    BY <1>2, ConcatAssociative, ZenonT(60), SMTT(30)
  <2>2. QED
    BY <1>1, <2>1
<1>4. b \o c \in Seq(After)
  OBVIOUS
<1>5. QED
  BY <1>3, <1>4 DEF Shaped

LEMMA BeforeIsShaped == ASSUME NEW a \in Seq(Before) PROVE Shaped(a)
<1>1. a = a \o <<>> /\ <<>> \in Seq(After)
  OBVIOUS
<1>2. QED
  BY <1>1 DEF Shaped

LEMMA AfterIsShaped == ASSUME NEW b \in Seq(After) PROVE Shaped(b)
<1>1. b = <<>> \o b /\ <<>> \in Seq(Before)
  OBVIOUS
<1>2. QED
  BY <1>1 DEF Shaped

(* The tuples that the handlers are written with. *)
LEMMA ShapedTuples ==
  /\ \A r \in Before, y, z \in After : Shaped(<<r, y, z>>)
  /\ \A r, s \in Before, y, z \in After : Shaped(<<r, s, y, z>>)
  /\ \A r, s, t \in Before, y, z \in After : Shaped(<<r, s, t, y, z>>)
<1>1. \A r, y, z : <<r, y, z>> = <<r>> \o <<y, z>>
  OBVIOUS
<1>2. \A r \in Before, y, z \in After : Shaped(<<r, y, z>>)
  BY <1>1, BeforeTuples, AfterTuples DEF Shaped
<1>3. \A r, s \in Before, y, z \in After : Shaped(<<r, s, y, z>>)
  <2> SUFFICES ASSUME NEW r \in Before, NEW s \in Before, NEW y \in After, NEW z \in After
               PROVE Shaped(<<r, s, y, z>>)
    OBVIOUS
  <2> DEFINE a == <<r, s>>
             b == <<y, z>>
  <2>1. a \in Seq(Before) /\ b \in Seq(After)
    BY BeforeTuples, AfterTuples
  <2>2. <<r, s, y, z>> = a \o b
    OBVIOUS
  <2> HIDE DEF a, b
  <2>3. Shaped(a \o b)
    BY <2>1, Split
  <2>4. QED
    BY <2>2, <2>3, Zenon
<1>4. \A r, s, t \in Before, y, z \in After : Shaped(<<r, s, t, y, z>>)
  <2> SUFFICES ASSUME NEW r \in Before, NEW s \in Before, NEW t \in Before,
                      NEW y \in After, NEW z \in After
               PROVE Shaped(<<r, s, t, y, z>>)
    OBVIOUS
  <2> DEFINE a == <<r, s, t>>
             b == <<y, z>>
  <2>1. a \in Seq(Before) /\ b \in Seq(After)
    BY BeforeTuples, AfterTuples
  <2>2. <<r, s, t, y, z>> = a \o b
    OBVIOUS
  <2> HIDE DEF a, b
  <2>3. Shaped(a \o b)
    BY <2>1, Split
  <2>4. QED
    BY <2>2, <2>3, Zenon
<1>5. QED
  BY <1>2, <1>3, <1>4

LEMMA BasicSteps ==
  /\ Session \in Before /\ Connected \in Before /\ Paired \in Before /\ Body \in Before
  /\ NoBody \in Before /\ Resolve \in Before /\ Apply("upload") \in Before
  /\ Answer(400) \in Before /\ NotImplemented \in Before
  /\ Ask \in After /\ Glance \in After /\ OK \in After /\ NoContent \in After
BY StepFacts

LEMMA SendIsShaped == Shaped(Send)
BY ShapedTuples, BasicSteps, StepFacts DEF Send, Effects

LEMMA SendRoutes ==
  /\ Shaped(sendMediaFromBody) /\ Shaped(sendLocationFromBody) /\ Shaped(sendContactFromBody)
  /\ \A p \in handleSendText \cup handleSendMedia \cup handleSendLocation \cup handleSendContact :
       Shaped(p)
  /\ \A p \in handleSendListInteractive \cup handleSendPoll \cup handleSendReaction
              \cup handleEditMessage \cup handleRevokeMessage :
       Shaped(p)
<1> DEFINE Guards == <<Session, Connected, Body>>
<1>1. /\ <<Body>> \in Seq(Before) /\ <<Body, Apply("upload")>> \in Seq(Before)
      /\ <<Session>> \in Seq(Before) /\ <<Session, Body>> \in Seq(Before) /\ Guards \in Seq(Before)
  BY BeforeTuples, BasicSteps
<1>2. Shaped(sendMediaFromBody)
  BY <1>1, ShapedPrefix, SendIsShaped DEF sendMediaFromBody
<1>3. Shaped(sendLocationFromBody)
  BY <1>1, ShapedPrefix, SendIsShaped DEF sendLocationFromBody
<1>4. Shaped(sendContactFromBody)
  BY <1>1, ShapedPrefix, SendIsShaped DEF sendContactFromBody
<1>5. Shaped(Guards \o Send) /\ Shaped(<<Session, Body>> \o Send) /\ Shaped(<<Session>> \o Send)
  BY <1>1, ShapedPrefix, SendIsShaped
<1>6. /\ Shaped(<<Session, Body>> \o sendMediaFromBody)
      /\ Shaped(<<Session, Body>> \o sendLocationFromBody)
      /\ Shaped(<<Session, Body>> \o sendContactFromBody)
  BY <1>1, <1>2, <1>3, <1>4, ShapedPrefix
<1>7. \A p \in handleSendText \cup handleSendMedia \cup handleSendLocation \cup handleSendContact :
        Shaped(p)
  BY <1>5, <1>6, Zenon DEF handleSendText, handleSendMedia, handleSendLocation, handleSendContact
<1>8. \A p \in handleSendListInteractive \cup handleSendPoll \cup handleSendReaction
              \cup handleEditMessage \cup handleRevokeMessage :
        Shaped(p)
  BY <1>5, Zenon DEF handleSendListInteractive, handleSendPoll, handleSendReaction,
     handleEditMessage, handleRevokeMessage
<1>9. QED
  BY <1>2, <1>3, <1>4, <1>7, <1>8

LEMMA ListRoutes == \A p \in handleSendList : Shaped(p)
<1> DEFINE Guards == <<Session, Connected, Body>>
           asRows == <<Resolve, Body, Apply("message"), OK>>
<1>1. Guards \in Seq(Before)
  BY BeforeTuples, BasicSteps
<1>2. Shaped(asRows)
  BY ShapedTuples, BasicSteps, StepFacts DEF Effects
<1>3. <<Session, Connected, Body, Resolve, Body, Apply("message"), OK>> = Guards \o asRows
  OBVIOUS
<1>4. Shaped(Guards \o asRows) /\ Shaped(Guards \o Send)
  BY <1>1, <1>2, ShapedPrefix, SendIsShaped
<1>5. QED
  BY <1>3, <1>4, Zenon DEF handleSendList

LEMMA MessageRoutes == \A p \in handleSendMessage : Shaped(p)
<1> DEFINE Guards == <<Session, Connected, Body>>
<1>1. Guards \in Seq(Before)
  BY BeforeTuples, BasicSteps
<1>2. <<Session, Connected, NoBody>> \in Seq(Before) /\ <<Answer(400)>> \in Seq(Before)
  BY BeforeTuples, BasicSteps
<1>3. Shaped(<<Session, Connected, NoBody>>) /\ Shaped(<<Answer(400)>>)
  BY <1>2, BeforeIsShaped
<1>4. \A rest \in { Send, sendMediaFromBody, sendLocationFromBody, sendContactFromBody,
                    <<Session, Connected, NoBody>>, <<Answer(400)>> } : Shaped(rest)
  BY <1>3, SendIsShaped, SendRoutes, Zenon
<1> HIDE DEF Guards
<1>5. \A rest \in { Send, sendMediaFromBody, sendLocationFromBody, sendContactFromBody,
                    <<Session, Connected, NoBody>>, <<Answer(400)>> } : Shaped(Guards \o rest)
  BY <1>1, <1>4, ShapedPrefix
<1>6. ASSUME NEW p \in handleSendMessage PROVE Shaped(p)
  <2>1. PICK rest \in { Send, sendMediaFromBody, sendLocationFromBody, sendContactFromBody,
                        <<Session, Connected, NoBody>>, <<Answer(400)>> } : p = Guards \o rest
    BY Zenon DEF handleSendMessage, Guards
  <2>2. QED
    BY <2>1, <1>5, SMTT(30), ZenonT(60)
<1>7. QED
  BY <1>6

LEMMA PixRoutes == \A p \in handleSendPix : Shaped(p)
<1> DEFINE Guards == <<Session, Connected, Body, Resolve>>
           text == <<Apply("message"), OK>>
           image == <<Apply("upload"), Apply("message"), OK>>
<1>1. Guards \in Seq(Before)
  BY BeforeTuples, BasicSteps
<1>2. text \in Seq(After)
  BY AfterTuples, BasicSteps, StepFacts DEF Effects
<1>3. Shaped(text)
  BY <1>2, AfterIsShaped
<1>4. Shaped(image)
  BY ShapedTuples, BasicSteps, StepFacts DEF Effects
<1> HIDE DEF Guards, text, image
<1>5. \A rest \in {text, image} : Shaped(Guards \o rest)
  BY <1>1, <1>3, <1>4, ShapedPrefix
<1>6. QED
  BY <1>5, Zenon DEF handleSendPix, Guards, text, image

(* Most handlers check, change one thing or ask one, and answer. *)
LEMMA PlainRoutes ==
  /\ \A e \in Effects : Shaped(<<Session, Apply(e), OK>>) /\ Shaped(<<Session, Apply(e), NoContent>>)
  /\ \A e \in Effects : Shaped(<<Session, Body, Apply(e), OK>>)
  /\ \A e \in Effects : Shaped(<<Session, Body, Apply(e), NoContent>>)
  /\ Shaped(<<Session, Ask, OK>>) /\ Shaped(<<Session, Body, Ask, OK>>)
  /\ Shaped(<<Session, Glance, OK>>)
  /\ Shaped(<<Session, Resolve, Apply("read"), NoContent>>)
  /\ Shaped(<<Session, Paired, Body, Apply("photo"), OK>>)
  /\ Shaped(<<NotImplemented>>)
<1>1. \A e \in Effects : Apply(e) \in After
  BY StepFacts
<1>2. Apply("read") \in After /\ Apply("photo") \in After
  BY <1>1 DEF Effects
<1>3. Shaped(<<NotImplemented>>)
  BY BeforeTuples, BasicSteps, BeforeIsShaped
<1>4. QED
  BY <1>1, <1>2, <1>3, ShapedTuples, BasicSteps, Zenon

LEMMA GroupRoutes == \A p \in handleUpdateGroup : Sound(p)
<1> DEFINE Guards == <<Session, Body>>
<1>1. Guards \in Seq(Before)
  BY BeforeTuples, BasicSteps
<1>2. \A e \in Effects : Given(e) \subseteq Seq(TrySet)
  BY DEF Given, TrySet
<1>3. /\ Given("name") \subseteq Seq(TrySet) /\ Given("topic") \subseteq Seq(TrySet)
      /\ Given("locked") \subseteq Seq(TrySet) /\ Given("announce") \subseteq Seq(TrySet)
  BY <1>2 DEF Effects
<1> HIDE DEF Guards
<1>4. ASSUME NEW t \in GroupSettings PROVE t \in Seq(TrySet)
  <2>1. PICK name \in Given("name"), topic \in Given("topic"),
             locked \in Given("locked"), announce \in Given("announce") :
          t = ((name \o topic) \o locked) \o announce
    BY DEF GroupSettings
  <2>2. /\ name \in Seq(TrySet) /\ topic \in Seq(TrySet)
        /\ locked \in Seq(TrySet) /\ announce \in Seq(TrySet)
    BY <1>3
  <2>3. name \o topic \in Seq(TrySet)
    BY <2>2
  <2>4. (name \o topic) \o locked \in Seq(TrySet)
    BY <2>2, <2>3
  <2>5. QED
    BY <2>1, <2>2, <2>4
<1>5. ASSUME NEW p \in handleUpdateGroup PROVE Sound(p)
  <2>1. PICK t \in GroupSettings : p = Guards \o t \o <<Settle, NoContent>>
    BY Zenon DEF handleUpdateGroup, Guards
  <2>2. QED
    BY <2>1, <1>1, <1>4, TriedIsSound
<1>6. QED
  BY <1>5

LEMMA PrivacyRoutes == \A p \in handleSetPrivacySettings : Sound(p)
<1> DEFINE Guards == <<Session, Body>>
<1>1. Guards \in Seq(Before)
  BY BeforeTuples, BasicSteps
<1> HIDE DEF Guards
<1>2. ASSUME NEW named \in SUBSET {"last", "profile"}, NEW es \in SetToSeqs(named)
      PROVE Tries(es) \in Seq(TrySet)
  <2>1. IsFiniteSet({"last", "profile"})
    <3>1. IsFiniteSet({"last"})
      BY FS_Singleton
    <3>2. IsFiniteSet({"last"} \cup {"profile"})
      BY <3>1, FS_AddElement
    <3>3. {"last"} \cup {"profile"} = {"last", "profile"}
      OBVIOUS
    <3>4. QED
      BY <3>2, <3>3
  <2>2. Cardinality(named) \in Nat
    BY <2>1, FS_Subset, FS_CardinalityType
  <2>3. es \in [1..Cardinality(named) -> named]
    BY <1>2 DEF SetToSeqs
  <2>4. named \subseteq Effects
    BY DEF Effects
  <2>5. Tries(es) \in [1..Cardinality(named) -> TrySet]
    BY <2>3, <2>4 DEF Tries, TrySet
  <2>6. QED
    BY <2>2, <2>5
<1>3. ASSUME NEW p \in handleSetPrivacySettings PROVE Sound(p)
  <2>1. PICK es \in UNION { SetToSeqs(named) : named \in SUBSET {"last", "profile"} } :
          p = Guards \o Tries(es) \o <<Settle, NoContent>>
    BY Zenon DEF handleSetPrivacySettings, Guards
  <2>2. Tries(es) \in Seq(TrySet)
    BY <1>2
  <2>3. QED
    BY <1>1, <2>1, <2>2, TriedIsSound
<1>4. QED
  BY <1>3

LEMMA BlocklistRoutes == \A p \in handleUpdateBlocklist : Shaped(p)
<1> DEFINE Guards == <<Session, Body>>
           blocks(n) == [i \in 1..n |-> Apply("block")]
           list(n) == IF n = 0 THEN <<Glance>> ELSE <<>>
<1>1. Guards \in Seq(Before)
  BY BeforeTuples, BasicSteps
<1>2. <<OK>> \in Seq(After)
  BY AfterTuples, BasicSteps
<1>3. Apply("block") \in After
  BY StepFacts DEF Effects
<1>4. ASSUME NEW n \in Nat PROVE blocks(n) \in Seq(After) /\ list(n) \in Seq(After)
  <2>1. blocks(n) \in [1..n -> After]
    BY <1>3
  <2>2. list(n) \in Seq(After)
    BY AfterTuples, BasicSteps
  <2>3. QED
    BY <2>1, <2>2
<1> HIDE DEF Guards, blocks, list
<1>5. ASSUME NEW n \in Nat PROVE Shaped(Guards \o blocks(n) \o list(n) \o <<OK>>)
  <2>1. Shaped(Guards)
    BY <1>1, BeforeIsShaped
  <2>2. Shaped(Guards \o blocks(n))
    BY <2>1, <1>4, ShapedSuffix
  <2>3. Shaped(Guards \o blocks(n) \o list(n))
    BY <2>2, <1>4, ShapedSuffix
  <2>4. QED
    BY <2>3, <1>2, ShapedSuffix
<1>6. ASSUME NEW p \in handleUpdateBlocklist PROVE Shaped(p)
  <2>1. PICK n \in 0..Listed : p = Guards \o blocks(n) \o list(n) \o <<OK>>
    BY Zenon DEF handleUpdateBlocklist, Guards, blocks, list
  <2>2. n \in Nat
    BY RequestAssumption
  <2>3. QED
    BY <2>1, <2>2, <1>5
<1>7. QED
  BY <1>6

LEMMA RoutesAreSound == \A p \in routes : Sound(p)
<1>1. \A p \in handleGetGroups \cup handleCreateGroup \cup handleGetGroupInfo \cup handleLeaveGroup
              \cup handleGetGroupInvite \cup handleRevokeGroupInvite \cup handleJoinGroup :
        Shaped(p)
  BY PlainRoutes DEF Effects, handleGetGroups, handleCreateGroup, handleGetGroupInfo,
     handleLeaveGroup, handleGetGroupInvite, handleRevokeGroupInvite, handleJoinGroup
<1>2. \A p \in handleUpdateGroupParticipants \cup handlePromoteDemoteGroupParticipants
              \cup handleGetGroupRequests \cup handleApproveGroupRequests
              \cup handleSetGroupPhoto \cup handleDeleteGroupPhoto :
        Shaped(p)
  BY PlainRoutes DEF Effects, handleUpdateGroupParticipants, handlePromoteDemoteGroupParticipants,
     handleGetGroupRequests, handleApproveGroupRequests, handleSetGroupPhoto, handleDeleteGroupPhoto
<1>3. \A p \in handleGetUserInfo \cup handleSubscribePresence \cup handleCheckIsOnWhatsApp
              \cup handleGetContacts \cup handleGetContactInfo \cup handleGetContactAvatar :
        Shaped(p)
  BY PlainRoutes DEF Effects, handleGetUserInfo, handleSubscribePresence, handleCheckIsOnWhatsApp,
     handleGetContacts, handleGetContactInfo, handleGetContactAvatar
<1>4. \A p \in handleSetProfileName \cup handleSetProfileStatus \cup handleSetProfilePhoto
              \cup handleGetPrivacySettings \cup handleMarkRead \cup handleDownloadMedia :
        Shaped(p)
  BY PlainRoutes DEF Effects, handleSetProfileName, handleSetProfileStatus, handleSetProfilePhoto,
     handleGetPrivacySettings, handleMarkRead, handleDownloadMedia
<1>5. \A p \in handleCreateNewsletter \cup handleGetNewsletterInfo \cup handleUnfollowNewsletter
              \cup handleUpdateNewsletter \cup handleMuteNewsletter \cup handleGetBlocklist :
        Shaped(p)
  BY PlainRoutes DEF Effects, handleCreateNewsletter, handleGetNewsletterInfo,
     handleUnfollowNewsletter, handleUpdateNewsletter, handleMuteNewsletter, handleGetBlocklist
<1>6. ASSUME NEW p \in routes, p \notin handleUpdateGroup, p \notin handleSetPrivacySettings
      PROVE Shaped(p)
  BY <1>1, <1>2, <1>3, <1>4, <1>5, <1>6, SendRoutes, ListRoutes, MessageRoutes, PixRoutes,
     BlocklistRoutes, SMTT(60) DEF routes
<1>7. QED
  BY <1>6, ShapedIsSound, GroupRoutes, PrivacyRoutes

(* A request at work. *)
RequestType ==
  [rest : Seq(StepSet), failed : BOOLEAN, made : SUBSET Effects, missed : SUBSET Effects,
   answer : Codes \cup {NoAnswer, Aborted}]

AnswerIsTrue(r) ==
  /\ r.answer \in {200, 204} => r.missed = {}
  /\ r.answer \in {400, 401, 404, 501, 503, Aborted} => r.made \subseteq {"upload"}

(* Once a change was made nothing is refused any more; one that failed is  *)
(* remembered, and then only Settle comes before a confirmation.           *)
Truthful(r) ==
  /\ Sound(r.rest)
  /\ r.rest # <<>> => r.answer = NoAnswer
  /\ \A j \in 1..Len(r.rest) : Refuses(r.rest[j]) => r.made \subseteq {"upload"}
  /\ r.rest # <<>> /\ r.missed # {} => r.failed
  /\ r.failed => \A j \in 1..Len(r.rest) : Confirms(r.rest[j]) =>
       j > 1 /\ r.rest[j-1][1] = "settle"
  /\ AnswerIsTrue(r)

RequestInv ==
  /\ registered \in BOOLEAN
  /\ client \in Accounts
  /\ online \subseteq Accounts
  /\ request \in [Workers -> RequestType]
  /\ \A w \in Workers : Truthful(request[w])

RequestSpec == RequestInit /\ [][RequestNext]_requestVars

LEMMA EmptyIsSound == Sound(<<>>)
BY EmptySeq DEF Sound

LEMMA DoneIsTruthful ==
  ASSUME NEW code \in {NoAnswer, 401}
  PROVE Done(code) \in RequestType /\ Truthful(Done(code))
<1> DEFINE r == Done(code)
<1>1. /\ r.rest = <<>> /\ r.failed = FALSE /\ r.made = {} /\ r.missed = {} /\ r.answer = code
  BY DEF Done
<1>2. r \in RequestType
  BY DEF Done, RequestType, Codes, NoAnswer
<1> HIDE DEF r
<1>3. Truthful(r)
  BY <1>1, EmptyIsSound DEF Truthful, AnswerIsTrue
<1>4. QED
  BY <1>2, <1>3 DEF r

LEMMA BeginIsTruthful ==
  ASSUME NEW p \in routes
  PROVE LET r == [Done(NoAnswer) EXCEPT !.rest = p] IN r \in RequestType /\ Truthful(r)
<1> DEFINE r == [Done(NoAnswer) EXCEPT !.rest = p]
<1>1. Sound(p) /\ p \in Seq(StepSet)
  BY RoutesAreSound DEF Sound
<1>2. /\ r.rest = p /\ r.failed = FALSE /\ r.made = {} /\ r.missed = {} /\ r.answer = NoAnswer
  BY DEF Done
<1>3. r \in RequestType
  BY <1>1 DEF Done, RequestType
<1> HIDE DEF r
<1>4. Truthful(r)
  BY <1>1, <1>2 DEF Truthful, AnswerIsTrue, NoAnswer, Aborted
<1>5. QED
  BY <1>3, <1>4 DEF r

(* What is left of a sound program is sound. *)
LEMMA TailIsSound ==
  ASSUME NEW p, Sound(p), p # <<>>
  PROVE /\ Sound(Tail(p))
        /\ Len(Tail(p)) = Len(p) - 1
        /\ \A j \in 1..Len(Tail(p)) : j + 1 \in 1..Len(p) /\ Tail(p)[j] = p[j+1]
        /\ 1 \in 1..Len(p) /\ Head(p) = p[1] /\ Head(p) \in StepSet
<1> DEFINE q == Tail(p)
<1>1. p \in Seq(StepSet) /\ Len(p) \in Nat /\ Len(p) > 0
  BY DEF Sound
<1>2. /\ q \in Seq(StepSet) /\ Len(q) = Len(p) - 1
      /\ \A j \in 1..Len(q) : j + 1 \in 1..Len(p) /\ q[j] = p[j+1]
  BY <1>1
<1> HIDE DEF q
<1>3. \A i, j \in 1..Len(q) : i < j /\ Refuses(q[j]) => ~Alters(q[i])
  <2> SUFFICES ASSUME NEW i \in 1..Len(q), NEW j \in 1..Len(q), i < j, Refuses(q[j]) PROVE ~Alters(q[i])
    OBVIOUS
  <2>1. i + 1 \in 1..Len(p) /\ j + 1 \in 1..Len(p) /\ i + 1 < j + 1
    BY <1>1, <1>2
  <2>2. QED
    BY <2>1, <1>2 DEF Sound
<1>4. \A i, j \in 1..Len(q) : i < j /\ q[i][1] = "try" /\ Confirms(q[j]) => q[j-1][1] = "settle"
  <2> SUFFICES ASSUME NEW i \in 1..Len(q), NEW j \in 1..Len(q), i < j, q[i][1] = "try", Confirms(q[j])
               PROVE q[j-1][1] = "settle"
    OBVIOUS
  <2>1. /\ i + 1 \in 1..Len(p) /\ j + 1 \in 1..Len(p) /\ i + 1 < j + 1
        /\ j - 1 \in 1..Len(q) /\ (j - 1) + 1 = (j + 1) - 1
    BY <1>1, <1>2
  <2>2. p[(j + 1) - 1][1] = "settle"
    BY <2>1, <1>2 DEF Sound
  <2>3. QED
    BY <2>1, <2>2, <1>2
<1>5. Sound(q)
  BY <1>2, <1>3, <1>4 DEF Sound
<1>6. QED
  BY <1>1, <1>2, <1>5 DEF q

(* The request goes on: nothing new, a change made, or a Try that failed. *)
LEMMA GoIsTruthful ==
  ASSUME NEW r \in RequestType, Truthful(r), r.rest # <<>>,
         NEW s \in RequestType, s.rest = Tail(r.rest), s.answer = r.answer,
         \/ s.made = r.made
         \/ Head(r.rest)[1] \in {"apply", "try"} /\ s.made = r.made \cup {Head(r.rest)[2]},
         \/ s.missed = r.missed /\ s.failed = r.failed /\ (Head(r.rest)[1] = "settle" => ~r.failed)
         \/ Head(r.rest)[1] = "try" /\ s.failed
  PROVE Truthful(s)
<1> DEFINE p == r.rest
           q == s.rest
<1>1. /\ Sound(q) /\ Len(q) = Len(p) - 1 /\ Len(p) \in Nat
      /\ \A j \in 1..Len(q) : j + 1 \in 1..Len(p) /\ q[j] = p[j+1]
      /\ 1 \in 1..Len(p) /\ Head(p) = p[1]
  BY TailIsSound DEF Truthful, RequestType
<1>2. Sound(p) /\ s.answer = NoAnswer
  BY DEF Truthful
<1>3. \A j \in 1..Len(q) : Refuses(q[j]) => s.made \subseteq {"upload"}
  <2> SUFFICES ASSUME NEW j \in 1..Len(q), Refuses(q[j]) PROVE s.made \subseteq {"upload"}
    OBVIOUS
  <2>1. j + 1 \in 1..Len(p) /\ 1 < j + 1 /\ Refuses(p[j + 1])
    BY <1>1
  <2>2. r.made \subseteq {"upload"}
    BY <2>1 DEF Truthful
  <2>3. ~Alters(p[1])
    BY <2>1, <1>1, <1>2 DEF Sound
  <2>4. QED
    BY <2>2, <2>3, <1>1 DEF Alters
<1>4. q # <<>> /\ s.missed # {} => s.failed
  BY DEF Truthful
<1>5. s.failed => \A j \in 1..Len(q) : Confirms(q[j]) => j > 1 /\ q[j-1][1] = "settle"
  <2> SUFFICES ASSUME s.failed, NEW j \in 1..Len(q), Confirms(q[j]) PROVE j > 1 /\ q[j-1][1] = "settle"
    OBVIOUS
  <2>1. j + 1 \in 1..Len(p) /\ 1 < j + 1 /\ Confirms(p[j + 1]) /\ (j + 1) - 1 = j /\ j \in Nat
    BY <1>1
  <2>2. p[j][1] = "settle" /\ p[1][1] # "settle"
    <3>1. CASE Head(p)[1] = "try" /\ s.failed
      <4>1. p[(j + 1) - 1][1] = "settle"
        BY <3>1, <2>1, <1>1, <1>2 DEF Sound
      <4>2. QED
        BY <4>1, <3>1, <2>1, <1>1
    <3>2. CASE s.failed = r.failed /\ (Head(p)[1] = "settle" => ~r.failed)
      <4>1. p[(j + 1) - 1][1] = "settle"
        BY <3>2, <2>1 DEF Truthful
      <4>2. QED
        BY <4>1, <3>2, <2>1, <1>1
    <3>3. QED
      BY <3>1, <3>2
  <2>3. j # 1 /\ j - 1 \in 1..Len(q) /\ (j - 1) + 1 = j
    <3>1. j # 1
      BY <2>2
    <3>2. QED
      BY <3>1, <2>1, <1>1
  <2>4. QED
    BY <2>2, <2>3, <1>1
<1>6. AnswerIsTrue(s)
  BY <1>2 DEF AnswerIsTrue, NoAnswer, Aborted
<1>7. QED
  BY <1>1, <1>2, <1>3, <1>4, <1>5, <1>6 DEF Truthful

(* The request ends with an answer. *)
LEMMA ReplyIsTruthful ==
  ASSUME NEW s \in RequestType, s.rest = <<>>, AnswerIsTrue(s)
  PROVE Truthful(s)
BY EmptyIsSound DEF Truthful

LEMMA RequestInit_Inv == RequestInit => RequestInv
<1> SUFFICES ASSUME RequestInit PROVE RequestInv
  OBVIOUS
<1>1. client \in Accounts
  BY RequestAssumption DEF RequestInit
<1>2. Done(NoAnswer) \in RequestType /\ Truthful(Done(NoAnswer))
  BY DoneIsTruthful
<1>3. QED
  BY <1>1, <1>2 DEF RequestInit, RequestInv

(* A step of one worker. *)
LEMMA WorkerStep ==
  ASSUME RequestInv, NEW w \in Workers, NEW s \in RequestType, Truthful(s),
         request' = [request EXCEPT ![w] = s],
         UNCHANGED <<registered, client, online>>
  PROVE RequestInv'
<1>1. request' \in [Workers -> RequestType]
  BY DEF RequestInv
<1>2. \A v \in Workers : request'[v] = IF v = w THEN s ELSE request[v]
  BY DEF RequestInv
<1>3. \A v \in Workers : Truthful(request'[v])
  BY <1>2 DEF RequestInv
<1>4. QED
  BY <1>1, <1>3 DEF RequestInv

LEMMA BeginInv == ASSUME RequestInv, NEW w \in Workers, Begin(w) PROVE RequestInv'
<1>1. CASE request' = [request EXCEPT ![w] = Done(401)]
  <2>1. Done(401) \in RequestType /\ Truthful(Done(401))
    BY DoneIsTruthful
  <2>2. QED
    BY <1>1, <2>1, WorkerStep, SMTT(30), ZenonT(60) DEF Begin
<1>2. CASE \E program \in routes :
             request' = [request EXCEPT ![w] = [Done(NoAnswer) EXCEPT !.rest = program]]
  <2>1. PICK program \in routes :
          request' = [request EXCEPT ![w] = [Done(NoAnswer) EXCEPT !.rest = program]]
    BY <1>2
  <2> DEFINE s == [Done(NoAnswer) EXCEPT !.rest = program]
  <2>2. s \in RequestType /\ Truthful(s)
    BY BeginIsTruthful
  <2> HIDE DEF s
  <2>3. request' = [request EXCEPT ![w] = s]
    BY <2>1 DEF s
  <2>4. QED
    BY <2>2, <2>3, WorkerStep DEF Begin
<1>3. QED
  BY <1>1, <1>2 DEF Begin

(* What a worker's request is before its step. *)
LEMMA WorkerFacts ==
  ASSUME RequestInv, NEW w \in Workers, request[w].rest # <<>>
  PROVE /\ request[w] \in RequestType /\ Truthful(request[w])
        /\ request[w].rest \in Seq(StepSet) /\ Sound(request[w].rest)
        /\ request[w].answer = NoAnswer
        /\ Head(request[w].rest) \in StepSet
        /\ Refuses(Head(request[w].rest)) => request[w].made \subseteq {"upload"}
        /\ request[w].missed # {} => request[w].failed
        /\ request[w].failed => ~Confirms(Head(request[w].rest))
<1> DEFINE r == request[w]
<1>1. r \in RequestType /\ Truthful(r)
  BY DEF RequestInv
<1>2. r.rest \in Seq(StepSet) /\ r.rest # <<>> /\ Sound(r.rest)
  BY <1>1 DEF RequestType, Truthful
<1>3. 1 \in 1..Len(r.rest) /\ Head(r.rest) = r.rest[1] /\ Head(r.rest) \in StepSet
  BY <1>2, TailIsSound
<1>4. QED
  BY <1>1, <1>2, <1>3 DEF Truthful

LEMMA GoStep ==
  ASSUME RequestInv, NEW w \in Workers, request[w].rest # <<>>, Go(w),
         Step(w)[1] = "settle" => ~request[w].failed,
         UNCHANGED <<registered, client, online>>
  PROVE RequestInv'
<1> DEFINE r == request[w]
           s == [r EXCEPT !.rest = Tail(@)]
<1>1. r \in RequestType /\ Truthful(r) /\ r.rest \in Seq(StepSet) /\ r.rest # <<>>
  BY WorkerFacts
<1>2. Tail(r.rest) \in Seq(StepSet)
  BY <1>1
<1>3. /\ s \in RequestType /\ s.rest = Tail(r.rest) /\ s.answer = r.answer /\ s.made = r.made
      /\ s.missed = r.missed /\ s.failed = r.failed
  BY <1>1, <1>2 DEF RequestType
<1>4. request' = [request EXCEPT ![w] = s]
  BY DEF Go, RequestInv
<1>5. Head(r.rest)[1] = "settle" => ~r.failed
  BY DEF Step
<1> HIDE DEF s
<1>6. Truthful(s)
  BY <1>1, <1>3, <1>5, GoIsTruthful
<1>7. QED
  BY <1>3, <1>4, <1>6, WorkerStep

LEMMA ReplyStep ==
  ASSUME RequestInv, NEW w \in Workers, request[w].rest # <<>>,
         NEW code \in Codes \cup {Aborted}, Reply(w, code),
         code \in {400, 401, 404, 501, 503, Aborted} => Refuses(Step(w)),
         code \in {200, 204} => Confirms(Step(w)),
         UNCHANGED <<registered, client, online>>
  PROVE RequestInv'
<1> DEFINE r == request[w]
           s == [r EXCEPT !.rest = <<>>, !.answer = code]
<1>1. r \in RequestType /\ <<>> \in Seq(StepSet)
  BY WorkerFacts, EmptySeq
<1>2. /\ s \in RequestType /\ s.rest = <<>> /\ s.answer = code /\ s.made = r.made /\ s.missed = r.missed
  BY <1>1 DEF RequestType
<1>3. request' = [request EXCEPT ![w] = s]
  BY DEF Reply, RequestInv
<1>4. code \in {400, 401, 404, 501, 503, Aborted} => r.made \subseteq {"upload"}
  BY WorkerFacts DEF Step
<1>5. code \in {200, 204} => r.missed = {}
  BY WorkerFacts DEF Step
<1> HIDE DEF s
<1>6. AnswerIsTrue(s)
  BY <1>2, <1>4, <1>5 DEF AnswerIsTrue
<1>7. Truthful(s)
  BY <1>2, <1>6, ReplyIsTruthful
<1>8. QED
  BY <1>2, <1>3, <1>7, WorkerStep

LEMMA CheckInv == ASSUME RequestInv, NEW w \in Workers, Check(w) PROVE RequestInv'
<1> USE DEF At
<1>1. request[w].rest # <<>>
  BY DEF Check
<1>2. UNCHANGED <<registered, client, online>>
  BY DEF Check
<1>3. ASSUME NEW code \in {400, 404, 503}, Reply(w, code),
             Step(w)[1] \in {"session", "connected", "paired", "body", "nobody"}
      PROVE RequestInv'
  <2>1. Refuses(Step(w)) /\ code \in Codes \cup {Aborted} /\ code \notin {200, 204}
    BY <1>3 DEF Refuses, Codes
  <2>2. QED
    BY <1>1, <1>2, <1>3, <2>1, ReplyStep
<1>4. ASSUME Go(w), Step(w)[1] # "settle" PROVE RequestInv'
  BY <1>1, <1>2, <1>4, GoStep
<1>5. CASE Step(w)[1] = "session" /\ IF registered THEN Go(w) ELSE Reply(w, 404)
  BY <1>3, <1>4, <1>5
<1>6. CASE Step(w)[1] = "connected" /\ IF client \in online THEN Go(w) ELSE Reply(w, 503)
  BY <1>3, <1>4, <1>6
<1>7. CASE Step(w)[1] = "paired" /\ (Go(w) \/ Reply(w, 503))
  BY <1>3, <1>4, <1>7
<1>8. CASE Step(w)[1] = "body" /\ (Go(w) \/ Reply(w, 400))
  BY <1>3, <1>4, <1>8
<1>9. CASE Step(w)[1] = "nobody" /\ Reply(w, 400)
  BY <1>3, <1>9
<1>10. CASE Step(w)[1] = "settle" /\ IF request[w].failed THEN Reply(w, 500) ELSE Go(w)
  <2>1. CASE request[w].failed /\ Reply(w, 500)
    <3>1. 500 \in Codes \cup {Aborted} /\ 500 \notin {200, 204, 400, 401, 404, 501, 503, Aborted}
      BY DEF Codes, Aborted
    <3>2. QED
      BY <1>1, <1>2, <2>1, <3>1, ReplyStep
  <2>2. CASE ~request[w].failed /\ Go(w)
    BY <1>1, <1>2, <2>2, GoStep
  <2>3. QED
    BY <1>10, <2>1, <2>2
<1>11. CASE Step(w)[1] = "answer" /\ Reply(w, Step(w)[2])
  <2>1. Step(w) \in StepSet
    BY <1>1, WorkerFacts DEF Step
  <2>2. Step(w)[2] \in Codes
    <3>1. PICK n \in Codes : Step(w) = Answer(n)
      BY <1>11, <2>1 DEF StepSet, Session, Connected, Paired, Body, NoBody, Resolve, Ask, Glance, Settle,
         Apply, Try
    <3>2. QED
      BY <3>1 DEF Answer
  <2>3. Aborted \notin Codes
    BY DEF Aborted, Codes
  <2>4. Step(w)[2] \in {400, 401, 404, 501, 503, Aborted} => Refuses(Step(w))
    BY <1>11, <2>2, <2>3 DEF Refuses
  <2>5. Step(w)[2] \in {200, 204} => Confirms(Step(w))
    BY <1>11 DEF Confirms
  <2>6. QED
    BY <1>1, <1>2, <1>11, <2>2, <2>4, <2>5, ReplyStep
<1>12. QED
  BY <1>5, <1>6, <1>7, <1>8, <1>9, <1>10, <1>11 DEF Check

LEMMA ResolveInv == ASSUME RequestInv, NEW w \in Workers, resolvePhoneJID(w) PROVE RequestInv'
<1>1. /\ request[w].rest # <<>> /\ Step(w)[1] = "resolve" /\ UNCHANGED <<registered, client, online>>
  BY DEF resolvePhoneJID, At
<1>2. Refuses(Step(w)) /\ 400 \in Codes /\ {400, Aborted} \cap {200, 204} = {}
  BY <1>1 DEF Refuses, Codes, Aborted
<1>3. CASE Go(w)
  BY <1>1, <1>3, GoStep
<1>4. ASSUME NEW code \in {400, Aborted}, Reply(w, code) PROVE RequestInv'
  <2>1. code \in Codes \cup {Aborted} /\ code \notin {200, 204}
    BY DEF Codes, Aborted
  <2>2. QED
    BY <1>1, <1>2, <1>4, <2>1, ReplyStep
<1>5. QED
  BY <1>3, <1>4 DEF resolvePhoneJID

LEMMA QueryInv == ASSUME RequestInv, NEW w \in Workers, Query(w) PROVE RequestInv'
<1>1. /\ request[w].rest # <<>> /\ Step(w)[1] \in {"ask", "glance"} /\ UNCHANGED <<registered, client, online>>
  BY DEF Query, At
<1>2. 500 \in Codes \cup {Aborted} /\ 500 \notin {200, 204, 400, 401, 404, 501, 503, Aborted}
  BY DEF Codes, Aborted
<1>3. CASE Go(w)
  BY <1>1, <1>3, GoStep
<1>4. CASE Reply(w, 500)
  BY <1>1, <1>2, <1>4, ReplyStep
<1>5. QED
  BY <1>3, <1>4 DEF Query

Ended(r, rest, code) == [r EXCEPT !.rest = rest, !.answer = code]

LEMMA EndedRequest ==
  ASSUME NEW r \in RequestType, NEW x \in Seq(StepSet), NEW n \in Codes
  PROVE Ended(r, x, n) \in RequestType /\ Ended(r, x, n).rest = x /\ Ended(r, x, n).answer = n
BY DEF RequestType, Ended

LEMMA FailedApply ==
  ASSUME NEW r \in RequestType
  PROVE LET s == [r EXCEPT !.rest = <<>>, !.answer = 500] IN s \in RequestType /\ Truthful(s)
<1> DEFINE s == [r EXCEPT !.rest = <<>>, !.answer = 500]
<1>1. <<>> \in Seq(StepSet)
  BY EmptySeq
<1>2. 500 \in Codes
  BY DEF Codes
<1>3. ASSUME NEW x \in Seq(StepSet), NEW n \in Codes, s = Ended(r, x, n)
      PROVE s \in RequestType /\ s.rest = x /\ s.answer = n
  <2> HIDE DEF s
  <2>1. QED
    BY <1>3, EndedRequest
<1>4. s \in RequestType /\ s.rest = <<>> /\ s.answer = 500
  <2>1. PICK x \in Seq(StepSet) : x = <<>>
    BY <1>1
  <2>2. PICK n \in Codes : n = 500
    BY <1>2
  <2>3. s = Ended(r, x, n)
    BY <2>1, <2>2 DEF Ended
  <2>4. x \in Seq(StepSet) /\ n \in Codes
    BY <2>1, <2>2
  <2> HIDE DEF s
  <2>5. s \in RequestType /\ s.rest = x /\ s.answer = n
    BY <1>3, <2>3, <2>4
  <2>6. QED
    BY <2>1, <2>2, <2>5
<1> HIDE DEF s
<1>5. AnswerIsTrue(s)
  BY <1>4 DEF AnswerIsTrue, Aborted
<1>6. Truthful(s)
  BY <1>4, <1>5, ReplyIsTruthful
<1>7. QED
  BY <1>4, <1>6 DEF s

LEMMA ApplyInv == ASSUME RequestInv, NEW w \in Workers, Change(w) PROVE RequestInv'
<1> DEFINE r == request[w]
           e == Step(w)[2]
<1>1. /\ r.rest # <<>> /\ Step(w)[1] \in {"apply", "try"} /\ UNCHANGED <<registered, client, online>>
  BY DEF Change, At
<1>2. /\ r \in RequestType /\ Truthful(r) /\ r.rest \in Seq(StepSet) /\ r.answer = NoAnswer
      /\ Step(w) \in StepSet /\ Step(w) = Head(r.rest)
  BY <1>1, WorkerFacts DEF Step
<1>3. e \in Effects
  <2>1. \E x \in Effects : Step(w) = Apply(x) \/ Step(w) = Try(x)
    BY <1>1, <1>2 DEF StepSet, Session, Connected, Paired, Body, NoBody, Resolve, Ask, Glance, Settle,
       Answer
  <2>2. QED
    BY <2>1 DEF Apply, Try
<1>4. Tail(r.rest) \in Seq(StepSet)
  BY <1>1, <1>2
<1>5. CASE Succeed(w)
  <2> DEFINE s == [r EXCEPT !.rest = Tail(@), !.made = @ \cup {e}]
  <2>1. /\ s \in RequestType /\ s.rest = Tail(r.rest) /\ s.answer = r.answer
        /\ s.made = r.made \cup {e} /\ s.missed = r.missed /\ s.failed = r.failed
    BY <1>2, <1>3, <1>4 DEF RequestType
  <2>2. request' = [request EXCEPT ![w] = s]
    BY <1>5 DEF Succeed, RequestInv
  <2> HIDE DEF s
  <2>3. Truthful(s)
    BY <1>1, <1>2, <2>1, GoIsTruthful
  <2>4. QED
    BY <1>1, <2>1, <2>2, <2>3, WorkerStep
<1>6. ASSUME NEW done \in {{}, {e}}, Fail(w, done) PROVE RequestInv'
  <2> DEFINE t == [r EXCEPT !.made = @ \cup done, !.missed = @ \cup {e}]
  <2>1. /\ t \in RequestType /\ t.rest = r.rest /\ t.answer = r.answer
        /\ t.made = r.made \cup done
    BY <1>2, <1>3, <1>6 DEF RequestType
  <2>2. /\ Step(w)[1] = "apply" => request' = [request EXCEPT ![w] = [t EXCEPT !.rest = <<>>, !.answer = 500]]
        /\ Step(w)[1] = "try" =>
             request' = [request EXCEPT ![w] = [t EXCEPT !.rest = Tail(@), !.failed = TRUE]]
    BY <1>6 DEF Fail
  <2>3. t.made = r.made \/ t.made = r.made \cup {e}
    BY <2>1, <1>6
  <2> HIDE DEF t
  <2>4. CASE Step(w)[1] = "apply"
    <3> DEFINE s == [t EXCEPT !.rest = <<>>, !.answer = 500]
    <3>1. request' = [request EXCEPT ![w] = s]
      BY <2>2, <2>4
    <3>2. s \in RequestType /\ Truthful(s)
      BY <2>1, FailedApply
    <3> HIDE DEF s
    <3>3. QED
      BY <1>1, <3>1, <3>2, WorkerStep
  <2>5. CASE Step(w)[1] = "try"
    <3> DEFINE s == [t EXCEPT !.rest = Tail(@), !.failed = TRUE]
    <3>1. /\ s \in RequestType /\ s.rest = Tail(r.rest) /\ s.answer = r.answer
          /\ s.failed /\ s.made = t.made
      BY <1>4, <2>1 DEF RequestType
    <3>2. request' = [request EXCEPT ![w] = s]
      BY <2>2, <2>5
    <3> HIDE DEF s
    <3>3. Truthful(s)
      BY <1>1, <1>2, <2>3, <2>5, <3>1, GoIsTruthful
    <3>4. QED
      BY <1>1, <3>1, <3>2, <3>3, WorkerStep
  <2>6. QED
    BY <1>1, <2>4, <2>5
<1>7. QED
  BY <1>5, <1>6 DEF Change

LEMMA RequestInvStep == RequestInv /\ [RequestNext]_requestVars => RequestInv'
<1> SUFFICES ASSUME RequestInv, [RequestNext]_requestVars PROVE RequestInv'
  OBVIOUS
<1>1. ASSUME replaceClient \/ Delete \/ Wire PROVE RequestInv'
  <2>1. registered' \in BOOLEAN /\ client' \in Accounts /\ online' \subseteq Accounts /\ request' = request
    BY <1>1 DEF replaceClient, Delete, Wire, RequestInv
  <2>2. QED
    BY <2>1 DEF RequestInv
<1>2. CASE UNCHANGED requestVars
  BY <1>2 DEF requestVars, RequestInv
<1>3. ASSUME NEW w \in Workers, Begin(w) \/ Check(w) \/ resolvePhoneJID(w) \/ Query(w) \/ Change(w)
      PROVE RequestInv'
  <2>1. CASE Begin(w)
    BY <2>1, BeginInv
  <2>2. CASE Check(w)
    BY <2>2, CheckInv
  <2>3. CASE resolvePhoneJID(w)
    BY <2>3, ResolveInv
  <2>4. CASE Query(w)
    BY <2>4, QueryInv
  <2>5. CASE Change(w)
    BY <2>5, ApplyInv
  <2>6. QED
    BY <1>3, <2>1, <2>2, <2>3, <2>4, <2>5
<1>4. QED
  BY <1>1, <1>2, <1>3 DEF RequestNext

LEMMA RequestInvariant == RequestSpec => []RequestInv
BY RequestInit_Inv, RequestInvStep, PTL DEF RequestSpec

LEMMA RequestInvTypes == RequestInv => RequestTypeOK
BY DEF RequestInv, RequestType, RequestTypeOK

LEMMA RequestInvIsTrue == RequestInv => AnswersAreTrue
BY DEF RequestInv, Truthful, AnswerIsTrue, AnswersAreTrue

------------------------------------------------------------------------------
(* The server: every step of one part is a stutter of the others. *)

LEMMA ServerIsItsParts == Spec => StreamSpec /\ RecordingSpec /\ RequestSpec
<1>1. Init => StreamInit /\ RecordingInit /\ RequestInit
  BY DEF Init
<1>2. [Next]_vars =>
        [StreamNext]_streamVars /\ [RecordingNext]_recordingVars /\ [RequestNext]_requestVars
  BY DEF Next, InStream, InRecording, InRequests, vars
<1>3. QED
  BY <1>1, <1>2, PTL DEF Spec, StreamSpec, RecordingSpec, RequestSpec

(* Every variable of the server has its type: recorders, rows and objects, *)
(* channels and lists, and requests, which answer with one of Codes and    *)
(* change only what their handler may.                                     *)
THEOREM ServerTypes == Spec => []TypeOK
<1>1. RecordingInv => RecordingTypeOK
  BY DEF RecordingInv
<1>2. QED
  BY <1>1, ServerIsItsParts, StreamTypes, RecordingInvariant, RequestInvariant, RequestInvTypes,
     PTL DEF TypeOK

(* The answer of every handler tells what was done, for every request body *)
(* it may choose a branch by and for any number of workers, accounts and   *)
(* ids in a block list: a 2xx, that each change was made and acknowledged, *)
(* a refusal, that none was.  Meanwhile the session is logged out, paired  *)
(* again or deleted, and each step finds another client.                   *)
THEOREM AnswersTellWhatWasDone == Spec => []AnswersAreTrue
BY ServerIsItsParts, RequestInvariant, RequestInvIsTrue, PTL

(* No row of call_history names an object that is not stored, and no       *)
(* stored object is without a row that names it, in whatever order the     *)
(* goroutines of removeCall and endCall reach the database, and wherever   *)
(* they fail or the server crashes.                                        *)
THEOREM RowsAndObjectsAgree == Spec => []RecordingsAgree
BY ServerIsItsParts, RecordingInvariant, RecordingInvAgrees, PTL

(* What StreamInvariant shows of the event stream holds of the server:     *)
(* no send on a closed channel, and browsers that show the calls as they   *)
(* are, with the exceptions of ViewIsCurrent.                              *)
THEOREM ServerStreams == Spec => [](NoSendOnClosed /\ ViewIsCurrent)
BY ServerIsItsParts, ClosedIsNeverSentTo, BrowsersAreCurrent, PTL
===============================================================================
