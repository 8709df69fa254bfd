------------------------------ MODULE EventStream ------------------------------
(***************************************************************************)
(* Broker and its server-sent events (cmd/server/broker.go): goroutines    *)
(* change the table of calls, copy it under a read lock and broadcast the  *)
(* copy under a second one, while browsers subscribe, read their channels  *)
(* and go away.                                                            *)
(*                                                                         *)
(* The table is the number of its changes, a list of calls the number it   *)
(* was copied at, and every other event is OtherEvent.  The owner of a     *)
(* call is left out: setOwner announces no list.                           *)
(***************************************************************************)
EXTENDS Naturals, Sequences, FiniteSets

CONSTANTS Publishers,   \* goroutines that change calls or report events
          Streams,      \* requests for the event stream
          ChannelSize,  \* of a subscriber's channel; 32 in the code
          MaxVersion    \* bound: changes of the table

ASSUME StreamsAssumption ==
  Publishers \cap Streams = {} /\ ChannelSize \in Nat \ {0} /\ MaxVersion \in Nat \ {0}

VARIABLES version,      \* Broker.calls
          subs,         \* Broker.subs
          channel,      \* the channel of each subscriber
          connection,   \* of each stream
          task,         \* what a goroutine has still to broadcast
          view,         \* the last list a stream has written
          newest,       \* the newest list offered to a stream
          behind        \* the last one was dropped or older than another

streamVars == <<version, subs, channel, connection, task, view, newest, behind>>

OtherEvent == 0

Senders == Publishers \cup Streams

Free == [todo |-> <<>>, at |-> "idle", event |-> OtherEvent, left |-> {}]

Todos == {<<>>, <<"event">>, <<"list">>, <<"event", "list">>, <<"list", "event">>}

Task == [todo  : Todos,
         at    : {"idle", "holding", "sending"},
         event : OtherEvent..MaxVersion,
         left  : SUBSET Streams]

StreamTypeOK ==
  /\ version \in 1..MaxVersion
  /\ subs \subseteq Streams
  /\ channel \in [Streams -> Seq(OtherEvent..version)]
  /\ connection \in [Streams -> {"new", "serving", "leaving", "closed"}]
  /\ task \in [Senders -> Task]
  /\ view \in [Streams -> 0..version] /\ newest \in [Streams -> 0..version]
  /\ behind \in [Streams -> BOOLEAN]
  /\ \A s \in Streams : Len(channel[s]) <= ChannelSize /\ view[s] <= newest[s]
  /\ \A g \in Senders : task[g].event <= version

StreamInit ==
  /\ version = 1
  /\ subs = {}
  /\ channel = [s \in Streams |-> <<>>]
  /\ connection = [s \in Streams |-> "new"]
  /\ task = [g \in Senders |-> Free]
  /\ view = [s \in Streams |-> 0]
  /\ newest = [s \in Streams |-> 0]
  /\ behind = [s \in Streams |-> FALSE]

------------------------------------------------------------------------------
(* Broadcasts hold the read lock, which keeps writers out. *)

ReadLocked == \E g \in Senders : task[g].at = "sending"

Starts(g, todo) == task[g] = Free /\ task' = [task EXCEPT ![g].todo = todo]

Changes ==
  /\ ~ReadLocked
  /\ version < MaxVersion
  /\ version' = version + 1

upsertCall_ListFirst(g) ==
  /\ g \in Publishers /\ task[g] = Free
  /\ Changes
  /\ task' = [task EXCEPT ![g] = [todo |-> <<"list", "event">>, at |-> "holding",
                                  event |-> version, left |-> {}]]
  /\ UNCHANGED <<subs, channel, connection, view, newest, behind>>

upsertCall(g) ==
  /\ g \in Publishers
  /\ Changes
  /\ Starts(g, <<"list", "event">>)
  /\ UNCHANGED <<subs, channel, connection, view, newest, behind>>

endCall(g) ==
  /\ g \in Publishers
  /\ Changes
  /\ Starts(g, <<"event", "list">>)
  /\ UNCHANGED <<subs, channel, connection, view, newest, behind>>

emitEvent(g) ==
  /\ g \in Publishers
  /\ Starts(g, <<"event">>)
  /\ UNCHANGED <<version, subs, channel, connection, view, newest, behind>>

(* broadcastCallList copies, and lets go of the lock before it broadcasts. *)
Prepare(g) ==
  /\ task[g].at = "idle" /\ task[g].todo # <<>>
  /\ task' = [task EXCEPT ![g].at = "holding",
                          ![g].event = IF Head(task[g].todo) = "list" THEN version ELSE OtherEvent]
  /\ UNCHANGED <<version, subs, channel, connection, view, newest, behind>>

Broadcast(g) ==
  /\ task[g].at = "holding"
  /\ task' = [task EXCEPT ![g].at = "sending", ![g].left = subs]
  /\ UNCHANGED <<version, subs, channel, connection, view, newest, behind>>

Deliver_Unbounded(g) ==
  /\ task[g].at = "sending"
  /\ \E s \in task[g].left :
       /\ task' = [task EXCEPT ![g].left = @ \ {s}]
       /\ channel' = [channel EXCEPT ![s] = Append(@, task[g].event)]
  /\ UNCHANGED <<version, subs, connection, view, newest, behind>>

(* A full channel drops the event. *)
Deliver(g) ==
  /\ task[g].at = "sending"
  /\ \E s \in task[g].left :
       LET event == task[g].event
           room  == Len(channel[s]) < ChannelSize
       IN /\ task' = [task EXCEPT ![g].left = @ \ {s}]
          /\ channel' = [channel EXCEPT ![s] = IF room THEN Append(@, event) ELSE @]
          /\ IF event = OtherEvent THEN UNCHANGED <<newest, behind>>
             ELSE /\ newest' = [newest EXCEPT ![s] = IF event > @ THEN event ELSE @]
                  /\ behind' = [behind EXCEPT ![s] = ~room \/ event < newest[s]]
  /\ UNCHANGED <<version, subs, connection, view>>

Finish(g) ==
  /\ task[g].at = "sending" /\ task[g].left = {}
  /\ task' = [task EXCEPT ![g] = [Free EXCEPT !.todo = Tail(task[g].todo)]]
  /\ UNCHANGED <<version, subs, channel, connection, view, newest, behind>>

------------------------------------------------------------------------------
(* serveSSE: subscribe, the snapshot of the sessions, a broadcast of the   *)
(* list to every subscriber, then the loop.                                *)

Subscribe(s) ==
  /\ connection[s] = "new"
  /\ ~ReadLocked
  /\ subs' = subs \cup {s}
  /\ connection' = [connection EXCEPT ![s] = "serving"]
  /\ Starts(s, <<"list">>)
  /\ UNCHANGED <<version, channel, view, newest, behind>>

Serve(s) ==
  /\ connection[s] = "serving" /\ task[s] = Free
  /\ channel[s] # <<>>
  /\ channel' = [channel EXCEPT ![s] = Tail(@)]
  /\ view' = [view EXCEPT ![s] = IF Head(channel[s]) = OtherEvent THEN @ ELSE Head(channel[s])]
  /\ UNCHANGED <<version, subs, connection, task, newest, behind>>

Unsubscribe_NoLock(s) ==
  /\ connection[s] = "serving" /\ task[s] = Free
  /\ subs' = subs \ {s}
  /\ connection' = [connection EXCEPT ![s] = "leaving"]
  /\ UNCHANGED <<version, channel, task, view, newest, behind>>

(* The browser has gone. *)
Unsubscribe(s) ==
  /\ connection[s] = "serving" /\ task[s] = Free
  /\ ~ReadLocked
  /\ subs' = subs \ {s}
  /\ connection' = [connection EXCEPT ![s] = "leaving"]
  /\ UNCHANGED <<version, channel, task, view, newest, behind>>

CloseChannel(s) ==
  /\ connection[s] = "leaving"
  /\ connection' = [connection EXCEPT ![s] = "closed"]
  /\ UNCHANGED <<version, subs, channel, task, view, newest, behind>>

StreamNext ==
  \/ \E g \in Senders : upsertCall(g) \/ endCall(g) \/ emitEvent(g)
                        \/ Prepare(g) \/ Broadcast(g) \/ Deliver(g) \/ Finish(g)
  \/ \E s \in Streams : Subscribe(s) \/ Serve(s) \/ Unsubscribe(s) \/ CloseChannel(s)

StreamSpec == StreamInit /\ [][StreamNext]_streamVars

------------------------------------------------------------------------------
(* No broadcast has a channel before it that is closed: a send on it would *)
(* bring the whole server down.                                            *)
NoSendOnClosed ==
  \A g \in Senders : \A s \in task[g].left : connection[s] # "closed"

(* When nothing is left to broadcast, a browser that has read its channel  *)
(* shows the calls as they are, but for their owners (setOwner announces   *)
(* no list), however it came in between two changes; unless the last list  *)
(* offered to it found its channel full, or had been overtaken by a newer  *)
(* one after it was copied.                                                *)
ViewIsCurrent ==
  \A s \in Streams :
    ( /\ connection[s] = "serving" /\ channel[s] = <<>> /\ ~behind[s]
      /\ \A g \in Senders : task[g] = Free ) => view[s] = version
================================================================================
