-------------------------------- MODULE Webhooks --------------------------------
(***************************************************************************)
(* Webhooks (cmd/server/webhookdispatcher.go, webhookstore.go,             *)
(* httpapi_webhooks.go): the hooks of a session in the database, the       *)
(* requests that change them, the queue that the broker feeds and the one  *)
(* goroutine that refreshes its copy of the hooks and posts the events.    *)
(*                                                                         *)
(* A job is its place among the events that were offered to the queue.     *)
(* Lists of calls and of sessions carry no session id, and Sink drops      *)
(* them before they get here.                                              *)
(***************************************************************************)
EXTENDS Naturals, Sequences, SequencesExt, FiniteSets

CONSTANTS Hooks,        \* ids of webhooks; an id is random and used once
          Editors,      \* requests that change a hook
          Kinds,        \* types of events
          QueueSize,    \* 1024 in the code
          MaxRetries,   \* attempts; 3 in the code
          MaxJobs,      \* bound: events
          NoHook, NoEdit

ASSUME HooksAssumption == IsFiniteSet(Hooks) /\ MaxRetries \in Nat

VARIABLES session,      \* the session's row exists
          hook,         \* table webhooks
          created,      \* the hooks in the order of created_at
          edit,         \* the hook a request has read
          cache,        \* WebhookDispatcher.webhooks: the copy of each hook
          jobs,         \* the queue
          offered,      \* number of events so far
          sender,       \* the goroutine
          posted        \* the last job that reached a hook, and its answer

hookVars == <<session, hook, created, edit, cache, jobs, offered, sender, posted>>

Hook == [enabled : BOOLEAN, events : SUBSET Kinds]   \* "*" is all of them

Resting == [at |-> "idle", job |-> 0, rest |-> <<>>, attempt |-> 0]

HookInit ==
  /\ session = TRUE
  /\ hook = [h \in Hooks |-> NoHook]
  /\ created = <<>>
  /\ edit = [e \in Editors |-> NoEdit]
  /\ cache = [h \in Hooks |-> NoHook]
  /\ jobs = <<>>
  /\ offered = 0
  /\ sender = Resting
  /\ posted = [h \in Hooks |-> [number |-> 0, ok |-> TRUE]]

------------------------------------------------------------------------------
(* The API.  A request that finds no session or no hook answers 404, and   *)
(* one whose statement fails 500: it changes nothing.                      *)

dispatching == <<cache, jobs, offered, sender, posted>>

CreateWebhook(h) ==
  /\ session
  /\ h \notin ToSet(created)
  /\ \E w \in Hook : hook' = [hook EXCEPT ![h] = w]
  /\ created' = Append(created, h)
  /\ UNCHANGED <<session, edit, dispatching>>

ReadWebhook(e, h) ==
  /\ session
  /\ edit[e] = NoEdit /\ hook[h] # NoHook
  /\ edit' = [edit EXCEPT ![e] = h]
  /\ UNCHANGED <<session, hook, created, dispatching>>

(* The body names any of the fields, the others are those that were read;  *)
(* UPDATE finds no row if the hook has been deleted since.                 *)
WriteWebhook(e) ==
  /\ edit[e] # NoEdit
  /\ \E w \in Hook : hook' = [hook EXCEPT ![edit[e]] = IF @ = NoHook THEN NoHook ELSE w]
  /\ edit' = [edit EXCEPT ![e] = NoEdit]
  /\ UNCHANGED <<session, created, dispatching>>

DeleteWebhook(h) ==
  /\ session
  /\ hook[h] # NoHook
  /\ hook' = [hook EXCEPT ![h] = NoHook]
  /\ UNCHANGED <<session, created, edit, dispatching>>

(* ON DELETE CASCADE *)
DeleteSession ==
  /\ session
  /\ session' = FALSE
  /\ hook' = [h \in Hooks |-> NoHook]
  /\ UNCHANGED <<created, edit, dispatching>>

------------------------------------------------------------------------------
(* The dispatcher *)

stored == <<session, hook, created, edit>>

Enqueue(kind) ==
  /\ offered < MaxJobs
  /\ offered' = offered + 1
  /\ jobs' = IF Len(jobs) < QueueSize
             THEN Append(jobs, [number |-> offered + 1, kind |-> kind])
             ELSE jobs
  /\ UNCHANGED <<stored, cache, sender, posted>>

listAllEnabled == {h \in Hooks : hook[h] # NoHook /\ hook[h].enabled}

refreshWebhooks_Merge ==
  /\ sender.at = "idle"
  /\ cache' = [h \in Hooks |-> IF hook[h] = NoHook THEN cache[h]
                               ELSE IF h \in listAllEnabled THEN hook[h] ELSE NoHook]
  /\ UNCHANGED <<stored, jobs, offered, sender, posted>>

(* At the start and every 30 seconds; an error leaves the copy as it is.   *)
refreshWebhooks ==
  /\ sender.at = "idle"
  /\ cache' = [h \in Hooks |-> IF h \in listAllEnabled THEN hook[h] ELSE NoHook]
  /\ UNCHANGED <<stored, jobs, offered, sender, posted>>

(* The rows come, and are searched, in the order of their creation.        *)
Precedes(g, h) == \E i, j \in DOMAIN created : i < j /\ created[i] = g /\ created[j] = h

InOrder(hooks) ==
  {ids \in [1..Cardinality(hooks) -> hooks] :
     \A i, j \in DOMAIN ids : i < j => Precedes(ids[i], ids[j])}

matchingWebhooks(kind) == InOrder({h \in Hooks : cache[h] # NoHook /\ kind \in cache[h].events})

(* The hooks a job is still to be sent to. *)
Sending(number, rest) ==
  IF rest = <<>> THEN Resting
  ELSE [at |-> "sending", job |-> number, rest |-> rest, attempt |-> 1]

dispatch ==
  /\ sender.at = "idle"
  /\ jobs # <<>>
  /\ jobs' = Tail(jobs)
  /\ \E ids \in matchingWebhooks(Head(jobs).kind) : sender' = Sending(Head(jobs).number, ids)
  /\ UNCHANGED <<stored, cache, offered, posted>>

Posted(ok) == posted' = [posted EXCEPT ![Head(sender.rest)] = [number |-> sender.job, ok |-> ok]]

SendFails_Requeue ==
  /\ sender.at = "sending"
  /\ Posted(FALSE) \/ UNCHANGED posted
  /\ jobs' = Append(jobs, [number |-> sender.job, kind |-> CHOOSE k \in Kinds : TRUE])
  /\ sender' = Sending(sender.job, Tail(sender.rest))
  /\ UNCHANGED <<stored, cache, offered>>

(* Send, answered below 300 within its time: the next hook's turn.         *)
SendSucceeds ==
  /\ sender.at = "sending"
  /\ Posted(TRUE)
  /\ sender' = Sending(sender.job, Tail(sender.rest))
  /\ UNCHANGED <<stored, cache, jobs, offered>>

(* It did not reach the hook, or its answer was a failure or came late.    *)
SendFails ==
  /\ sender.at = "sending"
  /\ Posted(FALSE) \/ UNCHANGED posted
  /\ sender' = IF sender.attempt < MaxRetries
               THEN [sender EXCEPT !.at = "waiting", !.attempt = @ + 1]
               ELSE Sending(sender.job, Tail(sender.rest))
  /\ UNCHANGED <<stored, cache, jobs, offered>>

BackoffEnds ==
  /\ sender.at = "waiting"
  /\ sender' = [sender EXCEPT !.at = "sending"]
  /\ UNCHANGED <<stored, cache, jobs, offered, posted>>

(* The context ends: neither a request nor a backoff outlasts it.          *)
Stop ==
  /\ sender.at # "stopped"
  /\ sender' = [Resting EXCEPT !.at = "stopped"]
  /\ UNCHANGED <<stored, cache, jobs, offered, posted>>

HookNext ==
  \/ \E h \in Hooks : CreateWebhook(h) \/ DeleteWebhook(h)
  \/ \E e \in Editors : WriteWebhook(e) \/ \E h \in Hooks : ReadWebhook(e, h)
  \/ DeleteSession
  \/ \E kind \in Kinds : Enqueue(kind)
  \/ refreshWebhooks \/ dispatch \/ SendSucceeds \/ SendFails \/ BackoffEnds \/ Stop

(* The goroutine runs on; its ticker ticks, select picks the tick in the   *)
(* end however many events wait, and the database does not fail for ever.  *)
HookSpec ==
  /\ HookInit /\ [][HookNext]_hookVars
  /\ SF_hookVars(refreshWebhooks)
  /\ WF_hookVars(dispatch \/ SendSucceeds \/ SendFails \/ BackoffEnds)

------------------------------------------------------------------------------
(* A hook receives the events in the order in which they happened, and     *)
(* none again after it has acknowledged it; an event whose acknowledgement *)
(* is lost may come again, before any later one.                           *)
HookSeesOrder ==
  [][\A h \in Hooks : posted'[h] # posted[h] =>
       \/ posted'[h].number > posted[h].number
       \/ posted'[h].number = posted[h].number /\ ~posted[h].ok]_hookVars

Targeted(h) ==
  /\ sender.at # "stopped"
  /\ \/ cache[h] # NoHook
     \/ h \in ToSet(sender.rest)

(* A hook that was deleted, by itself or with its session, is sooner or    *)
(* later never called again, although a request that had read it writes it *)
(* afterwards.                                                             *)
DeletedFallsSilent ==
  \A h \in Hooks : (h \in ToSet(created) /\ hook[h] = NoHook) ~> [](~Targeted(h))
=================================================================================
