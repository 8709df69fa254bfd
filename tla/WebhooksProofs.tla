----------------------------- MODULE WebhooksProofs -----------------------------
(***************************************************************************)
(* Proofs about Webhooks, for every finite set of hooks, every size of the *)
(* queue and every number of attempts: a hook sees the events in order.    *)
(***************************************************************************)
EXTENDS Webhooks, SequenceTheorems, FiniteSetTheorems, TLAPS

Job == [number : Nat, kind : Kinds]

Sender == [at : {"idle", "sending", "waiting", "stopped"}, job : Nat, rest : Seq(Hooks), attempt : Nat]

DispatcherTypeOK ==
  /\ created \in Seq(Hooks)
  /\ jobs \in Seq(Job)
  /\ offered \in Nat
  /\ sender \in Sender
  /\ posted \in [Hooks -> [number : Nat, ok : BOOLEAN]]

(* A hook is created once, so no job has it twice among its hooks. *)
CreatedOnce == \A i, j \in DOMAIN created : i # j => created[i] # created[j]

(* The queue keeps the order in which events were offered, although some   *)
(* were dropped.                                                           *)
QueueIsOrdered ==
  /\ \A i \in DOMAIN jobs : jobs[i].number <= offered
  /\ \A i, j \in DOMAIN jobs : i < j => jobs[i].number < jobs[j].number

Busy == sender.at \in {"sending", "waiting"}

(* What was posted, or is being posted, is older than all that waits. *)
PostedIsOlder ==
  /\ \A h \in Hooks : posted[h].number <= offered
                      /\ \A i \in DOMAIN jobs : posted[h].number < jobs[i].number
  /\ Busy => /\ sender.job <= offered
             /\ \A i \in DOMAIN jobs : sender.job < jobs[i].number

(* The hooks still to be called have not had the job; the first of them    *)
(* may have had it, but has not acknowledged it.                           *)
RestIsNew ==
  Busy => /\ sender.rest # <<>>
          /\ \A i, j \in DOMAIN sender.rest : i # j => sender.rest[i] # sender.rest[j]
          /\ \A i \in DOMAIN sender.rest :
               \/ posted[sender.rest[i]].number < sender.job
               \/ i = 1 /\ posted[sender.rest[i]].number = sender.job /\ ~posted[sender.rest[i]].ok

IInv == DispatcherTypeOK /\ CreatedOnce /\ QueueIsOrdered /\ PostedIsOlder /\ RestIsNew

Ordered(h) ==
  posted'[h] # posted[h] =>
    \/ posted'[h].number > posted[h].number
    \/ posted'[h].number = posted[h].number /\ ~posted[h].ok

------------------------------------------------------------------------------
LEMMA RestingFacts == Resting \in Sender /\ Resting.at = "idle"
                      /\ [Resting EXCEPT !.at = "stopped"] \in Sender
                      /\ [Resting EXCEPT !.at = "stopped"].at = "stopped"
<1>1. <<>> \in Seq(Hooks)
  OBVIOUS
<1>2. Resting \in Sender /\ Resting.at = "idle"
  BY <1>1 DEF Resting, Sender
<1> HIDE DEF Resting
<1>3. QED
  BY <1>2 DEF Sender

LEMMA InitInv == HookInit => IInv
<1> SUFFICES ASSUME HookInit PROVE IInv
  OBVIOUS
<1>1. DispatcherTypeOK
  BY RestingFacts DEF HookInit, DispatcherTypeOK
<1>2. CreatedOnce /\ QueueIsOrdered
  BY DEF HookInit, CreatedOnce, QueueIsOrdered
<1>3. ~Busy
  BY RestingFacts DEF HookInit, Busy
<1>4. PostedIsOlder /\ RestIsNew
  BY <1>3 DEF HookInit, PostedIsOlder, RestIsNew
<1>5. QED
  BY <1>1, <1>2, <1>4 DEF IInv

(* A step that touches neither the queue nor the goroutine. *)
LEMMA SameDispatcher ==
  ASSUME IInv, UNCHANGED <<jobs, offered, sender, posted>>, created' \in Seq(Hooks), CreatedOnce'
  PROVE  IInv'
BY DEF IInv, DispatcherTypeOK, QueueIsOrdered, PostedIsOlder, RestIsNew, Busy

LEMMA StoredInv ==
  ASSUME IInv, UNCHANGED <<created, jobs, offered, sender, posted>> PROVE IInv'
BY SameDispatcher DEF IInv, DispatcherTypeOK, CreatedOnce

LEMMA CreateWebhookInv == ASSUME IInv, NEW h \in Hooks, CreateWebhook(h) PROVE IInv'
<1>1. created \in Seq(Hooks) /\ created' = Append(created, h) /\ \A i \in DOMAIN created : created[i] # h
  BY DEF IInv, DispatcherTypeOK, CreateWebhook, ToSet
<1>2. created' \in Seq(Hooks)
  BY <1>1
<1>3. CreatedOnce'
  <2>1. /\ DOMAIN created = 1 .. Len(created) /\ DOMAIN created' = 1 .. Len(created) + 1
        /\ created'[Len(created) + 1] = h /\ Len(created) \in Nat
        /\ \A i \in 1 .. Len(created) : created'[i] = created[i]
    BY <1>1
  <2>2. QED
    BY <1>1, <2>1 DEF IInv, CreatedOnce
<1>4. QED
  BY <1>2, <1>3, SameDispatcher DEF CreateWebhook, dispatching

LEMMA EnqueueInv == ASSUME IInv, NEW kind \in Kinds, Enqueue(kind) PROVE IInv'
<1> DEFINE job == [number |-> offered + 1, kind |-> kind]
<1>1. /\ offered \in Nat /\ jobs \in Seq(Job) /\ job \in Job /\ job.number = offered + 1
      /\ offered' = offered + 1
      /\ jobs' = jobs \/ jobs' = Append(jobs, job)
      /\ UNCHANGED <<created, sender, posted>>
  BY DEF Enqueue, IInv, DispatcherTypeOK, Job, stored
<1> HIDE DEF job
<1>2. /\ jobs' \in Seq(Job) /\ DOMAIN jobs = 1 .. Len(jobs) /\ Len(jobs) \in Nat
      /\ \A i \in DOMAIN jobs : jobs'[i] = jobs[i] /\ jobs[i].number \in Nat
      /\ \A i \in DOMAIN jobs' : i \in DOMAIN jobs \/ (i = Len(jobs) + 1 /\ jobs'[i].number = offered + 1)
  <2>1. /\ \A i \in DOMAIN jobs : jobs[i].number \in Nat
        /\ DOMAIN jobs = 1 .. Len(jobs) /\ Len(jobs) \in Nat
    <3>1. \A i \in DOMAIN jobs : jobs[i] \in Job
      BY <1>1
    <3>2. QED
      BY <3>1, <1>1 DEF Job
  <2>2. CASE jobs' = jobs
    <3>1. jobs' \in Seq(Job)
      BY <1>1, <2>2
    <3>2. QED
      BY <2>1, <2>2, <3>1, Zenon
  <2>3. CASE jobs' = Append(jobs, job)
    <3>1. /\ jobs' \in Seq(Job) /\ Len(jobs') = Len(jobs) + 1 /\ jobs'[Len(jobs) + 1] = job
          /\ \A i \in 1 .. Len(jobs) : jobs'[i] = jobs[i]
      BY <1>1, <2>3
    <3>2. QED
      BY <3>1, <2>1, <1>1
  <2>4. QED
    BY <1>1, <2>2, <2>3
<1>3. DispatcherTypeOK' /\ CreatedOnce' /\ RestIsNew'
  BY <1>1, <1>2 DEF IInv, DispatcherTypeOK, CreatedOnce, RestIsNew, Busy
<1>4. QueueIsOrdered'
  <2>1. \A i \in DOMAIN jobs' : jobs'[i].number \in Nat /\ jobs'[i].number <= offered'
    BY <1>1, <1>2 DEF IInv, QueueIsOrdered
  <2>2. ASSUME NEW i \in DOMAIN jobs', NEW j \in DOMAIN jobs', i < j
        PROVE  jobs'[i].number < jobs'[j].number
    <3>1. i \in DOMAIN jobs
      BY <2>2, <1>2
    <3>2. CASE j \in DOMAIN jobs
      BY <2>2, <3>1, <3>2, <1>2 DEF IInv, QueueIsOrdered
    <3>3. CASE j \notin DOMAIN jobs
      BY <2>2, <3>1, <3>3, <1>1, <1>2 DEF IInv, QueueIsOrdered
    <3>4. QED
      BY <3>2, <3>3
  <2>3. QED
    BY <2>1, <2>2 DEF QueueIsOrdered
<1>5. PostedIsOlder'
  <2>1. \A h \in Hooks : posted[h].number \in Nat
    BY DEF IInv, DispatcherTypeOK
  <2>2. sender.job \in Nat
    BY DEF IInv, DispatcherTypeOK, Sender
  <2>3. QED
    BY <1>1, <1>2, <2>1, <2>2 DEF IInv, PostedIsOlder, Busy
<1>6. QED
  BY <1>3, <1>4, <1>5 DEF IInv

------------------------------------------------------------------------------
(* Whom a job is sent to *)

(* The hooks of a job are finitely many, each once. *)
LEMMA MatchingFacts ==
  ASSUME IInv, NEW kind, NEW ids \in matchingWebhooks(kind)
  PROVE  ids \in Seq(Hooks) /\ \A i, j \in DOMAIN ids : i # j => ids[i] # ids[j]
<1> DEFINE matched == {h \in Hooks : cache[h] # NoHook /\ kind \in cache[h].events}
<1>1. /\ ids \in [1 .. Cardinality(matched) -> matched]
      /\ \A i, j \in DOMAIN ids : i < j => Precedes(ids[i], ids[j])
  BY DEF matchingWebhooks, InOrder
<1>2. Cardinality(matched) \in Nat
  <2>1. IsFiniteSet(matched)
    BY HooksAssumption, FS_Subset
  <2>2. QED
    BY <2>1, FS_CardinalityType
<1> HIDE DEF matched
<1>3. ids \in Seq(matched) /\ DOMAIN ids = 1 .. Cardinality(matched)
  BY <1>1, <1>2
<1>4. matched \subseteq Hooks
  BY DEF matched
<1>5. ASSUME NEW i \in DOMAIN ids, NEW j \in DOMAIN ids, i < j PROVE ids[i] # ids[j]
  <2>1. PICK k \in DOMAIN created, l \in DOMAIN created : k < l /\ created[k] = ids[i] /\ created[l] = ids[j]
    BY <1>1, <1>5 DEF Precedes
  <2>2. k # l
    BY <2>1 DEF IInv, DispatcherTypeOK
  <2>3. QED
    BY <2>1, <2>2 DEF IInv, CreatedOnce
<1>6. ASSUME NEW i \in DOMAIN ids, NEW j \in DOMAIN ids, i # j PROVE i < j \/ j < i
  BY <1>2, <1>3, <1>6
<1>7. ids \in Seq(Hooks)
  BY <1>3, <1>4
<1>8. QED
  BY <1>5, <1>6, <1>7

(* The goroutine takes up a job that is newer than all that was posted, or *)
(* goes on to the next hook of its job.                                    *)
LEMMA SendingInv ==
  ASSUME IInv, NEW number \in Nat, NEW rest \in Seq(Hooks), sender' = Sending(number, rest),
         jobs' \in Seq(Job), QueueIsOrdered', number <= offered,
         \A i \in DOMAIN jobs' : number < jobs'[i].number,
         posted' \in [Hooks -> [number : Nat, ok : BOOLEAN]],
         \A h \in Hooks : /\ posted'[h].number <= offered
                          /\ \A i \in DOMAIN jobs' : posted'[h].number < jobs'[i].number,
         \A i, j \in DOMAIN rest : i # j => rest[i] # rest[j],
         \A i \in DOMAIN rest : posted'[rest[i]].number < number,
         UNCHANGED <<created, offered>>
  PROVE  IInv'
<1>1. CASE rest = <<>>
  <2>1. sender' \in Sender /\ ~Busy'
    BY <1>1, RestingFacts DEF Sending, Busy
  <2>2. QED
    BY <2>1 DEF IInv, DispatcherTypeOK, CreatedOnce, PostedIsOlder, RestIsNew
<1>2. CASE rest # <<>>
  <2>1. sender' = [at |-> "sending", job |-> number, rest |-> rest, attempt |-> 1]
    BY <1>2 DEF Sending
  <2>2. sender' \in Sender /\ sender'.job = number /\ sender'.rest = rest /\ sender'.at = "sending"
    BY <2>1 DEF Sender
  <2>3. DispatcherTypeOK' /\ CreatedOnce' /\ PostedIsOlder'
    BY <2>2 DEF IInv, DispatcherTypeOK, CreatedOnce, PostedIsOlder
  <2>4. RestIsNew'
    BY <2>2, <1>2 DEF RestIsNew
  <2>5. QED
    BY <2>3, <2>4 DEF IInv
<1>3. QED
  BY <1>1, <1>2

LEMMA DispatchInv == ASSUME IInv, dispatch PROVE IInv'
<1> DEFINE job == Head(jobs)
<1>1. /\ jobs \in Seq(Job) /\ jobs # <<>> /\ jobs' = Tail(jobs)
      /\ UNCHANGED <<stored, offered, posted>>
      /\ posted \in [Hooks -> [number : Nat, ok : BOOLEAN]]
  BY DEF dispatch, IInv, DispatcherTypeOK
<1>2. /\ job \in Job /\ job = jobs[1] /\ jobs' \in Seq(Job) /\ 1 \in DOMAIN jobs
      /\ Len(jobs') = Len(jobs) - 1 /\ DOMAIN jobs = 1 .. Len(jobs) /\ DOMAIN jobs' = 1 .. Len(jobs')
      /\ Len(jobs) \in Nat \ {0}
      /\ \A i \in 1 .. Len(jobs') : jobs'[i] = jobs[i + 1]
  BY <1>1
<1>3. PICK ids \in matchingWebhooks(job.kind) : sender' = Sending(job.number, ids)
  BY DEF dispatch
<1>4. ids \in Seq(Hooks) /\ \A i, j \in DOMAIN ids : i # j => ids[i] # ids[j]
  BY MatchingFacts
<1>5. job.number \in Nat
  BY <1>2 DEF Job
<1>6. \A i \in DOMAIN jobs' : i + 1 \in DOMAIN jobs /\ 1 < i + 1 /\ jobs'[i] = jobs[i + 1]
  BY <1>2
<1>7. job.number <= offered /\ \A i \in DOMAIN jobs' : job.number < jobs'[i].number
  BY <1>2, <1>6 DEF IInv, QueueIsOrdered
<1>8. QueueIsOrdered'
  <2>1. \A i \in DOMAIN jobs' : jobs'[i].number <= offered
    BY <1>6 DEF IInv, QueueIsOrdered
  <2>2. ASSUME NEW i \in DOMAIN jobs', NEW j \in DOMAIN jobs', i < j PROVE jobs'[i].number < jobs'[j].number
    <3>1. i + 1 < j + 1
      BY <2>2, <1>2
    <3>2. QED
      BY <3>1, <1>6 DEF IInv, QueueIsOrdered
  <2>3. QED
    BY <2>1, <2>2, <1>1 DEF QueueIsOrdered
<1>9. \A h \in Hooks : /\ posted[h].number <= offered /\ posted[h].number < job.number
                       /\ \A i \in DOMAIN jobs' : posted[h].number < jobs'[i].number
  BY <1>2, <1>6 DEF IInv, PostedIsOlder
<1>10. \A i \in DOMAIN ids : ids[i] \in Hooks
  BY <1>4
<1> HIDE DEF job
<1>11. QED
  BY <1>1, <1>2, <1>3, <1>4, <1>5, <1>7, <1>8, <1>9, <1>10, SendingInv DEF stored

------------------------------------------------------------------------------
(* What a request may leave behind *)

Reached == posted' = posted \/ \E ok \in BOOLEAN : Posted(ok)

LEMMA ReachedFacts ==
  ASSUME IInv, sender.at = "sending", Reached
  PROVE  /\ sender.job \in Nat /\ sender.job <= offered
         /\ sender.rest \in Seq(Hooks) /\ sender.rest # <<>> /\ Head(sender.rest) \in Hooks
         /\ Head(sender.rest) = sender.rest[1]
         /\ posted' \in [Hooks -> [number : Nat, ok : BOOLEAN]]
         /\ \A h \in Hooks : /\ posted'[h] = posted[h] \/ (h = Head(sender.rest) /\ posted'[h].number = sender.job)
                             /\ posted'[h].number <= offered
                             /\ \A i \in DOMAIN jobs : posted'[h].number < jobs[i].number
         /\ \A h \in Hooks : Ordered(h)
<1> DEFINE g == Head(sender.rest)
           n == sender.job
<1>1. /\ n \in Nat /\ n <= offered /\ sender.rest \in Seq(Hooks) /\ sender.rest # <<>> /\ Busy
      /\ posted \in [Hooks -> [number : Nat, ok : BOOLEAN]]
      /\ \A i \in DOMAIN jobs : n < jobs[i].number
  BY DEF IInv, DispatcherTypeOK, Sender, PostedIsOlder, RestIsNew, Busy
<1>2. g \in Hooks /\ g = sender.rest[1] /\ 1 \in DOMAIN sender.rest
  BY <1>1
<1>3. posted[g].number < n \/ (posted[g].number = n /\ ~posted[g].ok)
  BY <1>1, <1>2 DEF IInv, RestIsNew
<1>4. \A h \in Hooks : posted[h].number \in Nat /\ posted[h].number <= offered
                       /\ \A i \in DOMAIN jobs : posted[h].number < jobs[i].number
  BY <1>1 DEF IInv, PostedIsOlder
<1> HIDE DEF g, n
<1>5. CASE posted' = posted
  BY <1>1, <1>2, <1>4, <1>5 DEF Ordered, g, n
<1>6. ASSUME NEW ok \in BOOLEAN, posted' = [posted EXCEPT ![g] = [number |-> n, ok |-> ok]]
      PROVE  /\ posted' \in [Hooks -> [number : Nat, ok : BOOLEAN]]
             /\ \A h \in Hooks : /\ posted'[h] = posted[h] \/ (h = g /\ posted'[h].number = n)
                                 /\ posted'[h].number <= offered
                                 /\ \A i \in DOMAIN jobs : posted'[h].number < jobs[i].number
             /\ \A h \in Hooks : Ordered(h)
  <2> DEFINE p == [number |-> n, ok |-> ok]
  <2>1. p \in [number : Nat, ok : BOOLEAN] /\ p.number = n
    BY <1>1, <1>6
  <2> HIDE DEF p
  <2>2. /\ posted' \in [Hooks -> [number : Nat, ok : BOOLEAN]] /\ posted'[g] = p
        /\ \A h \in Hooks : h # g => posted'[h] = posted[h]
    BY <2>1, <1>1, <1>2, <1>6 DEF p
  <2>3. \A h \in Hooks : /\ posted'[h] = posted[h] \/ (h = g /\ posted'[h].number = n)
                         /\ posted'[h].number <= offered
                         /\ \A i \in DOMAIN jobs : posted'[h].number < jobs[i].number
    BY <2>1, <2>2, <1>1, <1>4
  <2>4. Ordered(g)
    BY <2>1, <2>2, <1>1, <1>3, <1>4, <1>2 DEF Ordered
  <2>5. \A h \in Hooks : Ordered(h)
    BY <2>2, <2>4 DEF Ordered
  <2>6. QED
    BY <2>2, <2>3, <2>5
<1>7. CASE \E ok \in BOOLEAN : Posted(ok)
  <2>1. PICK ok \in BOOLEAN : posted' = [posted EXCEPT ![g] = [number |-> n, ok |-> ok]]
    BY <1>7 DEF Posted, g, n
  <2>2. QED
    BY <2>1, <1>1, <1>2, <1>6 DEF g, n
<1>8. QED
  BY <1>5, <1>7 DEF Reached

LEMMA NextHookInv ==
  ASSUME IInv, sender.at = "sending", Reached, sender' = Sending(sender.job, Tail(sender.rest)),
         UNCHANGED <<stored, cache, jobs, offered>>
  PROVE  IInv'
<1> DEFINE rest == sender.rest
           t == Tail(rest)
<1>1. /\ sender.job \in Nat /\ sender.job <= offered
      /\ rest \in Seq(Hooks) /\ rest # <<>> /\ Head(rest) = rest[1]
      /\ posted' \in [Hooks -> [number : Nat, ok : BOOLEAN]]
      /\ \A h \in Hooks : /\ posted'[h] = posted[h] \/ h = Head(rest)
                          /\ posted'[h].number <= offered
                          /\ \A i \in DOMAIN jobs : posted'[h].number < jobs[i].number
  BY ReachedFacts
<1>2. /\ Busy /\ jobs \in Seq(Job) /\ \A i \in DOMAIN jobs : sender.job < jobs[i].number
      /\ \A i, j \in DOMAIN rest : i # j => rest[i] # rest[j]
      /\ \A i \in DOMAIN rest : i # 1 => posted[rest[i]].number < sender.job
  BY DEF Busy, IInv, DispatcherTypeOK, PostedIsOlder, RestIsNew
<1> HIDE DEF rest
<1>3. /\ t \in Seq(Hooks) /\ DOMAIN t = 1 .. Len(t) /\ 1 \in DOMAIN rest
      /\ \A i \in DOMAIN t : i + 1 \in DOMAIN rest /\ i + 1 # 1 /\ t[i] = rest[i + 1] /\ t[i] \in Hooks
  BY <1>1
<1> HIDE DEF t
<1>4. \A i, j \in DOMAIN t : i # j => t[i] # t[j]
  <2>1. ASSUME NEW i \in DOMAIN t, NEW j \in DOMAIN t, i # j PROVE t[i] # t[j]
    <3>1. i + 1 # j + 1
      BY <2>1, <1>3
    <3>2. QED
      BY <3>1, <1>2, <1>3
  <2>2. QED
    BY <2>1
<1>5. \A i \in DOMAIN t : posted'[t[i]].number < sender.job
  <2>1. ASSUME NEW i \in DOMAIN t PROVE posted'[t[i]].number < sender.job
    <3>1. t[i] # Head(rest) /\ posted[t[i]].number < sender.job
      BY <1>1, <1>2, <1>3
    <3>2. QED
      BY <3>1, <1>1, <1>3
  <2>2. QED
    BY <2>1
<1>6. QueueIsOrdered'
  BY DEF IInv, QueueIsOrdered
<1>7. sender' = Sending(sender.job, t)
  BY DEF t, rest
<1>8. QED
  BY <1>1, <1>2, <1>3, <1>4, <1>5, <1>6, <1>7, SendingInv DEF stored

LEMMA RetryInv ==
  ASSUME IInv, sender.at = "sending", Reached,
         posted' = posted \/ Posted(FALSE),
         sender' = [sender EXCEPT !.at = "waiting", !.attempt = @ + 1],
         UNCHANGED <<stored, cache, jobs, offered>>
  PROVE  IInv'
<1>1. sender \in Sender /\ Busy
  BY DEF IInv, DispatcherTypeOK, Busy
<1>2. /\ sender' \in Sender /\ sender'.at = "waiting" /\ sender'.job = sender.job /\ sender'.rest = sender.rest
  <2>1. sender.attempt + 1 \in Nat
    BY <1>1 DEF Sender
  <2>2. \A n \in Nat : LET o == [sender EXCEPT !.at = "waiting", !.attempt = n]
                       IN  o \in Sender /\ o.at = "waiting" /\ o.job = sender.job /\ o.rest = sender.rest
    BY <1>1 DEF Sender
  <2>3. QED
    BY <2>1, <2>2, Zenon
<1>3. /\ sender.job \in Nat /\ sender.job <= offered
      /\ sender.rest \in Seq(Hooks) /\ sender.rest # <<>> /\ Head(sender.rest) \in Hooks
      /\ Head(sender.rest) = sender.rest[1]
      /\ posted' \in [Hooks -> [number : Nat, ok : BOOLEAN]]
      /\ \A h \in Hooks : /\ posted'[h] = posted[h] \/ h = Head(sender.rest)
                          /\ posted'[h].number <= offered
                          /\ \A i \in DOMAIN jobs : posted'[h].number < jobs[i].number
  BY ReachedFacts
<1>4. DispatcherTypeOK' /\ CreatedOnce' /\ QueueIsOrdered' /\ PostedIsOlder'
  BY <1>1, <1>2, <1>3 DEF IInv, DispatcherTypeOK, CreatedOnce, QueueIsOrdered, PostedIsOlder, Busy, stored
<1>5. posted'[sender.rest[1]] = posted[sender.rest[1]]
      \/ (posted'[sender.rest[1]].number = sender.job /\ ~posted'[sender.rest[1]].ok)
  BY <1>3, SMTT(60) DEF Posted, IInv, DispatcherTypeOK
<1>6. RestIsNew'
  <2>1. /\ \A i, j \in DOMAIN sender.rest : i # j => sender.rest[i] # sender.rest[j]
        /\ \A i \in DOMAIN sender.rest :
             \/ posted[sender.rest[i]].number < sender.job
             \/ i = 1 /\ posted[sender.rest[i]].number = sender.job /\ ~posted[sender.rest[i]].ok
    BY <1>1 DEF IInv, RestIsNew
  <2>2. 1 \in DOMAIN sender.rest /\ \A i \in DOMAIN sender.rest : sender.rest[i] \in Hooks
    BY <1>3
  <2>3. ASSUME NEW i \in DOMAIN sender.rest, i # 1 PROVE posted'[sender.rest[i]] = posted[sender.rest[i]]
    BY <2>1, <2>2, <2>3, <1>3
  <2>4. QED
    BY <2>1, <2>2, <2>3, <1>2, <1>3, <1>5 DEF RestIsNew
<1>7. QED
  BY <1>4, <1>6 DEF IInv

LEMMA BackoffEndsInv == ASSUME IInv, BackoffEnds PROVE IInv'
<1>1. sender \in Sender /\ Busy /\ sender' = [sender EXCEPT !.at = "sending"]
      /\ UNCHANGED <<created, jobs, offered, posted>>
  BY DEF BackoffEnds, IInv, DispatcherTypeOK, Busy, stored
<1>2. sender' \in Sender /\ sender'.at = "sending" /\ sender'.job = sender.job /\ sender'.rest = sender.rest
  BY <1>1 DEF Sender
<1>3. QED
  BY <1>1, <1>2 DEF IInv, DispatcherTypeOK, CreatedOnce, QueueIsOrdered, PostedIsOlder, RestIsNew, Busy

LEMMA StopInv == ASSUME IInv, Stop PROVE IInv'
<1>1. sender' \in Sender /\ ~Busy' /\ UNCHANGED <<created, jobs, offered, posted>>
  BY RestingFacts DEF Stop, Busy, stored
<1>2. QED
  BY <1>1 DEF IInv, DispatcherTypeOK, CreatedOnce, QueueIsOrdered, PostedIsOlder, RestIsNew

------------------------------------------------------------------------------
LEMMA InvStep == IInv /\ [HookNext]_hookVars => IInv'
<1> SUFFICES ASSUME IInv, [HookNext]_hookVars PROVE IInv'
  OBVIOUS
<1>1. ASSUME NEW h \in Hooks, CreateWebhook(h) \/ DeleteWebhook(h) PROVE IInv'
  BY <1>1, CreateWebhookInv, StoredInv DEF DeleteWebhook, dispatching
<1>2. ASSUME NEW e \in Editors, WriteWebhook(e) \/ \E h \in Hooks : ReadWebhook(e, h) PROVE IInv'
  BY <1>2, StoredInv DEF WriteWebhook, ReadWebhook, dispatching
<1>3. CASE DeleteSession \/ refreshWebhooks
  BY <1>3, StoredInv DEF DeleteSession, refreshWebhooks, dispatching, stored
<1>4. CASE SendSucceeds
  BY <1>4, NextHookInv DEF SendSucceeds, Reached
<1>5. CASE SendFails
  BY <1>5, NextHookInv, RetryInv DEF SendFails, Reached
<1>6. CASE UNCHANGED hookVars
  BY <1>6, StoredInv DEF hookVars
<1>7. QED
  BY <1>1, <1>2, <1>3, <1>4, <1>5, <1>6, EnqueueInv, DispatchInv, BackoffEndsInv, StopInv DEF HookNext

LEMMA Invariant == HookSpec => []IInv
BY InitInv, InvStep, PTL DEF HookSpec

(* A hook receives the events in the order in which they happened, and     *)
(* none again after it has acknowledged it, however many hooks, retries,   *)
(* lost answers and dropped events there are (dispatch, sendWithRetry).    *)
THEOREM EventsInOrder == HookSpec => HookSeesOrder
<1>1. IInv /\ [HookNext]_hookVars => \A h \in Hooks : Ordered(h)
  <2> SUFFICES ASSUME IInv, [HookNext]_hookVars PROVE \A h \in Hooks : Ordered(h)
    OBVIOUS
  <2>1. CASE UNCHANGED posted
    BY <2>1 DEF Ordered
  <2>2. CASE SendSucceeds
    BY <2>2, ReachedFacts DEF SendSucceeds, Reached
  <2>3. CASE SendFails
    BY <2>3, ReachedFacts DEF SendFails, Reached
  <2>4. UNCHANGED posted \/ SendSucceeds \/ SendFails
    BY DEF HookNext, CreateWebhook, DeleteWebhook, ReadWebhook, WriteWebhook, DeleteSession, Enqueue,
           refreshWebhooks, dispatch, BackoffEnds, Stop, dispatching, stored, hookVars
  <2>5. QED
    BY <2>1, <2>2, <2>3, <2>4
<1>2. QED
  BY <1>1, Invariant, PTL DEF HookSpec, HookSeesOrder, Ordered
===============================================================================
