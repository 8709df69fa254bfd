------------------------------- MODULE Recording -------------------------------
(***************************************************************************)
(* What becomes of a recorded call: its recorder, the object uploaded at   *)
(* its end, the row of call_history that names the object, and the cleanup *)
(* that deletes both when they are old; with failing statements and        *)
(* uploads, crashes and restarts (cmd/server/recorder.go, callhistory.go,  *)
(* cleanup.go, Session.removeCall, Broker.endCall).                        *)
(*                                                                         *)
(* The name of an object tells the call and the time at which its recorder *)
(* was made: a call and a take.  A URL is the take, or NoUrl.              *)
(***************************************************************************)
EXTENDS Naturals, FiniteSets

CONSTANTS Recorded,     \* calls that are recorded
          MaxTakes,     \* bound: webrtc requests of a call
          NoRow

ASSUME RecordingAssumption == MaxTakes \in Nat /\ NoRow \notin Nat

VARIABLES recorder,     \* activeCall.recorder; NoRecorder once the call is unregistered
          record,       \* the call's RecordingURL in Broker.calls, or NoRow
          remover,      \* the goroutine in removeCall
          inserts,      \* the goroutines of endCall that insert a row
          objects,      \* in the bucket
          row,          \* RecordingURL in call_history, or NoRow
          old,          \* calls older than the retention
          cleanup,      \* runCleanup
          lost          \* calls whose object may be named nowhere

recordingVars == <<recorder, record, remover, inserts, objects, row, old, cleanup, lost>>

NoUrl == 0

Urls == NoUrl..MaxTakes

Registered == [take |-> NoUrl, audio |-> FALSE, gone |-> FALSE]

Away == [at |-> "away", url |-> NoUrl, known |-> FALSE]

Sleeping == [expired |-> {}, removed |-> {}]

Recorder == [take : Urls, audio : BOOLEAN, gone : BOOLEAN]

Remover == [at    : {"away", "close", "get", "upsert", "update", "end"},
            url   : Urls,
            known : BOOLEAN]

RecordingTypeOK ==
  /\ recorder \in [Recorded -> Recorder]
  /\ \A c \in Recorded : recorder[c].audio => recorder[c].take # NoUrl
  /\ record \in [Recorded -> Urls \cup {NoRow}]
  /\ remover \in [Recorded -> Remover]
  /\ inserts \subseteq Recorded \X Urls
  /\ objects \subseteq Recorded \X (Urls \ {NoUrl})
  /\ row \in [Recorded -> Urls \cup {NoRow}]
  /\ cleanup \in [expired : SUBSET Recorded, removed : SUBSET Recorded]
  /\ cleanup.removed \subseteq cleanup.expired
  /\ old \cup lost \subseteq Recorded

RecordingInit ==
  /\ recorder = [c \in Recorded |-> Registered]
  /\ record = [c \in Recorded |-> NoUrl]
  /\ remover = [c \in Recorded |-> Away]
  /\ inserts = {}
  /\ objects = {}
  /\ row = [c \in Recorded |-> NoRow]
  /\ old = {}
  /\ cleanup = Sleeping
  /\ lost = {}

------------------------------------------------------------------------------
(* During the call.  A second webrtc request replaces the recorder, and    *)
(* what the first one holds is gone.                                       *)

NewRecorder(c) ==
  /\ ~recorder[c].gone /\ recorder[c].take < MaxTakes
  /\ recorder' = [recorder EXCEPT ![c].take = @ + 1, ![c].audio = FALSE]
  /\ UNCHANGED <<record, remover, inserts, objects, row, old, cleanup, lost>>

WriteAudio(c) ==
  /\ ~recorder[c].gone /\ recorder[c].take # NoUrl
  /\ recorder' = [recorder EXCEPT ![c].audio = TRUE]
  /\ UNCHANGED <<record, remover, inserts, objects, row, old, cleanup, lost>>

------------------------------------------------------------------------------
(* removeCall, by the one goroutine that finds the call registered.        *)

Goes(c, at) == remover' = [remover EXCEPT ![c].at = at]

Unregister(c) ==
  /\ ~recorder[c].gone
  /\ recorder' = [recorder EXCEPT ![c].gone = TRUE]
  /\ Goes(c, "close")
  /\ UNCHANGED <<record, inserts, objects, row, old, cleanup, lost>>

(* teardownAllCalls takes the call out first, so nobody closes its recorder. *)
Drain(c) ==
  /\ ~recorder[c].gone
  /\ recorder' = [recorder EXCEPT ![c].gone = TRUE]
  /\ Goes(c, "end")
  /\ UNCHANGED <<record, inserts, objects, row, old, cleanup, lost>>

Skips(c) == ~recorder[c].audio /\ Goes(c, "end") /\ UNCHANGED <<objects, lost>>

Close_Early(c) ==
  /\ remover[c].at = "close"
  /\ \/ Skips(c)
     \/ /\ recorder[c].audio
        /\ remover' = [remover EXCEPT ![c].at = "get", ![c].url = recorder[c].take]
        /\ UNCHANGED lost
        /\ objects' \in {objects, objects \cup {<<c, recorder[c].take>>}}
  /\ UNCHANGED <<recorder, record, inserts, row, old, cleanup>>

(* AudioRecorder.Close: no audio, uploaded, or failed; an upload that      *)
(* failed may have left its object all the same.                           *)
Close(c) ==
  /\ remover[c].at = "close"
  /\ \/ Skips(c)
     \/ /\ recorder[c].audio
        /\ objects' = objects \cup {<<c, recorder[c].take>>}
        /\ \/ remover' = [remover EXCEPT ![c].at = "get", ![c].url = recorder[c].take] /\ UNCHANGED lost
           \/ Goes(c, "end") /\ lost' = lost \cup {c}
     \/ recorder[c].audio /\ Goes(c, "end") /\ UNCHANGED <<objects, lost>>
  /\ UNCHANGED <<recorder, record, inserts, row, old, cleanup>>

GetCall(c) ==
  /\ remover[c].at = "get"
  /\ Goes(c, IF record[c] # NoRow THEN "upsert" ELSE "update")
  /\ UNCHANGED <<recorder, record, inserts, objects, row, old, cleanup, lost>>

(* The record is written back although it may have been ended since.       *)
UpsertCall(c) ==
  /\ remover[c].at = "upsert"
  /\ record' = [record EXCEPT ![c] = remover[c].url]
  /\ remover' = [remover EXCEPT ![c].at = "update", ![c].known = TRUE]
  /\ UNCHANGED <<recorder, inserts, objects, row, old, cleanup, lost>>

(* It finds no row before the call's goroutine has inserted it.            *)
UpdateRecordingURL(c) ==
  /\ remover[c].at = "update"
  /\ \/ row[c] # NoRow /\ row' = [row EXCEPT ![c] = remover[c].url] /\ UNCHANGED lost
     \/ UNCHANGED row /\ lost' = IF remover[c].known THEN lost ELSE lost \cup {c}
  /\ Goes(c, "end")
  /\ UNCHANGED <<recorder, record, inserts, objects, old, cleanup>>

Ends(c) ==
  IF record[c] = NoRow THEN UNCHANGED <<record, inserts>>
  ELSE /\ record' = [record EXCEPT ![c] = NoRow]
       /\ inserts' = inserts \cup {<<c, record[c]>>}

EndCall(c) ==
  /\ remover[c].at = "end"
  /\ Ends(c)
  /\ remover' = [remover EXCEPT ![c] = Away]
  /\ UNCHANGED <<recorder, objects, row, old, cleanup, lost>>

(* doReject and doEndCall, once another goroutine has unregistered the call. *)
EndCallByRequest(c) ==
  /\ recorder[c].gone
  /\ record[c] # NoRow
  /\ Ends(c)
  /\ UNCHANGED <<recorder, remover, objects, row, old, cleanup, lost>>

(* ON CONFLICT keeps the URL if the new one is empty.                      *)
Insert(i) ==
  /\ i \in inserts
  /\ LET c == i[1]  url == i[2] IN
     \/ row' = [row EXCEPT ![c] = IF url = NoUrl /\ @ # NoRow THEN @ ELSE url] /\ UNCHANGED lost
     \/ UNCHANGED row /\ lost' = lost \cup {c}
  /\ inserts' = inserts \ {i}
  /\ UNCHANGED <<recorder, record, remover, objects, old, cleanup>>

------------------------------------------------------------------------------
(* Nothing is under way for the call. *)
Settled(c) ==
  /\ recorder[c].gone /\ record[c] = NoRow /\ remover[c] = Away
  /\ \A i \in inserts : i[1] # c

(* Retention is counted in days: a call is over long before it is old.     *)
Ages(c) ==
  /\ Settled(c)
  /\ old' = old \cup {c}
  /\ UNCHANGED <<recorder, record, remover, inserts, objects, row, cleanup, lost>>

listExpiredRecordings == {c \in old : row[c] \notin {NoRow, NoUrl}}

runCleanup ==
  /\ cleanup.expired = {}
  /\ cleanup' = [Sleeping EXCEPT !.expired = listExpiredRecordings]
  /\ UNCHANGED <<recorder, record, remover, inserts, objects, row, old, lost>>

NextExpired(c) == cleanup' = [Sleeping EXCEPT !.expired = cleanup.expired \ {c}]

RemoveObject_RowFirst(c) ==
  /\ c \in cleanup.expired /\ cleanup.removed = {}
  /\ row' = [row EXCEPT ![c] = NoUrl]
  /\ objects' \in {objects, objects \ {<<c, row[c]>>}}
  /\ NextExpired(c)
  /\ UNCHANGED <<recorder, record, remover, inserts, old, lost>>

(* Removing an object that is not there is no error.                       *)
RemoveObject(c) ==
  /\ c \in cleanup.expired /\ cleanup.removed = {}
  /\ objects' = objects \ {<<c, row[c]>>}
  /\ cleanup' = [cleanup EXCEPT !.removed = {c}]
  /\ UNCHANGED <<recorder, record, remover, inserts, row, old, lost>>

ClearRecordingURL(c) ==
  /\ c \in cleanup.removed
  /\ row' = [row EXCEPT ![c] = NoUrl]
  /\ NextExpired(c)
  /\ UNCHANGED <<recorder, record, remover, inserts, objects, old, lost>>

(* Either fails, and the next recording's turn comes.                      *)
CleanupFails(c) ==
  /\ c \in cleanup.expired /\ cleanup.removed \subseteq {c}
  /\ NextExpired(c)
  /\ UNCHANGED <<recorder, record, remover, inserts, objects, row, old, lost>>

------------------------------------------------------------------------------
Crash ==
  /\ recorder' = [c \in Recorded |-> [Registered EXCEPT !.gone = TRUE]]
  /\ record' = [c \in Recorded |-> NoRow]
  /\ remover' = [c \in Recorded |-> Away]
  /\ inserts' = {}
  /\ cleanup' = Sleeping
  /\ lost' = lost \cup {c \in Recorded : ~Settled(c)}
  /\ UNCHANGED <<objects, row, old>>

CallSteps(c) ==
  \/ NewRecorder(c) \/ WriteAudio(c) \/ Unregister(c) \/ Drain(c) \/ Close(c) \/ GetCall(c)
  \/ UpsertCall(c) \/ UpdateRecordingURL(c) \/ EndCall(c) \/ EndCallByRequest(c) \/ Ages(c)

CleanupSteps(c) == RemoveObject(c) \/ ClearRecordingURL(c) \/ CleanupFails(c)

RecordingNext ==
  \/ \E c \in Recorded : CallSteps(c) \/ CleanupSteps(c)
  \/ \E i \in inserts : Insert(i)
  \/ runCleanup \/ Crash

RecordingSpec == RecordingInit /\ [][RecordingNext]_recordingVars

------------------------------------------------------------------------------
(* A row never names an object that is not stored, before the recording is *)
(* old and the cleanup may have stopped between the object and the row.    *)
RowNamesObject ==
  \A c \in Recorded : row[c] \notin {NoRow, NoUrl} /\ c \notin old => <<c, row[c]>> \in objects

(* Once nothing is under way for a call, the object uploaded for it is     *)
(* named by its row, or it could never be found nor expire; unless the     *)
(* server crashed, a statement or the upload failed, or the row was        *)
(* inserted after the URL had been updated (lost).                         *)
StoredIsNamed ==
  \A o \in objects : Settled(o[1]) /\ o[1] \notin lost => row[o[1]] = o[2]

(* The database and the storage, which no transaction joins, agree on what *)
(* is recorded (AudioRecorder.Close, removeCall, UpdateRecordingURL).      *)
RecordingsAgree == RowNamesObject /\ StoredIsNamed

(* An old recording is deleted in the end and no row names it any longer,  *)
(* however often a run of the cleanup fails or stops half-way.             *)
ExpiredIsDeleted ==
  \A c \in Recorded :
    c \in old ~> /\ row[c] \in {NoRow, NoUrl}
                 /\ c \in lost \/ \A o \in objects : o[1] # c
================================================================================
