-------------------------------- MODULE MCServer --------------------------------
(***************************************************************************)
(* The parts of the server that share no state, each checked as if the     *)
(* others stood still: the first state says whose turn it is.              *)
(***************************************************************************)
EXTENDS EventStream, Recording, Requests

VARIABLE focus

vars == <<focus, streamVars, recordingVars, requestVars>>

Init ==
  /\ focus \in {"stream", "recording", "requests"}
  /\ StreamInit /\ RecordingInit /\ RequestInit

InStream(A)    == focus = "stream" /\ A /\ UNCHANGED <<focus, recordingVars, requestVars>>
InRecording(A) == focus = "recording" /\ A /\ UNCHANGED <<focus, streamVars, requestVars>>
InRequests(A)  == focus = "requests" /\ A /\ UNCHANGED <<focus, streamVars, recordingVars>>

Next ==
  \/ InStream(StreamNext)
  \/ InRecording(RecordingNext)
  \/ InRequests(RequestNext)

(* The goroutine of the cleanup runs on, its ticker ticks, and neither the *)
(* removal of an object nor the statement after it fails for ever.         *)
Fairness ==
  /\ WF_vars(InRecording(runCleanup))
  /\ \A c \in Recorded :
       /\ SF_vars(InRecording(RemoveObject(c)))
       /\ SF_vars(InRecording(ClearRecordingURL(c)))
       /\ WF_vars(InRecording(CleanupSteps(c)))

Spec == Init /\ [][Next]_vars /\ Fairness

(* The variables have their types. *)
TypeOK == StreamTypeOK /\ RecordingTypeOK /\ RequestTypeOK
=================================================================================
