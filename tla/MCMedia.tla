------------------------------- MODULE MCMedia -------------------------------
(***************************************************************************)
(* The audio of a call: five questions of four modules that share no       *)
(* state.  A behaviour is about one of them, its focus; the others rest.   *)
(***************************************************************************)
EXTENDS MediaPlane, RangeCoder, MlowPacket, MlowSyntax

VARIABLE focus

mcVars == <<focus, mediaVars, coderVars, packetVars, syntaxVars>>

MCGranularity == [class \in {0, 1} |-> class + 1]

(* Two findings of the search, unlike in every field: one has a block of   *)
(* lags and the other two.                                                 *)
MCChoices ==
  {[grid |-> k, residual |-> 1 - k, extra |-> k, gain |-> [sf \in 0 .. 3 |-> (sf + k) % 2],
    filt |-> [sf \in 0 .. 3 |-> (sf + 1 + k) % 2], contour |-> IF k = 0 THEN <<3>> ELSE <<1, 2>>,
    lag |-> IF k = 0 THEN <<0>> ELSE <<1, 0>>, main |-> k, delta |-> 1 - k,
    nrg |-> [sf \in 0 .. 3 |-> sf + k]] : k \in {0, 1}}

(* No pulse, or up to two, in three of the four subframes, with the signs  *)
(* and the magnitudes apart.                                               *)
MCPulses == {<<0, 1>>, <<0, 2>>, <<1, -1>>, <<3, -1>>, <<6, 1>>, <<6, 2>>}
MCExcitations ==
  {[q \in 0 .. 7 |-> 0]}
  \cup {[q \in 0 .. 7 |-> IF q = a[1] THEN a[2] ELSE IF q = b[1] THEN b[2] ELSE 0] :
          a, b \in MCPulses}

MCInit ==
  /\ focus \in {"microphone", "network", "coder", "packet", "syntax"}
  /\ MediaInit
  /\ focus # "network" => sequenceNumber = 0
  /\ focus # "microphone" => ready
  /\ IF focus = "coder" THEN CoderInit ELSE CoderInit /\ \A s \in Storages : storage <= s
  /\ IF focus = "packet" THEN PacketInit ELSE PacketInit /\ redundancy = 0
  /\ SyntaxInit
  /\ IF focus = "syntax" THEN decoder.lag = 1 <=> history.voiced = 1
     ELSE decoder.lag = -1 /\ history.voiced = 0

MCNext ==
  \/ focus = "microphone" /\ MicrophoneNext /\ UNCHANGED <<focus, coderVars, packetVars, syntaxVars>>
  \/ focus = "network" /\ NetworkNext /\ UNCHANGED <<focus, coderVars, packetVars, syntaxVars>>
  \/ focus = "coder" /\ CoderNext /\ UNCHANGED <<focus, mediaVars, packetVars, syntaxVars>>
  \/ focus = "packet" /\ PacketNext /\ UNCHANGED <<focus, mediaVars, coderVars, syntaxVars>>
  \/ focus = "syntax" /\ SyntaxNext /\ UNCHANGED <<focus, mediaVars, coderVars, packetVars>>

MCSpec == MCInit /\ [][MCNext]_mcVars
==============================================================================
