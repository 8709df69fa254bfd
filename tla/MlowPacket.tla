------------------------------- MODULE MlowPacket -------------------------------
(***************************************************************************)
(* The packets of the MLow codec: the redundancy layer (media/mlow/red.go),*)
(* the first byte of a frame (toc.go), and what MlowDecoder.Decode makes   *)
(* of a packet up to the number of samples; the samples themselves are     *)
(* left out.  Bytes have their real values; the runs take a few of them.   *)
(* An action is one turn of a loop of DepackSplitRed.                      *)
(***************************************************************************)
EXTENDS Naturals, Sequences

CONSTANTS
  Bytes,         \* the bytes packets are made of
  MaxPacket,     \* bound: bytes of a packet
  OpusFrame      \* opusFrameSamps, and the frame size onRelayData expects: 960

VARIABLES
  redundancy,    \* MlowDecoder.redundancy
  payload,       \* the packet
  parse,         \* where DepackSplitRed is: its loop, cur, rem and red
  frames,        \* the frames it has cut
  decoded        \* what is heard
packetVars == <<redundancy, payload, parse, frames, decoded>>

ASSUME PacketAssumption == Bytes \subseteq 0 .. 255 /\ OpusFrame \in Nat \ {0}

Bit(b, n) == (b \div 2 ^ n) % 2 = 1

-----------------------------------------------------------------------------
standardOpusFrameMs(b) ==
  LET config == b \div 8
  IN  IF config < 12 THEN <<10, 20, 40, 60>>[(config % 4) + 1]
      ELSE IF config < 16 THEN <<10, 20>>[((config - 12) % 2) + 1]
      ELSE <<3, 5, 10, 20>>[(config % 4) + 1]

ParseSmplTOC(b) ==
  IF Bit(b, 7) /\ Bit(b, 6)
  THEN [stdOpus |-> TRUE, silent |-> TRUE, rate |-> 16, ms |-> standardOpusFrameMs(b)]
  ELSE [stdOpus |-> FALSE,
        silent  |-> Bit(b, 7) \/ ~(Bit(b, 6) \/ Bit(b, 1)),      \* SID, or not Active
        rate    |-> IF Bit(b, 5) THEN 32 ELSE 16,
        ms      |-> <<10, 20, 60, 120>>[((b \div 8) % 4) + 1]]

-----------------------------------------------------------------------------
(* decodeFrame: an empty frame is 60 ms of silence, a packet of standard   *)
(* Opus or of no activity is silence of its own length, an active one is   *)
(* decoded and cut or extended to the length its first byte tells.         *)
decodeFrame(frame) ==
  IF frame = << >> THEN [samples |-> OpusFrame, audible |-> FALSE]
  ELSE LET toc == ParseSmplTOC(frame[1])
       IN  [samples |-> toc.rate * toc.ms, audible |-> ~toc.silent]

-----------------------------------------------------------------------------
(* Decode and DepackSplitRed.                                              *)
PacketInit ==
  /\ redundancy \in {0, 1}
  /\ payload = << >> /\ frames = << >>
  /\ parse = [at |-> "idle", cur |-> 0, rem |-> 0, red |-> << >>]
  /\ decoded = [samples |-> 0, audible |-> FALSE]

Hear(frame) ==
  /\ decoded' = decodeFrame(frame)
  /\ parse' = [parse EXCEPT !.at = "done"]

MlowDecode(p) ==
  /\ parse.at = "idle"
  /\ payload' = p
  /\ IF p = << >> \/ redundancy = 0
     THEN Hear(p)
     ELSE parse' = [at |-> "header", cur |-> 0, rem |-> Len(p), red |-> << >>] /\ UNCHANGED decoded
  /\ UNCHANGED <<redundancy, frames>>

(* p[cur], and the byte after it.                                          *)
Code == payload[parse.cur + 1]
Size == payload[parse.cur + 2]

(* ErrHeaderTooShort, ErrMainTooShort and ErrRedundantTooShort.            *)
TooShort ==
  \/ parse.rem = 0
  \/ parse.rem = 1 /\ Code < 128
  \/ parse.rem \in 1 .. 2 /\ Code >= 128
  \/ parse.rem > 2 /\ Code >= 128 /\ Size + 2 >= parse.rem

Refuse ==
  /\ parse.at = "header" /\ TooShort
  /\ Hear(<< >>)
  /\ UNCHANGED <<redundancy, payload, frames>>

(* The header is a run of (code, size) pairs marked by the high bit; of    *)
(* the time codes nothing is made.                                         *)
ReadBlock ==
  /\ parse.at = "header" /\ ~TooShort /\ Code >= 128
  /\ parse' = [parse EXCEPT !.red = Append(@, Size),
                            !.cur = @ + 2, !.rem = @ - (Size + 2)]
  /\ UNCHANGED <<redundancy, payload, frames, decoded>>

(* Mutant: the byte of the main block's code is not skipped.               *)
ReadMain_Unskipped ==
  /\ parse.at = "header" /\ ~TooShort /\ Code < 128
  /\ parse' = [parse EXCEPT !.at = "cut"]
  /\ UNCHANGED <<redundancy, payload, frames, decoded>>

(* The main block's code ends it.                                          *)
ReadMain ==
  /\ parse.at = "header" /\ ~TooShort /\ Code < 128
  /\ parse' = [parse EXCEPT !.at = "cut", !.cur = @ + 1]
  /\ UNCHANGED <<redundancy, payload, frames, decoded>>

Cut(size, main) ==
  frames' = Append(frames, [from |-> parse.cur + 1, size |-> size, main |-> main])

CutRedundant ==
  /\ parse.at = "cut" /\ Len(frames) < Len(parse.red)
  /\ LET size == parse.red[Len(frames) + 1]
     IN Cut(size, FALSE) /\ parse' = [parse EXCEPT !.cur = @ + size]
  /\ UNCHANGED <<redundancy, payload, decoded>>

(* The main frame is what is left, and the one that is heard.              *)
CutMain ==
  /\ parse.at = "cut" /\ Len(frames) = Len(parse.red)
  /\ Cut(parse.rem - 1, TRUE)
  /\ Hear(SubSeq(payload, parse.cur + 1, parse.cur + parse.rem - 1))
  /\ UNCHANGED <<redundancy, payload>>

DepackSplitRed == Refuse \/ ReadBlock \/ ReadMain \/ CutRedundant \/ CutMain

PacketNext ==
  \/ /\ parse.at = "idle"
     /\ \E n \in 0 .. MaxPacket : \E p \in [1 .. n -> Bytes] : MlowDecode(p)
  \/ DepackSplitRed

PacketSpec == PacketInit /\ [][PacketNext]_packetVars

(* The frames of a packet that is accepted begin where the header ends,    *)
(* follow each other without a gap, end where the packet ends, and only    *)
(* the last, which is not empty, is the current one; what is refused is    *)
(* heard as silence of a frame's length; and nothing is read beyond the    *)
(* packet on the way (DepackSplitRed, Decode).                             *)
FramesCoverPacket ==
  /\ parse.at = "header" => parse.cur + parse.rem <= Len(payload)
  /\ parse.at = "cut" => parse.cur + parse.rem <= Len(payload) + 1 /\ parse.rem > 1
  /\ parse.at = "done" =>
       IF frames = << >>
       THEN redundancy > 0 => decoded = [samples |-> OpusFrame, audible |-> FALSE]
       ELSE LET n == Len(frames)
            IN  /\ frames[1].from = 2 * n
                /\ \A i \in 1 .. n - 1 : frames[i + 1].from = frames[i].from + frames[i].size /\ ~frames[i].main
                /\ frames[n].from + frames[n].size = Len(payload) + 1
                /\ frames[n].size > 0 /\ frames[n].main
=================================================================================
