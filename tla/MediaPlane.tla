------------------------------- MODULE MediaPlane -------------------------------
(***************************************************************************)
(* The audio of a call: captured samples cut into frames, frames numbered  *)
(* and encrypted (media/rtp.go, media/srtp.go), packets that the relays    *)
(* lose, reorder and repeat, and the goroutines that decrypt what the      *)
(* relays hand over (call/callmanager_media.go).  Sequence numbers are     *)
(* modulo SeqSize (2^16 in the code); a packet is named by its place in    *)
(* the order of sending, its ciphertext by the packet index it was made    *)
(* with.  Both sessions are followed from their creation on.  The chunks   *)
(* that arrive while codec, sessions or relay are missing are dropped, and *)
(* the samples kept from earlier ones stay: a frame may join samples from  *)
(* both sides of such a gap.                                               *)
(***************************************************************************)
EXTENDS Naturals, Sequences, Functions

CONSTANTS
  Half,          \* half the number of sequence numbers: 2^15
  FrameSize,     \* samples of a frame
  Chunks,        \* how many samples one FeedCapturedPCM may bring
  MaxCaptured,   \* bound: samples captured
  MaxSent,       \* bound: packets sent
  MaxHeard,      \* bound: packets the relays deliver
  Readers        \* goroutines that run onRelayData, one per relay

ASSUME HalfAssumption == Half \in Nat /\ Half >= 2
ASSUME FrameAssumption == FrameSize \in Nat \ {0} /\ Chunks \subseteq Nat

SeqSize == 2 * Half

VARIABLES
  sequenceNumber, firstPacketSent,   \* RtpSession.sequenceNumber, CallManager.firstPacketSent
  sendCtx, recvCtx,                  \* SrtpSession.sendCtx, recvCtx
  ready,                             \* codec and sessions are there, and relay.HasConnection()
  feeding, encodeBuf, captured,      \* the rest of data; encodeBuf[:encodeBufPos]; samples so far
  sent,                              \* the packets sent, in order
  reader, heard,                     \* what each goroutine is doing; packets delivered so far
  dropped, skipped,                  \* history: samples that met no relay, or an encoding error
  renewed, orderly, last             \* history: see ReinitSrtp and Arrives

captureVars  == <<feeding, encodeBuf, captured, dropped, skipped>>
senderVars   == <<sequenceNumber, firstPacketSent, sendCtx, ready, captureVars, sent, renewed>>
receiverVars == <<recvCtx, reader, heard, orderly, last>>
mediaVars    == <<senderVars, receiverVars>>

NewSrtpContext == [roc |-> 0, lastSeq |-> 0, initialized |-> FALSE]

Resting == [step |-> "idle", packet |-> 0, bump |-> FALSE, index |-> 0]

MediaInit ==
  /\ sequenceNumber \in 0 .. SeqSize - 1            \* NewRtpSession: randUint(65536)
  /\ firstPacketSent = FALSE
  /\ sendCtx = NewSrtpContext /\ recvCtx = NewSrtpContext
  /\ ready \in BOOLEAN
  /\ feeding = << >> /\ encodeBuf = << >> /\ captured = 0 /\ sent = << >>
  /\ dropped = {} /\ skipped = {}
  /\ reader = [r \in Readers |-> Resting] /\ heard = 0
  /\ renewed = FALSE /\ orderly = TRUE /\ last = 0

(* CallManager.mu is free: no FeedCapturedPCM is at work.                  *)
Unlocked == feeding = << >>

-----------------------------------------------------------------------------
(* Mutant: an off-by-one makes the fall too long to ever count.            *)
RolledOverTooFar(c, seq) == c.initialized /\ seq + SeqSize - 1 < c.lastSeq

(* The number fell by more than half: a new cycle began.                   *)
RolledOver(c, seq) == c.initialized /\ seq + Half < c.lastSeq

updateRoc(c, seq) ==
  [roc |-> IF RolledOver(c, seq) THEN c.roc + 1 ELSE c.roc, lastSeq |-> seq, initialized |-> TRUE]

packetIndex(c, seq) == c.roc * SeqSize + seq

-----------------------------------------------------------------------------
(* CreatePacketWithDuration, then Protect, then Broadcast.                 *)
sendOpusFrame(samples) ==
  LET c == updateRoc(sendCtx, sequenceNumber)
  IN  /\ Len(sent) < MaxSent
      /\ sent' = Append(sent, [seq |-> sequenceNumber, index |-> packetIndex(c, sequenceNumber),
                               marker |-> ~firstPacketSent, samples |-> samples])
      /\ sendCtx' = c
      /\ sequenceNumber' = (sequenceNumber + 1) % SeqSize
      /\ firstPacketSent' = TRUE
      /\ UNCHANGED renewed

KeepSent == UNCHANGED <<sequenceNumber, firstPacketSent, sendCtx, sent, renewed>>

(* A relay opens, or the last open one is lost.                            *)
ReadyChanges ==
  /\ ready' = ~ready
  /\ UNCHANGED captureVars /\ KeepSent /\ UNCHANGED receiverVars

(* FeedCapturedPCM takes the lock with n samples: without a relay, a       *)
(* session or the codec it returns, and encodeBuf stays as it is.          *)
FeedCapturedPCM(n) ==
  /\ Unlocked
  /\ n > 0 /\ captured + n <= MaxCaptured
  /\ captured' = captured + n
  /\ IF ready
     THEN feeding' = [i \in 1 .. n |-> captured + i] /\ UNCHANGED dropped
     ELSE dropped' = dropped \cup (captured + 1 .. captured + n) /\ UNCHANGED feeding
  /\ UNCHANGED <<ready, encodeBuf, skipped>> /\ KeepSent /\ UNCHANGED receiverVars

toCopy ==
  IF Len(feeding) < FrameSize - Len(encodeBuf) THEN Len(feeding) ELSE FrameSize - Len(encodeBuf)

(* Mutant: what does not fill a frame is forgotten.                        *)
CarryNothing == << >>

(* The samples that wait for the rest of their frame.                      *)
Carry == encodeBuf \o feeding

(* One turn of its loop: the samples do not fill the frame and stay, or    *)
(* they do and it is encoded and sent; an encoding error skips the frame.  *)
KeepSamples ==
  /\ ~Unlocked /\ Len(encodeBuf) + toCopy < FrameSize
  /\ encodeBuf' = Carry
  /\ feeding' = << >>
  /\ UNCHANGED <<ready, captured, dropped, skipped>> /\ KeepSent /\ UNCHANGED receiverVars

EncodeFrame ==
  /\ ~Unlocked /\ Len(encodeBuf) + toCopy = FrameSize
  /\ encodeBuf' = << >>
  /\ feeding' = SubSeq(feeding, toCopy + 1, Len(feeding))
  /\ LET frame == encodeBuf \o SubSeq(feeding, 1, toCopy)
     IN  \/ sendOpusFrame(frame) /\ UNCHANGED skipped
         \/ KeepSent /\ skipped' = skipped \cup Range(frame)
  /\ UNCHANGED <<ready, captured, dropped>> /\ UNCHANGED receiverVars

(* The ticker of the keepalive finds the microphone idle: a silent frame.  *)
SendSilence ==
  /\ Unlocked /\ ready
  /\ sendOpusFrame(<< >>)
  /\ UNCHANGED <<ready, captureVars>> /\ UNCHANGED receiverVars

(* reinitSrtpLocked replaces the contexts and leaves the RTP session: from *)
(* the wrap of the numbers on, the packets' indexes begin again.  This is  *)
(* the sender's; the receiver's own renewal makes a session that is        *)
(* followed like this one, from its creation on.                           *)
ReinitSrtp ==
  /\ Unlocked
  /\ sendCtx' = NewSrtpContext
  /\ renewed' = (renewed \/ sendCtx.roc > 0 \/ (sendCtx.initialized /\ sequenceNumber = 0))
  /\ UNCHANGED <<sequenceNumber, firstPacketSent, ready, captureVars, sent>>
  /\ UNCHANGED receiverVars

-----------------------------------------------------------------------------
(* History: the packet is the first of this session and of the sender's    *)
(* first cycle, or comes after the last one by less than half a cycle, and *)
(* no other goroutine is at work.                                          *)
Arrives(n) ==
  /\ \A r \in Readers : reader[r] = Resting
  /\ IF last = 0 THEN sent[n].index < SeqSize ELSE last < n /\ n - last < Half

(* A relay hands over a packet: the part of onRelayData under the lock.    *)
OnRelayData(r, n) ==
  /\ Unlocked /\ heard < MaxHeard
  /\ reader[r] = Resting
  /\ reader' = [reader EXCEPT ![r] = [Resting EXCEPT !.step = "load", !.packet = n]]
  /\ heard' = heard + 1
  /\ orderly' = (orderly /\ Arrives(n))
  /\ last' = IF orderly' THEN n ELSE 0
  /\ UNCHANGED <<senderVars, recvCtx>>

(* Unprotect runs outside the lock: updateRoc loads the context, ...       *)
LoadRoc(r) ==
  /\ reader[r].step = "load"
  /\ reader' = [reader EXCEPT ![r].step = "store",
                              ![r].bump = RolledOver(recvCtx, sent[reader[r].packet].seq)]
  /\ UNCHANGED <<senderVars, recvCtx, heard, orderly, last>>

(* Mutant: a late wrap is stored without its new cycle.                    *)
StoreRocStale(r) ==
  /\ reader[r].step = "store"
  /\ recvCtx' = [roc |-> recvCtx.roc, lastSeq |-> sent[reader[r].packet].seq, initialized |-> TRUE]
  /\ reader' = [reader EXCEPT ![r].step = "index"]
  /\ UNCHANGED <<senderVars, heard, orderly, last>>

(* ... stores what it made of it, ...                                      *)
StoreRoc(r) ==
  /\ reader[r].step = "store"
  /\ recvCtx' = [roc |-> recvCtx.roc + (IF reader[r].bump THEN 1 ELSE 0),
                 lastSeq |-> sent[reader[r].packet].seq, initialized |-> TRUE]
  /\ reader' = [reader EXCEPT ![r].step = "index"]
  /\ UNCHANGED <<senderVars, heard, orderly, last>>

(* ... and packetIndex reads it again for the key stream.                  *)
Unprotect(r) ==
  /\ reader[r].step = "index"
  /\ reader' = [reader EXCEPT ![r].step = "decode",
                              ![r].index = packetIndex(recvCtx, sent[reader[r].packet].seq)]
  /\ UNCHANGED <<senderVars, recvCtx, heard, orderly, last>>

(* The samples are decoded and handed to the browser.                      *)
OnPeerAudio(r) ==
  /\ reader[r].step = "decode"
  /\ reader' = [reader EXCEPT ![r] = Resting]
  /\ UNCHANGED <<senderVars, recvCtx, heard, orderly, last>>

(* The microphone's side, and the network's with the keepalive's frames.   *)
MicrophoneNext ==
  \/ ReadyChanges
  \/ \E n \in Chunks : FeedCapturedPCM(n)
  \/ KeepSamples
  \/ EncodeFrame
  \/ SendSilence

NetworkNext ==
  \/ SendSilence
  \/ ReinitSrtp
  \/ \E r \in Readers :
       \/ \E n \in 1 .. Len(sent) : OnRelayData(r, n)
       \/ LoadRoc(r) \/ StoreRoc(r) \/ Unprotect(r) \/ OnPeerAudio(r)

MediaNext == MicrophoneNext \/ NetworkNext

MediaSpec == MediaInit /\ [][MediaNext]_mediaVars

-----------------------------------------------------------------------------
Packet == [seq : 0 .. SeqSize - 1, index : Nat, marker : BOOLEAN, samples : Seq(Nat)]

Context == [roc : Nat, lastSeq : 0 .. SeqSize - 1, initialized : BOOLEAN]

(* The variables have their types.                                         *)
MediaTypeOK ==
  /\ sequenceNumber \in 0 .. SeqSize - 1 /\ firstPacketSent \in BOOLEAN
  /\ sendCtx \in Context /\ recvCtx \in Context
  /\ feeding \in Seq(Nat) /\ captured \in Nat
  /\ encodeBuf \in Seq(Nat) /\ Len(encodeBuf) < FrameSize
  /\ ready \in BOOLEAN /\ dropped \subseteq Nat /\ skipped \subseteq Nat
  /\ sent \in Seq(Packet)
  /\ reader \in [Readers -> [step : {"idle", "load", "store", "index", "decode"},
                             packet : 0 .. Len(sent), bump : BOOLEAN, index : Nat]]
  /\ \A r \in Readers : reader[r].step # "idle" => reader[r].packet > 0
  /\ heard \in Nat /\ renewed \in BOOLEAN /\ orderly \in BOOLEAN /\ last \in 0 .. Len(sent)

(* No two packets are encrypted with one piece of the key stream, however  *)
(* often the numbers wrap (RtpSession, SrtpContext.Protect), unless the    *)
(* session was renewed after a wrap.                                       *)
KeystreamOnce ==
  ~renewed => \A i, j \in 1 .. Len(sent) : i # j => sent[i].index # sent[j].index

(* A packet is decrypted with the index it was encrypted with as long as   *)
(* the packets came one at a time, in order, the first from the sender's   *)
(* first cycle, and less than half a cycle was lost between two of them:   *)
(* the rollover counters of the two sides, which nothing on the wire       *)
(* compares, never part (SrtpContext.updateRoc).                           *)
IndexAgrees ==
  orderly /\ ~renewed =>
    \A r \in Readers : reader[r].step = "decode" => reader[r].index = sent[reader[r].packet].index

(* The sample b came after a, and all between them was dropped.            *)
Adjoin(a, b) == a < b /\ a + 1 .. b - 1 \subseteq dropped

(* The frames sent carry the captured samples in the order they came, each *)
(* whole and with nothing missing within it but what was dropped for want  *)
(* of a relay, whatever the chunks and the silence between them.           *)
VoiceInOrder ==
  LET Voice == {n \in 1 .. Len(sent) : sent[n].samples # << >>}
  IN  /\ \A n \in Voice :
           /\ Len(sent[n].samples) = FrameSize
           /\ \A i \in 1 .. FrameSize - 1 : Adjoin(sent[n].samples[i], sent[n].samples[i + 1])
      /\ \A i, j \in Voice : i < j => sent[i].samples[FrameSize] < sent[j].samples[1]

(* Every captured sample was sent, waits to be, met no relay when it came, *)
(* or was in a frame that the encoder refused.                             *)
VoiceAccounted ==
  \A x \in 1 .. captured :
    \/ x \in dropped \cup skipped \cup Range(encodeBuf) \cup Range(feeding)
    \/ \E n \in 1 .. Len(sent) : x \in Range(sent[n].samples)

(* FeedCapturedPCM neither reorders, doubles nor forgets a sample.         *)
SamplesInOrder == VoiceInOrder /\ VoiceAccounted
=================================================================================
