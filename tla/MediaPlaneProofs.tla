---------------------------- MODULE MediaPlaneProofs ----------------------------
(***************************************************************************)
(* Proofs about MediaPlane, for every number of sequence numbers, frame    *)
(* size, chunk and number of readers: the types, that no key stream is     *)
(* used twice, that a stream received in order is decrypted with the       *)
(* indexes it was encrypted with, and that captured samples are sent in    *)
(* whole frames and in order; and about MlowPacket, for every set of bytes *)
(* and length of packets: what a packet is cut into.                       *)
(***************************************************************************)
EXTENDS MediaPlane, MlowPacket, SequenceTheorems, TLAPS

(* The facts about sequence numbers that the steps below cite.             *)
LEMMA SizeFacts ==
  /\ SeqSize \in Nat /\ SeqSize >= 4 /\ SeqSize = 2 * Half /\ Half \in Nat
  /\ \A s \in 0 .. SeqSize - 1 :
       (s + 1) % SeqSize = IF s = SeqSize - 1 THEN 0 ELSE s + 1
BY HalfAssumption, SMT DEF SeqSize

(* An updated context has the type of contexts, an index is a number.      *)
LEMMA ContextFacts ==
  ASSUME NEW c \in Context, NEW s \in 0 .. SeqSize - 1
  PROVE  /\ updateRoc(c, s) \in Context
         /\ packetIndex(c, s) \in Nat
BY SizeFacts, SMT DEF Context, updateRoc, packetIndex

-----------------------------------------------------------------------------
(* The types.                                                              *)

ReaderType(n) == [step : {"idle", "load", "store", "index", "decode"},
                  packet : 0 .. n, bump : BOOLEAN, index : Nat]

LEMMA TypeInit == MediaInit => MediaTypeOK
<1> SUFFICES ASSUME MediaInit PROVE MediaTypeOK
  OBVIOUS
<1>1. NewSrtpContext \in Context
  BY SizeFacts, SMT DEF NewSrtpContext, Context
<1>2. /\ Len(sent) = 0 /\ sent \in Seq(Packet) /\ feeding \in Seq(Nat)
      /\ encodeBuf \in Seq(Nat) /\ Len(encodeBuf) < FrameSize
  BY FrameAssumption DEF MediaInit
<1>3. Resting \in [step : {"idle", "load", "store", "index", "decode"},
                   packet : 0 .. Len(sent), bump : BOOLEAN, index : Nat]
  BY <1>2, SMT DEF Resting
<1>4. /\ reader \in [Readers -> ReaderType(Len(sent))]
      /\ \A r \in Readers : reader[r].step = "idle"
  BY <1>3 DEF MediaInit, ReaderType, Resting
<1>5. last \in 0 .. Len(sent)
  BY <1>2 DEF MediaInit
<1>6. /\ sequenceNumber \in 0 .. SeqSize - 1 /\ firstPacketSent \in BOOLEAN
      /\ sendCtx \in Context /\ recvCtx \in Context
      /\ captured \in Nat /\ heard \in Nat /\ renewed \in BOOLEAN /\ orderly \in BOOLEAN
      /\ ready \in BOOLEAN /\ dropped \subseteq Nat /\ skipped \subseteq Nat
  BY <1>1 DEF MediaInit
<1>7. QED
  BY <1>2, <1>4, <1>5, <1>6 DEF MediaTypeOK, ReaderType

(* Sending keeps the sender's types, and the packets sent before.          *)
LEMMA SendType ==
  ASSUME MediaTypeOK, NEW samples \in Seq(Nat), sendOpusFrame(samples)
  PROVE  /\ sequenceNumber' \in 0 .. SeqSize - 1 /\ firstPacketSent' \in BOOLEAN
         /\ sendCtx' \in Context /\ renewed' \in BOOLEAN
         /\ sent' \in Seq(Packet) /\ Len(sent') = Len(sent) + 1
         /\ \A i \in 1 .. Len(sent) : sent'[i] = sent[i]
<1> DEFINE c == updateRoc(sendCtx, sequenceNumber)
           p == [seq |-> sequenceNumber, index |-> packetIndex(c, sequenceNumber),
                 marker |-> ~firstPacketSent, samples |-> samples]
<1>1. c \in Context /\ packetIndex(c, sequenceNumber) \in Nat
  BY ContextFacts DEF MediaTypeOK
<1>2. p \in Packet
  BY <1>1 DEF Packet, MediaTypeOK
<1>3. sent' = Append(sent, p) /\ sendCtx' = c
  BY DEF sendOpusFrame
<1> HIDE DEF c, p
<1>4. sent' \in Seq(Packet) /\ Len(sent') = Len(sent) + 1
      /\ \A i \in 1 .. Len(sent) : sent'[i] = sent[i]
  BY <1>2, <1>3 DEF MediaTypeOK
<1>5. sequenceNumber' \in 0 .. SeqSize - 1
  BY SizeFacts DEF sendOpusFrame, MediaTypeOK
<1>6. QED
  BY <1>1, <1>3, <1>4, <1>5 DEF sendOpusFrame, MediaTypeOK

(* What the goroutines know of the packets stays true when more are sent.  *)
LEMMA ReaderGrows ==
  ASSUME NEW m \in Nat, NEW n \in Nat, m <= n
  PROVE  ReaderType(m) \subseteq ReaderType(n)
BY SMT DEF ReaderType

LEMMA SenderStep ==
  ASSUME MediaTypeOK, UNCHANGED receiverVars,
         feeding' \in Seq(Nat), captured' \in Nat,
         encodeBuf' \in Seq(Nat), Len(encodeBuf') < FrameSize,
         ready' \in BOOLEAN, dropped' \subseteq Nat, skipped' \subseteq Nat,
         \/ \E samples \in Seq(Nat) : sendOpusFrame(samples)
         \/ KeepSent
  PROVE  MediaTypeOK'
<1>1. CASE KeepSent
  BY <1>1 DEF KeepSent, MediaTypeOK, receiverVars, Context
<1>2. CASE \E samples \in Seq(Nat) : sendOpusFrame(samples)
  <2>1. PICK samples \in Seq(Nat) : sendOpusFrame(samples)
    BY <1>2
  <2>2. /\ sequenceNumber' \in 0 .. SeqSize - 1 /\ firstPacketSent' \in BOOLEAN
        /\ sendCtx' \in Context /\ renewed' \in BOOLEAN
        /\ sent' \in Seq(Packet) /\ Len(sent') = Len(sent) + 1
    BY <2>1, SendType
  <2>3. Len(sent) \in Nat /\ Len(sent') \in Nat
    BY <2>2 DEF MediaTypeOK
  <2>4. ReaderType(Len(sent)) \subseteq ReaderType(Len(sent'))
    BY <2>2, <2>3, ReaderGrows
  <2>5. reader' \in [Readers -> ReaderType(Len(sent'))]
    BY <2>4 DEF MediaTypeOK, receiverVars, ReaderType
  <2>6. last' \in 0 .. Len(sent')
    BY <2>2, <2>3 DEF MediaTypeOK, receiverVars
  <2>7. QED
    BY <2>2, <2>5, <2>6 DEF MediaTypeOK, receiverVars, ReaderType, Context, Packet
<1>3. QED
  BY <1>1, <1>2

(* The part of the samples at hand that fits the frame.                    *)
LEMMA CopyFacts ==
  ASSUME MediaTypeOK, Len(encodeBuf) + toCopy = FrameSize
  PROVE  /\ encodeBuf \o SubSeq(feeding, 1, toCopy) \in Seq(Nat)
         /\ SubSeq(feeding, toCopy + 1, Len(feeding)) \in Seq(Nat)
<1>1. Len(feeding) \in Nat /\ Len(encodeBuf) \in Nat /\ FrameSize \in Nat
  BY FrameAssumption DEF MediaTypeOK
<1>2. toCopy \in Int /\ toCopy <= Len(feeding) /\ toCopy >= 0
  BY <1>1, SMT DEF toCopy, MediaTypeOK
<1>3. \A i \in 1 .. Len(feeding) : feeding[i] \in Nat
  BY DEF MediaTypeOK
<1>4. SubSeq(feeding, 1, toCopy) \in Seq(Nat)
  <2>1. \A i \in 1 .. toCopy : feeding[i] \in Nat
    BY <1>1, <1>2, <1>3, SMT
  <2>2. QED
    BY <1>2, <2>1, SubSeqProperties
<1>5. SubSeq(feeding, toCopy + 1, Len(feeding)) \in Seq(Nat)
  <2>1. \A i \in toCopy + 1 .. Len(feeding) : feeding[i] \in Nat
    BY <1>1, <1>2, <1>3, SMT
  <2>2. toCopy + 1 \in Int /\ Len(feeding) \in Int
    BY <1>1, <1>2
  <2>3. QED
    BY <2>1, <2>2, SubSeqProperties
<1>6. QED
  BY <1>4, <1>5 DEF MediaTypeOK

(* The packet a goroutine has at hand is one that was sent.                *)
LEMMA PacketSeq ==
  ASSUME MediaTypeOK, NEW r \in Readers, reader[r].step # "idle"
  PROVE  /\ reader[r].packet \in 1 .. Len(sent)
         /\ sent[reader[r].packet].seq \in 0 .. SeqSize - 1
<1>1. reader[r].packet \in 0 .. Len(sent) /\ reader[r].packet > 0 /\ Len(sent) \in Nat
  BY DEF MediaTypeOK
<1>2. reader[r].packet \in 1 .. Len(sent)
  BY <1>1
<1>3. sent[reader[r].packet] \in Packet
  BY <1>2 DEF MediaTypeOK
<1>4. QED
  BY <1>2, <1>3 DEF Packet

(* The members of a sequence.                                              *)
LEMMA RangeFacts ==
  \A s \in Seq(Nat) : \A x : x \in Range(s) <=> \E i \in 1 .. Len(s) : x = s[i]
BY DEF Range

LEMMA RangeWithin ==
  ASSUME NEW s \in Seq(Nat), NEW S, \A i \in 1 .. Len(s) : s[i] \in S
  PROVE  Range(s) \subseteq S
BY RangeFacts

LEMMA TypeStep == MediaTypeOK /\ [MediaNext]_mediaVars => MediaTypeOK'
<1> SUFFICES ASSUME MediaTypeOK, [MediaNext]_mediaVars PROVE MediaTypeOK'
  OBVIOUS
<1> USE DEF ReaderType
<1>1. ASSUME NEW n \in Chunks, FeedCapturedPCM(n) PROVE MediaTypeOK'
  <2>1. n \in Nat /\ captured \in Nat
    BY FrameAssumption DEF MediaTypeOK
  <2>2. /\ feeding' \in Seq(Nat) /\ captured' \in Nat
        /\ encodeBuf' \in Seq(Nat) /\ Len(encodeBuf') < FrameSize
        /\ ready' \in BOOLEAN /\ dropped' \subseteq Nat /\ skipped' \subseteq Nat
    <3>1. captured + 1 .. captured + n \subseteq Nat /\ [i \in 1 .. n |-> captured + i] \in Seq(Nat)
      BY <2>1
    <3>2. ready' \in BOOLEAN /\ feeding' \in Seq(Nat)
      BY <1>1, <3>1 DEF FeedCapturedPCM, MediaTypeOK
    <3>3. dropped' \subseteq Nat /\ skipped' \subseteq Nat
      BY <1>1, <3>1 DEF FeedCapturedPCM, MediaTypeOK
    <3>4. captured' \in Nat /\ encodeBuf' \in Seq(Nat) /\ Len(encodeBuf') < FrameSize
      BY <1>1, <2>1 DEF FeedCapturedPCM, MediaTypeOK
    <3>5. QED
      BY <3>2, <3>3, <3>4
  <2>3. QED
    BY <1>1, <2>2, SenderStep DEF FeedCapturedPCM
<1>2. CASE KeepSamples
  <2>1. /\ feeding' \in Seq(Nat) /\ captured' \in Nat
        /\ encodeBuf' \in Seq(Nat) /\ Len(encodeBuf') < FrameSize
        /\ ready' \in BOOLEAN /\ dropped' \subseteq Nat /\ skipped' \subseteq Nat
    BY <1>2, FrameAssumption DEF KeepSamples, Carry, toCopy, MediaTypeOK
  <2>2. QED
    BY <1>2, <2>1, SenderStep DEF KeepSamples
<1>3. CASE EncodeFrame
  <2>1. /\ encodeBuf \o SubSeq(feeding, 1, toCopy) \in Seq(Nat)
        /\ SubSeq(feeding, toCopy + 1, Len(feeding)) \in Seq(Nat)
    BY <1>3, CopyFacts DEF EncodeFrame
  <2>2. /\ feeding' \in Seq(Nat) /\ captured' \in Nat
        /\ encodeBuf' \in Seq(Nat) /\ Len(encodeBuf') < FrameSize
        /\ ready' \in BOOLEAN /\ dropped' \subseteq Nat /\ skipped' \subseteq Nat
    <3>1. Range(encodeBuf \o SubSeq(feeding, 1, toCopy)) \subseteq Nat
      <4> DEFINE s == encodeBuf \o SubSeq(feeding, 1, toCopy)
      <4> HIDE DEF s
      <4>1. s \in Seq(Nat)
        BY <2>1 DEF s
      <4>2. Range(s) \subseteq Nat
        BY <4>1, RangeFacts
      <4>3. QED
        BY <4>2 DEF s
    <3>2. ready' \in BOOLEAN /\ dropped' \subseteq Nat /\ skipped' \subseteq Nat
      BY <1>3, <3>1 DEF EncodeFrame, MediaTypeOK
    <3>3. /\ feeding' \in Seq(Nat) /\ captured' \in Nat
          /\ encodeBuf' \in Seq(Nat) /\ Len(encodeBuf') < FrameSize
      BY <1>3, <2>1, FrameAssumption DEF EncodeFrame, MediaTypeOK
    <3>4. QED
      BY <3>2, <3>3
  <2>3. QED
    BY <1>3, <2>1, <2>2, SenderStep DEF EncodeFrame
<1>4. CASE SendSilence
  <2>1. << >> \in Seq(Nat)
    OBVIOUS
  <2>2. /\ feeding' \in Seq(Nat) /\ captured' \in Nat
        /\ encodeBuf' \in Seq(Nat) /\ Len(encodeBuf') < FrameSize
        /\ ready' \in BOOLEAN /\ dropped' \subseteq Nat /\ skipped' \subseteq Nat
    BY <1>4 DEF SendSilence, MediaTypeOK, captureVars
  <2>3. QED
    BY <1>4, <2>1, <2>2, SenderStep DEF SendSilence
<1>5. CASE ReinitSrtp
  <2>1. NewSrtpContext \in Context
    BY SizeFacts, SMT DEF NewSrtpContext, Context
  <2>2. renewed' \in BOOLEAN
    BY <1>5 DEF ReinitSrtp, MediaTypeOK
  <2>3. QED
    BY <1>5, <2>1, <2>2 DEF ReinitSrtp, MediaTypeOK, captureVars, receiverVars
<1>6. ASSUME NEW r \in Readers, NEW n \in 1 .. Len(sent), OnRelayData(r, n) PROVE MediaTypeOK'
  <2>1. Len(sent) \in Nat /\ n \in 0 .. Len(sent)
    BY DEF MediaTypeOK
  <2>2. [Resting EXCEPT !.step = "load", !.packet = n] \in ReaderType(Len(sent))
    BY <2>1 DEF Resting
  <2>3. reader' \in [Readers -> ReaderType(Len(sent))]
    BY <1>6, <2>2 DEF OnRelayData, MediaTypeOK
  <2>4. orderly' \in BOOLEAN /\ last' \in 0 .. Len(sent) /\ heard' \in Nat
    BY <1>6, <2>1 DEF OnRelayData, MediaTypeOK
  <2>5. QED
    BY <1>6, <2>3, <2>4, SMTT(60) DEF OnRelayData, MediaTypeOK, senderVars, captureVars
<1>7. ASSUME NEW r \in Readers, LoadRoc(r) PROVE MediaTypeOK'
  <2>1. reader' \in [Readers -> ReaderType(Len(sent))]
    BY <1>7, SMTT(30), ZenonT(60) DEF LoadRoc, MediaTypeOK, RolledOver
  <2>2. QED
    BY <1>7, <2>1, SMTT(30), ZenonT(60) DEF LoadRoc, MediaTypeOK, senderVars, captureVars
<1>8. ASSUME NEW r \in Readers, StoreRoc(r) PROVE MediaTypeOK'
  <2>1. reader[r] \in ReaderType(Len(sent)) /\ Len(sent) \in Nat
    BY DEF MediaTypeOK
  <2>2. reader' \in [Readers -> ReaderType(Len(sent))]
    BY <1>8 DEF StoreRoc, MediaTypeOK
  <2>3. recvCtx.roc + (IF reader[r].bump THEN 1 ELSE 0) \in Nat
    BY <2>1 DEF MediaTypeOK, Context
  <2>4. sent[reader[r].packet].seq \in 0 .. SeqSize - 1
    BY <1>8, PacketSeq DEF StoreRoc
  <2>5. QED
    BY <1>8, <2>2, <2>3, <2>4 DEF StoreRoc, MediaTypeOK, senderVars, captureVars, Context
<1>9. ASSUME NEW r \in Readers, Unprotect(r) PROVE MediaTypeOK'
  <2>1. packetIndex(recvCtx, sent[reader[r].packet].seq) \in Nat
    BY <1>9, PacketSeq, ContextFacts DEF Unprotect, MediaTypeOK
  <2>2. reader' \in [Readers -> ReaderType(Len(sent))]
    BY <1>9, <2>1 DEF Unprotect, MediaTypeOK
  <2>3. QED
    BY <1>9, <2>2, SMTT(30), ZenonT(60) DEF Unprotect, MediaTypeOK, senderVars, captureVars
<1>10. ASSUME NEW r \in Readers, OnPeerAudio(r) PROVE MediaTypeOK'
  <2>1. Resting \in ReaderType(Len(sent))
    BY DEF Resting, MediaTypeOK
  <2>2. reader' \in [Readers -> ReaderType(Len(sent))]
    BY <1>10, <2>1 DEF OnPeerAudio, MediaTypeOK
  <2>3. QED
    BY <1>10, <2>2 DEF OnPeerAudio, MediaTypeOK, senderVars, captureVars, Resting
<1>11. CASE UNCHANGED mediaVars
  BY <1>11 DEF mediaVars, senderVars, captureVars, receiverVars, MediaTypeOK, Context
<1>12. CASE ReadyChanges
  <2>1. ready' \in BOOLEAN
    BY <1>12 DEF ReadyChanges, MediaTypeOK
  <2>2. QED
    BY <1>12, <2>1, SenderStep DEF ReadyChanges, MediaTypeOK, captureVars
<1>13. QED
  BY <1>1, <1>2, <1>3, <1>4, <1>5, <1>6, <1>7, <1>8, <1>9, <1>10, <1>11, <1>12
     DEF MediaNext, MicrophoneNext, NetworkNext

(* The variables have their types: the frame being filled is never full,   *)
(* and a goroutine at work has a packet (MediaPlane.MediaTypeOK).          *)
THEOREM MediaTypes == MediaSpec => []MediaTypeOK
<1>1. QED
  BY TypeInit, TypeStep, PTL DEF MediaSpec

-----------------------------------------------------------------------------
(* The sender: the packets have consecutive indexes.                       *)

NextIndex == packetIndex(updateRoc(sendCtx, sequenceNumber), sequenceNumber)

SendInv ==
  /\ sendCtx.initialized => sequenceNumber = (sendCtx.lastSeq + 1) % SeqSize
  /\ ~sendCtx.initialized => sendCtx.roc = 0
  /\ \A i \in 1 .. Len(sent) : \E q \in Nat : sent[i].index = q * SeqSize + sent[i].seq
  /\ ~renewed => \A i \in 1 .. Len(sent) : sent[i].index + (Len(sent) - i) + 1 = NextIndex

(* After a packet the next index is one more, at a wrap as elsewhere.      *)
LEMMA NextAfter ==
  ASSUME NEW c \in Context, NEW s \in 0 .. SeqSize - 1
  PROVE  LET d == updateRoc(c, s)
             t == (s + 1) % SeqSize
         IN  packetIndex(updateRoc(d, t), t) = packetIndex(d, s) + 1
<1> DEFINE d == updateRoc(c, s)
           t == (s + 1) % SeqSize
<1>1. d \in Context /\ d.lastSeq = s /\ d.initialized
  BY ContextFacts DEF updateRoc
<1> HIDE DEF d
<1>2. CASE s = SeqSize - 1
  <2>1. t = 0
    BY <1>2, SizeFacts
  <2>2. RolledOver(d, t)
    BY <1>1, <1>2, <2>1, SizeFacts, HalfAssumption DEF RolledOver
  <2>3. updateRoc(d, t).roc = d.roc + 1 /\ d.roc \in Nat
    BY <1>1, <2>2 DEF updateRoc, Context
  <2>4. (d.roc + 1) * SeqSize = d.roc * SeqSize + SeqSize
    BY <2>3, SizeFacts
  <2>5. d.roc * SeqSize \in Nat
    BY <2>3, SizeFacts
  <2>6. QED
    BY <1>2, <2>1, <2>3, <2>4, <2>5, SizeFacts DEF packetIndex, d
<1>3. CASE s # SeqSize - 1
  <2>1. t = s + 1
    BY <1>3, SizeFacts
  <2>2. ~RolledOver(d, t)
    BY <1>1, <2>1, SizeFacts DEF RolledOver
  <2>3. updateRoc(d, t).roc = d.roc /\ d.roc \in Nat
    BY <1>1, <2>2 DEF updateRoc, Context
  <2>4. d.roc * SeqSize \in Nat
    BY <2>3, SizeFacts
  <2>5. QED
    BY <2>1, <2>3, <2>4, SizeFacts DEF packetIndex, d
<1>4. QED
  BY <1>2, <1>3

LEMMA SendInvInit == MediaInit => SendInv
BY DEF MediaInit, SendInv, NewSrtpContext

LEMMA SendInvSend ==
  ASSUME MediaTypeOK, SendInv, NEW samples \in Seq(Nat), sendOpusFrame(samples)
  PROVE  SendInv'
<1> DEFINE c == updateRoc(sendCtx, sequenceNumber)
           n == Len(sent)
<1>1. /\ sendCtx \in Context /\ sequenceNumber \in 0 .. SeqSize - 1 /\ n \in Nat
      /\ \A i \in 1 .. n : sent[i] \in Packet
  BY DEF MediaTypeOK
<1>2. /\ c \in Context /\ c.lastSeq = sequenceNumber /\ c.initialized
      /\ NextIndex = packetIndex(c, sequenceNumber) /\ NextIndex \in Nat
  BY <1>1, ContextFacts DEF updateRoc, NextIndex
<1>3. /\ sendCtx' = c /\ sequenceNumber' = (sequenceNumber + 1) % SeqSize
      /\ renewed' = renewed
      /\ Len(sent') = n + 1
      /\ sent'[n + 1].index = NextIndex /\ sent'[n + 1].seq = sequenceNumber
      /\ \A i \in 1 .. n : sent'[i] = sent[i]
  BY <1>2 DEF sendOpusFrame, MediaTypeOK
<1>4. NextIndex' = NextIndex + 1
  BY <1>1, <1>2, <1>3, NextAfter DEF NextIndex
<1>5. \A i \in 1 .. Len(sent') : \E q \in Nat : sent'[i].index = q * SeqSize + sent'[i].seq
  <2> SUFFICES ASSUME NEW i \in 1 .. n + 1
               PROVE  \E q \in Nat : sent'[i].index = q * SeqSize + sent'[i].seq
    BY <1>3
  <2>1. CASE i \in 1 .. n
    BY <1>3, <2>1 DEF SendInv
  <2>2. CASE i = n + 1
    <3>1. c.roc \in Nat /\ NextIndex = c.roc * SeqSize + sequenceNumber
      BY <1>2 DEF packetIndex, Context
    <3>2. QED
      BY <1>3, <2>2, <3>1
  <2>3. QED
    BY <1>1, <2>1, <2>2
<1>6. ASSUME ~renewed', NEW i \in 1 .. Len(sent')
      PROVE  sent'[i].index + (Len(sent') - i) + 1 = NextIndex'
  <2>1. CASE i \in 1 .. n
    <3>1. sent[i].index + (n - i) + 1 = NextIndex /\ sent[i].index \in Nat
      BY <1>1, <1>3, <1>6, <2>1 DEF SendInv, Packet
    <3>2. sent'[i].index = sent[i].index /\ Len(sent') = n + 1 /\ i \in Int /\ n \in Int
      BY <1>1, <1>3, <2>1
    <3>3. sent[i].index + ((n + 1) - i) + 1 = NextIndex + 1
      BY <1>2, <3>1, <3>2
    <3>4. QED
      BY <1>4, <3>2, <3>3
  <2>2. CASE i = n + 1
    BY <1>1, <1>2, <1>3, <1>4, <2>2
  <2>3. QED
    BY <1>1, <1>3, <1>6, <2>1, <2>2
<1>7. QED
  BY <1>2, <1>3, <1>5, <1>6 DEF SendInv

(* A session renewed before its numbers wrap goes on where it was.         *)
LEMMA SendInvReinit ==
  ASSUME MediaTypeOK, SendInv, ReinitSrtp
  PROVE  SendInv'
<1>1. /\ sendCtx' = NewSrtpContext /\ sequenceNumber' = sequenceNumber /\ sent' = sent
      /\ renewed' = (renewed \/ sendCtx.roc > 0 \/ (sendCtx.initialized /\ sequenceNumber = 0))
      /\ sendCtx \in Context /\ sequenceNumber \in 0 .. SeqSize - 1
  BY DEF ReinitSrtp, MediaTypeOK
<1>2. NewSrtpContext.roc = 0 /\ ~NewSrtpContext.initialized
  BY DEF NewSrtpContext
<1>3. NextIndex' = sequenceNumber
  <2>1. updateRoc(NewSrtpContext, sequenceNumber).roc = 0
    BY <1>2 DEF updateRoc, RolledOver
  <2>2. 0 * SeqSize = 0
    BY SizeFacts
  <2>3. QED
    BY <1>1, <2>1, <2>2 DEF NextIndex, packetIndex
<1>4. ASSUME ~renewed' PROVE NextIndex = sequenceNumber /\ ~renewed
  <2>. ~renewed /\ ~(sendCtx.roc > 0) /\ ~(sendCtx.initialized /\ sequenceNumber = 0)
    BY <1>1, <1>4, Zenon
  <2>1. ~renewed /\ sendCtx.roc = 0 /\ (sendCtx.initialized => sequenceNumber # 0)
    BY <1>1 DEF Context
  <2>2. ~RolledOver(sendCtx, sequenceNumber)
    BY <1>1, <2>1, SizeFacts DEF SendInv, RolledOver, Context
  <2>3. updateRoc(sendCtx, sequenceNumber).roc = 0 /\ 0 * SeqSize = 0
    BY <2>1, <2>2, SizeFacts DEF updateRoc
  <2>4. QED
    BY <1>1, <2>1, <2>3 DEF NextIndex, packetIndex
<1>5. QED
  BY <1>1, <1>2, <1>3, <1>4 DEF SendInv

LEMMA SendInvStep == MediaTypeOK /\ SendInv /\ [MediaNext]_mediaVars => SendInv'
<1> SUFFICES ASSUME MediaTypeOK, SendInv, [MediaNext]_mediaVars PROVE SendInv'
  OBVIOUS
<1>1. ASSUME UNCHANGED <<sequenceNumber, sendCtx, sent, renewed>> PROVE SendInv'
  BY <1>1 DEF SendInv, NextIndex
<1>2. CASE EncodeFrame
  <2>1. encodeBuf \o SubSeq(feeding, 1, toCopy) \in Seq(Nat)
    BY <1>2, CopyFacts DEF EncodeFrame
  <2>2. QED
    BY <1>1, <1>2, <2>1, SendInvSend DEF EncodeFrame, KeepSent
<1>3. CASE SendSilence
  <2>1. << >> \in Seq(Nat)
    OBVIOUS
  <2>2. QED
    BY <1>3, <2>1, SendInvSend DEF SendSilence
<1>4. CASE ReinitSrtp
  BY <1>4, SendInvReinit
<1>5. CASE ReadyChanges \/ KeepSamples \/ \E n \in Chunks : FeedCapturedPCM(n)
  BY <1>1, <1>5 DEF ReadyChanges, KeepSamples, FeedCapturedPCM, KeepSent
<1>6. CASE \E r \in Readers : \/ \E n \in 1 .. Len(sent) : OnRelayData(r, n)
                              \/ LoadRoc(r) \/ StoreRoc(r) \/ Unprotect(r) \/ OnPeerAudio(r)
  BY <1>1, <1>6 DEF OnRelayData, LoadRoc, StoreRoc, Unprotect, OnPeerAudio, senderVars
<1>7. CASE UNCHANGED mediaVars
  BY <1>1, <1>7 DEF mediaVars, senderVars
<1>8. QED
  BY <1>2, <1>3, <1>4, <1>5, <1>6, <1>7 DEF MediaNext, MicrophoneNext, NetworkNext

LEMMA KeystreamFromInv == MediaTypeOK /\ SendInv => KeystreamOnce
<1> SUFFICES ASSUME MediaTypeOK, SendInv, ~renewed,
                    NEW i \in 1 .. Len(sent), NEW j \in 1 .. Len(sent), i # j
             PROVE  sent[i].index # sent[j].index
  BY DEF KeystreamOnce
<1>1. sent[i] \in Packet /\ sent[j] \in Packet /\ Len(sent) \in Nat
  BY DEF MediaTypeOK
<1>2. sent[i].index \in Nat /\ sent[j].index \in Nat
  BY <1>1 DEF Packet
<1>3. /\ sent[i].index + (Len(sent) - i) + 1 = NextIndex
      /\ sent[j].index + (Len(sent) - j) + 1 = NextIndex
  BY DEF SendInv
<1>4. QED
  BY <1>1, <1>2, <1>3

(* No two packets are encrypted with one piece of the key stream           *)
(* (MediaPlane.KeystreamOnce), whatever the number of sequence numbers: the*)
(* indexes of the packets are consecutive until a renewal after a wrap,     *)
(* from which on the code begins them again (callmanager_srtp.go:64) and   *)
(* nothing is claimed.                                                     *)
THEOREM KeystreamIsUsedOnce == MediaSpec => []KeystreamOnce
<1>1. MediaSpec => [](MediaTypeOK /\ SendInv)
  BY TypeInit, TypeStep, SendInvInit, SendInvStep, PTL DEF MediaSpec
<1>2. QED
  BY <1>1, KeystreamFromInv, PTL

-----------------------------------------------------------------------------
(* The receiver: its context is at the packet it decrypted last.           *)

(* The context is that of a receiver that has just decrypted packet p.     *)
Tracks(p) ==
  IF p = 0 THEN recvCtx = NewSrtpContext
  ELSE /\ recvCtx.initialized /\ recvCtx.lastSeq = sent[p].seq
       /\ packetIndex(recvCtx, sent[p].seq) = sent[p].index

(* Packet n is one that may come after p in an orderly stream.             *)
Follows(p, n) ==
  /\ p \in 0 .. n - 1
  /\ IF p = 0 THEN sent[n].index < SeqSize ELSE n - p < Half

AtWork(r) ==
  /\ last > 0 /\ reader[r].packet = last
  /\ \A s \in Readers \ {r} : reader[s] = Resting
  /\ \/ /\ reader[r].step \in {"load", "store"}
        /\ \E p \in 0 .. last - 1 : Tracks(p) /\ Follows(p, last)
        /\ reader[r].step = "store" => reader[r].bump = RolledOver(recvCtx, sent[last].seq)
     \/ reader[r].step = "index" /\ Tracks(last)
     \/ reader[r].step = "decode" /\ Tracks(last) /\ reader[r].index = sent[last].index

RecvInv ==
  orderly /\ ~renewed =>
    \/ Tracks(last) /\ \A r \in Readers : reader[r] = Resting
    \/ \E r \in Readers : AtWork(r)

(* Two ways to write a number as cycles and a rest are the same.           *)
LEMMA CyclesUnique ==
  ASSUME NEW a \in Nat, NEW b \in Nat, NEW S \in Nat, NEW x \in 0 .. S - 1, NEW y \in 0 .. S - 1,
         a * S + x = b * S + y
  PROVE  a = b
<1>1. ASSUME NEW c \in Nat, NEW d \in Nat, c < d PROVE c * S + S <= d * S
  <2>1. d - c - 1 \in Nat
    BY <1>1
  <2>2. (d - c - 1) * S \in Nat /\ c * S \in Nat /\ d * S \in Nat
    BY <2>1
  <2>3. d * S = c * S + S + (d - c - 1) * S
    BY <2>1
  <2>4. QED
    BY <2>2, <2>3
<1>2. a * S \in Nat /\ b * S \in Nat
  OBVIOUS
<1>3. ~(a < b) /\ ~(b < a)
  BY <1>1, <1>2
<1>4. QED
  BY <1>3

(* A number less than half a cycle further is one cycle up exactly when    *)
(* the sequence number fell by more than half.                             *)
LEMMA CyclesAdvance ==
  ASSUME NEW roc \in Nat, NEW q \in Nat, NEW d \in Nat, 0 < d, d < Half,
         NEW x \in 0 .. SeqSize - 1, NEW y \in 0 .. SeqSize - 1,
         q * SeqSize + y = roc * SeqSize + x + d
  PROVE  q = IF y + Half < x THEN roc + 1 ELSE roc
<1>1. roc * SeqSize \in Nat /\ q * SeqSize \in Nat
  BY SizeFacts
<1>2. CASE x + d < SeqSize
  <2>1. x + d \in 0 .. SeqSize - 1
    BY <1>2, SizeFacts
  <2>2. q * SeqSize + y = roc * SeqSize + (x + d)
    BY <1>1, SizeFacts
  <2>3. q = roc
    BY <2>1, <2>2, CyclesUnique, SizeFacts
  <2>4. y = x + d
    BY <1>1, <2>2, <2>3, SizeFacts
  <2>5. QED
    BY <2>3, <2>4, SizeFacts
<1>3. CASE x + d >= SeqSize
  <2>1. x + d - SeqSize \in 0 .. SeqSize - 1
    BY <1>3, SizeFacts
  <2>2. (roc + 1) * SeqSize = roc * SeqSize + SeqSize
    BY SizeFacts
  <2>3. q * SeqSize + y = (roc + 1) * SeqSize + (x + d - SeqSize)
    BY <1>1, <2>2, SizeFacts
  <2>4. q = roc + 1
    BY <2>1, <2>3, CyclesUnique, SizeFacts
  <2>5. y = x + d - SeqSize
    BY <1>1, <2>1, <2>2, <2>3, <2>4, SizeFacts
  <2>6. QED
    BY <2>4, <2>5, SizeFacts
<1>4. QED
  BY <1>2, <1>3, SizeFacts

(* Numbers that are as far from one end as their places are.               *)
LEMMA SameDistance ==
  ASSUME NEW L \in Nat, NEW n \in 1 .. L, NEW p \in 1 .. n, NEW a \in Nat, NEW b \in Nat,
         a + (L - n) + 1 = b + (L - p) + 1
  PROVE  a = b + (n - p)
  OBVIOUS

(* The packets' indexes as numbers.                                        *)
LEMMA SentFacts ==
  ASSUME MediaTypeOK, SendInv, NEW n \in 1 .. Len(sent)
  PROVE  /\ sent[n].seq \in 0 .. SeqSize - 1 /\ sent[n].index \in Nat
         /\ \E q \in Nat : sent[n].index = q * SeqSize + sent[n].seq
         /\ ~renewed => \A p \in 1 .. n : sent[n].index = sent[p].index + (n - p)
<1>1. Len(sent) \in Nat /\ \A i \in 1 .. Len(sent) : sent[i] \in Packet
  BY DEF MediaTypeOK
<1>2. \A i \in 1 .. Len(sent) : sent[i].seq \in 0 .. SeqSize - 1 /\ sent[i].index \in Nat
  BY <1>1 DEF Packet
<1>3. ASSUME ~renewed, NEW p \in 1 .. n PROVE sent[n].index = sent[p].index + (n - p)
  <2>1. p \in 1 .. Len(sent)
    BY <1>1
  <2>2. /\ sent[n].index + (Len(sent) - n) + 1 = NextIndex
        /\ sent[p].index + (Len(sent) - p) + 1 = NextIndex
    BY <1>3, <2>1 DEF SendInv
  <2>3. sent[n].index \in Nat /\ sent[p].index \in Nat
    BY <1>2, <2>1
  <2>4. sent[n].index + (Len(sent) - n) + 1 = sent[p].index + (Len(sent) - p) + 1
    BY <2>2
  <2>5. Len(sent) \in Nat /\ n \in 1 .. Len(sent) /\ p \in 1 .. n
    BY <1>1
  <2>6. ASSUME NEW a \in Nat, NEW b \in Nat, a + (Len(sent) - n) + 1 = b + (Len(sent) - p) + 1
        PROVE  a = b + (n - p)
    BY <2>5, <2>6, SameDistance
  <2>7. QED
    BY <2>3, <2>4, <2>6
<1>4. QED
  BY <1>2, <1>3 DEF SendInv

(* The receiver follows the sender: after an orderly packet its context    *)
(* has the packet's index.                                                 *)
LEMMA Advance ==
  ASSUME MediaTypeOK, SendInv, ~renewed, NEW n \in 1 .. Len(sent), NEW p \in 0 .. n - 1,
         Tracks(p), Follows(p, n)
  PROVE  LET bump == IF RolledOver(recvCtx, sent[n].seq) THEN 1 ELSE 0
         IN  (recvCtx.roc + bump) * SeqSize + sent[n].seq = sent[n].index
<1> DEFINE bump == IF RolledOver(recvCtx, sent[n].seq) THEN 1 ELSE 0
<1>1. recvCtx \in Context /\ recvCtx.roc \in Nat /\ Len(sent) \in Nat
  BY DEF MediaTypeOK, Context
<1>2. sent[n].seq \in 0 .. SeqSize - 1 /\ sent[n].index \in Nat
  BY SentFacts
<1>3. PICK q \in Nat : sent[n].index = q * SeqSize + sent[n].seq
  BY SentFacts
<1>4. CASE p = 0
  <2>1. recvCtx.roc = 0 /\ ~recvCtx.initialized
    BY <1>4 DEF Tracks, NewSrtpContext
  <2>2. sent[n].index < SeqSize
    BY <1>4 DEF Follows
  <2>3. q * SeqSize + sent[n].seq = 0 * SeqSize + sent[n].index
    BY <1>2, <1>3, SizeFacts
  <2>4. sent[n].index \in 0 .. SeqSize - 1 /\ 0 \in Nat /\ SeqSize \in Nat
    <3>1. SeqSize \in Nat
      BY SizeFacts
    <3>2. \A x, y \in Nat : x < y => x \in 0 .. y - 1
      OBVIOUS
    <3>3. QED
      BY <1>2, <2>2, <3>1, <3>2
  <2>5. ASSUME NEW x \in 0 .. SeqSize - 1, NEW y \in 0 .. SeqSize - 1,
                q * SeqSize + x = 0 * SeqSize + y
         PROVE  q = 0
    BY <2>4, <2>5, CyclesUnique
  <2>6. q = 0
    BY <1>2, <2>3, <2>4, <2>5
  <2>7. bump = 0
    BY <2>1 DEF RolledOver
  <2>8. recvCtx.roc + bump = q
    BY <2>1, <2>6, <2>7
  <2>9. QED
    BY <1>3, <2>8
<1>5. CASE p # 0
  <2>1. p \in 1 .. n /\ p \in 1 .. Len(sent) /\ n - p \in Nat /\ 0 < n - p /\ n - p < Half
    BY <1>1, <1>5, SizeFacts DEF Follows
  <2>2. sent[p].seq \in 0 .. SeqSize - 1 /\ sent[p].index \in Nat
    BY <2>1, SentFacts
  <2>3. /\ recvCtx.initialized /\ recvCtx.lastSeq = sent[p].seq
        /\ sent[p].index = recvCtx.roc * SeqSize + sent[p].seq
    BY <1>5 DEF Tracks, packetIndex
  <2>4. sent[n].index = sent[p].index + (n - p)
    BY <2>1, SentFacts
  <2>5. q * SeqSize + sent[n].seq = recvCtx.roc * SeqSize + sent[p].seq + (n - p)
    BY <1>3, <2>3, <2>4
  <2>6. ASSUME NEW d \in Nat, 0 < d, d < Half, NEW x \in 0 .. SeqSize - 1, NEW y \in 0 .. SeqSize - 1,
               q * SeqSize + y = recvCtx.roc * SeqSize + x + d
        PROVE  q = IF y + Half < x THEN recvCtx.roc + 1 ELSE recvCtx.roc
    BY <1>1, <2>6, CyclesAdvance
  <2>7. q = IF sent[n].seq + Half < sent[p].seq THEN recvCtx.roc + 1 ELSE recvCtx.roc
    BY <1>2, <2>1, <2>2, <2>5, <2>6
  <2>8. recvCtx.roc + bump = q
    BY <1>1, <2>3, <2>7 DEF RolledOver
  <2>9. QED
    BY <1>3, <2>8
<1>6. QED
  BY <1>4, <1>5
(* What the receiver's steps read of a reader, as plain facts.             *)
LEMMA ReaderFacts ==
  ASSUME MediaTypeOK, NEW r \in Readers
  PROVE  /\ reader \in [Readers -> [step : {"idle", "load", "store", "index", "decode"},
                                    packet : 0 .. Len(sent), bump : BOOLEAN, index : Nat]]
         /\ reader[r].packet \in 0 .. Len(sent) /\ reader[r].bump \in BOOLEAN
         /\ Len(sent) \in Nat /\ last \in 0 .. Len(sent)
  BY DEF MediaTypeOK

(* At most one reader is at work, so the one that takes a step is that one.*)
LEMMA OneAtWork ==
  ASSUME MediaTypeOK, RecvInv, orderly, ~renewed, NEW r \in Readers, reader[r].step # "idle"
  PROVE  AtWork(r)
<1>1. Resting.step = "idle"
  BY DEF Resting
<1>2. PICK s \in Readers : AtWork(s)
  BY <1>1 DEF RecvInv
<1>3. s = r
  BY <1>1, <1>2 DEF AtWork
<1>4. QED
  BY <1>2, <1>3

(* The sender's steps only append, so what the receiver holds stays.       *)
LEMMA RecvInvKept ==
  ASSUME MediaTypeOK, RecvInv, UNCHANGED receiverVars, ~renewed' => ~renewed,
         \A i \in 1 .. Len(sent) : sent'[i] = sent[i]
  PROVE  RecvInv'
<1> SUFFICES ASSUME orderly, ~renewed
             PROVE  RecvInv'
  BY DEF RecvInv, receiverVars
<1>1. recvCtx' = recvCtx /\ reader' = reader /\ last' = last /\ orderly' = orderly
  BY DEF receiverVars
<1>2. Len(sent) \in Nat /\ last \in 0 .. Len(sent)
  BY DEF MediaTypeOK
<1>3. ASSUME NEW p \in 0 .. last, Tracks(p) PROVE Tracks(p)'
  <2>1. p # 0 => sent'[p] = sent[p]
    BY <1>2
  <2>2. QED
    BY <1>1, <1>3, <2>1 DEF Tracks, packetIndex
<1>4. CASE Tracks(last) /\ \A r \in Readers : reader[r] = Resting
  <2>1. Tracks(last)'
    BY <1>1, <1>2, <1>3, <1>4 DEF Tracks, packetIndex
  <2>2. QED
    BY <1>1, <1>4, <2>1 DEF RecvInv, Resting
<1>5. CASE \E r \in Readers : AtWork(r)
  <2>1. PICK r \in Readers : AtWork(r)
    BY <1>5
  <2>2. last > 0 /\ sent'[last] = sent[last]
    BY <1>2, <2>1 DEF AtWork
  <2>3. Tracks(last) => Tracks(last)'
    BY <1>1, <2>2 DEF Tracks, packetIndex
  <2>4. ASSUME NEW p \in 0 .. last - 1, Tracks(p), Follows(p, last) PROVE Tracks(p)' /\ Follows(p, last)'
    <3>1. p \in 0 .. last
      BY <1>2
    <3>2. Tracks(p)'
      BY <1>3, <2>4, <3>1
    <3>3. Follows(p, last)'
      BY <1>1, <2>2, <2>4 DEF Follows
    <3>4. QED
      BY <3>2, <3>3
  <2>5. AtWork(r)'
    BY <1>1, <2>1, <2>2, <2>3, <2>4 DEF AtWork, Resting, RolledOver
  <2>6. QED
    BY <2>5 DEF RecvInv
<1>6. QED
  BY <1>4, <1>5 DEF RecvInv

LEMMA RecvInvInit == MediaInit => RecvInv
  BY DEF MediaInit, RecvInv, Tracks

(* A packet that arrives in order finds the receiver at the one before.    *)
LEMMA RecvInvArrives ==
  ASSUME MediaTypeOK, RecvInv, NEW r \in Readers, NEW n \in 1 .. Len(sent), OnRelayData(r, n)
  PROVE  RecvInv'
<1> SUFFICES ASSUME orderly', ~renewed'
             PROVE  AtWork(r)'
  BY DEF RecvInv
<1>1. /\ orderly /\ ~renewed /\ Arrives(n) /\ last' = n
      /\ recvCtx' = recvCtx /\ sent' = sent
      /\ reader' = [reader EXCEPT ![r] = [Resting EXCEPT !.step = "load", !.packet = n]]
  BY DEF OnRelayData, senderVars
<1>2. \A s \in Readers : reader[s] = Resting
  BY <1>1 DEF Arrives
<1>3. Tracks(last)
  BY <1>1, <1>2 DEF RecvInv, AtWork, Resting
<1>4. Len(sent) \in Nat /\ last \in 0 .. Len(sent) /\ last \in 0 .. n - 1
  BY <1>1 DEF Arrives, MediaTypeOK
<1>5. Follows(last, n)
  BY <1>1, <1>4 DEF Follows, Arrives
<1>6. /\ reader'[r].step = "load" /\ reader'[r].packet = n
      /\ \A s \in Readers \ {r} : reader'[s] = Resting
  BY <1>1, <1>2, ReaderFacts DEF Resting
<1>7. \E p \in 0 .. n - 1 : Tracks(p)' /\ Follows(p, n)'
  BY <1>1, <1>3, <1>4, <1>5 DEF Tracks, Follows, packetIndex, NewSrtpContext
<1>8. QED
  BY <1>1, <1>4, <1>6, <1>7 DEF AtWork, Resting, Follows

(* The steps of a reader lead from one packet's index to the next.         *)
LEMMA RecvInvReader ==
  ASSUME MediaTypeOK, SendInv, RecvInv, NEW r \in Readers,
         LoadRoc(r) \/ StoreRoc(r) \/ Unprotect(r) \/ OnPeerAudio(r)
  PROVE  RecvInv'
<1>1. orderly' = orderly /\ renewed' = renewed
  BY DEF LoadRoc, StoreRoc, Unprotect, OnPeerAudio, senderVars
<1> SUFFICES ASSUME orderly, ~renewed
             PROVE  RecvInv'
  BY <1>1 DEF RecvInv
<1>2. sent' = sent /\ last' = last
  BY DEF LoadRoc, StoreRoc, Unprotect, OnPeerAudio, senderVars
<1>3. AtWork(r)
  <2>1. reader[r].step # "idle"
    BY DEF LoadRoc, StoreRoc, Unprotect, OnPeerAudio
  <2>2. QED
    BY <2>1, OneAtWork
<1>4. last \in 1 .. Len(sent) /\ reader[r].packet = last
  BY <1>3, ReaderFacts DEF AtWork
<1>5. \A s \in Readers \ {r} : reader'[s] = Resting
  <2>1. \A s \in Readers \ {r} : reader[s] = Resting
    BY <1>3 DEF AtWork
  <2>2. \A s \in Readers \ {r} : reader'[s] = reader[s]
    BY ReaderFacts DEF LoadRoc, StoreRoc, Unprotect, OnPeerAudio
  <2>3. QED
    BY <2>1, <2>2
<1>6. CASE LoadRoc(r)
  <2>1. PICK p \in 0 .. last - 1 : Tracks(p) /\ Follows(p, last)
    BY <1>3, <1>6 DEF AtWork, LoadRoc
  <2>2. recvCtx' = recvCtx
    BY <1>6 DEF LoadRoc
  <2>3. /\ reader'[r].step = "store" /\ reader'[r].packet = last
        /\ reader'[r].bump = RolledOver(recvCtx, sent[last].seq)
    BY <1>4, <1>6, ReaderFacts DEF LoadRoc
  <2>4. Tracks(p)' /\ Follows(p, last)'
    BY <1>2, <2>1, <2>2 DEF Tracks, Follows, packetIndex, NewSrtpContext
  <2>5. AtWork(r)'
    BY <1>2, <1>4, <1>5, <2>2, <2>3, <2>4 DEF AtWork, Resting, RolledOver
  <2>6. QED
    BY <2>5 DEF RecvInv
<1>7. CASE StoreRoc(r)
  <2>1. PICK p \in 0 .. last - 1 : Tracks(p) /\ Follows(p, last)
    BY <1>3, <1>7 DEF AtWork, StoreRoc
  <2>2. reader[r].bump = RolledOver(recvCtx, sent[last].seq)
    BY <1>3, <1>7 DEF AtWork, StoreRoc
  <2>3. /\ reader'[r].step = "index" /\ reader'[r].packet = last
    BY <1>4, <1>7, ReaderFacts DEF StoreRoc
  <2>4. recvCtx' = [roc |-> recvCtx.roc + (IF RolledOver(recvCtx, sent[last].seq) THEN 1 ELSE 0),
                    lastSeq |-> sent[last].seq, initialized |-> TRUE]
    BY <1>4, <1>7, <2>2 DEF StoreRoc
  <2>5. packetIndex(recvCtx', sent[last].seq) = sent[last].index
    BY <1>4, <2>1, <2>4, Advance DEF packetIndex
  <2>6. Tracks(last)'
    BY <1>2, <1>4, <2>4, <2>5 DEF Tracks, packetIndex
  <2>7. AtWork(r)'
    BY <1>2, <1>4, <1>5, <2>3, <2>6 DEF AtWork, Resting
  <2>8. QED
    BY <2>7 DEF RecvInv
<1>8. CASE Unprotect(r)
  <2>1. Tracks(last)
    BY <1>3, <1>8 DEF AtWork, Unprotect
  <2>2. recvCtx' = recvCtx
    BY <1>8 DEF Unprotect
  <2>3. /\ reader'[r].step = "decode" /\ reader'[r].packet = last
        /\ reader'[r].index = packetIndex(recvCtx, sent[last].seq)
    BY <1>4, <1>8, ReaderFacts DEF Unprotect
  <2>4. packetIndex(recvCtx, sent[last].seq) = sent[last].index
    BY <1>4, <2>1 DEF Tracks
  <2>5. Tracks(last)'
    BY <1>2, <2>1, <2>2 DEF Tracks, packetIndex, NewSrtpContext
  <2>6. AtWork(r)'
    BY <1>2, <1>4, <1>5, <2>3, <2>4, <2>5 DEF AtWork, Resting
  <2>7. QED
    BY <2>6 DEF RecvInv
<1>9. CASE OnPeerAudio(r)
  <2>1. Tracks(last)
    BY <1>3, <1>9 DEF AtWork, OnPeerAudio
  <2>2. recvCtx' = recvCtx /\ reader'[r] = Resting
    BY <1>9, ReaderFacts DEF OnPeerAudio
  <2>3. Tracks(last)'
    BY <1>2, <2>1, <2>2 DEF Tracks, packetIndex, NewSrtpContext
  <2>4. QED
    BY <1>5, <2>2, <2>3 DEF RecvInv, Resting
<1>10. QED
  BY <1>6, <1>7, <1>8, <1>9

LEMMA RecvInvStep ==
  ASSUME MediaTypeOK, SendInv, RecvInv, [MediaNext]_mediaVars
  PROVE  RecvInv'
<1>1. ASSUME NEW samples, sendOpusFrame(samples), UNCHANGED receiverVars PROVE RecvInv'
  <2>1. \A i \in 1 .. Len(sent) : sent'[i] = sent[i]
    BY <1>1 DEF sendOpusFrame, MediaTypeOK
  <2>2. QED
    BY <1>1, <2>1, RecvInvKept DEF sendOpusFrame
<1>2. ASSUME UNCHANGED sent, UNCHANGED receiverVars, ~renewed' => ~renewed PROVE RecvInv'
  BY <1>2, RecvInvKept
<1>3. CASE MicrophoneNext \/ SendSilence
  <2>1. CASE \E n \in Chunks : FeedCapturedPCM(n)
    BY <1>2, <2>1 DEF FeedCapturedPCM, KeepSent
  <2>2. CASE KeepSamples
    BY <1>2, <2>2 DEF KeepSamples, KeepSent
  <2>3. CASE EncodeFrame
    BY <1>1, <1>2, <2>3 DEF EncodeFrame, KeepSent
  <2>4. CASE SendSilence
    BY <1>1, <2>4 DEF SendSilence
  <2>5. CASE ReadyChanges
    BY <1>2, <2>5 DEF ReadyChanges, KeepSent
  <2>6. QED
    BY <1>3, <2>1, <2>2, <2>3, <2>4, <2>5 DEF MicrophoneNext
<1>4. CASE ReinitSrtp
  BY <1>2, <1>4 DEF ReinitSrtp
<1>5. CASE \E r \in Readers : \/ \E n \in 1 .. Len(sent) : OnRelayData(r, n)
                              \/ LoadRoc(r) \/ StoreRoc(r) \/ Unprotect(r) \/ OnPeerAudio(r)
  BY <1>5, RecvInvArrives, RecvInvReader
<1>6. CASE UNCHANGED mediaVars
  BY <1>2, <1>6 DEF mediaVars, senderVars
<1>7. QED
  BY <1>3, <1>4, <1>5, <1>6 DEF MediaNext, NetworkNext

LEMMA IndexFromInv == MediaTypeOK /\ RecvInv => IndexAgrees
<1> SUFFICES ASSUME MediaTypeOK, RecvInv, orderly, ~renewed,
                    NEW r \in Readers, reader[r].step = "decode"
             PROVE  reader[r].index = sent[reader[r].packet].index
  BY DEF IndexAgrees
<1>1. AtWork(r)
  BY OneAtWork
<1>2. QED
  BY <1>1 DEF AtWork

(* A packet of an orderly stream is decrypted with the index it was        *)
(* encrypted with (MediaPlane.IndexAgrees), for every number of sequence   *)
(* numbers, of readers and of packets lost in between short of half a      *)
(* cycle: the receiver's context is always at the packet it read last.     *)
THEOREM ReceiverFollows == MediaSpec => []IndexAgrees
<1>1. MediaSpec => [](MediaTypeOK /\ SendInv /\ RecvInv)
  BY TypeInit, TypeStep, SendInvInit, SendInvStep, RecvInvInit, RecvInvStep, PTL DEF MediaSpec
<1>2. QED
  BY <1>1, IndexFromInv, PTL

-----------------------------------------------------------------------------
(* The frames sent.  The samples that wait - in encodeBuf, then in feeding *)
(* - and those of each frame ascend, with nothing between two of them but  *)
(* what was dropped (the set D); after the last that waits, all up to the  *)
(* last captured one (c) was dropped.                                      *)
Chain(s, D) ==
  /\ \A i, j \in 1 .. Len(s) : i < j => s[i] < s[j]
  /\ \A i \in 1 .. Len(s) - 1 : (s[i] + 1) .. (s[i + 1] - 1) \subseteq D

Upto(s, c) == \A i \in 1 .. Len(s) : s[i] \in 1 .. c

Waits(p, c, D) ==
  /\ p \in Seq(Nat) /\ Chain(p, D) /\ Upto(p, c)
  /\ Len(p) > 0 => p[Len(p)] + 1 .. c \subseteq D

Before(s, t) == \A i \in 1 .. Len(s), j \in 1 .. Len(t) : s[i] < t[j]

(* A frame with samples, those that wait being p. *)
IsFrame(s, p, c, D) ==
  s \in Seq(Nat) /\ Len(s) = FrameSize /\ Chain(s, D) /\ Upto(s, c) /\ Before(s, p)

Pending == encodeBuf \o feeding

Voice == {n \in 1 .. Len(sent) : sent[n].samples # << >>}

Heard(x) == \E n \in Voice : x \in Range(sent[n].samples)

FramesInv ==
  /\ Waits(Pending, captured, dropped)
  /\ \A n \in Voice : IsFrame(sent[n].samples, Pending, captured, dropped)
  /\ \A i, j \in Voice : i < j => Before(sent[i].samples, sent[j].samples)
  /\ \A x \in 1 .. captured : x \in dropped \cup skipped \cup Range(Pending) \/ Heard(x)

LEMMA FrameFacts == FrameSize \in Nat /\ FrameSize > 0
BY FrameAssumption

LEMMA FramesInvInit == MediaInit => FramesInv
<1> SUFFICES ASSUME MediaInit PROVE FramesInv
  OBVIOUS
<1>1. Voice = {} /\ Pending = << >> /\ captured = 0
  BY DEF MediaInit, Voice, Pending
<1>2. Waits(<< >>, 0, dropped)
  BY DEF Waits, Chain, Upto
<1>3. QED
  BY <1>1, <1>2 DEF FramesInv

(* What waits goes on to do so when a chunk of n samples is dropped, ...   *)
LEMMA WaitsDropped ==
  ASSUME NEW c \in Nat, NEW n \in Nat, NEW D, NEW p, Waits(p, c, D)
  PROVE  Waits(p, c + n, D \cup (c + 1 .. c + n))
<1> DEFINE E == D \cup (c + 1 .. c + n)
<1>1. Chain(p, E)
  BY DEF Waits, Chain
<1>2. Upto(p, c + n)
  BY DEF Waits, Upto
<1>3. ASSUME Len(p) > 0 PROVE p[Len(p)] + 1 .. c + n \subseteq E
  <2>1. p[Len(p)] \in Nat /\ p[Len(p)] + 1 .. c \subseteq D
    BY <1>3 DEF Waits
  <2>2. \A x \in p[Len(p)] + 1 .. c + n : x \in p[Len(p)] + 1 .. c \/ x \in c + 1 .. c + n
    BY <2>1
  <2>3. QED
    BY <2>1, <2>2
<1>4. QED
  BY <1>1, <1>2, <1>3 DEF Waits

(* ... when it is added, ...                                               *)
LEMMA WaitsFed ==
  ASSUME NEW c \in Nat, NEW n \in Nat, n > 0, NEW D, NEW p, Waits(p, c, D),
         NEW q \in Seq(Nat), Len(q) = Len(p) + n,
         \A i \in 1 .. Len(p) : q[i] = p[i], \A i \in 1 .. n : q[Len(p) + i] = c + i
  PROVE  Waits(q, c + n, D)
<1>1. Len(p) \in Nat /\ \A i \in 1 .. Len(p) : q[i] = p[i] /\ p[i] \in 1 .. c
  BY DEF Waits, Upto
<1>2. \A i \in 1 .. Len(q) : i > Len(p) => q[i] = c + (i - Len(p))
  <2>1. ASSUME NEW i \in 1 .. Len(q), i > Len(p) PROVE q[i] = c + (i - Len(p))
    <3>1. i - Len(p) \in 1 .. n /\ Len(p) + (i - Len(p)) = i
      BY <1>1, <2>1
    <3>2. QED
      BY <3>1
  <2>2. QED
    BY <2>1
<1>3. Upto(q, c + n)
  <2>1. ASSUME NEW i \in 1 .. Len(q) PROVE q[i] \in 1 .. c + n
    <3>1. CASE i <= Len(p)
      BY <1>1, <3>1, SMTT(30), ZenonT(60)
    <3>2. CASE i > Len(p)
      BY <1>1, <1>2, <3>2
    <3>3. QED
      BY <1>1, <3>1, <3>2
  <2>2. QED
    BY <2>1 DEF Upto
<1>4. ASSUME NEW i \in 1 .. Len(q), NEW j \in 1 .. Len(q), i < j PROVE q[i] < q[j]
  <2>1. CASE j <= Len(p)
    <3>1. i \in 1 .. Len(p) /\ j \in 1 .. Len(p) /\ q[i] = p[i] /\ q[j] = p[j]
      BY <1>1, <1>4, <2>1
    <3>2. QED
      BY <3>1, <1>4 DEF Waits, Chain
  <2>2. CASE j > Len(p)
    <3>1. q[j] = c + (j - Len(p))
      BY <1>2, <2>2
    <3>2. CASE i <= Len(p)
      <4>1. q[i] = p[i] /\ p[i] \in 1 .. c
        BY <1>1, <3>2
      <4>2. QED
        BY <1>1, <2>2, <3>1, <4>1
    <3>3. CASE i > Len(p)
      <4>1. q[i] = c + (i - Len(p))
        BY <1>2, <3>3
      <4>2. QED
        BY <1>1, <1>4, <3>1, <4>1
    <3>4. QED
      BY <1>1, <3>2, <3>3
  <2>3. QED
    BY <1>1, <2>1, <2>2
<1>5. ASSUME NEW i \in 1 .. Len(q) - 1 PROVE (q[i] + 1) .. (q[i + 1] - 1) \subseteq D
  <2>1. i \in 1 .. Len(q) /\ i + 1 \in 1 .. Len(q)
    BY <1>1
  <2>2. CASE i + 1 <= Len(p)
    <3>1. Len(p) \in Nat /\ i \in Nat /\ i >= 1
      BY <1>1
    <3>2. i \in 1 .. Len(p) - 1 /\ i \in 1 .. Len(p) /\ i + 1 \in 1 .. Len(p)
      BY <2>2, <3>1
    <3>3. q[i] = p[i] /\ q[i + 1] = p[i + 1]
      BY <1>1, <3>2
    <3>4. QED
      BY <3>2, <3>3 DEF Waits, Chain
  <2>3. CASE i = Len(p)
    <3>1. Len(p) > 0 /\ q[i] = p[Len(p)] /\ q[i + 1] = c + 1
      BY <1>1, <1>2, <2>1, <2>3
    <3>2. q[i + 1] - 1 = c
      BY <3>1
    <3>3. p[Len(p)] + 1 .. c \subseteq D
      BY <3>1, <1>1 DEF Waits
    <3>4. (q[i] + 1) .. (q[i + 1] - 1) \subseteq D
      BY <3>1, <3>2, <3>3
    <3>5. QED
      BY <3>4
  <2>4. CASE i > Len(p)
    <3>1. q[i] = c + (i - Len(p)) /\ q[i + 1] = c + (i + 1 - Len(p))
      BY <1>1, <1>2, <2>1, <2>4
    <3>2. \A x : x \notin (q[i] + 1) .. (q[i + 1] - 1)
      BY <1>1, <3>1
    <3>3. QED
      BY <3>2
  <2>5. Len(p) \in Nat /\ i \in Nat
    BY <1>1
  <2>6. i + 1 <= Len(p) \/ i = Len(p) \/ i > Len(p)
    BY <2>5
  <2>7. QED
    BY <2>2, <2>3, <2>4, <2>6, Zenon
<1>6. q[Len(q)] + 1 .. c + n \subseteq D
  <2>1. Len(p) + n = Len(q) /\ q[Len(p) + n] = c + n
    BY <1>1
  <2>2. QED
    BY <2>1
<1>7. QED
  BY <1>3, <1>4, <1>5, <1>6 DEF Waits, Chain

(* The first k of p are s, and the others are q.                           *)
Parts(p, k, s, q) ==
  /\ s \in Seq(Nat) /\ Len(s) = k /\ \A i \in 1 .. k : s[i] = p[i]
  /\ q \in Seq(Nat) /\ Len(q) = Len(p) - k /\ \A i \in 1 .. Len(q) : q[i] = p[k + i]

(* ... and when the first k of it leave as a frame.                        *)
LEMMA WaitsCut ==
  ASSUME NEW c \in Nat, NEW D, NEW p, Waits(p, c, D), NEW k \in 1 .. Len(p), NEW s, NEW q, Parts(p, k, s, q)
  PROVE  /\ Waits(q, c, D) /\ Chain(s, D) /\ Upto(s, c) /\ Before(s, q)
         /\ Range(p) \subseteq Range(s) \cup Range(q)
         /\ Range(q) \subseteq Range(p)
<1>1. /\ Len(p) \in Nat /\ k \in Nat /\ p \in Seq(Nat)
      /\ s \in Seq(Nat) /\ Len(s) = k /\ \A i \in 1 .. k : s[i] = p[i]
      /\ q \in Seq(Nat) /\ Len(q) = Len(p) - k /\ \A i \in 1 .. Len(q) : q[i] = p[k + i]
  BY DEF Waits, Parts
<1>2. /\ \A i \in 1 .. k : i \in 1 .. Len(p)
      /\ \A i \in 1 .. Len(q) : k + i \in 1 .. Len(p)
  <2>1. Len(p) \in Nat /\ k \in Nat /\ k <= Len(p) /\ Len(q) = Len(p) - k
    BY <1>1
  <2>2. QED
    BY <2>1
<1>3. Upto(s, c) /\ Upto(q, c)
  BY <1>1, <1>2 DEF Waits, Upto
<1>4. Before(s, q)
  <2>1. \A i \in 1 .. k, j \in 1 .. Len(q) : i < k + j
    BY <1>1
  <2>2. QED
    BY <1>1, <1>2, <2>1 DEF Before, Waits, Chain
<1>5. Chain(s, D)
  <2>1. \A i \in 1 .. k - 1 : i \in 1 .. Len(p) - 1 /\ i \in 1 .. k /\ i + 1 \in 1 .. k
    BY <1>1
  <2>2. QED
    BY <1>1, <1>2, <2>1 DEF Waits, Chain
<1>6. Chain(q, D)
  <2>1. ASSUME NEW i \in 1 .. Len(q), NEW j \in 1 .. Len(q), i < j PROVE q[i] < q[j]
    <3>1. k + i < k + j
      BY <1>1, <2>1
    <3>2. QED
      BY <1>1, <1>2, <2>1, <3>1 DEF Waits, Chain
  <2>2. ASSUME NEW i \in 1 .. Len(q) - 1 PROVE (q[i] + 1) .. (q[i + 1] - 1) \subseteq D
    <3>1. k + i \in 1 .. Len(p) - 1 /\ i \in 1 .. Len(q) /\ i + 1 \in 1 .. Len(q) /\ k + (i + 1) = (k + i) + 1
      BY <1>1
    <3>2. q[i] = p[k + i] /\ q[i + 1] = p[(k + i) + 1]
      BY <1>1, <3>1
    <3>3. QED
      BY <3>1, <3>2 DEF Waits, Chain
  <2>3. QED
    BY <2>1, <2>2 DEF Chain
<1>7. Len(q) > 0 => q[Len(q)] + 1 .. c \subseteq D
  <2> SUFFICES ASSUME Len(q) > 0 PROVE q[Len(q)] + 1 .. c \subseteq D
    OBVIOUS
  <2>1. Len(q) \in 1 .. Len(q) /\ k + Len(q) = Len(p)
    BY <1>1
  <2>2. q[Len(q)] = p[Len(p)]
    BY <1>1, <2>1
  <2>3. QED
    BY <1>1, <2>2, SMTT(30), ZenonT(60) DEF Waits
<1>8. Range(p) \subseteq Range(s) \cup Range(q)
  <2> SUFFICES ASSUME NEW i \in 1 .. Len(p) PROVE p[i] \in Range(s) \cup Range(q)
    BY <1>1, RangeWithin
  <2>1. CASE i <= k
    <3>1. i \in 1 .. Len(s) /\ s[i] = p[i]
      BY <1>1, <2>1
    <3>2. QED
      BY <1>1, <3>1, RangeFacts
  <2>2. CASE i > k
    <3>1. i - k \in 1 .. Len(q) /\ k + (i - k) = i
      BY <1>1, <2>2
    <3>2. p[i] = q[i - k]
      BY <1>1, <3>1
    <3>3. QED
      BY <1>1, <3>1, <3>2, RangeFacts
  <2>3. QED
    BY <1>1, <2>1, <2>2
<1>9. Range(q) \subseteq Range(p)
  <2>1. \A i \in 1 .. Len(q) : q[i] \in Range(p)
    BY <1>1, <1>2, RangeFacts
  <2>2. QED
    BY <1>1, <2>1, RangeWithin
<1>10. QED
  BY <1>1, <1>3, <1>4, <1>5, <1>6, <1>7, <1>8, <1>9 DEF Waits

(* The samples that wait, one by one.                                      *)
LEMMA PendingFacts ==
  ASSUME MediaTypeOK
  PROVE  /\ Len(encodeBuf) \in Nat /\ Len(feeding) \in Nat /\ captured \in Nat
         /\ Pending \in Seq(Nat) /\ Len(Pending) = Len(encodeBuf) + Len(feeding)
         /\ \A i \in 1 .. Len(encodeBuf) : Pending[i] = encodeBuf[i]
         /\ \A i \in 1 .. Len(feeding) : Pending[Len(encodeBuf) + i] = feeding[i]
BY DEF MediaTypeOK, Pending

(* A packet is sent after those that were.                                 *)
LEMMA Appended ==
  ASSUME MediaTypeOK, NEW samples \in Seq(Nat), sendOpusFrame(samples)
  PROVE  /\ Len(sent) \in Nat /\ Len(sent') = Len(sent) + 1
         /\ \A i \in 1 .. Len(sent) : sent'[i] = sent[i]
         /\ sent'[Len(sent) + 1].samples = samples
         /\ Voice' = IF samples = << >> THEN Voice ELSE Voice \cup {Len(sent) + 1}
<1>1. /\ Len(sent) \in Nat /\ Len(sent') = Len(sent) + 1
      /\ \A i \in 1 .. Len(sent) : sent'[i] = sent[i]
  <2>1. Len(sent) \in Nat
    BY DEF MediaTypeOK
  <2>2. QED
    BY <2>1, SendType
<1>2. PICK p : sent' = Append(sent, p) /\ p.samples = samples
  BY DEF sendOpusFrame
<1>3. sent'[Len(sent) + 1].samples = samples
  BY <1>2 DEF MediaTypeOK
<1>4. \A n \in 1 .. Len(sent) : n \in Voice' <=> n \in Voice
  BY <1>1 DEF Voice
<1>5. Len(sent) + 1 \in Voice' <=> samples # << >>
  BY <1>1, <1>3 DEF Voice
<1>6. /\ Voice' \subseteq 1 .. Len(sent) + 1 /\ Voice \subseteq 1 .. Len(sent)
  BY <1>1 DEF Voice
<1>7. Voice' = IF samples = << >> THEN Voice ELSE Voice \cup {Len(sent) + 1}
  <2>1. \A x : x \in Voice' <=> x \in Voice \/ (samples # << >> /\ x = Len(sent) + 1)
    <3>1. \A x : x \in 1 .. Len(sent) + 1 <=> x \in 1 .. Len(sent) \/ x = Len(sent) + 1
      BY <1>1
    <3>2. Len(sent) + 1 \notin Voice
      BY <1>1, <1>6
    <3>3. QED
      BY <1>4, <1>5, <1>6, <3>1, <3>2
  <2>2. QED
    BY <2>1
<1>8. QED
  BY <1>1, <1>3, <1>7

(* The packets stay, and what waits is what did.                           *)
LEMMA SameVoice ==
  ASSUME FramesInv, UNCHANGED <<captured, dropped, skipped, Pending>>,
         Voice' = Voice, \A n \in Voice : sent'[n].samples = sent[n].samples
  PROVE  FramesInv'
<1>1. \A x : Heard(x) => Heard(x)'
  BY DEF Heard
<1>2. QED
  BY <1>1 DEF FramesInv

LEMMA FeedStep ==
  ASSUME MediaTypeOK, MediaTypeOK', FramesInv, NEW n \in Chunks, FeedCapturedPCM(n)
  PROVE  FramesInv'
<1>1. n \in Nat /\ n > 0 /\ captured \in Nat
  BY FrameAssumption DEF MediaTypeOK, FeedCapturedPCM
<1>2. /\ feeding = << >> /\ captured' = captured + n
      /\ UNCHANGED <<encodeBuf, skipped, sent>>
      /\ \/ feeding' = [i \in 1 .. n |-> captured + i] /\ UNCHANGED dropped
         \/ dropped' = dropped \cup (captured + 1 .. captured + n) /\ UNCHANGED feeding
  BY DEF FeedCapturedPCM, Unlocked, KeepSent
<1>3. Pending = encodeBuf
  BY <1>2 DEF Pending, MediaTypeOK
<1>4. Voice' = Voice /\ \A x : Heard(x) => Heard(x)'
  BY <1>2 DEF Voice, Heard
<1>5. \A i, j \in Voice' : i < j => Before(sent'[i].samples, sent'[j].samples)
  BY <1>2, <1>4 DEF FramesInv
<1>6. \A x \in 1 .. captured' : x \in 1 .. captured \/ x \in captured + 1 .. captured + n
  BY <1>1, <1>2
<1>7. ASSUME NEW m \in Voice
      PROVE  /\ sent[m].samples \in Seq(Nat) /\ Len(sent[m].samples) = FrameSize
             /\ Chain(sent[m].samples, dropped) /\ Upto(sent[m].samples, captured)
             /\ Before(sent[m].samples, Pending)
             /\ Upto(sent[m].samples, captured')
  BY <1>1, <1>2, <1>7, SMTT(30), ZenonT(60) DEF FramesInv, IsFrame, Upto
<1>8. CASE feeding' = [i \in 1 .. n |-> captured + i] /\ UNCHANGED dropped
  <2> DEFINE q == Pending'
  <2>1. /\ q \in Seq(Nat) /\ Len(q) = Len(encodeBuf) + n
        /\ \A i \in 1 .. Len(encodeBuf) : q[i] = encodeBuf[i]
        /\ \A i \in 1 .. n : q[Len(encodeBuf) + i] = captured + i
    BY <1>1, <1>2, <1>8 DEF Pending, MediaTypeOK
  <2> HIDE DEF q
  <2>2. Waits(q, captured + n, dropped)
    BY <1>1, <1>3, <2>1, WaitsFed DEF FramesInv
  <2>3. ASSUME NEW m \in Voice PROVE Before(sent[m].samples, q)
    <3>1. \A i \in 1 .. Len(sent[m].samples) : sent[m].samples[i] \in 1 .. captured
      BY <1>7 DEF Upto
    <3>2. Len(encodeBuf) \in Nat
      BY DEF MediaTypeOK
    <3> SUFFICES ASSUME NEW i \in 1 .. Len(sent[m].samples), NEW j \in 1 .. Len(q)
                 PROVE  sent[m].samples[i] < q[j]
      BY DEF Before
    <3>3. CASE j <= Len(encodeBuf)
      <4>1. j \in 1 .. Len(encodeBuf) /\ q[j] = encodeBuf[j]
        BY <2>1, <3>2, <3>3
      <4>2. QED
        BY <4>1, <1>3, <1>7 DEF Before
    <3>4. CASE j > Len(encodeBuf)
      <4>1. j - Len(encodeBuf) \in 1 .. n /\ Len(encodeBuf) + (j - Len(encodeBuf)) = j
        BY <1>1, <2>1, <3>2, <3>4
      <4>2. q[j] = captured + (j - Len(encodeBuf))
        BY <2>1, <4>1
      <4>3. QED
        BY <1>1, <3>1, <4>1, <4>2
    <3>5. QED
      BY <2>1, <3>2, <3>3, <3>4
  <2>4. \A m \in Voice' : IsFrame(sent'[m].samples, q, captured', dropped')
    BY <1>2, <1>4, <1>7, <1>8, <2>3 DEF IsFrame
  <2>5. Range(Pending) \subseteq Range(q) /\ captured + 1 .. captured + n \subseteq Range(q)
    <3>1. Len(encodeBuf) \in Nat /\ encodeBuf \in Seq(Nat)
      BY DEF MediaTypeOK
    <3>2. ASSUME NEW i \in 1 .. Len(encodeBuf) PROVE encodeBuf[i] \in Range(q)
      <4>1. i \in 1 .. Len(q) /\ q[i] = encodeBuf[i]
        BY <1>1, <2>1, <3>1
      <4>2. QED
        BY <2>1, <4>1, RangeFacts
    <3>3. ASSUME NEW x \in captured + 1 .. captured + n PROVE x \in Range(q)
      <4> DEFINE i == x - captured
      <4>1. i \in 1 .. n /\ captured + i = x /\ Len(encodeBuf) + i \in 1 .. Len(q)
        BY <1>1, <2>1, <3>1, <3>3
      <4>2. q[Len(encodeBuf) + i] = x
        BY <2>1, <4>1
      <4>3. QED
        BY <2>1, <4>1, <4>2, RangeFacts
    <3>4. QED
      BY <1>3, <3>1, <3>2, <3>3, RangeFacts
  <2>6. \A x \in 1 .. captured' : x \in dropped' \cup skipped' \cup Range(q) \/ Heard(x)'
    BY <1>2, <1>4, <1>6, <1>8, <2>5 DEF FramesInv
  <2>7. QED
    BY <1>2, <1>5, <1>8, <2>2, <2>4, <2>6 DEF FramesInv, q
<1>9. CASE dropped' = dropped \cup (captured + 1 .. captured + n) /\ UNCHANGED feeding
  <2>1. Pending' = Pending
    BY <1>2, <1>9 DEF Pending
  <2>2. Waits(Pending, captured', dropped')
    BY <1>1, <1>2, <1>9, WaitsDropped DEF FramesInv
  <2>3. ASSUME NEW m \in Voice PROVE Chain(sent[m].samples, dropped')
    BY <1>7, <1>9 DEF Chain
  <2>4. \A m \in Voice' : IsFrame(sent'[m].samples, Pending, captured', dropped')
    BY <1>2, <1>4, <1>7, <2>3 DEF IsFrame
  <2>5. \A x \in 1 .. captured' : x \in dropped' \cup skipped' \cup Range(Pending) \/ Heard(x)'
    BY <1>2, <1>4, <1>6, <1>9 DEF FramesInv
  <2>6. QED
    BY <1>5, <2>1, <2>2, <2>4, <2>5 DEF FramesInv
<1>10. QED
  BY <1>2, <1>8, <1>9

LEMMA KeepStep ==
  ASSUME MediaTypeOK, FramesInv, KeepSamples PROVE FramesInv'
<1>1. encodeBuf' = encodeBuf \o feeding /\ feeding' = << >> /\ UNCHANGED <<captured, dropped, skipped, sent>>
  BY DEF KeepSamples, Carry, KeepSent
<1>2. Pending' = Pending
  BY <1>1 DEF Pending, MediaTypeOK
<1>3. QED
  BY <1>1, <1>2, SameVoice DEF Voice

LEMMA SilenceStep ==
  ASSUME MediaTypeOK, FramesInv, SendSilence PROVE FramesInv'
<1>1. /\ << >> \in Seq(Nat) /\ sendOpusFrame(<< >>)
      /\ UNCHANGED <<feeding, encodeBuf, captured, dropped, skipped>>
  BY DEF SendSilence, captureVars
<1>2. Voice' = Voice /\ \A n \in Voice : sent'[n] = sent[n]
  BY <1>1, Appended DEF Voice
<1>3. Pending' = Pending
  BY <1>1 DEF Pending
<1>4. QED
  BY <1>1, <1>2, <1>3, SameVoice

(* The first m samples, and the others.                                    *)
LEMMA PrefixFacts ==
  ASSUME NEW d \in Seq(Nat), NEW m \in Nat, m <= Len(d)
  PROVE  /\ SubSeq(d, 1, m) \in Seq(Nat) /\ Len(SubSeq(d, 1, m)) = m
         /\ \A i \in 1 .. m : SubSeq(d, 1, m)[i] = d[i]
         /\ SubSeq(d, m + 1, Len(d)) \in Seq(Nat) /\ Len(SubSeq(d, m + 1, Len(d))) = Len(d) - m
         /\ \A i \in 1 .. Len(d) - m : SubSeq(d, m + 1, Len(d))[i] = d[m + i]
<1>1. Len(d) \in Nat
  OBVIOUS
<1>2. \A i \in 1 .. m : d[i] \in Nat
  BY <1>1
<1>3. \A i \in m + 1 .. Len(d) : d[i] \in Nat
  BY <1>1
<1>4. /\ SubSeq(d, 1, m) \in Seq(Nat) /\ Len(SubSeq(d, 1, m)) = m
      /\ \A i \in 1 .. m : SubSeq(d, 1, m)[i] = d[i]
  BY <1>1, <1>2
<1>5. /\ SubSeq(d, m + 1, Len(d)) \in Seq(Nat) /\ Len(SubSeq(d, m + 1, Len(d))) = Len(d) - m
      /\ \A i \in 1 .. Len(d) - m : SubSeq(d, m + 1, Len(d))[i] = d[m + i]
  BY <1>1, <1>3
<1>6. QED
  BY <1>4, <1>5

(* One sequence after the other.                                           *)
LEMMA CatFacts ==
  ASSUME NEW b \in Seq(Nat), NEW d \in Seq(Nat)
  PROVE  /\ b \o d \in Seq(Nat) /\ Len(b \o d) = Len(b) + Len(d)
         /\ \A i \in 1 .. Len(b) : (b \o d)[i] = b[i]
         /\ \A i \in 1 .. Len(d) : (b \o d)[Len(b) + i] = d[i]
OBVIOUS

(* The frame is what waited longest, and what follows it is what is left.  *)
LEMMA CutInTwo ==
  ASSUME NEW b \in Seq(Nat), NEW d \in Seq(Nat), NEW m \in Nat, m <= Len(d)
  PROVE  Parts(b \o d, Len(b) + m, b \o SubSeq(d, 1, m), SubSeq(d, m + 1, Len(d)))
<1> DEFINE p == b \o d
           q == SubSeq(d, 1, m)
           s == b \o q
           r == SubSeq(d, m + 1, Len(d))
<1>1. Len(b) \in Nat /\ Len(d) \in Nat
  OBVIOUS
<1>2. q \in Seq(Nat) /\ Len(q) = m /\ \A i \in 1 .. m : q[i] = d[i]
  BY PrefixFacts
<1>3. r \in Seq(Nat) /\ Len(r) = Len(d) - m /\ \A i \in 1 .. Len(d) - m : r[i] = d[m + i]
  BY PrefixFacts
<1>4. /\ Len(p) = Len(b) + Len(d)
      /\ \A i \in 1 .. Len(b) : p[i] = b[i] 
      /\ \A i \in 1 .. Len(d) : p[Len(b) + i] = d[i]
  BY CatFacts
<1> HIDE DEF q
<1>5. /\ s \in Seq(Nat) /\ Len(s) = Len(b) + m
      /\ \A i \in 1 .. Len(b) : s[i] = b[i]
      /\ \A i \in 1 .. m : s[Len(b) + i] = q[i]
  BY <1>2, CatFacts
<1> HIDE DEF p, r, s
<1>6. ASSUME NEW i \in 1 .. Len(b) + m PROVE s[i] = p[i]
  <2>1. CASE i <= Len(b)
    BY <1>1, <1>4, <1>5, <2>1
  <2>2. CASE i > Len(b)
    <3>1. i - Len(b) \in 1 .. m /\ i - Len(b) \in 1 .. Len(d) /\ Len(b) + (i - Len(b)) = i
      BY <1>1, <2>2
    <3>2. /\ s[Len(b) + (i - Len(b))] = q[i - Len(b)] /\ q[i - Len(b)] = d[i - Len(b)]
          /\ p[Len(b) + (i - Len(b))] = d[i - Len(b)]
      BY <1>2, <1>4, <1>5, <3>1
    <3>3. QED
      BY <3>1, <3>2
  <2>3. QED
    BY <1>1, <2>1, <2>2
<1>7. Len(r) = Len(p) - (Len(b) + m)
  BY <1>1, <1>3, <1>4
<1>8. ASSUME NEW i \in 1 .. Len(r) PROVE r[i] = p[(Len(b) + m) + i]
  <2>1. i \in 1 .. Len(d) - m /\ m + i \in 1 .. Len(d) /\ Len(b) + (m + i) = (Len(b) + m) + i
    BY <1>1, <1>3
  <2>2. r[i] = d[m + i] /\ p[Len(b) + (m + i)] = d[m + i]
    BY <1>3, <1>4, <2>1
  <2>3. QED
    BY <2>1, <2>2
<1>9. Parts(p, Len(b) + m, s, r)
  BY <1>3, <1>5, <1>6, <1>7, <1>8 DEF Parts
<1>10. QED
  BY <1>9 DEF p, q, r, s

LEMMA FrameLeaves ==
  ASSUME MediaTypeOK, MediaTypeOK', FramesInv, EncodeFrame
  PROVE  LET s == encodeBuf \o SubSeq(feeding, 1, toCopy)
         IN  /\ s \in Seq(Nat) /\ Len(s) = FrameSize
             /\ Chain(s, dropped) /\ Upto(s, captured)
             /\ Waits(Pending', captured, dropped) /\ Before(s, Pending')
             /\ Range(Pending) \subseteq Range(s) \cup Range(Pending')
             /\ Range(Pending') \subseteq Range(Pending)
             /\ \A i \in 1 .. FrameSize : i \in 1 .. Len(Pending) /\ s[i] = Pending[i]
<1>1. /\ Len(encodeBuf) \in Nat /\ Len(feeding) \in Nat /\ captured \in Nat
      /\ encodeBuf \in Seq(Nat) /\ feeding \in Seq(Nat)
      /\ Pending \in Seq(Nat) /\ Len(Pending) = Len(encodeBuf) + Len(feeding)
      /\ \A i \in 1 .. Len(encodeBuf) : Pending[i] = encodeBuf[i]
      /\ \A i \in 1 .. Len(feeding) : Pending[Len(encodeBuf) + i] = feeding[i]
  BY PendingFacts DEF MediaTypeOK
<1>2. Len(encodeBuf) + toCopy = FrameSize /\ Len(encodeBuf) < FrameSize
  BY DEF EncodeFrame, MediaTypeOK
<1>3. toCopy \in Nat /\ toCopy <= Len(feeding)
  BY <1>1, <1>2, FrameFacts DEF toCopy
<1>4. Pending' = SubSeq(feeding, toCopy + 1, Len(feeding))
  <2>1. SubSeq(feeding, toCopy + 1, Len(feeding)) \in Seq(Nat)
    BY <1>1, <1>3, PrefixFacts
  <2>2. encodeBuf' = << >> /\ feeding' = SubSeq(feeding, toCopy + 1, Len(feeding))
    BY DEF EncodeFrame
  <2>3. QED
    BY <2>1, <2>2 DEF Pending
<1>5. Waits(Pending, captured, dropped)
  BY DEF FramesInv
<1> DEFINE s == encodeBuf \o SubSeq(feeding, 1, toCopy)
<1>6. Parts(Pending, FrameSize, s, Pending')
  <2>1. Parts(encodeBuf \o feeding, Len(encodeBuf) + toCopy, s, SubSeq(feeding, toCopy + 1, Len(feeding)))
    BY <1>1, <1>3, CutInTwo
  <2>2. Pending = encodeBuf \o feeding
    BY DEF Pending
  <2>3. QED
    BY <1>2, <1>4, <2>1, <2>2, Zenon
<1>7. FrameSize \in 1 .. Len(Pending) /\ \A i \in 1 .. FrameSize : i \in 1 .. Len(Pending)
  BY <1>1, <1>2, <1>3, FrameFacts
<1> HIDE DEF s
<1>8. /\ Waits(Pending', captured, dropped)
      /\ Chain(s, dropped) /\ Upto(s, captured) /\ Before(s, Pending')
      /\ Range(Pending) \subseteq Range(s) \cup Range(Pending')
      /\ Range(Pending') \subseteq Range(Pending)
  BY <1>1, <1>5, <1>6, <1>7, WaitsCut, SMTT(30), ZenonT(60)
<1>9. QED
  BY <1>6, <1>7, <1>8 DEF s, Parts

LEMMA EncodeStep ==
  ASSUME MediaTypeOK, MediaTypeOK', FramesInv, EncodeFrame PROVE FramesInv'
<1> DEFINE s == encodeBuf \o SubSeq(feeding, 1, toCopy)
<1>1. /\ s \in Seq(Nat) /\ Len(s) = FrameSize
      /\ Chain(s, dropped) /\ Upto(s, captured)
      /\ Waits(Pending', captured, dropped) /\ Before(s, Pending')
      /\ Range(Pending) \subseteq Range(s) \cup Range(Pending')
      /\ Range(Pending') \subseteq Range(Pending)
      /\ \A i \in 1 .. FrameSize : i \in 1 .. Len(Pending) /\ s[i] = Pending[i]
  BY FrameLeaves
<1>2. /\ UNCHANGED <<captured, dropped>>
      /\ \/ sendOpusFrame(s) /\ UNCHANGED skipped
         \/ UNCHANGED sent /\ skipped' = skipped \cup Range(s)
  BY DEF EncodeFrame, KeepSent
<1> HIDE DEF s
<1>3. ASSUME NEW n \in Voice
      PROVE  IsFrame(sent[n].samples, Pending', captured, dropped) /\ Before(sent[n].samples, s)
  <2>1. IsFrame(sent[n].samples, Pending, captured, dropped)
    BY DEF FramesInv
  <2>2. Before(sent[n].samples, s)
    BY <1>1, <2>1 DEF IsFrame, Before
  <2>3. Before(sent[n].samples, Pending')
    <3>1. Pending \in Seq(Nat) /\ Pending' \in Seq(Nat)
      BY <1>1 DEF FramesInv, Waits
    <3>2. \A x \in Range(Pending), i \in 1 .. Len(sent[n].samples) : sent[n].samples[i] < x
      <4> SUFFICES ASSUME NEW x \in Range(Pending), NEW i \in 1 .. Len(sent[n].samples)
                   PROVE  sent[n].samples[i] < x
        OBVIOUS
      <4>1. PICK j \in 1 .. Len(Pending) : x = Pending[j]
        BY <3>1, RangeFacts
      <4>2. sent[n].samples[i] < Pending[j]
        BY <2>1 DEF IsFrame, Before
      <4>3. QED
        BY <4>1, <4>2
    <3>3. \A j \in 1 .. Len(Pending') : Pending'[j] \in Range(Pending')
      BY <3>1, RangeFacts
    <3>4. \A j \in 1 .. Len(Pending') : Pending'[j] \in Range(Pending)
      BY <1>1, <3>3, Zenon
    <3>5. QED
      BY <3>2, <3>4 DEF Before
  <2>4. QED
    BY <2>1, <2>2, <2>3 DEF IsFrame
<1>4. CASE UNCHANGED sent /\ skipped' = skipped \cup Range(s)
  <2>1. Voice' = Voice /\ \A x : Heard(x) => Heard(x)'
    BY <1>4 DEF Voice, Heard
  <2>2. \A n \in Voice' : IsFrame(sent'[n].samples, Pending', captured', dropped')
    BY <1>2, <1>3, <1>4, <2>1
  <2>3. \A x \in 1 .. captured' : x \in dropped' \cup skipped' \cup Range(Pending') \/ Heard(x)'
    BY <1>1, <1>2, <1>4, <2>1 DEF FramesInv
  <2>4. \A i, j \in Voice' : i < j => Before(sent'[i].samples, sent'[j].samples)
    BY <1>4, <2>1 DEF FramesInv
  <2>5. QED
    BY <1>1, <1>2, <2>2, <2>3, <2>4 DEF FramesInv
<1>5. CASE sendOpusFrame(s) /\ UNCHANGED skipped
  <2> DEFINE z == Len(sent) + 1
  <2>1. s # << >>
    BY <1>1, FrameFacts
  <2>2. /\ z \in Nat /\ Voice' = Voice \cup {z} /\ sent'[z].samples = s
        /\ \A n \in Voice : sent'[n] = sent[n] /\ n \in Nat /\ n < z
    BY <1>1, <1>5, <2>1, Appended DEF Voice
  <2> HIDE DEF z
  <2>3. IsFrame(s, Pending', captured, dropped)
    BY <1>1 DEF IsFrame
  <2>4. \A n \in Voice' : IsFrame(sent'[n].samples, Pending', captured', dropped')
    BY <1>2, <1>3, <2>2, <2>3
  <2>5. ASSUME NEW i \in Voice', NEW j \in Voice', i < j PROVE Before(sent'[i].samples, sent'[j].samples)
    <3>1. CASE j \in Voice
      <4>1. i # z
        BY <2>2, <2>5, <3>1
      <4>2. QED
        BY <2>2, <2>5, <3>1, <4>1 DEF FramesInv
    <3>2. CASE j = z
      <4>1. i \in Voice
        BY <2>2, <2>5, <3>2
      <4>2. QED
        BY <1>3, <2>2, <3>2, <4>1
    <3>3. QED
      BY <2>2, <3>1, <3>2
  <2>6. (\A x : Heard(x) => Heard(x)') /\ \A x \in Range(s) : Heard(x)'
    BY <2>2 DEF Heard
  <2>7. \A x \in 1 .. captured' : x \in dropped' \cup skipped' \cup Range(Pending') \/ Heard(x)'
    BY <1>1, <1>2, <1>5, <2>6 DEF FramesInv
  <2>8. QED
    BY <1>1, <1>2, <2>4, <2>5, <2>7 DEF FramesInv
<1>6. QED
  BY <1>2, <1>4, <1>5

LEMMA FramesInvStep == MediaTypeOK /\ MediaTypeOK' /\ FramesInv /\ [MediaNext]_mediaVars => FramesInv'
<1> SUFFICES ASSUME MediaTypeOK, MediaTypeOK', FramesInv, [MediaNext]_mediaVars PROVE FramesInv'
  OBVIOUS
<1>1. CASE UNCHANGED <<sent, captureVars>>
  BY <1>1, SameVoice DEF captureVars, Pending, Voice
<1>2. ASSUME NEW n \in Chunks, FeedCapturedPCM(n) PROVE FramesInv'
  BY <1>2, FeedStep
<1>3. ASSUME KeepSamples \/ EncodeFrame \/ SendSilence PROVE FramesInv'
  BY <1>3, KeepStep, EncodeStep, SilenceStep
<1>4. ASSUME ReinitSrtp \/ ReadyChanges PROVE UNCHANGED <<sent, captureVars>>
  BY <1>4 DEF ReinitSrtp, ReadyChanges, KeepSent
<1>5. ASSUME NEW r \in Readers,
             \/ \E n \in 1 .. Len(sent) : OnRelayData(r, n)
             \/ LoadRoc(r) \/ StoreRoc(r) \/ Unprotect(r) \/ OnPeerAudio(r)
      PROVE  UNCHANGED <<sent, captureVars>>
  BY <1>5 DEF OnRelayData, LoadRoc, StoreRoc, Unprotect, OnPeerAudio, senderVars
<1>6. CASE UNCHANGED mediaVars
  BY <1>1, <1>6 DEF mediaVars, senderVars
<1>7. QED
  BY <1>1, <1>2, <1>3, <1>4, <1>5, <1>6 DEF MediaNext, MicrophoneNext, NetworkNext

(* Every frame that is sent with samples is a whole one, its samples come  *)
(* in the order they were captured with nothing between them but what was  *)
(* dropped for want of a relay, and it comes after those sent before; and  *)
(* no captured sample is forgotten: whatever chunks FeedCapturedPCM gets,  *)
(* whenever relays come and go, and however encoding errors and the        *)
(* keepalive's silence come between (MediaPlane.SamplesInOrder).           *)
THEOREM SamplesStayInOrder == MediaSpec => []SamplesInOrder
<1>1. ASSUME MediaTypeOK, FramesInv PROVE VoiceInOrder
  <2>1. ASSUME NEW n \in Voice
        PROVE  /\ Len(sent[n].samples) = FrameSize
               /\ \A i \in 1 .. FrameSize - 1 : Adjoin(sent[n].samples[i], sent[n].samples[i + 1])
    <3> DEFINE s == sent[n].samples
    <3>1. IsFrame(s, Pending, captured, dropped)
      BY <1>1 DEF FramesInv
    <3> HIDE DEF s
    <3>2. ASSUME NEW i \in 1 .. FrameSize - 1 PROVE Adjoin(s[i], s[i + 1])
      <4>1. i \in 1 .. FrameSize /\ i + 1 \in 1 .. FrameSize /\ i < i + 1
        BY FrameFacts
      <4>2. QED
        BY <3>1, <4>1 DEF IsFrame, Chain, Adjoin
    <3>3. QED
      BY <3>1, <3>2 DEF IsFrame, s
  <2>2. ASSUME NEW i \in Voice, NEW j \in Voice, i < j
        PROVE  sent[i].samples[FrameSize] < sent[j].samples[1]
    <3>1. Len(sent[i].samples) = FrameSize /\ Len(sent[j].samples) = FrameSize
      BY <2>1
    <3>2. 1 \in 1 .. FrameSize /\ FrameSize \in 1 .. FrameSize
      BY FrameFacts
    <3>3. Before(sent[i].samples, sent[j].samples)
      BY <1>1, <2>2 DEF FramesInv
    <3>4. QED
      BY <3>1, <3>2, <3>3 DEF Before
  <2>3. QED
    BY <2>1, <2>2 DEF VoiceInOrder, Voice
<1>2. ASSUME MediaTypeOK, FramesInv PROVE VoiceAccounted
  <2>1. Range(Pending) \subseteq Range(encodeBuf) \cup Range(feeding)
    <3>1. encodeBuf \in Seq(Nat) /\ feeding \in Seq(Nat)
      BY <1>2 DEF MediaTypeOK
    <3>2. /\ Pending \in Seq(Nat) /\ Len(Pending) = Len(encodeBuf) + Len(feeding)
          /\ \A i \in 1 .. Len(encodeBuf) : Pending[i] = encodeBuf[i]
          /\ \A i \in 1 .. Len(feeding) : Pending[Len(encodeBuf) + i] = feeding[i]
          /\ Len(encodeBuf) \in Nat /\ Len(feeding) \in Nat
      BY <1>2, PendingFacts
    <3>3. ASSUME NEW i \in 1 .. Len(Pending) PROVE Pending[i] \in Range(encodeBuf) \cup Range(feeding)
      <4>1. CASE i <= Len(encodeBuf)
        <5>1. i \in 1 .. Len(encodeBuf) /\ Pending[i] = encodeBuf[i]
          BY <3>2, <4>1
        <5>2. QED
          BY <3>1, <5>1, RangeFacts
      <4>2. CASE i > Len(encodeBuf)
        <5>1. i - Len(encodeBuf) \in 1 .. Len(feeding) /\ Len(encodeBuf) + (i - Len(encodeBuf)) = i
          BY <3>2, <4>2
        <5>2. Pending[i] = feeding[i - Len(encodeBuf)]
          BY <3>2, <5>1
        <5>3. QED
          BY <3>1, <5>1, <5>2, RangeFacts
      <4>3. QED
        BY <3>2, <4>1, <4>2
    <3>4. QED
      BY <3>2, <3>3, RangeFacts
  <2>2. \A x : Heard(x) => \E n \in 1 .. Len(sent) : x \in Range(sent[n].samples)
    BY DEF Heard, Voice
  <2>3. QED
    BY <1>2, <2>1, <2>2 DEF FramesInv, VoiceAccounted
<1>3. MediaTypeOK /\ FramesInv => SamplesInOrder
  BY <1>1, <1>2 DEF SamplesInOrder
<1>4. MediaSpec => [](MediaTypeOK /\ FramesInv)
  BY TypeInit, TypeStep, FramesInvInit, FramesInvStep, PTL DEF MediaSpec
<1>5. QED
  BY <1>3, <1>4, PTL

------------------------------------------------------------------------------
(* The packets.  Where the blocks end that a header announces: s[i] is the *)
(* sum of the first i sizes.                                               *)
Ends(red) ==
  {s \in [0..Len(red) -> Nat] :
     /\ s[0] = 0 /\ \A i \in 1..Len(red) : s[i] = s[i-1] + red[i]
     /\ \A i \in 0..Len(red) : s[i] <= s[Len(red)]}

PacketTypeOK ==
  /\ redundancy \in Nat
  /\ payload \in Seq(Bytes)
  /\ parse \in [at : {"idle", "header", "cut", "done"}, cur : Nat, rem : Nat, red : Seq(Nat)]
  /\ frames \in Seq([from : Nat, size : Nat, main : BOOLEAN])

(* What the header has not announced yet is left: rem counts it.           *)
HeaderInv ==
  parse.at = "header" =>
    /\ frames = << >> /\ parse.cur = 2 * Len(parse.red)
    /\ \E s \in Ends(parse.red) : s[Len(parse.red)] + parse.cur + parse.rem = Len(payload)

(* The frames cut so far are the announced blocks, one after the other.    *)
CutInv ==
  parse.at = "cut" =>
    \E s \in Ends(parse.red) :
      /\ parse.rem > 1 /\ s[Len(parse.red)] + 2 * Len(parse.red) + parse.rem = Len(payload)
      /\ Len(frames) <= Len(parse.red)
      /\ parse.cur = 2 * Len(parse.red) + 1 + s[Len(frames)]
      /\ \A i \in 1..Len(frames) :
           frames[i] = [from |-> 2 * Len(parse.red) + 2 + s[i-1], size |-> parse.red[i], main |-> FALSE]

PacketInv ==
  /\ PacketTypeOK
  /\ parse.at = "idle" => frames = << >>
  /\ HeaderInv
  /\ CutInv
  /\ FramesCoverPacket

LEMMA NoBlocks == \E s \in Ends(<< >>) : s[0] = 0
<1> DEFINE s == [i \in 0..0 |-> 0]
<1>1. s \in [0..0 -> Nat] /\ s[0] = 0
  OBVIOUS
<1>2. Len(<< >>) = 0
  OBVIOUS
<1> HIDE DEF s
<1>3. s \in Ends(<< >>)
  <2>1. \A i \in 0..0 : s[i] <= s[0]
    BY <1>1
  <2>2. QED
    BY <1>1, <1>2, <2>1 DEF Ends
<1>4. QED
  BY <1>1, <1>3

LEMMA OneMoreBlock ==
  ASSUME NEW red \in Seq(Nat), NEW s \in Ends(red), NEW size \in Nat
  PROVE \E t \in Ends(Append(red, size)) : t[Len(red) + 1] = s[Len(red)] + size
<1> DEFINE k == Len(red)
           t == [i \in 0..k+1 |-> IF i <= k THEN s[i] ELSE s[k] + size]
           more == Append(red, size)
<1>1. /\ k \in Nat /\ s \in [0..k -> Nat] /\ s[0] = 0 /\ \A i \in 1..k : s[i] = s[i-1] + red[i]
      /\ \A i \in 0..k : s[i] <= s[k]
  BY DEF Ends
<1>2. /\ more \in Seq(Nat) /\ Len(more) = k + 1 /\ more[k + 1] = size
      /\ \A i \in 1..k : more[i] = red[i]
  OBVIOUS
<1> HIDE DEF k, more
<1>3. t \in [0..k+1 -> Nat] /\ t[0] = 0 /\ t[k + 1] = s[k] + size
  BY <1>1
<1>4. \A i \in 1..k+1 : t[i] = t[i-1] + more[i]
  <2> SUFFICES ASSUME NEW i \in 1..k+1 PROVE t[i] = t[i-1] + more[i]
    OBVIOUS
  <2>1. CASE i <= k
    BY <1>1, <1>2, <2>1
  <2>2. CASE i = k + 1
    <3>1. t[i] = s[k] + size /\ t[i-1] = s[k]
      BY <1>1, <2>2
    <3>2. QED
      BY <3>1, <2>2, <1>2
  <2>3. QED
    BY <1>1, <2>1, <2>2
<1>5. \A i \in 0..k+1 : t[i] <= t[k + 1]
  BY <1>1
<1> HIDE DEF t
<1>6. t \in Ends(more)
  BY <1>2, <1>3, <1>4, <1>5 DEF Ends
<1>7. QED
  BY <1>3, <1>6 DEF k, more

LEMMA PacketInit_Inv == PacketInit => PacketInv
<1> SUFFICES ASSUME PacketInit PROVE PacketInv
  OBVIOUS
<1>1. PacketTypeOK
  BY DEF PacketInit, PacketTypeOK
<1>2. QED
  BY <1>1 DEF PacketInit, PacketInv, HeaderInv, CutInv, FramesCoverPacket

(* What is refused or was not split is heard without any frame.            *)
LEMMA HearInv ==
  ASSUME PacketInv, frames = << >>, frames' = frames, redundancy' = redundancy,
         payload' \in Seq(Bytes), NEW frame, Hear(frame), redundancy > 0 => frame = << >>
  PROVE PacketInv'
<1>1. parse' = [parse EXCEPT !.at = "done"] /\ decoded' = decodeFrame(frame)
  BY DEF Hear
<1>2. parse'.at = "done" /\ PacketTypeOK'
  BY <1>1 DEF PacketInv, PacketTypeOK
<1>3. redundancy > 0 => decoded' = [samples |-> OpusFrame, audible |-> FALSE]
  BY <1>1 DEF decodeFrame
<1>4. FramesCoverPacket'
  BY <1>2, <1>3 DEF FramesCoverPacket
<1>5. QED
  BY <1>2, <1>4 DEF PacketInv, HeaderInv, CutInv

LEMMA DecodeInv ==
  ASSUME PacketInv, NEW p \in Seq(Bytes), MlowDecode(p)
  PROVE PacketInv'
<1>1. /\ frames = << >> /\ frames' = frames /\ redundancy' = redundancy /\ payload' = p
  BY DEF MlowDecode, PacketInv
<1>2. CASE p = << >> \/ redundancy = 0
  <2>1. Hear(p) /\ (redundancy > 0 => p = << >>)
    BY <1>2 DEF MlowDecode
  <2>2. QED
    BY <1>1, <2>1, HearInv
<1>3. CASE ~(p = << >> \/ redundancy = 0)
  <2>1. parse' = [at |-> "header", cur |-> 0, rem |-> Len(p), red |-> << >>]
    BY <1>3 DEF MlowDecode
  <2>2. parse'.at = "header" /\ parse'.cur = 0 /\ parse'.rem = Len(p) /\ parse'.red = << >>
    BY <2>1
  <2>3. PacketTypeOK'
    <3>1. parse' \in [at : {"idle", "header", "cut", "done"}, cur : Nat, rem : Nat, red : Seq(Nat)]
      BY <2>1
    <3>2. QED
      BY <3>1, <1>1 DEF PacketInv, PacketTypeOK
  <2>4. HeaderInv'
    BY <1>1, <2>2, NoBlocks DEF HeaderInv
  <2>5. FramesCoverPacket'
    BY <1>1, <2>2 DEF FramesCoverPacket
  <2>6. QED
    BY <2>2, <2>3, <2>4, <2>5 DEF PacketInv, CutInv
<1>4. QED
  BY <1>2, <1>3

LEMMA RefuseInv == ASSUME PacketInv, Refuse PROVE PacketInv'
<1>1. frames = << >> /\ frames' = frames /\ redundancy' = redundancy /\ payload' = payload
  BY DEF Refuse, PacketInv, HeaderInv
<1>2. payload' \in Seq(Bytes) /\ Hear(<< >>)
  BY <1>1 DEF Refuse, PacketInv, PacketTypeOK
<1>3. QED
  BY <1>1, <1>2, HearInv

(* What the header's loop reads is in the packet.                          *)
LEMMA ReadFacts ==
  ASSUME PacketInv, parse.at = "header", ~TooShort
  PROVE /\ parse.cur \in Nat /\ parse.rem \in Nat /\ parse.rem > 1
        /\ parse.red \in Seq(Nat) /\ frames = << >> /\ parse.cur = 2 * Len(parse.red)
        /\ Code \in Bytes /\ Code \in Nat
        /\ Code >= 128 => Size \in Nat /\ Size + 2 < parse.rem
<1>1. /\ payload \in Seq(Bytes) /\ parse.cur \in Nat /\ parse.rem \in Nat /\ parse.red \in Seq(Nat)
  BY DEF PacketInv, PacketTypeOK
<1>2. /\ frames = << >> /\ parse.cur = 2 * Len(parse.red)
      /\ parse.cur + parse.rem <= Len(payload)
  BY DEF PacketInv, HeaderInv, FramesCoverPacket
<1>3. parse.rem # 0
  BY DEF TooShort
<1>4. parse.cur + 1 \in 1..Len(payload)
  BY <1>1, <1>2, <1>3
<1>5. \A i \in 1..Len(payload) : payload[i] \in Bytes /\ payload[i] \in Nat
  <2> SUFFICES ASSUME NEW i \in 1..Len(payload) PROVE payload[i] \in Bytes /\ payload[i] \in Nat
    OBVIOUS
  <2>1. payload[i] \in Bytes
    BY <1>1
  <2>2. \A b \in Bytes : b \in Nat
    BY PacketAssumption
  <2>3. QED
    BY <2>1, <2>2
<1>6. Code \in Bytes /\ Code \in Nat
  BY <1>4, <1>5 DEF Code
<1>7. CASE Code >= 128
  <2>1. parse.rem > 2 /\ ~(Size + 2 >= parse.rem)
    BY <1>1, <1>3, <1>7, SMTT(30), ZenonT(60) DEF TooShort
  <2>2. parse.cur + 2 \in 1..Len(payload)
    BY <1>1, <1>2, <2>1
  <2>3. Size \in Nat
    BY <2>2, <1>5 DEF Size
  <2>4. QED
    BY <1>1, <1>2, <1>6, <2>1, <2>3
<1>8. CASE ~(Code >= 128)
  <2>1. parse.rem # 1
    BY <1>6, <1>8 DEF TooShort
  <2>2. QED
    BY <1>1, <1>2, <1>3, <1>6, <1>8, <2>1
<1>9. QED
  BY <1>7, <1>8

LEMMA ReadBlockInv == ASSUME PacketInv, ReadBlock PROVE PacketInv'
<1> DEFINE k == Len(parse.red)
<1>1. parse.at = "header" /\ ~TooShort /\ Code >= 128
  BY DEF ReadBlock
<1>2. /\ parse.cur \in Nat /\ parse.rem \in Nat /\ parse.red \in Seq(Nat) /\ frames = << >>
      /\ parse.cur = 2 * k /\ Size \in Nat /\ Size + 2 < parse.rem
  BY <1>1, ReadFacts
<1>3. PICK s \in Ends(parse.red) : s[k] + parse.cur + parse.rem = Len(payload)
  BY <1>1 DEF PacketInv, HeaderInv
<1>4. s[k] \in Nat /\ k \in Nat /\ Len(payload) \in Nat
  BY <1>2 DEF Ends, PacketInv, PacketTypeOK
<1>5. PICK size \in Nat : size = Size
  BY <1>2
<1>6. Append(parse.red, size) \in Seq(Nat) /\ Len(Append(parse.red, size)) = k + 1
  BY <1>2
<1>7. PICK red \in Seq(Nat) : red = Append(parse.red, size) /\ Len(red) = k + 1
  BY <1>6
<1>8. /\ parse'.at = "header" /\ parse'.red = red /\ parse'.cur = parse.cur + 2
      /\ parse'.rem = parse.rem - (size + 2)
      /\ UNCHANGED <<redundancy, payload, frames, decoded>>
  BY <1>1, <1>5, <1>7 DEF ReadBlock, PacketInv, PacketTypeOK
<1>9. parse.cur + 2 \in Nat /\ parse.rem - (size + 2) \in Nat
  BY <1>2, <1>5
<1>10. PacketTypeOK'
  <2>1. parse' = [parse EXCEPT !.red = red, !.cur = parse.cur + 2, !.rem = parse.rem - (size + 2)]
    BY <1>5, <1>7 DEF ReadBlock
  <2>2. parse' \in [at : {"idle", "header", "cut", "done"}, cur : Nat, rem : Nat, red : Seq(Nat)]
    BY <2>1, <1>9 DEF PacketInv, PacketTypeOK
  <2>3. QED
    BY <2>2, <1>8 DEF PacketInv, PacketTypeOK
<1>11. PICK t \in Ends(red) : t[k + 1] = s[k] + size
  BY <1>2, <1>3, <1>7, OneMoreBlock
<1>12. t[k + 1] + (parse.cur + 2) + (parse.rem - (size + 2)) = Len(payload)
  <2>1. PICK e, cur, rem, l \in Nat : e = s[k] /\ cur = parse.cur /\ rem = parse.rem /\ l = Len(payload)
    BY <1>2, <1>4
  <2>2. e + cur + rem = l /\ t[k + 1] = e + size /\ size \in Nat
    BY <1>3, <1>5, <1>11, <2>1
  <2>3. \A e1, cur1, rem1, b \in Nat : (e1 + b) + (cur1 + 2) + (rem1 - (b + 2)) = e1 + cur1 + rem1
    OBVIOUS
  <2>4. (e + size) + (cur + 2) + (rem - (size + 2)) = l
    BY <2>2, <2>3
  <2>5. QED
    BY <2>1, <2>2, <2>4
<1>13. HeaderInv'
  <2>1. frames' = << >> /\ parse'.cur = 2 * Len(parse'.red)
    BY <1>2, <1>4, <1>7, <1>8
  <2>2. \E u \in Ends(parse'.red) : u[Len(parse'.red)] + parse'.cur + parse'.rem = Len(payload')
    BY <1>7, <1>8, <1>11, <1>12
  <2>3. QED
    BY <2>1, <2>2 DEF HeaderInv
<1>14. parse'.cur + parse'.rem <= Len(payload')
  BY <1>2, <1>3, <1>4, <1>8, <1>5, SMTT(60)
<1>15. FramesCoverPacket'
  BY <1>8, <1>14 DEF FramesCoverPacket
<1>16. QED
  BY <1>8, <1>10, <1>13, <1>15 DEF PacketInv, CutInv

LEMMA ReadMainInv == ASSUME PacketInv, ReadMain PROVE PacketInv'
<1> DEFINE k == Len(parse.red)
<1>1. parse.at = "header" /\ ~TooShort
  BY DEF ReadMain
<1>2. /\ parse.cur \in Nat /\ parse.rem \in Nat /\ parse.rem > 1 /\ parse.red \in Seq(Nat)
      /\ frames = << >> /\ parse.cur = 2 * k
  BY <1>1, ReadFacts
<1>3. PICK s \in Ends(parse.red) : s[k] + parse.cur + parse.rem = Len(payload)
  BY <1>1 DEF PacketInv, HeaderInv
<1>4. k \in Nat /\ Len(payload) \in Nat
  BY <1>2 DEF PacketInv, PacketTypeOK
<1>5. s[0] = 0 /\ s[k] \in Nat /\ k \in Nat /\ Len(payload) \in Nat
  BY <1>4 DEF Ends
<1>6. /\ parse'.at = "cut" /\ parse'.red = parse.red /\ parse'.cur = parse.cur + 1
      /\ parse'.rem = parse.rem /\ UNCHANGED <<redundancy, payload, frames, decoded>>
  BY <1>1 DEF ReadMain, PacketInv, PacketTypeOK
<1>7. PacketTypeOK'
  <2>1. parse' = [parse EXCEPT !.at = "cut", !.cur = parse.cur + 1]
    BY DEF ReadMain
  <2>2. PICK cur \in Nat : cur = parse.cur + 1
    BY <1>2
  <2>3. parse' = [parse EXCEPT !.at = "cut", !.cur = cur]
    BY <2>1, <2>2
  <2>4. parse' \in [at : {"idle", "header", "cut", "done"}, cur : Nat, rem : Nat, red : Seq(Nat)]
    BY <2>3 DEF PacketInv, PacketTypeOK
  <2>5. QED
    BY <2>4, <1>6 DEF PacketInv, PacketTypeOK
<1>8. Len(frames) = 0
  BY <1>2
<1>9. CutInv'
  <2>1. /\ parse.rem > 1 /\ s[k] + 2 * k + parse.rem = Len(payload)
        /\ Len(frames) <= k /\ parse.cur + 1 = 2 * k + 1 + s[Len(frames)]
        /\ \A i \in 1..Len(frames) :
             frames[i] = [from |-> 2 * k + 2 + s[i-1], size |-> parse.red[i], main |-> FALSE]
    BY <1>2, <1>3, <1>5, <1>8
  <2>2. QED
    BY <2>1, <1>6 DEF CutInv
<1>10. parse'.cur + parse'.rem <= Len(payload') + 1 /\ parse'.rem > 1
  BY <1>2, <1>3, <1>5, <1>6
<1>11. FramesCoverPacket'
  BY <1>6, <1>10 DEF FramesCoverPacket
<1>12. QED
  BY <1>6, <1>7, <1>9, <1>11 DEF PacketInv, HeaderInv

(* What the loop over the blocks relies on.                                *)
LEMMA CutFacts ==
  ASSUME PacketInv, parse.at = "cut"
  PROVE \E s \in Ends(parse.red), k, n, f, cur, rem \in Nat :
          /\ k = Len(parse.red) /\ n = Len(frames) /\ cur = parse.cur /\ rem = parse.rem
          /\ f = s[k] /\ rem > 1 /\ f + 2 * k + rem = Len(payload) /\ n <= k
          /\ cur = 2 * k + 1 + s[n]
          /\ s \in [0..k -> Nat] /\ s[0] = 0 /\ \A i \in 1..k : s[i] = s[i-1] + parse.red[i]
          /\ \A i \in 0..k : s[i] <= f
          /\ \A i \in 1..n : frames[i] = [from |-> 2 * k + 2 + s[i-1], size |-> parse.red[i], main |-> FALSE]
<1>1. PICK s \in Ends(parse.red) :
        /\ parse.rem > 1 /\ s[Len(parse.red)] + 2 * Len(parse.red) + parse.rem = Len(payload)
        /\ Len(frames) <= Len(parse.red)
        /\ parse.cur = 2 * Len(parse.red) + 1 + s[Len(frames)]
        /\ \A i \in 1..Len(frames) :
             frames[i] = [from |-> 2 * Len(parse.red) + 2 + s[i-1], size |-> parse.red[i], main |-> FALSE]
  BY DEF PacketInv, CutInv
<1>2. /\ Len(parse.red) \in Nat /\ Len(frames) \in Nat /\ parse.cur \in Nat /\ parse.rem \in Nat
  BY DEF PacketInv, PacketTypeOK
<1>3. /\ s \in [0..Len(parse.red) -> Nat] /\ s[0] = 0
      /\ \A i \in 1..Len(parse.red) : s[i] = s[i-1] + parse.red[i]
      /\ \A i \in 0..Len(parse.red) : s[i] <= s[Len(parse.red)]
  BY DEF Ends
<1>4. s[Len(parse.red)] \in Nat
  BY <1>2, <1>3
<1>5. QED
  BY <1>1, <1>2, <1>3, <1>4

LEMMA CutRedundantInv == ASSUME PacketInv, CutRedundant PROVE PacketInv'
<1>1. parse.at = "cut" /\ Len(frames) < Len(parse.red)
  BY DEF CutRedundant
<1>2. PICK s \in Ends(parse.red), k, n, f, cur, rem \in Nat :
          /\ k = Len(parse.red) /\ n = Len(frames) /\ cur = parse.cur /\ rem = parse.rem
          /\ f = s[k] /\ rem > 1 /\ f + 2 * k + rem = Len(payload) /\ n <= k
          /\ cur = 2 * k + 1 + s[n]
          /\ s \in [0..k -> Nat] /\ s[0] = 0 /\ \A i \in 1..k : s[i] = s[i-1] + parse.red[i]
          /\ \A i \in 0..k : s[i] <= f
          /\ \A i \in 1..n : frames[i] = [from |-> 2 * k + 2 + s[i-1], size |-> parse.red[i], main |-> FALSE]
  BY <1>1, CutFacts
<1>3. /\ n + 1 \in 1..k /\ n \in 0..k /\ parse.red \in Seq(Nat) /\ (n + 1) - 1 = n
      /\ parse.at = "cut" /\ frames \in Seq([from : Nat, size : Nat, main : BOOLEAN])
  BY <1>1, <1>2, SMTT(60) DEF PacketInv, PacketTypeOK
<1>4. parse.red[n + 1] \in Nat
  <2>1. n + 1 \in 1..Len(parse.red)
    BY <1>2, <1>3
  <2>2. QED
    BY <1>3, <2>1
<1>5. PICK size \in Nat : size = parse.red[n + 1]
  BY <1>4
<1>6. s[n] \in Nat /\ s[n + 1] = s[n] + size /\ s[n + 1] <= f
  <2>1. n + 1 \in 0..k
    BY <1>3
  <2>2. s[n] \in Nat /\ s[n + 1] <= f
    BY <1>2, <1>3, <2>1
  <2>3. s[n + 1] = s[(n + 1) - 1] + parse.red[n + 1]
    BY <1>2, <1>3
  <2>4. QED
    BY <2>2, <2>3, <1>3, <1>5
<1>7. PICK e, to \in Nat : e = s[n] /\ to = cur + size
  BY <1>5, <1>6
<1> DEFINE frame == [from |-> cur + 1, size |-> size, main |-> FALSE]
<1>8. frames' = Append(frames, frame) /\ parse' = [parse EXCEPT !.cur = cur + size]
      /\ UNCHANGED <<redundancy, payload, decoded>>
  BY <1>2, <1>5 DEF CutRedundant, Cut
<1>9. frame \in [from : Nat, size : Nat, main : BOOLEAN]
  BY <1>2, SMTT(60)
<1>10. frame = [from |-> 2 * k + 2 + s[n], size |-> parse.red[n + 1], main |-> FALSE]
  <2>1. cur + 1 = 2 * k + 2 + s[n]
    BY <1>2, <1>6, SMTT(60)
  <2>2. QED
    BY <2>1, <1>5
<1> HIDE DEF frame
<1>11. /\ frames' \in Seq([from : Nat, size : Nat, main : BOOLEAN]) /\ Len(frames') = n + 1
      /\ frames'[n + 1] = frame /\ \A i \in 1..n : frames'[i] = frames[i]
  BY <1>2, <1>3, <1>8, <1>9
<1>12. /\ parse'.at = "cut" /\ parse'.red = parse.red /\ parse'.rem = rem
       /\ parse'.cur = cur + size /\ cur + size \in Nat
  <2>1. parse' = [parse EXCEPT !.cur = to]
    BY <1>8, <1>7
  <2>2. parse'.at = "cut" /\ parse'.red = parse.red /\ parse'.rem = parse.rem /\ parse'.cur = to
    BY <2>1, <1>3 DEF PacketInv, PacketTypeOK
  <2>3. QED
    BY <2>2, <1>2, <1>7
<1>13. PacketTypeOK'
  <2>1. parse' = [parse EXCEPT !.cur = to]
    BY <1>8, <1>7
  <2>2. parse' \in [at : {"idle", "header", "cut", "done"}, cur : Nat, rem : Nat, red : Seq(Nat)]
    BY <2>1 DEF PacketInv, PacketTypeOK
  <2>3. QED
    BY <2>2, <1>8, <1>11 DEF PacketInv, PacketTypeOK
<1>14. cur + size = 2 * k + 1 + s[n + 1]
  BY <1>2, <1>6, SMTT(60)
<1>15. \A i \in 1..n+1 :
         frames'[i] = [from |-> 2 * k + 2 + s[i-1], size |-> parse.red[i], main |-> FALSE]
  <2> SUFFICES ASSUME NEW i \in 1..n+1
               PROVE frames'[i] = [from |-> 2 * k + 2 + s[i-1], size |-> parse.red[i], main |-> FALSE]
    OBVIOUS
  <2>1. CASE i \in 1..n
    <3>1. frames'[i] = frames[i]
      BY <2>1, <1>11
    <3>2. QED
      BY <2>1, <3>1, <1>2
  <2>2. CASE i = n + 1
    <3>1. i - 1 = n
      BY <1>2, <2>2
    <3>2. QED
      BY <2>2, <3>1, <1>10, <1>11
  <2>3. n \in Nat
    BY <1>2
  <2>4. i \in 1..n \/ i = n + 1
    BY <2>3
  <2>5. QED
    BY <2>1, <2>2, <2>4
<1>16. CutInv'
  <2>1. /\ parse'.rem > 1 /\ s[Len(parse'.red)] + 2 * Len(parse'.red) + parse'.rem = Len(payload')
        /\ Len(frames') <= Len(parse'.red)
        /\ parse'.cur = 2 * Len(parse'.red) + 1 + s[Len(frames')]
    BY <1>2, <1>3, <1>8, <1>11, <1>12, <1>14
  <2>2. \A i \in 1..Len(frames') :
          frames'[i] = [from |-> 2 * Len(parse'.red) + 2 + s[i-1], size |-> parse'.red[i], main |-> FALSE]
    BY <1>2, <1>11, <1>12, <1>15
  <2>3. s \in Ends(parse'.red)
    BY <1>2, <1>12
  <2>4. QED
    BY <2>1, <2>2, <2>3 DEF CutInv
<1>17. parse'.cur + parse'.rem <= Len(payload') + 1 /\ parse'.rem > 1
  <2>1. PICK d, l \in Nat : d = 2 * k /\ l = Len(payload)
    BY <1>2 DEF PacketInv, PacketTypeOK
  <2>2. /\ cur \in Nat /\ rem \in Nat /\ f \in Nat /\ f + d + rem = l /\ cur = d + 1 + e
        /\ e + size <= f
    BY <1>2, <1>6, <1>7, <2>1
  <2>3. cur + size + rem <= Len(payload) + 1
    BY <2>1, <2>2
  <2>4. QED
    BY <2>3, <1>2, <1>8, <1>12
<1>18. FramesCoverPacket'
  BY <1>12, <1>17 DEF FramesCoverPacket
<1>19. QED
  BY <1>12, <1>13, <1>16, <1>18 DEF PacketInv, HeaderInv

LEMMA CutMainInv == ASSUME PacketInv, CutMain PROVE PacketInv'
<1>1. parse.at = "cut" /\ Len(frames) = Len(parse.red)
  BY DEF CutMain
<1>2. PICK s \in Ends(parse.red), k, n, f, cur, rem \in Nat :
          /\ k = Len(parse.red) /\ n = Len(frames) /\ cur = parse.cur /\ rem = parse.rem
          /\ f = s[k] /\ rem > 1 /\ f + 2 * k + rem = Len(payload) /\ n <= k
          /\ cur = 2 * k + 1 + s[n]
          /\ s \in [0..k -> Nat] /\ s[0] = 0 /\ \A i \in 1..k : s[i] = s[i-1] + parse.red[i]
          /\ \A i \in 0..k : s[i] <= f
          /\ \A i \in 1..n : frames[i] = [from |-> 2 * k + 2 + s[i-1], size |-> parse.red[i], main |-> FALSE]
  BY <1>1, CutFacts
<1>3. n = k /\ frames \in Seq([from : Nat, size : Nat, main : BOOLEAN]) /\ cur = 2 * k + 1 + f
  BY <1>1, <1>2 DEF PacketInv, PacketTypeOK
<1> DEFINE frame == [from |-> cur + 1, size |-> rem - 1, main |-> TRUE]
<1>4. /\ frames' = Append(frames, frame) /\ parse' = [parse EXCEPT !.at = "done"]
      /\ UNCHANGED <<redundancy, payload>>
  BY <1>2 DEF CutMain, Cut, Hear
<1>5. /\ k \in Nat /\ f \in Nat /\ cur \in Nat /\ rem \in Nat /\ rem > 1
       /\ f + 2 * k + rem = Len(payload)
  BY <1>2
<1>6. PICK d, l \in Nat : d = 2 * k /\ l = Len(payload)
  <2>1. Len(payload) \in Nat
    BY DEF PacketInv, PacketTypeOK
  <2>2. 2 * k \in Nat
    BY <1>5
  <2>3. QED
    BY <2>1, <2>2
<1>7. f + d + rem = l /\ cur = d + 1 + f /\ cur + 1 \in Nat /\ rem - 1 \in Nat
  BY <1>3, <1>5, <1>6
<1>8. frame \in [from : Nat, size : Nat, main : BOOLEAN]
  BY <1>7
<1>9. /\ frame.from = 2 * k + 2 + f /\ frame.size = rem - 1 /\ frame.main
      /\ frame.from + frame.size = Len(payload) + 1 /\ frame.size > 0
  <2>1. /\ cur + 1 = d + 2 + f /\ (cur + 1) + (rem - 1) = l + 1 /\ rem - 1 > 0
    BY <1>5, <1>6, <1>7
  <2>2. QED
    BY <2>1, <1>6
<1> HIDE DEF frame
<1>10. /\ frames' \in Seq([from : Nat, size : Nat, main : BOOLEAN]) /\ Len(frames') = k + 1
      /\ frames'[k + 1] = frame /\ \A i \in 1..k : frames'[i] = frames[i]
  <2>1. Len(frames) = k
    BY <1>2, <1>3
  <2>2. QED
    BY <2>1, <1>3, <1>4, <1>8
<1>11. parse'.at = "done"
  BY <1>4 DEF PacketInv, PacketTypeOK
<1>12. PacketTypeOK'
  BY <1>4, <1>10 DEF PacketInv, PacketTypeOK
<1>13. \A i \in 1..k : /\ frames'[i].from = 2 * k + 2 + s[i-1]
                       /\ frames'[i].size = parse.red[i] /\ ~frames'[i].main
  <2> SUFFICES ASSUME NEW i \in 1..k
               PROVE /\ frames'[i].from = 2 * k + 2 + s[i-1]
                     /\ frames'[i].size = parse.red[i] /\ ~frames'[i].main
    OBVIOUS
  <2>1. frames[i] = [from |-> 2 * k + 2 + s[i-1], size |-> parse.red[i], main |-> FALSE]
    BY <1>2, <1>3
  <2>2. frames'[i] = frames[i]
    BY <1>10
  <2>3. QED
    BY <2>1, <2>2
<1>14. frames'[1].from = 2 * (k + 1)
  <2>1. CASE k = 0
    BY <2>1, <1>2, <1>9, <1>10
  <2>2. CASE k > 0
    <3>1. 1 \in 1..k /\ 1 - 1 = 0
      BY <2>2, <1>2
    <3>2. frames'[1].from = 2 * k + 2 + s[0]
      BY <3>1, <1>13
    <3>3. QED
      BY <3>2, <1>2
  <2>3. QED
    BY <2>1, <2>2, <1>2
<1>15. ASSUME NEW i \in 1..k
       PROVE frames'[i + 1].from = frames'[i].from + frames'[i].size /\ ~frames'[i].main
  <2>1. /\ frames'[i].from = 2 * k + 2 + s[i-1] /\ frames'[i].size = parse.red[i] /\ ~frames'[i].main
        /\ s[i] = s[i-1] + parse.red[i]
    BY <1>2, <1>13
  <2>2. i \in Nat /\ i \in 0..k /\ i-1 \in 0..k
    BY <1>5
  <2>3. s[i] \in Nat /\ s[i-1] \in Nat
    BY <1>2, <2>2
  <2>4. parse.red \in Seq(Nat) /\ i \in 1..Len(parse.red)
    BY <1>2 DEF PacketInv, PacketTypeOK
  <2>5. parse.red[i] \in Nat
    BY <2>4
  <2>6. frames'[i + 1].from = 2 * k + 2 + s[i]
    <3>1. CASE i = k
      BY <3>1, <1>2, <1>9, <1>10
    <3>2. CASE i < k
      <4>1. i + 1 \in 1..k /\ (i + 1) - 1 = i
        BY <3>2, <1>2
      <4>2. frames'[i + 1].from = 2 * k + 2 + s[(i + 1) - 1]
        BY <4>1, <1>13
      <4>3. QED
        BY <4>1, <4>2
    <3>3. QED
      BY <3>1, <3>2, <1>2
  <2>7. PICK a, b, r \in Nat : a = s[i-1] /\ b = s[i] /\ r = parse.red[i]
    BY <2>5, <2>3
  <2>8. b = a + r /\ d + 2 + b = (d + 2 + a) + r
    BY <1>6, <2>1, <2>7, SMTT(60)
  <2>9. QED
    BY <2>1, <2>6, <2>7, <2>8, <1>6
<1>16. frames' # << >> /\ Len(payload') = Len(payload) /\ (k + 1) - 1 = k
  <2>1. k \in Nat /\ Len(frames') # 0
    BY <1>10, <1>5
  <2>2. QED
    BY <2>1, <1>4
<1>17. FramesCoverPacket'
  <2>1. /\ frames'[1].from = 2 * Len(frames')
        /\ \A i \in 1..Len(frames')-1 :
             frames'[i + 1].from = frames'[i].from + frames'[i].size /\ ~frames'[i].main
    BY <1>2, <1>10, <1>14, <1>15, <1>16
  <2>2. LET m == Len(frames')
        IN  /\ frames'[m].from + frames'[m].size = Len(payload') + 1
            /\ frames'[m].size > 0 /\ frames'[m].main
    BY <1>9, <1>10, <1>16
  <2>3. QED
    BY <2>1, <2>2, <1>11, <1>16 DEF FramesCoverPacket
<1>18. QED
  BY <1>11, <1>12, <1>17 DEF PacketInv, HeaderInv, CutInv

LEMMA PacketInvStep == PacketInv /\ [PacketNext]_packetVars => PacketInv'
<1> SUFFICES ASSUME PacketInv, [PacketNext]_packetVars PROVE PacketInv'
  OBVIOUS
<1>1. ASSUME NEW n \in 0..MaxPacket, NEW p \in [1..n -> Bytes], MlowDecode(p) PROVE PacketInv'
  <2>1. CASE n \in Nat
    <3>1. p \in Seq(Bytes)
      BY <2>1
    <3>2. QED
      BY <1>1, <3>1, DecodeInv
  <2>2. QED
    BY <2>1
<1>2. CASE DepackSplitRed
  BY <1>2, RefuseInv, ReadBlockInv, ReadMainInv, CutRedundantInv, CutMainInv DEF DepackSplitRed
<1>3. CASE UNCHANGED packetVars
  BY <1>3 DEF packetVars, PacketInv, PacketTypeOK, HeaderInv, CutInv, FramesCoverPacket
<1>4. QED
  BY <1>1, <1>2, <1>3 DEF PacketNext

(* Whatever bytes a packet of redundant blocks has and however many, it is *)
(* refused and heard as silence, or cut into frames that follow the header *)
(* without a gap and end with the packet; DepackSplitRed reads nothing     *)
(* beyond it.                                                              *)
THEOREM FramesCover == PacketSpec => []FramesCoverPacket
<1>1. PacketInv => FramesCoverPacket
  BY DEF PacketInv
<1>2. QED
  BY <1>1, PacketInit_Inv, PacketInvStep, PTL DEF PacketSpec
===============================================================================
