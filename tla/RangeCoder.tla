------------------------------- MODULE RangeCoder -------------------------------
(***************************************************************************)
(* The entropy coder of the MLow codec (media/mlow/rangecoder.go): symbols *)
(* of SymBits bits from the front of a buffer, raw bits from its back.  A  *)
(* script of operations is encoded one by one, flushed, and decoded one by *)
(* one.  The code's constants are parameters: 8 bits to a symbol and 32 to *)
(* the state there, in the same proportions here.                          *)
(***************************************************************************)
EXTENDS Naturals, Integers, Sequences

CONSTANTS
  SymBits, CodeBits,   \* ecSymBits, ecCodeBits; the window of raw bits is CodeBits wide
  UintBits,            \* ecUintBits
  FineBits,            \* 6: log2 of the 64 fine lags
  Storages,            \* sizes of the encoder's buffer
  MaxOps               \* bound: operations of a script

SymMax    == 2 ^ SymBits - 1
CodeTop   == 2 ^ (CodeBits - 1)
CodeBot   == CodeTop \div 2 ^ SymBits
CodeExtra == ((CodeBits - 2) % SymBits) + 1
CodeShift == CodeBits - SymBits - 1

VARIABLES coding, script, values, enc, dec, storage
coderVars == <<coding, script, values, enc, dec, storage>>

(* floor(log2(x)) + 1, and 0 of 0.                                         *)
ilog(x) == CHOOSE n \in 0 .. 2 * CodeBits : 2 ^ n > x /\ (n = 0 \/ 2 ^ (n - 1) <= x)

Low(x, n) == x % 2 ^ n
Min2(a, b) == IF a < b THEN a ELSE b

(* The tables of the example: log2 of the total, the inverse cumulative    *)
(* frequencies, and cumulative ones with a base.                           *)
Ftb  == 2
Icdf == <<3, 1, 0>>
Cdf  == <<1, 2, 5, 6>>

-----------------------------------------------------------------------------
(* RangeEncoder.                                                           *)
NewRangeEncoder(size) ==
  [buf |-> [i \in 0 .. size - 1 |-> 0], storage |-> size, endOffs |-> 0, endWindow |-> 0,
   nendBits |-> 0, nbitsTotal |-> CodeBits + 1, offs |-> 0, rng |-> CodeTop, val |-> 0,
   ext |-> 0, rem |-> -1, err |-> 0]

writeByte(e, b) ==
  IF e.offs + e.endOffs < e.storage
  THEN [e EXCEPT !.buf[e.offs] = Low(b, SymBits), !.offs = @ + 1]
  ELSE [e EXCEPT !.err = -1]

writeByteAtEnd(e, b) ==
  IF e.offs + e.endOffs < e.storage
  THEN [e EXCEPT !.buf[e.storage - e.endOffs - 1] = b, !.endOffs = @ + 1]
  ELSE [e EXCEPT !.err = -1]

RECURSIVE writeBytes(_, _)
writeBytes(e, b) ==
  IF e.ext = 0 THEN e ELSE writeBytes([writeByte(e, b) EXCEPT !.ext = @ - 1], b)

(* Mutant: the symbols held back do not take the carry.                    *)
carryOutLost(e, c) ==
  IF c = SymMax THEN [e EXCEPT !.ext = @ + 1]
  ELSE LET carry == c \div 2 ^ SymBits
           first == IF e.rem >= 0 THEN writeByte(e, e.rem + carry) ELSE e
       IN  [writeBytes(first, SymMax) EXCEPT !.rem = Low(c, SymBits)]

(* A symbol of all ones is held back until it is known whether a carry     *)
(* will come; the carry goes into the symbol before and through them.      *)
carryOut(e, c) ==
  IF c = SymMax THEN [e EXCEPT !.ext = @ + 1]
  ELSE LET carry == c \div 2 ^ SymBits
           first == IF e.rem >= 0 THEN writeByte(e, e.rem + carry) ELSE e
       IN  [writeBytes(first, Low(SymMax + carry, SymBits)) EXCEPT !.rem = Low(c, SymBits)]

RECURSIVE normalizeEnc(_)
normalizeEnc(e) ==
  IF e.rng > CodeBot THEN e
  ELSE normalizeEnc([carryOut(e, e.val \div 2 ^ CodeShift)
                       EXCEPT !.val = Low(@ * 2 ^ SymBits, CodeBits - 1),
                              !.rng = @ * 2 ^ SymBits, !.nbitsTotal = @ + SymBits])

(* The part [fl, fh) of ft, in the code's order: the first part gets what  *)
(* the division leaves over.                                               *)
Encode(e, fl, fh, ft) ==
  LET r == e.rng \div ft
  IN  normalizeEnc(IF fl > 0
                   THEN [e EXCEPT !.val = @ + e.rng - r * (ft - fl), !.rng = r * (fh - fl)]
                   ELSE [e EXCEPT !.rng = @ - r * (ft - fh)])

EncBitLogp(e, val, logp) ==
  LET s == e.rng \div 2 ^ logp
  IN  normalizeEnc(IF val # 0 THEN [e EXCEPT !.val = @ + e.rng - s, !.rng = s]
                   ELSE [e EXCEPT !.rng = @ - s])

EncodeICDF(e, s) ==
  LET r == e.rng \div 2 ^ Ftb
  IN  normalizeEnc(IF s > 0
                   THEN [e EXCEPT !.val = @ + e.rng - r * Icdf[s], !.rng = r * (Icdf[s] - Icdf[s + 1])]
                   ELSE [e EXCEPT !.rng = @ - r * Icdf[1]])

EncodeCDF(e, s) ==
  Encode(e, Cdf[s + 1] - Cdf[1], Cdf[s + 2] - Cdf[1], Cdf[Len(Cdf)] - Cdf[1])

(* Whole symbols of the window go to the back of the buffer.               *)
RECURSIVE flushWindow(_)
flushWindow(e) ==
  IF e.nendBits < SymBits THEN e
  ELSE flushWindow([writeByteAtEnd(e, Low(e.endWindow, SymBits))
                      EXCEPT !.endWindow = @ \div 2 ^ SymBits, !.nendBits = @ - SymBits])

EncBitsN(e, fl, n) ==
  LET f == IF e.nendBits + n > CodeBits THEN flushWindow(e) ELSE e
  IN  [f EXCEPT !.endWindow = @ + fl * 2 ^ f.nendBits, !.nendBits = @ + n, !.nbitsTotal = @ + n]

EncodeUint(e, fl, ft0) ==
  LET ftb   == ilog(ft0 - 1)
      shift == ftb - UintBits
      high  == fl \div 2 ^ shift
  IN  IF ftb > UintBits
      THEN EncBitsN(Encode(e, high, high + 1, (ft0 - 1) \div 2 ^ shift + 1), Low(fl, shift), shift)
      ELSE Encode(e, fl, fl + 1, ft0)

EncodeRawSymbol(e, sym, nbits) == Encode(e, sym, sym + 1, 2 ^ nbits)

Encode64FineSym(e, sym) == Encode(e, sym, sym + 1, 2 ^ FineBits)

RECURSIVE drain(_, _, _)
drain(e, end, l) ==
  IF l <= 0 THEN e
  ELSE drain(carryOut(e, end \div 2 ^ CodeShift), Low(end * 2 ^ SymBits, CodeBits - 1), l - SymBits)

(* The fewest bits of a value within the last range, then the raw bits;    *)
(* a rest of less than a symbol needs a free symbol between the two.       *)
RoundUp(v, msk) == ((v + msk) \div (msk + 1)) * (msk + 1)

Done(e) ==
  LET l    == CodeBits - ilog(e.rng)
      msk  == (CodeTop - 1) \div 2 ^ l
      long == RoundUp(e.val, msk) + msk >= e.val + e.rng
      end  == IF long THEN RoundUp(e.val, msk \div 2) ELSE RoundUp(e.val, msk)
      out  == drain(e, end, IF long THEN l + 1 ELSE l)
      last == flushWindow(IF out.rem >= 0 \/ out.ext > 0 THEN carryOut(out, 0) ELSE out)
      free == last.storage - last.endOffs - 1
  IN  IF last.err # 0 \/ last.nendBits = 0 THEN last
      ELSE IF last.endOffs >= last.storage - last.offs THEN [last EXCEPT !.err = -1]
      ELSE [last EXCEPT !.buf[free] = last.endWindow]

ConsumedLen(e) == e.offs + e.endOffs

-----------------------------------------------------------------------------
(* RangeDecoder: what it reads past the end of the buffer is zero.         *)
readByte(d) ==
  <<IF d.offs < d.storage THEN d.buf[d.offs] ELSE 0,
    IF d.offs < d.storage THEN [d EXCEPT !.offs = @ + 1] ELSE d>>

readByteFromEnd(d) ==
  <<IF d.endOffs < d.storage THEN d.buf[d.storage - d.endOffs - 1] ELSE 0,
    IF d.endOffs < d.storage THEN [d EXCEPT !.endOffs = @ + 1] ELSE d>>

RECURSIVE normalizeDec(_)
normalizeDec(d) ==
  IF d.rng > CodeBot THEN d
  ELSE LET b   == readByte(d)
           sym == (d.rem * 2 ^ SymBits + b[1]) \div 2 ^ (SymBits - CodeExtra)
       IN  normalizeDec([b[2] EXCEPT
             !.nbitsTotal = @ + SymBits, !.rng = @ * 2 ^ SymBits, !.rem = b[1],
             !.val = Low(@ * 2 ^ SymBits + SymMax - Low(sym, SymBits), CodeBits - 1)])

NewRangeDecoder(buf, size) ==
  LET d == [buf |-> buf, storage |-> size, endOffs |-> 0, endWindow |-> 0, nendBits |-> 0,
            nbitsTotal |-> CodeBits + 1 - ((CodeBits - CodeExtra) \div SymBits) * SymBits,
            offs |-> 0, rng |-> 2 ^ CodeExtra, val |-> 0, ext |-> 0, rem |-> 0, err |-> 0]
      b == readByte(d)
  IN  normalizeDec([b[2] EXCEPT !.rem = b[1],
                                !.val = d.rng - 1 - b[1] \div 2 ^ (SymBits - CodeExtra)])

(* The cumulative frequency of the next symbol out of ft, and the unit the *)
(* range was divided into.                                                 *)
Decode(d, ft) ==
  LET unit == d.rng \div ft
  IN  IF unit = 0 THEN <<0, [d EXCEPT !.err = 1, !.ext = 1]>>
      ELSE <<ft - Min2(d.val \div unit + 1, ft), [d EXCEPT !.ext = unit]>>

Update(d, fl, fh, ft) ==
  LET s == d.ext * (ft - fh)
  IN  normalizeDec([d EXCEPT !.val = @ - s, !.rng = IF fl > 0 THEN d.ext * (fh - fl) ELSE @ - s])

DecodeUniform(d, ft) ==
  LET s == Decode(d, ft) IN <<s[1], Update(s[2], s[1], s[1] + 1, ft)>>

DecodeRawSymbol(d, nbits) == DecodeUniform(d, 2 ^ nbits)

DecBitLogp(d, logp) ==
  LET s == d.rng \div 2 ^ logp
  IN  IF d.val < s THEN <<1, normalizeDec([d EXCEPT !.rng = s])>>
      ELSE <<0, normalizeDec([d EXCEPT !.val = @ - s, !.rng = @ - s])>>

DecodeICDF(d) ==
  LET r    == d.rng \div 2 ^ Ftb
      stop == {k \in 1 .. Len(Icdf) : d.val >= r * Icdf[k] \/ k = Len(Icdf)}
      k    == CHOOSE k \in stop : \A j \in stop : k <= j
      top  == IF k = 1 THEN d.rng ELSE r * Icdf[k - 1]
  IN  <<k - 1, normalizeDec([d EXCEPT !.val = @ - r * Icdf[k], !.rng = top - r * Icdf[k]])>>

DecodeCDF(d) ==
  LET ft == Cdf[Len(Cdf)] - Cdf[1]
      t  == Decode(d, ft)
      k  == CHOOSE k \in 1 .. Len(Cdf) - 1 : Cdf[k] - Cdf[1] <= t[1] /\ t[1] < Cdf[k + 1] - Cdf[1]
  IN  <<k - 1, Update(t[2], Cdf[k] - Cdf[1], Cdf[k + 1] - Cdf[1], ft)>>

RECURSIVE fillWindow(_)
fillWindow(d) ==
  IF d.nendBits > CodeBits - SymBits THEN d
  ELSE LET b == readByteFromEnd(d)
       IN  fillWindow([b[2] EXCEPT !.endWindow = @ + b[1] * 2 ^ d.nendBits, !.nendBits = @ + SymBits])

DecBitsN(d, n) ==
  LET f == IF d.nendBits < n THEN fillWindow(d) ELSE d
  IN  <<Low(f.endWindow, n),
        [f EXCEPT !.endWindow = @ \div 2 ^ n, !.nendBits = @ - n, !.nbitsTotal = @ + n]>>

DecodeUint(d, ft0) ==
  LET ftb   == ilog(ft0 - 1)
      shift == ftb - UintBits
      high  == DecodeUniform(d, (ft0 - 1) \div 2 ^ shift + 1)
      low   == DecBitsN(high[2], shift)
      v     == high[1] * 2 ^ shift + low[1]
  IN  IF ftb <= UintBits THEN DecodeUniform(d, ft0)
      ELSE IF v <= ft0 - 1 THEN <<v, low[2]>>
      ELSE <<ft0 - 1, [low[2] EXCEPT !.err = 1]>>

Decode64FineSym(d) ==
  LET unit == d.rng \div 2 ^ FineBits
      sym  == 2 ^ FineBits - 1 - d.val \div unit
  IN  IF unit = 0 THEN <<0, [d EXCEPT !.err = 1, !.ext = 1]>>
      ELSE LET s == IF sym < 0 THEN 0 ELSE sym
           IN  <<s, Update([d EXCEPT !.ext = unit], s, s + 1, 2 ^ FineBits)>>

-----------------------------------------------------------------------------
(* The operations of a script, with the values they may carry.             *)
Operations ==
  [kind : {"bit"}, value : 0 .. 1, of : {1, 2}] \cup
  [kind : {"icdf"}, value : 0 .. Len(Icdf) - 1, of : {0}] \cup
  [kind : {"cdf"}, value : 0 .. Len(Cdf) - 2, of : {0}] \cup
  [kind : {"bits"}, value : {1, 5}, of : {3}] \cup
  [kind : {"uint"}, value : {0, 6}, of : {7}] \cup
  [kind : {"uint"}, value : {1}, of : {3}] \cup
  [kind : {"raw"}, value : {2}, of : {2}] \cup
  [kind : {"fine"}, value : {0, 2 ^ FineBits - 1}, of : {0}]

CoderInit ==
  /\ coding = "encode" /\ script = << >> /\ values = << >>
  /\ storage \in Storages
  /\ enc = NewRangeEncoder(storage) /\ dec = << >>

EncodeNext(op) ==
  /\ coding = "encode" /\ Len(script) < MaxOps
  /\ script' = Append(script, op)
  /\ enc' = CASE op.kind = "bit"  -> EncBitLogp(enc, op.value, op.of)
              [] op.kind = "icdf" -> EncodeICDF(enc, op.value)
              [] op.kind = "cdf"  -> EncodeCDF(enc, op.value)
              [] op.kind = "bits" -> EncBitsN(enc, op.value, op.of)
              [] op.kind = "uint" -> EncodeUint(enc, op.value, op.of)
              [] op.kind = "raw"  -> EncodeRawSymbol(enc, op.value, op.of)
              [] op.kind = "fine" -> Encode64FineSym(enc, op.value)
  /\ UNCHANGED <<coding, values, dec, storage>>

(* EncodeSmplFrame, which writes no raw bits, sends the consumed bytes;    *)
(* with raw bits the whole buffer has to be kept.                          *)
Payload(e) == IF e.endOffs = 0 /\ e.nendBits = 0 THEN ConsumedLen(e) ELSE storage

Flush ==
  /\ coding = "encode" /\ script # << >>
  /\ coding' = "decode"
  /\ enc' = Done(enc)
  /\ dec' = NewRangeDecoder(enc'.buf, Payload(enc'))
  /\ UNCHANGED <<script, values, storage>>

DecodeNext ==
  /\ coding = "decode" /\ enc.err = 0 /\ Len(values) < Len(script)
  /\ LET op == script[Len(values) + 1]
         out == CASE op.kind = "bit"  -> DecBitLogp(dec, op.of)
                  [] op.kind = "icdf" -> DecodeICDF(dec)
                  [] op.kind = "cdf"  -> DecodeCDF(dec)
                  [] op.kind = "bits" -> DecBitsN(dec, op.of)
                  [] op.kind = "uint" -> DecodeUint(dec, op.of)
                  [] op.kind = "raw"  -> DecodeRawSymbol(dec, op.of)
                  [] op.kind = "fine" -> Decode64FineSym(dec)
     IN  values' = Append(values, out[1]) /\ dec' = out[2]
  /\ UNCHANGED <<coding, script, enc, storage>>

CoderNext == (\E op \in Operations : EncodeNext(op)) \/ Flush \/ DecodeNext

CoderSpec == CoderInit /\ [][CoderNext]_coderVars

(* What was encoded without an error is decoded without one, value by      *)
(* value, and the two sides have counted the same bits: whatever mix of    *)
(* symbols and raw bits, carries through held-back symbols and full        *)
(* buffers (RangeEncoder.Err, RangeEncoder.Done, RangeDecoder).            *)
RoundTrip ==
  coding = "decode" /\ enc.err = 0 =>
    /\ dec.err = 0
    /\ \A i \in 1 .. Len(values) : values[i] = script[i].value
    /\ Len(values) = Len(script) => dec.nbitsTotal = enc.nbitsTotal /\ dec.rng = enc.rng
    /\ ConsumedLen(enc) <= storage

=================================================================================
