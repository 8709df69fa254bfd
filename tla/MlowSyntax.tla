------------------------------- MODULE MlowSyntax -------------------------------
(***************************************************************************)
(* What the analysis of the MLow codec decides for the three internal      *)
(* frames of a packet, what the encoder writes and what the decoder reads  *)
(* (media/mlow/analysis.go, encoder.go, lsf.go, pulse.go, gains.go,        *)
(* pitch.go): which symbol of which table comes when, and the predictors   *)
(* that the three keep each on its own.                                    *)
(* RangeCoder shows that symbols come out as they went in, so the body is  *)
(* a sequence of symbols here, each with the table it was coded with.  The *)
(* sizes of the code (80 samples to a subframe, 15 signs to a symbol, 64   *)
(* lags to a block) are parameters, one residual stands for sixteen, and   *)
(* grid 1 for the grid 16, which is relative to the frame before.          *)
(* The encoder writes a frame in one step: what its loops write is given   *)
(* as functions of the turn.  In the decoder, a turn of a loop is a step.  *)
(***************************************************************************)
EXTENDS Naturals, Integers, Sequences

CONSTANTS
  PosPer,        \* samples of a subframe: 80
  Granularity,   \* by stage-1 class: subfrLen16, the most pulses of a subframe
  HalfMax,       \* 80: the most pulses of half a frame
  SignBatch,     \* 15: signs of one raw symbol
  BlockSize,     \* 64: lags of a block
  Choices,       \* what the searches may find: see smplCandidate
  Excitations,   \* the excitations they may find
  MaxPulses      \* bound: pulses of two frames of a packet together

VARIABLES
  history, mirror,        \* SmplEncoderState (class and NLSF of the last frame), and its lstate
  params,                 \* SmplFrameParams
  sender, body,           \* the SmplLsfState of EncodeSmplFrame, and what it has written
  input,                  \* the RangeDecoder: a body, and how far it was read
  decoder,                \* SmplDecoderState
  frame, list,            \* what was read of a frame; posList and magList of DecodeSmplPulses
  turn, results           \* the decoder's place, with the locals of its loop; the frames decoded
syntaxVars ==
  <<history, mirror, params, sender, body, input, decoder, frame, list, turn, results>>

Subframes == 0 .. 3
Start(sf) == PosPer * sf
Positions == 0 .. 4 * PosPer - 1
Max0(x) == IF x < 0 THEN 0 ELSE x
Smaller(a, b) == IF a < b THEN a ELSE b
Abs(x) == IF x < 0 THEN -x ELSE x

(* The magnitude of an excitation before each position; of a subframe.     *)
Before(p) ==
  LET before[n \in 0 .. 4 * PosPer] == IF n = 0 THEN 0 ELSE before[n - 1] + Abs(p[n - 1])
  IN  before

Count(p, sf) == Before(p)[Start(sf + 1)] - Before(p)[Start(sf)]
Total(p) == Before(p)[4 * PosPer]

(* The position of the k-th unit of magnitude; the positions with pulses.  *)
Where(p, k) == CHOOSE q \in Positions : Before(p)[q] < k /\ k <= Before(p)[q + 1]
Support(p) == [q \in Positions |-> IF p[q] = 0 THEN 0 ELSE 1]

ASSUME SyntaxAssumption ==
  /\ {PosPer, SignBatch, BlockSize} \subseteq Nat \ {0} /\ HalfMax \in Nat
  /\ Granularity \in [{0, 1} -> Nat \ {0}] /\ \A class \in {0, 1} : 2 * Granularity[class] <= HalfMax
  /\ Excitations \subseteq [Positions -> Int]
  /\ \A c \in Choices :
       /\ c.grid \in {0, 1} /\ c.gain \in [Subframes -> Nat] /\ c.filt \in [Subframes -> Nat]
       /\ c.contour \in Seq(Nat) /\ c.contour # << >> /\ c.lag \in [1 .. Len(c.contour) -> Nat]

(* SmplReconstructNLSF: what the indices mean, given the frame before.     *)
Reconstruct(stage1, grid, residual, prev) ==
  <<stage1, residual, IF grid = 1 THEN prev ELSE << >> >>

(* The frame goes on with the class of the one before in the packet.       *)
Match(st, intf, stage1) == intf # 0 /\ stage1 = st.stage1

(* Mutant: the filter's predictor outlives a change of class.              *)
AdvanceLsfKeepingFilter(st, intf, stage1) ==
  IF Match(st, intf, stage1) THEN st
  ELSE [stage1 |-> stage1, gain |-> -1, filt |-> st.filt, blk |-> -1, idx |-> -1]

SmplAdvanceLsfState(st, intf, stage1) ==
  IF Match(st, intf, stage1) THEN st
  ELSE [stage1 |-> stage1, gain |-> -1, filt |-> -1, blk |-> -1, idx |-> -1]

(* The predictor after the lags of a frame: its last block and lag.        *)
Lag(f, k) == f.contour[k] * BlockSize + f.lag[k]

smplLagsPredictorAfter(st, f) ==
  [st EXCEPT !.blk = f.contour[Len(f.contour)], !.idx = Lag(f, Len(f.contour))]

-----------------------------------------------------------------------------
(* smplBuildPulseParams: the distance of each unit from the one before in  *)
(* the subframe, zero for a further unit of the same pulse; the signs.     *)
PreviousUnit(p, sf, j) ==
  IF j = 1 THEN Start(sf) ELSE Where(p, Before(p)[Start(sf)] + j - 1)

MagRuns(p, sf) ==
  [j \in 1 .. Count(p, sf) |-> Where(p, Before(p)[Start(sf)] + j) - PreviousUnit(p, sf, j)]

Signs(p) == [i \in 1 .. Total(Support(p)) |-> p[Where(Support(p), i)] > 0]

-----------------------------------------------------------------------------
(* The encoder.                                                            *)
FreshState == [stage1 |-> 0, gain |-> 0, filt |-> 0, blk |-> 0, idx |-> 0]

Symbol(table, sym) == [table |-> table, sym |-> sym]
If(cond, symbol) == IF cond THEN <<symbol>> ELSE << >>

Selector(st, intf) == IF intf = 0 THEN 0 ELSE IF st.stage1 # 0 THEN 2 ELSE 1

encodeSmplLsf(st, intf, f) ==
  <<Symbol(<<"stage1", Selector(st, intf)>>, f.stage1),
    Symbol(<<"grid", Match(st, intf, f.stage1), f.stage1 # 0>>, f.grid),
    Symbol(<<"stage2", f.stage1, f.grid>>, f.residual),
    Symbol(<<"extra">>, f.extra)>>

(* The cumulative frequency of a number of pulses, of 4 * Granularity.     *)
triT(l, k) == (k + 2) * (l + 1) - ((k - 1) * (k - 2)) \div 2

encodeCount(class, total) ==
  LET l == 4 * Granularity[class]
  IN  Symbol(<<"count", l>>, [from |-> IF total > 0 THEN triT(l, total - 1) ELSE 0,
                              to   |-> triT(l, total)])

(* How the pulses fall to the halves of the frame, and of each half.       *)
Least(class, total) == Max0(total - 2 * Granularity[class])
Lowest(total) == Max0(total - HalfMax)
TotalTable(class, total) ==
  <<"split", total, Least(class, total) - Lowest(total),
    total - Lowest(total) - Least(class, total) + 2>>

LeastOf(class, count) == Max0(count - Granularity[class])
MostOf(class, count) == Smaller(count, Granularity[class])
HalfTable(class, count) ==
  <<"split", count, LeastOf(class, count), MostOf(class, count) - LeastOf(class, count) + 2>>

encodeSplit3537(class, count, s0) ==
  If(MostOf(class, count) > LeastOf(class, count),
     Symbol(HalfTable(class, count), s0 - LeastOf(class, count)))

encodeSplits(class, p) ==
  LET first == Count(p, 0) + Count(p, 1)
      rest  == Total(p) - first
  IN  IF Total(p) = 0 \/ Least(class, Total(p)) < Lowest(Total(p)) THEN << >>
      ELSE If(Least(class, Total(p)) < Total(p) - Lowest(Total(p)),
              Symbol(TotalTable(class, Total(p)), first - Least(class, Total(p))))
           \o (IF first > 0 THEN encodeSplit3537(class, first, Count(p, 0)) ELSE << >>)
           \o (IF rest > 0 THEN encodeSplit3537(class, rest, Count(p, 2)) ELSE << >>)

(* The table of a run depends on the positions and the units left.         *)
encodeRuns(p, sf) ==
  [j \in 1 .. Count(p, sf) |->
     Symbol(<<"run", Start(sf + 1) - PreviousUnit(p, sf, j), Count(p, sf) - j + 1>>,
            MagRuns(p, sf)[j])]

encodeSigns(p) ==
  LET signs == Signs(p)
      n     == Total(Support(p))
      from(b) == SignBatch * (b - 1)
      len(b)  == Smaller(SignBatch, n - from(b))
  IN  [b \in 1 .. (n + SignBatch - 1) \div SignBatch |->
         Symbol(<<"raw", len(b)>>, [i \in 1 .. len(b) |-> signs[from(b) + i]])]

encodeSmplPulses(class, p) ==
  <<encodeCount(class, Total(p))>> \o encodeSplits(class, p)
  \o encodeRuns(p, 0) \o encodeRuns(p, 1) \o encodeRuns(p, 2) \o encodeRuns(p, 3)
  \o encodeSigns(p)

(* A gain and, with pulses, a filter for a subframe.                       *)
FilterTable(filt) == IF filt = -1 THEN <<"filt">> ELSE <<"filtDelta", filt>>

encodeGain(st, f, sf) ==
  <<Symbol(<<"gain", st.gain>>, f.gain[sf])>>
  \o If(Count(f.pulses, sf) > 0, Symbol(FilterTable(st.filt), f.filt[sf]))

GainCoded(st, f, sf) ==
  [st EXCEPT !.gain = f.gain[sf], !.filt = IF Count(f.pulses, sf) > 0 THEN f.filt[sf] ELSE @]

GainsCoded(st, f) == GainCoded(GainCoded(GainCoded(GainCoded(st, f, 0), f, 1), f, 2), f, 3)

encodeGains(st, f) ==
  LET s1 == GainCoded(st, f, 0) s2 == GainCoded(s1, f, 1) s3 == GainCoded(s2, f, 2)
  IN  encodeGain(st, f, 0) \o encodeGain(s1, f, 1) \o encodeGain(s2, f, 2) \o encodeGain(s3, f, 3)

(* The mean of the four gains selects the table of the lags.               *)
Mode(gain) == gain

encodeContour(st, f) ==
  IF st.blk < 0 THEN <<Symbol(<<"contour">>, f.contour)>>
  ELSE <<Symbol(<<"block", st.blk>>, f.contour[1]), Symbol(<<"contourOf", f.contour[1]>>, f.contour)>>

(* The first lag is coded on its own, unless its block is near the last;   *)
(* the others relative to the one before.                                  *)
Fine(st, f) == ~(st.blk > -1 /\ f.contour[1] - st.blk \in -1 .. 2)

encodeLag(st, f, k) ==
  LET prevBlk == IF k = 1 THEN st.blk ELSE f.contour[k - 1]
      prevIdx == IF k = 1 THEN st.idx ELSE Lag(f, k - 1)
      deltaRangeStart == -(prevIdx - prevBlk * BlockSize) + (f.contour[k] - prevBlk) * BlockSize
  IN  Symbol(<<"delta", Mode(f.gain), deltaRangeStart + 2 * BlockSize - 1>>,
             Lag(f, k) - prevIdx - deltaRangeStart)

encodeLags(st, f) ==
  LET before == IF Fine(st, f) THEN 1 ELSE 0
  IN  [k \in 1 .. Len(f.contour) - before |-> encodeLag(st, f, k + before)]

encodeLagsWire(st, f) ==
  encodeContour(st, f) \o If(Fine(st, f), Symbol(<<"fine">>, Lag(f, 1) - f.contour[1] * BlockSize))
  \o encodeLags(st, f)

encodeSmplPitch(st, f) == encodeGains(st, f) \o encodeLagsWire(GainsCoded(st, f), f)

(* Main and delta gain, then a residual for each subframe with pulses.     *)
encodeResidual(f, sf) ==
  If(Count(f.pulses, sf) > 0,
     Symbol(<<"nrgRes", Count(f.pulses, sf), sf, f.main, f.delta>>, f.nrg[sf]))

encodeSmplGains(f) ==
  <<Symbol(<<"gainMain">>, f.main), Symbol(<<"gainDelta">>, f.delta)>>
  \o encodeResidual(f, 0) \o encodeResidual(f, 1) \o encodeResidual(f, 2) \o encodeResidual(f, 3)

(* A frame of EncodeSmplFrame, and the state after it.                     *)
FrameSymbols(st, intf, f) ==
  LET r == SmplAdvanceLsfState(st, intf, f.stage1)
  IN  encodeSmplLsf(st, intf, f) \o encodeSmplPulses(f.stage1, f.pulses)
      \o (IF f.stage1 = 1 THEN encodeSmplPitch(r, f) ELSE encodeSmplGains(f))

FrameCoded(st, intf, f) ==
  LET r == SmplAdvanceLsfState(st, intf, f.stage1)
  IN  IF f.stage1 = 1 THEN smplLagsPredictorAfter(GainsCoded(r, f), f) ELSE r

-----------------------------------------------------------------------------
(* The decoder.  Asking for a symbol of another table than it was coded    *)
(* with is the end of any sense.                                           *)
Blank ==
  [stage1 |-> 0, grid |-> 0, residual |-> 0, extra |-> 0, nlsf |-> << >>, total |-> 0, sum |-> 0,
   split |-> [sf \in Subframes |-> 0], gain |-> [sf \in Subframes |-> 0],
   filt |-> [sf \in Subframes |-> -1], contour |-> << >>, lags |-> << >>,
   main |-> 0, delta |-> 0, nrg |-> [sf \in Subframes |-> 0]]

NoTurn == [at |-> "lsf", sf |-> 0, left |-> 0, first |-> TRUE, pos |-> 0, runPos |-> 0, n |-> 0]

(* What a packet before may have left.                                     *)
Leftover(k) == [stage1 |-> 1, gain |-> k, filt |-> k, lag |-> k, frac |-> k, nlsf |-> <<"before">>]

Coming(i, table) ==
  input.at + i <= Len(input.body) /\ input.body[input.at + i].table = table
Got(i) == input.body[input.at + i].sym

At(place) == turn.at = place /\ input.ok
Take(n) == input' = [input EXCEPT !.at = @ + n]
Lost == input' = [input EXCEPT !.ok = FALSE] /\ UNCHANGED <<decoder, frame, list, turn, results>>
GoTo(place) == turn' = [NoTurn EXCEPT !.at = place]

DecodeSmplLsf ==
  /\ At("lsf") /\ Len(results) < 3
  /\ LET intf   == Len(results)
         stage1 == Got(1)
         m      == intf # 0 /\ stage1 = decoder.stage1
     IN  IF /\ Coming(1, <<"stage1", IF intf = 0 THEN 0 ELSE IF decoder.stage1 # 0 THEN 2 ELSE 1>>)
            /\ Coming(2, <<"grid", m, stage1 # 0>>)
            /\ Coming(3, <<"stage2", stage1, Got(2)>>)
            /\ Coming(4, <<"extra">>)
         THEN /\ Take(4) /\ GoTo("count")
              /\ frame' = [Blank EXCEPT !.stage1 = stage1, !.grid = Got(2),
                                        !.residual = Got(3), !.extra = Got(4)]
              /\ list' = << >>
              /\ decoder' = IF m THEN decoder
                            ELSE [decoder EXCEPT !.stage1 = stage1, !.gain = -1, !.filt = -1,
                                                 !.lag = -1, !.frac = -1]
              /\ UNCHANGED results
         ELSE Lost

(* The number of pulses whose interval the coded value falls into.         *)
PulseCount(l, v) ==
  CHOOSE k \in 0 .. l + 1 :
    /\ k = l + 1 \/ v < triT(l, k)
    /\ \A j \in 0 .. k - 1 : v >= triT(l, j)

decodeCount ==
  /\ At("count")
  /\ LET l     == 4 * Granularity[frame.stage1]
         total == PulseCount(l, Got(1).from)
     IN  IF Coming(1, <<"count", l>>) /\ PulseCount(l, Got(1).to - 1) = total
         THEN /\ Take(1)
              /\ frame' = [frame EXCEPT !.total = total]
              /\ GoTo(IF total = 0 \/ Least(frame.stage1, total) < Lowest(total)
                      THEN "signs" ELSE "total")
              /\ UNCHANGED <<decoder, list, results>>
         ELSE Lost

decodeTotal ==
  /\ At("total")
  /\ LET low  == Least(frame.stage1, frame.total)
         read == low < frame.total - Lowest(frame.total)
     IN  IF read => Coming(1, TotalTable(frame.stage1, frame.total))
         THEN /\ Take(IF read THEN 1 ELSE 0)
              /\ frame' = [frame EXCEPT !.sum = low + IF read THEN Got(1) ELSE 0]
              /\ GoTo("halves")
              /\ UNCHANGED <<decoder, list, results>>
         ELSE Lost

(* The first subframe with pulses from sf on, if there is one.             *)
RunsOf(split, sf) ==
  LET later == {s \in sf .. 3 : split[s] > 0}
      next  == CHOOSE s \in later : \A t \in later : s <= t
  IN  IF later = {} THEN [NoTurn EXCEPT !.at = "signs"]
      ELSE [NoTurn EXCEPT !.at = "runs", !.sf = next, !.left = split[next],
                          !.pos = PosPer, !.runPos = Start(next)]

(* A half of count pulses: is a symbol read, and what it makes.            *)
HalfRead(count) == count > 0 /\ MostOf(frame.stage1, count) > LeastOf(frame.stage1, count)

smplSplit3537(count, sym) ==
  IF count = 0 THEN 0
  ELSE IF MostOf(frame.stage1, count) < LeastOf(frame.stage1, count) THEN -1
  ELSE LeastOf(frame.stage1, count) + sym

decodeSplits ==
  /\ At("halves")
  /\ LET rest   == frame.total - frame.sum
         first  == HalfRead(frame.sum)
         second == HalfRead(rest)
         next   == IF first THEN 2 ELSE 1
         s0     == smplSplit3537(frame.sum, IF first THEN Got(1) ELSE 0)
         s2     == smplSplit3537(rest, IF second THEN Got(next) ELSE 0)
         split  == IF s0 = -1 \/ s2 = -1 THEN Blank.split
                   ELSE [sf \in Subframes |-> <<s0, frame.sum - s0, s2, rest - s2>>[sf + 1]]
     IN  IF /\ first => Coming(1, HalfTable(frame.stage1, frame.sum))
            /\ second => Coming(next, HalfTable(frame.stage1, rest))
         THEN /\ Take((IF first THEN 1 ELSE 0) + (IF second THEN 1 ELSE 0))
              /\ frame' = [frame EXCEPT !.split = split]
              /\ turn' = RunsOf(split, 0)
              /\ UNCHANGED <<decoder, list, results>>
         ELSE Lost

(* A run other than zero begins a pulse, zero adds to the one before.      *)
ReadRun ==
  /\ At("runs")
  /\ LET run  == Got(1)
         new  == run > 0 \/ turn.first
         pos  == IF new THEN turn.pos - run ELSE turn.pos
         here == turn.runPos + run
     IN  IF Coming(1, <<"run", turn.pos, turn.left>>)
         THEN /\ Take(1)
              /\ list' = IF new THEN Append(list, [pos |-> here, mag |-> 1])
                         ELSE [list EXCEPT ![Len(list)].mag = @ + 1]
              /\ turn' = IF turn.left = 1 \/ pos < 0 THEN RunsOf(frame.split, turn.sf + 1)
                         ELSE [turn EXCEPT !.left = @ - 1, !.first = FALSE, !.pos = pos,
                                           !.runPos = IF new THEN here ELSE @]
              /\ UNCHANGED <<decoder, frame, results>>
         ELSE Lost

(* turn.n signs have been read; the excitation is complete with the last.  *)
ReadSigns ==
  /\ At("signs")
  /\ LET n   == Smaller(SignBatch, Len(list) - turn.n)
         sym == Got(1)
     IN  IF n = 0 THEN GoTo(IF frame.stage1 = 1 THEN "gains" ELSE "main")
                       /\ UNCHANGED <<input, decoder, frame, list, results>>
         ELSE IF Coming(1, <<"raw", n>>)
         THEN /\ Take(1)
              /\ list' = [q \in 1 .. Len(list) |->
                            IF q \in turn.n + 1 .. turn.n + n /\ ~sym[q - turn.n]
                            THEN [list[q] EXCEPT !.mag = -@] ELSE list[q]]
              /\ turn' = [turn EXCEPT !.n = @ + n]
              /\ UNCHANGED <<decoder, frame, results>>
         ELSE Lost

(* The turn of subframe turn.sf in the loop of DecodeSmplPitch.            *)
ReadGain ==
  /\ At("gains")
  /\ LET used == frame.split[turn.sf] > 0
     IN  IF /\ Coming(1, <<"gain", decoder.gain>>)
            /\ used => Coming(2, FilterTable(decoder.filt))
         THEN /\ Take(IF used THEN 2 ELSE 1)
              /\ decoder' = [decoder EXCEPT !.gain = Got(1), !.filt = IF used THEN Got(2) ELSE @]
              /\ frame' = [frame EXCEPT !.gain[turn.sf] = Got(1),
                                        !.filt[turn.sf] = IF used THEN Got(2) ELSE @]
              /\ turn' = IF turn.sf = 3 THEN [NoTurn EXCEPT !.at = "contour"]
                         ELSE [turn EXCEPT !.sf = @ + 1]
              /\ UNCHANGED <<list, results>>
         ELSE Lost

ReadContour ==
  /\ At("contour")
  /\ LET fresh   == decoder.lag < 0
         n       == IF fresh THEN 1 ELSE 2
         contour == Got(n)
     IN  IF IF fresh THEN Coming(1, <<"contour">>)
            ELSE Coming(1, <<"block", decoder.lag>>) /\ Coming(2, <<"contourOf", Got(1)>>)
         THEN /\ Take(n)
              /\ frame' = [frame EXCEPT !.contour = contour]
              /\ GoTo(IF decoder.lag >= 0 /\ contour[1] - decoder.lag \in -1 .. 2
                      THEN "lags" ELSE "fine")
              /\ UNCHANGED <<decoder, list, results>>
         ELSE Lost

(* The lag of the block after those that were read.                        *)
NextLag(lag, blk) ==
  /\ decoder' = [decoder EXCEPT !.frac = lag, !.lag = blk]
  /\ frame' = [frame EXCEPT !.lags = Append(@, lag)]

ReadFine ==
  /\ At("fine")
  /\ IF Coming(1, <<"fine">>)
     THEN /\ Take(1) /\ NextLag(frame.contour[1] * BlockSize + Got(1), frame.contour[1])
          /\ GoTo("lags") /\ UNCHANGED <<list, results>>
     ELSE Lost

ReadLag ==
  /\ At("lags")
  /\ LET segLag == frame.contour[Len(frame.lags) + 1]
         nl2    == segLag * BlockSize - decoder.frac
     IN  IF Len(frame.lags) = Len(frame.contour)
         THEN GoTo("nlsf") /\ UNCHANGED <<input, decoder, frame, list, results>>
         ELSE IF Coming(1, <<"delta", Mode(frame.gain), nl2 + 2 * BlockSize - 1>>)
         THEN /\ Take(1) /\ NextLag(Got(1) + decoder.frac + nl2, segLag)
              /\ UNCHANGED <<list, turn, results>>
         ELSE Lost

DecodeSmplGains ==
  /\ At("main")
  /\ IF Coming(1, <<"gainMain">>) /\ Coming(2, <<"gainDelta">>)
     THEN /\ Take(2)
          /\ frame' = [frame EXCEPT !.main = Got(1), !.delta = Got(2)]
          /\ GoTo("residuals") /\ UNCHANGED <<decoder, list, results>>
     ELSE Lost

ReadResidual ==
  /\ At("residuals")
  /\ LET count == frame.split[turn.sf]
     IN  IF count > 0 => Coming(1, <<"nrgRes", count, turn.sf, frame.main, frame.delta>>)
         THEN /\ Take(IF count > 0 THEN 1 ELSE 0)
              /\ frame' = [frame EXCEPT !.nrg[turn.sf] = IF count > 0 THEN Got(1) ELSE @]
              /\ turn' = IF turn.sf = 3 THEN [NoTurn EXCEPT !.at = "nlsf"]
                         ELSE [turn EXCEPT !.sf = @ + 1]
              /\ UNCHANGED <<decoder, list, results>>
         ELSE Lost

(* The end of a turn of decodeActiveFrame.                                 *)
decodeActiveFrame ==
  /\ At("nlsf")
  /\ LET nlsf == Reconstruct(frame.stage1, frame.grid, frame.residual, decoder.nlsf)
     IN  /\ decoder' = [decoder EXCEPT !.nlsf = nlsf]
         /\ results' = Append(results, [frame |-> [frame EXCEPT !.nlsf = nlsf], list |-> list])
  /\ GoTo("lsf") /\ UNCHANGED <<input, frame, list>>

(* The pulses at their positions.                                          *)
Scatter(pulses) ==
  [q \in Positions |->
     IF \E i \in 1 .. Len(pulses) : pulses[i].pos = q
     THEN pulses[CHOOSE i \in 1 .. Len(pulses) : pulses[i].pos = q].mag ELSE 0]

DecodeNextSymbols ==
  /\ \/ DecodeSmplLsf \/ decodeCount \/ decodeTotal \/ decodeSplits \/ ReadRun \/ ReadSigns
     \/ ReadGain \/ ReadContour \/ ReadFine \/ ReadLag \/ DecodeSmplGains \/ ReadResidual
     \/ decodeActiveFrame
  /\ UNCHANGED <<history, mirror, params, sender, body>>

-----------------------------------------------------------------------------
(* The analysis of the next internal frame.                                *)

(* quantize codes the frame relative to the one before when both have the  *)
(* same class and are of the same packet.                                  *)
quantize(class, grid) == IF history.voiced = class /\ Len(params) > 0 THEN grid ELSE 0

(* What the search finds: one of the choices, and pulses.                  *)
smplCandidate(class, pulses, c) ==
  [stage1 |-> class, grid |-> quantize(class, c.grid), residual |-> c.residual, extra |-> c.extra,
   nlsf |-> Reconstruct(class, quantize(class, c.grid), c.residual, history.nlsf),
   pulses |-> pulses, gain |-> c.gain, filt |-> c.filt, contour |-> c.contour, lag |-> c.lag,
   main |-> c.main, delta |-> c.delta, nrg |-> c.nrg]

(* The last filter of a frame, if a subframe has pulses, and its last gain.*)
smplReplayPitchState(st, f) ==
  LET used == {sf \in Subframes : Count(f.pulses, sf) > 0}
      last == CHOOSE sf \in used : \A s \in used : s <= sf
  IN  smplLagsPredictorAfter(
        [st EXCEPT !.gain = f.gain[3], !.filt = IF used = {} THEN @ ELSE f.filt[last]], f)

(* The mirror of the encoder's predictors, and what the next frame may be  *)
(* relative to.                                                            *)
smplAnalyzeInternal(f) ==
  LET st == SmplAdvanceLsfState(mirror, Len(params), f.stage1)
  IN  /\ mirror' = IF f.stage1 = 1 THEN smplReplayPitchState(st, f) ELSE st
      /\ history' = [voiced |-> f.stage1, nlsf |-> f.nlsf]

(* The encoder's history has the class of the last packet.                 *)
SyntaxInit ==
  /\ history \in [voiced : {0, 1}, nlsf : {<< >>}] /\ mirror = FreshState
  /\ params = << >> /\ sender = FreshState /\ body = << >>
  /\ input = [body |-> << >>, at |-> 0, ok |-> TRUE]
  /\ decoder \in {Leftover(k) : k \in {-1, 1}}
  /\ frame = Blank /\ list = << >> /\ turn = NoTurn /\ results = << >>

AnalyzeAndEncode(class, pulses, c) ==
  /\ Len(params) < 3
  /\ \A sf \in Subframes : Count(pulses, sf) <= Granularity[class]
  /\ \A i \in 1 .. Len(params) : Total(pulses) + Total(params[i].pulses) <= MaxPulses
  /\ LET f == smplCandidate(class, pulses, c)
     IN  /\ params' = Append(params, f)
         /\ smplAnalyzeInternal(f)
         /\ body' = body \o FrameSymbols(sender, Len(params), f)
         /\ sender' = FrameCoded(sender, Len(params), f)
  /\ UNCHANGED <<input, decoder, frame, list, turn, results>>

(* The body of a packet reaches the decoder.                               *)
SendBody ==
  /\ Len(params) = 3 /\ input.body = << >>
  /\ input' = [input EXCEPT !.body = body]
  /\ UNCHANGED <<history, mirror, params, sender, body, decoder, frame, list, turn, results>>

SyntaxNext ==
  \/ \E class \in {0, 1}, pulses \in Excitations, c \in Choices : AnalyzeAndEncode(class, pulses, c)
  \/ SendBody
  \/ input.body # << >> /\ DecodeNextSymbols

SyntaxSpec == SyntaxInit /\ [][SyntaxNext]_syntaxVars

(* Every symbol is asked for from the table it was coded with, and the     *)
(* decoder ends with the parameters the encoder was given and an empty     *)
(* body, whatever it was left with by the packet before; what a frame is   *)
(* relative to is the same for both; and the analysis, which may use the   *)
(* predictors before they are written, has the encoder's after each frame  *)
(* (smplAnalyzeInternal, EncodeSmplFrame, decodeActiveFrame).              *)
FramesAgree ==
  /\ input.ok
  /\ mirror = sender
  /\ \A i \in 1 .. Len(results) :
       LET f == params[i] r == results[i].frame
       IN  /\ r.stage1 = f.stage1 /\ r.grid = f.grid /\ r.residual = f.residual
           /\ r.extra = f.extra /\ r.nlsf = f.nlsf
           /\ Scatter(results[i].list) = f.pulses
           /\ \A sf \in Subframes : r.split[sf] = Count(f.pulses, sf)
           /\ f.stage1 = 1 =>
                /\ r.gain = f.gain /\ r.contour = f.contour
                /\ r.filt = [sf \in Subframes |-> IF Count(f.pulses, sf) > 0 THEN f.filt[sf] ELSE -1]
                /\ r.lags = [k \in 1 .. Len(f.contour) |-> Lag(f, k)]
           /\ f.stage1 = 0 =>
                /\ r.main = f.main /\ r.delta = f.delta
                /\ \A sf \in Subframes : Count(f.pulses, sf) > 0 => r.nrg[sf] = f.nrg[sf]
  /\ Len(results) = 3 => input.at = Len(input.body)
=================================================================================
