--------------------------- MODULE MlowSyntaxProofs ---------------------------
(***************************************************************************)
(* Proofs about MlowSyntax, for all sizes and whatever the searches of the *)
(* analysis find: every symbol is asked for from the table it was coded    *)
(* with, the frames come out as they went in, and the analysis predicts    *)
(* from what the encoder predicts from.                                    *)
(*                                                                         *)
(* The invariant says where in the body the decoder is.  What is left of   *)
(* the body is put together from the end: x are the symbols of the later   *)
(* frames, FromGain2(f, s, x) those from the gain of subframe 2 of frame f *)
(* on, and AtGains(f, s, x, y) the state in which exactly these are left.  *)
(* A step at a place takes the first symbols of what is left, so they are  *)
(* of the table it asks for, and leads to the next place.                  *)
(*                                                                         *)
(* In the order of the module: induction, the sums of magnitudes, and      *)
(* sequences; what an excitation, a number of pulses, a split and a batch  *)
(* of signs are made of; what was read of a frame; the predictors; the     *)
(* body, taken apart; the places in a frame, with a lemma for each step;   *)
(* the steps between frames; the encoder; the invariant.                   *)
(***************************************************************************)
EXTENDS MlowSyntax, SequenceTheorems, WellFoundedInduction, TLAPS
(* Induction over the naturals, for a set instead of a predicate.          *)
LessThan == {ss \in Nat \X Nat : ss[1] < ss[2]}

LEMMA NaturalsAll ==
  ASSUME NEW S, 0 \in S, \A n \in Nat : n \in S => n + 1 \in S
  PROVE  Nat \subseteq S
<1> DEFINE T == Nat \ S
<1> SUFFICES ASSUME T # {} PROVE FALSE
  OBVIOUS
<1>1. PICK x \in T : \A y \in T : ~(<<y, x>> \in LessThan)
  <2>1. IsWellFoundedOn(LessThan, Nat)
    BY NatLessThanWellFounded DEF LessThan, OpToRel
  <2>2. T \subseteq Nat
    OBVIOUS
  <2> HIDE DEF T
  <2> QED BY <2>1, <2>2, WFMin, Zenon
<1>2. x - 1 \in Nat /\ x - 1 \notin S
  OBVIOUS
<1>3. <<x - 1, x>> \in LessThan /\ x - 1 \in T
  BY <1>2 DEF LessThan
<1> QED BY <1>1, <1>3

-----------------------------------------------------------------------------
(* The sums of magnitudes.                                                 *)
Sums(p) == {b \in [0 .. 4 * PosPer -> Nat] :
              b[0] = 0 /\ \A n \in Positions : b[n + 1] = b[n] + Abs(p[n])}

LEMMA PosFacts == PosPer \in Nat /\ PosPer > 0 /\ SignBatch \in Nat /\ SignBatch > 0
BY SyntaxAssumption

LEMMA AbsNat == ASSUME NEW x \in Int PROVE Abs(x) \in Nat /\ (Abs(x) = 0 <=> x = 0)
BY DEF Abs

LEMMA SumsExist == ASSUME NEW p \in [Positions -> Int] PROVE \E b \in Sums(p) : TRUE
<1> DEFINE N == 4 * PosPer
           Good(m) == \E b \in [0 .. N -> Nat] :
                        b[0] = 0 /\ \A n \in Positions : n < m => b[n + 1] = b[n] + Abs(p[n])
           S == {m \in Nat : m <= N => Good(m)}
<1>1. N \in Nat /\ Positions = 0 .. N - 1
  BY PosFacts DEF Positions
<1> HIDE DEF N
<1>2. 0 \in S
  <2>1. \E b \in [0 .. N -> Nat] : b[0] = 0
    <3>1. [n \in 0 .. N |-> 0] \in [0 .. N -> Nat] /\ [n \in 0 .. N |-> 0][0] = 0
      BY <1>1
    <3> QED BY <3>1
  <2> QED BY <1>1, <2>1
<1>3. ASSUME NEW m \in Nat, m \in S PROVE m + 1 \in S
  <2> SUFFICES ASSUME m + 1 <= N PROVE Good(m + 1)
    OBVIOUS
  <2>1. PICK b \in [0 .. N -> Nat] : b[0] = 0 /\ \A n \in Positions : n < m => b[n + 1] = b[n] + Abs(p[n])
    BY <1>1, <1>3
  <2>2. m \in Positions /\ p[m] \in Int
    BY <1>1
  <2>3. Abs(p[m]) \in Nat
    BY <2>2, AbsNat
  <2>4. PICK v \in Nat : v = b[m] + Abs(p[m])
    BY <2>3, <1>1
  <2> DEFINE c == [b EXCEPT ![m + 1] = v]
  <2>5. c \in [0 .. N -> Nat] /\ c[0] = 0
    BY <1>1, <2>1
  <2>6. ASSUME NEW n \in Positions, n < m + 1 PROVE c[n + 1] = c[n] + Abs(p[n])
    BY <1>1, <2>1, <2>4, <2>6
  <2> QED BY <2>5, <2>6
<1>4. N \in S
  <2> HIDE DEF S
  <2> QED BY <1>1, <1>2, <1>3, NaturalsAll
<1>5. PICK b \in [0 .. N -> Nat] : b[0] = 0 /\ \A n \in Positions : b[n + 1] = b[n] + Abs(p[n])
  BY <1>1, <1>4
<1> QED BY <1>5 DEF Sums, N

(* Before is defined by recursion: its values are the sums.                *)
LEMMA BeforeSums == ASSUME NEW p \in [Positions -> Int] PROVE Before(p) \in Sums(p)
<1> DEFINE F(b) == [n \in 0 .. 4 * PosPer |-> IF n = 0 THEN 0 ELSE b[n - 1] + Abs(p[n - 1])]
<1>1. PICK b \in Sums(p) : TRUE
  BY SumsExist
<1>2. b = F(b)
  <2>1. ASSUME NEW n \in 0 .. 4 * PosPer PROVE b[n] = F(b)[n]
    <3>1. CASE n = 0
      BY <3>1, PosFacts DEF Sums
    <3>2. CASE n # 0
      <4>1. n - 1 \in Positions /\ (n - 1) + 1 = n
        BY <3>2, PosFacts DEF Positions
      <4> QED BY <3>2, <4>1 DEF Sums
    <3> QED BY <3>1, <3>2
  <2> QED BY <2>1 DEF Sums
<1>3. Before(p) = F(Before(p))
  <2>1. Before(p) = CHOOSE c : c = F(c)
    BY DEF Before
  <2> HIDE DEF F
  <2> QED BY <2>1, <1>2
<1> PICK c : c = Before(p)
  OBVIOUS
<1>4. \A n \in 0 .. 4 * PosPer : c[n] = IF n = 0 THEN 0 ELSE c[n - 1] + Abs(p[n - 1])
  <2>1. c = F(c)
    BY <1>3
  <2>2. \A n \in 0 .. 4 * PosPer : F(c)[n] = IF n = 0 THEN 0 ELSE c[n - 1] + Abs(p[n - 1])
    OBVIOUS
  <2> HIDE DEF F
  <2> QED BY <2>1, <2>2
<1>5. c[0] = 0 /\ \A n \in Positions : c[n + 1] = c[n] + Abs(p[n])
  <2>1. ASSUME NEW n \in Positions PROVE c[n + 1] = c[n] + Abs(p[n])
    BY <1>4, PosFacts DEF Positions
  <2> QED BY <2>1, <1>4, PosFacts
<1>6. ASSUME NEW n \in 0 .. 4 * PosPer PROVE c[n] \in Nat
  <2> DEFINE S == {m \in Nat : m <= 4 * PosPer => c[m] \in Nat}
  <2>1. 0 \in S
    BY <1>5
  <2>2. ASSUME NEW m \in Nat, m \in S PROVE m + 1 \in S
    <3> SUFFICES ASSUME m + 1 <= 4 * PosPer PROVE c[m + 1] \in Nat
      OBVIOUS
    <3>1. m \in Positions /\ p[m] \in Int
      BY PosFacts DEF Positions
    <3>2. Abs(p[m]) \in Nat
      BY <3>1, AbsNat
    <3>3. c[m] \in Nat
      BY <2>2, <3>1, PosFacts DEF Positions
    <3>4. c[m + 1] = c[m] + Abs(p[m])
      BY <3>1, <1>5
    <3> QED BY <3>2, <3>3, <3>4
  <2> HIDE DEF S
  <2>3. n \in S
    BY <2>1, <2>2, NaturalsAll
  <2> QED BY <2>3 DEF S
<1>7. c \in [0 .. 4 * PosPer -> Nat]
  <2>1. c = F(c)
    BY <1>3
  <2>2. DOMAIN F(c) = 0 .. 4 * PosPer /\ F(c) = [n \in DOMAIN F(c) |-> F(c)[n]]
    OBVIOUS
  <2> HIDE DEF F
  <2> QED BY <2>1, <2>2, <1>6
<1> QED BY <1>5, <1>7 DEF Sums
(* A sequence, whatever its elements are.                                  *)
IsSeq(s) == s \in Seq({s[j] : j \in DOMAIN s})

LEMMA ASeq == ASSUME NEW T, NEW s \in Seq(T) PROVE IsSeq(s)
<1> DEFINE R == {s[j] : j \in DOMAIN s}
<1>1. Len(s) \in Nat /\ s \in [1 .. Len(s) -> T] /\ DOMAIN s = 1 .. Len(s)
  BY LenProperties
<1>2. s \in [1 .. Len(s) -> R]
  BY <1>1, Zenon
<1> HIDE DEF R
<1>3. s \in Seq(R)
  BY <1>1, <1>2, SeqDef
<1> QED BY <1>3 DEF IsSeq, R

LEMMA SeqFacts ==
  ASSUME NEW s, IsSeq(s)
  PROVE  Len(s) \in Nat /\ DOMAIN s = 1 .. Len(s)
BY LenProperties DEF IsSeq

(* A function from 1 .. n is a sequence.                                   *)
LEMMA FunctionSeq ==
  ASSUME NEW n \in Nat, NEW T, NEW s \in [1 .. n -> T]
  PROVE  IsSeq(s) /\ Len(s) = n
<1>1. s \in Seq(T)
  BY SeqDef
<1>2. IsSeq(s) /\ Len(s) \in Nat /\ DOMAIN s = 1 .. Len(s) /\ DOMAIN s = 1 .. n
  BY <1>1, ASeq, LenProperties
<1> QED BY <1>2

LEMMA SameSeq ==
  ASSUME NEW s, NEW t, IsSeq(s), IsSeq(t), Len(s) = Len(t), \A j \in 1 .. Len(s) : s[j] = t[j]
  PROVE  s = t
<1> DEFINE U == {s[j] : j \in DOMAIN s} \cup {t[j] : j \in DOMAIN t}
<1>1. s \in Seq(U) /\ t \in Seq(U)
  <2>1. s \in Seq({s[j] : j \in DOMAIN s}) /\ t \in Seq({t[j] : j \in DOMAIN t})
    BY DEF IsSeq
  <2> QED BY <2>1, SeqMonotonic, Zenon
<1> HIDE DEF U
<1> QED BY <1>1, SeqEqual

(* The elements of two sequences, one after the other.                     *)
LEMMA Concat ==
  ASSUME NEW s, NEW t, IsSeq(s), IsSeq(t)
  PROVE  /\ IsSeq(s \o t) /\ Len(s \o t) = Len(s) + Len(t)
         /\ \A j \in 1 .. Len(s) : (s \o t)[j] = s[j]
         /\ \A j \in 1 .. Len(t) : (s \o t)[Len(s) + j] = t[j]
<1> DEFINE U == {s[j] : j \in DOMAIN s} \cup {t[j] : j \in DOMAIN t}
<1>1. s \in Seq(U) /\ t \in Seq(U)
  <2>1. s \in Seq({s[j] : j \in DOMAIN s}) /\ t \in Seq({t[j] : j \in DOMAIN t})
    BY DEF IsSeq
  <2> QED BY <2>1, SeqMonotonic, Zenon
<1> HIDE DEF U
<1>2. PICK c : c = s \o t
  OBVIOUS
<1>3. /\ c \in Seq(U) /\ Len(c) = Len(s) + Len(t)
      /\ \A i \in 1 .. Len(s) + Len(t) : c[i] = IF i <= Len(s) THEN s[i] ELSE t[i - Len(s)]
  BY <1>1, <1>2, ConcatProperties, Zenon
<1>4. Len(s) \in Nat /\ Len(t) \in Nat
  BY SeqFacts
<1>5. IsSeq(c)
  BY <1>3, ASeq, Zenon
<1>6. \A j \in 1 .. Len(s) : c[j] = s[j]
  BY <1>3, <1>4
<1>7. \A j \in 1 .. Len(t) : c[Len(s) + j] = t[j]
  BY <1>3, <1>4
<1> QED BY <1>2, <1>3, <1>5, <1>6, <1>7

LEMMA Nothing == IsSeq(<< >>) /\ Len(<< >>) = 0
BY ASeq, EmptySeq

LEMMA One == ASSUME NEW x PROVE IsSeq(<<x>>) /\ Len(<<x>>) = 1 /\ <<x>>[1] = x
<1>1. <<x>> \in Seq({x})
  OBVIOUS
<1> QED BY <1>1, ASeq

LEMMA ConcatNothing == ASSUME NEW s, IsSeq(s) PROVE << >> \o s = s /\ s \o << >> = s
<1>1. s \in Seq({s[j] : j \in DOMAIN s})
  BY DEF IsSeq
<1> QED BY <1>1, ConcatEmptySeq, Zenon

(* Three of them: it does not matter which two are put together first.     *)
LEMMA Associate ==
  ASSUME NEW s, NEW t, NEW u, IsSeq(s), IsSeq(t), IsSeq(u)
  PROVE  (s \o t) \o u = s \o (t \o u)
<1> DEFINE U == {s[j] : j \in DOMAIN s} \cup {t[j] : j \in DOMAIN t} \cup {u[j] : j \in DOMAIN u}
<1>1. s \in Seq(U) /\ t \in Seq(U) /\ u \in Seq(U)
  <2>1. s \in Seq({s[j] : j \in DOMAIN s}) /\ t \in Seq({t[j] : j \in DOMAIN t})
        /\ u \in Seq({u[j] : j \in DOMAIN u})
    BY DEF IsSeq
  <2> QED BY <2>1, SeqMonotonic, Zenon
<1> HIDE DEF U
<1> QED BY <1>1, ConcatAssociative, SMT

(* What is left of a sequence after n of its elements.                     *)
Drop(s, n) == [j \in 1 .. Len(s) - n |-> s[n + j]]

LEMMA Dropped ==
  ASSUME NEW s, IsSeq(s), NEW n \in 0 .. Len(s)
  PROVE  /\ IsSeq(Drop(s, n)) /\ Len(Drop(s, n)) = Len(s) - n
         /\ \A j \in 1 .. Len(s) - n : Drop(s, n)[j] = s[n + j]
<1>1. Len(s) - n \in Nat
  BY SeqFacts
<1>2. Drop(s, n) \in [1 .. Len(s) - n -> {Drop(s, n)[j] : j \in 1 .. Len(s) - n}]
  BY Zenon DEF Drop
<1>3. \A j \in 1 .. Len(s) - n : Drop(s, n)[j] = s[n + j]
  BY DEF Drop
<1> QED BY <1>1, <1>2, <1>3, FunctionSeq, Zenon

LEMMA DropNone == ASSUME NEW s, IsSeq(s) PROVE Drop(s, 0) = s /\ Drop(s, Len(s)) = << >>
<1>1. Len(s) \in Nat
  BY SeqFacts
<1>2. Drop(s, 0) = s
  BY <1>1, Dropped, SameSeq
<1>3. Drop(s, Len(s)) = << >>
  BY <1>1, Dropped, SameSeq, Nothing
<1> QED BY <1>2, <1>3

LEMMA DropOne ==
  ASSUME NEW s, IsSeq(s), NEW n \in Nat, n < Len(s)
  PROVE  Drop(s, n) = <<s[n + 1]>> \o Drop(s, n + 1)
<1> DEFINE t == Drop(s, n + 1)
           d == Drop(s, n)
           x == s[n + 1]
<1>1. Len(s) \in Nat /\ n \in 0 .. Len(s) /\ n + 1 \in 0 .. Len(s)
  BY SeqFacts
<1>2. /\ IsSeq(t) /\ Len(t) = Len(s) - (n + 1) /\ \A j \in 1 .. Len(s) - (n + 1) : t[j] = s[n + 1 + j]
  BY <1>1, Dropped
<1>3. /\ IsSeq(d) /\ Len(d) = Len(s) - n /\ \A j \in 1 .. Len(s) - n : d[j] = s[n + j]
  BY <1>1, Dropped
<1>4. IsSeq(<<x>>) /\ Len(<<x>>) = 1 /\ <<x>>[1] = x
  BY One
<1> HIDE DEF t, d
<1>5. PICK e : e = <<x>>
  OBVIOUS
<1>6. PICK c : c = e \o t
  OBVIOUS
<1>7. /\ IsSeq(c) /\ Len(c) = 1 + Len(t) /\ c[1] = e[1] /\ \A j \in 1 .. Len(t) : c[1 + j] = t[j]
  BY <1>2, <1>4, <1>5, <1>6, Concat
<1>8. ASSUME NEW j \in 1 .. Len(d) PROVE d[j] = c[j]
  <2>1. CASE j = 1
    BY <2>1, <1>1, <1>3, <1>4, <1>5, <1>7
  <2>2. CASE j # 1
    <3>1. j - 1 \in 1 .. Len(t) /\ 1 + (j - 1) = j /\ n + 1 + (j - 1) = n + j
      BY <2>2, <1>1, <1>2, <1>3
    <3>2. t[j - 1] = s[n + 1 + (j - 1)]
      BY <3>1, <1>2
    <3>3. c[1 + (j - 1)] = t[j - 1]
      BY <3>1, <1>7
    <3>4. d[j] = s[n + j]
      BY <1>3
    <3> QED BY <3>1, <3>2, <3>3, <3>4
  <2> QED BY <2>1, <2>2
<1>9. d = c
  BY <1>1, <1>2, <1>3, <1>7, <1>8, SameSeq
<1> QED BY <1>5, <1>6, <1>9 DEF t, d

(* The reader inp has the symbols s before it, and no more.                *)
Ahead(inp, s) ==
  /\ DOMAIN inp = {"body", "at", "ok"} /\ inp.ok = TRUE /\ IsSeq(s)
  /\ inp.at \in Nat /\ Len(inp.body) = inp.at + Len(s)
  /\ \A j \in 1 .. Len(s) : inp.body[inp.at + j] = s[j]

(* Taking what is first leaves the rest ahead.                             *)
LEMMA AheadTake ==
  ASSUME NEW inp, NEW s, NEW t, IsSeq(s), IsSeq(t), Ahead(inp, s \o t)
  PROVE  Ahead([inp EXCEPT !.at = @ + Len(s)], t)
<1>1. PICK c : c = s \o t
  OBVIOUS
<1>2. /\ IsSeq(c) /\ Len(c) = Len(s) + Len(t)
      /\ \A j \in 1 .. Len(t) : c[Len(s) + j] = t[j]
  BY <1>1, Concat
<1>3. Len(s) \in Nat /\ Len(t) \in Nat
  BY SeqFacts
<1> DEFINE a == inp.at
           b == inp.body
           k == Len(s)
<1>4. Ahead(inp, c)
  BY <1>1
<1>5. a \in Nat /\ Len(b) = a + (k + Len(t)) /\ \A j \in 1 .. k + Len(t) : b[a + j] = c[j]
  BY <1>2, <1>4 DEF Ahead
<1>6. DOMAIN inp = {"body", "at", "ok"} /\ inp.ok = TRUE
  BY <1>4 DEF Ahead
<1> DEFINE new == [inp EXCEPT !.at = @ + k]
<1>7. new.at = a + k /\ new.body = b /\ new.ok = TRUE /\ DOMAIN new = {"body", "at", "ok"}
  BY <1>6
<1> HIDE DEF a, b, k, new
<1>8. a + k \in Nat /\ Len(b) = (a + k) + Len(t)
  BY <1>3, <1>5 DEF k
<1>9. ASSUME NEW j \in 1 .. Len(t) PROVE b[a + k + j] = t[j]
  <2>1. k + j \in 1 .. k + Len(t) /\ c[k + j] = t[j] /\ a + (k + j) = a + k + j
    BY <1>2, <1>3, <1>5 DEF k
  <2> QED BY <2>1, <1>5
<1>10. Ahead(new, t)
  BY <1>7, <1>8, <1>9 DEF Ahead
<1> QED BY <1>10 DEF new, k

(* The symbols that are next.                                              *)
LEMMA AheadFirst ==
  ASSUME NEW inp, NEW s, NEW t, IsSeq(s), IsSeq(t), Ahead(inp, s \o t)
  PROVE  \A j \in 1 .. Len(s) :
           inp.at + j <= Len(inp.body) /\ inp.body[inp.at + j] = s[j]
<1>1. PICK c : c = s \o t
  OBVIOUS
<1>2. /\ IsSeq(c) /\ Len(c) = Len(s) + Len(t)
      /\ \A j \in 1 .. Len(s) : c[j] = s[j]
  BY <1>1, Concat
<1>3. Len(s) \in Nat /\ Len(t) \in Nat
  BY SeqFacts
<1>4. Ahead(inp, c)
  BY <1>1
<1>5. /\ inp.at \in Nat /\ Len(inp.body) = inp.at + (Len(s) + Len(t))
      /\ \A j \in 1 .. Len(s) + Len(t) : inp.body[inp.at + j] = c[j]
  BY <1>2, <1>4 DEF Ahead
<1> QED BY <1>2, <1>3, <1>5
-----------------------------------------------------------------------------
(* The sums do not decrease.                                               *)
LEMMA SumsGrow ==
  ASSUME NEW p \in [Positions -> Int], NEW b \in Sums(p),
         NEW i \in 0 .. 4 * PosPer, NEW j \in 0 .. 4 * PosPer, i <= j
  PROVE  b[i] \in Nat /\ b[j] \in Nat /\ b[i] <= b[j]
<1>1. \A n \in 0 .. 4 * PosPer : b[n] \in Nat
  BY DEF Sums
<1> DEFINE S == {m \in Nat : i <= m /\ m <= 4 * PosPer => b[i] <= b[m]}
<1>2. 0 \in S
  <2>1. i <= 0 => b[i] <= b[0]
    BY <1>1
  <2> QED BY <2>1
<1>3. ASSUME NEW m \in Nat, m \in S PROVE m + 1 \in S
  <2> SUFFICES ASSUME i <= m + 1, m + 1 <= 4 * PosPer PROVE b[i] <= b[m + 1]
    OBVIOUS
  <2>1. CASE i = m + 1
    BY <2>1, <1>1
  <2>2. CASE i # m + 1
    <3>1. m \in Positions /\ p[m] \in Int /\ i <= m /\ m \in 0 .. 4 * PosPer
      BY <2>2, PosFacts DEF Positions
    <3>2. b[m + 1] = b[m] + Abs(p[m]) /\ Abs(p[m]) \in Nat
      BY <3>1, AbsNat DEF Sums
    <3>3. b[i] <= b[m]
      BY <1>3, <3>1
    <3> QED BY <3>1, <3>2, <3>3, <1>1
  <2> QED BY <2>1, <2>2
<1> HIDE DEF S
<1>4. j \in S
  BY <1>2, <1>3, NaturalsAll
<1> QED BY <1>1, <1>4 DEF S

LEMMA SumAt ==
  ASSUME NEW p \in [Positions -> Int], NEW b \in Sums(p), NEW q \in Positions
  PROVE  /\ q \in 0 .. 4 * PosPer /\ q + 1 \in 0 .. 4 * PosPer
         /\ b[q] \in Nat /\ b[q + 1] \in Nat /\ Abs(p[q]) \in Nat /\ b[q + 1] = b[q] + Abs(p[q])
<1>1. q \in 0 .. 4 * PosPer /\ q + 1 \in 0 .. 4 * PosPer
  BY PosFacts DEF Positions
<1>2. p[q] \in Int
  OBVIOUS
<1>3. Abs(p[q]) \in Nat
  BY <1>2, AbsNat
<1>4. b[q] \in Nat /\ b[q + 1] \in Nat /\ b[q + 1] = b[q] + Abs(p[q])
  BY <1>1 DEF Sums
<1> QED BY <1>1, <1>3, <1>4

(* The starts of the subframes.                                            *)
LEMMA Starts ==
  /\ Start(0) = 0 /\ Start(4) = 4 * PosPer
  /\ \A sf \in Subframes :
       /\ Start(sf) \in Positions /\ Start(sf + 1) \in 0 .. 4 * PosPer
       /\ Start(sf + 1) = Start(sf) + PosPer
<1>1. Start(0) = 0 /\ Start(1) = PosPer /\ Start(2) = 2 * PosPer /\ Start(3) = 3 * PosPer
      /\ Start(4) = 4 * PosPer
  BY PosFacts DEF Start
<1>2. ASSUME NEW sf \in Subframes
      PROVE  /\ Start(sf) \in Positions /\ Start(sf + 1) \in 0 .. 4 * PosPer
             /\ Start(sf + 1) = Start(sf) + PosPer
  <2>1. sf = 0 \/ sf = 1 \/ sf = 2 \/ sf = 3
    BY DEF Subframes
  <2> QED BY <1>1, <2>1, PosFacts DEF Positions
<1> QED BY <1>1, <1>2

(* The pulses of the four subframes are those of the frame.                *)
LEMMA CountFacts ==
  ASSUME NEW p \in [Positions -> Int]
  PROVE  /\ \A sf \in Subframes : Count(p, sf) \in Nat
         /\ Total(p) \in Nat /\ Before(p)[0] = 0 /\ Before(p)[Start(4)] = Total(p)
         /\ Total(p) = Count(p, 0) + Count(p, 1) + (Count(p, 2) + Count(p, 3))
<1>1. PICK b \in Sums(p) : b = Before(p)
  BY BeforeSums
<1>2. \A sf \in Subframes : b[Start(sf)] \in Nat /\ b[Start(sf + 1)] \in Nat /\ b[Start(sf)] <= b[Start(sf + 1)]
  <2> SUFFICES ASSUME NEW sf \in Subframes
               PROVE  b[Start(sf)] \in Nat /\ b[Start(sf + 1)] \in Nat /\ b[Start(sf)] <= b[Start(sf + 1)]
    OBVIOUS
  <2>1. Start(sf) \in 0 .. 4 * PosPer /\ Start(sf + 1) \in 0 .. 4 * PosPer /\ Start(sf) <= Start(sf + 1)
    BY Starts, PosFacts DEF Positions
  <2> QED BY <2>1, SumsGrow
<1>3. b[0] = 0
  BY DEF Sums
<1>4. 0 \in Subframes /\ 1 \in Subframes /\ 2 \in Subframes /\ 3 \in Subframes
  BY DEF Subframes
<1>5. \A sf \in Subframes : Count(p, sf) = b[Start(sf + 1)] - b[Start(sf)]
  BY <1>1 DEF Count
<1>6. \A sf \in Subframes : Count(p, sf) \in Nat
  BY <1>2, <1>5
<1>7. Total(p) = b[Start(4)]
  BY <1>1, Starts DEF Total
<1>8. b[Start(0)] = 0
  BY <1>3, Starts
<1>9. /\ Count(p, 0) = b[Start(1)] - b[Start(0)] /\ Count(p, 1) = b[Start(2)] - b[Start(1)]
      /\ Count(p, 2) = b[Start(3)] - b[Start(2)] /\ Count(p, 3) = b[Start(4)] - b[Start(3)]
  BY <1>4, <1>5
<1>10. /\ b[Start(0)] \in Nat /\ b[Start(1)] \in Nat /\ b[Start(2)] \in Nat /\ b[Start(3)] \in Nat
       /\ b[Start(4)] \in Nat
  BY <1>2, <1>4
<1> QED BY <1>1, <1>3, <1>6, <1>7, <1>8, <1>9, <1>10

(* The position of a unit of magnitude is where the sums pass it.          *)
LEMMA WhereIs ==
  ASSUME NEW p \in [Positions -> Int], NEW b, b = Before(p), NEW k \in 1 .. Total(p)
  PROVE  /\ Where(p, k) \in Positions /\ b[Where(p, k)] < k /\ k <= b[Where(p, k) + 1]
         /\ \A q \in Positions : b[q] < k /\ k <= b[q + 1] => q = Where(p, k)
<1>1. b \in Sums(p) /\ Total(p) = b[4 * PosPer] /\ k \in Nat /\ k > 0 /\ b[4 * PosPer] \in Nat
  BY BeforeSums, CountFacts DEF Total
<1>2. \A n \in 0 .. 4 * PosPer : b[n] \in Nat
  BY <1>1 DEF Sums
<1>3. \E q \in Positions : b[q] < k /\ k <= b[q + 1]
  <2> DEFINE S == {m \in Nat : m <= 4 * PosPer /\ k <= b[m]
                      => \E q \in Positions : b[q] < k /\ k <= b[q + 1]}
  <2>1. 0 \in S
    BY <1>1 DEF Sums
  <2>2. ASSUME NEW m \in Nat, m \in S PROVE m + 1 \in S
    <3> SUFFICES ASSUME m + 1 <= 4 * PosPer, k <= b[m + 1]
                 PROVE  \E q \in Positions : b[q] < k /\ k <= b[q + 1]
      OBVIOUS
    <3>1. m \in Positions /\ m \in 0 .. 4 * PosPer /\ m <= 4 * PosPer
      BY PosFacts DEF Positions
    <3>2. CASE k <= b[m]
      BY <2>2, <3>1, <3>2
    <3>3. CASE ~(k <= b[m])
      <4>1. b[m] < k
        BY <3>1, <3>3, <1>1, <1>2
      <4> QED BY <3>1, <4>1
    <3> QED BY <3>2, <3>3
  <2>3. 4 * PosPer \in Nat
    BY PosFacts
  <2>4. k <= b[4 * PosPer]
    BY <1>1
  <2> HIDE DEF S
  <2>5. 4 * PosPer \in S
    BY <2>1, <2>2, <2>3, NaturalsAll
  <2> QED BY <2>3, <2>4, <2>5 DEF S
<1>4. PICK w : w = Where(p, k)
  OBVIOUS
<1>5. w \in Positions /\ b[w] < k /\ k <= b[w + 1]
  <2>1. w = CHOOSE q \in Positions : b[q] < k /\ k <= b[q + 1]
    BY <1>4 DEF Where
  <2> QED BY <2>1, <1>3, Zenon
<1>6. ASSUME NEW q \in Positions, b[q] < k, k <= b[q + 1] PROVE q = w
  <2>1. /\ q \in 0 .. 4 * PosPer /\ q + 1 \in 0 .. 4 * PosPer /\ w \in 0 .. 4 * PosPer
        /\ w + 1 \in 0 .. 4 * PosPer /\ q \in Int /\ w \in Int
    BY <1>5, PosFacts DEF Positions
  <2>2. ~(q < w)
    <3>1. q + 1 <= w => b[q + 1] <= b[w]
      BY <2>1, <1>1, SumsGrow
    <3> QED BY <3>1, <2>1, <1>1, <1>2, <1>5, <1>6
  <2>3. ~(w < q)
    <3>1. w + 1 <= q => b[w + 1] <= b[q]
      BY <2>1, <1>1, SumsGrow
    <3> QED BY <3>1, <2>1, <1>1, <1>2, <1>5, <1>6
  <2> QED BY <2>1, <2>2, <2>3
<1> QED BY <1>4, <1>5, <1>6

(* Later units are not at earlier positions; a unit of a subframe is there.*)
LEMMA WhereGrows ==
  ASSUME NEW p \in [Positions -> Int], NEW k \in 1 .. Total(p), NEW l \in 1 .. Total(p), k <= l
  PROVE  Where(p, k) <= Where(p, l)
<1>1. PICK b \in Sums(p) : b = Before(p)
  BY BeforeSums
<1>2. PICK w : w = Where(p, k)
  OBVIOUS
<1>3. PICK v : v = Where(p, l)
  OBVIOUS
<1>4. /\ w \in Positions /\ b[w] < k /\ k <= b[w + 1]
      /\ v \in Positions /\ b[v] < l /\ l <= b[v + 1]
  BY <1>1, <1>2, <1>3, WhereIs
<1>5. v + 1 \in 0 .. 4 * PosPer /\ w \in 0 .. 4 * PosPer /\ w \in Int /\ v \in Int
  BY <1>4, PosFacts DEF Positions
<1>6. v + 1 <= w => b[v + 1] <= b[w]
  BY <1>5, SumsGrow
<1>7. b[v + 1] \in Nat /\ b[w] \in Nat /\ k \in Int /\ l \in Int
  BY <1>5, CountFacts DEF Sums
<1> QED BY <1>2, <1>3, <1>4, <1>5, <1>6, <1>7

(* A unit of a subframe is at a position of it.                            *)
LEMMA WhereIn ==
  ASSUME NEW p \in [Positions -> Int], NEW i \in 0 .. 4 * PosPer, NEW j \in 0 .. 4 * PosPer,
         NEW k \in 1 .. Total(p), Before(p)[i] < k, k <= Before(p)[j]
  PROVE  Where(p, k) \in i .. j - 1
<1>1. PICK b \in Sums(p) : b = Before(p)
  BY BeforeSums
<1>2. PICK w : w = Where(p, k)
  OBVIOUS
<1>3. w \in Positions /\ b[w] < k /\ k <= b[w + 1]
  BY <1>1, <1>2, WhereIs
<1>4. w + 1 \in 0 .. 4 * PosPer /\ w \in 0 .. 4 * PosPer /\ w \in Int /\ i \in Int /\ j \in Int
  BY <1>3, PosFacts DEF Positions
<1>5. (w + 1 <= i => b[w + 1] <= b[i]) /\ (j <= w => b[j] <= b[w])
  BY <1>4, SumsGrow
<1>6. b[i] \in Nat /\ b[j] \in Nat /\ b[w] \in Nat /\ b[w + 1] \in Nat /\ k \in Int
  BY <1>4, CountFacts, SMTT(30), ZenonT(60) DEF Sums
<1>7. b[i] < k /\ k <= b[j]
  BY <1>1
<1>8. ~(w + 1 <= i) /\ ~(j <= w)
  BY <1>3, <1>5, <1>6, <1>7
<1> QED BY <1>2, <1>4, <1>8

LEMMA SubframeSums ==
  ASSUME NEW p \in [Positions -> Int], NEW sf \in Subframes
  PROVE  /\ Before(p)[Start(sf)] \in Nat /\ Before(p)[Start(sf + 1)] \in Nat
         /\ Before(p)[Start(sf + 1)] = Before(p)[Start(sf)] + Count(p, sf)
         /\ Before(p)[Start(sf + 1)] <= Total(p)
<1>1. PICK b \in Sums(p) : b = Before(p)
  BY BeforeSums
<1>2. PICK i \in 0 .. 4 * PosPer : i = Start(sf)
  <2>1. Start(sf) \in Positions
    BY Starts
  <2> QED BY <2>1, PosFacts DEF Positions
<1>3. PICK j \in 0 .. 4 * PosPer : j = Start(sf + 1)
  BY Starts
<1>4. b[i] \in Nat /\ b[j] \in Nat
  BY DEF Sums
<1>5. b[j] <= b[4 * PosPer]
  <2>1. 4 * PosPer \in 0 .. 4 * PosPer /\ j <= 4 * PosPer
    BY PosFacts
  <2> QED BY <2>1, SumsGrow
<1>6. Count(p, sf) = b[j] - b[i] /\ Total(p) = b[4 * PosPer]
  BY <1>1, <1>2, <1>3 DEF Count, Total
<1> QED BY <1>1, <1>2, <1>3, <1>4, <1>5, <1>6
-----------------------------------------------------------------------------
(* The pulses of an excitation: the positions where it is not zero.        *)
LEMMA SupportFacts ==
  ASSUME NEW p \in [Positions -> Int]
  PROVE  /\ Support(p) \in [Positions -> Int]
         /\ \A u \in Sums(Support(p)), q \in Positions :
              /\ q \in 0 .. 4 * PosPer /\ q + 1 \in 0 .. 4 * PosPer
              /\ u[q] \in Nat /\ u[q + 1] = u[q] + (IF p[q] = 0 THEN 0 ELSE 1)
<1>1. \A q \in Positions : Support(p)[q] = IF p[q] = 0 THEN 0 ELSE 1
  BY DEF Support
<1>2. Support(p) \in [Positions -> Int]
  <2>1. \A q \in Positions : (IF p[q] = 0 THEN 0 ELSE 1) \in Int
    OBVIOUS
  <2> QED BY <2>1, Zenon DEF Support
<1>3. ASSUME NEW u \in Sums(Support(p)), NEW q \in Positions
      PROVE  /\ q \in 0 .. 4 * PosPer /\ q + 1 \in 0 .. 4 * PosPer
             /\ u[q] \in Nat /\ u[q + 1] = u[q] + (IF p[q] = 0 THEN 0 ELSE 1)
  <2>1. q \in 0 .. 4 * PosPer /\ q + 1 \in 0 .. 4 * PosPer
    BY PosFacts DEF Positions
  <2>2. u[q] \in Nat
    BY <2>1 DEF Sums
  <2>3. u[q + 1] = u[q] + Abs(Support(p)[q])
    BY DEF Sums
  <2>4. Abs(Support(p)[q]) = IF p[q] = 0 THEN 0 ELSE 1
    BY <1>1 DEF Abs
  <2> QED BY <2>1, <2>2, <2>3, <2>4
<1> QED BY <1>2, <1>3

(* There are no more pulses than units of magnitude.                       *)
LEMMA SupportBounded ==
  ASSUME NEW p \in [Positions -> Int], NEW b \in Sums(p), NEW u \in Sums(Support(p)),
         NEW i \in 0 .. 4 * PosPer, NEW j \in 0 .. 4 * PosPer, i <= j
  PROVE  u[j] - u[i] <= b[j] - b[i]
<1>1. \A n \in 0 .. 4 * PosPer : b[n] \in Nat /\ u[n] \in Nat
  BY DEF Sums
<1> DEFINE S == {m \in Nat : i <= m /\ m <= 4 * PosPer => u[m] - u[i] <= b[m] - b[i]}
<1>2. 0 \in S
  <2>1. i <= 0 => u[0] - u[i] <= b[0] - b[i]
    BY <1>1 DEF Sums
  <2> QED BY <2>1
<1>3. ASSUME NEW m \in Nat, m \in S PROVE m + 1 \in S
  <2> SUFFICES ASSUME i <= m + 1, m + 1 <= 4 * PosPer PROVE u[m + 1] - u[i] <= b[m + 1] - b[i]
    OBVIOUS
  <2>1. CASE i = m + 1
    BY <2>1, <1>1
  <2>2. CASE i # m + 1
    <3>1. m \in Positions /\ p[m] \in Int /\ i <= m /\ m \in 0 .. 4 * PosPer
      BY <2>2, PosFacts DEF Positions
    <3>2. b[m + 1] = b[m] + Abs(p[m]) /\ Abs(p[m]) \in Nat /\ (Abs(p[m]) = 0 <=> p[m] = 0)
      BY <3>1, AbsNat DEF Sums
    <3>3. u[m + 1] = u[m] + (IF p[m] = 0 THEN 0 ELSE 1)
      BY <3>1, SupportFacts
    <3>4. u[m] - u[i] <= b[m] - b[i]
      BY <1>3, <3>1
    <3>5. u[m + 1] - u[m] <= b[m + 1] - b[m]
      BY <3>1, <3>2, <3>3, <1>1
    <3> QED BY <3>1, <3>4, <3>5, <1>1
  <2> QED BY <2>1, <2>2
<1> HIDE DEF S
<1>4. j \in S
  BY <1>2, <1>3, NaturalsAll
<1> QED BY <1>4 DEF S

(* The pulses that the first n units make, and their list: the last may    *)
(* be yet to grow.                                                         *)
Pulse(p, j) == Where(Support(p), j)
Begun(p, n) == IF n = 0 THEN 0 ELSE Before(Support(p))[Where(p, n) + 1]
MagAfter(p, n, q) == Smaller(Abs(p[q]), n - Before(p)[q])
ListAfter(p, n) ==
  [j \in 1 .. Begun(p, n) |-> [pos |-> Pulse(p, j), mag |-> MagAfter(p, n, Pulse(p, j))]]

(* Every pulse is at a position that is not zero, and they are in order.   *)
LEMMA PulseFacts ==
  ASSUME NEW p \in [Positions -> Int], NEW u, u = Before(Support(p))
  PROVE  /\ u \in Sums(Support(p)) /\ Total(Support(p)) \in Nat /\ Total(Support(p)) = u[4 * PosPer]
         /\ \A j \in 1 .. Total(Support(p)) :
              /\ Pulse(p, j) \in Positions /\ p[Pulse(p, j)] # 0 /\ u[Pulse(p, j)] = j - 1
              /\ u[Pulse(p, j) + 1] = j
         /\ \A q \in Positions : p[q] # 0 =>
              /\ u[q + 1] \in 1 .. Total(Support(p)) /\ u[q + 1] = u[q] + 1
              /\ Pulse(p, u[q + 1]) = q
<1>1. Support(p) \in [Positions -> Int]
  BY SupportFacts
<1>2. u \in Sums(Support(p)) /\ Total(Support(p)) \in Nat /\ Total(Support(p)) = u[4 * PosPer]
  BY <1>1, BeforeSums, CountFacts DEF Total
<1> PICK s : s = Support(p)
  OBVIOUS
<1>3. ASSUME NEW j \in 1 .. Total(s)
      PROVE  /\ Pulse(p, j) \in Positions /\ p[Pulse(p, j)] # 0 /\ u[Pulse(p, j)] = j - 1
             /\ u[Pulse(p, j) + 1] = j
  <2>1. PICK w : w = Pulse(p, j)
    OBVIOUS
  <2>2. w \in Positions /\ u[w] < j /\ j <= u[w + 1]
    BY <2>1, <1>1, WhereIs DEF Pulse
  <2>3. u[w] \in Nat /\ u[w + 1] = u[w] + (IF p[w] = 0 THEN 0 ELSE 1)
    BY <2>2, <1>2, SupportFacts
  <2>4. j \in Int /\ p[w] \in Int
    BY <2>2, <1>2
  <2> QED BY <2>1, <2>2, <2>3, <2>4
<1>4. ASSUME NEW q \in Positions, p[q] # 0
      PROVE  u[q + 1] \in 1 .. Total(s) /\ u[q + 1] = u[q] + 1 /\ Pulse(p, u[q + 1]) = q
  <2>1. q \in 0 .. 4 * PosPer /\ q + 1 \in 0 .. 4 * PosPer /\ u[q] \in Nat /\ u[q + 1] = u[q] + 1
    BY <1>2, <1>4, SupportFacts
  <2>2. 4 * PosPer \in 0 .. 4 * PosPer /\ q + 1 <= 4 * PosPer
    BY <2>1, PosFacts
  <2>3. u[q + 1] <= u[4 * PosPer]
    BY <1>1, <1>2, <2>1, <2>2, SumsGrow
  <2>4. PICK k : k = u[q + 1]
    OBVIOUS
  <2>5. k \in 1 .. Total(s) /\ u[q] < k /\ k <= u[q + 1]
    BY <1>2, <2>1, <2>3, <2>4
  <2>6. q = Where(s, k)
    BY <1>1, <2>5, WhereIs
  <2> QED BY <2>1, <2>4, <2>5, <2>6 DEF Pulse
<1> QED BY <1>2, <1>3, <1>4

(* A pulse whose units all came has its magnitude.                         *)
LEMMA MagFull ==
  ASSUME NEW p \in [Positions -> Int], NEW q \in Positions, NEW n \in Nat, Before(p)[q + 1] <= n
  PROVE  MagAfter(p, n, q) = Abs(p[q])
<1>1. PICK b \in Sums(p) : b = Before(p)
  BY BeforeSums
<1>2. q \in 0 .. 4 * PosPer /\ q + 1 \in 0 .. 4 * PosPer
  BY PosFacts DEF Positions
<1>3. b[q] \in Nat /\ b[q + 1] = b[q] + Abs(p[q]) /\ Abs(p[q]) \in Nat
  BY <1>2, AbsNat DEF Sums
<1>4. b[q + 1] <= n
  BY <1>1
<1> QED BY <1>1, <1>3, <1>4 DEF MagAfter, Smaller

(* How many pulses have begun with the first n units.                      *)
LEMMA BegunFacts ==
  ASSUME NEW p \in [Positions -> Int]
  PROVE  /\ Begun(p, 0) = 0
         /\ \A n \in 1 .. Total(p) :
              /\ Begun(p, n) \in 1 .. Total(Support(p)) /\ Pulse(p, Begun(p, n)) = Where(p, n)
         /\ Begun(p, Total(p)) = Total(Support(p))
<1>1. PICK b \in Sums(p) : b = Before(p)
  BY BeforeSums
<1>2. PICK u : u = Before(Support(p))
  OBVIOUS
<1>3. /\ u \in Sums(Support(p)) /\ Total(Support(p)) \in Nat /\ Total(Support(p)) = u[4 * PosPer]
      /\ \A q \in Positions : p[q] # 0 =>
              /\ u[q + 1] \in 1 .. Total(Support(p)) /\ u[q + 1] = u[q] + 1
              /\ Pulse(p, u[q + 1]) = q
  BY <1>2, PulseFacts
<1>4. Begun(p, 0) = 0
  BY DEF Begun
<1>5. Total(p) = b[4 * PosPer] /\ Total(p) \in Nat
  BY <1>1, CountFacts DEF Total
<1>6. ASSUME NEW n \in 1 .. Total(p)
      PROVE  /\ Begun(p, n) \in 1 .. Total(Support(p)) /\ Pulse(p, Begun(p, n)) = Where(p, n)
             /\ Begun(p, n) = u[Where(p, n) + 1] /\ Where(p, n) \in Positions /\ n <= b[Where(p, n) + 1]
  <2>1. PICK w : w = Where(p, n)
    OBVIOUS
  <2>2. w \in Positions /\ b[w] < n /\ n <= b[w + 1]
    BY <2>1, <1>1, WhereIs
  <2>3. n # 0
    BY <1>5
  <2>4. Begun(p, n) = u[w + 1]
    BY <2>1, <2>3, <1>2 DEF Begun
  <2>5. p[w] # 0
    <3>1. w \in 0 .. 4 * PosPer /\ p[w] \in Int
      BY <2>2, PosFacts DEF Positions
    <3>2. b[w] \in Nat /\ b[w + 1] = b[w] + Abs(p[w])
      BY <2>2, <3>1 DEF Sums
    <3> QED BY <3>1, <3>2, <2>2, <1>5 DEF Abs
  <2> QED BY <2>1, <2>2, <2>4, <2>5, <1>3
<1>7. Begun(p, Total(p)) = Total(Support(p))
  <2>1. CASE Total(p) = 0
    <3>1. 0 \in 0 .. 4 * PosPer /\ 4 * PosPer \in 0 .. 4 * PosPer /\ 0 <= 4 * PosPer
      BY PosFacts
    <3>2. u[4 * PosPer] - u[0] <= b[4 * PosPer] - b[0]
      BY <1>3, <3>1, SupportBounded
    <3>3. u[0] = 0 /\ b[0] = 0
      BY <1>3 DEF Sums
    <3> QED BY <2>1, <3>2, <3>3, <1>3, <1>4, <1>5
  <2>2. CASE Total(p) # 0
    <3>1. PICK w : w = Where(p, Total(p))
      OBVIOUS
    <3>2. /\ Begun(p, Total(p)) = u[w + 1] /\ w \in Positions /\ Total(p) <= b[w + 1]
      <4>1. Total(p) \in 1 .. Total(p)
        BY <2>2, <1>5
      <4> QED BY <4>1, <3>1, <1>6
    <3>3. w + 1 \in 0 .. 4 * PosPer /\ 4 * PosPer \in 0 .. 4 * PosPer /\ w + 1 <= 4 * PosPer
      BY <3>2, PosFacts DEF Positions
    <3>4. u[4 * PosPer] - u[w + 1] <= b[4 * PosPer] - b[w + 1]
      BY <3>3, <1>3, SupportBounded
    <3>5. Support(p) \in [Positions -> Int]
      BY SupportFacts
    <3>6. u[w + 1] <= u[4 * PosPer] /\ u[w + 1] \in Nat /\ u[4 * PosPer] \in Nat
      BY <3>3, <3>5, <1>3, SumsGrow
    <3>7. b[w + 1] \in Nat
      BY <3>3 DEF Sums
    <3> QED BY <3>2, <3>4, <3>6, <3>7, <1>3, <1>5
  <2> QED BY <2>1, <2>2
<1> QED BY <1>4, <1>6, <1>7
LEMMA ListFacts ==
  ASSUME NEW p \in [Positions -> Int], NEW n \in 0 .. Total(p)
  PROVE  /\ IsSeq(ListAfter(p, n)) /\ Len(ListAfter(p, n)) = Begun(p, n)
         /\ Begun(p, n) \in 0 .. Total(Support(p))
         /\ \A j \in 1 .. Begun(p, n) :
              ListAfter(p, n)[j] = [pos |-> Pulse(p, j), mag |-> MagAfter(p, n, Pulse(p, j))]
<1>1. Total(p) \in Nat /\ Total(Support(p)) \in Nat
  BY CountFacts, PulseFacts
<1>2. Begun(p, n) \in 0 .. Total(Support(p))
  <2>1. CASE n = 0
    BY <2>1, <1>1, BegunFacts
  <2>2. CASE n # 0
    <3>1. n \in 1 .. Total(p)
      BY <2>2, <1>1
    <3> QED BY <3>1, <1>1, BegunFacts
  <2> QED BY <2>1, <2>2
<1>3. \A j \in 1 .. Begun(p, n) :
        ListAfter(p, n)[j] = [pos |-> Pulse(p, j), mag |-> MagAfter(p, n, Pulse(p, j))]
  BY DEF ListAfter
<1>4. ListAfter(p, n) \in [1 .. Begun(p, n) -> {ListAfter(p, n)[j] : j \in 1 .. Begun(p, n)}]
  BY Zenon DEF ListAfter
<1>5. Begun(p, n) \in Nat
  BY <1>1, <1>2
<1> QED BY <1>2, <1>3, <1>4, <1>5, FunctionSeq, Zenon

(* Pulses before the position of the last unit are complete.               *)
LEMMA EarlierFull ==
  ASSUME NEW p \in [Positions -> Int], NEW n \in Nat, NEW q \in Positions, Before(p)[q] <= n,
         NEW j \in 1 .. Total(Support(p)), j <= Before(Support(p))[q]
  PROVE  MagAfter(p, n, Pulse(p, j)) = Abs(p[Pulse(p, j)])
<1>1. PICK b \in Sums(p) : b = Before(p)
  BY BeforeSums
<1>2. PICK u : u = Before(Support(p))
  OBVIOUS
<1>3. PICK w : w = Pulse(p, j)
  OBVIOUS
<1>4. u \in Sums(Support(p)) /\ w \in Positions /\ u[w + 1] = j /\ u[w] = j - 1 /\ j <= u[q]
      /\ j \in Int
  BY <1>2, <1>3, PulseFacts
<1>5. /\ q \in 0 .. 4 * PosPer /\ w + 1 \in 0 .. 4 * PosPer /\ w \in 0 .. 4 * PosPer /\ q \in Int
      /\ w \in Int
  BY <1>4, PosFacts DEF Positions
<1>6. Support(p) \in [Positions -> Int]
  BY SupportFacts
<1>7. w + 1 <= q
  <2>1. q <= w => u[q] <= u[w]
    BY <1>4, <1>5, <1>6, SumsGrow
  <2>2. u[q] \in Nat
    BY <1>4, <1>5 DEF Sums
  <2> QED BY <2>1, <2>2, <1>4, <1>5
<1>8. b[w + 1] <= b[q] /\ b[w + 1] \in Nat /\ b[q] \in Nat
  BY <1>5, <1>7, SumsGrow
<1>9. b[w + 1] <= n
  <2>1. b[q] <= n
    BY <1>1
  <2> QED BY <2>1, <1>8
<1>10. Before(p)[w + 1] <= n
  BY <1>9, <1>1
<1>11. MagAfter(p, n, w) = Abs(p[w])
  BY <1>10, <1>4, MagFull
<1> QED BY <1>11, <1>3

(* One more unit: a further one of the last pulse, or a new pulse.         *)
LEMMA BegunNext ==
  ASSUME NEW p \in [Positions -> Int], NEW n \in Nat, n + 1 <= Total(p),
         NEW q, q = Where(p, n + 1), NEW u, u = Before(Support(p))
  PROVE  /\ q \in Positions /\ Before(p)[q] <= n /\ n + 1 <= Before(p)[q + 1]
         /\ Begun(p, n + 1) = u[q] + 1 /\ u[q] \in Nat
         /\ Pulse(p, Begun(p, n + 1)) = q /\ Begun(p, n + 1) \in 1 .. Total(Support(p))
         /\ (n > 0 /\ Where(p, n) = q) => Begun(p, n) = u[q] + 1
         /\ (n = 0 \/ Where(p, n) # q) => Begun(p, n) = u[q] /\ Before(p)[q] = n
<1>1. PICK b \in Sums(p) : b = Before(p)
  BY BeforeSums
<1>2. Total(p) \in Nat /\ n + 1 \in 1 .. Total(p) /\ n + 1 # 0
  BY CountFacts
<1>3. PICK k : k = n + 1
  OBVIOUS
<1>4. q \in Positions /\ b[q] < k /\ k <= b[q + 1]
  BY <1>1, <1>2, <1>3, WhereIs
<1>5. q \in 0 .. 4 * PosPer /\ q + 1 \in 0 .. 4 * PosPer /\ q \in Int /\ p[q] \in Int
  BY <1>4, PosFacts DEF Positions
<1>6. b[q] \in Nat /\ b[q + 1] \in Nat /\ b[q + 1] = b[q] + Abs(p[q])
  BY <1>4, <1>5 DEF Sums
<1>7. p[q] # 0
  BY <1>3, <1>4, <1>5, <1>6 DEF Abs
<1>8. u \in Sums(Support(p)) /\ u[q] \in Nat /\ u[q + 1] = u[q] + 1
      /\ Support(p) \in [Positions -> Int]
  BY <1>4, <1>7, PulseFacts, SupportFacts
<1>9. Begun(p, n + 1) = u[q] + 1
  BY <1>2, <1>8 DEF Begun
<1>10. Pulse(p, Begun(p, n + 1)) = q /\ Begun(p, n + 1) \in 1 .. Total(Support(p))
  <2>1. Pulse(p, u[q + 1]) = q /\ u[q + 1] \in 1 .. Total(Support(p))
    BY <1>4, <1>7, PulseFacts
  <2> QED BY <2>1, <1>8, <1>9
<1>11. (n > 0 /\ Where(p, n) = q) => Begun(p, n) = u[q] + 1
  <2>1. n > 0 => n # 0
    OBVIOUS
  <2> QED BY <2>1, <1>8 DEF Begun
<1>12. ASSUME n = 0 \/ Where(p, n) # q PROVE Begun(p, n) = u[q] /\ b[q] = n
  <2>1. CASE n = 0
    <3>1. b[0] = 0 /\ u[0] = 0
      BY <1>8 DEF Sums
    <3>2. 0 \in 0 .. 4 * PosPer /\ 0 <= q
      BY <1>5, PosFacts DEF Positions
    <3>3. u[q] - u[0] <= b[q] - b[0]
      BY <3>2, <1>5, <1>8, SupportBounded
    <3>4. Begun(p, n) = 0
      BY <2>1 DEF Begun
    <3> QED BY <2>1, <3>1, <3>3, <3>4, <1>3, <1>4, <1>6, <1>8
  <2>2. CASE n # 0
    <3>1. n \in 1 .. Total(p) /\ n <= n + 1
      BY <2>2, <1>2
    <3>2. PICK r : r = Where(p, n)
      OBVIOUS
    <3>3. r \in Positions /\ b[r] < n /\ n <= b[r + 1] /\ r # q
      BY <2>2, <3>1, <3>2, <1>1, <1>12, WhereIs
    <3>4. r <= q
      BY <3>1, <3>2, <1>2, WhereGrows
    <3>5. r + 1 \in 0 .. 4 * PosPer /\ r + 1 <= q
      BY <3>3, <3>4, <1>5, PosFacts DEF Positions
    <3>6. b[r + 1] <= b[q] /\ b[r + 1] \in Nat /\ u[r + 1] <= u[q] /\ u[r + 1] \in Nat
      BY <3>5, <1>5, <1>8, SumsGrow
    <3>7. u[q] - u[r + 1] <= b[q] - b[r + 1]
      BY <3>5, <1>5, <1>8, SupportBounded
    <3>8. Begun(p, n) = u[r + 1]
      BY <2>2, <3>2 DEF Begun
    <3> QED BY <3>3, <3>6, <3>7, <3>8, <1>3, <1>4, <1>6, <1>8
  <2> QED BY <2>1, <2>2
<1>13. b[q] <= n /\ n + 1 <= b[q + 1]
  BY <1>3, <1>4, <1>6
<1> QED BY <1>1, <1>4, <1>8, <1>9, <1>10, <1>11, <1>12, <1>13

(* A further unit of the last pulse of the list.                           *)
LEMMA ListMore ==
  ASSUME NEW p \in [Positions -> Int], NEW n \in Nat, n > 0, n + 1 <= Total(p),
         Where(p, n) = Where(p, n + 1)
  PROVE  /\ Len(ListAfter(p, n)) > 0
         /\ ListAfter(p, n + 1) =
              [ListAfter(p, n) EXCEPT ![Len(ListAfter(p, n))].mag = @ + 1]
<1> DEFINE l == ListAfter(p, n)
           m == ListAfter(p, n + 1)
<1>1. PICK u : u = Before(Support(p))
  OBVIOUS
<1>2. PICK q : q = Where(p, n + 1)
  OBVIOUS
<1>3. /\ q \in Positions /\ Before(p)[q] <= n /\ n + 1 <= Before(p)[q + 1]
      /\ Begun(p, n + 1) = u[q] + 1 /\ u[q] \in Nat
      /\ Pulse(p, Begun(p, n + 1)) = q /\ Begun(p, n + 1) \in 1 .. Total(Support(p))
      /\ Begun(p, n) = u[q] + 1
  BY <1>1, <1>2, BegunNext
<1>4. Total(p) \in Nat /\ n \in 0 .. Total(p) /\ n + 1 \in 0 .. Total(p) /\ n + 1 \in Nat
  BY CountFacts
<1>5. PICK e : e = Begun(p, n)
  OBVIOUS
<1>6. /\ e \in Nat /\ e > 0 /\ Begun(p, n + 1) = e /\ Pulse(p, e) = q /\ e = u[q] + 1
      /\ e \in 1 .. Total(Support(p))
  BY <1>3, <1>5
<1>7. /\ IsSeq(l) /\ Len(l) = e /\ DOMAIN l = 1 .. e
      /\ \A j \in 1 .. e : l[j] = [pos |-> Pulse(p, j), mag |-> MagAfter(p, n, Pulse(p, j))]
  BY <1>4, <1>5, ListFacts, SeqFacts
<1>8. /\ DOMAIN m = 1 .. e
      /\ \A j \in 1 .. e : m[j] = [pos |-> Pulse(p, j), mag |-> MagAfter(p, n + 1, Pulse(p, j))]
  BY <1>4, <1>6, ListFacts, SeqFacts
<1>9. ASSUME NEW j \in 1 .. e, j # e PROVE m[j] = l[j]
  <2>1. j \in 1 .. Total(Support(p)) /\ j <= u[q]
    BY <1>3, <1>6, <1>9, PulseFacts
  <2>2. j <= Before(Support(p))[q] /\ Before(p)[q] <= n + 1
    <3>1. PICK v : v = Before(p)[q]
      OBVIOUS
    <3>2. v \in Nat
      BY <1>3, <3>1, PosFacts, BeforeSums DEF Sums, Positions
    <3> QED BY <2>1, <3>1, <3>2, <1>1, <1>3
  <2>3. MagAfter(p, n, Pulse(p, j)) = Abs(p[Pulse(p, j)])
    BY <2>1, <2>2, <1>3, EarlierFull
  <2>4. MagAfter(p, n + 1, Pulse(p, j)) = Abs(p[Pulse(p, j)])
    BY <2>1, <2>2, <1>3, <1>4, EarlierFull
  <2> QED BY <2>3, <2>4, <1>7, <1>8
<1>10. MagAfter(p, n + 1, q) = MagAfter(p, n, q) + 1
  <2>1. PICK b \in Sums(p) : b = Before(p)
    BY BeforeSums
  <2>2. b[q] \in Nat /\ b[q + 1] = b[q] + Abs(p[q]) /\ Abs(p[q]) \in Nat
    BY <1>3, SumAt
  <2>3. b[q] <= n /\ n + 1 <= b[q + 1]
    BY <2>1, <1>3
  <2> QED BY <2>1, <2>2, <2>3 DEF MagAfter, Smaller
<1> DEFINE x == [l EXCEPT ![e].mag = @ + 1]
<1>11. m[e] = [pos |-> q, mag |-> MagAfter(p, n, q) + 1] /\ l[e] = [pos |-> q, mag |-> MagAfter(p, n, q)]
  BY <1>6, <1>7, <1>8, <1>10
<1>12. ASSUME NEW j \in 1 .. e PROVE m[j] = x[j]
  <2> HIDE DEF l, m
  <2>1. CASE j = e
    <3>1. x[e] = [l[e] EXCEPT !.mag = @ + 1]
      BY <2>1, <1>7
    <3>2. PICK g : g = MagAfter(p, n, q)
      OBVIOUS
    <3> QED BY <2>1, <3>1, <3>2, <1>11
  <2>2. CASE j # e
    BY <2>2, <1>7, <1>9
  <2> QED BY <2>1, <2>2
<1>13. m = x
  <2>1. m = [j \in DOMAIN m |-> m[j]]
    BY DEF ListAfter
  <2>2. x = [j \in DOMAIN l |-> x[j]]
    OBVIOUS
  <2> HIDE DEF m, x, l
  <2>3. [j \in 1 .. e |-> m[j]] = [j \in 1 .. e |-> x[j]]
    BY <1>12
  <2> QED BY <2>1, <2>2, <2>3, <1>7, <1>8, Zenon
<1>14. Len(l) = e /\ Len(l) > 0
  BY <1>6, <1>7
<1> QED BY <1>13, <1>14

(* A unit that begins a pulse.                                             *)
LEMMA ListNew ==
  ASSUME NEW p \in [Positions -> Int], NEW n \in Nat, n + 1 <= Total(p),
         n = 0 \/ Where(p, n) # Where(p, n + 1)
  PROVE  ListAfter(p, n + 1) = Append(ListAfter(p, n), [pos |-> Where(p, n + 1), mag |-> 1])
<1> DEFINE l == ListAfter(p, n)
           m == ListAfter(p, n + 1)
<1>1. PICK u : u = Before(Support(p))
  OBVIOUS
<1>2. PICK q : q = Where(p, n + 1)
  OBVIOUS
<1>3. /\ q \in Positions /\ n + 1 <= Before(p)[q + 1]
      /\ Begun(p, n + 1) = u[q] + 1 /\ u[q] \in Nat
      /\ Pulse(p, Begun(p, n + 1)) = q /\ Begun(p, n + 1) \in 1 .. Total(Support(p))
      /\ Begun(p, n) = u[q] /\ Before(p)[q] = n
  BY <1>1, <1>2, BegunNext
<1>4. Total(p) \in Nat /\ n \in 0 .. Total(p) /\ n + 1 \in 0 .. Total(p) /\ n + 1 \in Nat
  BY CountFacts
<1>5. PICK e : e = Begun(p, n)
  OBVIOUS
<1>6. /\ e \in Nat /\ Begun(p, n + 1) = e + 1 /\ Pulse(p, e + 1) = q /\ e = u[q]
      /\ e + 1 \in 1 .. Total(Support(p))
  BY <1>3, <1>5
<1>7. /\ IsSeq(l) /\ Len(l) = e
      /\ \A j \in 1 .. e : l[j] = [pos |-> Pulse(p, j), mag |-> MagAfter(p, n, Pulse(p, j))]
  BY <1>4, <1>5, ListFacts
<1>8. /\ IsSeq(m) /\ Len(m) = e + 1
      /\ \A j \in 1 .. e + 1 : m[j] = [pos |-> Pulse(p, j), mag |-> MagAfter(p, n + 1, Pulse(p, j))]
  BY <1>4, <1>6, ListFacts
<1>9. ASSUME NEW j \in 1 .. e PROVE m[j] = l[j]
  <2>1. j \in 1 .. Total(Support(p)) /\ j <= u[q] /\ j \in 1 .. e + 1
    BY <1>3, <1>6, PulseFacts
  <2>2. j <= Before(Support(p))[q] /\ Before(p)[q] <= n + 1 /\ Before(p)[q] <= n
    BY <2>1, <1>1, <1>3
  <2>3. MagAfter(p, n, Pulse(p, j)) = Abs(p[Pulse(p, j)])
    BY <2>1, <2>2, <1>3, EarlierFull
  <2>4. MagAfter(p, n + 1, Pulse(p, j)) = Abs(p[Pulse(p, j)])
    BY <2>1, <2>2, <1>3, <1>4, EarlierFull
  <2> QED BY <2>1, <2>3, <2>4, <1>7, <1>8
<1>10. MagAfter(p, n + 1, q) = 1
  <2>1. PICK b \in Sums(p) : b = Before(p)
    BY BeforeSums
  <2>2. b[q] \in Nat /\ b[q + 1] = b[q] + Abs(p[q]) /\ Abs(p[q]) \in Nat
    BY <1>3, SumAt
  <2>3. b[q] = n /\ n + 1 <= b[q + 1]
    BY <2>1, <1>3
  <2> QED BY <2>1, <2>2, <2>3 DEF MagAfter, Smaller
<1>11. PICK x : x = [pos |-> q, mag |-> 1]
  OBVIOUS
<1>12. m[e + 1] = x
  BY <1>6, <1>8, <1>10, <1>11
<1>13. PICK c : c = Append(l, x)
  OBVIOUS
<1>14. /\ IsSeq(c) /\ Len(c) = e + 1 /\ c[e + 1] = x /\ \A j \in 1 .. e : c[j] = l[j]
  <2> DEFINE U == {l[j] : j \in DOMAIN l} \cup {x}
  <2>1. l \in Seq(U) /\ x \in U
    <3>1. l \in Seq({l[j] : j \in DOMAIN l})
      BY <1>7 DEF IsSeq
    <3> QED BY <3>1, SeqMonotonic, Zenon
  <2> HIDE DEF U, l
  <2>2. /\ c \in Seq(U) /\ Len(c) = Len(l) + 1 /\ c[Len(l) + 1] = x
        /\ \A i \in 1 .. Len(l) : c[i] = l[i]
    BY <1>13, <2>1, AppendProperties
  <2> QED BY <2>2, <1>7, ASeq
<1>15. \A j \in 1 .. Len(m) : m[j] = c[j]
  <2> HIDE DEF l, m
  <2> SUFFICES ASSUME NEW j \in 1 .. Len(m) PROVE m[j] = c[j]
    OBVIOUS
  <2>1. j \in 1 .. e \/ j = e + 1
    BY <1>6, <1>8
  <2>2. CASE j \in 1 .. e
    BY <2>2, <1>9, <1>14
  <2>3. CASE j = e + 1
    BY <2>3, <1>12, <1>14
  <2> QED BY <2>1, <2>2, <2>3
<1>16. m = c
  <2> HIDE DEF m
  <2> QED BY <1>8, <1>14, <1>15, SameSeq
<1> QED BY <1>2, <1>11, <1>13, <1>16
-----------------------------------------------------------------------------
(* The intervals of the numbers of pulses.                                 *)
LEMMA TriStep ==
  ASSUME NEW l \in Nat, NEW k \in Nat
  PROVE  triT(l, k) \in Int /\ triT(l, k + 1) = triT(l, k) + (l + 2 - k)
<1>1. PICK x \in Int : x = (k - 1) * (k - 2)
  OBVIOUS
<1>2. PICK y \in Int : y = (k + 2) * (l + 1)
  OBVIOUS
<1>3. ((k + 1) - 1) * ((k + 1) - 2) = x + 2 * (k - 1)
  <2>1. ((k + 1) - 1) * ((k + 1) - 2) = (k - 1) * (k - 2) + 2 * (k - 1)
    OBVIOUS
  <2> QED BY <2>1, <1>1
<1>4. ((k + 1) + 2) * (l + 1) = y + (l + 1)
  <2>1. ((k + 1) + 2) * (l + 1) = (k + 2) * (l + 1) + (l + 1)
    OBVIOUS
  <2> QED BY <2>1, <1>2
<1>5. (x + 2 * (k - 1)) \div 2 = x \div 2 + (k - 1) /\ x \div 2 \in Int
  OBVIOUS
<1>6. triT(l, k) = y - (x \div 2)
  BY <1>1, <1>2 DEF triT
<1>7. triT(l, k + 1) = (y + (l + 1)) - ((x + 2 * (k - 1)) \div 2)
  BY <1>3, <1>4 DEF triT
<1>8. PICK h \in Int : h = x \div 2
  BY <1>5
<1>9. triT(l, k) = y - h
  BY <1>6, <1>8
<1>10. triT(l, k + 1) = (y + (l + 1)) - (h + (k - 1))
  BY <1>5, <1>7, <1>8
<1> QED BY <1>9, <1>10

LEMMA TriZero == ASSUME NEW l \in Nat PROVE triT(l, 0) = 2 * l + 1
<1>1. (0 - 1) * (0 - 2) = 2 /\ 2 \div 2 = 1
  OBVIOUS
<1>2. triT(l, 0) = (0 + 2) * (l + 1) - 1
  BY <1>1 DEF triT
<1> QED BY <1>2

(* The intervals do not overlap.                                           *)
LEMMA TriGrows ==
  ASSUME NEW l \in Nat, NEW i \in Nat, NEW j \in Nat, i <= j, j <= l + 1
  PROVE  triT(l, i) <= triT(l, j)
<1> DEFINE S == {m \in Nat : i <= m /\ m <= l + 1 => triT(l, i) <= triT(l, m)}
<1>1. \A k \in Nat : triT(l, k) \in Int
  BY TriStep
<1>2. 0 \in S
  <2>1. i <= 0 => triT(l, i) <= triT(l, 0)
    <3>1. i <= 0 => i = 0
      OBVIOUS
    <3>2. triT(l, 0) <= triT(l, 0)
      BY <1>1
    <3> QED BY <3>1, <3>2, Zenon
  <2> QED BY <2>1
<1>3. ASSUME NEW m \in Nat, m \in S PROVE m + 1 \in S
  <2> SUFFICES ASSUME i <= m + 1, m + 1 <= l + 1 PROVE triT(l, i) <= triT(l, m + 1)
    OBVIOUS
  <2>1. CASE i = m + 1
    <3>1. triT(l, m + 1) <= triT(l, m + 1)
      BY <1>1
    <3> QED BY <3>1, <2>1, Zenon
  <2>2. CASE i # m + 1
    <3>1. triT(l, i) <= triT(l, m)
      BY <1>3, <2>2
    <3>2. triT(l, m + 1) = triT(l, m) + (l + 2 - m) /\ triT(l, m) \in Int /\ triT(l, i) \in Int
      BY TriStep
    <3> QED BY <3>1, <3>2
  <2> QED BY <2>1, <2>2
<1> HIDE DEF S
<1>4. j \in S
  BY <1>2, <1>3, NaturalsAll
<1> QED BY <1>4 DEF S

LEMMA CountFound ==
  ASSUME NEW l \in Nat, NEW n \in 0 .. l, NEW v \in Int,
         n > 0 => triT(l, n - 1) <= v, v < triT(l, n)
  PROVE  PulseCount(l, v) = n
<1> DEFINE Falls(k) == /\ k = l + 1 \/ v < triT(l, k)
                       /\ \A j \in 0 .. k - 1 : v >= triT(l, j)
<1>1. \A k \in Nat : triT(l, k) \in Int
  BY TriStep
<1>2. n \in 0 .. l + 1 /\ Falls(n)
  <2>1. ASSUME NEW j \in 0 .. n - 1 PROVE v >= triT(l, j)
    <3>1. j \in Nat /\ n - 1 \in Nat /\ j <= n - 1 /\ n - 1 <= l + 1 /\ n > 0
      OBVIOUS
    <3>2. triT(l, j) <= triT(l, n - 1)
      BY <3>1, TriGrows
    <3> QED BY <3>1, <3>2, <1>1
  <2> QED BY <2>1
<1>3. ASSUME NEW k \in 0 .. l + 1, Falls(k) PROVE k = n
  <2>1. ~(k < n)
    <3> SUFFICES ASSUME k < n PROVE FALSE
      OBVIOUS
    <3>1. k \in Nat /\ n - 1 \in Nat /\ k <= n - 1 /\ n - 1 <= l + 1 /\ k # l + 1
      OBVIOUS
    <3>2. triT(l, k) <= triT(l, n - 1) /\ triT(l, k) \in Int /\ triT(l, n - 1) \in Int
      BY <3>1, <1>1, TriGrows
    <3>3. v < triT(l, k)
      BY <1>3, <3>1
    <3> QED BY <3>1, <3>2, <3>3
  <2>2. ~(n < k)
    <3> SUFFICES ASSUME n < k PROVE FALSE
      OBVIOUS
    <3>1. n \in 0 .. k - 1 /\ n \in Nat
      OBVIOUS
    <3>2. v >= triT(l, n) /\ triT(l, n) \in Int
      BY <1>1, <1>3, <3>1
    <3> QED BY <3>2
  <2> QED BY <2>1, <2>2
<1> HIDE DEF Falls
<1>4. PulseCount(l, v) = CHOOSE k \in 0 .. l + 1 : Falls(k)
  BY DEF PulseCount, Falls
<1>5. (CHOOSE k \in 0 .. l + 1 : Falls(k)) = n
  BY <1>2, <1>3, Zenon
<1> QED BY <1>4, <1>5

(* Both ends of the interval that is coded for n pulses are those of n.    *)
LEMMA CountCoded ==
  ASSUME NEW l \in Nat, NEW n \in 0 .. l
  PROVE  /\ PulseCount(l, IF n > 0 THEN triT(l, n - 1) ELSE 0) = n
         /\ PulseCount(l, triT(l, n) - 1) = n
<1>1. triT(l, n) \in Int
  BY TriStep
<1>2. CASE n = 0
  <2>1. triT(l, 0) = 2 * l + 1
    BY TriZero
  <2>2. 0 < triT(l, 0) /\ triT(l, 0) - 1 \in Int /\ triT(l, 0) - 1 < triT(l, 0) /\ 0 \in 0 .. l /\ 0 \in Int
    BY <2>1
  <2>3. ~(0 > 0)
    OBVIOUS
  <2>4. PulseCount(l, 0) = 0 /\ PulseCount(l, triT(l, 0) - 1) = 0
    BY <2>2, <2>3, CountFound
  <2> QED BY <1>2, <2>3, <2>4, Zenon
<1>3. CASE n # 0
  <2>1. n - 1 \in Nat /\ n > 0 /\ (n - 1) + 1 = n
    BY <1>3
  <2>2. triT(l, n) = triT(l, n - 1) + (l + 2 - (n - 1)) /\ triT(l, n - 1) \in Int
    <3>1. PICK m \in Nat : m = n - 1
      BY <2>1
    <3>2. triT(l, m + 1) = triT(l, m) + (l + 2 - m) /\ triT(l, m) \in Int
      BY TriStep
    <3>3. m + 1 = n
      BY <3>1, <2>1
    <3> QED BY <3>1, <3>2, <3>3, Zenon
  <2>3. triT(l, n - 1) < triT(l, n) /\ triT(l, n - 1) <= triT(l, n) - 1 /\ triT(l, n) - 1 \in Int
        /\ triT(l, n) - 1 < triT(l, n) /\ triT(l, n - 1) <= triT(l, n - 1)
    BY <2>1, <2>2, <1>1
  <2>4. PulseCount(l, triT(l, n - 1)) = n
    BY <2>2, <2>3, CountFound
  <2>5. PulseCount(l, triT(l, n) - 1) = n
    BY <2>3, CountFound
  <2> QED BY <2>1, <2>4, <2>5, Zenon
<1> QED BY <1>2, <1>3

-----------------------------------------------------------------------------
(* How the pulses of a frame, and of a half, fall.                         *)
LEMMA HalvesFound ==
  ASSUME NEW class \in {0, 1}, NEW first \in 0 .. 2 * Granularity[class],
         NEW rest \in 0 .. 2 * Granularity[class], NEW total, total = first + rest
  PROVE  /\ ~(Least(class, total) < Lowest(total)) /\ Least(class, total) \in Int
         /\ ~(Least(class, total) < total - Lowest(total)) => first = Least(class, total)
<1>1. PICK g \in Nat : g = Granularity[class] /\ g > 0 /\ 2 * g <= HalfMax
  BY SyntaxAssumption
<1>2. HalfMax \in Nat
  BY SyntaxAssumption
<1>3. first \in 0 .. 2 * g /\ rest \in 0 .. 2 * g
  BY <1>1
<1>4. Least(class, total) = Max0(total - 2 * g)
  BY <1>1 DEF Least
<1> QED BY <1>1, <1>2, <1>3, <1>4 DEF Lowest, Max0

(* Where no symbol is coded, there is one split only.                      *)
LEMMA SplitFound ==
  ASSUME NEW class \in {0, 1}, NEW s0 \in 0 .. Granularity[class], NEW s1 \in 0 .. Granularity[class],
         NEW count, count = s0 + s1
  PROVE  /\ ~(MostOf(class, count) < LeastOf(class, count)) /\ LeastOf(class, count) \in Int
         /\ ~(MostOf(class, count) > LeastOf(class, count)) => s0 = LeastOf(class, count)
         /\ LeastOf(class, count) + (s0 - LeastOf(class, count)) = s0 /\ LeastOf(class, count) + 0 = LeastOf(class, count)
<1>1. PICK g \in Nat : g = Granularity[class]
  BY SyntaxAssumption
<1>2. s0 \in 0 .. g /\ s1 \in 0 .. g
  BY <1>1
<1> QED BY <1>1, <1>2, SyntaxAssumption, SMTT(30), ZenonT(60) DEF MostOf, LeastOf, Max0, Smaller

-----------------------------------------------------------------------------
(* The signs before each raw symbol.                                       *)
From(b) == SignBatch * (b - 1)
Batches(n) == (n + SignBatch - 1) \div SignBatch

(* The batches cover the signs, each of at most SignBatch.                 *)
LEMMA BatchFacts ==
  ASSUME NEW n \in Nat
  PROVE  /\ Batches(n) \in Nat /\ From(1) = 0
         /\ \A b \in 1 .. Batches(n) : From(b) \in Nat /\ From(b + 1) = From(b) + SignBatch /\ From(b) < n
         /\ From(Batches(n) + 1) \in Nat /\ n <= From(Batches(n) + 1)
<1>1. PICK s \in Nat : s = SignBatch /\ s > 0
  BY PosFacts
<1>2. PICK q : q = (n + s - 1) \div s
  OBVIOUS
<1>3. PICK r : r = (n + s - 1) % s
  OBVIOUS
<1>4. PICK m \in Nat : m = n + s - 1
  BY <1>1
<1>5. q \in Nat /\ r \in 0 .. s - 1 /\ m = s * q + r
  <2>1. q = m \div s /\ r = m % s
    BY <1>2, <1>3, <1>4
  <2> QED BY <2>1, <1>1, <1>4
<1>6. Batches(n) = q
  BY <1>1, <1>2 DEF Batches
<1>7. From(1) = 0
  <2>1. SignBatch * (1 - 1) = 0
    BY <1>1
  <2> QED BY <2>1 DEF From
<1>8. ASSUME NEW b \in 1 .. q
      PROVE  From(b) \in Nat /\ From(b + 1) = From(b) + SignBatch /\ From(b) < n
  <2>1. PICK c \in Nat : b = c + 1
    <3>1. b - 1 \in Nat /\ b = (b - 1) + 1
      BY <1>5
    <3> QED BY <3>1
  <2>2. PICK d \in Nat : q = c + 1 + d
    <3>1. q - (c + 1) \in Nat /\ q = c + 1 + (q - (c + 1))
      BY <1>5, <2>1
    <3> QED BY <3>1
  <2>3. From(b) = s * c
    <3>1. (c + 1) - 1 = c
      OBVIOUS
    <3> QED BY <3>1, <1>1, <2>1 DEF From
  <2>4. From(b + 1) = s * c + s
    <3>1. s * ((c + 1 + 1) - 1) = s * c + s
      BY <1>1
    <3> QED BY <3>1, <1>1, <2>1 DEF From
  <2>5. s * q = s * c + s + s * d
    <3>1. s * (c + 1 + d) = s * c + s + s * d
      BY <1>1
    <3> QED BY <3>1, <2>2
  <2>6. s * c \in Nat /\ s * d \in Nat
    BY <1>1
  <2>7. PICK x \in Nat : x = s * c
    BY <2>6
  <2>8. PICK y \in Nat : y = s * d
    BY <2>6
  <2>9. n + s - 1 = (x + s + y) + r
    BY <1>4, <1>5, <2>5, <2>7, <2>8
  <2>10. x < n
    BY <2>9, <1>1, <1>5
  <2> QED BY <1>1, <2>3, <2>4, <2>7, <2>10
<1>9. From(q + 1) = s * q
  <2>1. (q + 1) - 1 = q
    BY <1>5
  <2> QED BY <2>1, <1>1 DEF From
<1>10. PICK z \in Nat : z = s * q
  <2>1. s * q \in Nat
    BY <1>1, <1>5
  <2> QED BY <2>1
<1>11. n + s - 1 = z + r
  BY <1>4, <1>5, <1>10
<1>12. n <= z
  BY <1>11, <1>1, <1>5
<1> QED BY <1>5, <1>6, <1>7, <1>8, <1>9, <1>10, <1>12
-----------------------------------------------------------------------------
(* What the decoder has read of frame f, piece by piece.                   *)
Used(f, sf) == Count(f.pulses, sf) > 0
First(p) == Count(p, 0) + Count(p, 1)
Rest(p) == Count(p, 2) + Count(p, 3)

HeaderRead(f) ==
  [Blank EXCEPT !.stage1 = f.stage1, !.grid = f.grid, !.residual = f.residual, !.extra = f.extra]
CountRead(f) == [HeaderRead(f) EXCEPT !.total = Total(f.pulses)]
TotalRead(f) == [CountRead(f) EXCEPT !.sum = First(f.pulses)]
Split(f) == [sf \in Subframes |-> Count(f.pulses, sf)]
SplitRead(f) == IF Total(f.pulses) = 0 THEN CountRead(f) ELSE [TotalRead(f) EXCEPT !.split = Split(f)]

GainRead(r, f, sf) ==
  [r EXCEPT !.gain[sf] = f.gain[sf], !.filt[sf] = IF Used(f, sf) THEN f.filt[sf] ELSE @]
Gains1(f) == GainRead(SplitRead(f), f, 0)
Gains2(f) == GainRead(Gains1(f), f, 1)
Gains3(f) == GainRead(Gains2(f), f, 2)
Gains4(f) == GainRead(Gains3(f), f, 3)
GainsRead(f, sf) ==
  IF sf = 0 THEN SplitRead(f) ELSE IF sf = 1 THEN Gains1(f) ELSE IF sf = 2 THEN Gains2(f) ELSE Gains3(f)
ContourRead(f) == [Gains4(f) EXCEPT !.contour = f.contour]
LagsTo(f, k) == [j \in 1 .. k |-> Lag(f, j)]
LagsRead(f, k) == [ContourRead(f) EXCEPT !.lags = LagsTo(f, k)]

MainRead(f) == [SplitRead(f) EXCEPT !.main = f.main, !.delta = f.delta]
ResidualRead(r, f, sf) == [r EXCEPT !.nrg[sf] = IF Used(f, sf) THEN f.nrg[sf] ELSE @]
Residual1(f) == ResidualRead(MainRead(f), f, 0)
Residual2(f) == ResidualRead(Residual1(f), f, 1)
Residual3(f) == ResidualRead(Residual2(f), f, 2)
Residual4(f) == ResidualRead(Residual3(f), f, 3)
ResidualsRead(f, sf) ==
  IF sf = 0 THEN MainRead(f) ELSE IF sf = 1 THEN Residual1(f)
  ELSE IF sf = 2 THEN Residual2(f) ELSE Residual3(f)

(* The whole of it, before its NLSF is known.                              *)
WholeRead(f) == IF f.stage1 = 1 THEN LagsRead(f, Len(f.contour)) ELSE Residual4(f)

Fields == {"stage1", "grid", "residual", "extra", "nlsf", "total", "sum", "split", "gain", "filt",
           "contour", "lags", "main", "delta", "nrg"}

(* What EncodeSmplFrame may be given.                                      *)
WellFound(f) ==
  /\ f.stage1 \in {0, 1} /\ f.pulses \in [Positions -> Int]
  /\ \A sf \in Subframes : Count(f.pulses, sf) <= Granularity[f.stage1]
  /\ f.gain \in [Subframes -> Nat] /\ f.filt \in [Subframes -> Nat]
  /\ f.contour \in Seq(Nat) /\ f.contour # << >> /\ f.lag \in [1 .. Len(f.contour) -> Nat]

(* The header stays as it was read.                                        *)
SameHeader(r, f) ==
  /\ DOMAIN r = Fields
  /\ r.stage1 = f.stage1 /\ r.grid = f.grid /\ r.residual = f.residual /\ r.extra = f.extra

LEMMA SubframesAre == Subframes = {0, 1, 2, 3}
BY DEF Subframes

LEMMA HeaderFields ==
  ASSUME NEW f
  PROVE  /\ SameHeader(HeaderRead(f), f)
         /\ HeaderRead(f).split = [sf \in Subframes |-> 0] /\ HeaderRead(f).gain = [sf \in Subframes |-> 0]
         /\ HeaderRead(f).filt = [sf \in Subframes |-> -1] /\ HeaderRead(f).nrg = [sf \in Subframes |-> 0]
         /\ HeaderRead(f).lags = << >>
<1>1. /\ DOMAIN Blank = Fields
      /\ Blank.split = [sf \in Subframes |-> 0] /\ Blank.gain = [sf \in Subframes |-> 0]
      /\ Blank.filt = [sf \in Subframes |-> -1] /\ Blank.nrg = [sf \in Subframes |-> 0]
      /\ Blank.lags = << >>
  BY DEF Blank, Fields
<1> QED BY <1>1 DEF HeaderRead, SameHeader, Fields

LEMMA CountFields ==
  ASSUME NEW f
  PROVE  /\ SameHeader(CountRead(f), f) /\ CountRead(f).total = Total(f.pulses)
         /\ CountRead(f).split = HeaderRead(f).split /\ CountRead(f).gain = HeaderRead(f).gain
         /\ CountRead(f).filt = HeaderRead(f).filt /\ CountRead(f).nrg = HeaderRead(f).nrg
         /\ CountRead(f).lags = << >>
BY HeaderFields DEF CountRead, SameHeader, Fields

LEMMA TotalFields ==
  ASSUME NEW f
  PROVE  /\ SameHeader(TotalRead(f), f) /\ TotalRead(f).total = Total(f.pulses)
         /\ TotalRead(f).sum = First(f.pulses)
         /\ TotalRead(f).split = HeaderRead(f).split /\ TotalRead(f).gain = HeaderRead(f).gain
         /\ TotalRead(f).filt = HeaderRead(f).filt /\ TotalRead(f).nrg = HeaderRead(f).nrg
         /\ TotalRead(f).lags = << >>
BY CountFields DEF TotalRead, SameHeader, Fields

LEMMA SplitFields ==
  ASSUME NEW f, WellFound(f)
  PROVE  /\ SameHeader(SplitRead(f), f)
         /\ SplitRead(f).split = Split(f) /\ SplitRead(f).gain = [sf \in Subframes |-> 0]
         /\ SplitRead(f).filt = [sf \in Subframes |-> -1] /\ SplitRead(f).nrg = [sf \in Subframes |-> 0]
         /\ SplitRead(f).lags = << >>
<1>1. CASE Total(f.pulses) = 0
  <2>1. \A sf \in Subframes : Count(f.pulses, sf) = 0
    <3>1. /\ \A sf \in Subframes : Count(f.pulses, sf) \in Nat
          /\ Total(f.pulses) = Count(f.pulses, 0) + Count(f.pulses, 1) + (Count(f.pulses, 2) + Count(f.pulses, 3))
      BY CountFacts DEF WellFound
    <3>2. Subframes = {0, 1, 2, 3}
      BY DEF Subframes
    <3>3. PICK c \in [Subframes -> Nat] : \A sf \in Subframes : c[sf] = Count(f.pulses, sf)
      <4>1. Split(f) \in [Subframes -> Nat] /\ \A sf \in Subframes : Split(f)[sf] = Count(f.pulses, sf)
        BY <3>1, Zenon DEF Split
      <4> QED BY <4>1
    <3>4. c[0] + c[1] + (c[2] + c[3]) = 0
      BY <3>1, <3>2, <3>3, <1>1
    <3>5. c[0] = 0 /\ c[1] = 0 /\ c[2] = 0 /\ c[3] = 0
      BY <3>2, <3>4
    <3> QED BY <3>2, <3>3, <3>5
  <2>2. Split(f) = [sf \in Subframes |-> 0]
    BY <2>1 DEF Split
  <2>3. SplitRead(f) = CountRead(f)
    BY <1>1 DEF SplitRead
  <2>4. /\ SameHeader(CountRead(f), f) /\ CountRead(f).split = Split(f)
        /\ CountRead(f).gain = [sf \in Subframes |-> 0] /\ CountRead(f).filt = [sf \in Subframes |-> -1]
        /\ CountRead(f).nrg = [sf \in Subframes |-> 0] /\ CountRead(f).lags = << >>
    BY <2>2, HeaderFields, CountFields, Zenon
  <2> QED BY <2>3, <2>4, Zenon
<1>2. CASE Total(f.pulses) # 0
  <2> DEFINE r == TotalRead(f)
             x == Split(f)
  <2>1. /\ SameHeader(r, f)
        /\ r.gain = [sf \in Subframes |-> 0]
        /\ r.filt = [sf \in Subframes |-> -1] /\ r.nrg = [sf \in Subframes |-> 0]
        /\ r.lags = << >>
    BY HeaderFields, TotalFields
  <2>2. SplitRead(f) = [r EXCEPT !.split = x]
    BY <1>2 DEF SplitRead
  <2> HIDE DEF r, x
  <2>3. /\ SameHeader([r EXCEPT !.split = x], f)
        /\ [r EXCEPT !.split = x].split = x /\ [r EXCEPT !.split = x].gain = r.gain
        /\ [r EXCEPT !.split = x].filt = r.filt /\ [r EXCEPT !.split = x].nrg = r.nrg
        /\ [r EXCEPT !.split = x].lags = r.lags
    BY <2>1 DEF SameHeader, Fields
  <2> QED BY <2>1, <2>2, <2>3 DEF x
<1> QED BY <1>1, <1>2
(* What a frame with pulses or without has for its filters.                *)
Filters(f) == [sf \in Subframes |-> IF Used(f, sf) THEN f.filt[sf] ELSE -1]

(* The fields that a turn for a subframe leaves alone.                     *)
SameParts(r, f) == SameHeader(r, f) /\ r.split = Split(f) /\ r.lags = << >>

LEMMA GainReadFields ==
  ASSUME NEW f, WellFound(f), NEW r, SameParts(r, f), NEW sf \in Subframes,
         DOMAIN r.gain = Subframes, DOMAIN r.filt = Subframes
  PROVE  /\ SameParts(GainRead(r, f, sf), f)
         /\ DOMAIN GainRead(r, f, sf).gain = Subframes /\ DOMAIN GainRead(r, f, sf).filt = Subframes
         /\ GainRead(r, f, sf).gain[sf] = f.gain[sf]
         /\ GainRead(r, f, sf).filt[sf] = IF Used(f, sf) THEN f.filt[sf] ELSE r.filt[sf]
         /\ \A s \in Subframes \ {sf} :
              GainRead(r, f, sf).gain[s] = r.gain[s] /\ GainRead(r, f, sf).filt[s] = r.filt[s]
<1> DEFINE x == f.gain[sf]
           y == IF Used(f, sf) THEN f.filt[sf] ELSE r.filt[sf]
           n == [r EXCEPT !.gain = [r.gain EXCEPT ![sf] = x], !.filt = [r.filt EXCEPT ![sf] = y]]
<1>1. GainRead(r, f, sf) = n
  BY DEF GainRead, SameParts, SameHeader, Fields
<1> HIDE DEF x, y
<1>2. SameParts(n, f) /\ n.gain = [r.gain EXCEPT ![sf] = x] /\ n.filt = [r.filt EXCEPT ![sf] = y]
  BY DEF SameParts, SameHeader, Fields
<1> HIDE DEF n
<1>3. /\ DOMAIN n.gain = Subframes /\ DOMAIN n.filt = Subframes /\ n.gain[sf] = x /\ n.filt[sf] = y
      /\ \A s \in Subframes \ {sf} : n.gain[s] = r.gain[s] /\ n.filt[s] = r.filt[s]
  BY <1>2
<1> QED BY <1>1, <1>2, <1>3 DEF x, y

(* After the four turns the gains and the filters are those of the frame.  *)
LEMMA Gains4Fields ==
  ASSUME NEW f, WellFound(f)
  PROVE  /\ SameParts(SplitRead(f), f) /\ SameParts(Gains1(f), f) /\ SameParts(Gains2(f), f)
         /\ SameParts(Gains3(f), f) /\ SameParts(Gains4(f), f)
         /\ Gains4(f).gain = f.gain /\ Gains4(f).filt = Filters(f)
<1>1. 0 \in Subframes /\ 1 \in Subframes /\ 2 \in Subframes /\ 3 \in Subframes
  BY SubframesAre
<1>2. /\ SameParts(SplitRead(f), f) /\ DOMAIN SplitRead(f).gain = Subframes
      /\ DOMAIN SplitRead(f).filt = Subframes /\ \A sf \in Subframes : SplitRead(f).filt[sf] = -1
  BY SplitFields DEF SameParts
<1> DEFINE s1 == Gains1(f)
           s2 == Gains2(f)
           s3 == Gains3(f)
           s4 == Gains4(f)
<1>3. /\ SameParts(s1, f) /\ DOMAIN s1.gain = Subframes /\ DOMAIN s1.filt = Subframes
      /\ s1.gain[0] = f.gain[0] /\ s1.filt[0] = (IF Used(f, 0) THEN f.filt[0] ELSE -1)
      /\ \A s \in Subframes \ {0} : s1.filt[s] = -1
  <2>1. PICK r : r = SplitRead(f)
    OBVIOUS
  <2>2. /\ SameParts(r, f) /\ DOMAIN r.gain = Subframes /\ DOMAIN r.filt = Subframes
        /\ \A sf \in Subframes : r.filt[sf] = -1
    BY <1>2, <2>1, Zenon
  <2>3. s1 = GainRead(r, f, 0)
    BY <2>1 DEF Gains1
  <2>4. PICK n : n = GainRead(r, f, 0)
    OBVIOUS
  <2>5. /\ SameParts(n, f) /\ DOMAIN n.gain = Subframes /\ DOMAIN n.filt = Subframes
        /\ n.gain[0] = f.gain[0] /\ n.filt[0] = IF Used(f, 0) THEN f.filt[0] ELSE r.filt[0]
        /\ \A s \in Subframes \ {0} : n.gain[s] = r.gain[s] /\ n.filt[s] = r.filt[s]
    <3>1. PICK z \in Subframes : z = 0
      BY <1>1
    <3>2. n = GainRead(r, f, z)
      BY <2>4, <3>1
    <3> QED BY <2>2, <3>1, <3>2, GainReadFields
  <2>6. r.filt[0] = -1 /\ \A s \in Subframes \ {0} : n.filt[s] = -1
    BY <2>2, <2>5, <1>1
  <2>7. n = s1
    BY <2>3, <2>4
  <2> HIDE DEF s1
  <2> QED BY <2>5, <2>6, <2>7, Zenon
<1>4. /\ SameParts(s2, f) /\ DOMAIN s2.gain = Subframes /\ DOMAIN s2.filt = Subframes
      /\ s2.gain[1] = f.gain[1] /\ s2.filt[1] = (IF Used(f, 1) THEN f.filt[1] ELSE s1.filt[1])
      /\ \A s \in Subframes \ {1} : s2.gain[s] = s1.gain[s] /\ s2.filt[s] = s1.filt[s]
  BY <1>1, <1>3, GainReadFields DEF Gains2
<1>5. /\ SameParts(s3, f) /\ DOMAIN s3.gain = Subframes /\ DOMAIN s3.filt = Subframes
      /\ s3.gain[2] = f.gain[2] /\ s3.filt[2] = (IF Used(f, 2) THEN f.filt[2] ELSE s2.filt[2])
      /\ \A s \in Subframes \ {2} : s3.gain[s] = s2.gain[s] /\ s3.filt[s] = s2.filt[s]
  BY <1>1, <1>4, GainReadFields DEF Gains3
<1>6. /\ SameParts(s4, f) /\ DOMAIN s4.gain = Subframes /\ DOMAIN s4.filt = Subframes
      /\ s4.gain[3] = f.gain[3] /\ s4.filt[3] = (IF Used(f, 3) THEN f.filt[3] ELSE s3.filt[3])
      /\ \A s \in Subframes \ {3} : s4.gain[s] = s3.gain[s] /\ s4.filt[s] = s3.filt[s]
  BY <1>1, <1>5, GainReadFields DEF Gains4
<1> HIDE DEF s1, s2, s3, s4
<1>7. \A sf \in Subframes : s4.gain[sf] = f.gain[sf]
  BY <1>3, <1>4, <1>5, <1>6, SubframesAre
<1>8. \A sf \in Subframes : s4.filt[sf] = IF Used(f, sf) THEN f.filt[sf] ELSE -1
  BY <1>3, <1>4, <1>5, <1>6, SubframesAre
<1>9. DOMAIN f.gain = Subframes /\ f.gain = [sf \in DOMAIN f.gain |-> f.gain[sf]]
  BY DEF WellFound
<1>10. s4.gain = [sf \in DOMAIN s4.gain |-> s4.gain[sf]] /\ s4.filt = [sf \in DOMAIN s4.filt |-> s4.filt[sf]]
  <2>1. PICK r : r = Gains3(f)
    OBVIOUS
  <2>2. DOMAIN r = Fields
    BY <1>5, <2>1 DEF s3, SameParts, SameHeader
  <2> DEFINE x == f.gain[3]
             y == IF Used(f, 3) THEN f.filt[3] ELSE r.filt[3]
             n == [r EXCEPT !.gain = [r.gain EXCEPT ![3] = x], !.filt = [r.filt EXCEPT ![3] = y]]
  <2>3. Gains4(f) = n
    BY <2>1, <2>2 DEF Gains4, GainRead, Fields
  <2> HIDE DEF x, y
  <2>4. n.gain = [r.gain EXCEPT ![3] = x] /\ n.filt = [r.filt EXCEPT ![3] = y]
    BY <2>2 DEF Fields
  <2>5. [r.gain EXCEPT ![3] = x] = [sf \in DOMAIN [r.gain EXCEPT ![3] = x] |-> [r.gain EXCEPT ![3] = x][sf]]
    OBVIOUS
  <2>6. [r.filt EXCEPT ![3] = y] = [sf \in DOMAIN [r.filt EXCEPT ![3] = y] |-> [r.filt EXCEPT ![3] = y][sf]]
    OBVIOUS
  <2> HIDE DEF n
  <2> QED BY <2>3, <2>4, <2>5, <2>6, Zenon DEF s4
<1>11. s4.gain = f.gain
  <2>1. [sf \in Subframes |-> s4.gain[sf]] = [sf \in Subframes |-> f.gain[sf]]
    BY <1>7
  <2> QED BY <2>1, <1>6, <1>9, <1>10, Zenon
<1>12. s4.filt = Filters(f)
  <2>1. [sf \in Subframes |-> s4.filt[sf]] = Filters(f)
    BY <1>8 DEF Filters
  <2> QED BY <2>1, <1>6, <1>10, Zenon
<1> QED BY <1>2, <1>3, <1>4, <1>5, <1>6, <1>11, <1>12 DEF s1, s2, s3, s4

LEMMA LagsFields ==
  ASSUME NEW f, WellFound(f), NEW k
  PROVE  /\ SameHeader(LagsRead(f, k), f) /\ LagsRead(f, k).split = Split(f)
         /\ LagsRead(f, k).gain = f.gain /\ LagsRead(f, k).filt = Filters(f)
         /\ LagsRead(f, k).contour = f.contour /\ LagsRead(f, k).lags = LagsTo(f, k)
         /\ DOMAIN ContourRead(f) = Fields /\ ContourRead(f).lags = << >>
         /\ ContourRead(f).contour = f.contour /\ ContourRead(f).gain = f.gain
<1> DEFINE r == Gains4(f)
           l == LagsTo(f, k)
           c == [r EXCEPT !.contour = f.contour]
           n == [c EXCEPT !.lags = l]
<1>1. /\ SameHeader(r, f) /\ r.split = Split(f) /\ r.gain = f.gain /\ r.filt = Filters(f) /\ r.lags = << >>
  BY Gains4Fields DEF SameParts
<1>2. ContourRead(f) = c /\ LagsRead(f, k) = n
  BY DEF ContourRead, LagsRead
<1> HIDE DEF r, l
<1>3. /\ SameHeader(c, f) /\ c.split = Split(f) /\ c.gain = f.gain /\ c.filt = Filters(f)
      /\ c.contour = f.contour /\ c.lags = << >>
  BY <1>1 DEF SameHeader, Fields
<1> HIDE DEF c
<1>4. /\ SameHeader(n, f) /\ n.split = Split(f) /\ n.gain = f.gain /\ n.filt = Filters(f)
      /\ n.contour = f.contour /\ n.lags = l
  BY <1>3 DEF SameHeader, Fields
<1> HIDE DEF n
<1> QED BY <1>2, <1>3, <1>4 DEF l, SameHeader

LEMMA LagsNone == ASSUME NEW f, WellFound(f) PROVE LagsRead(f, 0) = ContourRead(f)
<1> DEFINE r == ContourRead(f)
<1>1. DOMAIN r = Fields /\ r.lags = << >>
  BY LagsFields
<1>2. LagsTo(f, 0) = << >>
  BY DEF LagsTo
<1>3. r = [x \in DOMAIN r |-> r[x]]
  BY DEF ContourRead
<1>4. LagsRead(f, 0) = [r EXCEPT !.lags = << >>]
  BY <1>2 DEF LagsRead
<1> HIDE DEF r
<1>5. [r EXCEPT !.lags = << >>] = [x \in DOMAIN r |-> IF x = "lags" THEN << >> ELSE r[x]]
  BY <1>1 DEF Fields
<1>6. [x \in DOMAIN r |-> IF x = "lags" THEN << >> ELSE r[x]] = [x \in DOMAIN r |-> r[x]]
  <2>1. \A x \in DOMAIN r : (IF x = "lags" THEN << >> ELSE r[x]) = r[x]
    BY <1>1, Zenon
  <2> QED BY <2>1, Zenon
<1> QED BY <1>3, <1>4, <1>5, <1>6, Zenon DEF r

(* One more lag is read.                                                   *)
LEMMA LagsNext ==
  ASSUME NEW f, WellFound(f), NEW k \in Nat
  PROVE  [LagsRead(f, k) EXCEPT !.lags = Append(@, Lag(f, k + 1))] = LagsRead(f, k + 1)
<1>1. IsSeq(LagsTo(f, k)) /\ Len(LagsTo(f, k)) = k
  <2>1. LagsTo(f, k) \in [1 .. k -> {LagsTo(f, k)[j] : j \in 1 .. k}]
    BY Zenon DEF LagsTo
  <2> QED BY <2>1, FunctionSeq
<1>2. IsSeq(LagsTo(f, k + 1)) /\ Len(LagsTo(f, k + 1)) = k + 1
  <2>1. LagsTo(f, k + 1) \in [1 .. k + 1 -> {LagsTo(f, k + 1)[j] : j \in 1 .. k + 1}]
    BY Zenon DEF LagsTo
  <2>2. k + 1 \in Nat
    OBVIOUS
  <2> QED BY <2>1, <2>2, FunctionSeq, Zenon
<1>3. Append(LagsTo(f, k), Lag(f, k + 1)) = LagsTo(f, k + 1)
  <2> DEFINE l == LagsTo(f, k)
             m == LagsTo(f, k + 1)
             x == Lag(f, k + 1)
             U == {l[j] : j \in DOMAIN l} \cup {x}
  <2>1. l \in Seq(U) /\ x \in U
    <3>1. l \in Seq({l[j] : j \in DOMAIN l})
      BY <1>1 DEF IsSeq
    <3> QED BY <3>1, SeqMonotonic, Zenon
  <2>2. /\ \A j \in 1 .. k : l[j] = Lag(f, j) /\ m[j] = Lag(f, j)
        /\ m[k + 1] = x
    BY DEF LagsTo
  <2> HIDE DEF U, l, m, x
  <2>3. PICK c : c = Append(l, x)
    OBVIOUS
  <2>4. /\ c \in Seq(U) /\ Len(c) = Len(l) + 1 /\ c[Len(l) + 1] = x
        /\ \A i \in 1 .. Len(l) : c[i] = l[i]
    BY <2>1, <2>3, AppendProperties
  <2>5. IsSeq(c) /\ Len(c) = k + 1 /\ c[k + 1] = x /\ \A i \in 1 .. k : c[i] = l[i]
    BY <2>4, <1>1, ASeq DEF l
  <2>6. \A j \in 1 .. Len(m) : m[j] = c[j]
    BY <2>2, <2>5, <1>2 DEF m
  <2>7. m = c
    BY <2>5, <2>6, <1>2, SameSeq DEF m
  <2> QED BY <2>3, <2>7 DEF l, m, x
<1> DEFINE r == ContourRead(f)
           a == LagsTo(f, k)
           b == LagsTo(f, k + 1)
           y == Lag(f, k + 1)
<1>4. DOMAIN r = Fields
  BY LagsFields
<1>5. LagsRead(f, k) = [r EXCEPT !.lags = a] /\ LagsRead(f, k + 1) = [r EXCEPT !.lags = b]
      /\ Append(a, y) = b
  BY <1>3 DEF LagsRead
<1> HIDE DEF r, a, b, y
<1>6. [[r EXCEPT !.lags = a] EXCEPT !.lags = Append(@, y)] = [r EXCEPT !.lags = b]
  BY <1>4, <1>5 DEF Fields
<1> QED BY <1>5, <1>6 DEF y
(* The fields that a residual leaves alone.                                *)
GainParts(r, f) == SameHeader(r, f) /\ r.split = Split(f) /\ r.main = f.main /\ r.delta = f.delta

LEMMA ResidualReadFields ==
  ASSUME NEW f, NEW r, GainParts(r, f), NEW sf \in Subframes, DOMAIN r.nrg = Subframes
  PROVE  /\ GainParts(ResidualRead(r, f, sf), f) /\ DOMAIN ResidualRead(r, f, sf).nrg = Subframes
         /\ Used(f, sf) => ResidualRead(r, f, sf).nrg[sf] = f.nrg[sf]
         /\ \A s \in Subframes \ {sf} : ResidualRead(r, f, sf).nrg[s] = r.nrg[s]
<1> DEFINE x == IF Used(f, sf) THEN f.nrg[sf] ELSE r.nrg[sf]
           n == [r EXCEPT !.nrg = [r.nrg EXCEPT ![sf] = x]]
<1>1. ResidualRead(r, f, sf) = n
  BY DEF ResidualRead, GainParts, SameHeader, Fields
<1>2. Used(f, sf) => x = f.nrg[sf]
  OBVIOUS
<1> HIDE DEF x
<1>3. GainParts(n, f) /\ n.nrg = [r.nrg EXCEPT ![sf] = x]
  BY DEF GainParts, SameHeader, Fields
<1> HIDE DEF n
<1>4. /\ DOMAIN n.nrg = Subframes /\ n.nrg[sf] = x
      /\ \A s \in Subframes \ {sf} : n.nrg[s] = r.nrg[s]
  BY <1>3
<1> QED BY <1>1, <1>2, <1>3, <1>4

LEMMA MainFields ==
  ASSUME NEW f, WellFound(f)
  PROVE  GainParts(MainRead(f), f) /\ DOMAIN MainRead(f).nrg = Subframes
<1> DEFINE r == SplitRead(f)
           n == [r EXCEPT !.main = f.main, !.delta = f.delta]
<1>1. SameHeader(r, f) /\ r.split = Split(f) /\ DOMAIN r.nrg = Subframes
  BY SplitFields
<1>2. MainRead(f) = n
  BY DEF MainRead
<1> HIDE DEF r
<1>3. GainParts(n, f) /\ n.nrg = r.nrg
  BY <1>1 DEF GainParts, SameHeader, Fields
<1> QED BY <1>1, <1>2, <1>3

(* After the four turns the residuals are those of the frame.              *)
LEMMA Residual4Fields ==
  ASSUME NEW f, WellFound(f)
  PROVE  /\ GainParts(MainRead(f), f) /\ GainParts(Residual1(f), f) /\ GainParts(Residual2(f), f)
         /\ GainParts(Residual3(f), f) /\ GainParts(Residual4(f), f)
         /\ \A sf \in Subframes : Used(f, sf) => Residual4(f).nrg[sf] = f.nrg[sf]
<1>1. 0 \in Subframes /\ 1 \in Subframes /\ 2 \in Subframes /\ 3 \in Subframes
  BY SubframesAre
<1>2. GainParts(MainRead(f), f) /\ DOMAIN MainRead(f).nrg = Subframes
  BY MainFields
<1> DEFINE s1 == Residual1(f)
           s2 == Residual2(f)
           s3 == Residual3(f)
           s4 == Residual4(f)
<1>3. /\ GainParts(s1, f) /\ DOMAIN s1.nrg = Subframes /\ (Used(f, 0) => s1.nrg[0] = f.nrg[0])
  BY <1>1, <1>2, ResidualReadFields DEF Residual1
<1>4. /\ GainParts(s2, f) /\ DOMAIN s2.nrg = Subframes /\ (Used(f, 1) => s2.nrg[1] = f.nrg[1])
      /\ \A s \in Subframes \ {1} : s2.nrg[s] = s1.nrg[s]
  BY <1>1, <1>3, ResidualReadFields DEF Residual2
<1>5. /\ GainParts(s3, f) /\ DOMAIN s3.nrg = Subframes /\ (Used(f, 2) => s3.nrg[2] = f.nrg[2])
      /\ \A s \in Subframes \ {2} : s3.nrg[s] = s2.nrg[s]
  BY <1>1, <1>4, ResidualReadFields DEF Residual3
<1>6. /\ GainParts(s4, f) /\ DOMAIN s4.nrg = Subframes /\ (Used(f, 3) => s4.nrg[3] = f.nrg[3])
      /\ \A s \in Subframes \ {3} : s4.nrg[s] = s3.nrg[s]
  BY <1>1, <1>5, ResidualReadFields DEF Residual4
<1> HIDE DEF s1, s2, s3, s4
<1>7. \A sf \in Subframes : Used(f, sf) => s4.nrg[sf] = f.nrg[sf]
  BY <1>3, <1>4, <1>5, <1>6, SubframesAre
<1> QED BY <1>2, <1>3, <1>4, <1>5, <1>6, <1>7 DEF s1, s2, s3, s4

-----------------------------------------------------------------------------
(* The predictors of the encoder, as the decoder keeps them.               *)
DecoderAt(s, nlsf) ==
  [stage1 |-> s.stage1, gain |-> s.gain, filt |-> s.filt, lag |-> s.blk, frac |-> s.idx, nlsf |-> nlsf]

Predictors == [stage1 : {0, 1}, gain : Int, filt : Int, blk : Int, idx : Int]

(* What the decoder has of them.                                           *)
LEMMA DecoderFields ==
  ASSUME NEW s, NEW x
  PROVE  /\ DecoderAt(s, x).stage1 = s.stage1 /\ DecoderAt(s, x).gain = s.gain
         /\ DecoderAt(s, x).filt = s.filt /\ DecoderAt(s, x).lag = s.blk
         /\ DecoderAt(s, x).frac = s.idx /\ DecoderAt(s, x).nlsf = x
BY DEF DecoderAt

LEMMA GainKeeps ==
  ASSUME NEW s \in Predictors, NEW f, WellFound(f), NEW sf \in Subframes
  PROVE  /\ GainCoded(s, f, sf) \in Predictors /\ GainCoded(s, f, sf).stage1 = s.stage1
         /\ GainCoded(s, f, sf).blk = s.blk /\ GainCoded(s, f, sf).idx = s.idx
         /\ GainCoded(s, f, sf).gain = f.gain[sf]
         /\ GainCoded(s, f, sf).filt = IF Used(f, sf) THEN f.filt[sf] ELSE s.filt
<1>1. PICK g \in Int : g = f.gain[sf]
  BY DEF WellFound
<1>2. PICK v \in Int : v = IF Used(f, sf) THEN f.filt[sf] ELSE s.filt
  BY DEF WellFound, Predictors
<1>3. GainCoded(s, f, sf) = [s EXCEPT !.gain = g, !.filt = v]
  BY <1>1, <1>2 DEF GainCoded, Used, Predictors
<1>4. /\ [s EXCEPT !.gain = g, !.filt = v] \in Predictors
      /\ [s EXCEPT !.gain = g, !.filt = v].stage1 = s.stage1
      /\ [s EXCEPT !.gain = g, !.filt = v].blk = s.blk /\ [s EXCEPT !.gain = g, !.filt = v].idx = s.idx
      /\ [s EXCEPT !.gain = g, !.filt = v].gain = g /\ [s EXCEPT !.gain = g, !.filt = v].filt = v
  BY DEF Predictors
<1> QED BY <1>1, <1>2, <1>3, <1>4

WithGain(d, gain, filt) == [d EXCEPT !.gain = gain, !.filt = filt]
NewFilter(s, f, sf) == IF Used(f, sf) THEN f.filt[sf] ELSE s.filt

(* A turn of the gains does the same to both.                              *)
LEMMA DecoderGain ==
  ASSUME NEW s \in Predictors, NEW f, WellFound(f), NEW sf \in Subframes, NEW x
  PROVE  WithGain(DecoderAt(s, x), f.gain[sf], NewFilter(s, f, sf)) = DecoderAt(GainCoded(s, f, sf), x)
<1> PICK d : d = DecoderAt(s, x)
  OBVIOUS
<1> PICK g : g = f.gain[sf]
  OBVIOUS
<1> PICK v : v = NewFilter(s, f, sf)
  OBVIOUS
<1>1. PICK n : n = GainCoded(s, f, sf)
  OBVIOUS
<1>2. n.stage1 = s.stage1 /\ n.blk = s.blk /\ n.idx = s.idx /\ n.gain = g /\ n.filt = v
  BY <1>1, GainKeeps DEF NewFilter
<1> DEFINE S == {"stage1", "gain", "filt", "lag", "frac", "nlsf"}
           l == [d EXCEPT !.gain = g, !.filt = v]
           r == DecoderAt(n, x)
<1>3. DOMAIN d = S /\ d = [z \in DOMAIN d |-> d[z]] /\ DOMAIN r = S /\ r = [z \in DOMAIN r |-> r[z]]
  BY DEF DecoderAt
<1>4. /\ r.stage1 = n.stage1 /\ r.gain = n.gain /\ r.filt = n.filt /\ r.lag = n.blk
      /\ r.frac = n.idx /\ r.nlsf = x
  BY DEF DecoderAt
<1>5. /\ d.stage1 = s.stage1 /\ d.lag = s.blk /\ d.frac = s.idx /\ d.nlsf = x
  BY DEF DecoderAt
<1> HIDE DEF r
<1>6. DOMAIN l = S /\ l = [z \in DOMAIN l |-> l[z]]
  BY <1>3
<1>7. /\ l.stage1 = d.stage1 /\ l.gain = g /\ l.filt = v /\ l.lag = d.lag /\ l.frac = d.frac
      /\ l.nlsf = d.nlsf
  BY <1>3
<1> HIDE DEF l
<1>8. [z \in S |-> l[z]] = [z \in S |-> r[z]]
  BY <1>2, <1>4, <1>5, <1>7
<1>9. l = r
  BY <1>3, <1>6, <1>8, Zenon
<1> QED BY <1>1, <1>9 DEF l, r, WithGain

(* The predictor while the lags are coded: those of lag k, if it was.      *)
LagState(s, f, k) == IF k = 0 THEN s ELSE [s EXCEPT !.blk = f.contour[k], !.idx = Lag(f, k)]

LEMMA LagInt ==
  ASSUME NEW f, WellFound(f), NEW k \in 1 .. Len(f.contour)
  PROVE  /\ Len(f.contour) \in Nat /\ Len(f.contour) > 0
         /\ f.contour[k] \in Nat /\ f.contour[k] * BlockSize \in Nat /\ f.lag[k] \in Nat /\ Lag(f, k) \in Nat
         /\ Lag(f, k) = f.contour[k] * BlockSize + f.lag[k]
<1>1. f.contour \in Seq(Nat) /\ f.contour # << >> /\ f.lag \in [1 .. Len(f.contour) -> Nat]
  BY DEF WellFound
<1>2. Len(f.contour) \in Nat /\ f.contour[k] \in Nat
  BY <1>1, LenProperties, ElementOfSeq
<1>3. Len(f.contour) > 0
  BY <1>2
<1>4. BlockSize \in Nat
  BY SyntaxAssumption
<1>5. f.contour[k] * BlockSize \in Nat
  BY <1>2, <1>4
<1>6. PICK m \in Nat : m = f.contour[k] * BlockSize
  BY <1>5
<1>7. f.lag[k] \in Nat
  BY <1>1
<1> QED BY <1>2, <1>3, <1>5, <1>6, <1>7 DEF Lag

LEMMA LagStateIs ==
  ASSUME NEW s \in Predictors, NEW f, WellFound(f), NEW k \in 1 .. Len(f.contour)
  PROVE  /\ LagState(s, f, k) \in Predictors /\ LagState(s, f, k).stage1 = s.stage1
         /\ LagState(s, f, k).gain = s.gain /\ LagState(s, f, k).filt = s.filt
         /\ LagState(s, f, k).blk = f.contour[k] /\ LagState(s, f, k).idx = Lag(f, k)
<1>1. PICK b \in Int : b = f.contour[k]
  BY LagInt
<1>2. PICK i \in Int : i = Lag(f, k)
  BY LagInt
<1>3. k # 0
  BY LagInt
<1>4. LagState(s, f, k) = [s EXCEPT !.blk = b, !.idx = i]
  BY <1>1, <1>2, <1>3 DEF LagState
<1> QED BY <1>1, <1>2, <1>4 DEF Predictors

WithLag(d, lag, blk) == [d EXCEPT !.frac = lag, !.lag = blk]

(* A lag does the same to both.                                            *)
LEMMA LagStateNext ==
  ASSUME NEW s \in Predictors, NEW f, WellFound(f), NEW k \in Nat, k < Len(f.contour), NEW x
  PROVE  WithLag(DecoderAt(LagState(s, f, k), x), Lag(f, k + 1), f.contour[k + 1])
           = DecoderAt(LagState(s, f, k + 1), x)
<1> PICK d : d = DecoderAt(LagState(s, f, k), x)
  OBVIOUS
<1> PICK lag : lag = Lag(f, k + 1)
  OBVIOUS
<1> PICK blk : blk = f.contour[k + 1]
  OBVIOUS
<1>1. k + 1 \in 1 .. Len(f.contour)
  <2>1. Len(f.contour) \in Nat
    BY LenProperties DEF WellFound
  <2> QED BY <2>1
<1>2. PICK t : t = LagState(s, f, k)
  OBVIOUS
<1>3. PICK n : n = LagState(s, f, k + 1)
  OBVIOUS
<1>4. t.stage1 = s.stage1 /\ t.gain = s.gain /\ t.filt = s.filt
  <2>1. CASE k = 0
    BY <2>1, <1>2 DEF LagState
  <2>2. CASE k # 0
    <3>1. k \in 1 .. Len(f.contour)
      BY <2>2, <1>1
    <3> QED BY <3>1, <1>2, LagStateIs
  <2> QED BY <2>1, <2>2
<1>5. n.stage1 = s.stage1 /\ n.gain = s.gain /\ n.filt = s.filt /\ n.blk = blk /\ n.idx = lag
  BY <1>1, <1>3, LagStateIs
<1> DEFINE S == {"stage1", "gain", "filt", "lag", "frac", "nlsf"}
           l == [d EXCEPT !.frac = lag, !.lag = blk]
           r == DecoderAt(n, x)
<1>6. DOMAIN d = S /\ d = [z \in DOMAIN d |-> d[z]] /\ DOMAIN r = S /\ r = [z \in DOMAIN r |-> r[z]]
  BY DEF DecoderAt
<1>7. /\ r.stage1 = n.stage1 /\ r.gain = n.gain /\ r.filt = n.filt /\ r.lag = n.blk
      /\ r.frac = n.idx /\ r.nlsf = x
  BY DEF DecoderAt
<1>8. /\ d.stage1 = t.stage1 /\ d.gain = t.gain /\ d.filt = t.filt /\ d.nlsf = x
  BY <1>2 DEF DecoderAt
<1> HIDE DEF r
<1>9. DOMAIN l = S /\ l = [z \in DOMAIN l |-> l[z]]
  BY <1>6
<1>10. /\ l.stage1 = d.stage1 /\ l.gain = d.gain /\ l.filt = d.filt /\ l.lag = blk /\ l.frac = lag
       /\ l.nlsf = d.nlsf
  BY <1>6
<1> HIDE DEF l
<1>11. [z \in S |-> l[z]] = [z \in S |-> r[z]]
  BY <1>4, <1>5, <1>7, <1>8, <1>10
<1>12. l = r
  BY <1>6, <1>9, <1>11, Zenon
<1> QED BY <1>3, <1>12 DEF l, r, WithLag
-----------------------------------------------------------------------------
(* The body, piece by piece.                                               *)
Apart(a, b, c) == IsSeq(a) /\ IsSeq(b) /\ IsSeq(c)
AllApart(a, b, c, d, x) == IsSeq(a) /\ IsSeq(b) /\ IsSeq(c) /\ IsSeq(d) /\ IsSeq(x)

LEMMA Nest3 ==
  ASSUME NEW a, NEW b, NEW c, Apart(a, b, c)
  PROVE  /\ IsSeq(a \o b) /\ IsSeq(b \o c) /\ IsSeq((a \o b) \o c) /\ IsSeq(a \o (b \o c))
         /\ (a \o b) \o c = a \o (b \o c)
<1>1. IsSeq(a) /\ IsSeq(b) /\ IsSeq(c)
  BY DEF Apart
<1>2. IsSeq(a \o b) /\ IsSeq(b \o c)
  BY <1>1, Concat
<1>3. (a \o b) \o c = a \o (b \o c)
  BY <1>1, Associate
<1>4. PICK d : d = a \o b
  OBVIOUS
<1>5. IsSeq(d \o c)
  BY <1>1, <1>2, <1>4, Concat
<1> QED BY <1>2, <1>3, <1>4, <1>5

LEMMA Nest5 ==
  ASSUME NEW a, NEW b, NEW c, NEW d, NEW x, AllApart(a, b, c, d, x)
  PROVE  /\ IsSeq(a \o b \o c \o d) /\ IsSeq(d \o x) /\ IsSeq(c \o (d \o x))
         /\ IsSeq(b \o (c \o (d \o x))) /\ IsSeq(a \o (b \o (c \o (d \o x))))
         /\ (a \o b \o c \o d) \o x = a \o (b \o (c \o (d \o x)))
<1>1. PICK e : e = a \o b
  OBVIOUS
<1>2. PICK g : g = e \o c
  OBVIOUS
<1>3. PICK w : w = d \o x
  OBVIOUS
<1>4. PICK v : v = c \o w
  OBVIOUS
<1>5. PICK u : u = b \o v
  OBVIOUS
<1>6. Apart(a, b, c)
  BY DEF AllApart, Apart
<1>7. IsSeq(e)
  BY <1>1, <1>6, Nest3
<1>8. Apart(e, c, d)
  BY <1>7 DEF AllApart, Apart
<1>9. IsSeq(g)
  BY <1>2, <1>8, Nest3
<1>10. Apart(g, d, x)
  BY <1>9 DEF AllApart, Apart
<1>11. IsSeq(g \o d) /\ IsSeq(w) /\ (g \o d) \o x = g \o w
  BY <1>3, <1>10, Nest3
<1>12. Apart(e, c, w)
  BY <1>7, <1>11 DEF AllApart, Apart
<1>13. IsSeq(v) /\ g \o w = e \o v
  BY <1>2, <1>4, <1>12, Nest3
<1>14. Apart(a, b, v)
  BY <1>13 DEF AllApart, Apart
<1>15. IsSeq(u) /\ IsSeq(a \o u) /\ e \o v = a \o u
  BY <1>1, <1>5, <1>14, Nest3
<1> QED BY <1>1, <1>2, <1>3, <1>4, <1>5, <1>11, <1>13, <1>15

PitchOrGains(f, s) == IF f.stage1 = 1 THEN encodeSmplPitch(s, f) ELSE encodeSmplGains(f)

FromTail(f, s, x) == PitchOrGains(f, s) \o x
FromSigns(f, s, x) == encodeSigns(f.pulses) \o FromTail(f, s, x)
FromRuns3(f, s, x) == encodeRuns(f.pulses, 3) \o FromSigns(f, s, x)
FromRuns2(f, s, x) == encodeRuns(f.pulses, 2) \o FromRuns3(f, s, x)
FromRuns1(f, s, x) == encodeRuns(f.pulses, 1) \o FromRuns2(f, s, x)
FromRuns0(f, s, x) == encodeRuns(f.pulses, 0) \o FromRuns1(f, s, x)
FromRuns(f, s, x, sf) ==
  IF sf = 0 THEN FromRuns0(f, s, x) ELSE IF sf = 1 THEN FromRuns1(f, s, x)
  ELSE IF sf = 2 THEN FromRuns2(f, s, x) ELSE IF sf = 3 THEN FromRuns3(f, s, x) ELSE FromSigns(f, s, x)

TotalSymbol(class, p) ==
  If(Least(class, Total(p)) < Total(p) - Lowest(Total(p)),
     Symbol(TotalTable(class, Total(p)), First(p) - Least(class, Total(p))))
HalfSymbol(class, count, s0) == IF count > 0 THEN encodeSplit3537(class, count, s0) ELSE << >>

FromSecond(f, s, x) == HalfSymbol(f.stage1, Rest(f.pulses), Count(f.pulses, 2)) \o FromRuns0(f, s, x)
FromHalves(f, s, x) == HalfSymbol(f.stage1, First(f.pulses), Count(f.pulses, 0)) \o FromSecond(f, s, x)
FromTotal(f, s, x) == TotalSymbol(f.stage1, f.pulses) \o FromHalves(f, s, x)
FromSplits(f, s, x) == encodeSplits(f.stage1, f.pulses) \o FromRuns0(f, s, x)
FromCount(f, s, x) == <<encodeCount(f.stage1, Total(f.pulses))>> \o FromSplits(f, s, x)

(* The predictor before each of the gains, and after the last.             *)
State1(s, f) == GainCoded(s, f, 0)
State2(s, f) == GainCoded(State1(s, f), f, 1)
State3(s, f) == GainCoded(State2(s, f), f, 2)
GainState(s, f, sf) ==
  IF sf = 0 THEN s ELSE IF sf = 1 THEN State1(s, f) ELSE IF sf = 2 THEN State2(s, f)
  ELSE IF sf = 3 THEN State3(s, f) ELSE GainsCoded(s, f)

FromContour(f, g, x) == encodeLagsWire(g, f) \o x
FromGain3(f, s, x) == encodeGain(State3(s, f), f, 3) \o FromContour(f, GainsCoded(s, f), x)
FromGain2(f, s, x) == encodeGain(State2(s, f), f, 2) \o FromGain3(f, s, x)
FromGain1(f, s, x) == encodeGain(State1(s, f), f, 1) \o FromGain2(f, s, x)
FromGain0(f, s, x) == encodeGain(s, f, 0) \o FromGain1(f, s, x)
FromGain(f, s, x, sf) ==
  IF sf = 0 THEN FromGain0(f, s, x) ELSE IF sf = 1 THEN FromGain1(f, s, x)
  ELSE IF sf = 2 THEN FromGain2(f, s, x) ELSE IF sf = 3 THEN FromGain3(f, s, x)
  ELSE FromContour(f, GainsCoded(s, f), x)

FineSymbol(g, f) == If(Fine(g, f), Symbol(<<"fine">>, Lag(f, 1) - f.contour[1] * BlockSize))
FromLags(f, g, x) == encodeLags(g, f) \o x
FromFine(f, g, x) == FineSymbol(g, f) \o FromLags(f, g, x)

FromResidual3(f, x) == encodeResidual(f, 3) \o x
FromResidual2(f, x) == encodeResidual(f, 2) \o FromResidual3(f, x)
FromResidual1(f, x) == encodeResidual(f, 1) \o FromResidual2(f, x)
FromResidual0(f, x) == encodeResidual(f, 0) \o FromResidual1(f, x)
FromResidual(f, x, sf) ==
  IF sf = 0 THEN FromResidual0(f, x) ELSE IF sf = 1 THEN FromResidual1(f, x)
  ELSE IF sf = 2 THEN FromResidual2(f, x) ELSE IF sf = 3 THEN FromResidual3(f, x) ELSE x

LEMMA IfSeq == ASSUME NEW c, NEW x PROVE IsSeq(If(c, x))
BY Nothing, One DEF If

LEMMA Two ==
  ASSUME NEW x, NEW y
  PROVE  IsSeq(<<x, y>>) /\ Len(<<x, y>>) = 2 /\ <<x, y>>[1] = x /\ <<x, y>>[2] = y
<1>1. <<x, y>> \in Seq({x, y})
  OBVIOUS
<1> QED BY <1>1, ASeq

LEMMA Four ==
  ASSUME NEW x, NEW y, NEW z, NEW w
  PROVE  /\ IsSeq(<<x, y, z, w>>) /\ Len(<<x, y, z, w>>) = 4 /\ <<x, y, z, w>>[1] = x
         /\ <<x, y, z, w>>[2] = y /\ <<x, y, z, w>>[3] = z /\ <<x, y, z, w>>[4] = w
<1>1. <<x, y, z, w>> \in Seq({x, y, z, w})
  OBVIOUS
<1> QED BY <1>1, ASeq

LEMMA RunsSeq ==
  ASSUME NEW p \in [Positions -> Int], NEW sf \in Subframes
  PROVE  IsSeq(encodeRuns(p, sf)) /\ Len(encodeRuns(p, sf)) = Count(p, sf)
<1>1. Count(p, sf) \in Nat
  BY CountFacts
<1>2. encodeRuns(p, sf) \in [1 .. Count(p, sf) -> {encodeRuns(p, sf)[j] : j \in 1 .. Count(p, sf)}]
  BY Zenon DEF encodeRuns
<1> QED BY <1>1, <1>2, FunctionSeq, Zenon

LEMMA SignsSeq ==
  ASSUME NEW p \in [Positions -> Int]
  PROVE  /\ IsSeq(encodeSigns(p)) /\ Len(encodeSigns(p)) = Batches(Total(Support(p)))
         /\ \A b \in 1 .. Batches(Total(Support(p))) :
              LET len == Smaller(SignBatch, Total(Support(p)) - From(b))
              IN  encodeSigns(p)[b] = Symbol(<<"raw", len>>, [i \in 1 .. len |-> Signs(p)[From(b) + i]])
<1> DEFINE n == Batches(Total(Support(p)))
<1>1. n \in Nat
  <2>1. Total(Support(p)) \in Nat
    BY PulseFacts
  <2> QED BY <2>1, BatchFacts
<1>2. encodeSigns(p) \in [1 .. n -> {encodeSigns(p)[j] : j \in 1 .. n}]
  BY Zenon DEF encodeSigns, Batches
<1>3. \A b \in 1 .. n :
        LET len == Smaller(SignBatch, Total(Support(p)) - From(b))
        IN  encodeSigns(p)[b] = Symbol(<<"raw", len>>, [i \in 1 .. len |-> Signs(p)[From(b) + i]])
  BY Zenon DEF encodeSigns, Batches, From
<1> HIDE DEF n
<1>4. IsSeq(encodeSigns(p)) /\ Len(encodeSigns(p)) = n
  BY <1>1, <1>2, FunctionSeq, Zenon
<1> QED BY <1>3, <1>4 DEF n

LEMMA SplitsSeq ==
  ASSUME NEW class, NEW p, NEW count, NEW s0
  PROVE  /\ IsSeq(TotalSymbol(class, p)) /\ IsSeq(HalfSymbol(class, count, s0))
         /\ IsSeq(encodeSplits(class, p))
<1>1. ASSUME NEW c, NEW d PROVE IsSeq(HalfSymbol(class, c, d))
  BY IfSeq, Nothing DEF HalfSymbol, encodeSplit3537
<1>2. IsSeq(TotalSymbol(class, p))
  BY IfSeq DEF TotalSymbol
<1>3. IsSeq(encodeSplits(class, p))
  <2>1. PICK a : a = TotalSymbol(class, p)
    OBVIOUS
  <2>2. PICK b : b = HalfSymbol(class, First(p), Count(p, 0))
    OBVIOUS
  <2>3. PICK c : c = HalfSymbol(class, Total(p) - First(p), Count(p, 2))
    OBVIOUS
  <2>4. IsSeq(a) /\ IsSeq(b) /\ IsSeq(c)
    BY <1>1, <1>2, <2>1, <2>2, <2>3, Zenon
  <2>5. IsSeq(a \o b \o c)
    <3>1. Apart(a, b, c)
      BY <2>4 DEF Apart
    <3> QED BY <3>1, Nest3
  <2>6. encodeSplits(class, p) = IF Total(p) = 0 \/ Least(class, Total(p)) < Lowest(Total(p)) THEN << >>
                                 ELSE a \o b \o c
    BY <2>1, <2>2, <2>3 DEF encodeSplits, TotalSymbol, HalfSymbol, First
  <2> QED BY <2>5, <2>6, Nothing, Zenon
<1> QED BY <1>1, <1>2, <1>3

LEMMA GainSeq == ASSUME NEW s, NEW f, NEW sf PROVE IsSeq(encodeGain(s, f, sf)) /\ IsSeq(encodeResidual(f, sf))
<1>1. PICK a : a = <<Symbol(<<"gain", s.gain>>, f.gain[sf])>>
  OBVIOUS
<1>2. PICK b : b = If(Count(f.pulses, sf) > 0, Symbol(FilterTable(s.filt), f.filt[sf]))
  OBVIOUS
<1>3. IsSeq(a) /\ IsSeq(b)
  BY <1>1, <1>2, One, IfSeq, Zenon
<1>4. IsSeq(a \o b)
  BY <1>3, Concat
<1>5. IsSeq(encodeGain(s, f, sf))
  BY <1>1, <1>2, <1>4, Zenon DEF encodeGain
<1>6. IsSeq(encodeResidual(f, sf))
  BY IfSeq DEF encodeResidual
<1> QED BY <1>5, <1>6

LEMMA LagsSeq ==
  ASSUME NEW g, NEW f, WellFound(f)
  PROVE  /\ IsSeq(encodeContour(g, f)) /\ IsSeq(encodeLags(g, f)) /\ IsSeq(encodeLagsWire(g, f))
         /\ Len(encodeLags(g, f)) = Len(f.contour) - (IF Fine(g, f) THEN 1 ELSE 0)
         /\ \A k \in 1 .. Len(f.contour) - (IF Fine(g, f) THEN 1 ELSE 0) :
              encodeLags(g, f)[k] = encodeLag(g, f, k + (IF Fine(g, f) THEN 1 ELSE 0))
<1>1. PICK before : before = IF Fine(g, f) THEN 1 ELSE 0
  OBVIOUS
<1> DEFINE n == Len(f.contour) - before
           l == [k \in 1 .. n |-> encodeLag(g, f, k + before)]
<1>2. n \in Nat
  <2>1. f.contour \in Seq(Nat) /\ f.contour # << >>
    BY DEF WellFound
  <2>2. Len(f.contour) \in Nat /\ Len(f.contour) > 0
    BY <2>1, LenProperties
  <2> QED BY <2>2, <1>1
<1>3. IsSeq(encodeContour(g, f))
  BY One, Two DEF encodeContour
<1>4. l \in [1 .. n -> {l[k] : k \in 1 .. n}] /\ \A k \in 1 .. n : l[k] = encodeLag(g, f, k + before)
  BY Zenon
<1>5. encodeLags(g, f) = l
  BY <1>1 DEF encodeLags
<1> HIDE DEF n, l
<1>6. IsSeq(encodeLags(g, f)) /\ Len(encodeLags(g, f)) = n
  BY <1>2, <1>4, <1>5, FunctionSeq, Zenon
<1>7. IsSeq(encodeLagsWire(g, f))
  <2>1. PICK a : a = If(Fine(g, f), Symbol(<<"fine">>, Lag(f, 1) - f.contour[1] * BlockSize))
    OBVIOUS
  <2>2. IsSeq(a)
    BY <2>1, IfSeq
  <2>3. PICK c : c = encodeContour(g, f)
    OBVIOUS
  <2>4. PICK m : m = encodeLags(g, f)
    OBVIOUS
  <2>5. Apart(c, a, m)
    BY <2>2, <2>3, <2>4, <1>3, <1>6 DEF Apart
  <2>6. IsSeq(c \o a \o m)
    BY <2>5, Nest3
  <2> QED BY <2>1, <2>3, <2>4, <2>6, Zenon DEF encodeLagsWire
<1> QED BY <1>1, <1>3, <1>4, <1>5, <1>6, <1>7 DEF n
(* The body of a frame, taken apart.                                       *)
LEMMA TailSeq ==
  ASSUME NEW f, WellFound(f), NEW s
  PROVE  /\ IsSeq(encodeSmplPitch(s, f)) /\ IsSeq(encodeSmplGains(f)) /\ IsSeq(PitchOrGains(f, s))
<1>1. IsSeq(encodeSmplPitch(s, f))
  <2> DEFINE t1 == GainCoded(s, f, 0)
             t2 == GainCoded(t1, f, 1)
             t3 == GainCoded(t2, f, 2)
  <2>1. PICK a : a = encodeGain(s, f, 0)
    OBVIOUS
  <2>2. PICK b : b = encodeGain(t1, f, 1)
    OBVIOUS
  <2>3. PICK c : c = encodeGain(t2, f, 2)
    OBVIOUS
  <2>4. PICK d : d = encodeGain(t3, f, 3)
    OBVIOUS
  <2>5. PICK l : l = encodeLagsWire(GainsCoded(s, f), f)
    OBVIOUS
  <2>6. encodeSmplPitch(s, f) = (a \o b \o c \o d) \o l
    BY <2>1, <2>2, <2>3, <2>4, <2>5 DEF encodeSmplPitch, encodeGains
  <2>7. IsSeq(a) /\ IsSeq(b) /\ IsSeq(c) /\ IsSeq(d)
    BY <2>1, <2>2, <2>3, <2>4, GainSeq
  <2>8. IsSeq(l)
    BY <2>5, LagsSeq
  <2>9. IsSeq(a \o b \o c \o d)
    <3>1. AllApart(a, b, c, d, l)
      BY <2>7, <2>8 DEF AllApart
    <3> QED BY <3>1, Nest5
  <2>10. PICK m : m = a \o b \o c \o d
    OBVIOUS
  <2> QED BY <2>6, <2>8, <2>9, <2>10, Concat
<1>2. IsSeq(encodeSmplGains(f))
  <2>1. PICK a : a = <<Symbol(<<"gainMain">>, f.main), Symbol(<<"gainDelta">>, f.delta)>>
    OBVIOUS
  <2>2. PICK b : b = encodeResidual(f, 0)
    OBVIOUS
  <2>3. PICK c : c = encodeResidual(f, 1)
    OBVIOUS
  <2>4. PICK d : d = encodeResidual(f, 2)
    OBVIOUS
  <2>5. PICK l : l = encodeResidual(f, 3)
    OBVIOUS
  <2>6. encodeSmplGains(f) = (a \o b \o c \o d) \o l
    BY <2>1, <2>2, <2>3, <2>4, <2>5 DEF encodeSmplGains
  <2>7. IsSeq(b) /\ IsSeq(c) /\ IsSeq(d) /\ IsSeq(l)
    BY <2>2, <2>3, <2>4, <2>5, GainSeq
  <2>8. IsSeq(a)
    BY <2>1, Two, Zenon
  <2>9. IsSeq(a \o b \o c \o d)
    <3>1. AllApart(a, b, c, d, l)
      BY <2>7, <2>8 DEF AllApart
    <3> QED BY <3>1, Nest5
  <2>10. PICK m : m = a \o b \o c \o d
    OBVIOUS
  <2> QED BY <2>6, <2>7, <2>9, <2>10, Concat
<1> QED BY <1>1, <1>2 DEF PitchOrGains

LEMMA FromSeq ==
  ASSUME NEW f, WellFound(f), NEW s, NEW x, IsSeq(x)
  PROVE  /\ IsSeq(FromTail(f, s, x)) /\ IsSeq(FromSigns(f, s, x))
         /\ IsSeq(FromRuns3(f, s, x)) /\ IsSeq(FromRuns2(f, s, x)) /\ IsSeq(FromRuns1(f, s, x))
         /\ IsSeq(FromRuns0(f, s, x)) /\ IsSeq(FromSecond(f, s, x)) /\ IsSeq(FromHalves(f, s, x))
         /\ IsSeq(FromTotal(f, s, x)) /\ IsSeq(FromSplits(f, s, x)) /\ IsSeq(FromCount(f, s, x))
<1>1. f.pulses \in [Positions -> Int]
  BY DEF WellFound
<1>2. IsSeq(FromTail(f, s, x))
  BY TailSeq, Concat DEF FromTail
<1>3. IsSeq(FromSigns(f, s, x))
  BY <1>1, <1>2, SignsSeq, Concat DEF FromSigns
<1>4. /\ IsSeq(encodeRuns(f.pulses, 0)) /\ IsSeq(encodeRuns(f.pulses, 1))
      /\ IsSeq(encodeRuns(f.pulses, 2)) /\ IsSeq(encodeRuns(f.pulses, 3))
  BY <1>1, RunsSeq, SubframesAre
<1>5. IsSeq(FromRuns3(f, s, x))
  BY <1>3, <1>4, Concat DEF FromRuns3
<1>6. IsSeq(FromRuns2(f, s, x))
  BY <1>4, <1>5, Concat DEF FromRuns2
<1>7. IsSeq(FromRuns1(f, s, x))
  BY <1>4, <1>6, Concat DEF FromRuns1
<1>8. IsSeq(FromRuns0(f, s, x))
  BY <1>4, <1>7, Concat DEF FromRuns0
<1>9. IsSeq(FromSecond(f, s, x))
  BY <1>8, SplitsSeq, Concat DEF FromSecond
<1>10. IsSeq(FromHalves(f, s, x))
  BY <1>9, SplitsSeq, Concat DEF FromHalves
<1>11. IsSeq(FromTotal(f, s, x))
  BY <1>10, SplitsSeq, Concat DEF FromTotal
<1>12. IsSeq(FromSplits(f, s, x))
  BY <1>8, SplitsSeq, Concat DEF FromSplits
<1>13. IsSeq(FromCount(f, s, x))
  BY <1>12, One, Concat DEF FromCount
<1> QED BY <1>2, <1>3, <1>5, <1>6, <1>7, <1>8, <1>9, <1>10, <1>11, <1>12, <1>13

(* The symbols of a frame are the header's and those after it.             *)
OnWire(f, st, intf, x) ==
  FrameSymbols(st, intf, f) \o x
    = encodeSmplLsf(st, intf, f) \o FromCount(f, SmplAdvanceLsfState(st, intf, f.stage1), x)

LEMMA FrameWire ==
  ASSUME NEW f, WellFound(f), NEW st, NEW intf, NEW x, IsSeq(x)
  PROVE  IsSeq(FrameSymbols(st, intf, f)) /\ IsSeq(encodeSmplLsf(st, intf, f)) /\ OnWire(f, st, intf, x)
<1> PICK s : s = SmplAdvanceLsfState(st, intf, f.stage1)
  OBVIOUS
<1>1. PICK a : a = encodeSmplLsf(st, intf, f)
  OBVIOUS
<1>2. PICK c : c = <<encodeCount(f.stage1, Total(f.pulses))>>
  OBVIOUS
<1>3. PICK sp : sp = encodeSplits(f.stage1, f.pulses)
  OBVIOUS
<1>4. PICK r0 : r0 = encodeRuns(f.pulses, 0)
  OBVIOUS
<1>5. PICK r1 : r1 = encodeRuns(f.pulses, 1)
  OBVIOUS
<1>6. PICK r2 : r2 = encodeRuns(f.pulses, 2)
  OBVIOUS
<1>7. PICK r3 : r3 = encodeRuns(f.pulses, 3)
  OBVIOUS
<1>8. PICK si : si = encodeSigns(f.pulses)
  OBVIOUS
<1>9. PICK t : t = PitchOrGains(f, s)
  OBVIOUS
<1>10. f.pulses \in [Positions -> Int]
  BY DEF WellFound
<1>11. IsSeq(a)
  BY <1>1, Four DEF encodeSmplLsf
<1>12. IsSeq(c)
  BY <1>2, One
<1>13. IsSeq(sp) /\ IsSeq(si) /\ IsSeq(t)
  BY <1>3, <1>8, <1>9, <1>10, SplitsSeq, SignsSeq, TailSeq
<1>14. IsSeq(r0) /\ IsSeq(r1) /\ IsSeq(r2) /\ IsSeq(r3)
  BY <1>4, <1>5, <1>6, <1>7, <1>10, RunsSeq, SubframesAre
<1>15. PICK q : q = c \o sp
  OBVIOUS
<1>16. PICK m : m = q \o r0 \o r1 \o r2
  OBVIOUS
<1>17. PICK n : n = m \o r3
  OBVIOUS
<1>18. PICK p : p = n \o si
  OBVIOUS
<1>19. PICK y : y = t \o x
  OBVIOUS
<1>20. PICK z : z = si \o y
  OBVIOUS
<1>21. PICK w : w = r3 \o z
  OBVIOUS
<1>22. PICK v : v = r0 \o (r1 \o (r2 \o w))
  OBVIOUS
<1>23. p = encodeSmplPulses(f.stage1, f.pulses)
  BY <1>2, <1>3, <1>4, <1>5, <1>6, <1>7, <1>8, <1>15, <1>16, <1>17, <1>18 DEF encodeSmplPulses
<1>24. FrameSymbols(st, intf, f) = (a \o p) \o t
  BY <1>1, <1>9, <1>23 DEF FrameSymbols, PitchOrGains
<1>25. v = FromRuns0(f, s, x)
  BY <1>4, <1>5, <1>6, <1>7, <1>8, <1>9, <1>19, <1>20, <1>21, <1>22
     DEF FromRuns0, FromRuns1, FromRuns2, FromRuns3, FromSigns, FromTail
<1>26. FromCount(f, s, x) = c \o (sp \o v)
  BY <1>2, <1>3, <1>25 DEF FromCount, FromSplits
<1>27. IsSeq(q) /\ IsSeq(y) /\ IsSeq(z) /\ IsSeq(w)
  <2>1. IsSeq(q) /\ IsSeq(y)
    BY <1>12, <1>13, <1>15, <1>19, Concat
  <2>2. IsSeq(z)
    BY <1>13, <1>20, <2>1, Concat
  <2> QED BY <1>14, <1>21, <2>1, <2>2, Concat
<1>28. IsSeq(m) /\ m \o w = q \o v
  <2>1. PICK m1 : m1 = q \o r0
    OBVIOUS
  <2>2. PICK m2 : m2 = m1 \o r1
    OBVIOUS
  <2>3. PICK w2 : w2 = r2 \o w
    OBVIOUS
  <2>4. PICK w1 : w1 = r1 \o w2
    OBVIOUS
  <2>5. IsSeq(m1) /\ IsSeq(w2)
    BY <2>1, <2>3, <1>14, <1>27, Concat
  <2>6. IsSeq(m2) /\ IsSeq(w1)
    BY <2>2, <2>4, <2>5, <1>14, Concat
  <2>7. Apart(m2, r2, w) /\ Apart(m1, r1, w2) /\ Apart(q, r0, w1)
    BY <2>5, <2>6, <1>14, <1>27 DEF Apart
  <2>8. IsSeq(m) /\ m \o w = m2 \o w2
    BY <2>1, <2>2, <2>3, <2>7, <1>16, Nest3, SMTT(30), ZenonT(60)
  <2>9. m2 \o w2 = m1 \o w1
    BY <2>2, <2>4, <2>7, Nest3
  <2>10. m1 \o w1 = q \o v
    <3>1. v = r0 \o w1
      BY <2>3, <2>4, <1>22
    <3>2. Apart(q, r0, w1)
      BY <2>7
    <3> QED BY <3>1, <3>2, <2>1, Nest3
  <2> QED BY <2>8, <2>9, <2>10
<1>29. Apart(m, r3, z)
  BY <1>14, <1>27, <1>28 DEF Apart
<1>30. IsSeq(n) /\ n \o z = m \o w
  BY <1>17, <1>21, <1>29, Nest3
<1>31. Apart(n, si, y)
  BY <1>13, <1>27, <1>30 DEF Apart
<1>32. IsSeq(p) /\ p \o y = n \o z
  BY <1>18, <1>20, <1>31, Nest3
<1>33. q \o v = c \o (sp \o v)
  <2>1. IsSeq(v)
    BY <1>25, FromSeq
  <2>2. Apart(c, sp, v)
    BY <2>1, <1>12, <1>13 DEF Apart
  <2> QED BY <2>2, <1>15, Nest3
<1>34. PICK e : e = a \o p
  OBVIOUS
<1>35. Apart(a, p, y)
  BY <1>11, <1>27, <1>32 DEF Apart
<1>36. IsSeq(e) /\ e \o y = a \o (p \o y)
  BY <1>34, <1>35, Nest3
<1>37. Apart(e, t, x)
  BY <1>13, <1>36 DEF Apart
<1>38. IsSeq(e \o t) /\ (e \o t) \o x = e \o y
  BY <1>19, <1>37, Nest3
<1>39. p \o y = FromCount(f, s, x)
  BY <1>26, <1>28, <1>30, <1>32, <1>33
<1>40. FrameSymbols(st, intf, f) = e \o t
  BY <1>24, <1>34
<1>41. FrameSymbols(st, intf, f) \o x = a \o FromCount(f, s, x)
  BY <1>36, <1>38, <1>39, <1>40
<1> QED BY <1>1, <1>11, <1>38, <1>40, <1>41, Zenon DEF OnWire

(* The splits, when there are pulses; without pulses nothing is written.   *)
LEMMA SplitsWire ==
  ASSUME NEW f, WellFound(f), NEW s, NEW x, IsSeq(x)
  PROVE  /\ First(f.pulses) \in 0 .. 2 * Granularity[f.stage1]
         /\ Rest(f.pulses) \in 0 .. 2 * Granularity[f.stage1]
         /\ Total(f.pulses) = First(f.pulses) + Rest(f.pulses)
         /\ Total(f.pulses) \in 0 .. 4 * Granularity[f.stage1]
         /\ Total(f.pulses) # 0 => FromSplits(f, s, x) = FromTotal(f, s, x)
         /\ Total(f.pulses) = 0 => FromSplits(f, s, x) = FromSigns(f, s, x)
<1>1. f.pulses \in [Positions -> Int]
  BY DEF WellFound
<1>2. PICK p : p = f.pulses
  OBVIOUS
<1>3. PICK g \in Nat : g = Granularity[f.stage1]
  BY SyntaxAssumption DEF WellFound
<1>4. /\ Count(p, 0) \in 0 .. g /\ Count(p, 1) \in 0 .. g /\ Count(p, 2) \in 0 .. g /\ Count(p, 3) \in 0 .. g
  <2>1. \A sf \in Subframes : Count(p, sf) \in Nat /\ Count(p, sf) <= g
    BY <1>1, <1>2, <1>3, CountFacts DEF WellFound
  <2>2. \A sf \in Subframes : Count(p, sf) \in 0 .. g
    BY <2>1
  <2> QED BY <2>2, SubframesAre
<1>5. Total(p) = Count(p, 0) + Count(p, 1) + (Count(p, 2) + Count(p, 3))
  BY <1>1, <1>2, CountFacts
<1>6. /\ First(p) \in 0 .. 2 * g /\ Rest(p) \in 0 .. 2 * g /\ Total(p) = First(p) + Rest(p)
      /\ Total(p) \in 0 .. 4 * g /\ Total(p) - First(p) = Rest(p)
  BY <1>4, <1>5 DEF First, Rest
<1>7. ASSUME Total(p) # 0 PROVE FromSplits(f, s, x) = FromTotal(f, s, x)
  <2>1. PICK a : a = TotalSymbol(f.stage1, p)
    OBVIOUS
  <2>2. PICK b : b = HalfSymbol(f.stage1, First(p), Count(p, 0))
    OBVIOUS
  <2>3. PICK c : c = HalfSymbol(f.stage1, Rest(p), Count(p, 2))
    OBVIOUS
  <2>4. PICK y : y = FromRuns0(f, s, x)
    OBVIOUS
  <2>5. IsSeq(a) /\ IsSeq(b) /\ IsSeq(c) /\ IsSeq(y)
    BY <2>1, <2>2, <2>3, <2>4, SplitsSeq, FromSeq
  <2>6. ~(Least(f.stage1, Total(p)) < Lowest(Total(p)))
    <3>1. f.stage1 \in {0, 1}
      BY DEF WellFound
    <3> QED BY <3>1, <1>3, <1>6, HalvesFound
  <2>7. encodeSplits(f.stage1, p) = (a \o b) \o c
    <3>1. c = HalfSymbol(f.stage1, Total(p) - (Count(p, 0) + Count(p, 1)), Count(p, 2))
      BY <2>3, <1>6 DEF First
    <3> QED BY <2>1, <2>2, <2>6, <3>1, <1>7 DEF encodeSplits, TotalSymbol, HalfSymbol, First
  <2>8. FromTotal(f, s, x) = a \o (b \o (c \o y))
    BY <2>1, <2>2, <2>3, <2>4, <1>2 DEF FromTotal, FromHalves, FromSecond
  <2>9. FromSplits(f, s, x) = ((a \o b) \o c) \o y
    BY <2>4, <2>7, <1>2 DEF FromSplits
  <2>10. PICK e : e = a \o b
    OBVIOUS
  <2>11. PICK h : h = c \o y
    OBVIOUS
  <2>12. IsSeq(e) /\ IsSeq(h)
    BY <2>5, <2>10, <2>11, Concat
  <2>13. (e \o c) \o y = e \o h
    <3>1. Apart(e, c, y)
      BY <2>5, <2>12 DEF Apart
    <3> QED BY <3>1, <2>11, Nest3
  <2>14. e \o h = a \o (b \o h)
    <3>1. Apart(a, b, h)
      BY <2>5, <2>12 DEF Apart
    <3> QED BY <3>1, <2>10, Nest3
  <2> QED BY <2>8, <2>9, <2>10, <2>11, <2>13, <2>14
<1>8. ASSUME Total(p) = 0 PROVE FromSplits(f, s, x) = FromSigns(f, s, x)
  <2>1. \A sf \in Subframes : encodeRuns(p, sf) = << >>
    <3>1. Count(p, 0) = 0 /\ Count(p, 1) = 0 /\ Count(p, 2) = 0 /\ Count(p, 3) = 0
      <4>1. PICK n0 \in 0 .. g : n0 = Count(p, 0)
        BY <1>4
      <4>2. PICK n1 \in 0 .. g : n1 = Count(p, 1)
        BY <1>4
      <4>3. PICK n2 \in 0 .. g : n2 = Count(p, 2)
        BY <1>4
      <4>4. PICK n3 \in 0 .. g : n3 = Count(p, 3)
        BY <1>4
      <4>5. n0 + n1 + (n2 + n3) = 0
        BY <4>1, <4>2, <4>3, <4>4, <1>5, <1>8
      <4>6. n0 = 0 /\ n1 = 0 /\ n2 = 0 /\ n3 = 0
        BY <4>5, <1>3
      <4> QED BY <4>1, <4>2, <4>3, <4>4, <4>6
    <3>2. \A sf \in Subframes : IsSeq(encodeRuns(p, sf)) /\ Len(encodeRuns(p, sf)) = 0
      BY <3>1, <1>1, <1>2, RunsSeq, SubframesAre
    <3> QED BY <3>2, Nothing, SameSeq
  <2>2. encodeSplits(f.stage1, p) = << >>
    BY <1>8 DEF encodeSplits
  <2>3. PICK y : y = FromSigns(f, s, x)
    OBVIOUS
  <2>4. << >> \o y = y
    BY <2>3, FromSeq, ConcatNothing
  <2>5. FromRuns0(f, s, x) = y
    <3>1. 0 \in Subframes /\ 1 \in Subframes /\ 2 \in Subframes /\ 3 \in Subframes
      BY SubframesAre
    <3>2. FromRuns3(f, s, x) = y
      BY <2>1, <2>3, <2>4, <3>1, <1>2 DEF FromRuns3
    <3>3. FromRuns2(f, s, x) = y
      BY <2>1, <2>4, <3>1, <3>2, <1>2 DEF FromRuns2
    <3>4. FromRuns1(f, s, x) = y
      BY <2>1, <2>4, <3>1, <3>3, <1>2 DEF FromRuns1
    <3> QED BY <2>1, <2>4, <3>1, <3>4, <1>2 DEF FromRuns0
  <2> QED BY <2>2, <2>3, <2>4, <2>5, <1>2 DEF FromSplits
<1> QED BY <1>2, <1>3, <1>6, <1>7, <1>8

(* A subframe without pulses has no runs.                                  *)
LEMMA NoRuns ==
  ASSUME NEW f, WellFound(f), NEW s, NEW x, IsSeq(x), NEW sf \in Subframes
  PROVE  /\ FromRuns(f, s, x, sf) = encodeRuns(f.pulses, sf) \o FromRuns(f, s, x, sf + 1)
         /\ IsSeq(FromRuns(f, s, x, sf)) /\ IsSeq(FromRuns(f, s, x, sf + 1))
         /\ Count(f.pulses, sf) = 0 => FromRuns(f, s, x, sf) = FromRuns(f, s, x, sf + 1)
<1>1. /\ FromRuns(f, s, x, sf) = encodeRuns(f.pulses, sf) \o FromRuns(f, s, x, sf + 1)
  <2>1. CASE sf = 0
    BY <2>1 DEF FromRuns, FromRuns0
  <2>2. CASE sf = 1
    BY <2>2 DEF FromRuns, FromRuns1
  <2>3. CASE sf = 2
    BY <2>3 DEF FromRuns, FromRuns2
  <2>4. CASE sf = 3
    BY <2>4 DEF FromRuns, FromRuns3
  <2> QED BY <2>1, <2>2, <2>3, <2>4, SubframesAre
<1>2. IsSeq(FromRuns(f, s, x, sf)) /\ IsSeq(FromRuns(f, s, x, sf + 1))
  BY FromSeq DEF FromRuns
<1>3. ASSUME Count(f.pulses, sf) = 0 PROVE FromRuns(f, s, x, sf) = FromRuns(f, s, x, sf + 1)
  <2>1. IsSeq(encodeRuns(f.pulses, sf)) /\ Len(encodeRuns(f.pulses, sf)) = 0
    BY <1>3, RunsSeq DEF WellFound
  <2>2. encodeRuns(f.pulses, sf) = << >>
    BY <2>1, Nothing, SameSeq
  <2> QED BY <2>2, <1>1, <1>2, ConcatNothing
<1> QED BY <1>1, <1>2, <1>3
(* The gains, apart by subframe.                                           *)
LEMMA GainsWire ==
  ASSUME NEW f, WellFound(f), NEW s, NEW x, IsSeq(x)
  PROVE  /\ IsSeq(FromContour(f, GainsCoded(s, f), x))
         /\ f.stage1 = 1 => FromTail(f, s, x) = FromGain(f, s, x, 0)
         /\ \A sf \in Subframes :
              /\ IsSeq(FromGain(f, s, x, sf)) /\ IsSeq(FromGain(f, s, x, sf + 1))
              /\ FromGain(f, s, x, sf)
                   = encodeGain(GainState(s, f, sf), f, sf) \o FromGain(f, s, x, sf + 1)
<1>1. PICK a : a = encodeGain(s, f, 0)
  OBVIOUS
<1>2. PICK b : b = encodeGain(State1(s, f), f, 1)
  OBVIOUS
<1>3. PICK c : c = encodeGain(State2(s, f), f, 2)
  OBVIOUS
<1>4. PICK d : d = encodeGain(State3(s, f), f, 3)
  OBVIOUS
<1>5. PICK l : l = encodeLagsWire(GainsCoded(s, f), f)
  OBVIOUS
<1>6. PICK y : y = l \o x
  OBVIOUS
<1>7. IsSeq(a) /\ IsSeq(b) /\ IsSeq(c) /\ IsSeq(d)
  BY <1>1, <1>2, <1>3, <1>4, GainSeq
<1>8. IsSeq(l)
  BY <1>5, LagsSeq
<1>9. IsSeq(y) /\ y = FromContour(f, GainsCoded(s, f), x)
  BY <1>5, <1>6, <1>8, Concat DEF FromContour
<1>10. PICK g : g = FromContour(f, GainsCoded(s, f), x)
  OBVIOUS
<1>11. PICK y3 : y3 = d \o y
  OBVIOUS
<1>12. PICK y2 : y2 = c \o y3
  OBVIOUS
<1>13. PICK y1 : y1 = b \o y2
  OBVIOUS
<1>14. PICK y0 : y0 = a \o y1
  OBVIOUS
<1>15. IsSeq(y3)
  BY <1>7, <1>9, <1>11, Concat
<1>16. IsSeq(y2)
  BY <1>7, <1>12, <1>15, Concat
<1>17. IsSeq(y1)
  BY <1>7, <1>13, <1>16, Concat
<1>18. IsSeq(y0)
  BY <1>7, <1>14, <1>17, Concat
<1>19. y3 = FromGain3(f, s, x)
  BY <1>4, <1>9, <1>11 DEF FromGain3
<1>20. y2 = FromGain2(f, s, x)
  BY <1>3, <1>12, <1>19 DEF FromGain2
<1>21. y1 = FromGain1(f, s, x)
  BY <1>2, <1>13, <1>20 DEF FromGain1
<1>22. y0 = FromGain0(f, s, x)
  BY <1>1, <1>14, <1>21 DEF FromGain0
<1>23. ASSUME f.stage1 = 1 PROVE FromTail(f, s, x) = y0
  <2>1. PICK e : e = a \o b
    OBVIOUS
  <2>2. PICK h : h = e \o c
    OBVIOUS
  <2>3. PICK m : m = h \o d
    OBVIOUS
  <2>4. FromTail(f, s, x) = (m \o l) \o x
    <3>1. m = encodeGains(s, f)
      BY <2>1, <2>2, <2>3, <1>1, <1>2, <1>3, <1>4 DEF encodeGains, State1, State2, State3
    <3> QED BY <3>1, <1>5, <1>23 DEF FromTail, PitchOrGains, encodeSmplPitch
  <2>5. IsSeq(e)
    BY <2>1, <1>7, Concat
  <2>6. IsSeq(h)
    BY <2>2, <2>5, <1>7, Concat
  <2>7. IsSeq(m)
    BY <2>3, <2>6, <1>7, Concat
  <2>8. Apart(m, l, x)
    BY <2>7, <1>8 DEF Apart
  <2>9. (m \o l) \o x = m \o y
    BY <2>8, <1>6, Nest3
  <2>10. Apart(h, d, y)
    BY <2>6, <1>7, <1>9 DEF Apart
  <2>11. m \o y = h \o y3
    BY <2>3, <2>10, <1>11, Nest3
  <2>12. Apart(e, c, y3)
    BY <2>5, <1>7, <1>15 DEF Apart
  <2>13. h \o y3 = e \o y2
    BY <2>2, <2>12, <1>12, Nest3
  <2>14. Apart(a, b, y2)
    BY <1>7, <1>16 DEF Apart
  <2>15. e \o y2 = y0
    BY <2>1, <2>14, <1>13, <1>14, Nest3
  <2> QED BY <2>4, <2>9, <2>11, <2>13, <2>15
<1>24. /\ FromGain(f, s, x, 0) = y0 /\ FromGain(f, s, x, 1) = y1 /\ FromGain(f, s, x, 2) = y2
       /\ FromGain(f, s, x, 3) = y3 /\ FromGain(f, s, x, 4) = y
  BY <1>9, <1>19, <1>20, <1>21, <1>22 DEF FromGain
<1>25. /\ encodeGain(GainState(s, f, 0), f, 0) = a /\ encodeGain(GainState(s, f, 1), f, 1) = b
       /\ encodeGain(GainState(s, f, 2), f, 2) = c /\ encodeGain(GainState(s, f, 3), f, 3) = d
  BY <1>1, <1>2, <1>3, <1>4 DEF GainState
<1>26. ASSUME NEW sf \in Subframes
       PROVE  /\ IsSeq(FromGain(f, s, x, sf)) /\ IsSeq(FromGain(f, s, x, sf + 1))
              /\ FromGain(f, s, x, sf)
                   = encodeGain(GainState(s, f, sf), f, sf) \o FromGain(f, s, x, sf + 1)
  <2>1. CASE sf = 0
    <3>1. sf + 1 = 1
      BY <2>1
    <3> QED BY <2>1, <3>1, <1>14, <1>17, <1>18, <1>24, <1>25, Zenon
  <2>2. CASE sf = 1
    <3>1. sf + 1 = 2
      BY <2>2
    <3> QED BY <2>2, <3>1, <1>13, <1>16, <1>17, <1>24, <1>25, Zenon
  <2>3. CASE sf = 2
    <3>1. sf + 1 = 3
      BY <2>3
    <3> QED BY <2>3, <3>1, <1>12, <1>15, <1>16, <1>24, <1>25, Zenon
  <2>4. CASE sf = 3
    <3>1. sf + 1 = 4
      BY <2>4
    <3> QED BY <2>4, <3>1, <1>9, <1>11, <1>15, <1>24, <1>25, Zenon
  <2> QED BY <2>1, <2>2, <2>3, <2>4, SubframesAre
<1> QED BY <1>9, <1>23, <1>24, <1>26

(* The residuals, apart by subframe.                                       *)
LEMMA ResidualsWire ==
  ASSUME NEW f, WellFound(f), NEW s, NEW x, IsSeq(x)
  PROVE  /\ f.stage1 # 1 =>
              FromTail(f, s, x) = <<Symbol(<<"gainMain">>, f.main), Symbol(<<"gainDelta">>, f.delta)>>
                                    \o FromResidual(f, x, 0)
         /\ \A sf \in Subframes :
              /\ IsSeq(FromResidual(f, x, sf)) /\ IsSeq(FromResidual(f, x, sf + 1))
              /\ FromResidual(f, x, sf) = encodeResidual(f, sf) \o FromResidual(f, x, sf + 1)
<1>1. PICK a : a = encodeResidual(f, 0)
  OBVIOUS
<1>2. PICK b : b = encodeResidual(f, 1)
  OBVIOUS
<1>3. PICK c : c = encodeResidual(f, 2)
  OBVIOUS
<1>4. PICK d : d = encodeResidual(f, 3)
  OBVIOUS
<1>5. PICK l : l = <<Symbol(<<"gainMain">>, f.main), Symbol(<<"gainDelta">>, f.delta)>>
  OBVIOUS
<1>6. IsSeq(a) /\ IsSeq(b) /\ IsSeq(c) /\ IsSeq(d)
  BY <1>1, <1>2, <1>3, <1>4, GainSeq
<1>7. IsSeq(l)
  BY <1>5, Two, Zenon
<1>8. PICK y3 : y3 = d \o x
  OBVIOUS
<1>9. PICK y2 : y2 = c \o y3
  OBVIOUS
<1>10. PICK y1 : y1 = b \o y2
  OBVIOUS
<1>11. PICK y0 : y0 = a \o y1
  OBVIOUS
<1>12. IsSeq(y3)
  BY <1>6, <1>8, Concat
<1>13. IsSeq(y2)
  BY <1>6, <1>9, <1>12, Concat
<1>14. IsSeq(y1)
  BY <1>6, <1>10, <1>13, Concat
<1>15. IsSeq(y0)
  BY <1>6, <1>11, <1>14, Concat
<1>16. y3 = FromResidual3(f, x)
  BY <1>4, <1>8 DEF FromResidual3
<1>17. y2 = FromResidual2(f, x)
  BY <1>3, <1>9, <1>16 DEF FromResidual2
<1>18. y1 = FromResidual1(f, x)
  BY <1>2, <1>10, <1>17 DEF FromResidual1
<1>19. y0 = FromResidual0(f, x)
  BY <1>1, <1>11, <1>18 DEF FromResidual0
<1>20. ASSUME f.stage1 # 1 PROVE FromTail(f, s, x) = l \o y0
  <2>1. PICK e : e = l \o a
    OBVIOUS
  <2>2. PICK h : h = e \o b
    OBVIOUS
  <2>3. PICK m : m = h \o c
    OBVIOUS
  <2>4. FromTail(f, s, x) = (m \o d) \o x
    <3>1. m \o d = encodeSmplGains(f)
      BY <2>1, <2>2, <2>3, <1>1, <1>2, <1>3, <1>4, <1>5 DEF encodeSmplGains
    <3> QED BY <3>1, <1>20 DEF FromTail, PitchOrGains
  <2>5. IsSeq(e)
    BY <2>1, <1>6, <1>7, Concat
  <2>6. IsSeq(h)
    BY <2>2, <2>5, <1>6, Concat
  <2>7. IsSeq(m)
    BY <2>3, <2>6, <1>6, Concat
  <2>8. Apart(m, d, x)
    BY <2>7, <1>6 DEF Apart
  <2>9. (m \o d) \o x = m \o y3
    BY <2>8, <1>8, Nest3
  <2>10. Apart(h, c, y3)
    BY <2>6, <1>6, <1>12 DEF Apart
  <2>11. m \o y3 = h \o y2
    BY <2>3, <2>10, <1>9, Nest3
  <2>12. Apart(e, b, y2)
    BY <2>5, <1>6, <1>13 DEF Apart
  <2>13. h \o y2 = e \o y1
    BY <2>2, <2>12, <1>10, Nest3
  <2>14. Apart(l, a, y1)
    BY <1>6, <1>7, <1>14 DEF Apart
  <2>15. e \o y1 = l \o y0
    BY <2>1, <2>14, <1>11, Nest3
  <2> QED BY <2>4, <2>9, <2>11, <2>13, <2>15
<1>21. /\ FromResidual(f, x, 0) = y0 /\ FromResidual(f, x, 1) = y1 /\ FromResidual(f, x, 2) = y2
       /\ FromResidual(f, x, 3) = y3 /\ FromResidual(f, x, 4) = x
  BY <1>16, <1>17, <1>18, <1>19 DEF FromResidual
<1>22. ASSUME NEW sf \in Subframes
       PROVE  /\ IsSeq(FromResidual(f, x, sf)) /\ IsSeq(FromResidual(f, x, sf + 1))
              /\ FromResidual(f, x, sf) = encodeResidual(f, sf) \o FromResidual(f, x, sf + 1)
  <2>1. CASE sf = 0
    <3>1. sf + 1 = 1
      BY <2>1
    <3> QED BY <2>1, <3>1, <1>1, <1>11, <1>14, <1>15, <1>21, Zenon
  <2>2. CASE sf = 1
    <3>1. sf + 1 = 2
      BY <2>2
    <3> QED BY <2>2, <3>1, <1>2, <1>10, <1>13, <1>14, <1>21, Zenon
  <2>3. CASE sf = 2
    <3>1. sf + 1 = 3
      BY <2>3
    <3> QED BY <2>3, <3>1, <1>3, <1>9, <1>12, <1>13, <1>21, Zenon
  <2>4. CASE sf = 3
    <3>1. sf + 1 = 4
      BY <2>4
    <3> QED BY <2>4, <3>1, <1>4, <1>8, <1>12, <1>21, Zenon
  <2> QED BY <2>1, <2>2, <2>3, <2>4, SubframesAre
<1> QED BY <1>5, <1>20, <1>21, <1>22

(* The lags, apart from the contour before them.                           *)
LEMMA LagsWire ==
  ASSUME NEW f, WellFound(f), NEW g, NEW x, IsSeq(x)
  PROVE  /\ IsSeq(FromLags(f, g, x)) /\ IsSeq(FromFine(f, g, x)) /\ IsSeq(FineSymbol(g, f))
         /\ FromContour(f, g, x) = encodeContour(g, f) \o FromFine(f, g, x)
<1>1. PICK c : c = encodeContour(g, f)
  OBVIOUS
<1>2. PICK a : a = FineSymbol(g, f)
  OBVIOUS
<1>3. PICK l : l = encodeLags(g, f)
  OBVIOUS
<1>4. IsSeq(c) /\ IsSeq(a) /\ IsSeq(l)
  BY <1>1, <1>2, <1>3, LagsSeq, IfSeq DEF FineSymbol
<1>5. PICK y : y = l \o x
  OBVIOUS
<1>6. PICK z : z = a \o y
  OBVIOUS
<1>7. PICK e : e = c \o a
  OBVIOUS
<1>8. IsSeq(y)
  BY <1>4, <1>5, Concat
<1>9. IsSeq(z) /\ IsSeq(e)
  BY <1>4, <1>6, <1>7, <1>8, Concat
<1>10. Apart(e, l, x) /\ Apart(c, a, y)
  BY <1>4, <1>8, <1>9 DEF Apart
<1>11. FromContour(f, g, x) = (e \o l) \o x
  BY <1>1, <1>2, <1>3, <1>7 DEF FromContour, encodeLagsWire, FineSymbol
<1>12. (e \o l) \o x = e \o y
  BY <1>5, <1>10, Nest3
<1>13. e \o y = c \o z
  BY <1>6, <1>7, <1>10, Nest3
<1>14. y = FromLags(f, g, x) /\ z = FromFine(f, g, x)
  BY <1>2, <1>3, <1>5, <1>6 DEF FromLags, FromFine
<1> QED BY <1>1, <1>2, <1>4, <1>8, <1>9, <1>11, <1>12, <1>13, <1>14
-----------------------------------------------------------------------------
(* Reading what is next.                                                   *)
LEMMA NextIs ==
  ASSUME NEW CONSTANT a, NEW CONSTANT t, IsSeq(a), IsSeq(t), Ahead(input, a \o t),
         NEW CONSTANT j \in 1 .. Len(a), NEW CONSTANT table, NEW CONSTANT sym,
         a[j] = Symbol(table, sym)
  PROVE  Coming(j, table) /\ Got(j) = sym
<1>1. input.at + j <= Len(input.body) /\ input.body[input.at + j] = a[j]
  BY AheadFirst
<1>2. Symbol(table, sym).table = table /\ Symbol(table, sym).sym = sym
  BY DEF Symbol
<1> QED BY <1>1, <1>2 DEF Coming, Got

LEMMA Took ==
  ASSUME NEW CONSTANT a, NEW CONSTANT t, IsSeq(a), IsSeq(t), Ahead(input, a \o t),
         NEW CONSTANT n, n = Len(a), Take(n)
  PROVE  Ahead(input', t)
<1>1. input' = [input EXCEPT !.at = @ + Len(a)]
  BY DEF Take
<1>2. Ahead([input EXCEPT !.at = @ + Len(a)], t)
  BY AheadTake
<1> QED BY <1>1, <1>2

LEMMA IfLen ==
  ASSUME NEW c, NEW x
  PROVE  Len(If(c, x)) = (IF c THEN 1 ELSE 0) /\ (c => If(c, x)[1] = x)
BY Nothing, One DEF If

(* The places of the decoder.                                              *)
Turn(place, sf, n) ==
  [at |-> place, sf |-> sf, left |-> 0, first |-> TRUE, pos |-> 0, runPos |-> 0, n |-> n]

LEMMA TurnFacts ==
  ASSUME NEW place
  PROVE  [NoTurn EXCEPT !.at = place] = Turn(place, 0, 0)
<1> DEFINE l == [NoTurn EXCEPT !.at = place]
           r == Turn(place, 0, 0)
           S == {"at", "sf", "left", "first", "pos", "runPos", "n"}
<1>1. /\ DOMAIN l = S /\ DOMAIN r = S
      /\ l.at = r.at /\ l.sf = r.sf /\ l.left = r.left /\ l.first = r.first /\ l.pos = r.pos
      /\ l.runPos = r.runPos /\ l.n = r.n
  BY DEF Turn, NoTurn
<1>2. l = [y \in DOMAIN l |-> l[y]] /\ r = [y \in DOMAIN r |-> r[y]]
  BY DEF Turn, NoTurn
<1> HIDE DEF l, r
<1>3. [y \in S |-> l[y]] = [y \in S |-> r[y]]
  BY <1>1
<1>4. l = r
  BY <1>1, <1>2, <1>3, Zenon
<1> QED BY <1>4 DEF l, r

LEMMA TurnNone == NoTurn = Turn("lsf", 0, 0)
BY DEF NoTurn, Turn

LEMMA TurnSf ==
  ASSUME NEW place, NEW sf, NEW n
  PROVE  [Turn(place, sf, n) EXCEPT !.sf = @ + 1] = Turn(place, sf + 1, n)
<1> DEFINE l == [Turn(place, sf, n) EXCEPT !.sf = @ + 1]
           r == Turn(place, sf + 1, n)
           S == {"at", "sf", "left", "first", "pos", "runPos", "n"}
<1>1. /\ DOMAIN l = S /\ DOMAIN r = S
      /\ l.at = r.at /\ l.sf = r.sf /\ l.left = r.left /\ l.first = r.first /\ l.pos = r.pos
      /\ l.runPos = r.runPos /\ l.n = r.n
  BY DEF Turn
<1>2. l = [y \in DOMAIN l |-> l[y]] /\ r = [y \in DOMAIN r |-> r[y]]
  BY DEF Turn
<1> HIDE DEF l, r
<1>3. [y \in S |-> l[y]] = [y \in S |-> r[y]]
  BY <1>1
<1>4. l = r
  BY <1>1, <1>2, <1>3, Zenon
<1> QED BY <1>4 DEF l, r

LEMMA TurnN ==
  ASSUME NEW place, NEW sf, NEW n, NEW k
  PROVE  [Turn(place, sf, n) EXCEPT !.n = @ + k] = Turn(place, sf, n + k)
<1> DEFINE l == [Turn(place, sf, n) EXCEPT !.n = @ + k]
           r == Turn(place, sf, n + k)
           S == {"at", "sf", "left", "first", "pos", "runPos", "n"}
<1>1. /\ DOMAIN l = S /\ DOMAIN r = S
      /\ l.at = r.at /\ l.sf = r.sf /\ l.left = r.left /\ l.first = r.first /\ l.pos = r.pos
      /\ l.runPos = r.runPos /\ l.n = r.n
  BY DEF Turn
<1>2. l = [y \in DOMAIN l |-> l[y]] /\ r = [y \in DOMAIN r |-> r[y]]
  BY DEF Turn
<1> HIDE DEF l, r
<1>3. [y \in S |-> l[y]] = [y \in S |-> r[y]]
  BY <1>1
<1>4. l = r
  BY <1>1, <1>2, <1>3, Zenon
<1> QED BY <1>4 DEF l, r

LEMMA TurnFields ==
  ASSUME NEW place, NEW sf, NEW n
  PROVE  Turn(place, sf, n).at = place /\ Turn(place, sf, n).sf = sf /\ Turn(place, sf, n).n = n
BY DEF Turn

RunTurn(p, sf, j) ==
  [at |-> "runs", sf |-> sf, left |-> Count(p, sf) - j, first |-> j = 0,
   pos |-> Start(sf + 1) - PreviousUnit(p, sf, j + 1), runPos |-> PreviousUnit(p, sf, j + 1), n |-> 0]

(* The list while the signs are read: those of the first n pulses came.    *)
SignsAfter(p, n) ==
  [j \in 1 .. Total(Support(p)) |->
     [pos |-> Pulse(p, j), mag |-> IF j <= n THEN p[Pulse(p, j)] ELSE Abs(p[Pulse(p, j)])]]
ListRead(p) == SignsAfter(p, Total(Support(p)))

SignsPlace(f, s, x, t, l, inp) ==
  \E b \in 0 .. Batches(Total(Support(f.pulses))) :
    LET n == Smaller(From(b + 1), Total(Support(f.pulses)))
    IN  /\ t = Turn("signs", 0, n) /\ l = SignsAfter(f.pulses, n)
        /\ Ahead(inp, Drop(encodeSigns(f.pulses), b) \o FromTail(f, s, x))

RunsPlace(f, s, x, t, l, inp) ==
  \E sf \in Subframes, j \in Nat :
    /\ j < Count(f.pulses, sf) /\ t = RunTurn(f.pulses, sf, j)
    /\ l = ListAfter(f.pulses, Before(f.pulses)[Start(sf)] + j)
    /\ Ahead(inp, Drop(encodeRuns(f.pulses, sf), j) \o FromRuns(f, s, x, sf + 1))

(* With all units read, the list is that of the excitation without signs.  *)
LEMMA SignsStart ==
  ASSUME NEW f, WellFound(f), NEW s, NEW x, NEW inp, Ahead(inp, FromSigns(f, s, x))
  PROVE  SignsPlace(f, s, x, [NoTurn EXCEPT !.at = "signs"], ListAfter(f.pulses, Total(f.pulses)), inp)
<1>1. PICK p \in [Positions -> Int] : p = f.pulses
  BY DEF WellFound
<1> DEFINE N == Total(Support(p))
           l == ListAfter(p, Total(p))
<1>2. N \in Nat /\ Total(p) \in Nat
  BY PulseFacts, CountFacts
<1>3. 0 \in 0 .. Batches(N) /\ From(1) = 0
  BY <1>2, BatchFacts
<1>4. Smaller(From(0 + 1), N) = 0
  BY <1>2, <1>3 DEF Smaller
<1>5. [NoTurn EXCEPT !.at = "signs"] = Turn("signs", 0, 0)
  BY TurnFacts
<1>6. l = SignsAfter(p, 0)
  <2>1. Begun(p, Total(p)) = N
    BY BegunFacts
  <2>2. ASSUME NEW j \in 1 .. N
        PROVE  MagAfter(p, Total(p), Pulse(p, j)) = IF j <= 0 THEN p[Pulse(p, j)] ELSE Abs(p[Pulse(p, j)])
    <3>1. PICK w \in Positions : w = Pulse(p, j)
      BY PulseFacts
    <3>2. PICK b \in Sums(p) : b = Before(p)
      BY BeforeSums
    <3>3. w + 1 \in 0 .. 4 * PosPer /\ 4 * PosPer \in 0 .. 4 * PosPer /\ w + 1 <= 4 * PosPer
      BY PosFacts DEF Positions
    <3>4. b[w + 1] <= b[4 * PosPer]
      BY <3>3, SumsGrow
    <3>5. Before(p)[w + 1] <= Total(p)
      BY <3>2, <3>4 DEF Total
    <3>6. MagAfter(p, Total(p), w) = Abs(p[w])
      BY <3>5, <1>2, MagFull
    <3>7. ~(j <= 0)
      BY <1>2
    <3> QED BY <3>1, <3>6, <3>7, Zenon
  <2>3. l = [j \in 1 .. N |-> [pos |-> Pulse(p, j), mag |-> MagAfter(p, Total(p), Pulse(p, j))]]
    BY <2>1 DEF ListAfter
  <2> HIDE DEF l, N
  <2>4. [j \in 1 .. N |-> [pos |-> Pulse(p, j), mag |-> MagAfter(p, Total(p), Pulse(p, j))]]
        = [j \in 1 .. N |-> [pos |-> Pulse(p, j),
                             mag |-> IF j <= 0 THEN p[Pulse(p, j)] ELSE Abs(p[Pulse(p, j)])]]
    BY <2>2, Zenon
  <2> QED BY <2>3, <2>4, Zenon DEF SignsAfter, N
<1>7. Ahead(inp, Drop(encodeSigns(p), 0) \o FromTail(f, s, x))
  <2>1. Drop(encodeSigns(p), 0) = encodeSigns(p)
    BY SignsSeq, DropNone
  <2> QED BY <2>1, <1>1 DEF FromSigns
<1> QED BY <1>1, <1>3, <1>4, <1>5, <1>6, <1>7, Zenon DEF SignsPlace

(* The runs go on with the next subframe that has pulses.                  *)
LEMMA RunsOfFacts ==
  ASSUME NEW f, WellFound(f), NEW sf \in Subframes
  PROVE  /\ Count(f.pulses, sf) > 0 => RunsOf(Split(f), sf) = RunTurn(f.pulses, sf, 0)
         /\ Count(f.pulses, sf) = 0 => RunsOf(Split(f), sf) = RunsOf(Split(f), sf + 1)
         /\ RunsOf(Split(f), 4) = [NoTurn EXCEPT !.at = "signs"]
<1>1. PICK p \in [Positions -> Int] : p = f.pulses
  BY DEF WellFound
<1>2. /\ \A t \in Subframes : Split(f)[t] = Count(p, t) /\ Count(p, t) \in Nat
      /\ Subframes = 0 .. 3
  BY <1>1, CountFacts DEF Split, Subframes
<1> DEFINE Later(n) == {t \in n .. 3 : Split(f)[t] > 0}
<1>3. ASSUME Count(p, sf) > 0 PROVE RunsOf(Split(f), sf) = RunTurn(p, sf, 0)
  <2>1. sf \in Later(sf) /\ \A t \in Later(sf) : sf <= t
    BY <1>2, <1>3
  <2>2. \A t \in Later(sf) : (\A r \in Later(sf) : t <= r) => t = sf
    BY <2>1, <1>2
  <2>3. Later(sf) # {} /\ (CHOOSE t \in Later(sf) : \A r \in Later(sf) : t <= r) = sf
    <3> HIDE DEF Later
    <3> QED BY <2>1, <2>2
  <2>4. RunsOf(Split(f), sf) =
          [NoTurn EXCEPT !.at = "runs", !.sf = sf, !.left = Split(f)[sf], !.pos = PosPer, !.runPos = Start(sf)]
    BY <2>3 DEF RunsOf
  <2> DEFINE c == Count(p, sf)
             b == Start(sf)
             l == [NoTurn EXCEPT !.at = "runs", !.sf = sf, !.left = c, !.pos = PosPer, !.runPos = b]
             r == [at |-> "runs", sf |-> sf, left |-> c, first |-> TRUE, pos |-> PosPer, runPos |-> b, n |-> 0]
             S == {"at", "sf", "left", "first", "pos", "runPos", "n"}
  <2>5. DOMAIN l = S /\ DOMAIN r = S
    BY DEF NoTurn
  <2>6. /\ l.at = r.at /\ l.sf = r.sf /\ l.left = r.left /\ l.first = r.first /\ l.pos = r.pos
        /\ l.runPos = r.runPos /\ l.n = r.n
    BY DEF NoTurn
  <2>7. l = [y \in DOMAIN l |-> l[y]] /\ r = [y \in DOMAIN r |-> r[y]]
    BY DEF NoTurn
  <2>8. l = r
    <3> HIDE DEF l, r
    <3>1. [y \in S |-> l[y]] = [y \in S |-> r[y]]
      BY <2>6
    <3> QED BY <2>5, <2>7, <3>1, Zenon
  <2>9. r = RunTurn(p, sf, 0)
    <3>1. c - 0 = c /\ PreviousUnit(p, sf, 0 + 1) = b /\ Start(sf + 1) - b = PosPer
      <4>1. PreviousUnit(p, sf, 1) = b
        BY DEF PreviousUnit
      <4>2. PICK z \in Int : z = b
        BY Starts, PosFacts DEF Positions
      <4>3. Start(sf + 1) = b + PosPer
        BY Starts
      <4>4. c \in Nat
        BY <1>2
      <4> HIDE DEF b, c
      <4> QED BY <4>1, <4>2, <4>3, <4>4, PosFacts
    <3>2. (0 = 0) = TRUE
      OBVIOUS
    <3> QED BY <3>1, <3>2 DEF RunTurn
  <2> QED BY <2>4, <2>8, <2>9, <1>2
<1>4. ASSUME Count(p, sf) = 0 PROVE RunsOf(Split(f), sf) = RunsOf(Split(f), sf + 1)
  <2>1. Later(sf) = Later(sf + 1)
    <3>1. ASSUME NEW t PROVE t \in Later(sf) <=> t \in Later(sf + 1)
      <4>1. sf \in 0 .. 3 /\ ~(Split(f)[sf] > 0)
        BY <1>2, <1>4
      <4> QED BY <4>1
    <3> HIDE DEF Later
    <3> QED BY <3>1
  <2> DEFINE Next(later) ==
               LET next == CHOOSE r \in later : \A t \in later : r <= t
               IN  IF later = {} THEN [NoTurn EXCEPT !.at = "signs"]
                   ELSE [NoTurn EXCEPT !.at = "runs", !.sf = next, !.left = Split(f)[next],
                                       !.pos = PosPer, !.runPos = Start(next)]
  <2>2. RunsOf(Split(f), sf) = Next(Later(sf)) /\ RunsOf(Split(f), sf + 1) = Next(Later(sf + 1))
    BY DEF RunsOf
  <2> HIDE DEF Next, Later
  <2> QED BY <2>1, <2>2
<1>5. RunsOf(Split(f), 4) = [NoTurn EXCEPT !.at = "signs"]
  <2>1. Later(4) = {}
    OBVIOUS
  <2> QED BY <2>1 DEF RunsOf
<1> QED BY <1>1, <1>3, <1>4, <1>5

(* The place of the first run, or of the signs when there is none.         *)
LEMMA RunsStart ==
  ASSUME NEW f, WellFound(f), NEW s, NEW x, IsSeq(x), NEW inp, NEW sf \in 0 .. 4,
         Ahead(inp, FromRuns(f, s, x, sf))
  PROVE  LET t == RunsOf(Split(f), sf) l == ListAfter(f.pulses, Before(f.pulses)[Start(sf)])
         IN  RunsPlace(f, s, x, t, l, inp) \/ SignsPlace(f, s, x, t, l, inp)
<1>1. PICK p \in [Positions -> Int] : p = f.pulses
  BY DEF WellFound
<1> DEFINE List(n) == ListAfter(p, Before(p)[Start(n)])
           Place(n) == \/ RunsPlace(f, s, x, RunsOf(Split(f), n), List(n), inp)
                       \/ SignsPlace(f, s, x, RunsOf(Split(f), n), List(n), inp)
           Good(n) == Ahead(inp, FromRuns(f, s, x, n)) => Place(n)
<1>2. Good(4)
  <2>1. FromRuns(f, s, x, 4) = FromSigns(f, s, x)
    BY DEF FromRuns
  <2>2. Before(p)[Start(4)] = Total(p)
    BY CountFacts
  <2>3. RunsOf(Split(f), 4) = [NoTurn EXCEPT !.at = "signs"]
    BY RunsOfFacts, SubframesAre
  <2> QED BY <2>1, <2>2, <2>3, <1>1, SignsStart
<1>3. ASSUME NEW n \in Subframes, Good(n + 1) PROVE Good(n)
  <2> SUFFICES ASSUME Ahead(inp, FromRuns(f, s, x, n)) PROVE Place(n)
    OBVIOUS
  <2>1. Count(p, n) \in Nat /\ Before(p)[Start(n)] \in Nat
    BY CountFacts, SubframeSums
  <2>2. CASE Count(p, n) = 0
    <3>1. FromRuns(f, s, x, n) = FromRuns(f, s, x, n + 1) /\ RunsOf(Split(f), n) = RunsOf(Split(f), n + 1)
      BY <2>2, <1>1, NoRuns, RunsOfFacts, SMTT(30), ZenonT(60)
    <3>2. Before(p)[Start(n + 1)] = Before(p)[Start(n)]
      BY <2>1, <2>2, SubframeSums
    <3> QED BY <3>1, <3>2, <1>3
  <2>3. CASE Count(p, n) # 0
    <3>1. Count(p, n) > 0 /\ 0 \in Nat
      BY <2>1, <2>3
    <3>2. RunsOf(Split(f), n) = RunTurn(p, n, 0)
      BY <3>1, <1>1, RunsOfFacts
    <3>3. Before(p)[Start(n)] + 0 = Before(p)[Start(n)]
      <4>1. PICK j \in Nat : j = Before(p)[Start(n)]
        BY <2>1
      <4> QED BY <4>1
    <3>4. Ahead(inp, Drop(encodeRuns(p, n), 0) \o FromRuns(f, s, x, n + 1))
      <4>1. Drop(encodeRuns(p, n), 0) = encodeRuns(p, n)
        BY RunsSeq, DropNone
      <4>2. FromRuns(f, s, x, n) = encodeRuns(p, n) \o FromRuns(f, s, x, n + 1)
        BY <1>1, NoRuns
      <4> QED BY <4>1, <4>2
    <3>5. /\ 0 < Count(p, n) /\ RunsOf(Split(f), n) = RunTurn(p, n, 0)
          /\ List(n) = ListAfter(p, Before(p)[Start(n)] + 0)
      BY <3>1, <3>2, <3>3
    <3>6. RunsPlace(f, s, x, RunsOf(Split(f), n), List(n), inp)
      <4> HIDE DEF List
      <4> QED BY <3>1, <3>4, <3>5, <1>1 DEF RunsPlace
    <3> QED BY <3>6
  <2> QED BY <2>2, <2>3
<1> HIDE DEF Good
<1>4. Good(3) /\ Good(2) /\ Good(1) /\ Good(0)
  <2>1. 3 + 1 = 4 /\ 2 + 1 = 3 /\ 1 + 1 = 2 /\ 0 + 1 = 1 /\ 3 \in Subframes /\ 2 \in Subframes
        /\ 1 \in Subframes /\ 0 \in Subframes
    BY SubframesAre
  <2>2. Good(3)
    BY <2>1, <1>2, <1>3
  <2>3. Good(2)
    BY <2>1, <2>2, <1>3
  <2>4. Good(1)
    BY <2>1, <2>3, <1>3
  <2>5. Good(0)
    BY <2>1, <2>4, <1>3
  <2> QED BY <2>2, <2>3, <2>4, <2>5
<1>5. Good(sf)
  <2>1. sf = 0 \/ sf = 1 \/ sf = 2 \/ sf = 3 \/ sf = 4
    OBVIOUS
  <2> QED BY <2>1, <1>2, <1>4
<1> QED BY <1>1, <1>5 DEF Good
-----------------------------------------------------------------------------
(* Where the decoder is in a frame f, with the encoder's predictor s after *)
(* the header, the symbols x of the frames after it, and y the NLSF of the *)
(* frame before.                                                           *)
AtCount(f, s, x, y) ==
  /\ turn = Turn("count", 0, 0) /\ frame = HeaderRead(f) /\ list = << >>
  /\ decoder = DecoderAt(s, y) /\ Ahead(input, FromCount(f, s, x))

AtTotal(f, s, x, y) ==
  /\ turn = Turn("total", 0, 0) /\ frame = CountRead(f) /\ list = << >> /\ Total(f.pulses) # 0
  /\ decoder = DecoderAt(s, y) /\ Ahead(input, FromTotal(f, s, x))

AtHalves(f, s, x, y) ==
  /\ turn = Turn("halves", 0, 0) /\ frame = TotalRead(f) /\ list = << >> /\ Total(f.pulses) # 0
  /\ decoder = DecoderAt(s, y) /\ Ahead(input, FromHalves(f, s, x))

AtRuns(f, s, x, y) ==
  /\ frame = SplitRead(f) /\ decoder = DecoderAt(s, y) /\ RunsPlace(f, s, x, turn, list, input)

AtSigns(f, s, x, y) ==
  /\ frame = SplitRead(f) /\ decoder = DecoderAt(s, y) /\ SignsPlace(f, s, x, turn, list, input)

LEMMA NextOne ==
  ASSUME NEW CONSTANT t, IsSeq(t), NEW CONSTANT table, NEW CONSTANT sym,
         Ahead(input, <<Symbol(table, sym)>> \o t)
  PROVE  /\ Coming(1, table) /\ Got(1) = sym
         /\ Take(1) => Ahead(input', t)
<1>1. PICK a : a = <<Symbol(table, sym)>>
  OBVIOUS
<1>2. IsSeq(a) /\ Len(a) = 1 /\ a[1] = Symbol(table, sym)
  BY <1>1, One
<1>3. 1 \in 1 .. Len(a) /\ Ahead(input, a \o t)
  BY <1>1, <1>2
<1>4. Coming(1, table) /\ Got(1) = sym
  BY <1>2, <1>3, NextIs
<1>5. ASSUME Take(1) PROVE Ahead(input', t)
  BY <1>2, <1>3, <1>5, Took
<1> QED BY <1>4, <1>5

LEMMA NextIf ==
  ASSUME NEW CONSTANT c \in BOOLEAN, NEW CONSTANT t, IsSeq(t), NEW CONSTANT table, NEW CONSTANT sym,
         Ahead(input, If(c, Symbol(table, sym)) \o t)
  PROVE  /\ c => Coming(1, table) /\ Got(1) = sym
         /\ Take(IF c THEN 1 ELSE 0) => Ahead(input', t)
<1>1. PICK a : a = If(c, Symbol(table, sym))
  OBVIOUS
<1>2. IsSeq(a) /\ Len(a) = (IF c THEN 1 ELSE 0) /\ (c => a[1] = Symbol(table, sym))
  BY <1>1, IfSeq, IfLen
<1>3. Ahead(input, a \o t)
  BY <1>1
<1>4. ASSUME c PROVE Coming(1, table) /\ Got(1) = sym
  <2>1. 1 \in 1 .. Len(a) /\ a[1] = Symbol(table, sym)
    BY <1>2, <1>4
  <2> QED BY <2>1, <1>2, <1>3, NextIs
<1>5. ASSUME Take(IF c THEN 1 ELSE 0) PROVE Ahead(input', t)
  <2>1. PICK n : n = IF c THEN 1 ELSE 0
    OBVIOUS
  <2> QED BY <2>1, <1>2, <1>3, <1>5, Took
<1> QED BY <1>4, <1>5

LEMMA ListNone == ASSUME NEW p \in [Positions -> Int] PROVE ListAfter(p, 0) = << >>
<1>1. 0 \in 0 .. Total(p)
  BY CountFacts
<1>2. IsSeq(ListAfter(p, 0)) /\ Len(ListAfter(p, 0)) = 0
  BY <1>1, ListFacts, BegunFacts
<1> QED BY <1>2, SameSeq, Nothing

(* From the number of pulses to the split, or to the signs.                *)
LEMMA CountStep ==
  ASSUME NEW CONSTANT f, WellFound(f), NEW CONSTANT s, NEW CONSTANT x, IsSeq(x), NEW CONSTANT y,
         AtCount(f, s, x, y), decodeCount
  PROVE  AtTotal(f, s, x, y)' \/ AtSigns(f, s, x, y)'
<1> PICK p \in [Positions -> Int] : p = f.pulses
  BY DEF WellFound
<1> DEFINE l == 4 * Granularity[f.stage1]
           c == encodeCount(f.stage1, Total(p))
<1>1. PICK w : w = FromSplits(f, s, x)
  OBVIOUS
<1>2. IsSeq(<<c>>) /\ Len(<<c>>) = 1 /\ <<c>>[1] = c /\ IsSeq(w)
  BY <1>1, One, FromSeq
<1>3. Ahead(input, <<c>> \o w)
  BY <1>1 DEF AtCount, FromCount
<1>4. PICK n \in 0 .. l : n = Total(p)
  BY SplitsWire
<1>5. PICK v : v = [from |-> IF n > 0 THEN triT(l, n - 1) ELSE 0, to |-> triT(l, n)]
  OBVIOUS
<1>6. c = Symbol(<<"count", l>>, v)
  BY <1>4, <1>5 DEF encodeCount
<1>7. Coming(1, <<"count", l>>) /\ Got(1) = v
  <2> HIDE DEF c, l
  <2> QED BY <1>2, <1>3, <1>6, NextOne
<1>8. PulseCount(l, v.from) = n /\ PulseCount(l, v.to - 1) = n
  <2>1. f.stage1 \in {0, 1}
    BY DEF WellFound
  <2>2. l \in Nat
    BY <2>1, SyntaxAssumption
  <2>3. PulseCount(l, IF n > 0 THEN triT(l, n - 1) ELSE 0) = n /\ PulseCount(l, triT(l, n) - 1) = n
    <3> HIDE DEF l
    <3> QED BY <2>2, CountCoded
  <2>4. v.from = (IF n > 0 THEN triT(l, n - 1) ELSE 0) /\ v.to = triT(l, n)
    BY <1>5
  <2> QED BY <2>3, <2>4
<1>9. frame.stage1 = f.stage1 /\ frame = HeaderRead(f)
  BY HeaderFields DEF AtCount, SameHeader
<1>10. /\ Take(1) /\ frame' = [frame EXCEPT !.total = n]
       /\ GoTo(IF n = 0 \/ Least(f.stage1, n) < Lowest(n) THEN "signs" ELSE "total")
       /\ UNCHANGED <<decoder, list, results>>
  BY <1>7, <1>8, <1>9 DEF decodeCount
<1>11. Ahead(input', w)
  <2> HIDE DEF c
  <2> QED BY <1>2, <1>3, <1>10, Took
<1>12. frame' = CountRead(f)
  BY <1>4, <1>9, <1>10 DEF CountRead
<1>13. decoder' = DecoderAt(s, y) /\ list' = << >>
  BY <1>10 DEF AtCount
<1>14. CASE n = 0
  <2>1. turn' = [NoTurn EXCEPT !.at = "signs"]
    BY <1>10, <1>14 DEF GoTo
  <2>2. w = FromSigns(f, s, x) /\ Total(p) = 0
    BY <1>1, <1>4, <1>14, SplitsWire
  <2>3. list' = ListAfter(p, Total(p))
    BY <1>13, <2>2, ListNone
  <2>4. SignsPlace(f, s, x, turn', list', input')
    BY <1>11, <2>1, <2>2, <2>3, SignsStart
  <2>5. frame' = SplitRead(f)
    BY <1>12, <2>2 DEF SplitRead
  <2>6. AtSigns(f, s, x, y)'
    BY <1>13, <2>4, <2>5 DEF AtSigns
  <2> QED BY <2>6
<1>15. CASE n # 0
  <2>1. ~(Least(f.stage1, n) < Lowest(n))
    <3>1. PICK first \in 0 .. 2 * Granularity[f.stage1] : first = First(p)
      BY SplitsWire
    <3>2. PICK rest \in 0 .. 2 * Granularity[f.stage1] : rest = Rest(p)
      BY SplitsWire
    <3>3. n = first + rest /\ f.stage1 \in {0, 1}
      BY <1>4, <3>1, <3>2, SplitsWire DEF WellFound
    <3> QED BY <3>3, HalvesFound
  <2>2. turn' = Turn("total", 0, 0)
    BY <1>10, <1>15, <2>1, TurnFacts DEF GoTo
  <2>3. w = FromTotal(f, s, x) /\ Total(p) # 0
    BY <1>1, <1>4, <1>15, SplitsWire
  <2>4. AtTotal(f, s, x, y)'
    BY <1>11, <1>12, <1>13, <2>2, <2>3 DEF AtTotal
  <2> QED BY <2>4
<1> QED BY <1>14, <1>15

(* From the first split to those of the halves.                            *)
LEMMA TotalStep ==
  ASSUME NEW CONSTANT f, WellFound(f), NEW CONSTANT s, NEW CONSTANT x, IsSeq(x), NEW CONSTANT y,
         AtTotal(f, s, x, y), decodeTotal
  PROVE  AtHalves(f, s, x, y)'
<1>1. PICK p \in [Positions -> Int] : p = f.pulses
  BY DEF WellFound
<1>2. PICK w : w = FromHalves(f, s, x)
  OBVIOUS
<1>3. IsSeq(w)
  BY <1>2, FromSeq
<1>4. PICK first \in 0 .. 2 * Granularity[f.stage1] : first = First(p)
  BY <1>1, SplitsWire
<1>5. PICK rest \in 0 .. 2 * Granularity[f.stage1] : rest = Rest(p)
  BY <1>1, SplitsWire
<1>6. PICK n : n = Total(p)
  OBVIOUS
<1>7. n = first + rest /\ f.stage1 \in {0, 1}
  BY <1>1, <1>4, <1>5, <1>6, SplitsWire DEF WellFound
<1>8. /\ ~(Least(f.stage1, n) < Lowest(n)) /\ Least(f.stage1, n) \in Int
      /\ ~(Least(f.stage1, n) < n - Lowest(n)) => first = Least(f.stage1, n)
  BY <1>7, HalvesFound
<1>9. PICK low \in Int : low = Least(f.stage1, n)
  BY <1>8
<1>10. PICK read \in BOOLEAN : read = (low < n - Lowest(n))
  <2>1. (low < n - Lowest(n)) \in BOOLEAN
    OBVIOUS
  <2> QED BY <2>1, Zenon
<1>11. ~read => first = low
  BY <1>9, <1>10, <1>8
<1>12. PICK table : table = TotalTable(f.stage1, n)
  OBVIOUS
<1>13. Ahead(input, If(read, Symbol(table, first - low)) \o w)
  BY <1>1, <1>2, <1>4, <1>6, <1>9, <1>10, <1>12 DEF AtTotal, FromTotal, TotalSymbol
<1>14. /\ read => Coming(1, table) /\ Got(1) = first - low
       /\ Take(IF read THEN 1 ELSE 0) => Ahead(input', w)
  BY <1>3, <1>13, NextIf
<1>15. frame = CountRead(f) /\ frame.stage1 = f.stage1 /\ frame.total = n
  BY <1>1, <1>6, CountFields DEF AtTotal, SameHeader
<1>16. /\ Take(IF read THEN 1 ELSE 0)
       /\ frame' = [frame EXCEPT !.sum = low + IF read THEN Got(1) ELSE 0]
       /\ GoTo("halves")
       /\ UNCHANGED <<decoder, list, results>>
  BY <1>9, <1>10, <1>12, <1>14, <1>15 DEF decodeTotal
<1>17. low + (IF read THEN Got(1) ELSE 0) = first
  BY <1>11, <1>14
<1>18. frame' = TotalRead(f)
  BY <1>1, <1>4, <1>15, <1>16, <1>17 DEF TotalRead
<1>19. turn' = Turn("halves", 0, 0)
  BY <1>16, TurnFacts DEF GoTo
<1> QED BY <1>2, <1>14, <1>16, <1>18, <1>19 DEF AtTotal, AtHalves

LEMMA NextIfs ==
  ASSUME NEW CONSTANT c \in BOOLEAN, NEW CONSTANT d \in BOOLEAN, NEW CONSTANT t, IsSeq(t),
         NEW CONSTANT table1, NEW CONSTANT sym1, NEW CONSTANT table2, NEW CONSTANT sym2,
         Ahead(input, If(c, Symbol(table1, sym1)) \o (If(d, Symbol(table2, sym2)) \o t))
  PROVE  /\ c => Coming(1, table1) /\ Got(1) = sym1
         /\ d => Coming(IF c THEN 2 ELSE 1, table2) /\ Got(IF c THEN 2 ELSE 1) = sym2
         /\ Take((IF c THEN 1 ELSE 0) + (IF d THEN 1 ELSE 0)) => Ahead(input', t)
<1>1. PICK a : a = If(c, Symbol(table1, sym1))
  OBVIOUS
<1>2. PICK b : b = If(d, Symbol(table2, sym2))
  OBVIOUS
<1>3. IsSeq(a) /\ Len(a) = (IF c THEN 1 ELSE 0) /\ (c => a[1] = Symbol(table1, sym1))
  BY <1>1, IfSeq, IfLen
<1>4. IsSeq(b) /\ Len(b) = (IF d THEN 1 ELSE 0) /\ (d => b[1] = Symbol(table2, sym2))
  BY <1>2, IfSeq, IfLen
<1>5. PICK ab : ab = a \o b
  OBVIOUS
<1>6. Apart(a, b, t)
  BY <1>3, <1>4 DEF Apart
<1>7. Ahead(input, a \o (b \o t))
  BY <1>1, <1>2
<1>8. a \o (b \o t) = (a \o b) \o t
  BY <1>6, Nest3
<1>9. Ahead(input, ab \o t)
  BY <1>5, <1>7, <1>8
<1>10. /\ IsSeq(ab) /\ Len(ab) = Len(a) + Len(b)
       /\ \A j \in 1 .. Len(a) : ab[j] = a[j]
       /\ \A j \in 1 .. Len(b) : ab[Len(a) + j] = b[j]
  BY <1>3, <1>4, <1>5, Concat
<1>11. ASSUME c PROVE Coming(1, table1) /\ Got(1) = sym1
  <2>1. 1 \in 1 .. Len(ab) /\ ab[1] = Symbol(table1, sym1)
    BY <1>3, <1>4, <1>10, <1>11
  <2> QED BY <2>1, <1>9, <1>10, NextIs
<1>12. ASSUME d PROVE Coming(IF c THEN 2 ELSE 1, table2) /\ Got(IF c THEN 2 ELSE 1) = sym2
  <2>1. PICK j : j = IF c THEN 2 ELSE 1
    OBVIOUS
  <2>2. 1 \in 1 .. Len(b) /\ b[1] = Symbol(table2, sym2) /\ j = Len(a) + 1
    BY <2>1, <1>3, <1>4, <1>12
  <2>3. ab[j] = Symbol(table2, sym2) /\ j \in 1 .. Len(ab)
    BY <2>1, <2>2, <1>3, <1>4, <1>10, <1>12
  <2> QED BY <2>1, <2>3, <1>9, <1>10, NextIs
<1>13. ASSUME Take((IF c THEN 1 ELSE 0) + (IF d THEN 1 ELSE 0)) PROVE Ahead(input', t)
  <2>1. PICK n : n = (IF c THEN 1 ELSE 0) + (IF d THEN 1 ELSE 0)
    OBVIOUS
  <2>2. n = Len(ab)
    BY <2>1, <1>3, <1>4, <1>10
  <2> QED BY <2>1, <2>2, <1>9, <1>10, <1>13, Took
<1> QED BY <1>11, <1>12, <1>13

(* The symbol of a half, if it has one, and what the half then is.         *)
LEMMA HalfRight ==
  ASSUME NEW CONSTANT class \in {0, 1}, frame.stage1 = class,
         NEW CONSTANT s0 \in 0 .. Granularity[class], NEW CONSTANT s1 \in 0 .. Granularity[class],
         NEW CONSTANT count, count = s0 + s1, NEW CONSTANT sym,
         HalfRead(count) => sym = s0 - LeastOf(class, count), ~HalfRead(count) => sym = 0
  PROVE  /\ HalfSymbol(class, count, s0)
              = If(HalfRead(count), Symbol(HalfTable(class, count), s0 - LeastOf(class, count)))
         /\ smplSplit3537(count, sym) = s0
<1>1. HalfRead(count) = (count > 0 /\ MostOf(class, count) > LeastOf(class, count))
  BY DEF HalfRead
<1>2. HalfSymbol(class, count, s0)
        = If(HalfRead(count), Symbol(HalfTable(class, count), s0 - LeastOf(class, count)))
  BY <1>1 DEF HalfSymbol, encodeSplit3537, If
<1>3. /\ ~(MostOf(class, count) < LeastOf(class, count)) /\ LeastOf(class, count) \in Int
      /\ ~(MostOf(class, count) > LeastOf(class, count)) => s0 = LeastOf(class, count)
  BY SplitFound
<1>4. PICK low \in Int : low = LeastOf(class, count)
  BY <1>3
<1>5. Granularity[class] \in Nat
  BY SyntaxAssumption
<1>6. CASE count = 0
  <2>1. s0 = 0
    BY <1>5, <1>6
  <2> QED BY <2>1, <1>2, <1>6 DEF smplSplit3537
<1>7. CASE count # 0
  <2>1. count > 0
    BY <1>5, <1>7
  <2>2. smplSplit3537(count, sym) = low + sym
    BY <1>3, <1>4, <1>7 DEF smplSplit3537
  <2>3. low + sym = s0
    <3>1. CASE HalfRead(count)
      BY <3>1, <1>4, <1>5
    <3>2. CASE ~HalfRead(count)
      <4>1. ~(MostOf(class, count) > LeastOf(class, count))
        BY <3>2, <2>1, <1>1
      <4>2. s0 = low /\ sym = 0
        BY <3>2, <4>1, <1>3, <1>4
      <4> QED BY <4>2, <1>4
    <3> QED BY <3>1, <3>2
  <2> QED BY <2>2, <2>3, <1>2
<1> QED BY <1>6, <1>7

(* From the splits to the runs.                                            *)
LEMMA HalvesStep ==
  ASSUME NEW CONSTANT f, WellFound(f), NEW CONSTANT s, NEW CONSTANT x, IsSeq(x), NEW CONSTANT y,
         AtHalves(f, s, x, y), decodeSplits
  PROVE  AtRuns(f, s, x, y)' \/ AtSigns(f, s, x, y)'
<1>1. PICK p \in [Positions -> Int] : p = f.pulses
  BY DEF WellFound
<1>2. PICK w : w = FromRuns0(f, s, x)
  OBVIOUS
<1>3. IsSeq(w)
  BY <1>2, FromSeq
<1>4. PICK k \in {0, 1} : k = f.stage1
  BY DEF WellFound
<1>5. Granularity[k] \in Nat
  BY SyntaxAssumption
<1>6. \A sf \in {0, 1, 2, 3} : Count(p, sf) \in 0 .. Granularity[k]
  <2>1. \A sf \in Subframes : Count(p, sf) \in Nat /\ Count(p, sf) <= Granularity[k]
    BY <1>1, <1>4, CountFacts DEF WellFound
  <2> QED BY <2>1, <1>5, SubframesAre
<1>7. PICK c0 \in 0 .. Granularity[k] : c0 = Count(p, 0)
  BY <1>6
<1>8. PICK c1 \in 0 .. Granularity[k] : c1 = Count(p, 1)
  BY <1>6
<1>9. PICK c2 \in 0 .. Granularity[k] : c2 = Count(p, 2)
  BY <1>6
<1>10. PICK c3 \in 0 .. Granularity[k] : c3 = Count(p, 3)
  BY <1>6
<1>11. PICK first : first = c0 + c1
  OBVIOUS
<1>12. PICK rest : rest = c2 + c3
  OBVIOUS
<1>13. First(p) = first /\ Rest(p) = rest /\ Total(p) = first + rest
  BY <1>1, <1>7, <1>8, <1>9, <1>10, <1>11, <1>12, SplitsWire DEF First, Rest
<1>14. /\ frame = TotalRead(f) /\ frame.stage1 = k /\ frame.total = first + rest /\ frame.sum = first
  BY <1>1, <1>4, <1>13, TotalFields DEF AtHalves, SameHeader
<1>15. frame.total - frame.sum = rest
  BY <1>5, <1>11, <1>12, <1>14
<1> DEFINE one == HalfRead(first)
           two == HalfRead(rest)
           sym1 == c0 - LeastOf(k, first)
           sym2 == c2 - LeastOf(k, rest)
           table1 == HalfTable(k, first)
           table2 == HalfTable(k, rest)
<1>16. one \in BOOLEAN /\ two \in BOOLEAN
  BY DEF HalfRead
<1>17. PICK v1 : v1 = IF one THEN sym1 ELSE 0
  OBVIOUS
<1>18. PICK v2 : v2 = IF two THEN sym2 ELSE 0
  OBVIOUS
<1>19. HalfSymbol(k, first, c0) = If(one, Symbol(table1, sym1)) /\ smplSplit3537(first, v1) = c0
  BY <1>11, <1>14, <1>17, HalfRight
<1>20. HalfSymbol(k, rest, c2) = If(two, Symbol(table2, sym2)) /\ smplSplit3537(rest, v2) = c2
  BY <1>12, <1>14, <1>18, HalfRight
<1>21. Ahead(input, If(one, Symbol(table1, sym1)) \o (If(two, Symbol(table2, sym2)) \o w))
  <2>1. PICK h1 : h1 = HalfSymbol(k, first, c0)
    OBVIOUS
  <2>2. PICK h2 : h2 = HalfSymbol(k, rest, c2)
    OBVIOUS
  <2>3. FromSecond(f, s, x) = h2 \o w
    BY <2>2, <1>1, <1>2, <1>4, <1>9, <1>13 DEF FromSecond
  <2>4. FromHalves(f, s, x) = h1 \o FromSecond(f, s, x)
    BY <2>1, <1>1, <1>4, <1>7, <1>13 DEF FromHalves
  <2>5. Ahead(input, h1 \o (h2 \o w))
    BY <2>3, <2>4 DEF AtHalves
  <2> HIDE DEF one, two, sym1, sym2, table1, table2
  <2> QED BY <2>1, <2>2, <2>5, <1>19, <1>20
<1>22. /\ one => Coming(1, table1) /\ Got(1) = sym1
       /\ two => Coming(IF one THEN 2 ELSE 1, table2) /\ Got(IF one THEN 2 ELSE 1) = sym2
       /\ Take((IF one THEN 1 ELSE 0) + (IF two THEN 1 ELSE 0)) => Ahead(input', w)
  <2>1. PICK b1 \in BOOLEAN : b1 = one
    BY <1>16
  <2>2. PICK b2 \in BOOLEAN : b2 = two
    BY <1>16
  <2> HIDE DEF one, two, sym1, sym2, table1, table2
  <2>3. PICK m1 : m1 = sym1
    OBVIOUS
  <2>4. PICK m2 : m2 = sym2
    OBVIOUS
  <2>5. PICK t1 : t1 = table1
    OBVIOUS
  <2>6. PICK t2 : t2 = table2
    OBVIOUS
  <2>7. Ahead(input, If(b1, Symbol(t1, m1)) \o (If(b2, Symbol(t2, m2)) \o w))
    BY <2>1, <2>2, <2>3, <2>4, <2>5, <2>6, <1>21
  <2>8. /\ b1 => Coming(1, t1) /\ Got(1) = m1
        /\ b2 => Coming(IF b1 THEN 2 ELSE 1, t2) /\ Got(IF b1 THEN 2 ELSE 1) = m2
        /\ Take((IF b1 THEN 1 ELSE 0) + (IF b2 THEN 1 ELSE 0)) => Ahead(input', w)
    BY <2>7, <1>3, NextIfs
  <2> QED BY <2>1, <2>2, <2>3, <2>4, <2>5, <2>6, <2>8
<1> DEFINE next == IF one THEN 2 ELSE 1
           s0 == smplSplit3537(first, IF one THEN Got(1) ELSE 0)
           s2 == smplSplit3537(rest, IF two THEN Got(next) ELSE 0)
           split == IF s0 = -1 \/ s2 = -1 THEN Blank.split
                    ELSE [sf \in Subframes |-> <<s0, first - s0, s2, rest - s2>>[sf + 1]]
<1>23. /\ Take((IF one THEN 1 ELSE 0) + (IF two THEN 1 ELSE 0))
       /\ frame' = [frame EXCEPT !.split = split]
       /\ turn' = RunsOf(split, 0)
       /\ UNCHANGED <<decoder, list, results>>
  BY <1>14, <1>15, <1>22 DEF decodeSplits
<1>24. s0 = c0 /\ s2 = c2
  <2>1. (IF one THEN Got(1) ELSE 0) = v1 /\ (IF two THEN Got(next) ELSE 0) = v2
    BY <1>17, <1>18, <1>22
  <2> QED BY <2>1, <1>19, <1>20
<1>25. split = Split(f)
  <2>1. ~(c0 = -1 \/ c2 = -1)
    BY <1>5
  <2>2. split = [sf \in Subframes |-> <<c0, first - c0, c2, rest - c2>>[sf + 1]]
    <3> HIDE DEF s0, s2
    <3> QED BY <2>1, <1>24
  <2>3. first - c0 = c1 /\ rest - c2 = c3
    BY <1>5, <1>11, <1>12
  <2>4. ASSUME NEW sf \in Subframes PROVE <<c0, c1, c2, c3>>[sf + 1] = Count(f.pulses, sf)
    <3>1. sf = 0 \/ sf = 1 \/ sf = 2 \/ sf = 3
      BY SubframesAre
    <3> QED BY <3>1, <1>1, <1>7, <1>8, <1>9, <1>10
  <2>5. split = [sf \in Subframes |-> <<c0, c1, c2, c3>>[sf + 1]]
    <3> HIDE DEF split
    <3> QED BY <2>2, <2>3
  <2> HIDE DEF split
  <2> QED BY <2>4, <2>5 DEF Split
<1> HIDE DEF split, one, two
<1>26. Ahead(input', w)
  BY <1>22, <1>23
<1>27. frame' = SplitRead(f)
  BY <1>1, <1>14, <1>23, <1>25 DEF SplitRead, AtHalves
<1>28. decoder' = DecoderAt(s, y) /\ list' = << >>
  BY <1>23 DEF AtHalves
<1>29. list' = ListAfter(p, Before(p)[Start(0)])
  BY <1>28, ListNone, Starts, CountFacts
<1>30. w = FromRuns(f, s, x, 0) /\ 0 \in 0 .. 4
  BY <1>2 DEF FromRuns
<1>31. turn' = RunsOf(Split(f), 0)
  BY <1>23, <1>25
<1>32. RunsPlace(f, s, x, turn', list', input') \/ SignsPlace(f, s, x, turn', list', input')
  <2>1. Ahead(input', FromRuns(f, s, x, 0))
    BY <1>26, <1>30
  <2>2. LET t == RunsOf(Split(f), 0) l == ListAfter(f.pulses, Before(f.pulses)[Start(0)])
        IN  RunsPlace(f, s, x, t, l, input') \/ SignsPlace(f, s, x, t, l, input')
    BY <2>1, <1>30, RunsStart
  <2> QED BY <2>2, <1>1, <1>29, <1>31
<1> QED BY <1>27, <1>28, <1>32 DEF AtRuns, AtSigns

AtGains(f, s, x, y) ==
  \E sf \in Subframes :
    /\ f.stage1 = 1 /\ turn = Turn("gains", sf, 0) /\ frame = GainsRead(f, sf) /\ list = ListRead(f.pulses)
    /\ decoder = DecoderAt(GainState(s, f, sf), y) /\ Ahead(input, FromGain(f, s, x, sf))

AtMain(f, s, x, y) ==
  /\ f.stage1 # 1 /\ turn = Turn("main", 0, 0) /\ frame = SplitRead(f) /\ list = ListRead(f.pulses)
  /\ decoder = DecoderAt(s, y) /\ Ahead(input, FromTail(f, s, x))

(* One more unit of a subframe: where it is, and what was coded for it.    *)
LEMMA UnitFacts ==
  ASSUME NEW p \in [Positions -> Int], NEW sf \in Subframes, NEW j \in Nat, j < Count(p, sf),
         NEW n, n = Before(p)[Start(sf)] + j
  PROVE  /\ n \in Nat /\ n + 1 <= Total(p)
         /\ Where(p, n + 1) \in Int /\ Start(sf) \in Int /\ Start(sf + 1) \in Int
         /\ Where(p, n + 1) < Start(sf + 1)
         /\ PreviousUnit(p, sf, j + 1) \in Int /\ PreviousUnit(p, sf, j + 1) <= Where(p, n + 1)
         /\ j # 0 => PreviousUnit(p, sf, j + 1) = Where(p, n) /\ n > 0
         /\ j = 0 => n = 0 \/ Where(p, n) # Where(p, n + 1)
         /\ PreviousUnit(p, sf, (j + 1) + 1) = Where(p, n + 1)
         /\ encodeRuns(p, sf)[j + 1]
              = Symbol(<<"run", Start(sf + 1) - PreviousUnit(p, sf, j + 1), Count(p, sf) - j>>,
                       Where(p, n + 1) - PreviousUnit(p, sf, j + 1))
<1>1. PICK b \in Nat : b = Before(p)[Start(sf)]
  BY SubframeSums
<1>2. PICK c \in Nat : c = Count(p, sf)
  BY CountFacts
<1>3. Before(p)[Start(sf + 1)] = b + c /\ b + c <= Total(p) /\ Total(p) \in Nat
  BY <1>1, <1>2, SubframeSums, CountFacts
<1>4. n = b + j /\ n \in Nat /\ n + 1 <= Total(p) /\ n + 1 \in 1 .. Total(p) /\ n + 1 <= b + c /\ b < n + 1
  BY <1>1, <1>2, <1>3
<1>5. PICK i \in 0 .. 4 * PosPer : i = Start(sf)
  <2>1. Start(sf) \in Positions
    BY Starts
  <2> QED BY <2>1, PosFacts DEF Positions
<1>6. PICK k \in 0 .. 4 * PosPer : k = Start(sf + 1)
  BY Starts
<1>7. PICK q : q = Where(p, n + 1)
  OBVIOUS
<1>8. q \in i .. k - 1
  <2>1. Before(p)[i] < n + 1 /\ n + 1 <= Before(p)[k]
    BY <1>1, <1>3, <1>4, <1>5, <1>6
  <2> QED BY <2>1, <1>4, <1>7, WhereIn
<1>9. q \in Int /\ i \in Int /\ k \in Int /\ q < k /\ i <= q
  BY <1>8, PosFacts
<1>10. PICK r : r = PreviousUnit(p, sf, j + 1)
  OBVIOUS
<1>11. ASSUME j = 0 PROVE r = i /\ (n = 0 \/ Where(p, n) # q)
  <2>1. r = i
    BY <1>5, <1>10, <1>11 DEF PreviousUnit
  <2>2. ASSUME n # 0 PROVE Where(p, n) # q
    <3>1. n \in 1 .. Total(p) /\ n = b
      BY <2>2, <1>3, <1>4, <1>11
    <3>2. 0 \in 0 .. 4 * PosPer /\ Before(p)[0] < n /\ n <= Before(p)[i]
      BY <3>1, <1>1, <1>5, CountFacts, PosFacts
    <3>3. Where(p, n) \in 0 .. i - 1
      BY <3>1, <3>2, WhereIn
    <3> QED BY <3>3, <1>9
  <2> QED BY <2>1, <2>2
<1>12. ASSUME j # 0 PROVE r = Where(p, n) /\ n > 0 /\ Where(p, n) \in Int /\ Where(p, n) <= q
  <2>1. b + (j + 1) - 1 = n /\ n \in 1 .. Total(p) /\ j + 1 # 1 /\ n > 0
    BY <1>3, <1>4, <1>12
  <2>2. r = Where(p, n)
    BY <2>1, <1>1, <1>10 DEF PreviousUnit
  <2>3. n <= n + 1
    BY <1>4
  <2>4. Where(p, n) <= Where(p, n + 1)
    BY <2>1, <2>3, <1>4, WhereGrows
  <2>5. Where(p, n) \in Int
    <3>1. Where(p, n) \in Positions
      BY <2>1, WhereIs
    <3> QED BY <3>1, PosFacts DEF Positions
  <2> QED BY <2>1, <2>2, <2>4, <2>5, <1>7
<1>13. /\ r \in Int /\ r <= q /\ (j # 0 => r = Where(p, n) /\ n > 0)
       /\ (j = 0 => n = 0 \/ Where(p, n) # q)
  <2>1. CASE j = 0
    BY <2>1, <1>9, <1>11
  <2>2. CASE j # 0
    BY <2>2, <1>12
  <2> QED BY <2>1, <2>2
<1>14. PreviousUnit(p, sf, (j + 1) + 1) = q
  <2>1. (j + 1) + 1 # 1 /\ b + ((j + 1) + 1) - 1 = n + 1
    BY <1>4
  <2> QED BY <2>1, <1>1, <1>7 DEF PreviousUnit
<1>15. encodeRuns(p, sf)[j + 1] = Symbol(<<"run", k - r, c - j>>, q - r)
  <2>1. j + 1 \in 1 .. c /\ b + (j + 1) = n + 1 /\ c - (j + 1) + 1 = c - j
    BY <1>2, <1>4
  <2>2. MagRuns(p, sf)[j + 1] = q - r
    BY <2>1, <1>1, <1>2, <1>7, <1>10 DEF MagRuns
  <2>3. encodeRuns(p, sf)[j + 1]
          = Symbol(<<"run", Start(sf + 1) - PreviousUnit(p, sf, j + 1), Count(p, sf) - (j + 1) + 1>>,
                   MagRuns(p, sf)[j + 1])
    BY <2>1, <1>2 DEF encodeRuns
  <2> QED BY <2>1, <2>2, <2>3, <1>2, <1>6, <1>10
<1> QED BY <1>2, <1>4, <1>5, <1>6, <1>7, <1>9, <1>10, <1>13, <1>14, <1>15

LEMMA RunTurnFields ==
  ASSUME NEW p, NEW sf, NEW j
  PROVE  /\ RunTurn(p, sf, j).sf = sf /\ RunTurn(p, sf, j).left = Count(p, sf) - j
         /\ RunTurn(p, sf, j).first = (j = 0) /\ RunTurn(p, sf, j).runPos = PreviousUnit(p, sf, j + 1)
         /\ RunTurn(p, sf, j).pos = Start(sf + 1) - PreviousUnit(p, sf, j + 1)
BY DEF RunTurn

LEMMA RunTurnNext ==
  ASSUME NEW p, NEW sf, NEW j \in Nat, NEW a, NEW b, NEW c,
         a = Count(p, sf) - (j + 1), b = Start(sf + 1) - PreviousUnit(p, sf, (j + 1) + 1),
         c = PreviousUnit(p, sf, (j + 1) + 1)
  PROVE  [RunTurn(p, sf, j) EXCEPT !.left = a, !.first = FALSE, !.pos = b, !.runPos = c]
           = RunTurn(p, sf, j + 1)
<1> DEFINE l == [RunTurn(p, sf, j) EXCEPT !.left = a, !.first = FALSE, !.pos = b, !.runPos = c]
           r == RunTurn(p, sf, j + 1)
           S == {"at", "sf", "left", "first", "pos", "runPos", "n"}
<1>1. (j + 1 = 0) = FALSE
  OBVIOUS
<1>2. /\ DOMAIN l = S /\ DOMAIN r = S
      /\ l.at = r.at /\ l.sf = r.sf /\ l.left = r.left /\ l.first = r.first /\ l.pos = r.pos
      /\ l.runPos = r.runPos /\ l.n = r.n
  BY <1>1 DEF RunTurn
<1>3. l = [z \in DOMAIN l |-> l[z]] /\ r = [z \in DOMAIN r |-> r[z]]
  BY DEF RunTurn
<1> HIDE DEF l, r
<1>4. [z \in S |-> l[z]] = [z \in S |-> r[z]]
  BY <1>2
<1>5. l = r
  BY <1>2, <1>3, <1>4, Zenon
<1> QED BY <1>5 DEF l, r

(* From a run to the next, of this or a later subframe, or to the signs.   *)
LEMMA RunStep ==
  ASSUME NEW CONSTANT f, WellFound(f), NEW CONSTANT s, NEW CONSTANT x, IsSeq(x), NEW CONSTANT y,
         AtRuns(f, s, x, y), ReadRun
  PROVE  AtRuns(f, s, x, y)' \/ AtSigns(f, s, x, y)'
<1>1. PICK p \in [Positions -> Int] : p = f.pulses
  BY DEF WellFound
<1>2. PICK sf \in Subframes, j \in Nat :
        /\ j < Count(p, sf) /\ turn = RunTurn(p, sf, j)
        /\ list = ListAfter(p, Before(p)[Start(sf)] + j)
        /\ Ahead(input, Drop(encodeRuns(p, sf), j) \o FromRuns(f, s, x, sf + 1))
  BY <1>1 DEF AtRuns, RunsPlace
<1>3. PICK n : n = Before(p)[Start(sf)] + j
  OBVIOUS
<1>4. PICK q : q = Where(p, n + 1)
  OBVIOUS
<1>5. PICK r : r = PreviousUnit(p, sf, j + 1)
  OBVIOUS
<1>6. PICK c \in Nat : c = Count(p, sf)
  BY CountFacts
<1>7. PICK e : e = Start(sf + 1)
  OBVIOUS
<1>8. PICK a : a = encodeRuns(p, sf)
  OBVIOUS
<1>9. PICK w : w = FromRuns(f, s, x, sf + 1)
  OBVIOUS
<1>10. /\ n \in Nat /\ n + 1 <= Total(p) /\ q \in Int /\ e \in Int /\ q < e /\ r \in Int /\ r <= q
       /\ (j # 0 => r = Where(p, n) /\ n > 0) /\ (j = 0 => n = 0 \/ Where(p, n) # q)
       /\ PreviousUnit(p, sf, (j + 1) + 1) = q /\ a[j + 1] = Symbol(<<"run", e - r, c - j>>, q - r)
  BY <1>2, <1>3, <1>4, <1>5, <1>6, <1>7, <1>8, UnitFacts
<1>11. IsSeq(a) /\ Len(a) = c /\ IsSeq(w) /\ j < Len(a)
  BY <1>1, <1>2, <1>6, <1>8, <1>9, RunsSeq, NoRuns
<1>12. PICK d : d = Drop(a, j + 1)
  OBVIOUS
<1>13. IsSeq(d)
  <2>1. j + 1 \in 0 .. Len(a)
    BY <1>6, <1>11
  <2> QED BY <2>1, <1>11, <1>12, Dropped
<1>14. PICK g : g = <<Symbol(<<"run", e - r, c - j>>, q - r)>>
  OBVIOUS
<1>15. Drop(a, j) = g \o d
  BY <1>10, <1>11, <1>12, <1>14, DropOne
<1>16. Apart(g, d, w)
  BY <1>11, <1>13, <1>14, One DEF Apart
<1>17. PICK dw : dw = d \o w
  OBVIOUS
<1>18. (g \o d) \o w = g \o dw /\ IsSeq(dw)
  BY <1>16, <1>17, Nest3
<1>19. Ahead(input, g \o dw)
  <2>1. Ahead(input, Drop(a, j) \o w)
    BY <1>2, <1>8, <1>9
  <2>2. Ahead(input, (g \o d) \o w)
    BY <2>1, <1>15
  <2> QED BY <2>2, <1>18
<1>20. Coming(1, <<"run", e - r, c - j>>) /\ Got(1) = q - r /\ (Take(1) => Ahead(input', dw))
  BY <1>14, <1>18, <1>19, NextOne
<1>21. /\ turn.sf = sf /\ turn.left = c - j /\ turn.first = (j = 0) /\ turn.runPos = r /\ turn.pos = e - r
  BY <1>2, <1>5, <1>6, <1>7, RunTurnFields
<1>22. PICK new \in BOOLEAN : new = (q - r > 0 \/ j = 0)
  <2>1. (q - r > 0 \/ j = 0) \in BOOLEAN
    OBVIOUS
  <2> QED BY <2>1, Zenon
<1>23. new <=> (q - r > 0 \/ j = 0)
  BY <1>22, Zenon
<1>24. frame = SplitRead(f) /\ frame.split = Split(f) /\ decoder = DecoderAt(s, y)
  BY SplitFields DEF AtRuns
<1>25. PICK pos : pos = IF new THEN (e - r) - (q - r) ELSE e - r
  OBVIOUS
<1>26. /\ Take(1)
       /\ list' = IF new THEN Append(list, [pos |-> r + (q - r), mag |-> 1])
                  ELSE [list EXCEPT ![Len(list)].mag = @ + 1]
       /\ turn' = IF c - j = 1 \/ pos < 0 THEN RunsOf(Split(f), sf + 1)
                  ELSE [turn EXCEPT !.left = @ - 1, !.first = FALSE, !.pos = pos,
                                    !.runPos = IF new THEN r + (q - r) ELSE @]
       /\ UNCHANGED <<decoder, frame, results>>
  BY <1>20, <1>21, <1>22, <1>24, <1>25 DEF ReadRun
<1>27. pos = e - q /\ ~(pos < 0) /\ (IF new THEN r + (q - r) ELSE r) = q /\ r + (q - r) = q
  <2>1. r + (q - r) = q /\ (~new => r = q)
    BY <1>10, <1>23
  <2>2. pos = e - q
    <3>1. CASE new
      BY <3>1, <1>10, <1>25
    <3>2. CASE ~new
      BY <3>2, <2>1, <1>25
    <3> QED BY <3>1, <3>2
  <2>3. ~(pos < 0)
    BY <2>2, <1>10
  <2> QED BY <2>1, <2>2, <2>3
<1>28. list' = ListAfter(p, n + 1)
  <2>1. list = ListAfter(p, n)
    BY <1>2, <1>3
  <2>2. CASE new
    <3>1. n = 0 \/ Where(p, n) # Where(p, n + 1)
      BY <2>2, <1>4, <1>10, <1>23
    <3>2. list' = Append(list, [pos |-> q, mag |-> 1])
      BY <2>2, <1>26, <1>27
    <3> QED BY <2>1, <3>1, <3>2, <1>4, <1>10, ListNew
  <2>3. CASE ~new
    <3>1. n > 0 /\ Where(p, n) = Where(p, n + 1)
      BY <2>3, <1>4, <1>10, <1>23
    <3>2. list' = [list EXCEPT ![Len(list)].mag = @ + 1]
      BY <2>3, <1>26
    <3> QED BY <2>1, <3>1, <3>2, <1>10, ListMore
  <2> QED BY <2>2, <2>3
<1>29. Ahead(input', dw)
  BY <1>20, <1>26
<1>30. frame' = SplitRead(f) /\ decoder' = DecoderAt(s, y)
  BY <1>24, <1>26
<1>31. CASE c - j = 1
  <2>1. turn' = RunsOf(Split(f), sf + 1)
    BY <1>26, <1>31
  <2>2. d = << >>
    <3>1. j + 1 = Len(a)
      BY <1>6, <1>11, <1>31
    <3> QED BY <3>1, <1>11, <1>12, DropNone
  <2>3. Ahead(input', FromRuns(f, s, x, sf + 1))
    BY <2>2, <1>9, <1>11, <1>17, <1>29, ConcatNothing
  <2>4. list' = ListAfter(p, Before(p)[Start(sf + 1)])
    <3>1. Before(p)[Start(sf + 1)] = Before(p)[Start(sf)] + c /\ Before(p)[Start(sf)] \in Nat
      BY <1>6, SubframeSums
    <3>2. n + 1 = Before(p)[Start(sf + 1)]
      BY <3>1, <1>3, <1>6, <1>31
    <3> QED BY <3>2, <1>28
  <2>5. sf + 1 \in 0 .. 4
    BY SubframesAre
  <2>6. PICK m \in 0 .. 4 : m = sf + 1
    BY <2>5
  <2>7. LET t == RunsOf(Split(f), m) l == ListAfter(f.pulses, Before(f.pulses)[Start(m)])
        IN  RunsPlace(f, s, x, t, l, input') \/ SignsPlace(f, s, x, t, l, input')
    BY <2>3, <2>6, RunsStart
  <2>8. RunsPlace(f, s, x, turn', list', input') \/ SignsPlace(f, s, x, turn', list', input')
    BY <2>1, <2>4, <2>6, <2>7, <1>1
  <2> QED BY <2>8, <1>30 DEF AtRuns, AtSigns
<1>32. CASE c - j # 1
  <2>1. turn' = [turn EXCEPT !.left = @ - 1, !.first = FALSE, !.pos = pos,
                             !.runPos = IF new THEN r + (q - r) ELSE @]
    BY <1>26, <1>27, <1>32
  <2>2. turn' = [turn EXCEPT !.left = c - (j + 1), !.first = FALSE, !.pos = pos, !.runPos = q]
    <3>1. turn.left - 1 = c - (j + 1) /\ turn.runPos = r
      BY <1>6, <1>21
    <3>2. turn' = [turn EXCEPT !.left = turn.left - 1, !.first = FALSE, !.pos = pos,
                             !.runPos = IF new THEN r + (q - r) ELSE turn.runPos]
      BY <2>1
    <3> QED BY <3>1, <3>2, <1>27
  <2>3. turn' = RunTurn(p, sf, j + 1)
    BY <2>2, <1>2, <1>6, <1>7, <1>10, <1>27, RunTurnNext
  <2>4. PICK i \in Nat : i = j + 1
    OBVIOUS
  <2>5. i < Count(p, sf)
    BY <2>4, <1>2, <1>6, <1>32
  <2>6. list' = ListAfter(p, Before(p)[Start(sf)] + i)
    <3>1. n + 1 = Before(p)[Start(sf)] + i
      BY <2>4, <1>3, SubframeSums
    <3> QED BY <3>1, <1>28
  <2>7. Ahead(input', Drop(encodeRuns(p, sf), i) \o FromRuns(f, s, x, sf + 1))
    BY <2>4, <1>8, <1>9, <1>12, <1>17, <1>29
  <2>8. RunsPlace(f, s, x, turn', list', input')
    BY <2>3, <2>4, <2>5, <2>6, <2>7, <1>1 DEF RunsPlace
  <2> QED BY <2>8, <1>30 DEF AtRuns
<1> QED BY <1>31, <1>32

(* The symbol of a batch of signs gives the pulses of the batch theirs.    *)
Signed(l, n, m, sym) ==
  [q \in 1 .. Len(l) |->
     IF q \in n + 1 .. n + m /\ ~sym[q - n] THEN [l[q] EXCEPT !.mag = -@] ELSE l[q]]

(* The signs of one more batch.                                            *)
LEMMA SignsRead ==
  ASSUME NEW p \in [Positions -> Int], NEW n \in Nat, NEW m \in Nat, n + m <= Total(Support(p)),
         NEW sym, sym = [i \in 1 .. m |-> Signs(p)[n + i]]
  PROVE  Signed(SignsAfter(p, n), n, m, sym) = SignsAfter(p, n + m)
<1>1. PICK N \in Nat : N = Total(Support(p))
  BY PulseFacts
<1>2. PICK l : l = SignsAfter(p, n)
  OBVIOUS
<1>3. l = [j \in 1 .. N |-> [pos |-> Pulse(p, j), mag |-> IF j <= n THEN p[Pulse(p, j)] ELSE Abs(p[Pulse(p, j)])]]
  BY <1>1, <1>2 DEF SignsAfter
<1>4. Len(l) = N
  <2>1. l \in [1 .. N -> {l[j] : j \in 1 .. N}]
    BY <1>3
  <2> QED BY <2>1, FunctionSeq, Zenon
<1>5. ASSUME NEW q \in 1 .. N
      PROVE  (IF q \in n + 1 .. n + m /\ ~sym[q - n] THEN [l[q] EXCEPT !.mag = -@] ELSE l[q])
               = [pos |-> Pulse(p, q), mag |-> IF q <= n + m THEN p[Pulse(p, q)] ELSE Abs(p[Pulse(p, q)])]
  <2>1. PICK v \in Int : v = p[Pulse(p, q)]
    BY <1>1, PulseFacts
  <2>2. v # 0
    BY <2>1, <1>1, PulseFacts
  <2>3. PICK w : w = Pulse(p, q)
    OBVIOUS
  <2>4. l[q] = [pos |-> w, mag |-> IF q <= n THEN v ELSE Abs(v)]
    BY <2>1, <2>3, <1>3
  <2>5. Abs(v) = (IF v < 0 THEN -v ELSE v)
    BY DEF Abs
  <2>6. CASE q <= n
    BY <2>1, <2>3, <2>4, <2>6
  <2>7. CASE q > n + m
    BY <2>1, <2>3, <2>4, <2>7
  <2>8. CASE q \in n + 1 .. n + m
    <3>1. l[q] = [pos |-> w, mag |-> Abs(v)]
      BY <2>4, <2>8
    <3>2. q - n \in 1 .. m /\ n + (q - n) = q
      BY <2>8
    <3>3. sym[q - n] = Signs(p)[q]
      BY <3>2
    <3>4. Signs(p)[q] = (v > 0)
      BY <2>1, <1>1 DEF Signs, Pulse
    <3>5. CASE v > 0
      <4>1. sym[q - n] = (v > 0)
        BY <3>3, <3>4
      <4>2. sym[q - n]
        BY <4>1, <3>5, Zenon
      <4>3. Abs(v) = v /\ q <= n + m
        BY <3>5, <2>5, <2>8
      <4>4. sym[q - n] /\ Abs(v) = v /\ q <= n + m
        BY <4>2, <4>3
      <4> QED BY <4>4, <3>1, <2>1, <2>3
    <3>6. CASE ~(v > 0)
      <4>1. sym[q - n] = (v > 0)
        BY <3>3, <3>4
      <4>2. ~sym[q - n]
        BY <4>1, <3>6, Zenon
      <4>3. -Abs(v) = v /\ q <= n + m
        BY <3>6, <2>5, <2>8
      <4>4. ~sym[q - n] /\ -Abs(v) = v /\ q <= n + m
        BY <4>2, <4>3
      <4>5. [l[q] EXCEPT !.mag = -@] = [pos |-> w, mag |-> v]
        BY <3>1, <4>4
      <4> QED BY <4>4, <4>5, <2>1, <2>3, <2>8
    <3> QED BY <3>5, <3>6
  <2> QED BY <2>6, <2>7, <2>8
<1>6. [q \in 1 .. N |-> IF q \in n + 1 .. n + m /\ ~sym[q - n] THEN [l[q] EXCEPT !.mag = -@] ELSE l[q]]
        = [q \in 1 .. N |-> [pos |-> Pulse(p, q), mag |-> IF q <= n + m THEN p[Pulse(p, q)]
                                                        ELSE Abs(p[Pulse(p, q)])]]
  BY <1>5, Zenon
<1>7. Signed(l, n, m, sym) = [q \in 1 .. N |-> IF q \in n + 1 .. n + m /\ ~sym[q - n]
                                               THEN [l[q] EXCEPT !.mag = -@] ELSE l[q]]
  BY <1>4, Zenon DEF Signed
<1> QED BY <1>1, <1>2, <1>6, <1>7, Zenon DEF SignsAfter

(* From a batch to the next, or to the gains.                              *)
LEMMA SignsStep ==
  ASSUME NEW CONSTANT f, WellFound(f), NEW CONSTANT s, NEW CONSTANT x, IsSeq(x), NEW CONSTANT y,
         AtSigns(f, s, x, y), ReadSigns
  PROVE  AtSigns(f, s, x, y)' \/ AtGains(f, s, x, y)' \/ AtMain(f, s, x, y)'
<1>1. PICK p \in [Positions -> Int] : p = f.pulses
  BY DEF WellFound
<1>2. PICK N \in Nat : N = Total(Support(p))
  BY PulseFacts
<1>3. PICK b \in 0 .. Batches(N) :
        LET n == Smaller(From(b + 1), N)
        IN  /\ turn = Turn("signs", 0, n) /\ list = SignsAfter(p, n)
            /\ Ahead(input, Drop(encodeSigns(p), b) \o FromTail(f, s, x))
  BY <1>1, <1>2 DEF AtSigns, SignsPlace
<1>4. PICK n : n = Smaller(From(b + 1), N)
  OBVIOUS
<1>5. PICK a : a = encodeSigns(p)
  OBVIOUS
<1>6. PICK w : w = FromTail(f, s, x)
  OBVIOUS
<1>7. IsSeq(a) /\ Len(a) = Batches(N) /\ IsSeq(w) /\ Batches(N) \in Nat
  BY <1>2, <1>5, <1>6, SignsSeq, FromSeq, BatchFacts
<1>8. turn = Turn("signs", 0, n) /\ turn.n = n /\ list = SignsAfter(p, n) /\ Ahead(input, Drop(a, b) \o w)
  <2>1. turn = Turn("signs", 0, n) /\ list = SignsAfter(p, n) /\ Ahead(input, Drop(a, b) \o w)
    BY <1>3, <1>4, <1>5, <1>6
  <2> QED BY <2>1, TurnFields
<1>9. Len(list) = N
  <2>1. list = [j \in 1 .. N |-> [pos |-> Pulse(p, j), mag |-> IF j <= n THEN p[Pulse(p, j)] ELSE Abs(p[Pulse(p, j)])]]
    BY <1>2, <1>8 DEF SignsAfter
  <2>2. list \in [1 .. N -> {list[j] : j \in 1 .. N}]
    BY <2>1
  <2> QED BY <2>2, FunctionSeq, Zenon
<1>10. PICK m : m = Smaller(SignBatch, N - n)
  OBVIOUS
<1>11. frame = SplitRead(f) /\ frame.stage1 = f.stage1 /\ decoder = DecoderAt(s, y)
  BY SplitFields DEF AtSigns, SameHeader
<1>12. CASE b = Batches(N)
  <2>1. n = N
    <3>1. From(b + 1) \in Nat /\ N <= From(b + 1)
      BY <1>12, BatchFacts
    <3> QED BY <3>1, <1>4 DEF Smaller
  <2>2. m = 0
    <3>1. N - n = 0
      BY <2>1
    <3> QED BY <3>1, <1>10, PosFacts DEF Smaller
  <2>3. /\ GoTo(IF f.stage1 = 1 THEN "gains" ELSE "main")
        /\ UNCHANGED <<input, decoder, frame, list, results>>
    BY <2>2, <1>8, <1>9, <1>10, <1>11 DEF ReadSigns
  <2>4. Ahead(input', w)
    <3>1. Drop(a, b) = << >>
      BY <1>7, <1>12, DropNone
    <3> QED BY <3>1, <2>3, <1>7, <1>8, ConcatNothing
  <2>5. list' = ListRead(p)
    BY <2>1, <2>3, <1>2, <1>8 DEF ListRead
  <2>6. frame' = SplitRead(f) /\ decoder' = DecoderAt(s, y)
    BY <2>3, <1>11
  <2>7. CASE f.stage1 = 1
    <3>1. turn' = Turn("gains", 0, 0)
      BY <2>3, <2>7, TurnFacts DEF GoTo
    <3>2. Ahead(input', FromGain(f, s, x, 0))
      BY <2>4, <2>7, <1>6, GainsWire
    <3>3. frame' = GainsRead(f, 0) /\ GainState(s, f, 0) = s
      BY <2>6 DEF GainsRead, GainState
    <3>4. 0 \in Subframes
      BY SubframesAre
    <3>5. AtGains(f, s, x, y)'
      BY <3>1, <3>2, <3>3, <3>4, <2>5, <2>6, <2>7, <1>1 DEF AtGains
    <3> QED BY <3>5
  <2>8. CASE f.stage1 # 1
    <3>1. turn' = Turn("main", 0, 0)
      BY <2>3, <2>8, TurnFacts DEF GoTo
    <3>2. AtMain(f, s, x, y)'
      BY <3>1, <2>4, <2>5, <2>6, <2>8, <1>1, <1>6 DEF AtMain
    <3> QED BY <3>2
  <2> QED BY <2>7, <2>8
<1>13. CASE b # Batches(N)
  <2>1. b \in Nat /\ b + 1 \in 1 .. Batches(N)
    BY <1>7, <1>13
  <2>2. From(b + 1) \in Nat /\ From((b + 1) + 1) = From(b + 1) + SignBatch /\ From(b + 1) < N
    BY <2>1, BatchFacts
  <2>3. n = From(b + 1) /\ n \in Nat /\ n < N
    BY <2>2, <1>4 DEF Smaller
  <2>4. m \in Nat /\ m # 0 /\ n + m <= N /\ n + m = Smaller(From((b + 1) + 1), N)
    BY <2>2, <2>3, <1>10, PosFacts DEF Smaller
  <2>5. PICK sym : sym = [i \in 1 .. m |-> Signs(p)[n + i]]
    OBVIOUS
  <2>6. a[b + 1] = Symbol(<<"raw", m>>, sym)
    BY <2>1, <2>3, <2>5, <1>2, <1>5, <1>10, SignsSeq
  <2>7. PICK d : d = Drop(a, b + 1)
    OBVIOUS
  <2>8. IsSeq(d)
    <3>1. b + 1 \in 0 .. Len(a)
      BY <2>1, <1>7
    <3> QED BY <3>1, <2>7, <1>7, Dropped
  <2>9. PICK g : g = <<Symbol(<<"raw", m>>, sym)>>
    OBVIOUS
  <2>10. Drop(a, b) = g \o d
    <3>1. b < Len(a)
      BY <2>1, <1>7
    <3> QED BY <3>1, <2>1, <2>6, <2>7, <2>9, <1>7, DropOne
  <2>11. Apart(g, d, w)
    BY <2>8, <2>9, <1>7, One DEF Apart
  <2>12. PICK dw : dw = d \o w
    OBVIOUS
  <2>13. (g \o d) \o w = g \o dw /\ IsSeq(dw)
    BY <2>11, <2>12, Nest3, SMTT(30), ZenonT(60)
  <2>14. Ahead(input, g \o dw)
    <3>1. Ahead(input, (g \o d) \o w)
      BY <2>10, <1>8
    <3> QED BY <3>1, <2>13
  <2>15. Coming(1, <<"raw", m>>) /\ Got(1) = sym /\ (Take(1) => Ahead(input', dw))
    BY <2>9, <2>13, <2>14, NextOne
  <2>16. /\ Take(1)
         /\ list' = Signed(list, n, m, sym)
         /\ turn' = [turn EXCEPT !.n = @ + m]
         /\ UNCHANGED <<decoder, frame, results>>
    BY <2>4, <2>15, <1>8, <1>9, <1>10 DEF ReadSigns, Signed
  <2>17. list' = SignsAfter(p, n + m)
    <3>1. n + m <= Total(Support(p))
      BY <2>4, <1>2
    <3>2. Signed(SignsAfter(p, n), n, m, sym) = SignsAfter(p, n + m)
      BY <3>1, <2>3, <2>4, <2>5, SignsRead
    <3> QED BY <3>2, <2>16, <1>8
  <2>18. turn' = Turn("signs", 0, n + m)
    <3>1. turn' = [Turn("signs", 0, n) EXCEPT !.n = @ + m]
      BY <2>16, <1>8
    <3>2. [Turn("signs", 0, n) EXCEPT !.n = @ + m] = Turn("signs", 0, n + m)
      BY TurnN
    <3> QED BY <3>1, <3>2
  <2>19. PICK c \in 0 .. Batches(N) : c = b + 1
    BY <2>1
  <2>20. n + m = Smaller(From(c + 1), N)
    BY <2>4, <2>19
  <2>21. Ahead(input', Drop(encodeSigns(p), c) \o FromTail(f, s, x))
    BY <2>7, <2>12, <2>15, <2>16, <2>19, <1>5, <1>6
  <2>22. SignsPlace(f, s, x, turn', list', input')
    BY <2>17, <2>18, <2>20, <2>21, <1>1, <1>2 DEF SignsPlace
  <2>23. frame' = SplitRead(f) /\ decoder' = DecoderAt(s, y)
    BY <2>16, <1>11
  <2> QED BY <2>22, <2>23 DEF AtSigns
<1> QED BY <1>12, <1>13

AtContour(f, s, x, y) ==
  /\ f.stage1 = 1 /\ turn = Turn("contour", 0, 0) /\ frame = Gains4(f) /\ list = ListRead(f.pulses)
  /\ decoder = DecoderAt(GainsCoded(s, f), y) /\ Ahead(input, FromContour(f, GainsCoded(s, f), x))

AtFine(f, s, x, y) ==
  /\ f.stage1 = 1 /\ Fine(GainsCoded(s, f), f)
  /\ turn = Turn("fine", 0, 0) /\ frame = ContourRead(f) /\ list = ListRead(f.pulses)
  /\ decoder = DecoderAt(GainsCoded(s, f), y) /\ Ahead(input, FromFine(f, GainsCoded(s, f), x))

LagsPlace(f, g, x, y, k, fr, d, inp) ==
  /\ (IF Fine(g, f) THEN 1 ELSE 0) <= k /\ k <= Len(f.contour) /\ fr = LagsRead(f, k)
  /\ d = DecoderAt(LagState(g, f, k), y)
  /\ Ahead(inp, Drop(encodeLags(g, f), k - (IF Fine(g, f) THEN 1 ELSE 0)) \o x)

AtLags(f, s, x, y) ==
  /\ f.stage1 = 1 /\ turn = Turn("lags", 0, 0) /\ list = ListRead(f.pulses)
  /\ \E k \in Nat : LagsPlace(f, GainsCoded(s, f), x, y, k, frame, decoder, input)

(* The predictor after a frame.                                            *)
EndState(s, f) == IF f.stage1 = 1 THEN smplLagsPredictorAfter(GainsCoded(s, f), f) ELSE s

AtNlsf(f, s, x, y) ==
  /\ turn = Turn("nlsf", 0, 0) /\ frame = WholeRead(f) /\ list = ListRead(f.pulses)
  /\ decoder = DecoderAt(EndState(s, f), y) /\ Ahead(input, x)

LEMMA GainStates ==
  ASSUME NEW s \in Predictors, NEW f, WellFound(f)
  PROVE  /\ \A sf \in Subframes :
              /\ GainState(s, f, sf) \in Predictors
              /\ GainCoded(GainState(s, f, sf), f, sf) = GainState(s, f, sf + 1)
         /\ GainsCoded(s, f) \in Predictors
         /\ GainsCoded(s, f).stage1 = s.stage1 /\ GainsCoded(s, f).blk = s.blk /\ GainsCoded(s, f).idx = s.idx
<1>1. PICK a : a = State1(s, f)
  OBVIOUS
<1>2. PICK b : b = State2(s, f)
  OBVIOUS
<1>3. PICK c : c = State3(s, f)
  OBVIOUS
<1>4. PICK d : d = GainsCoded(s, f)
  OBVIOUS
<1>5. a = GainCoded(s, f, 0) /\ b = GainCoded(a, f, 1) /\ c = GainCoded(b, f, 2)
  BY <1>1, <1>2, <1>3 DEF State1, State2, State3
<1>6. d = GainCoded(c, f, 3)
  BY <1>3, <1>4 DEF GainsCoded, State1, State2, State3
<1>7. 0 \in Subframes /\ 1 \in Subframes /\ 2 \in Subframes /\ 3 \in Subframes
  BY SubframesAre
<1>8. a \in Predictors /\ a.stage1 = s.stage1 /\ a.blk = s.blk /\ a.idx = s.idx
  BY <1>5, <1>7, GainKeeps
<1>9. b \in Predictors /\ b.stage1 = s.stage1 /\ b.blk = s.blk /\ b.idx = s.idx
  BY <1>5, <1>7, <1>8, GainKeeps
<1>10. c \in Predictors /\ c.stage1 = s.stage1 /\ c.blk = s.blk /\ c.idx = s.idx
  BY <1>5, <1>7, <1>9, GainKeeps, SMTT(30), ZenonT(60)
<1>11. d \in Predictors /\ d.stage1 = s.stage1 /\ d.blk = s.blk /\ d.idx = s.idx
  BY <1>6, <1>7, <1>10, GainKeeps, SMTT(30), ZenonT(60)
<1>12. /\ GainState(s, f, 0) = s /\ GainState(s, f, 1) = a /\ GainState(s, f, 2) = b
       /\ GainState(s, f, 3) = c /\ GainState(s, f, 4) = d
  BY <1>1, <1>2, <1>3, <1>4 DEF GainState
<1>13. ASSUME NEW sf \in Subframes
       PROVE  /\ GainState(s, f, sf) \in Predictors
              /\ GainCoded(GainState(s, f, sf), f, sf) = GainState(s, f, sf + 1)
  <2>1. CASE sf = 0
    <3>1. sf + 1 = 1
      BY <2>1
    <3> QED BY <3>1, <2>1, <1>5, <1>12
  <2>2. CASE sf = 1
    <3>1. sf + 1 = 2
      BY <2>2
    <3> QED BY <3>1, <2>2, <1>5, <1>8, <1>12
  <2>3. CASE sf = 2
    <3>1. sf + 1 = 3
      BY <2>3
    <3> QED BY <3>1, <2>3, <1>5, <1>9, <1>12
  <2>4. CASE sf = 3
    <3>1. sf + 1 = 4
      BY <2>4
    <3> QED BY <3>1, <2>4, <1>6, <1>10, <1>12
  <2> QED BY <2>1, <2>2, <2>3, <2>4, SubframesAre
<1> QED BY <1>4, <1>11, <1>13

LEMMA GainsReadNext ==
  ASSUME NEW f, NEW sf \in Subframes
  PROVE  /\ sf # 3 => GainRead(GainsRead(f, sf), f, sf) = GainsRead(f, sf + 1) /\ sf + 1 \in Subframes
         /\ sf = 3 => GainRead(GainsRead(f, sf), f, sf) = Gains4(f)
<1>1. CASE sf = 0
  <2>1. sf + 1 = 1 /\ 1 \in Subframes
    BY <1>1, SubframesAre
  <2>2. GainRead(GainsRead(f, 0), f, 0) = GainsRead(f, 1)
    BY DEF GainsRead, Gains1
  <2> QED BY <2>1, <2>2, <1>1
<1>2. CASE sf = 1
  <2>1. sf + 1 = 2 /\ 2 \in Subframes
    BY <1>2, SubframesAre
  <2>2. GainRead(GainsRead(f, 1), f, 1) = GainsRead(f, 2)
    BY DEF GainsRead, Gains2
  <2> QED BY <2>1, <2>2, <1>2
<1>3. CASE sf = 2
  <2>1. sf + 1 = 3 /\ 3 \in Subframes
    BY <1>3, SubframesAre
  <2>2. GainRead(GainsRead(f, 2), f, 2) = GainsRead(f, 3)
    BY DEF GainsRead, Gains3
  <2> QED BY <2>1, <2>2, <1>3
<1>4. CASE sf = 3
  <2>1. GainRead(GainsRead(f, 3), f, 3) = Gains4(f)
    BY DEF GainsRead, Gains4
  <2> QED BY <2>1, <1>4
<1> QED BY <1>1, <1>2, <1>3, <1>4, SubframesAre

(* From a gain to that of the next subframe, or to the contour.            *)
LEMMA GainStep ==
  ASSUME NEW CONSTANT f, WellFound(f), NEW CONSTANT s \in Predictors, NEW CONSTANT x, IsSeq(x),
         NEW CONSTANT y, AtGains(f, s, x, y), ReadGain
  PROVE  AtGains(f, s, x, y)' \/ AtContour(f, s, x, y)'
<1>1. PICK sf \in Subframes :
        /\ f.stage1 = 1 /\ turn = Turn("gains", sf, 0) /\ frame = GainsRead(f, sf)
        /\ list = ListRead(f.pulses)
        /\ decoder = DecoderAt(GainState(s, f, sf), y) /\ Ahead(input, FromGain(f, s, x, sf))
  BY DEF AtGains
<1>2. PICK st : st = GainState(s, f, sf)
  OBVIOUS
<1>3. st \in Predictors /\ GainCoded(st, f, sf) = GainState(s, f, sf + 1)
  BY <1>2, GainStates
<1>4. PICK w : w = FromGain(f, s, x, sf + 1)
  OBVIOUS
<1>5. PICK used \in BOOLEAN : used = Used(f, sf)
  <2>1. Used(f, sf) \in BOOLEAN
    BY DEF Used
  <2> QED BY <2>1
<1>6. PICK u : u = <<Symbol(<<"gain", st.gain>>, f.gain[sf])>>
  OBVIOUS
<1>7. PICK v : v = If(used, Symbol(FilterTable(st.filt), f.filt[sf]))
  OBVIOUS
<1>8. PICK a : a = u \o v
  OBVIOUS
<1>9. IsSeq(u) /\ Len(u) = 1 /\ u[1] = Symbol(<<"gain", st.gain>>, f.gain[sf])
  BY <1>6, One
<1>10. /\ IsSeq(v) /\ Len(v) = (IF used THEN 1 ELSE 0)
       /\ used => v[1] = Symbol(FilterTable(st.filt), f.filt[sf])
  BY <1>7, IfSeq, IfLen
<1>11. /\ IsSeq(a) /\ Len(a) = Len(u) + Len(v) /\ \A j \in 1 .. Len(u) : a[j] = u[j]
       /\ \A j \in 1 .. Len(v) : a[Len(u) + j] = v[j]
  <2>1. IsSeq(u) /\ IsSeq(v)
    BY <1>9, <1>10
  <2> QED BY <2>1, <1>8, Concat
<1>12. Len(a) = (IF used THEN 2 ELSE 1) /\ a[1] = u[1] /\ (used => a[2] = v[1])
  <2>1. 1 \in 1 .. Len(u)
    BY <1>9
  <2>2. used => 1 \in 1 .. Len(v)
    BY <1>10
  <2>3. Len(a) = (IF used THEN 2 ELSE 1)
    BY <1>9, <1>10, <1>11
  <2>4. used => a[1 + 1] = v[1]
    BY <2>2, <1>9, <1>11
  <2>5. a[1] = u[1]
    BY <2>1, <1>11
  <2> QED BY <2>3, <2>4, <2>5
<1>13. Ahead(input, a \o w) /\ IsSeq(w)
  <2>1. FromGain(f, s, x, sf) = encodeGain(st, f, sf) \o w /\ IsSeq(w)
    BY <1>2, <1>4, GainsWire
  <2>2. encodeGain(st, f, sf) = a
    BY <1>5, <1>6, <1>7, <1>8 DEF encodeGain, Used
  <2> QED BY <2>1, <2>2, <1>1
<1>14. Coming(1, <<"gain", st.gain>>) /\ Got(1) = f.gain[sf]
  <2>1. 1 \in 1 .. Len(a) /\ a[1] = Symbol(<<"gain", st.gain>>, f.gain[sf])
    BY <1>9, <1>12
  <2> QED BY <2>1, <1>11, <1>13, NextIs
<1>15. used => Coming(2, FilterTable(st.filt)) /\ Got(2) = f.filt[sf]
  <2>1. SUFFICES ASSUME used PROVE Coming(2, FilterTable(st.filt)) /\ Got(2) = f.filt[sf]
    OBVIOUS
  <2>2. 2 \in 1 .. Len(a) /\ a[2] = Symbol(FilterTable(st.filt), f.filt[sf])
    BY <2>1, <1>10, <1>12
  <2> QED BY <2>2, <1>11, <1>13, NextIs
<1>16. SameParts(GainsRead(f, sf), f)
  <2>1. /\ SameParts(SplitRead(f), f) /\ SameParts(Gains1(f), f) /\ SameParts(Gains2(f), f)
        /\ SameParts(Gains3(f), f)
    BY Gains4Fields
  <2> QED BY <2>1 DEF GainsRead
<1>17. /\ turn.sf = sf /\ decoder.gain = st.gain /\ decoder.filt = st.filt
       /\ (frame.split[sf] > 0) = used
  <2>1. frame.split = Split(f)
    BY <1>1, <1>16 DEF SameParts
  <2>2. frame.split[sf] = Count(f.pulses, sf)
    BY <2>1 DEF Split
  <2>3. (frame.split[sf] > 0) = used
    BY <2>2, <1>5, Zenon DEF Used
  <2>4. turn.sf = sf
    BY <1>1, TurnFields
  <2>5. decoder.gain = st.gain /\ decoder.filt = st.filt
    BY <1>1, <1>2, DecoderFields
  <2> QED BY <2>3, <2>4, <2>5
<1>18. /\ Take(IF used THEN 2 ELSE 1)
       /\ decoder' = [decoder EXCEPT !.gain = Got(1), !.filt = IF used THEN Got(2) ELSE @]
       /\ frame' = [frame EXCEPT !.gain[sf] = Got(1), !.filt[sf] = IF used THEN Got(2) ELSE @]
       /\ turn' = IF sf = 3 THEN [NoTurn EXCEPT !.at = "contour"] ELSE [turn EXCEPT !.sf = @ + 1]
       /\ UNCHANGED <<list, results>>
  BY <1>14, <1>15, <1>17 DEF ReadGain
<1>19. Ahead(input', w)
  <2>1. PICK n : n = IF used THEN 2 ELSE 1
    OBVIOUS
  <2>2. n = Len(a) /\ Take(n)
    BY <2>1, <1>12, <1>18
  <2> QED BY <2>2, <1>11, <1>13, Took
<1>20. decoder' = DecoderAt(GainState(s, f, sf + 1), y)
  <2>1. decoder = DecoderAt(st, y)
    BY <1>1, <1>2
  <2>2. decoder' = [decoder EXCEPT !.gain = f.gain[sf], !.filt = NewFilter(st, f, sf)]
    BY <1>5, <1>14, <1>15, <1>17, <1>18 DEF NewFilter
  <2>3. decoder' = WithGain(DecoderAt(st, y), f.gain[sf], NewFilter(st, f, sf))
    BY <2>1, <2>2 DEF WithGain
  <2>4. decoder' = DecoderAt(GainCoded(st, f, sf), y)
    BY <2>3, <1>3, DecoderGain
  <2> QED BY <2>4, <1>3
<1>21. frame' = GainRead(GainsRead(f, sf), f, sf)
  <2>1. frame' = [frame EXCEPT !.gain[sf] = f.gain[sf], !.filt[sf] = IF Used(f, sf) THEN f.filt[sf] ELSE @]
    BY <1>5, <1>14, <1>15, <1>18
  <2> QED BY <2>1, <1>1 DEF GainRead
<1>22. list' = ListRead(f.pulses)
  BY <1>1, <1>18
<1>23. CASE sf = 3
  <2>1. turn' = Turn("contour", 0, 0)
    BY <1>18, <1>23, TurnFacts
  <2>2. frame' = Gains4(f)
    BY <1>21, <1>23, GainsReadNext
  <2>3. sf + 1 = 4
    BY <1>23
  <2>4. w = FromContour(f, GainsCoded(s, f), x) /\ GainState(s, f, sf + 1) = GainsCoded(s, f)
    BY <2>3, <1>4 DEF FromGain, GainState
  <2>5. AtContour(f, s, x, y)'
    BY <2>1, <2>2, <2>4, <1>1, <1>19, <1>20, <1>22 DEF AtContour
  <2> QED BY <2>5
<1>24. CASE sf # 3
  <2>1. PICK n : n = sf + 1
    OBVIOUS
  <2>2. turn' = Turn("gains", n, 0)
    <3>1. turn' = [Turn("gains", sf, 0) EXCEPT !.sf = @ + 1]
      BY <1>1, <1>18, <1>24
    <3>2. [Turn("gains", sf, 0) EXCEPT !.sf = @ + 1] = Turn("gains", sf + 1, 0)
      BY TurnSf
    <3> QED BY <3>1, <3>2, <2>1
  <2>3. frame' = GainsRead(f, n) /\ n \in Subframes
    BY <2>1, <1>21, <1>24, GainsReadNext
  <2>4. Ahead(input', FromGain(f, s, x, n)) /\ decoder' = DecoderAt(GainState(s, f, n), y)
    BY <2>1, <1>4, <1>19, <1>20
  <2>5. AtGains(f, s, x, y)'
    BY <2>2, <2>3, <2>4, <1>1, <1>22 DEF AtGains
  <2> QED BY <2>5
<1> QED BY <1>23, <1>24

(* From the contour to the fine lag or to the lags after it.               *)
LEMMA ContourStep ==
  ASSUME NEW CONSTANT f, WellFound(f), NEW CONSTANT s \in Predictors, NEW CONSTANT x, IsSeq(x),
         NEW CONSTANT y, AtContour(f, s, x, y), ReadContour
  PROVE  AtFine(f, s, x, y)' \/ AtLags(f, s, x, y)'
<1>1. PICK g : g = GainsCoded(s, f)
  OBVIOUS
<1>2. PICK w : w = FromFine(f, g, x)
  OBVIOUS
<1>3. PICK c : c = f.contour
  OBVIOUS
<1>4. PICK a : a = encodeContour(g, f)
  OBVIOUS
<1>5. IsSeq(w) /\ IsSeq(a) /\ Ahead(input, a \o w)
  <2>1. IsSeq(w) /\ FromContour(f, g, x) = encodeContour(g, f) \o w
    BY <1>2, LagsWire
  <2>2. IsSeq(a)
    BY <1>4, LagsSeq
  <2> QED BY <2>1, <2>2, <1>1, <1>4 DEF AtContour
<1>6. g.blk \in Int
  <2>1. g \in Predictors
    BY <1>1, GainStates
  <2> QED BY <2>1 DEF Predictors
<1>7. /\ frame = Gains4(f) /\ list = ListRead(f.pulses) /\ f.stage1 = 1
      /\ decoder = DecoderAt(g, y) /\ decoder.lag = g.blk
  BY <1>1, DecoderFields DEF AtContour
<1>8. PICK n : n = IF g.blk < 0 THEN 1 ELSE 2
  OBVIOUS
<1>9. /\ Len(a) = n /\ a[n] = Symbol(IF g.blk < 0 THEN <<"contour">> ELSE <<"contourOf", c[1]>>, c)
      /\ n \in 1 .. Len(a) /\ 1 \in 1 .. Len(a)
      /\ ~(g.blk < 0) => a[1] = Symbol(<<"block", g.blk>>, c[1])
  <2>1. CASE g.blk < 0
    <3>1. a = <<Symbol(<<"contour">>, c)>> /\ n = 1
      BY <2>1, <1>3, <1>4, <1>8 DEF encodeContour
    <3> QED BY <3>1, <2>1, One
  <2>2. CASE ~(g.blk < 0)
    <3>1. a = <<Symbol(<<"block", g.blk>>, c[1]), Symbol(<<"contourOf", c[1]>>, c)>> /\ n = 2
      BY <2>2, <1>3, <1>4, <1>8 DEF encodeContour
    <3> QED BY <3>1, <2>2, Two
  <2> QED BY <2>1, <2>2
<1>10. /\ Coming(n, IF g.blk < 0 THEN <<"contour">> ELSE <<"contourOf", c[1]>>) /\ Got(n) = c
       /\ ~(g.blk < 0) => Coming(1, <<"block", g.blk>>) /\ Got(1) = c[1]
  <2>1. Coming(n, IF g.blk < 0 THEN <<"contour">> ELSE <<"contourOf", c[1]>>) /\ Got(n) = c
    <3>1. PICK table : table = IF g.blk < 0 THEN <<"contour">> ELSE <<"contourOf", c[1]>>
      OBVIOUS
    <3>2. a[n] = Symbol(table, c) /\ n \in 1 .. Len(a)
      BY <3>1, <1>9
    <3>3. Coming(n, table) /\ Got(n) = c
      BY <3>2, <1>5, NextIs
    <3> QED BY <3>1, <3>3
  <2>2. ASSUME ~(g.blk < 0) PROVE Coming(1, <<"block", g.blk>>) /\ Got(1) = c[1]
    BY <2>2, <1>5, <1>9, NextIs
  <2> QED BY <2>1, <2>2
<1>11. PICK near \in BOOLEAN : near = (g.blk >= 0 /\ c[1] - g.blk \in -1 .. 2)
  <2>1. (g.blk >= 0 /\ c[1] - g.blk \in -1 .. 2) \in BOOLEAN
    OBVIOUS
  <2> QED BY <2>1, Zenon
<1>12. near <=> ~Fine(g, f)
  <2>1. near <=> g.blk >= 0 /\ c[1] - g.blk \in -1 .. 2
    BY <1>11, Zenon
  <2>2. g.blk >= 0 <=> g.blk > -1
    BY <1>6
  <2> QED BY <2>1, <2>2, <1>3, Zenon DEF Fine
<1>13. /\ Take(n) /\ frame' = [frame EXCEPT !.contour = c]
       /\ GoTo(IF near THEN "lags" ELSE "fine")
       /\ UNCHANGED <<decoder, list, results>>
  <2>1. CASE g.blk < 0
    <3>1. n = 1 /\ Coming(1, <<"contour">>) /\ Got(1) = c
      BY <2>1, <1>8, <1>10
    <3>2. ~near /\ decoder.lag < 0 /\ ~(decoder.lag >= 0)
      <4>1. near <=> g.blk >= 0 /\ c[1] - g.blk \in -1 .. 2
        BY <1>11, Zenon
      <4> QED BY <4>1, <2>1, <1>6, <1>7
    <3> QED BY <3>1, <3>2 DEF ReadContour
  <2>2. CASE ~(g.blk < 0)
    <3>1. n = 2 /\ Coming(1, <<"block", g.blk>>) /\ Got(1) = c[1] /\ Coming(2, <<"contourOf", c[1]>>) /\ Got(2) = c
      BY <2>2, <1>8, <1>10
    <3>2. ~(decoder.lag < 0) /\ decoder.lag = g.blk
      BY <2>2, <1>7
    <3>3. /\ Take(2) /\ frame' = [frame EXCEPT !.contour = c]
          /\ GoTo(IF g.blk >= 0 /\ c[1] - g.blk \in -1 .. 2 THEN "lags" ELSE "fine")
          /\ UNCHANGED <<decoder, list, results>>
      BY <3>1, <3>2 DEF ReadContour
    <3> QED BY <3>1, <3>3, <1>11
  <2> QED BY <2>1, <2>2
<1>14. Ahead(input', w)
  <2>1. n = Len(a)
    BY <1>9
  <2> QED BY <2>1, <1>5, <1>13, Took
<1>15. frame' = ContourRead(f)
  BY <1>3, <1>7, <1>13 DEF ContourRead
<1>16. decoder' = DecoderAt(g, y) /\ list' = ListRead(f.pulses)
  BY <1>7, <1>13
<1>17. CASE near
  <2>1. turn' = Turn("lags", 0, 0)
    BY <1>13, <1>17, TurnFacts DEF GoTo
  <2>2. ~Fine(g, f)
    BY <1>12, <1>17
  <2>3. w = Drop(encodeLags(g, f), 0 - (IF Fine(g, f) THEN 1 ELSE 0)) \o x
    <3>1. FineSymbol(g, f) = << >>
      BY <2>2 DEF FineSymbol, If
    <3>2. PICK e : e = encodeLags(g, f)
      OBVIOUS
    <3>3. IsSeq(e) /\ Drop(e, 0) = e
      BY <3>2, LagsSeq, DropNone
    <3>4. FromLags(f, g, x) = e \o x /\ IsSeq(FromLags(f, g, x))
      BY <3>2, LagsWire DEF FromLags
    <3>5. w = << >> \o FromLags(f, g, x)
      BY <3>1, <1>2 DEF FromFine
    <3>6. w = FromLags(f, g, x)
      BY <3>4, <3>5, ConcatNothing
    <3>7. 0 - (IF Fine(g, f) THEN 1 ELSE 0) = 0
      <4>1. (IF Fine(g, f) THEN 1 ELSE 0) = 0
        BY <2>2
      <4>2. PICK z : z = IF Fine(g, f) THEN 1 ELSE 0
        OBVIOUS
      <4>3. z = 0
        BY <4>1, <4>2
      <4>4. 0 - z = 0
        BY <4>3
      <4> QED BY <4>2, <4>4, Zenon
    <3> QED BY <3>2, <3>3, <3>4, <3>6, <3>7
  <2>4. frame' = LagsRead(f, 0) /\ LagState(g, f, 0) = g
    BY <1>15, LagsNone DEF LagState
  <2>5. (IF Fine(g, f) THEN 1 ELSE 0) <= 0 /\ 0 <= Len(f.contour)
    <3>1. Len(f.contour) \in Nat
      BY LenProperties DEF WellFound
    <3> QED BY <3>1, <2>2
  <2>6. LagsPlace(f, g, x, y, 0, frame', decoder', input')
    BY <2>3, <2>4, <2>5, <1>14, <1>16 DEF LagsPlace
  <2>7. AtLags(f, s, x, y)'
    BY <2>1, <2>6, <1>1, <1>7, <1>16 DEF AtLags
  <2> QED BY <2>7
<1>18. CASE ~near
  <2>1. turn' = Turn("fine", 0, 0)
    BY <1>13, <1>18, TurnFacts DEF GoTo
  <2>2. Fine(g, f)
    BY <1>12, <1>18
  <2>3. AtFine(f, s, x, y)'
    BY <2>1, <2>2, <1>1, <1>2, <1>7, <1>14, <1>15, <1>16 DEF AtFine
  <2> QED BY <2>3
<1> QED BY <1>17, <1>18

(* The lag after k of them: the decoder and the frame after it.            *)
LEMMA NextLagStep ==
  ASSUME NEW CONSTANT f, WellFound(f), NEW CONSTANT g \in Predictors, NEW CONSTANT y,
         NEW CONSTANT k \in Nat, k < Len(f.contour), frame = LagsRead(f, k),
         decoder = DecoderAt(LagState(g, f, k), y),
         NextLag(Lag(f, k + 1), f.contour[k + 1])
  PROVE  frame' = LagsRead(f, k + 1) /\ decoder' = DecoderAt(LagState(g, f, k + 1), y)
<1>1. PICK l : l = Lag(f, k + 1)
  OBVIOUS
<1>2. decoder' = WithLag(DecoderAt(LagState(g, f, k), y), Lag(f, k + 1), f.contour[k + 1])
  BY DEF NextLag, WithLag
<1>3. decoder' = DecoderAt(LagState(g, f, k + 1), y)
  BY <1>2, LagStateNext
<1>4. frame' = [LagsRead(f, k) EXCEPT !.lags = Append(@, Lag(f, k + 1))]
  BY DEF NextLag
<1>5. frame' = LagsRead(f, k + 1)
  BY <1>4, LagsNext
<1> QED BY <1>3, <1>5

(* From the fine lag to the others.                                        *)
LEMMA FineStep ==
  ASSUME NEW CONSTANT f, WellFound(f), NEW CONSTANT s \in Predictors, NEW CONSTANT x, IsSeq(x),
         NEW CONSTANT y, AtFine(f, s, x, y), ReadFine
  PROVE  AtLags(f, s, x, y)'
<1>1. PICK g \in Predictors : g = GainsCoded(s, f)
  BY GainStates
<1>2. PICK w : w = FromLags(f, g, x)
  OBVIOUS
<1>3. PICK v : v = Lag(f, 1) - f.contour[1] * BlockSize
  OBVIOUS
<1>4. IsSeq(w) /\ Fine(g, f) /\ Ahead(input, <<Symbol(<<"fine">>, v)>> \o w)
  <2>1. Fine(g, f) /\ Ahead(input, FromFine(f, g, x)) /\ IsSeq(w)
    BY <1>1, <1>2, LagsWire DEF AtFine
  <2>2. FineSymbol(g, f) = <<Symbol(<<"fine">>, v)>>
    BY <2>1, <1>3 DEF FineSymbol, If
  <2> QED BY <2>1, <2>2, <1>2 DEF FromFine
<1>5. Coming(1, <<"fine">>) /\ Got(1) = v /\ (Take(1) => Ahead(input', w))
  BY <1>4, NextOne
<1>6. frame.contour = f.contour /\ frame = LagsRead(f, 0)
  BY LagsFields, LagsNone DEF AtFine
<1>7. 0 < Len(f.contour) /\ 1 \in 1 .. Len(f.contour)
  <2>1. Len(f.contour) \in Nat /\ f.contour \in Seq(Nat) /\ f.contour # << >>
    BY LenProperties DEF WellFound
  <2> QED BY <2>1, EmptySeq
<1>8. f.contour[1] * BlockSize + v = Lag(f, 1)
  <2>1. PICK a \in Nat : a = f.contour[1] * BlockSize
    BY <1>7, LagInt
  <2>2. PICK b \in Nat : b = Lag(f, 1)
    BY <1>7, LagInt
  <2> QED BY <2>1, <2>2, <1>3
<1>9. /\ Take(1) /\ NextLag(Lag(f, 1), f.contour[1]) /\ GoTo("lags") /\ UNCHANGED <<list, results>>
  BY <1>5, <1>6, <1>8 DEF ReadFine
<1>10. frame' = LagsRead(f, 1) /\ decoder' = DecoderAt(LagState(g, f, 1), y)
  <2>1. decoder = DecoderAt(LagState(g, f, 0), y)
    BY <1>1 DEF AtFine, LagState
  <2>2. 0 \in Nat /\ 0 + 1 = 1
    OBVIOUS
  <2>3. NextLag(Lag(f, 0 + 1), f.contour[0 + 1])
    BY <2>2, <1>9
  <2>4. frame' = LagsRead(f, 0 + 1) /\ decoder' = DecoderAt(LagState(g, f, 0 + 1), y)
    BY <2>1, <2>2, <2>3, <1>6, <1>7, NextLagStep
  <2> QED BY <2>2, <2>4
<1>11. Ahead(input', Drop(encodeLags(g, f), 1 - (IF Fine(g, f) THEN 1 ELSE 0)) \o x)
  <2>1. PICK e : e = encodeLags(g, f)
    OBVIOUS
  <2>2. IsSeq(e) /\ Drop(e, 0) = e
    BY <2>1, LagsSeq, DropNone
  <2>3. 1 - (IF Fine(g, f) THEN 1 ELSE 0) = 0
    BY <1>4
  <2> QED BY <2>1, <2>2, <2>3, <1>2, <1>5, <1>9 DEF FromLags
<1>12. LagsPlace(f, g, x, y, 1, frame', decoder', input')
  BY <1>4, <1>7, <1>10, <1>11 DEF LagsPlace
<1>13. turn' = Turn("lags", 0, 0) /\ list' = ListRead(f.pulses) /\ f.stage1 = 1
  BY <1>9, TurnFacts DEF GoTo, AtFine
<1>14. 1 \in Nat
  OBVIOUS
<1>15. AtLags(f, s, x, y)'
  BY <1>1, <1>12, <1>13, <1>14 DEF AtLags
<1> QED BY <1>15

(* What is coded for lag k + 1, with the predictor that lag k left.        *)
LEMMA LagCoded ==
  ASSUME NEW f, WellFound(f), NEW g \in Predictors, NEW k \in Nat, k < Len(f.contour),
         NEW idx, idx = LagState(g, f, k).idx
  PROVE  /\ idx \in Int /\ f.contour[k + 1] * BlockSize \in Int /\ Lag(f, k + 1) \in Int
         /\ encodeLag(g, f, k + 1)
              = Symbol(<<"delta", Mode(f.gain), (f.contour[k + 1] * BlockSize - idx) + 2 * BlockSize - 1>>,
                       (Lag(f, k + 1) - idx) - (f.contour[k + 1] * BlockSize - idx))
<1>1. PICK blk : blk = LagState(g, f, k).blk
  OBVIOUS
<1>2. k + 1 \in 1 .. Len(f.contour) /\ k + 1 - 1 = k /\ (k + 1 = 1 <=> k = 0)
  <2>1. Len(f.contour) \in Nat
    BY LenProperties DEF WellFound
  <2> QED BY <2>1
<1>3. /\ blk \in Int /\ idx \in Int
      /\ blk = (IF k + 1 = 1 THEN g.blk ELSE f.contour[k + 1 - 1])
      /\ idx = (IF k + 1 = 1 THEN g.idx ELSE Lag(f, k + 1 - 1))
  <2>1. CASE k = 0
    BY <2>1, <1>1, <1>2 DEF LagState, Predictors
  <2>2. CASE k # 0
    <3>1. k \in 1 .. Len(f.contour)
      BY <2>2, <1>2
    <3>2. blk = f.contour[k] /\ idx = Lag(f, k)
      BY <3>1, <1>1, LagStateIs
    <3>3. f.contour[k] \in Nat /\ Lag(f, k) \in Nat
      BY <3>1, LagInt
    <3> QED BY <3>2, <3>3, <2>2, <1>2
  <2> QED BY <2>1, <2>2
<1>4. PICK c \in Nat : c = f.contour[k + 1]
  BY <1>2, LagInt
<1>5. PICK l \in Nat : l = Lag(f, k + 1)
  BY <1>2, LagInt
<1>6. PICK cb \in Nat : cb = c * BlockSize
  BY <1>2, <1>4, LagInt
<1>7. BlockSize \in Nat
  BY SyntaxAssumption
<1>8. PICK drs : drs = -(idx - blk * BlockSize) + (c - blk) * BlockSize
  OBVIOUS
<1>9. drs = cb - idx
  <2>1. PICK bb \in Int : bb = blk * BlockSize
    BY <1>3, <1>7
  <2>2. (c - blk) * BlockSize = c * BlockSize - blk * BlockSize
    BY <1>3, <1>7
  <2>3. (c - blk) * BlockSize = cb - bb
    BY <2>1, <2>2, <1>6
  <2>4. drs = -(idx - bb) + (cb - bb)
    BY <2>1, <2>3, <1>8
  <2> QED BY <2>4, <1>3
<1>10. encodeLag(g, f, k + 1) = Symbol(<<"delta", Mode(f.gain), drs + 2 * BlockSize - 1>>, l - idx - drs)
  BY <1>3, <1>4, <1>5, <1>8 DEF encodeLag
<1> QED BY <1>3, <1>4, <1>5, <1>6, <1>9, <1>10

LEMMA LagsToLen == ASSUME NEW f, NEW k \in Nat PROVE Len(LagsTo(f, k)) = k
<1>1. LagsTo(f, k) \in [1 .. k -> {LagsTo(f, k)[j] : j \in 1 .. k}]
  BY Zenon DEF LagsTo
<1> QED BY <1>1, FunctionSeq, Zenon

(* From a lag to the next, or to the end of the frame.                     *)
LEMMA LagStep ==
  ASSUME NEW CONSTANT f, WellFound(f), NEW CONSTANT s \in Predictors, NEW CONSTANT x, IsSeq(x),
         NEW CONSTANT y, AtLags(f, s, x, y), ReadLag
  PROVE  AtLags(f, s, x, y)' \/ AtNlsf(f, s, x, y)'
<1>1. PICK g \in Predictors : g = GainsCoded(s, f)
  BY GainStates
<1>2. PICK k \in Nat : LagsPlace(f, g, x, y, k, frame, decoder, input)
  BY <1>1 DEF AtLags
<1>3. PICK o \in {0, 1} : o = IF Fine(g, f) THEN 1 ELSE 0
  OBVIOUS
<1>4. PICK e : e = encodeLags(g, f)
  OBVIOUS
<1>5. PICK n \in Nat : n = Len(f.contour)
  BY LenProperties DEF WellFound
<1>6. /\ o <= k /\ k <= n /\ frame = LagsRead(f, k) /\ decoder = DecoderAt(LagState(g, f, k), y)
      /\ Ahead(input, Drop(e, k - o) \o x)
  BY <1>2, <1>3, <1>4, <1>5 DEF LagsPlace
<1>7. /\ IsSeq(e) /\ Len(e) = n - o /\ \A j \in 1 .. n - o : e[j] = encodeLag(g, f, j + o)
  BY <1>3, <1>4, <1>5, LagsSeq
<1>8. /\ frame.contour = f.contour /\ Len(frame.lags) = k /\ frame.gain = f.gain
  BY <1>6, LagsFields, LagsToLen
<1>9. f.stage1 = 1 /\ turn = Turn("lags", 0, 0) /\ list = ListRead(f.pulses)
  BY DEF AtLags
<1>10. CASE k = n
  <2>1. GoTo("nlsf") /\ UNCHANGED <<input, decoder, frame, list, results>>
    BY <1>5, <1>8, <1>10 DEF ReadLag
  <2>2. Ahead(input, x)
    <3>1. k - o = Len(e)
      BY <1>7, <1>10
    <3>2. Drop(e, k - o) = << >>
      BY <3>1, <1>7, DropNone
    <3> QED BY <3>2, <1>6, ConcatNothing
  <2>3. frame = WholeRead(f)
    BY <1>5, <1>6, <1>9, <1>10 DEF WholeRead
  <2>4. LagState(g, f, k) = EndState(s, f)
    <3>1. n # 0
      BY <1>5, EmptySeq DEF WellFound
    <3> QED BY <3>1, <1>1, <1>5, <1>9, <1>10 DEF LagState, EndState, smplLagsPredictorAfter
  <2>5. turn' = Turn("nlsf", 0, 0)
    BY <2>1, TurnFacts DEF GoTo
  <2>6. decoder' = DecoderAt(EndState(s, f), y) /\ frame' = WholeRead(f) /\ list' = ListRead(f.pulses)
    BY <2>1, <2>3, <2>4, <1>6, <1>9
  <2>7. Ahead(input', x)
    BY <2>1, <2>2
  <2>8. AtNlsf(f, s, x, y)'
    BY <2>5, <2>6, <2>7 DEF AtNlsf
  <2> QED BY <2>8
<1>11. CASE k # n
  <2>1. k < Len(f.contour) /\ k - o \in Nat /\ k - o < Len(e) /\ (k - o) + 1 \in 1 .. n - o
        /\ (k - o) + 1 + o = k + 1 /\ (k - o) + 1 = (k + 1) - o /\ k + 1 <= n /\ o <= k + 1
    BY <1>5, <1>6, <1>7, <1>11
  <2>2. PICK idx : idx = LagState(g, f, k).idx
    OBVIOUS
  <2>3. PICK cb : cb = f.contour[k + 1] * BlockSize
    OBVIOUS
  <2>4. PICK l : l = Lag(f, k + 1)
    OBVIOUS
  <2>5. PICK table : table = <<"delta", Mode(f.gain), (cb - idx) + 2 * BlockSize - 1>>
    OBVIOUS
  <2>6. PICK sym : sym = (l - idx) - (cb - idx)
    OBVIOUS
  <2>7. idx \in Int /\ cb \in Int /\ l \in Int /\ encodeLag(g, f, k + 1) = Symbol(table, sym)
    BY <2>1, <2>2, <2>3, <2>4, <2>5, <2>6, LagCoded
  <2>8. e[(k - o) + 1] = Symbol(table, sym)
    BY <2>1, <2>7, <1>7
  <2>9. PICK d : d = Drop(e, (k - o) + 1)
    OBVIOUS
  <2>10. PICK h : h = <<Symbol(table, sym)>>
    OBVIOUS
  <2>11. Drop(e, k - o) = h \o d
    <3>1. PICK m \in Nat : m = k - o
      BY <2>1
    <3> QED BY <3>1, <2>1, <2>8, <2>9, <2>10, <1>7, DropOne
  <2>12. IsSeq(d)
    <3>1. (k - o) + 1 \in 0 .. Len(e)
      BY <2>1, <1>7
    <3> QED BY <3>1, <2>9, <1>7, Dropped
  <2>13. Apart(h, d, x)
    BY <2>10, <2>12, One DEF Apart
  <2>14. PICK dx : dx = d \o x
    OBVIOUS
  <2>15. (h \o d) \o x = h \o dx /\ IsSeq(dx)
    BY <2>13, <2>14, Nest3
  <2>16. Ahead(input, h \o dx)
    <3>1. Ahead(input, (h \o d) \o x)
      BY <2>11, <1>6
    <3> QED BY <3>1, <2>15
  <2>17. Coming(1, table) /\ Got(1) = sym /\ (Take(1) => Ahead(input', dx))
    BY <2>10, <2>15, <2>16, NextOne
  <2>18. decoder.frac = idx
    BY <2>2, <1>6, DecoderFields
  <2>19. sym + idx + (cb - idx) = l
    BY <2>6, <2>7
  <2>20. /\ Take(1) /\ NextLag(sym + idx + (cb - idx), f.contour[k + 1])
         /\ UNCHANGED <<list, turn, results>>
    <3>1. Len(frame.lags) # Len(frame.contour)
      BY <1>5, <1>8, <1>11
    <3>2. frame.contour[Len(frame.lags) + 1] = f.contour[k + 1]
      BY <1>8
    <3>3. Coming(1, <<"delta", Mode(frame.gain), (cb - idx) + 2 * BlockSize - 1>>)
      BY <2>5, <2>17, <1>8
    <3> QED BY <3>1, <3>2, <3>3, <2>3, <2>17, <2>18 DEF ReadLag
  <2>21. NextLag(Lag(f, k + 1), f.contour[k + 1])
    BY <2>4, <2>19, <2>20
  <2>22. frame' = LagsRead(f, k + 1) /\ decoder' = DecoderAt(LagState(g, f, k + 1), y)
    BY <2>1, <2>21, <1>6, NextLagStep
  <2>23. PICK m \in Nat : m = k + 1
    OBVIOUS
  <2>24. Ahead(input', Drop(e, m - o) \o x)
    <3>1. Drop(e, m - o) = d
      BY <2>1, <2>9, <2>23
    <3> QED BY <3>1, <2>14, <2>17, <2>20
  <2>25. LagsPlace(f, g, x, y, m, frame', decoder', input')
    BY <2>1, <2>22, <2>23, <2>24, <1>3, <1>4, <1>5 DEF LagsPlace
  <2>26. turn' = Turn("lags", 0, 0) /\ list' = ListRead(f.pulses)
    BY <2>20, <1>9
  <2>27. AtLags(f, s, x, y)'
    BY <2>25, <2>26, <1>1, <1>9 DEF AtLags
  <2> QED BY <2>27
<1> QED BY <1>10, <1>11

AtResiduals(f, s, x, y) ==
  \E sf \in Subframes :
    /\ f.stage1 # 1 /\ turn = Turn("residuals", sf, 0) /\ frame = ResidualsRead(f, sf)
    /\ list = ListRead(f.pulses) /\ decoder = DecoderAt(s, y) /\ Ahead(input, FromResidual(f, x, sf))

(* From the main gain to the residuals.                                    *)
LEMMA MainStep ==
  ASSUME NEW CONSTANT f, WellFound(f), NEW CONSTANT s, NEW CONSTANT x, IsSeq(x), NEW CONSTANT y,
         AtMain(f, s, x, y), DecodeSmplGains
  PROVE  AtResiduals(f, s, x, y)'
<1>1. PICK w : w = FromResidual(f, x, 0)
  OBVIOUS
<1>2. PICK a : a = <<Symbol(<<"gainMain">>, f.main), Symbol(<<"gainDelta">>, f.delta)>>
  OBVIOUS
<1>3. IsSeq(w) /\ Ahead(input, a \o w) /\ 0 \in Subframes
  <2>1. 0 \in Subframes
    BY SubframesAre
  <2>2. IsSeq(FromResidual(f, x, 0))
    BY <2>1, ResidualsWire
  <2>3. FromTail(f, s, x) = a \o w
    BY <1>1, <1>2, ResidualsWire DEF AtMain
  <2> QED BY <2>1, <2>2, <2>3, <1>1 DEF AtMain
<1>4. /\ IsSeq(a) /\ Len(a) = 2 /\ 1 \in 1 .. Len(a) /\ 2 \in 1 .. Len(a)
      /\ a[1] = Symbol(<<"gainMain">>, f.main) /\ a[2] = Symbol(<<"gainDelta">>, f.delta)
  BY <1>2, Two
<1>5. Coming(1, <<"gainMain">>) /\ Got(1) = f.main
  BY <1>3, <1>4, NextIs
<1>6. Coming(2, <<"gainDelta">>) /\ Got(2) = f.delta
  BY <1>3, <1>4, NextIs
<1>7. /\ Take(2) /\ frame' = [frame EXCEPT !.main = f.main, !.delta = f.delta]
      /\ GoTo("residuals") /\ UNCHANGED <<decoder, list, results>>
  BY <1>5, <1>6 DEF DecodeSmplGains
<1>8. Ahead(input', w)
  BY <1>3, <1>4, <1>7, Took
<1>9. frame' = ResidualsRead(f, 0)
  BY <1>7 DEF AtMain, ResidualsRead, MainRead
<1>10. turn' = Turn("residuals", 0, 0)
  BY <1>7, TurnFacts DEF GoTo
<1>11. f.stage1 # 1 /\ list' = ListRead(f.pulses) /\ decoder' = DecoderAt(s, y)
  BY <1>7 DEF AtMain
<1>12. AtResiduals(f, s, x, y)'
  BY <1>1, <1>3, <1>8, <1>9, <1>10, <1>11 DEF AtResiduals
<1> QED BY <1>12

LEMMA ResidualsReadNext ==
  ASSUME NEW f, NEW sf \in Subframes
  PROVE  /\ sf # 3 => ResidualRead(ResidualsRead(f, sf), f, sf) = ResidualsRead(f, sf + 1) /\ sf + 1 \in Subframes
         /\ sf = 3 => ResidualRead(ResidualsRead(f, sf), f, sf) = Residual4(f)
<1>1. CASE sf = 0
  <2>1. sf + 1 = 1 /\ 1 \in Subframes
    BY <1>1, SubframesAre
  <2>2. ResidualRead(ResidualsRead(f, 0), f, 0) = ResidualsRead(f, 1)
    BY DEF ResidualsRead, Residual1
  <2> QED BY <2>1, <2>2, <1>1
<1>2. CASE sf = 1
  <2>1. sf + 1 = 2 /\ 2 \in Subframes
    BY <1>2, SubframesAre
  <2>2. ResidualRead(ResidualsRead(f, 1), f, 1) = ResidualsRead(f, 2)
    BY DEF ResidualsRead, Residual2
  <2> QED BY <2>1, <2>2, <1>2
<1>3. CASE sf = 2
  <2>1. sf + 1 = 3 /\ 3 \in Subframes
    BY <1>3, SubframesAre
  <2>2. ResidualRead(ResidualsRead(f, 2), f, 2) = ResidualsRead(f, 3)
    BY DEF ResidualsRead, Residual3
  <2> QED BY <2>1, <2>2, <1>3
<1>4. CASE sf = 3
  <2>1. ResidualRead(ResidualsRead(f, 3), f, 3) = Residual4(f)
    BY DEF ResidualsRead, Residual4
  <2> QED BY <2>1, <1>4
<1> QED BY <1>1, <1>2, <1>3, <1>4, SubframesAre

(* From a residual to that of the next subframe, or to the end.            *)
LEMMA ResidualStep ==
  ASSUME NEW CONSTANT f, WellFound(f), NEW CONSTANT s, NEW CONSTANT x, IsSeq(x), NEW CONSTANT y,
         AtResiduals(f, s, x, y), ReadResidual
  PROVE  AtResiduals(f, s, x, y)' \/ AtNlsf(f, s, x, y)'
<1>1. PICK sf \in Subframes :
        /\ f.stage1 # 1 /\ turn = Turn("residuals", sf, 0) /\ frame = ResidualsRead(f, sf)
        /\ list = ListRead(f.pulses) /\ decoder = DecoderAt(s, y) /\ Ahead(input, FromResidual(f, x, sf))
  BY DEF AtResiduals
<1>2. PICK w : w = FromResidual(f, x, sf + 1)
  OBVIOUS
<1>3. PICK used \in BOOLEAN : used = Used(f, sf)
  <2>1. Used(f, sf) \in BOOLEAN
    BY DEF Used
  <2> QED BY <2>1
<1>4. PICK n : n = Count(f.pulses, sf)
  OBVIOUS
<1>5. used <=> n > 0
  BY <1>3, <1>4, Zenon DEF Used
<1>6. PICK table : table = <<"nrgRes", n, sf, f.main, f.delta>>
  OBVIOUS
<1>7. IsSeq(w) /\ Ahead(input, If(used, Symbol(table, f.nrg[sf])) \o w)
  <2>1. FromResidual(f, x, sf) = encodeResidual(f, sf) \o w /\ IsSeq(w)
    BY <1>2, ResidualsWire
  <2>2. encodeResidual(f, sf) = If(used, Symbol(table, f.nrg[sf]))
    BY <1>3, <1>4, <1>6 DEF encodeResidual, Used
  <2> QED BY <2>1, <2>2, <1>1
<1>8. /\ used => Coming(1, table) /\ Got(1) = f.nrg[sf]
      /\ Take(IF used THEN 1 ELSE 0) => Ahead(input', w)
  BY <1>7, NextIf
<1>9. GainParts(ResidualsRead(f, sf), f)
  <2>1. /\ GainParts(MainRead(f), f) /\ GainParts(Residual1(f), f) /\ GainParts(Residual2(f), f)
        /\ GainParts(Residual3(f), f)
    BY Residual4Fields
  <2> QED BY <2>1 DEF ResidualsRead
<1>10. turn.sf = sf /\ frame.split[sf] = n /\ frame.main = f.main /\ frame.delta = f.delta
  <2>1. frame.split = Split(f) /\ frame.main = f.main /\ frame.delta = f.delta
    BY <1>1, <1>9 DEF GainParts
  <2>2. frame.split[sf] = n
    BY <2>1, <1>4 DEF Split
  <2>3. turn.sf = sf
    BY <1>1, TurnFields
  <2> QED BY <2>1, <2>2, <2>3
<1>11. /\ Take(IF used THEN 1 ELSE 0)
       /\ frame' = [frame EXCEPT !.nrg[sf] = IF used THEN f.nrg[sf] ELSE @]
       /\ turn' = IF sf = 3 THEN [NoTurn EXCEPT !.at = "nlsf"] ELSE [turn EXCEPT !.sf = @ + 1]
       /\ UNCHANGED <<decoder, list, results>>
  BY <1>5, <1>6, <1>8, <1>10 DEF ReadResidual
<1>12. Ahead(input', w)
  BY <1>8, <1>11
<1>13. frame' = ResidualRead(ResidualsRead(f, sf), f, sf)
  BY <1>1, <1>3, <1>11 DEF ResidualRead
<1>14. list' = ListRead(f.pulses) /\ decoder' = DecoderAt(s, y)
  BY <1>1, <1>11
<1>15. CASE sf = 3
  <2>1. turn' = Turn("nlsf", 0, 0)
    BY <1>11, <1>15, TurnFacts
  <2>2. frame' = WholeRead(f)
    BY <1>1, <1>13, <1>15, ResidualsReadNext DEF WholeRead
  <2>3. sf + 1 = 4
    BY <1>15
  <2>4. w = x /\ EndState(s, f) = s
    BY <2>3, <1>1, <1>2 DEF FromResidual, EndState
  <2>5. AtNlsf(f, s, x, y)'
    BY <2>1, <2>2, <2>4, <1>12, <1>14 DEF AtNlsf
  <2> QED BY <2>5
<1>16. CASE sf # 3
  <2>1. PICK m : m = sf + 1
    OBVIOUS
  <2>2. turn' = Turn("residuals", m, 0)
    <3>1. turn' = [Turn("residuals", sf, 0) EXCEPT !.sf = @ + 1]
      BY <1>1, <1>11, <1>16
    <3>2. [Turn("residuals", sf, 0) EXCEPT !.sf = @ + 1] = Turn("residuals", sf + 1, 0)
      BY TurnSf
    <3> QED BY <3>1, <3>2, <2>1
  <2>3. frame' = ResidualsRead(f, m) /\ m \in Subframes
    BY <2>1, <1>13, <1>16, ResidualsReadNext
  <2>4. Ahead(input', FromResidual(f, x, m))
    BY <2>1, <1>2, <1>12
  <2>5. AtResiduals(f, s, x, y)'
    BY <2>2, <2>3, <2>4, <1>1, <1>14 DEF AtResiduals
  <2> QED BY <2>5
<1> QED BY <1>15, <1>16
-----------------------------------------------------------------------------
(* A step inside a frame.                                                  *)
InFrame(f, s, x, y) ==
  \/ AtCount(f, s, x, y) \/ AtTotal(f, s, x, y) \/ AtHalves(f, s, x, y) \/ AtRuns(f, s, x, y)
  \/ AtSigns(f, s, x, y) \/ AtGains(f, s, x, y) \/ AtContour(f, s, x, y) \/ AtFine(f, s, x, y)
  \/ AtLags(f, s, x, y) \/ AtMain(f, s, x, y) \/ AtResiduals(f, s, x, y) \/ AtNlsf(f, s, x, y)

ReadInFrame ==
  \/ decodeCount \/ decodeTotal \/ decodeSplits \/ ReadRun \/ ReadSigns \/ ReadGain \/ ReadContour
  \/ ReadFine \/ ReadLag \/ DecodeSmplGains \/ ReadResidual

(* Which place it is can be told from the turn.                            *)
LEMMA Places ==
  ASSUME NEW CONSTANT f, NEW CONSTANT s, NEW CONSTANT x, NEW CONSTANT y
  PROVE  /\ AtCount(f, s, x, y) => turn.at = "count"
         /\ AtTotal(f, s, x, y) => turn.at = "total"
         /\ AtHalves(f, s, x, y) => turn.at = "halves"
         /\ AtRuns(f, s, x, y) => turn.at = "runs"
         /\ AtSigns(f, s, x, y) => turn.at = "signs"
         /\ AtGains(f, s, x, y) => turn.at = "gains"
         /\ AtContour(f, s, x, y) => turn.at = "contour"
         /\ AtFine(f, s, x, y) => turn.at = "fine"
         /\ AtLags(f, s, x, y) => turn.at = "lags"
         /\ AtMain(f, s, x, y) => turn.at = "main"
         /\ AtResiduals(f, s, x, y) => turn.at = "residuals"
         /\ AtNlsf(f, s, x, y) => turn.at = "nlsf"
<1>1. AtRuns(f, s, x, y) => turn.at = "runs"
  BY DEF AtRuns, RunsPlace, RunTurn
<1>2. AtSigns(f, s, x, y) => turn.at = "signs"
  BY TurnFields DEF AtSigns, SignsPlace
<1>3. AtGains(f, s, x, y) => turn.at = "gains"
  BY TurnFields DEF AtGains
<1>4. AtResiduals(f, s, x, y) => turn.at = "residuals"
  BY TurnFields DEF AtResiduals
<1>5. /\ AtCount(f, s, x, y) => turn.at = "count"
      /\ AtTotal(f, s, x, y) => turn.at = "total"
      /\ AtHalves(f, s, x, y) => turn.at = "halves"
      /\ AtContour(f, s, x, y) => turn.at = "contour"
  BY TurnFields DEF AtCount, AtTotal, AtHalves, AtContour
<1>6. /\ AtFine(f, s, x, y) => turn.at = "fine"
      /\ AtLags(f, s, x, y) => turn.at = "lags"
      /\ AtMain(f, s, x, y) => turn.at = "main"
      /\ AtNlsf(f, s, x, y) => turn.at = "nlsf"
  BY TurnFields DEF AtFine, AtLags, AtMain, AtNlsf
<1> QED BY <1>1, <1>2, <1>3, <1>4, <1>5, <1>6

(* A step at a place of a frame leads to a place of the frame.             *)
LEMMA FrameStep ==
  ASSUME NEW CONSTANT f, WellFound(f), NEW CONSTANT s \in Predictors, NEW CONSTANT x, IsSeq(x),
         NEW CONSTANT y, InFrame(f, s, x, y), ReadInFrame
  PROVE  InFrame(f, s, x, y)'
<1>1. CASE decodeCount
  <2>1. turn.at = "count"
    BY <1>1 DEF decodeCount, At
  <2>2. AtCount(f, s, x, y)
    BY <2>1, Places DEF InFrame
  <2>3. AtTotal(f, s, x, y)' \/ AtSigns(f, s, x, y)'
    BY <1>1, <2>2, CountStep
  <2> QED BY <2>3 DEF InFrame
<1>2. CASE decodeTotal
  <2>1. turn.at = "total"
    BY <1>2 DEF decodeTotal, At
  <2>2. AtTotal(f, s, x, y)
    BY <2>1, Places DEF InFrame
  <2>3. AtHalves(f, s, x, y)'
    BY <1>2, <2>2, TotalStep
  <2> QED BY <2>3 DEF InFrame
<1>3. CASE decodeSplits
  <2>1. turn.at = "halves"
    BY <1>3 DEF decodeSplits, At
  <2>2. AtHalves(f, s, x, y)
    BY <2>1, Places DEF InFrame
  <2>3. AtRuns(f, s, x, y)' \/ AtSigns(f, s, x, y)'
    BY <1>3, <2>2, HalvesStep
  <2> QED BY <2>3 DEF InFrame
<1>4. CASE ReadRun
  <2>1. turn.at = "runs"
    BY <1>4 DEF ReadRun, At
  <2>2. AtRuns(f, s, x, y)
    BY <2>1, Places DEF InFrame
  <2>3. AtRuns(f, s, x, y)' \/ AtSigns(f, s, x, y)'
    BY <1>4, <2>2, RunStep
  <2> QED BY <2>3 DEF InFrame
<1>5. CASE ReadSigns
  <2>1. turn.at = "signs"
    BY <1>5 DEF ReadSigns, At
  <2>2. AtSigns(f, s, x, y)
    BY <2>1, Places DEF InFrame
  <2>3. AtSigns(f, s, x, y)' \/ AtGains(f, s, x, y)' \/ AtMain(f, s, x, y)'
    BY <1>5, <2>2, SignsStep
  <2> QED BY <2>3 DEF InFrame
<1>6. CASE ReadGain
  <2>1. turn.at = "gains"
    BY <1>6 DEF ReadGain, At
  <2>2. AtGains(f, s, x, y)
    BY <2>1, Places DEF InFrame
  <2>3. AtGains(f, s, x, y)' \/ AtContour(f, s, x, y)'
    BY <1>6, <2>2, GainStep
  <2> QED BY <2>3 DEF InFrame
<1>7. CASE ReadContour
  <2>1. turn.at = "contour"
    BY <1>7 DEF ReadContour, At
  <2>2. AtContour(f, s, x, y)
    BY <2>1, Places DEF InFrame
  <2>3. AtFine(f, s, x, y)' \/ AtLags(f, s, x, y)'
    BY <1>7, <2>2, ContourStep
  <2> QED BY <2>3 DEF InFrame
<1>8. CASE ReadFine
  <2>1. turn.at = "fine"
    BY <1>8 DEF ReadFine, At
  <2>2. AtFine(f, s, x, y)
    BY <2>1, Places DEF InFrame
  <2>3. AtLags(f, s, x, y)'
    BY <1>8, <2>2, FineStep
  <2> QED BY <2>3 DEF InFrame
<1>9. CASE ReadLag
  <2>1. turn.at = "lags"
    BY <1>9 DEF ReadLag, At
  <2>2. AtLags(f, s, x, y)
    BY <2>1, Places DEF InFrame
  <2>3. AtLags(f, s, x, y)' \/ AtNlsf(f, s, x, y)'
    BY <1>9, <2>2, LagStep
  <2> QED BY <2>3 DEF InFrame
<1>10. CASE DecodeSmplGains
  <2>1. turn.at = "main"
    BY <1>10 DEF DecodeSmplGains, At
  <2>2. AtMain(f, s, x, y)
    BY <2>1, Places DEF InFrame
  <2>3. AtResiduals(f, s, x, y)'
    BY <1>10, <2>2, MainStep
  <2> QED BY <2>3 DEF InFrame
<1>11. CASE ReadResidual
  <2>1. turn.at = "residuals"
    BY <1>11 DEF ReadResidual, At
  <2>2. AtResiduals(f, s, x, y)
    BY <2>1, Places DEF InFrame
  <2>3. AtResiduals(f, s, x, y)' \/ AtNlsf(f, s, x, y)'
    BY <1>11, <2>2, ResidualStep
  <2> QED BY <2>3 DEF InFrame
<1> QED BY <1>1, <1>2, <1>3, <1>4, <1>5, <1>6, <1>7, <1>8, <1>9, <1>10, <1>11 DEF ReadInFrame

(* Inside a frame the reader has not failed; the last symbols are those of *)
(* the frames after it.                                                    *)
LEMMA InFrameReads ==
  ASSUME NEW CONSTANT f, NEW CONSTANT s, NEW CONSTANT x, NEW CONSTANT y, InFrame(f, s, x, y)
  PROVE  DOMAIN input = {"body", "at", "ok"} /\ input.ok = TRUE
<1>1. \E z : Ahead(input, z)
  BY DEF InFrame, AtCount, AtTotal, AtHalves, AtRuns, AtSigns, AtGains, AtContour, AtFine, AtLags, AtMain,
         AtResiduals, AtNlsf, RunsPlace, SignsPlace, LagsPlace
<1> QED BY <1>1 DEF Ahead

(* The results change at the end of a frame only, the body not at all.     *)
LEMMA ReadKeeps ==
  ASSUME DOMAIN input = {"body", "at", "ok"}
  PROVE  /\ ReadInFrame \/ DecodeSmplLsf => results' = results /\ input'.body = input.body
         /\ decodeActiveFrame => input' = input
<1>1. ASSUME NEW n, Take(n) PROVE input'.body = input.body
  BY <1>1 DEF Take
<1>2. ASSUME Lost PROVE input'.body = input.body /\ results' = results
  BY <1>2 DEF Lost
<1>3. ASSUME decodeCount \/ decodeTotal \/ decodeSplits \/ ReadRun
      PROVE  results' = results /\ input'.body = input.body
  BY <1>1, <1>2, <1>3 DEF decodeCount, decodeTotal, decodeSplits, ReadRun
<1>4. ASSUME ReadSigns \/ ReadGain \/ ReadContour \/ ReadFine
      PROVE  results' = results /\ input'.body = input.body
  BY <1>1, <1>2, <1>4 DEF ReadSigns, ReadGain, ReadContour, ReadFine
<1>5. ASSUME ReadLag \/ DecodeSmplGains \/ ReadResidual \/ DecodeSmplLsf
      PROVE  results' = results /\ input'.body = input.body
  BY <1>1, <1>2, <1>5 DEF ReadLag, DecodeSmplGains, ReadResidual, DecodeSmplLsf
<1>6. decodeActiveFrame => input' = input
  BY DEF decodeActiveFrame
<1> QED BY <1>3, <1>4, <1>5, <1>6 DEF ReadInFrame
-----------------------------------------------------------------------------
(* Between the frames.  The decoder has the predictor d before the header  *)
(* of frame f, which is st of the encoder after the first of a packet.     *)
AtLsf(f, st, d, n, x, y) ==
  /\ turn = Turn("lsf", 0, 0) /\ n = Len(results) /\ decoder = DecoderAt(d, y)
  /\ n # 0 => d = st
  /\ Ahead(input, encodeSmplLsf(st, n, f) \o FromCount(f, SmplAdvanceLsfState(st, n, f.stage1), x))

(* With that, both find the same: is the class that of the frame before,   *)
(* and which table is for it?                                              *)
LEMMA Matches ==
  ASSUME NEW st, NEW d, NEW n, NEW stage1, n # 0 => d = st, NEW x, NEW y, y = DecoderAt(d, x)
  PROVE  Match(y, n, stage1) = Match(st, n, stage1) /\ Selector(y, n) = Selector(st, n)
<1>1. y.stage1 = d.stage1
  BY DecoderFields
<1>2. CASE n = 0
  BY <1>2 DEF Match, Selector
<1>3. CASE n # 0
  <2>1. y.stage1 = st.stage1
    BY <1>1, <1>3
  <2> QED BY <2>1, Zenon DEF Match, Selector
<1> QED BY <1>2, <1>3

(* The decoder's predictor after the header.                               *)
Advance(d, stage1) ==
  [d EXCEPT !.stage1 = stage1, !.gain = -1, !.filt = -1, !.lag = -1, !.frac = -1]

LEMMA Advanced ==
  ASSUME NEW st, NEW d, NEW n, NEW stage1, NEW y, n # 0 => d = st
  PROVE  DecoderAt(SmplAdvanceLsfState(st, n, stage1), y)
           = IF Match(st, n, stage1) THEN DecoderAt(d, y) ELSE Advance(DecoderAt(d, y), stage1)
<1>1. CASE Match(st, n, stage1)
  BY <1>1 DEF Match, SmplAdvanceLsfState
<1>2. CASE ~Match(st, n, stage1)
  <2> DEFINE l == DecoderAt(SmplAdvanceLsfState(st, n, stage1), y)
             r == Advance(DecoderAt(d, y), stage1)
             S == {"stage1", "gain", "filt", "lag", "frac", "nlsf"}
  <2>1. /\ DOMAIN l = S /\ DOMAIN r = S
        /\ l.stage1 = r.stage1 /\ l.gain = r.gain /\ l.filt = r.filt /\ l.lag = r.lag
        /\ l.frac = r.frac /\ l.nlsf = r.nlsf
    BY <1>2 DEF DecoderAt, Advance, SmplAdvanceLsfState
  <2>2. l = [z \in DOMAIN l |-> l[z]] /\ r = [z \in DOMAIN r |-> r[z]]
    BY DEF DecoderAt, Advance
  <2> HIDE DEF l, r
  <2>3. [z \in S |-> l[z]] = [z \in S |-> r[z]]
    BY <2>1
  <2>4. l = r
    BY <2>1, <2>2, <2>3, Zenon
  <2> QED BY <1>2, <2>4 DEF l, r
<1> QED BY <1>1, <1>2

(* From the header to the number of pulses.                                *)
LEMMA LsfStep ==
  ASSUME NEW CONSTANT f, WellFound(f), NEW CONSTANT st, NEW CONSTANT d, NEW CONSTANT n,
         NEW CONSTANT x, IsSeq(x), NEW CONSTANT y, AtLsf(f, st, d, n, x, y), DecodeSmplLsf
  PROVE  AtCount(f, SmplAdvanceLsfState(st, n, f.stage1), x, y)'
<1> PICK s : s = SmplAdvanceLsfState(st, n, f.stage1)
  OBVIOUS
<1> PICK w : w = FromCount(f, s, x)
  OBVIOUS
<1>1. Match(st, n, f.stage1) \in BOOLEAN /\ (f.stage1 # 0) \in BOOLEAN
  BY Zenon DEF Match
<1>2. PICK m \in BOOLEAN : m = Match(st, n, f.stage1)
  BY <1>1, Zenon
<1>3. PICK b \in BOOLEAN : b = (f.stage1 # 0)
  BY <1>1, Zenon
<1> PICK t1 : t1 = <<"stage1", Selector(st, n)>>
  OBVIOUS
<1> PICK t2 : t2 = <<"grid", m, b>>
  OBVIOUS
<1> PICK t3 : t3 = <<"stage2", f.stage1, f.grid>>
  OBVIOUS
<1> PICK t4 : t4 = <<"extra">>
  OBVIOUS
<1>4. PICK a : a = <<Symbol(t1, f.stage1), Symbol(t2, f.grid), Symbol(t3, f.residual), Symbol(t4, f.extra)>>
  OBVIOUS
<1>5. encodeSmplLsf(st, n, f) = a
  BY <1>2, <1>3, <1>4, Zenon DEF encodeSmplLsf
<1>6. /\ IsSeq(a) /\ Len(a) = 4 /\ a[1] = Symbol(t1, f.stage1) /\ a[2] = Symbol(t2, f.grid)
      /\ a[3] = Symbol(t3, f.residual) /\ a[4] = Symbol(t4, f.extra)
  BY <1>4, Four
<1>7. IsSeq(w) /\ Ahead(input, a \o w)
  BY <1>5, FromSeq, Zenon DEF AtLsf
<1>8. Coming(1, t1) /\ Got(1) = f.stage1 /\ Coming(2, t2) /\ Got(2) = f.grid
  <2>1. 1 \in 1 .. Len(a) /\ 2 \in 1 .. Len(a)
    BY <1>6
  <2> QED BY <1>6, <1>7, <2>1, NextIs
<1>9. Coming(3, t3) /\ Got(3) = f.residual /\ Coming(4, t4) /\ Got(4) = f.extra
  <2>1. 3 \in 1 .. Len(a) /\ 4 \in 1 .. Len(a)
    BY <1>6
  <2> QED BY <1>6, <1>7, <2>1, NextIs
<1>10. decoder = DecoderAt(d, y) /\ n = Len(results) /\ (n # 0 => d = st)
  BY DEF AtLsf
<1>11. /\ Match(decoder, n, f.stage1) = Match(st, n, f.stage1)
       /\ Selector(decoder, n) = Selector(st, n)
  <2>1. n # 0 => d = st
    BY <1>10
  <2>2. Match(DecoderAt(d, y), n, f.stage1) = Match(st, n, f.stage1)
    BY <2>1, Matches
  <2>3. Selector(DecoderAt(d, y), n) = Selector(st, n)
    BY <2>1, Matches
  <2> QED BY <1>10, <2>2, <2>3, Zenon
<1>12. Match(decoder, Len(results), Got(1)) = m /\ (Got(1) # 0) = b
       /\ Selector(decoder, Len(results)) = Selector(st, n)
  BY <1>2, <1>3, <1>8, <1>10, <1>11, Zenon
<1>13. /\ Coming(1, <<"stage1", Selector(decoder, Len(results))>>)
       /\ Coming(2, <<"grid", Match(decoder, Len(results), Got(1)), Got(1) # 0>>)
       /\ Coming(3, <<"stage2", Got(1), Got(2)>>) /\ Coming(4, <<"extra">>)
  BY <1>8, <1>9, <1>12, Zenon
<1>14. /\ Take(4) /\ GoTo("count") /\ list' = << >>
       /\ frame' = [Blank EXCEPT !.stage1 = Got(1), !.grid = Got(2), !.residual = Got(3), !.extra = Got(4)]
       /\ decoder' = IF Match(decoder, Len(results), Got(1)) THEN decoder ELSE Advance(decoder, Got(1))
  BY <1>13, Zenon DEF DecodeSmplLsf, Advance, Match, Selector
<1>15. Ahead(input', w)
  BY <1>6, <1>7, <1>14, Took
<1>16. frame' = HeaderRead(f)
  BY <1>8, <1>9, <1>14 DEF HeaderRead
<1>17. decoder' = DecoderAt(s, y)
  <2>1. decoder' = IF Match(st, n, f.stage1) THEN DecoderAt(d, y) ELSE Advance(DecoderAt(d, y), f.stage1)
    BY <1>8, <1>10, <1>11, <1>14, Zenon
  <2>2. n # 0 => d = st
    BY <1>10
  <2>3. DecoderAt(SmplAdvanceLsfState(st, n, f.stage1), y)
          = IF Match(st, n, f.stage1) THEN DecoderAt(d, y) ELSE Advance(DecoderAt(d, y), f.stage1)
    BY <2>2, Advanced
  <2> QED BY <2>1, <2>3, Zenon
<1>18. turn' = Turn("count", 0, 0) /\ list' = << >>
  BY <1>14, TurnFacts DEF GoTo
<1> QED BY <1>15, <1>16, <1>17, <1>18 DEF AtCount

(* The end of a frame: what is then kept of it, and its NLSF.              *)
Kept(f, nlsf) == [frame |-> [WholeRead(f) EXCEPT !.nlsf = nlsf], list |-> ListRead(f.pulses)]

(* From the end of a frame to the next.                                    *)
LEMMA NlsfStep ==
  ASSUME NEW CONSTANT f, WellFound(f), NEW CONSTANT s, NEW CONSTANT x, NEW CONSTANT y,
         NEW CONSTANT z, z = Reconstruct(f.stage1, f.grid, f.residual, y),
         AtNlsf(f, s, x, y), decodeActiveFrame
  PROVE  /\ turn' = Turn("lsf", 0, 0) /\ decoder' = DecoderAt(EndState(s, f), z)
         /\ results' = Append(results, Kept(f, z)) /\ Ahead(input', x)
<1>1. SameHeader(frame, f)
  BY LagsFields, Residual4Fields DEF AtNlsf, WholeRead, GainParts
<1>2. decoder = DecoderAt(EndState(s, f), y) /\ decoder.nlsf = y
  BY DecoderFields DEF AtNlsf
<1>3. Reconstruct(frame.stage1, frame.grid, frame.residual, decoder.nlsf) = z
  BY <1>1, <1>2 DEF SameHeader
<1>4. /\ decoder' = [decoder EXCEPT !.nlsf = z] /\ GoTo("lsf") /\ input' = input
      /\ results' = Append(results, [frame |-> [frame EXCEPT !.nlsf = z], list |-> list])
  BY <1>3, Zenon DEF decodeActiveFrame
<1>5. turn' = Turn("lsf", 0, 0)
  BY <1>4, TurnFacts DEF GoTo
<1>6. [DecoderAt(EndState(s, f), y) EXCEPT !.nlsf = z] = DecoderAt(EndState(s, f), z)
  BY DEF DecoderAt
<1>7. decoder' = DecoderAt(EndState(s, f), z)
  BY <1>2, <1>4, <1>6, Zenon
<1>8. results' = Append(results, Kept(f, z))
  BY <1>4, Zenon DEF AtNlsf, Kept
<1>9. Ahead(input', x)
  BY <1>4 DEF AtNlsf
<1> QED BY <1>5, <1>7, <1>8, <1>9

(* The pulses that were read, at their positions, are the excitation.      *)
LEMMA Scattered ==
  ASSUME NEW p \in [Positions -> Int]
  PROVE  Scatter(ListRead(p)) = p
<1> PICK u : u = Before(Support(p))
  OBVIOUS
<1> PICK m \in Nat : m = Total(Support(p))
  BY PulseFacts
<1> PICK l : l = ListRead(p)
  OBVIOUS
<1>1. Len(l) = m /\ \A j \in 1 .. m : l[j].pos = Pulse(p, j) /\ l[j].mag = p[Pulse(p, j)]
  <2>1. l = [j \in 1 .. m |->
              [pos |-> Pulse(p, j), mag |-> IF j <= m THEN p[Pulse(p, j)] ELSE Abs(p[Pulse(p, j)])]]
    BY DEF ListRead, SignsAfter
  <2>2. \A j \in 1 .. m : l[j].pos = Pulse(p, j) /\ l[j].mag = p[Pulse(p, j)]
    BY <2>1
  <2>3. l \in [1 .. m -> {l[j] : j \in 1 .. m}]
    BY <2>1
  <2>4. Len(l) = m
    BY <2>3, FunctionSeq
  <2> QED BY <2>2, <2>4
<1>2. /\ \A j \in 1 .. m : Pulse(p, j) \in Positions /\ p[Pulse(p, j)] # 0 /\ u[Pulse(p, j) + 1] = j
      /\ \A q \in Positions : p[q] # 0 => u[q + 1] \in 1 .. m /\ Pulse(p, u[q + 1]) = q
  BY PulseFacts
<1>3. ASSUME NEW q \in Positions PROVE Scatter(l)[q] = p[q]
  <2>1. CASE p[q] # 0
    <3>1. PICK j \in 1 .. m : j = u[q + 1] /\ Pulse(p, j) = q
      BY <1>2, <2>1
    <3>2. \A i \in 1 .. Len(l) : l[i].pos = q <=> i = j
      BY <1>1, <1>2, <3>1
    <3>3. (CHOOSE i \in 1 .. Len(l) : l[i].pos = q) = j
      BY <1>1, <3>1, <3>2
    <3>4. l[j].mag = p[q]
      BY <1>1, <3>1
    <3>5. \E i \in 1 .. Len(l) : l[i].pos = q
      BY <1>1, <3>1, <3>2
    <3> QED BY <3>3, <3>4, <3>5 DEF Scatter
  <2>2. CASE p[q] = 0
    <3>1. ~\E i \in 1 .. Len(l) : l[i].pos = q
      BY <1>1, <1>2, <2>2
    <3> QED BY <2>2, <3>1 DEF Scatter
  <2> QED BY <2>1, <2>2
<1>4. Scatter(l) \in [Positions -> Int]
  <2>1. DOMAIN Scatter(l) = Positions /\ Scatter(l) = [q \in Positions |-> Scatter(l)[q]]
    BY DEF Scatter
  <2> QED BY <1>3, <2>1
<1> QED BY <1>3, <1>4
-----------------------------------------------------------------------------
(* The analysis and the encoder, frame after frame.                        *)
LEMMA Appended ==
  ASSUME NEW ps, IsSeq(ps), NEW f
  PROVE  /\ IsSeq(Append(ps, f)) /\ Len(Append(ps, f)) = Len(ps) + 1
         /\ \A i \in 1 .. Len(ps) : Append(ps, f)[i] = ps[i]
         /\ Append(ps, f)[Len(ps) + 1] = f
<1> DEFINE T == {ps[j] : j \in DOMAIN ps} \cup {f}
<1>1. ps \in Seq({ps[j] : j \in DOMAIN ps}) /\ DOMAIN ps = 1 .. Len(ps) /\ Len(ps) \in Nat
  BY SeqFacts DEF IsSeq
<1>2. ps \in Seq(T) /\ f \in T
  <2>1. \A j \in 1 .. Len(ps) : ps[j] \in T
    BY <1>1
  <2> QED BY <1>1, <2>1
<1> HIDE DEF T
<1>3. /\ Append(ps, f) \in Seq(T) /\ Len(Append(ps, f)) = Len(ps) + 1
      /\ \A i \in 1 .. Len(ps) : Append(ps, f)[i] = ps[i]
      /\ Append(ps, f)[Len(ps) + 1] = f
  BY <1>1, <1>2
<1> QED BY <1>3, ASeq

(* The predictor of the encoder after each frame, and what it wrote.       *)
After1(ps) == FrameCoded(FreshState, 0, ps[1])
After2(ps) == FrameCoded(After1(ps), 1, ps[2])
After3(ps) == FrameCoded(After2(ps), 2, ps[3])
After(ps, i) ==
  IF i = 0 THEN FreshState ELSE IF i = 1 THEN After1(ps) ELSE IF i = 2 THEN After2(ps) ELSE After3(ps)
Written(ps, i) == FrameSymbols(After(ps, i - 1), i - 1, ps[i])
Body1(ps) == << >> \o Written(ps, 1)
Body2(ps) == Body1(ps) \o Written(ps, 2)
Body3(ps) == Body2(ps) \o Written(ps, 3)
Body(ps, n) == IF n = 0 THEN << >> ELSE IF n = 1 THEN Body1(ps) ELSE IF n = 2 THEN Body2(ps) ELSE Body3(ps)

(* The same, as the decoder reads it: what is left from frame i on.        *)
Rest3(ps) == Written(ps, 3) \o << >>
Rest2(ps) == Written(ps, 2) \o Rest3(ps)
Rest1(ps) == Written(ps, 1) \o Rest2(ps)
RestFrom(ps, i) ==
  IF i = 1 THEN Rest1(ps) ELSE IF i = 2 THEN Rest2(ps) ELSE IF i = 3 THEN Rest3(ps) ELSE << >>

(* The predictor once the header of frame i was coded, and the NLSF of the *)
(* frame before it, which no first frame is relative to.                   *)
Entered(ps, i) == SmplAdvanceLsfState(After(ps, i - 1), i - 1, ps[i].stage1)
Earlier(ps, i) == IF i = 1 THEN <<"before">> ELSE ps[i - 1].nlsf

(* One more frame f.                                                       *)
Extended(ps, n, f, qs) ==
  /\ \A i \in 0 .. n : After(qs, i) = After(ps, i)
  /\ \A i \in 1 .. n : Written(qs, i) = Written(ps, i) /\ Earlier(qs, i) = Earlier(ps, i)
  /\ After(qs, n + 1) = FrameCoded(After(ps, n), n, f)
  /\ Written(qs, n + 1) = FrameSymbols(After(ps, n), n, f)
  /\ Earlier(qs, n + 1) = IF n = 0 THEN <<"before">> ELSE ps[n].nlsf
  /\ Body(qs, n + 1) = Body(ps, n) \o Written(qs, n + 1)

(* What was written before f stays, and f is appended to it.               *)
LEMMA AppendAfter ==
  ASSUME NEW ps, IsSeq(ps), Len(ps) < 3, NEW f
  PROVE  Extended(ps, Len(ps), f, Append(ps, f))
<1> PICK n : n = Len(ps)
  OBVIOUS
<1> PICK qs : qs = Append(ps, f)
  OBVIOUS
<1>1. n \in Nat /\ n < 3 /\ qs[n + 1] = f /\ \A i \in 1 .. n : qs[i] = ps[i]
  BY Appended, SeqFacts
<1> SUFFICES /\ \A i \in 0 .. n : After(qs, i) = After(ps, i)
             /\ \A i \in 1 .. n : Written(qs, i) = Written(ps, i) /\ Earlier(qs, i) = Earlier(ps, i)
             /\ After(qs, n + 1) = FrameCoded(After(ps, n), n, f)
             /\ Written(qs, n + 1) = FrameSymbols(After(ps, n), n, f)
             /\ Earlier(qs, n + 1) = IF n = 0 THEN <<"before">> ELSE ps[n].nlsf
             /\ Body(qs, n + 1) = Body(ps, n) \o Written(qs, n + 1)
  BY DEF Extended
<1>2. CASE n = 0
  BY <1>1, <1>2 DEF After, After1, Written, Earlier, Body, Body1
<1>3. CASE n = 1
  <2>1. qs[1] = ps[1] /\ qs[2] = f
    <3>1. 1 \in 1 .. n /\ n + 1 = 2
      BY <1>3
    <3> QED BY <1>1, <3>1
  <2>2. After1(qs) = After1(ps)
    BY <2>1 DEF After1
  <2>3. Written(qs, 1) = Written(ps, 1)
    BY <2>1 DEF Written, After
  <2>4. Body1(qs) = Body1(ps)
    BY <2>3 DEF Body1
  <2>5. After(qs, 0) = After(ps, 0) /\ After(qs, 1) = After(ps, 1)
    BY <2>2 DEF After
  <2>6. After(qs, 2) = FrameCoded(After(ps, 1), 1, f)
    BY <2>1, <2>2 DEF After, After2
  <2>7. Written(qs, 2) = FrameSymbols(After(ps, 1), 1, f)
    BY <2>1, <2>5 DEF Written
  <2>8. Earlier(qs, 1) = Earlier(ps, 1) /\ Earlier(qs, 2) = ps[1].nlsf
    BY <2>1 DEF Earlier
  <2>9. Body(qs, 2) = Body(ps, 1) \o Written(qs, 2)
    BY <2>4 DEF Body, Body2
  <2>10. 0 .. n = {0, 1} /\ 1 .. n = {1} /\ n + 1 = 2
    BY <1>3
  <2> QED BY <1>3, <2>3, <2>5, <2>6, <2>7, <2>8, <2>9, <2>10
<1>4. CASE n = 2
  <2>1. qs[1] = ps[1] /\ qs[2] = ps[2] /\ qs[3] = f
    <3>1. 1 \in 1 .. n /\ 2 \in 1 .. n /\ n + 1 = 3
      BY <1>4
    <3> QED BY <1>1, <3>1
  <2>2. After1(qs) = After1(ps)
    BY <2>1 DEF After1
  <2>3. After2(qs) = After2(ps)
    BY <2>1, <2>2 DEF After2
  <2>4. Written(qs, 1) = Written(ps, 1) /\ Written(qs, 2) = Written(ps, 2)
    BY <2>1, <2>2 DEF Written, After
  <2>5. Body2(qs) = Body2(ps)
    BY <2>4 DEF Body1, Body2
  <2>6. After(qs, 0) = After(ps, 0) /\ After(qs, 1) = After(ps, 1) /\ After(qs, 2) = After(ps, 2)
    BY <2>2, <2>3 DEF After
  <2>7. After(qs, 3) = FrameCoded(After(ps, 2), 2, f)
    BY <2>1, <2>3 DEF After, After3
  <2>8. Written(qs, 3) = FrameSymbols(After(ps, 2), 2, f)
    BY <2>1, <2>6 DEF Written
  <2>9. /\ Earlier(qs, 1) = Earlier(ps, 1) /\ Earlier(qs, 2) = Earlier(ps, 2)
        /\ Earlier(qs, 3) = ps[2].nlsf
    <3>1. Earlier(qs, 1) = Earlier(ps, 1)
      BY DEF Earlier
    <3>2. Earlier(qs, 2) = qs[1].nlsf /\ Earlier(ps, 2) = ps[1].nlsf
      BY DEF Earlier
    <3>3. Earlier(qs, 3) = qs[2].nlsf
      BY DEF Earlier
    <3> QED BY <2>1, <3>1, <3>2, <3>3
  <2>10. Body(qs, 3) = Body(ps, 2) \o Written(qs, 3)
    BY <2>5 DEF Body, Body3
  <2>11. 0 .. n = {0, 1, 2} /\ 1 .. n = {1, 2} /\ n + 1 = 3
    BY <1>4
  <2> QED BY <1>4, <2>4, <2>6, <2>7, <2>8, <2>9, <2>10, <2>11
<1> QED BY <1>1, <1>2, <1>3, <1>4

(* The predictors keep their types.                                        *)
LEMMA AdvanceIs ==
  ASSUME NEW st \in Predictors, NEW n, NEW stage1 \in {0, 1}
  PROVE  SmplAdvanceLsfState(st, n, stage1) \in Predictors
BY DEF SmplAdvanceLsfState, Predictors

LEMMA LagsAfter ==
  ASSUME NEW st \in Predictors, NEW f, WellFound(f)
  PROVE  /\ smplLagsPredictorAfter(st, f) \in Predictors
         /\ smplLagsPredictorAfter(st, f) = LagState(st, f, Len(f.contour))
<1>1. Len(f.contour) \in 1 .. Len(f.contour) /\ Len(f.contour) # 0
  BY DEF WellFound
<1>2. smplLagsPredictorAfter(st, f) = LagState(st, f, Len(f.contour))
  BY <1>1 DEF smplLagsPredictorAfter, LagState
<1> QED BY <1>1, <1>2, LagStateIs

LEMMA CodedIs ==
  ASSUME NEW st \in Predictors, NEW n, NEW f, WellFound(f), NEW s, s = SmplAdvanceLsfState(st, n, f.stage1)
  PROVE  /\ s \in Predictors /\ FrameCoded(st, n, f) \in Predictors
         /\ EndState(s, f) = FrameCoded(st, n, f)
<1>1. f.stage1 \in {0, 1}
  BY DEF WellFound
<1>2. s \in Predictors
  BY <1>1, AdvanceIs
<1>3. smplLagsPredictorAfter(GainsCoded(s, f), f) \in Predictors
  BY <1>2, GainStates, LagsAfter
<1> QED BY <1>2, <1>3 DEF FrameCoded, EndState

LEMMA FreshIs == FreshState \in Predictors
BY DEF FreshState, Predictors

LEMMA AfterIs ==
  ASSUME NEW ps, NEW n \in 0 .. 3, \A i \in 1 .. n : WellFound(ps[i])
  PROVE  After(ps, n) \in Predictors
<1>1. CASE n = 0
  BY <1>1, FreshIs DEF After
<1>2. n > 0 => After1(ps) \in Predictors
  BY FreshIs, CodedIs DEF After1
<1>3. n > 1 => After2(ps) \in Predictors
  BY <1>2, CodedIs DEF After2
<1>4. n > 2 => After3(ps) \in Predictors
  BY <1>3, CodedIs DEF After3
<1> QED BY <1>1, <1>2, <1>3, <1>4 DEF After

(* What the mirror replays is what was coded: the last gain, the filter of *)
(* the last subframe with pulses, and the last lag.                        *)
LEMMA Replayed ==
  ASSUME NEW st \in Predictors, NEW f, WellFound(f)
  PROVE  smplReplayPitchState(st, f) = smplLagsPredictorAfter(GainsCoded(st, f), f)
<1> DEFINE used == {sf \in Subframes : Count(f.pulses, sf) > 0}
           last == CHOOSE sf \in used : \A z \in used : z <= sf
           r == [st EXCEPT !.gain = f.gain[3], !.filt = IF used = {} THEN @ ELSE f.filt[last]]
           g == GainsCoded(st, f)
           S == {"stage1", "gain", "filt", "blk", "idx"}
<1>1. /\ 0 \in Subframes /\ 1 \in Subframes /\ 2 \in Subframes /\ 3 \in Subframes
      /\ \A sf \in Subframes : sf = 0 \/ sf = 1 \/ sf = 2 \/ sf = 3
  BY SubframesAre
<1>2. /\ GainState(st, f, 0) = st /\ GainState(st, f, 1) = State1(st, f)
      /\ GainState(st, f, 2) = State2(st, f) /\ GainState(st, f, 3) = State3(st, f)
  BY DEF GainState
<1>3. /\ State1(st, f) \in Predictors /\ State2(st, f) \in Predictors /\ State3(st, f) \in Predictors
  BY <1>1, <1>2, GainStates
<1>4. State1(st, f).filt = IF Used(f, 0) THEN f.filt[0] ELSE st.filt
  BY <1>1, GainKeeps DEF State1
<1>5. State2(st, f).filt = IF Used(f, 1) THEN f.filt[1] ELSE State1(st, f).filt
  BY <1>1, <1>3, GainKeeps DEF State2
<1>6. State3(st, f).filt = IF Used(f, 2) THEN f.filt[2] ELSE State2(st, f).filt
  BY <1>1, <1>3, GainKeeps DEF State3
<1>7. /\ g.filt = IF Used(f, 3) THEN f.filt[3] ELSE State3(st, f).filt
      /\ g.gain = f.gain[3]
  <2>1. g = GainCoded(State3(st, f), f, 3)
    BY DEF GainsCoded, State1, State2, State3
  <2>2. PICK s3 \in Predictors : s3 = State3(st, f)
    BY <1>3
  <2>3. /\ GainCoded(s3, f, 3).gain = f.gain[3]
        /\ GainCoded(s3, f, 3).filt = IF Used(f, 3) THEN f.filt[3] ELSE s3.filt
    BY <1>1, GainKeeps
  <2> QED BY <2>1, <2>2, <2>3, Zenon
<1>8. g \in Predictors /\ g.stage1 = st.stage1 /\ g.blk = st.blk /\ g.idx = st.idx
  BY GainStates
<1>9. \A sf \in Subframes : sf \in used <=> Used(f, sf)
  BY DEF Used
<1>10. ASSUME NEW m \in Subframes, m \in used, \A z \in used : z <= m
       PROVE  used # {} /\ last = m
  <2>1. ASSUME NEW z \in used, \A t \in used : t <= z
        PROVE  z = m
    <3>1. z \in Int /\ m \in Int /\ z <= m /\ m <= z
      BY <1>10, <2>1 DEF Subframes
    <3> QED BY <3>1
  <2> HIDE DEF used
  <2>2. last = m
    BY <1>10, <2>1
  <2> QED BY <1>10, <2>2
<1>11. (IF used = {} THEN st.filt ELSE f.filt[last]) = g.filt
  <2>1. CASE Used(f, 3)
    <3>1. 3 \in used /\ \A z \in used : z <= 3
      BY <1>1, <1>9, <2>1
    <3>2. used # {} /\ last = 3
      BY <1>1, <1>10, <3>1
    <3> HIDE DEF used, last, g
    <3> QED BY <1>7, <2>1, <3>2
  <2>2. CASE ~Used(f, 3) /\ Used(f, 2)
    <3>1. 2 \in used /\ \A z \in used : z <= 2
      BY <1>1, <1>9, <2>2
    <3>2. used # {} /\ last = 2
      BY <1>1, <1>10, <3>1
    <3> HIDE DEF used, last, g
    <3> QED BY <1>6, <1>7, <2>2, <3>2
  <2>3. CASE ~Used(f, 3) /\ ~Used(f, 2) /\ Used(f, 1)
    <3>1. 1 \in used /\ \A z \in used : z <= 1
      BY <1>1, <1>9, <2>3
    <3>2. used # {} /\ last = 1
      BY <1>1, <1>10, <3>1
    <3> HIDE DEF used, last, g
    <3> QED BY <1>5, <1>6, <1>7, <2>3, <3>2
  <2>4. CASE ~Used(f, 3) /\ ~Used(f, 2) /\ ~Used(f, 1) /\ Used(f, 0)
    <3>1. 0 \in used /\ \A z \in used : z <= 0
      BY <1>1, <1>9, <2>4
    <3>2. used # {} /\ last = 0
      BY <1>1, <1>10, <3>1
    <3> HIDE DEF used, last, g
    <3> QED BY <1>4, <1>5, <1>6, <1>7, <2>4, <3>2
  <2>5. CASE ~Used(f, 3) /\ ~Used(f, 2) /\ ~Used(f, 1) /\ ~Used(f, 0)
    <3>1. used = {}
      BY <1>1, <1>9, <2>5
    <3> HIDE DEF used, last, g
    <3> QED BY <1>4, <1>5, <1>6, <1>7, <2>5, <3>1
  <2> QED BY <2>1, <2>2, <2>3, <2>4, <2>5
<1>12. r = g
  <2> HIDE DEF used, last
  <2>1. DOMAIN st = S /\ DOMAIN g = S /\ g = [z \in DOMAIN g |-> g[z]]
    BY <1>8 DEF Predictors
  <2>2. DOMAIN r = S /\ r = [z \in DOMAIN r |-> r[z]]
    <3>1. PICK fi : fi = IF used = {} THEN st.filt ELSE f.filt[last]
      OBVIOUS
    <3>2. r = [st EXCEPT !.gain = f.gain[3], !.filt = fi]
      BY <3>1, Zenon
    <3> HIDE DEF r
    <3> QED BY <2>1, <3>2
  <2>3. /\ r.stage1 = st.stage1 /\ r.blk = st.blk /\ r.idx = st.idx /\ r.gain = f.gain[3]
        /\ r.filt = IF used = {} THEN st.filt ELSE f.filt[last]
    BY <2>1
  <2> HIDE DEF r, g
  <2>4. /\ r.stage1 = g.stage1 /\ r.blk = g.blk /\ r.idx = g.idx /\ r.gain = g.gain
        /\ r.filt = g.filt
    BY <1>7, <1>8, <1>11, <2>3, Zenon
  <2>5. [z \in S |-> r[z]] = [z \in S |-> g[z]]
    BY <2>4
  <2> QED BY <2>1, <2>2, <2>5, Zenon
<1> QED BY <1>12, Zenon DEF smplReplayPitchState

(* The frames, one after the other, as they are read.                      *)
LEMMA BodyWire ==
  ASSUME NEW ps, \A i \in 1 .. 3 : WellFound(ps[i])
  PROVE  /\ Body(ps, 3) = RestFrom(ps, 1) /\ RestFrom(ps, 4) = << >> /\ Body(ps, 3) # << >>
         /\ \A i \in 1 .. 3 :
              /\ IsSeq(RestFrom(ps, i + 1))
              /\ RestFrom(ps, i)
                   = encodeSmplLsf(After(ps, i - 1), i - 1, ps[i])
                       \o FromCount(ps[i], Entered(ps, i), RestFrom(ps, i + 1))
<1>1. IsSeq(<< >>)
  BY Nothing
<1>2. PICK w1 : w1 = Written(ps, 1)
  OBVIOUS
<1>3. PICK w2 : w2 = Written(ps, 2)
  OBVIOUS
<1>4. PICK w3 : w3 = Written(ps, 3)
  OBVIOUS
<1>5. IsSeq(w1) /\ IsSeq(w2) /\ IsSeq(w3)
  <2>1. ASSUME NEW i \in 1 .. 3 PROVE IsSeq(Written(ps, i))
    BY <1>1, FrameWire DEF Written
  <2> QED BY <1>2, <1>3, <1>4, <2>1
<1>6. Rest3(ps) = w3 /\ Rest2(ps) = w2 \o w3 /\ Rest1(ps) = w1 \o (w2 \o w3)
  <2>1. w3 \o << >> = w3
    BY <1>5, ConcatNothing
  <2>2. Rest3(ps) = w3
    BY <1>4, <2>1, Zenon DEF Rest3
  <2>3. Rest2(ps) = w2 \o w3
    BY <1>3, <2>2, Zenon DEF Rest2
  <2> QED BY <1>2, <2>2, <2>3, Zenon DEF Rest1
<1>7. Body3(ps) = (w1 \o w2) \o w3
  <2>1. << >> \o w1 = w1
    BY <1>5, ConcatNothing
  <2>2. Body1(ps) = w1
    BY <1>2, <2>1, Zenon DEF Body1
  <2>3. Body2(ps) = w1 \o w2
    BY <1>3, <2>2, Zenon DEF Body2
  <2> QED BY <1>4, <2>3, Zenon DEF Body3
<1>8. Body(ps, 3) = RestFrom(ps, 1)
  <2>1. Body(ps, 3) = Body3(ps) /\ RestFrom(ps, 1) = Rest1(ps)
    BY DEF Body, RestFrom
  <2>2. (w1 \o w2) \o w3 = w1 \o (w2 \o w3)
    BY <1>5, Associate
  <2> QED BY <1>6, <1>7, <2>1, <2>2, Zenon
<1>9. /\ RestFrom(ps, 1) = Written(ps, 1) \o RestFrom(ps, 2)
      /\ RestFrom(ps, 2) = Written(ps, 2) \o RestFrom(ps, 3)
      /\ RestFrom(ps, 3) = Written(ps, 3) \o RestFrom(ps, 4)
      /\ RestFrom(ps, 4) = << >>
  <2>1. /\ RestFrom(ps, 1) = Rest1(ps) /\ RestFrom(ps, 2) = Rest2(ps) /\ RestFrom(ps, 3) = Rest3(ps)
        /\ RestFrom(ps, 4) = << >>
    BY DEF RestFrom
  <2> QED BY <2>1, Zenon DEF Rest1, Rest2, Rest3
<1>10. IsSeq(RestFrom(ps, 2)) /\ IsSeq(RestFrom(ps, 3)) /\ IsSeq(RestFrom(ps, 4))
  <2>1. IsSeq(w2 \o w3)
    BY <1>5, Concat
  <2>2. RestFrom(ps, 2) = Rest2(ps) /\ RestFrom(ps, 3) = Rest3(ps)
    BY DEF RestFrom
  <2> QED BY <1>1, <1>5, <1>6, <1>9, <2>1, <2>2, Zenon
<1>11. ASSUME NEW i \in 1 .. 3
       PROVE  /\ IsSeq(RestFrom(ps, i + 1))
              /\ RestFrom(ps, i)
                   = encodeSmplLsf(After(ps, i - 1), i - 1, ps[i])
                       \o FromCount(ps[i], Entered(ps, i), RestFrom(ps, i + 1))
  <2>1. IsSeq(RestFrom(ps, i + 1)) /\ RestFrom(ps, i) = Written(ps, i) \o RestFrom(ps, i + 1)
    <3>1. (i = 1 /\ i + 1 = 2) \/ (i = 2 /\ i + 1 = 3) \/ (i = 3 /\ i + 1 = 4)
      OBVIOUS
    <3> QED BY <1>9, <1>10, <3>1, Zenon
  <2>2. WellFound(ps[i])
    OBVIOUS
  <2>3. OnWire(ps[i], After(ps, i - 1), i - 1, RestFrom(ps, i + 1))
    BY <2>1, <2>2, FrameWire
  <2> QED BY <2>1, <2>3, Zenon DEF OnWire, Written, Entered
<1>12. Body(ps, 3) # << >>
  <2>1. PICK a : a = encodeSmplLsf(After(ps, 0), 0, ps[1])
    OBVIOUS
  <2>2. PICK w : w = FromCount(ps[1], Entered(ps, 1), RestFrom(ps, 2))
    OBVIOUS
  <2>3. RestFrom(ps, 1) = a \o w
    <3>1. 1 \in 1 .. 3 /\ 1 - 1 = 0 /\ 1 + 1 = 2
      OBVIOUS
    <3> QED BY <1>11, <2>1, <2>2, <3>1
  <2>4. IsSeq(a) /\ Len(a) = 4
    BY <2>1, Four DEF encodeSmplLsf
  <2>5. IsSeq(w)
    BY <1>10, <2>2, FromSeq
  <2>6. Len(a \o w) = 4 + Len(w) /\ Len(w) \in Nat
    <3>1. Len(w) \in Nat
      BY <2>5, SeqFacts
    <3>2. Len(a \o w) = Len(a) + Len(w)
      BY <2>4, <2>5, Concat
    <3> QED BY <2>4, <3>1, <3>2
  <2>7. Len(a \o w) # 0
    BY <2>6
  <2> QED BY <1>8, <2>3, <2>7, Nothing
<1> QED BY <1>8, <1>9, <1>11, <1>12
-----------------------------------------------------------------------------
(* The encoder's side, whatever the decoder does: the predictors and the   *)
(* body are those of the frames so far, and each frame is relative to the  *)
(* one before it.                                                          *)
EncoderInv ==
  /\ IsSeq(params) /\ Len(params) <= 3
  /\ \A i \in 1 .. Len(params) :
       /\ WellFound(params[i])
       /\ params[i].nlsf
            = Reconstruct(params[i].stage1, params[i].grid, params[i].residual, Earlier(params, i))
  /\ Len(params) > 0 => history.nlsf = params[Len(params)].nlsf
  /\ sender = After(params, Len(params)) /\ mirror = sender
  /\ body = Body(params, Len(params))

(* The decoder's side: it waits for the body, with what an earlier packet  *)
(* left; or it is at a place of the body, between the frames or in one,    *)
(* with the encoder's predictor of that place, and the frames before were  *)
(* read as they were given.                                                *)
Waiting ==
  /\ input = [body |-> << >>, at |-> 0, ok |-> TRUE] /\ turn = NoTurn /\ results = << >>
  /\ decoder \in {Leftover(k) : k \in {-1, 1}}
Before1(k) == [stage1 |-> 1, gain |-> k, filt |-> k, blk |-> k, idx |-> k]
Held(ps, i) == IF i = 1 THEN {Before1(k) : k \in {-1, 1}} ELSE {After(ps, i - 1)}
Between(ps, i) ==
  \E d \in Held(ps, i) : AtLsf(ps[i], After(ps, i - 1), d, i - 1, RestFrom(ps, i + 1), Earlier(ps, i))
Within(ps, i) ==
  Len(results) = i - 1 /\ InFrame(ps[i], Entered(ps, i), RestFrom(ps, i + 1), Earlier(ps, i))
Ended == Len(results) = 3 /\ turn = Turn("lsf", 0, 0) /\ Ahead(input, << >>)
Decoding(ps) ==
  /\ Len(ps) = 3 /\ input.body # << >>
  /\ IsSeq(results) /\ Len(results) <= 3
  /\ \A i \in 1 .. Len(results) : results[i] = Kept(ps[i], ps[i].nlsf)
  /\ Ended \/ \E i \in 1 .. 3 : Between(ps, i) \/ Within(ps, i)
DecoderInv == Waiting \/ Decoding(params)

(* What the search finds is what the encoder may be given.                 *)
LEMMA CandidateFound ==
  ASSUME NEW class \in {0, 1}, NEW pulses \in Excitations, NEW c \in Choices,
         \A sf \in Subframes : Count(pulses, sf) <= Granularity[class]
  PROVE  WellFound(smplCandidate(class, pulses, c))
<1>1. pulses \in [Positions -> Int]
  BY SyntaxAssumption
<1>2. /\ c.gain \in [Subframes -> Nat] /\ c.filt \in [Subframes -> Nat]
      /\ c.contour \in Seq(Nat) /\ c.contour # << >> /\ c.lag \in [1 .. Len(c.contour) -> Nat]
  BY SyntaxAssumption
<1> DEFINE f == smplCandidate(class, pulses, c)
<1>3. /\ f.stage1 = class /\ f.pulses = pulses /\ f.gain = c.gain /\ f.filt = c.filt
      /\ f.contour = c.contour /\ f.lag = c.lag
  BY DEF smplCandidate
<1> HIDE DEF f
<1>4. WellFound(f)
  BY <1>1, <1>2, <1>3 DEF WellFound
<1> QED BY <1>4 DEF f

(* The analysis and the encoder go on together.                            *)
LEMMA EncoderStep ==
  ASSUME EncoderInv, NEW CONSTANT class \in {0, 1}, NEW CONSTANT pulses \in Excitations,
         NEW CONSTANT c \in Choices, AnalyzeAndEncode(class, pulses, c)
  PROVE  EncoderInv'
<1> PICK ps : ps = params
  OBVIOUS
<1> PICK n : n = Len(params)
  OBVIOUS
<1> PICK f : f = smplCandidate(class, pulses, c)
  OBVIOUS
<1> PICK qs : qs = Append(ps, f)
  OBVIOUS
<1>1. /\ n < 3 /\ params' = qs /\ body' = body \o FrameSymbols(sender, n, f)
      /\ sender' = FrameCoded(sender, n, f) /\ smplAnalyzeInternal(f)
  BY DEF AnalyzeAndEncode
<1>2. WellFound(f)
  BY CandidateFound DEF AnalyzeAndEncode
<1>3. /\ IsSeq(ps) /\ n = Len(ps) /\ n \in Nat /\ \A i \in 1 .. n : WellFound(ps[i])
  BY SeqFacts DEF EncoderInv
<1>4. IsSeq(qs) /\ Len(qs) = n + 1 /\ qs[n + 1] = f /\ \A i \in 1 .. n : qs[i] = ps[i]
  BY <1>3, Appended
<1>5. After(ps, n) \in Predictors
  BY <1>1, <1>3, AfterIs
<1>6. sender = After(ps, n) /\ mirror = sender /\ body = Body(ps, n)
  BY DEF EncoderInv
<1>7. /\ \A i \in 1 .. n : Earlier(qs, i) = Earlier(ps, i)
      /\ After(qs, n + 1) = FrameCoded(After(ps, n), n, f)
      /\ Written(qs, n + 1) = FrameSymbols(After(ps, n), n, f)
      /\ Earlier(qs, n + 1) = IF n = 0 THEN <<"before">> ELSE ps[n].nlsf
      /\ Body(qs, n + 1) = Body(ps, n) \o Written(qs, n + 1)
  <2>1. Extended(ps, n, f, qs)
    BY <1>1, <1>3, AppendAfter
  <2> QED BY <2>1 DEF Extended
<1>8. sender' = After(qs, n + 1) /\ body' = Body(qs, n + 1)
  BY <1>1, <1>6, <1>7
<1>9. mirror' = sender'
  <2>1. PICK st : st = SmplAdvanceLsfState(After(ps, n), n, f.stage1)
    OBVIOUS
  <2>2. st \in Predictors
    BY <1>2, <1>5, <2>1, CodedIs
  <2>3. mirror' = IF f.stage1 = 1 THEN smplReplayPitchState(st, f) ELSE st
    BY <1>1, <1>6, <2>1 DEF smplAnalyzeInternal
  <2>4. smplReplayPitchState(st, f) = smplLagsPredictorAfter(GainsCoded(st, f), f)
    BY <1>2, <2>2, Replayed
  <2>5. FrameCoded(After(ps, n), n, f)
          = IF f.stage1 = 1 THEN smplLagsPredictorAfter(GainsCoded(st, f), f) ELSE st
    BY <2>1, Zenon DEF FrameCoded
  <2> QED BY <1>1, <1>6, <2>3, <2>4, <2>5, Zenon
<1>10. f.nlsf = Reconstruct(f.stage1, f.grid, f.residual, Earlier(qs, n + 1))
  <2>1. f.nlsf = Reconstruct(f.stage1, f.grid, f.residual, history.nlsf) /\ f.grid = quantize(class, c.grid)
    BY DEF smplCandidate
  <2>2. CASE n = 0
    <3>1. f.grid = 0
      BY <2>1, <2>2 DEF quantize
    <3> QED BY <2>1, <3>1 DEF Reconstruct
  <2>3. CASE n # 0
    <3>1. history.nlsf = ps[n].nlsf
      BY <1>3, <2>3 DEF EncoderInv
    <3> QED BY <1>7, <2>1, <2>3, <3>1
  <2> QED BY <2>2, <2>3
<1>11. history'.nlsf = f.nlsf
  BY <1>1 DEF smplAnalyzeInternal
<1>12. \A i \in 1 .. n + 1 :
         /\ WellFound(qs[i])
         /\ qs[i].nlsf = Reconstruct(qs[i].stage1, qs[i].grid, qs[i].residual, Earlier(qs, i))
  <2>1. ASSUME NEW i \in 1 .. n + 1
        PROVE  /\ WellFound(qs[i])
               /\ qs[i].nlsf = Reconstruct(qs[i].stage1, qs[i].grid, qs[i].residual, Earlier(qs, i))
    <3>1. CASE i = n + 1
      BY <1>2, <1>4, <1>10, <3>1
    <3>2. CASE i # n + 1
      <4>1. i \in 1 .. n
        BY <1>3, <3>2
      <4>2. ps[i].nlsf = Reconstruct(ps[i].stage1, ps[i].grid, ps[i].residual, Earlier(ps, i))
        BY <4>1 DEF EncoderInv
      <4> QED BY <1>3, <1>4, <1>7, <4>1, <4>2
    <3> QED BY <3>1, <3>2
  <2> QED BY <2>1
<1>13. Len(params') = n + 1 /\ n + 1 <= 3
  BY <1>1, <1>3, <1>4
<1>14. params'[n + 1].nlsf = history'.nlsf
  BY <1>1, <1>4, <1>11
<1> QED BY <1>1, <1>4, <1>8, <1>9, <1>12, <1>13, <1>14 DEF EncoderInv

(* What was read of a frame is what the encoder was given.                 *)
Agrees(f, r, l) ==
  /\ r.stage1 = f.stage1 /\ r.grid = f.grid /\ r.residual = f.residual
  /\ r.extra = f.extra /\ r.nlsf = f.nlsf
  /\ Scatter(l) = f.pulses
  /\ \A sf \in Subframes : r.split[sf] = Count(f.pulses, sf)
  /\ f.stage1 = 1 =>
       /\ r.gain = f.gain /\ r.contour = f.contour
       /\ r.filt = [sf \in Subframes |-> IF Count(f.pulses, sf) > 0 THEN f.filt[sf] ELSE -1]
       /\ r.lags = [k \in 1 .. Len(f.contour) |-> Lag(f, k)]
  /\ f.stage1 = 0 =>
       /\ r.main = f.main /\ r.delta = f.delta
       /\ \A sf \in Subframes : Count(f.pulses, sf) > 0 => r.nrg[sf] = f.nrg[sf]

(* What is kept of a frame is as the encoder was given it.                 *)
LEMMA KeptAgrees ==
  ASSUME NEW f, WellFound(f)
  PROVE  Agrees(f, Kept(f, f.nlsf).frame, Kept(f, f.nlsf).list)
<1> PICK r : r = Kept(f, f.nlsf).frame
  OBVIOUS
<1> PICK w : w = WholeRead(f)
  OBVIOUS
<1>1. SameHeader(w, f) /\ w.split = Split(f)
  <2>1. CASE f.stage1 = 1
    <3>1. w = LagsRead(f, Len(f.contour))
      BY <2>1 DEF WholeRead
    <3> QED BY <3>1, LagsFields
  <2>2. CASE f.stage1 # 1
    <3>1. w = Residual4(f)
      BY <2>2 DEF WholeRead
    <3> QED BY <3>1, Residual4Fields DEF GainParts
  <2> QED BY <2>1, <2>2
<1>2. /\ DOMAIN w = Fields /\ w.stage1 = f.stage1 /\ w.grid = f.grid /\ w.residual = f.residual
      /\ w.extra = f.extra
  BY <1>1 DEF SameHeader
<1>3. r = [w EXCEPT !.nlsf = f.nlsf] /\ Kept(f, f.nlsf).list = ListRead(f.pulses)
  BY DEF Kept
<1>4. /\ r.nlsf = f.nlsf /\ r.stage1 = w.stage1 /\ r.grid = w.grid /\ r.residual = w.residual
      /\ r.extra = w.extra /\ r.split = w.split /\ r.gain = w.gain /\ r.filt = w.filt
      /\ r.contour = w.contour /\ r.lags = w.lags /\ r.main = w.main /\ r.delta = w.delta
      /\ r.nrg = w.nrg
  BY <1>2, <1>3 DEF Fields
<1>5. Scatter(Kept(f, f.nlsf).list) = f.pulses
  BY <1>3, Scattered DEF WellFound
<1>6. \A sf \in Subframes : r.split[sf] = Count(f.pulses, sf)
  BY <1>1, <1>4 DEF Split
<1>7. ASSUME f.stage1 = 1
      PROVE  /\ r.gain = f.gain /\ r.contour = f.contour
             /\ r.filt = [sf \in Subframes |-> IF Count(f.pulses, sf) > 0 THEN f.filt[sf] ELSE -1]
             /\ r.lags = [k \in 1 .. Len(f.contour) |-> Lag(f, k)]
  <2>1. w = LagsRead(f, Len(f.contour))
    BY <1>7 DEF WholeRead
  <2>2. w.gain = f.gain /\ w.contour = f.contour /\ w.filt = Filters(f) /\ w.lags = LagsTo(f, Len(f.contour))
    BY <2>1, LagsFields
  <2> QED BY <1>4, <2>2, Zenon DEF Filters, LagsTo, Used
<1>8. ASSUME f.stage1 = 0
      PROVE  /\ r.main = f.main /\ r.delta = f.delta
             /\ \A sf \in Subframes : Count(f.pulses, sf) > 0 => r.nrg[sf] = f.nrg[sf]
  <2>1. w = Residual4(f)
    BY <1>8 DEF WholeRead
  <2> QED BY <1>4, <2>1, Residual4Fields DEF GainParts, Used
<1> QED BY <1>2, <1>4, <1>5, <1>6, <1>7, <1>8, Zenon DEF Agrees

(* Both sides together are more than FramesAgree.                          *)
LEMMA InvAgrees == EncoderInv /\ DecoderInv => FramesAgree
<1> SUFFICES ASSUME EncoderInv, DecoderInv PROVE FramesAgree
  OBVIOUS
<1>1. mirror = sender
  BY DEF EncoderInv
<1>2. CASE Waiting
  <2>1. input.ok /\ Len(results) = 0
    BY <1>2 DEF Waiting
  <2> QED BY <1>1, <2>1 DEF FramesAgree
<1>3. CASE Decoding(params)
  <2>1. DOMAIN input = {"body", "at", "ok"} /\ input.ok = TRUE
    <3>1. ASSUME NEW z, Ahead(input, z) PROVE DOMAIN input = {"body", "at", "ok"} /\ input.ok = TRUE
      BY <3>1 DEF Ahead
    <3>2. CASE Ended
      BY <3>1, <3>2 DEF Ended
    <3>3. ASSUME NEW i \in 1 .. 3, Between(params, i)
          PROVE  DOMAIN input = {"body", "at", "ok"} /\ input.ok = TRUE
      BY <3>1, <3>3 DEF Between, AtLsf
    <3>4. ASSUME NEW i \in 1 .. 3, Within(params, i)
          PROVE  DOMAIN input = {"body", "at", "ok"} /\ input.ok = TRUE
      <4>1. PICK f : f = params[i]
        OBVIOUS
      <4>2. PICK s : s = Entered(params, i)
        OBVIOUS
      <4>3. PICK x : x = RestFrom(params, i + 1)
        OBVIOUS
      <4>4. PICK y : y = Earlier(params, i)
        OBVIOUS
      <4>5. InFrame(f, s, x, y)
        BY <3>4, <4>1, <4>2, <4>3, <4>4 DEF Within
      <4> QED BY <4>5, InFrameReads
    <3> QED BY <1>3, <3>2, <3>3, <3>4 DEF Decoding
  <2>2. Len(results) = 3 => input.at = Len(input.body)
    <3>1. ASSUME Len(results) = 3 PROVE Ended
      <4>1. ASSUME NEW i \in 1 .. 3, Between(params, i) \/ Within(params, i) PROVE FALSE
        <5>1. Len(results) = i - 1
          BY <4>1 DEF Between, Within, AtLsf
        <5> QED BY <3>1, <5>1
      <4> QED BY <1>3, <4>1 DEF Decoding
    <3>2. Ended => input.at = Len(input.body)
      <4>1. ASSUME Ahead(input, << >>) PROVE input.at = Len(input.body)
        BY <4>1 DEF Ahead
      <4> QED BY <4>1 DEF Ended
    <3> QED BY <3>1, <3>2
  <2>3. ASSUME NEW i \in 1 .. Len(results)
        PROVE  results[i] = Kept(params[i], params[i].nlsf) /\ WellFound(params[i])
    <3>1. Len(results) \in Nat /\ Len(results) <= 3 /\ Len(params) = 3
      BY <1>3, SeqFacts DEF Decoding
    <3>2. i \in 1 .. Len(params)
      BY <3>1
    <3> QED BY <1>3, <2>3, <3>2 DEF Decoding, EncoderInv
  <2>4. ASSUME NEW i \in 1 .. Len(results)
        PROVE  Agrees(params[i], results[i].frame, results[i].list)
    <3>1. PICK f : f = params[i]
      OBVIOUS
    <3>2. results[i] = Kept(f, f.nlsf) /\ WellFound(f)
      BY <2>3, <3>1
    <3>3. Agrees(f, Kept(f, f.nlsf).frame, Kept(f, f.nlsf).list)
      BY <3>2, KeptAgrees
    <3> QED BY <3>1, <3>2, <3>3, Zenon
  <2> QED BY <1>1, <2>1, <2>2, <2>4, Zenon DEF FramesAgree, Agrees
<1> QED BY <1>2, <1>3 DEF DecoderInv
LEMMA SyntaxStarts == SyntaxInit => EncoderInv /\ DecoderInv
<1> SUFFICES ASSUME SyntaxInit PROVE EncoderInv /\ DecoderInv
  OBVIOUS
<1>1. params = << >> /\ IsSeq(params) /\ Len(params) = 0
  BY Nothing DEF SyntaxInit
<1>2. sender = After(params, 0) /\ mirror = sender /\ body = Body(params, 0)
  BY DEF SyntaxInit, After, Body
<1>3. EncoderInv
  BY <1>1, <1>2 DEF EncoderInv
<1>4. Waiting
  BY DEF SyntaxInit, Waiting
<1> QED BY <1>3, <1>4 DEF DecoderInv

(* The place before frame i.                                               *)
LsfWire(ps, i) ==
  encodeSmplLsf(After(ps, i - 1), i - 1, ps[i])
    \o FromCount(ps[i], SmplAdvanceLsfState(After(ps, i - 1), i - 1, ps[i].stage1), RestFrom(ps, i + 1))

LEMMA BetweenStart ==
  ASSUME NEW ps, \A i \in 1 .. 3 : WellFound(ps[i]), NEW i \in 1 .. 3, NEW d \in Held(ps, i)
  PROVE  /\ RestFrom(ps, i) = LsfWire(ps, i)
         /\ i - 1 # 0 => d = After(ps, i - 1)
<1>1. i - 1 # 0 => d = After(ps, i - 1)
  BY DEF Held
<1>2. RestFrom(ps, i) = LsfWire(ps, i)
  BY BodyWire DEF Entered, LsfWire
<1> QED BY <1>1, <1>2

(* The body is what the decoder will read.                                 *)
LEMMA SendStep ==
  ASSUME EncoderInv, DecoderInv, SendBody
  PROVE  DecoderInv'
<1> PICK ps : ps = params
  OBVIOUS
<1>1. /\ Len(ps) = 3 /\ input.body = << >> /\ input' = [input EXCEPT !.body = body]
      /\ params' = ps /\ decoder' = decoder /\ turn' = turn /\ results' = results
  BY DEF SendBody
<1>2. Waiting
  BY <1>1 DEF DecoderInv, Decoding
<1>3. body = Body(ps, 3) /\ \A i \in 1 .. 3 : WellFound(ps[i])
  BY <1>1 DEF EncoderInv
<1>4. Body(ps, 3) = RestFrom(ps, 1) /\ Body(ps, 3) # << >> /\ IsSeq(RestFrom(ps, 1))
  <2>1. Body(ps, 3) = RestFrom(ps, 1) /\ Body(ps, 3) # << >> /\ IsSeq(RestFrom(ps, 2))
    <3>1. 1 \in 1 .. 3 /\ 1 + 1 = 2
      OBVIOUS
    <3> QED BY <1>3, <3>1, BodyWire
  <2>2. IsSeq(Written(ps, 1))
    <3>1. 1 \in 1 .. 3
      OBVIOUS
    <3> QED BY <1>3, <3>1, FrameWire, Nothing DEF Written
  <2>3. RestFrom(ps, 1) = Written(ps, 1) \o RestFrom(ps, 2)
    <3>1. RestFrom(ps, 1) = Rest1(ps) /\ RestFrom(ps, 2) = Rest2(ps)
      BY DEF RestFrom
    <3> QED BY <3>1, Zenon DEF Rest1
  <2>4. PICK w : w = Written(ps, 1)
    OBVIOUS
  <2>5. PICK r : r = RestFrom(ps, 2)
    OBVIOUS
  <2>6. IsSeq(w \o r)
    BY <2>1, <2>2, <2>4, <2>5, Concat
  <2> QED BY <2>1, <2>3, <2>4, <2>5, <2>6, Zenon
<1>5. PICK x : x = RestFrom(ps, 1)
  OBVIOUS
<1>6. input' = [body |-> x, at |-> 0, ok |-> TRUE]
  BY <1>1, <1>2, <1>3, <1>4, <1>5 DEF Waiting
<1>7. Ahead(input', RestFrom(ps, 1)) /\ input'.body # << >>
  <2>1. Len(x) \in Nat
    BY <1>4, <1>5, SeqFacts
  <2>2. DOMAIN input' = {"body", "at", "ok"} /\ input'.ok = TRUE /\ input'.at = 0 /\ input'.body = x
    BY <1>6
  <2> QED BY <1>4, <1>5, <2>1, <2>2 DEF Ahead
<1>8. PICK k \in {-1, 1} : decoder = Leftover(k)
  BY <1>2 DEF Waiting
<1>9. Before1(k) \in Held(ps, 1) /\ decoder' = DecoderAt(Before1(k), Earlier(ps, 1))
  BY <1>1, <1>8 DEF Held, Before1, DecoderAt, Earlier, Leftover
<1>10. /\ turn' = Turn("lsf", 0, 0) /\ results' = << >> /\ IsSeq(results') /\ Len(results') = 0
  BY <1>1, <1>2, TurnNone, Nothing DEF Waiting
<1>11. Between(ps, 1)'
  <2>1. 1 \in 1 .. 3 /\ 1 - 1 = 0
    OBVIOUS
  <2>2. PICK d \in Held(ps, 1) : decoder' = DecoderAt(d, Earlier(ps, 1))
    BY <1>9
  <2>3. RestFrom(ps, 1) = LsfWire(ps, 1)
    BY <1>3, <2>1, <2>2, BetweenStart
  <2>4. Ahead(input', LsfWire(ps, 1))
    BY <1>7, <2>3
  <2>5. AtLsf(ps[1], After(ps, 1 - 1), d, 1 - 1, RestFrom(ps, 1 + 1), Earlier(ps, 1))'
    BY <1>10, <2>1, <2>2, <2>4 DEF AtLsf, LsfWire
  <2> QED BY <2>2, <2>5 DEF Between
<1>12. Decoding(ps)'
  BY <1>1, <1>7, <1>10, <1>11 DEF Decoding
<1> QED BY <1>1, <1>12 DEF DecoderInv
(* The next symbols, at each of the places.                                *)
LEMMA LsfPlaced ==
  ASSUME turn.at = "lsf", DecodeNextSymbols
  PROVE  DecodeSmplLsf
BY DEF DecodeNextSymbols, At, DecodeSmplLsf, decodeCount, decodeTotal, decodeSplits, ReadRun, ReadSigns,
       ReadGain, ReadContour, ReadFine, ReadLag, DecodeSmplGains, ReadResidual, decodeActiveFrame

LEMMA FromBetween ==
  ASSUME NEW CONSTANT ps, \A i \in 1 .. 3 : WellFound(ps[i]), NEW CONSTANT i \in 1 .. 3,
         Between(ps, i), DecodeNextSymbols
  PROVE  Within(ps, i)' /\ results' = results /\ input'.body = input.body
<1> PICK f : f = ps[i]
  OBVIOUS
<1> PICK st : st = After(ps, i - 1)
  OBVIOUS
<1> PICK x : x = RestFrom(ps, i + 1)
  OBVIOUS
<1> PICK y : y = Earlier(ps, i)
  OBVIOUS
<1> PICK n : n = i - 1
  OBVIOUS
<1>1. PICK d : AtLsf(f, st, d, n, x, y)
  BY DEF Between
<1>2. WellFound(f) /\ IsSeq(x)
  BY BodyWire
<1>3. DecodeSmplLsf
  <2>1. turn.at = "lsf"
    BY <1>1 DEF AtLsf, Turn
  <2> QED BY <2>1, LsfPlaced
<1>4. AtCount(f, SmplAdvanceLsfState(st, n, f.stage1), x, y)'
  BY <1>1, <1>2, <1>3, LsfStep
<1>5. results' = results /\ input'.body = input.body
  <2>1. DOMAIN input = {"body", "at", "ok"}
    BY <1>1 DEF AtLsf, Ahead
  <2> QED BY <1>3, <2>1, ReadKeeps
<1>6. InFrame(f, SmplAdvanceLsfState(st, n, f.stage1), x, y)'
  BY <1>4 DEF InFrame
<1>7. Len(results') = i - 1
  BY <1>1, <1>5 DEF AtLsf
<1> QED BY <1>5, <1>6, <1>7 DEF Within, Entered

LEMMA AfterEnd ==
  ASSUME NEW ps, \A i \in 1 .. 3 : WellFound(ps[i]), NEW i \in 1 .. 3
  PROVE  /\ Entered(ps, i) \in Predictors
         /\ EndState(Entered(ps, i), ps[i]) = After(ps, i)
<1>1. After(ps, i - 1) \in Predictors
  <2>1. i - 1 \in 0 .. 3 /\ \A j \in 1 .. i - 1 : WellFound(ps[j])
    OBVIOUS
  <2> QED BY <2>1, AfterIs
<1>2. WellFound(ps[i])
  OBVIOUS
<1>3. /\ Entered(ps, i) \in Predictors
      /\ EndState(Entered(ps, i), ps[i]) = FrameCoded(After(ps, i - 1), i - 1, ps[i])
  <2>1. PICK st \in Predictors : st = After(ps, i - 1)
    BY <1>1
  <2>2. PICK n : n = i - 1
    OBVIOUS
  <2>3. PICK f : f = ps[i]
    OBVIOUS
  <2>4. PICK s : s = SmplAdvanceLsfState(st, n, f.stage1)
    OBVIOUS
  <2>5. s \in Predictors /\ EndState(s, f) = FrameCoded(st, n, f)
    BY <1>2, <2>3, <2>4, CodedIs
  <2> QED BY <2>1, <2>2, <2>3, <2>4, <2>5, Zenon DEF Entered
<1>4. After(ps, i) = FrameCoded(After(ps, i - 1), i - 1, ps[i])
  <2>1. /\ After(ps, 0) = FreshState /\ After(ps, 1) = After1(ps) /\ After(ps, 2) = After2(ps)
        /\ After(ps, 3) = After3(ps)
    BY DEF After
  <2>2. (i = 1 /\ i - 1 = 0) \/ (i = 2 /\ i - 1 = 1) \/ (i = 3 /\ i - 1 = 2)
    OBVIOUS
  <2> QED BY <2>1, <2>2, Zenon DEF After1, After2, After3
<1> QED BY <1>3, <1>4

LEMMA WithinReads ==
  ASSUME NEW CONSTANT ps, \A i \in 1 .. 3 : WellFound(ps[i]), NEW CONSTANT i \in 1 .. 3,
         Within(ps, i), ReadInFrame
  PROVE  Within(ps, i)' /\ results' = results /\ input'.body = input.body
<1> PICK f : f = ps[i]
  OBVIOUS
<1> PICK s : s = Entered(ps, i)
  OBVIOUS
<1> PICK x : x = RestFrom(ps, i + 1)
  OBVIOUS
<1> PICK y : y = Earlier(ps, i)
  OBVIOUS
<1>1. InFrame(f, s, x, y) /\ Len(results) = i - 1
  BY DEF Within
<1>2. WellFound(f) /\ IsSeq(x) /\ s \in Predictors
  BY BodyWire, AfterEnd
<1>3. InFrame(f, s, x, y)'
  BY <1>1, <1>2, FrameStep
<1>4. results' = results /\ input'.body = input.body
  BY <1>1, InFrameReads, ReadKeeps
<1> QED BY <1>1, <1>3, <1>4 DEF Within

(* The end of a frame: the place before the next, or the end of the body.  *)
LEMMA WithinEnds ==
  ASSUME NEW CONSTANT ps, \A i \in 1 .. 3 : WellFound(ps[i]), NEW CONSTANT i \in 1 .. 3,
         ps[i].nlsf = Reconstruct(ps[i].stage1, ps[i].grid, ps[i].residual, Earlier(ps, i)),
         IsSeq(results), Within(ps, i), decodeActiveFrame
  PROVE  /\ results' = Append(results, Kept(ps[i], ps[i].nlsf)) /\ input' = input
         /\ i = 3 => Ended'
         /\ i # 3 => Between(ps, i + 1)'
<1> PICK f : f = ps[i]
  OBVIOUS
<1> PICK s : s = Entered(ps, i)
  OBVIOUS
<1> PICK x : x = RestFrom(ps, i + 1)
  OBVIOUS
<1> PICK y : y = Earlier(ps, i)
  OBVIOUS
<1> PICK z : z = f.nlsf
  OBVIOUS
<1>1. AtNlsf(f, s, x, y) /\ Len(results) = i - 1
  <2>1. InFrame(f, s, x, y) /\ Len(results) = i - 1
    BY DEF Within
  <2>2. turn.at = "nlsf"
    BY DEF decodeActiveFrame, At
  <2> QED BY <2>1, <2>2, Places DEF InFrame
<1>2. WellFound(f) /\ z = Reconstruct(f.stage1, f.grid, f.residual, y)
  OBVIOUS
<1>3. /\ turn' = Turn("lsf", 0, 0) /\ decoder' = DecoderAt(EndState(s, f), z)
      /\ results' = Append(results, Kept(f, z)) /\ Ahead(input', x)
  BY <1>1, <1>2, NlsfStep
<1>4. input' = input
  BY DEF decodeActiveFrame
<1>5. Len(results') = i
  BY <1>1, <1>3, Appended
<1>6. i = 3 => Ended'
  <2>1. i = 3 => x = << >>
    BY DEF RestFrom
  <2> QED BY <1>3, <1>5, <2>1 DEF Ended
<1>7. ASSUME i # 3 PROVE Between(ps, i + 1)'
  <2>1. PICK j \in 1 .. 3 : j = i + 1 /\ j - 1 = i /\ j # 1
    BY <1>7
  <2>2. EndState(s, f) = After(ps, i)
    BY AfterEnd
  <2>3. After(ps, i) \in Held(ps, j)
    BY <2>1 DEF Held
  <2>4. Earlier(ps, j) = z
    BY <2>1 DEF Earlier
  <2>5. RestFrom(ps, j) = LsfWire(ps, j)
    BY <2>3, BetweenStart
  <2>6. Ahead(input', LsfWire(ps, j))
    BY <1>3, <2>1, <2>5
  <2>7. Len(results') = j - 1 /\ decoder' = DecoderAt(After(ps, j - 1), Earlier(ps, j))
    BY <1>3, <1>5, <2>1, <2>2, <2>4
  <2>8. AtLsf(ps[j], After(ps, j - 1), After(ps, j - 1), j - 1, RestFrom(ps, j + 1), Earlier(ps, j))'
    BY <1>3, <2>6, <2>7 DEF AtLsf, LsfWire
  <2>9. Between(ps, j)'
    BY <2>1, <2>3, <2>8 DEF Between
  <2> QED BY <2>1, <2>9
<1> QED BY <1>3, <1>4, <1>6, <1>7

(* Inside a frame, the header of the next one is not read.                 *)
LEMMA WithinPlaced ==
  ASSUME NEW CONSTANT ps, NEW CONSTANT i, Within(ps, i), DecodeNextSymbols
  PROVE  ReadInFrame \/ decodeActiveFrame
<1> PICK f : f = ps[i]
  OBVIOUS
<1> PICK s : s = Entered(ps, i)
  OBVIOUS
<1> PICK x : x = RestFrom(ps, i + 1)
  OBVIOUS
<1> PICK y : y = Earlier(ps, i)
  OBVIOUS
<1>1. InFrame(f, s, x, y)
  BY DEF Within
<1>2. turn.at # "lsf"
  BY <1>1, Places DEF InFrame
<1>3. ~DecodeSmplLsf
  BY <1>2 DEF DecodeSmplLsf, At
<1> QED BY <1>3 DEF DecodeNextSymbols, ReadInFrame
(* Every step of the decoder keeps its side of the invariant.              *)
LEMMA DecodeStep ==
  ASSUME EncoderInv, DecoderInv, input.body # << >>, DecodeNextSymbols
  PROVE  DecoderInv'
<1> PICK ps : ps = params
  OBVIOUS
<1>1. Decoding(ps) /\ params' = ps
  <2>1. ~Waiting
    BY DEF Waiting
  <2> QED BY <2>1 DEF DecoderInv, DecodeNextSymbols
<1>2. /\ Len(ps) = 3 /\ IsSeq(results) /\ Len(results) \in Nat /\ Len(results) <= 3
      /\ \A i \in 1 .. Len(results) : results[i] = Kept(ps[i], ps[i].nlsf)
  BY <1>1, SeqFacts DEF Decoding
<1>3. \A i \in 1 .. 3 :
        /\ WellFound(ps[i])
        /\ ps[i].nlsf = Reconstruct(ps[i].stage1, ps[i].grid, ps[i].residual, Earlier(ps, i))
  BY <1>2 DEF EncoderInv
<1>4. ASSUME Ended PROVE FALSE
  <2>1. turn.at = "lsf" /\ Len(results) = 3
    BY <1>4 DEF Ended, Turn
  <2>2. DecodeSmplLsf
    BY <2>1, LsfPlaced
  <2> QED BY <2>1, <2>2 DEF DecodeSmplLsf
<1>5. ASSUME NEW i \in 1 .. 3, Between(ps, i) PROVE Decoding(ps)'
  <2>1. Within(ps, i)' /\ results' = results /\ input'.body = input.body
    BY <1>3, <1>5, FromBetween
  <2> QED BY <1>2, <2>1 DEF Decoding
<1>6. ASSUME NEW i \in 1 .. 3, Within(ps, i) PROVE Decoding(ps)'
  <2>1. CASE ReadInFrame
    <3>1. Within(ps, i)' /\ results' = results /\ input'.body = input.body
      BY <1>3, <1>6, <2>1, WithinReads
    <3> QED BY <1>2, <3>1 DEF Decoding
  <2>2. CASE decodeActiveFrame
    <3>1. /\ results' = Append(results, Kept(ps[i], ps[i].nlsf)) /\ input' = input
          /\ i = 3 => Ended'
          /\ i # 3 => Between(ps, i + 1)'
      BY <1>2, <1>3, <1>6, <2>2, WithinEnds
    <3>2. Len(results) = i - 1
      BY <1>6 DEF Within
    <3>3. /\ IsSeq(results') /\ Len(results') = i /\ results'[i] = Kept(ps[i], ps[i].nlsf)
          /\ \A j \in 1 .. i - 1 : results'[j] = results[j]
      BY <1>2, <3>1, <3>2, Appended
    <3>4. \A j \in 1 .. i : results'[j] = Kept(ps[j], ps[j].nlsf)
      <4>1. ASSUME NEW j \in 1 .. i PROVE results'[j] = Kept(ps[j], ps[j].nlsf)
        <5>1. CASE j = i
          BY <3>3, <5>1
        <5>2. CASE j # i
          <6>1. j \in 1 .. i - 1 /\ j \in 1 .. Len(results)
            BY <3>2, <5>2
          <6> QED BY <1>2, <3>3, <6>1
        <5> QED BY <5>1, <5>2
      <4> QED BY <4>1
    <3>5. Ended' \/ \E j \in 1 .. 3 : Between(ps, j)'
      <4>1. CASE i = 3
        BY <3>1, <4>1
      <4>2. CASE i # 3
        <5>1. i + 1 \in 1 .. 3
          BY <4>2
        <5> QED BY <3>1, <4>2, <5>1
      <4> QED BY <4>1, <4>2
    <3> QED BY <1>2, <3>1, <3>3, <3>4, <3>5 DEF Decoding
  <2> QED BY <1>6, <2>1, <2>2, WithinPlaced
<1>7. Decoding(ps)'
  BY <1>1, <1>4, <1>5, <1>6 DEF Decoding
<1> QED BY <1>1, <1>7 DEF DecoderInv

(* So does every step, for both sides.                                     *)
LEMMA SyntaxStep == EncoderInv /\ DecoderInv /\ [SyntaxNext]_syntaxVars => EncoderInv' /\ DecoderInv'
<1> SUFFICES ASSUME EncoderInv, DecoderInv, [SyntaxNext]_syntaxVars PROVE EncoderInv' /\ DecoderInv'
  OBVIOUS
<1>1. ASSUME NEW class \in {0, 1}, NEW pulses \in Excitations, NEW c \in Choices,
             AnalyzeAndEncode(class, pulses, c)
      PROVE  EncoderInv' /\ DecoderInv'
  <2>1. EncoderInv'
    BY <1>1, EncoderStep
  <2>2. Waiting
    BY <1>1 DEF AnalyzeAndEncode, DecoderInv, Decoding
  <2>3. Waiting'
    BY <1>1, <2>2 DEF AnalyzeAndEncode, Waiting
  <2> QED BY <2>1, <2>3 DEF DecoderInv
<1>2. ASSUME UNCHANGED <<history, mirror, params, sender, body>>
      PROVE  EncoderInv'
  BY <1>2 DEF EncoderInv
<1>3. CASE SendBody
  BY <1>2, <1>3, SendStep DEF SendBody
<1>4. CASE input.body # << >> /\ DecodeNextSymbols
  BY <1>2, <1>4, DecodeStep DEF DecodeNextSymbols
<1>5. CASE UNCHANGED syntaxVars
  <2>1. EncoderInv'
    BY <1>2, <1>5 DEF syntaxVars
  <2>2. CASE Waiting
    <3>1. Waiting'
      BY <1>5, <2>2 DEF syntaxVars, Waiting
    <3> QED BY <2>1, <3>1 DEF DecoderInv
  <2>3. CASE Decoding(params)
    <3>1. PICK ps : ps = params
      OBVIOUS
    <3>2. Decoding(ps) /\ params' = ps
      BY <1>5, <2>3, <3>1 DEF syntaxVars
    <3>3. input' = input /\ decoder' = decoder /\ frame' = frame /\ list' = list /\ turn' = turn /\ results' = results
      BY <1>5 DEF syntaxVars
    <3>4. ASSUME NEW i, Between(ps, i) PROVE Between(ps, i)'
      BY <3>3, <3>4 DEF Between, AtLsf
    <3>5. ASSUME NEW i, Within(ps, i) PROVE Within(ps, i)'
      BY <3>3, <3>5
         DEF Within, InFrame, AtCount, AtTotal, AtHalves, AtRuns, AtSigns, AtGains, AtContour, AtFine, AtLags,
             AtMain, AtResiduals, AtNlsf
    <3>6. Ended => Ended'
      BY <3>3 DEF Ended
    <3>7. Decoding(ps)'
      BY <3>2, <3>3, <3>4, <3>5, <3>6 DEF Decoding
    <3> QED BY <2>1, <3>2, <3>7 DEF DecoderInv
  <2> QED BY <2>2, <2>3 DEF DecoderInv
<1> QED BY <1>1, <1>3, <1>4, <1>5 DEF SyntaxNext

(* Every symbol of a packet is asked for from the table it was coded with, *)
(* all of them are read, and the frames come out as they went in, for any  *)
(* number of samples, pulses, signs, lags and choices of the analysis; and *)
(* the analysis has the encoder's predictors after each frame.             *)
THEOREM FramesStayInStep == SyntaxSpec => []FramesAgree
<1>1. SyntaxInit => EncoderInv /\ DecoderInv
  BY SyntaxStarts
<1>2. EncoderInv /\ DecoderInv /\ [SyntaxNext]_syntaxVars => EncoderInv' /\ DecoderInv'
  BY SyntaxStep
<1>3. EncoderInv /\ DecoderInv => FramesAgree
  BY InvAgrees
<1> QED BY <1>1, <1>2, <1>3, PTL DEF SyntaxSpec
===============================================================================
