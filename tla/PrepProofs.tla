----------------------------- MODULE PrepProofs -----------------------------
(***************************************************************************)
(* The preprocessing for every accepted geometry, size, picture, channel    *)
(* order and kind of downscaling: the byte shuffles take every row apart    *)
(* without loss, either pass of Downscale2x is the rounded triangle filter, *)
(* and together they put every float in its place (InputIsExact).           *)
(*                                                                         *)
(* What SumTo computes is shown by induction over the set of lengths for    *)
(* which it does; the four lists of weights TriangleCoeffs can return are   *)
(* computed once and for all (CoeffsAre).                                   *)
(***************************************************************************)
EXTENDS PrepFrame, WellFoundedInduction, TLAPS

\* Dividing two multiples of a number by that multiple.
LEMMA CancelFactor ==
  ASSUME NEW a \in Nat
  PROVE  (2048 * a) \div 16384 = a \div 8
BY SMTT(30)

\* Away from the borders the weights are 2048, 6144, 6144, 2048: the shifted sum of
\* the multiplications is FastTaps, bit for bit (Stages.cpp:264-266), and it is a
\* byte without clipping.
THEOREM ShortCutIsExact ==
  ASSUME NEW p0 \in Byte, NEW p1 \in Byte, NEW p2 \in Byte, NEW p3 \in Byte
  PROVE  /\ RoundShiftClipU8(2048 * p0 + 6144 * p1 + 6144 * p2 + 2048 * p3)
              = FastTaps(p0, p1, p2, p3)
         /\ FastTaps(p0, p1, p2, p3) \in Byte
<1> DEFINE a == p0 + p3 + 3 * (p1 + p2) + 4
<1>1. a \in 4 .. 2044
  BY DEF Byte
<1>2. 2048 * p0 + 6144 * p1 + 6144 * p2 + 2048 * p3 + 8192 = 2048 * a
  BY DEF Byte
<1>3. (2048 * a) \div 16384 = a \div 8
  <2> HIDE DEF a
  <2>1. a \in Nat
    BY <1>1
  <2> QED BY <2>1, CancelFactor
<1>4. a \div 8 \in Byte
  BY <1>1 DEF Byte
<1> QED BY <1>2, <1>3, <1>4 DEF RoundShiftClipU8, FastTaps, One, Byte

\* At a border the three weights are rounded and the first of the largest takes the
\* error (Stages.cpp:212-224); the result is still the filter [3, 3, 1] / 7 rounded
\* to nearest, for every three bytes.
THEOREM BorderIsExact ==
  ASSUME NEW a \in Byte, NEW b \in Byte, NEW c \in Byte
  PROVE  /\ RoundShiftClipU8(7021 * a + 7022 * b + 2341 * c)
              = (2 * (3 * a + 3 * b + c) + 7) \div 14
         /\ RoundShiftClipU8(2341 * c + 7021 * a + 7022 * b)
              = (2 * (c + 3 * a + 3 * b) + 7) \div 14
<1> DEFINE n == 3 * a + 3 * b + c
           acc == 7021 * a + 7022 * b + 2341 * c
           q == (2 * n + 7) \div 14
<1>1. n \in 0 .. 1785 /\ acc \in Int
  BY DEF Byte
<1>2. q \in Byte /\ 14 * q =< 2 * n + 7 /\ 2 * n + 7 < 14 * q + 14
  BY <1>1 DEF Byte
<1>3. 7 * acc = 16384 * n - 5 * a + 2 * b + 3 * c
  BY DEF Byte
<1>4. 7 * acc >= 16384 * n - 1275 /\ 7 * acc =< 16384 * n + 1275
  BY <1>3, <1>1 DEF Byte
<1>5. 2 * n + 7 >= 14 * q /\ 2 * n + 7 # 14 * q
  BY <1>1, <1>2 DEF Byte
<1>6. n >= 7 * q - 3 /\ n =< 7 * q + 3
  BY <1>1, <1>2, <1>5 DEF Byte
<1>7. 16384 * q =< acc + 8192 /\ acc + 8192 < 16384 * q + 16384
  BY <1>1, <1>2, <1>4, <1>6 DEF Byte
<1>8. (acc + 8192) \div 16384 = q
  BY <1>1, <1>2, <1>7 DEF Byte
<1> HIDE DEF q, acc, n
<1>9. RoundShiftClipU8(acc) = q
  BY <1>2, <1>8 DEF RoundShiftClipU8, One, Byte
<1>10. 2341 * c + 7021 * a + 7022 * b = acc /\ c + 3 * a + 3 * b = n
  BY DEF acc, n, Byte
<1> QED BY <1>9, <1>10 DEF acc, n, q
-----------------------------------------------------------------------------
(* Sums.                                                                    *)

\* A row more than another is RowBytes more bytes.
LEMMA Monotone ==
  ASSUME NEW m \in Nat, NEW n \in Nat, NEW r \in Nat, m =< n
  PROVE  m * r =< n * r
BY SMTT(30)

\* Induction, for a set in place of a predicate.
LEMMA SetInduction ==
  ASSUME NEW S, 0 \in S, \A n \in Nat : n \in S => n + 1 \in S
  PROVE  Nat \subseteq S
<1> DEFINE T == Nat \ S
<1> SUFFICES ASSUME T # {} PROVE FALSE
  OBVIOUS
<1>1. PICK x \in T : \A y \in T : ~ (<<y, x>> \in OpToRel(<, Nat))
  <2>1. T \subseteq Nat
    OBVIOUS
  <2> HIDE DEF T
  <2> QED BY <2>1, NatLessThanWellFounded, WFMin
<1>2. x # 0 /\ x - 1 \in Nat /\ x - 1 < x
  OBVIOUS
<1>3. <<x - 1, x>> \in OpToRel(<, Nat)
  BY <1>2 DEF OpToRel
<1>4. x - 1 \notin T
  BY <1>1, <1>3
<1> QED BY <1>2, <1>4

\* The function SumTo(n, f) is the last value of.
Partial(n, f, s) == s = [k \in 0 .. n |-> IF k = 0 THEN 0 ELSE s[k - 1] + f[k - 1]]

LEMMA PartialExists ==
  ASSUME NEW f, NEW n \in Nat
  PROVE  \E s : Partial(n, f, s)
<1> DEFINE S == {m \in Nat : \E s : Partial(m, f, s)}
<1>1. 0 \in S
  <2>1. Partial(0, f, [k \in 0 .. 0 |-> 0])
    BY DEF Partial
  <2> QED BY <2>1
<1>2. ASSUME NEW m \in Nat, m \in S
      PROVE  m + 1 \in S
  <2>1. PICK s : Partial(m, f, s)
    BY <1>2
  <2> DEFINE t == [k \in 0 .. m + 1 |-> IF k =< m THEN s[k] ELSE s[m] + f[m]]
  <2>2. \A k \in 0 .. m : s[k] = IF k = 0 THEN 0 ELSE s[k - 1] + f[k - 1]
    BY <2>1 DEF Partial
  <2>3. \A k \in 0 .. m + 1 : t[k] = IF k = 0 THEN 0 ELSE t[k - 1] + f[k - 1]
    <3> SUFFICES ASSUME NEW k \in 0 .. m + 1
                 PROVE  t[k] = IF k = 0 THEN 0 ELSE t[k - 1] + f[k - 1]
      OBVIOUS
    <3>1. CASE k = 0
      BY <2>2, <3>1
    <3>2. CASE k \in 1 .. m
      <4>1. t[k] = s[k] /\ t[k - 1] = s[k - 1]
        BY <3>2
      <4> QED BY <2>2, <3>2, <4>1
    <3>3. CASE k = m + 1
      <4>1. t[k] = s[m] + f[m] /\ t[m] = s[m] /\ k - 1 = m /\ k # 0
        BY <3>3
      <4> QED BY <4>1
    <3> QED BY <3>1, <3>2, <3>3
  <2>4. Partial(m + 1, f, t)
    <3>1. t = [k \in 0 .. m + 1 |-> t[k]]
      OBVIOUS
    <3> QED BY <2>3, <3>1 DEF Partial
  <2> QED BY <2>4
<1> HIDE DEF S
<1>3. Nat \subseteq S
  BY <1>1, <1>2, SetInduction
<1> QED BY <1>3 DEF S

LEMMA SumIsPartial ==
  ASSUME NEW f, NEW n \in Nat
  PROVE  \E s : Partial(n, f, s) /\ SumTo(n, f) = s[n]
<1> DEFINE s == CHOOSE s : s = [k \in 0 .. n |-> IF k = 0 THEN 0 ELSE s[k - 1] + f[k - 1]]
<1>1. SumTo(n, f) = s[n]
  BY DEF SumTo
<1>2. Partial(n, f, s)
  BY PartialExists DEF Partial
<1> QED BY <1>1, <1>2

\* Two such functions agree as far as both go.
LEMMA PartialsAgree ==
  ASSUME NEW f, NEW n \in Nat, NEW s, NEW t, Partial(n, f, s), Partial(n + 1, f, t)
  PROVE  t[n] = s[n]
<1> DEFINE S == {m \in Nat : m =< n => t[m] = s[m]}
<1>1. /\ \A k \in 0 .. n : s[k] = IF k = 0 THEN 0 ELSE s[k - 1] + f[k - 1]
      /\ \A k \in 0 .. n + 1 : t[k] = IF k = 0 THEN 0 ELSE t[k - 1] + f[k - 1]
  BY DEF Partial
<1>2. 0 \in S
  BY <1>1
<1>3. ASSUME NEW m \in Nat, m \in S
      PROVE  m + 1 \in S
  <2> SUFFICES ASSUME m + 1 =< n PROVE t[m + 1] = s[m + 1]
    OBVIOUS
  <2>1. /\ m + 1 \in 0 .. n /\ m + 1 \in 0 .. n + 1 /\ m + 1 # 0 /\ (m + 1) - 1 = m
        /\ t[m] = s[m]
    BY <1>3
  <2> QED BY <1>1, <2>1
<1> HIDE DEF S
<1>4. Nat \subseteq S
  BY <1>2, <1>3, SetInduction
<1> QED BY <1>4 DEF S

LEMMA SumStep ==
  ASSUME NEW f
  PROVE  /\ SumTo(0, f) = 0
         /\ \A n \in Nat : SumTo(n + 1, f) = SumTo(n, f) + f[n]
<1>1. SumTo(0, f) = 0
  <2>1. PICK s : Partial(0, f, s) /\ SumTo(0, f) = s[0]
    BY SumIsPartial
  <2> QED BY <2>1 DEF Partial
<1>2. ASSUME NEW n \in Nat
      PROVE  SumTo(n + 1, f) = SumTo(n, f) + f[n]
  <2>1. PICK s : Partial(n, f, s) /\ SumTo(n, f) = s[n]
    BY SumIsPartial
  <2>2. PICK t : Partial(n + 1, f, t) /\ SumTo(n + 1, f) = t[n + 1]
    BY SumIsPartial
  <2>3. t[n + 1] = t[n] + f[n]
    <3>1. \A k \in 0 .. n + 1 : t[k] = IF k = 0 THEN 0 ELSE t[k - 1] + f[k - 1]
      BY <2>2 DEF Partial
    <3>2. n + 1 \in 0 .. n + 1 /\ n + 1 # 0 /\ (n + 1) - 1 = n
      OBVIOUS
    <3> QED BY <3>1, <3>2
  <2> QED BY <2>1, <2>2, <2>3, PartialsAgree
<1> QED BY <1>1, <1>2

\* Samples of weight 0 add nothing.
LEMMA SumSkips ==
  ASSUME NEW f, NEW a \in Nat, NEW b \in Nat, a =< b, SumTo(a, f) \in Int,
         \A k \in a .. b - 1 : f[k] = 0
  PROVE  SumTo(b, f) = SumTo(a, f)
<1> DEFINE S == {m \in Nat : a + m =< b => SumTo(a + m, f) = SumTo(a, f)}
<1>1. 0 \in S
  OBVIOUS
<1>2. ASSUME NEW m \in Nat, m \in S
      PROVE  m + 1 \in S
  <2> SUFFICES ASSUME a + (m + 1) =< b PROVE SumTo(a + (m + 1), f) = SumTo(a, f)
    OBVIOUS
  <2>1. a + (m + 1) = (a + m) + 1 /\ a + m \in Nat /\ a + m \in a .. b - 1 /\ a + m =< b
    OBVIOUS
  <2>2. SumTo(a + m, f) = SumTo(a, f)
    BY <1>2, <2>1
  <2>3. SumTo((a + m) + 1, f) = SumTo(a + m, f) + f[a + m]
    BY <2>1, SumStep
  <2>4. f[a + m] = 0
    BY <2>1
  <2> QED BY <2>1, <2>2, <2>3, <2>4
<1> HIDE DEF S
<1>3. Nat \subseteq S
  BY <1>1, <1>2, SetInduction
<1>4. b - a \in Nat /\ a + (b - a) = b
  OBVIOUS
<1>5. SumTo(a + (b - a), f) = SumTo(a, f)
  BY <1>3, <1>4 DEF S
<1> QED BY <1>4, <1>5
-----------------------------------------------------------------------------
(* The byte shuffles.                                                       *)

\* Byte 3j + c of the 48 is picked from the register it is in, and the masks of the
\* other two registers give 0.
PicksByte(c, r, mask) ==
  \A j \in 0 .. 15 :
    LET at == 3 * j + c - 16 * r
    IN mask[j + 1] = IF at \in 0 .. 15 THEN at ELSE None

LEMMA MasksPick ==
  ASSUME NEW c \in Colour
  PROVE  /\ PicksByte(c, 0, Masks[c + 1][1])
         /\ PicksByte(c, 1, Masks[c + 1][2])
         /\ PicksByte(c, 2, Masks[c + 1][3])
<1> USE DEF PicksByte, None, Masks
<1>1. CASE c = 0
  <2>1. PicksByte(0, 0, Masks[1][1])
    OBVIOUS
  <2>2. PicksByte(0, 1, Masks[1][2])
    OBVIOUS
  <2>3. PicksByte(0, 2, Masks[1][3])
    OBVIOUS
  <2> HIDE DEF PicksByte, Masks
  <2> QED BY <1>1, <2>1, <2>2, <2>3
<1>2. CASE c = 1
  <2>1. PicksByte(1, 0, Masks[2][1])
    OBVIOUS
  <2>2. PicksByte(1, 1, Masks[2][2])
    OBVIOUS
  <2>3. PicksByte(1, 2, Masks[2][3])
    OBVIOUS
  <2> HIDE DEF PicksByte, Masks
  <2> QED BY <1>2, <2>1, <2>2, <2>3
<1>3. CASE c = 2
  <2>1. PicksByte(2, 0, Masks[3][1])
    OBVIOUS
  <2>2. PicksByte(2, 1, Masks[3][2])
    OBVIOUS
  <2>3. PicksByte(2, 2, Masks[3][3])
    OBVIOUS
  <2> HIDE DEF PicksByte, Masks
  <2> QED BY <1>3, <2>1, <2>2, <2>3
<1> HIDE DEF PicksByte, Masks
<1> QED BY <1>1, <1>2, <1>3 DEF Colour

LEMMA DeinterleaveIs ==
  ASSUME NEW row, NEW at \in Nat, NEW c \in Colour, NEW j \in 0 .. 15,
         row[at + 3 * j + c] \in Int
  PROVE  Deinterleave(row, at, c, j) = row[at + 3 * j + c]
<1> DEFINE b == 3 * j + c
           term(r, mask) == Shuffle(row, at, r, mask, j)
<1>1. c \in 0 .. 2 /\ b \in 0 .. 47
  BY DEF Colour
<1>2. ASSUME NEW r \in 0 .. 2, NEW mask, PicksByte(c, r, mask)
      PROVE  term(r, mask) = IF b - 16 * r \in 0 .. 15 THEN row[at + b] ELSE 0
  <2>1. mask[j + 1] = IF b - 16 * r \in 0 .. 15 THEN b - 16 * r ELSE None
    BY <1>1, <1>2 DEF PicksByte
  <2>2. at + 16 * r + (b - 16 * r) = at + b
    BY <1>1
  <2>3. b - 16 * r \in 0 .. 15 => b - 16 * r # None
    BY <1>1 DEF None
  <2> HIDE DEF b
  <2> QED BY <2>1, <2>2, <2>3 DEF Shuffle
<1>3. /\ term(0, Masks[c + 1][1]) = IF b \in 0 .. 15 THEN row[at + b] ELSE 0
      /\ term(1, Masks[c + 1][2]) = IF b \in 16 .. 31 THEN row[at + b] ELSE 0
      /\ term(2, Masks[c + 1][3]) = IF b \in 32 .. 47 THEN row[at + b] ELSE 0
  <2>1. /\ b - 16 * 0 \in 0 .. 15 <=> b \in 0 .. 15
        /\ b - 16 * 1 \in 0 .. 15 <=> b \in 16 .. 31
        /\ b - 16 * 2 \in 0 .. 15 <=> b \in 32 .. 47
    BY <1>1
  <2> HIDE DEF b, term
  <2> QED BY <1>2, <2>1, MasksPick
<1>4. at + b = at + 3 * j + c
  BY <1>1
<1>5. Deinterleave(row, at, c, j)
        = term(0, Masks[c + 1][1]) + term(1, Masks[c + 1][2]) + term(2, Masks[c + 1][3])
  BY DEF Deinterleave
<1> HIDE DEF b, term
<1> QED BY <1>1, <1>3, <1>4, <1>5

\* A row of W pixels is taken apart byte by byte, whatever W: the blocks of 16 and the
\* tail after them meet without a gap or an overlap (Stages.cpp:98-155).
THEOREM PackRowIsExact ==
  ASSUME NEW W \in Nat, NEW row \in [0 .. 3 * W - 1 -> Byte],
         NEW c \in Colour, NEW x \in 0 .. W - 1
  PROVE  PackRow(row, W, c, x) = row[3 * x + c]
<1>1. 3 * x + c \in 0 .. 3 * W - 1 /\ row[3 * x + c] \in Int
  <2>1. 3 * x + c \in 0 .. 3 * W - 1
    BY DEF Colour
  <2> QED BY <2>1 DEF Byte
<1> DEFINE at == 48 * (x \div 16)
           j  == x % 16
<1>2. at + 3 * j + c = 3 * x + c /\ at \in Nat /\ j \in 0 .. 15
  BY DEF Colour
<1> HIDE DEF at, j
<1>3. Deinterleave(row, at, c, j) = row[3 * x + c]
  <2>1. row[at + 3 * j + c] \in Int
    BY <1>1, <1>2
  <2> QED BY <1>2, <2>1, DeinterleaveIs
<1> QED BY <1>3 DEF PackRow, at, j
-----------------------------------------------------------------------------
(* The weights.                                                             *)

\* The first sums, and the sum of samples that are 0 outside four in a row.
LEMMA SumSmall ==
  ASSUME NEW f, f[0] \in Int, f[1] \in Int
  PROVE  /\ SumTo(2, f) = f[0] + f[1]
         /\ f[2] \in Int => SumTo(3, f) = f[0] + f[1] + f[2]
         /\ f[2] \in Int /\ f[3] \in Int => SumTo(4, f) = f[0] + f[1] + f[2] + f[3]
<1>1. /\ SumTo(0, f) = 0
      /\ SumTo(0 + 1, f) = SumTo(0, f) + f[0]
      /\ SumTo(1 + 1, f) = SumTo(1, f) + f[1]
      /\ SumTo(2 + 1, f) = SumTo(2, f) + f[2]
      /\ SumTo(3 + 1, f) = SumTo(3, f) + f[3]
  BY SumStep
<1> QED BY <1>1

LEMMA SumOfFour ==
  ASSUME NEW f, NEW n \in Nat, NEW a \in Nat, a + 4 =< n,
         \A k \in a .. a + 3 : f[k] \in Int,
         \A k \in 0 .. a - 1 : f[k] = 0,
         \A k \in a + 4 .. n - 1 : f[k] = 0
  PROVE  SumTo(n, f) = f[a] + f[a + 1] + f[a + 2] + f[a + 3]
<1>1. SumTo(0, f) = 0
  BY SumStep
<1>2. SumTo(a, f) = 0
  BY <1>1, SumSkips
<1>3. /\ SumTo(a + 1, f) = SumTo(a, f) + f[a]
      /\ SumTo((a + 1) + 1, f) = SumTo(a + 1, f) + f[a + 1]
      /\ SumTo((a + 2) + 1, f) = SumTo(a + 2, f) + f[a + 2]
      /\ SumTo((a + 3) + 1, f) = SumTo(a + 3, f) + f[a + 3]
  BY SumStep
<1>4. (a + 1) + 1 = a + 2 /\ (a + 2) + 1 = a + 3 /\ (a + 3) + 1 = a + 4
  OBVIOUS
<1>5. f[a] \in Int /\ f[a + 1] \in Int /\ f[a + 2] \in Int /\ f[a + 3] \in Int
  OBVIOUS
<1>6. SumTo(a + 4, f) = f[a] + f[a + 1] + f[a + 2] + f[a + 3]
  BY <1>2, <1>3, <1>4, <1>5
<1>7. SumTo(n, f) = SumTo(a + 4, f)
  <2>1. a + 4 \in Nat /\ SumTo(a + 4, f) \in Int
    BY <1>5, <1>6
  <2> QED BY <2>1, SumSkips
<1> QED BY <1>6, <1>7

\* Four samples have a weight, 1, 3, 3 and 1, as far as they exist.
LEMMA QuarterIs ==
  ASSUME NEW o \in Nat, NEW x \in Int
  PROVE  Quarter(o, x) = IF x = 2 * o \/ x = 2 * o + 1 THEN 3
                         ELSE IF x = 2 * o - 1 \/ x = 2 * o + 2 THEN 1
                         ELSE 0
BY DEF Quarter

\* TriangleCoeffs without the position: the weights q of n samples, normalised.
Normalised(n, q) ==
  LET total == SumTo(n, q)
      w     == [t \in 0 .. KSize - 1 |-> (2 * q[t] * One + total) \div (2 * total)]
      isum  == SumTo(n, w)
      imax  == CHOOSE t \in 0 .. n - 1 : /\ \A u \in 0 .. n - 1 : q[u] =< q[t]
                                         /\ \A u \in 0 .. t - 1 : q[u] < q[t]
  IN [w EXCEPT ![imax] = @ + One - isum]

\* Which weight takes the rounding error.
Largest(n, q, t) == /\ t \in 0 .. n - 1
                    /\ \A u \in 0 .. n - 1 : q[u] =< q[t]
                    /\ \A u \in 0 .. t - 1 : q[u] < q[t]

\* w are the n weights q of sum `total`, rounded one by one; they sum up to isum, and
\* sample m takes what is missing.
Rounded(n, q, total, w, isum, m) ==
  /\ n \in 2 .. 4 /\ q \in [0 .. 4 -> 0 .. 3] /\ w \in [0 .. 4 -> Nat]
  /\ SumTo(n, q) = total /\ SumTo(n, w) = isum
  /\ \A t \in 0 .. 4 : w[t] = (2 * q[t] * One + total) \div (2 * total)
  /\ Largest(n, q, m)

LEMMA NormalisedIs ==
  ASSUME NEW n, NEW q, NEW total, NEW w, NEW isum, NEW m, Rounded(n, q, total, w, isum, m)
  PROVE  Normalised(n, q) = [w EXCEPT ![m] = w[m] + One - isum]
<1>0. /\ n \in 2 .. 4 /\ q \in [0 .. 4 -> 0 .. 3] /\ w \in [0 .. 4 -> Nat]
      /\ SumTo(n, q) = total /\ SumTo(n, w) = isum
      /\ \A t \in 0 .. 4 : w[t] = (2 * q[t] * One + total) \div (2 * total)
      /\ Largest(n, q, m)
  BY DEF Rounded
<1>1. w = [t \in 0 .. KSize - 1 |-> (2 * q[t] * One + total) \div (2 * total)]
  BY <1>0 DEF KSize
<1>2. m = CHOOSE t \in 0 .. n - 1 : /\ \A u \in 0 .. n - 1 : q[u] =< q[t]
                                    /\ \A u \in 0 .. t - 1 : q[u] < q[t]
  <2> DEFINE P(t) == /\ \A u \in 0 .. n - 1 : q[u] =< q[t]
                     /\ \A u \in 0 .. t - 1 : q[u] < q[t]
             c == CHOOSE t \in 0 .. n - 1 : P(t)
  <2>1. m \in 0 .. n - 1 /\ P(m)
    BY <1>0 DEF Largest
  <2>2. c \in 0 .. n - 1 /\ P(c)
    <3> HIDE DEF P
    <3> QED BY <2>1
  <2> HIDE DEF c
  <2>3. ~(c < m)
    <3>1. c < m => c \in 0 .. m - 1
      BY <1>0, <2>1, <2>2
    <3>2. c < m => q[c] < q[m] /\ q[m] =< q[c]
      BY <1>0, <2>1, <2>2, <3>1
    <3>3. q[c] \in 0 .. 3 /\ q[m] \in 0 .. 3
      BY <1>0, <2>1, <2>2
    <3> QED BY <3>2, <3>3
  <2>4. ~(m < c)
    <3>1. m < c => m \in 0 .. c - 1
      BY <1>0, <2>1, <2>2
    <3>2. m < c => q[m] < q[c] /\ q[c] =< q[m]
      BY <1>0, <2>1, <2>2, <3>1
    <3>3. q[c] \in 0 .. 3 /\ q[m] \in 0 .. 3
      BY <1>0, <2>1, <2>2
    <3> QED BY <3>2, <3>3
  <2>5. c = m
    BY <1>0, <2>1, <2>2, <2>3, <2>4
  <2> QED BY <2>5 DEF c
<1>3. Normalised(n, q) = [w EXCEPT ![m] = @ + One - isum]
  BY <1>0, <1>1, <1>2 DEF Normalised
<1> QED BY <1>3

Weights(a, b, c, d) == [t \in 0 .. 4 |-> CASE t = 0 -> a [] t = 1 -> b [] t = 2 -> c
                                           [] t = 3 -> d [] OTHER -> 0]

\* The four lists of weights there are: away from the borders, the first and the
\* last output, and the only one of an input of two samples.
LEMMA NormalisedInside == Normalised(4, Weights(1, 3, 3, 1)) = Weights(2048, 6144, 6144, 2048)
<1> DEFINE q == Weights(1, 3, 3, 1)
           w == Weights(2048, 6144, 6144, 2048)
<1>1. q \in [0 .. 4 -> 0 .. 3] /\ w \in [0 .. 4 -> Nat]
  BY DEF Weights
<1>2. /\ q[0] = 1 /\ q[1] = 3 /\ q[2] = 3 /\ q[3] = 1 /\ q[4] = 0
      /\ w[0] = 2048 /\ w[1] = 6144 /\ w[2] = 6144 /\ w[3] = 2048 /\ w[4] = 0
  BY DEF Weights
<1> HIDE DEF q, w
<1>3. SumTo(4, q) = 8 /\ SumTo(4, w) = 16384
  BY <1>2, SumSmall
<1>4. \A t \in 0 .. 4 : w[t] = (2 * q[t] * One + 8) \div (2 * 8)
  BY <1>2 DEF One
<1>5. Largest(4, q, 1)
  BY <1>2 DEF Largest
<1>6. Normalised(4, q) = [w EXCEPT ![1] = w[1] + One - 16384]
  <2>1. Rounded(4, q, 8, w, 16384, 1)
    BY <1>1, <1>3, <1>4, <1>5 DEF Rounded
  <2> QED BY <2>1, NormalisedIs
<1>7. w[1] + One - 16384 = w[1] /\ [w EXCEPT ![1] = w[1]] = w
  BY <1>1, <1>2 DEF One
<1> QED BY <1>6, <1>7 DEF q, w

LEMMA NormalisedFirst == Normalised(3, Weights(3, 3, 1, 0)) = Weights(7021, 7022, 2341, 0)
<1> DEFINE q == Weights(3, 3, 1, 0)
           w == Weights(7022, 7022, 2341, 0)
<1>1. q \in [0 .. 4 -> 0 .. 3] /\ w \in [0 .. 4 -> Nat]
  BY DEF Weights
<1>2. /\ q[0] = 3 /\ q[1] = 3 /\ q[2] = 1 /\ q[3] = 0 /\ q[4] = 0
      /\ w[0] = 7022 /\ w[1] = 7022 /\ w[2] = 2341 /\ w[3] = 0 /\ w[4] = 0
  BY DEF Weights
<1> DEFINE v == Weights(7021, 7022, 2341, 0)
<1>3. /\ v \in [0 .. 4 -> Nat]
      /\ v[0] = 7021 /\ v[1] = 7022 /\ v[2] = 2341 /\ v[3] = 0 /\ v[4] = 0
  BY DEF Weights
<1> HIDE DEF q, w, v
<1>4. SumTo(3, q) = 7 /\ SumTo(3, w) = 16385
  BY <1>2, SumSmall
<1>5. \A t \in 0 .. 4 : w[t] = (2 * q[t] * One + 7) \div (2 * 7)
  BY <1>2 DEF One
<1>6. Largest(3, q, 0)
  BY <1>2 DEF Largest
<1>7. Normalised(3, q) = [w EXCEPT ![0] = w[0] + One - 16385]
  <2>1. Rounded(3, q, 7, w, 16385, 0)
    BY <1>1, <1>4, <1>5, <1>6 DEF Rounded
  <2> QED BY <2>1, NormalisedIs
<1>8. w[0] + One - 16385 = 7021
  BY <1>2 DEF One
<1>9. [w EXCEPT ![0] = 7021] = v
  <2>1. \A t \in 0 .. 4 : [w EXCEPT ![0] = 7021][t] = v[t]
    BY <1>1, <1>2, <1>3
  <2>2. [w EXCEPT ![0] = 7021] \in [0 .. 4 -> Nat]
    BY <1>1
  <2> QED BY <1>3, <2>1, <2>2
<1> QED BY <1>7, <1>8, <1>9 DEF q, v

LEMMA NormalisedLast == Normalised(3, Weights(1, 3, 3, 0)) = Weights(2341, 7021, 7022, 0)
<1> DEFINE q == Weights(1, 3, 3, 0)
           w == Weights(2341, 7022, 7022, 0)
<1>1. q \in [0 .. 4 -> 0 .. 3] /\ w \in [0 .. 4 -> Nat]
  BY DEF Weights
<1>2. /\ q[0] = 1 /\ q[1] = 3 /\ q[2] = 3 /\ q[3] = 0 /\ q[4] = 0
      /\ w[0] = 2341 /\ w[1] = 7022 /\ w[2] = 7022 /\ w[3] = 0 /\ w[4] = 0
  BY DEF Weights
<1> DEFINE v == Weights(2341, 7021, 7022, 0)
<1>3. /\ v \in [0 .. 4 -> Nat]
      /\ v[0] = 2341 /\ v[1] = 7021 /\ v[2] = 7022 /\ v[3] = 0 /\ v[4] = 0
  BY DEF Weights
<1> HIDE DEF q, w, v
<1>4. SumTo(3, q) = 7 /\ SumTo(3, w) = 16385
  BY <1>2, SumSmall
<1>5. \A t \in 0 .. 4 : w[t] = (2 * q[t] * One + 7) \div (2 * 7)
  BY <1>2 DEF One
<1>6. Largest(3, q, 1)
  BY <1>2 DEF Largest
<1>7. Normalised(3, q) = [w EXCEPT ![1] = w[1] + One - 16385]
  <2>1. Rounded(3, q, 7, w, 16385, 1)
    BY <1>1, <1>4, <1>5, <1>6 DEF Rounded
  <2> QED BY <2>1, NormalisedIs
<1>8. w[1] + One - 16385 = 7021
  BY <1>2 DEF One
<1>9. [w EXCEPT ![1] = 7021] = v
  <2>1. \A t \in 0 .. 4 : [w EXCEPT ![1] = 7021][t] = v[t]
    BY <1>1, <1>2, <1>3
  <2>2. [w EXCEPT ![1] = 7021] \in [0 .. 4 -> Nat]
    BY <1>1
  <2> QED BY <1>3, <2>1, <2>2
<1> QED BY <1>7, <1>8, <1>9 DEF q, v

LEMMA NormalisedOnly == Normalised(2, Weights(3, 3, 0, 0)) = Weights(8192, 8192, 0, 0)
<1> DEFINE q == Weights(3, 3, 0, 0)
           w == Weights(8192, 8192, 0, 0)
<1>1. q \in [0 .. 4 -> 0 .. 3] /\ w \in [0 .. 4 -> Nat]
  BY DEF Weights
<1>2. /\ q[0] = 3 /\ q[1] = 3 /\ q[2] = 0 /\ q[3] = 0 /\ q[4] = 0
      /\ w[0] = 8192 /\ w[1] = 8192 /\ w[2] = 0 /\ w[3] = 0 /\ w[4] = 0
  BY DEF Weights
<1> HIDE DEF q, w
<1>3. SumTo(2, q) = 6 /\ SumTo(2, w) = 16384
  BY <1>2, SumSmall
<1>4. \A t \in 0 .. 4 : w[t] = (2 * q[t] * One + 6) \div (2 * 6)
  BY <1>2 DEF One
<1>5. Largest(2, q, 0)
  BY <1>2 DEF Largest
<1>6. Normalised(2, q) = [w EXCEPT ![0] = w[0] + One - 16384]
  <2>1. Rounded(2, q, 6, w, 16384, 0)
    BY <1>1, <1>3, <1>4, <1>5 DEF Rounded
  <2> QED BY <2>1, NormalisedIs
<1>7. w[0] + One - 16384 = w[0] /\ [w EXCEPT ![0] = w[0]] = w
  BY <1>1, <1>2 DEF One
<1> QED BY <1>6, <1>7 DEF q, w

\* Where the filter of output o of an input of `size` samples begins, and its weights.
LEMMA CoeffsAre ==
  ASSUME NEW size \in Nat, NEW o \in Nat, 2 * o + 2 =< size, size % 2 = 0
  PROVE  TriangleCoeffs(o, size)
           = [first |-> IF o = 0 THEN 0 ELSE 2 * o - 1,
              w |-> IF size = 2 THEN Weights(8192, 8192, 0, 0)
                    ELSE IF o = 0 THEN Weights(7021, 7022, 2341, 0)
                    ELSE IF 2 * o + 2 = size THEN Weights(2341, 7021, 7022, 0)
                    ELSE Weights(2048, 6144, 6144, 2048)]
<1> DEFINE first == XMin(o)
           n     == XMax(o, size) - first
           q     == [t \in 0 .. KSize - 1 |-> IF t < n THEN Quarter(o, first + t) ELSE 0]
<1>1. TriangleCoeffs(o, size) = [first |-> first, w |-> Normalised(n, q)]
  BY DEF TriangleCoeffs, Normalised
<1>2. first = IF o = 0 THEN 0 ELSE 2 * o - 1
  BY DEF XMin
<1>3. n = IF size = 2 THEN 2 ELSE IF o = 0 \/ 2 * o + 2 = size THEN 3 ELSE 4
  <2>1. 2 * o + 3 > size <=> 2 * o + 2 = size
    OBVIOUS
  <2> QED BY <1>2, <2>1 DEF XMax
<1>4. KSize - 1 = 4 /\ \A t \in 0 .. 4 : first + t \in Int
  BY <1>2 DEF KSize
<1> HIDE DEF first
<1>5. \A t \in 0 .. 4 : q[t] = IF t < n THEN Quarter(o, first + t) ELSE 0
  BY <1>4
<1> DEFINE sample(t) == IF first + t = 2 * o \/ first + t = 2 * o + 1 THEN 3
                        ELSE IF first + t = 2 * o - 1 \/ first + t = 2 * o + 2 THEN 1
                        ELSE 0
<1>6. \A t \in 0 .. 4 : Quarter(o, first + t) = sample(t)
  BY <1>4, QuarterIs
<1>7. q = [t \in 0 .. 4 |-> IF t < n THEN sample(t) ELSE 0]
  BY <1>4, <1>5, <1>6
<1> HIDE DEF q, n
<1>8. CASE size = 2
  <2>1. o = 0 /\ n = 2 /\ first = 0
    BY <1>2, <1>3, <1>8
  <2>2. q = Weights(3, 3, 0, 0)
    BY <1>7, <2>1 DEF Weights
  <2> QED BY <1>1, <1>2, <1>8, <2>1, <2>2, NormalisedOnly
<1>9. CASE size # 2 /\ o = 0
  <2>1. n = 3 /\ first = 0
    BY <1>2, <1>3, <1>9
  <2>2. q = Weights(3, 3, 1, 0)
    BY <1>7, <1>9, <2>1 DEF Weights
  <2> QED BY <1>1, <1>2, <1>9, <2>1, <2>2, NormalisedFirst
<1>10. CASE o # 0 /\ 2 * o + 2 = size
  <2>1. n = 3 /\ first = 2 * o - 1 /\ size # 2
    BY <1>2, <1>3, <1>10
  <2>2. q = Weights(1, 3, 3, 0)
    BY <1>7, <1>10, <2>1 DEF Weights
  <2> QED BY <1>1, <1>2, <1>10, <2>1, <2>2, NormalisedLast
<1>11. CASE o # 0 /\ 2 * o + 2 < size
  <2>1. n = 4 /\ first = 2 * o - 1 /\ size # 2
    BY <1>2, <1>3, <1>11
  <2>2. q = Weights(1, 3, 3, 1)
    BY <1>7, <1>11, <2>1 DEF Weights
  <2> QED BY <1>1, <1>2, <1>11, <2>1, <2>2, NormalisedInside
<1> QED BY <1>8, <1>9, <1>10, <1>11
-----------------------------------------------------------------------------
(* One output of a pass.                                                    *)

LEMMA ByteProducts ==
  ASSUME NEW b \in Byte
  PROVE  b \in Int /\ 0 * b = 0 /\ 1 * b = b /\ \A w \in Nat : w * b \in Int
<1>1. b \in Int
  BY DEF Byte
<1>2. 0 * b = 0 /\ 1 * b = b
  BY <1>1
<1>3. \A w \in Nat : w * b \in Int
  BY <1>1
<1> QED BY <1>1, <1>2, <1>3

\* Of n samples p the four from a on have a weight; f are the products.
Filter(n, a, weight, p, f) ==
  /\ n \in Nat /\ a \in Nat /\ a + 4 =< n
  /\ \A k \in 0 .. n - 1 : weight[k] \in Nat /\ p[k] \in Byte
  /\ \A k \in 0 .. n - 1 : k \notin a .. a + 3 => weight[k] = 0
  /\ \A k \in 0 .. n - 1 : f[k] = weight[k] * p[k]

FourProducts(weight, p, a) == weight[a] * p[a] + weight[a + 1] * p[a + 1]
                                + weight[a + 2] * p[a + 2] + weight[a + 3] * p[a + 3]

LEMMA FilterIs ==
  ASSUME NEW n, NEW a, NEW weight, NEW p, NEW f, Filter(n, a, weight, p, f)
  PROVE  /\ SumTo(n, weight) = weight[a] + weight[a + 1] + weight[a + 2] + weight[a + 3]
         /\ SumTo(n, f) = FourProducts(weight, p, a)
<1>1. /\ n \in Nat /\ a \in Nat /\ a + 4 =< n
      /\ \A k \in 0 .. n - 1 : weight[k] \in Nat /\ p[k] \in Byte
      /\ \A k \in 0 .. n - 1 : k \notin a .. a + 3 => weight[k] = 0
      /\ \A k \in 0 .. n - 1 : f[k] = weight[k] * p[k]
  BY DEF Filter
<1>2. /\ \A k \in a .. a + 3 : k \in 0 .. n - 1
      /\ \A k \in 0 .. a - 1 : k \in 0 .. n - 1 /\ k \notin a .. a + 3
      /\ \A k \in a + 4 .. n - 1 : k \in 0 .. n - 1 /\ k \notin a .. a + 3
      /\ {a, a + 1, a + 2, a + 3} \subseteq 0 .. n - 1
  BY <1>1
<1>3. SumTo(n, weight) = weight[a] + weight[a + 1] + weight[a + 2] + weight[a + 3]
  <2>1. \A k \in a .. a + 3 : weight[k] \in Int
    BY <1>1, <1>2
  <2>2. /\ \A k \in 0 .. a - 1 : weight[k] = 0
        /\ \A k \in a + 4 .. n - 1 : weight[k] = 0
    BY <1>1, <1>2
  <2> QED BY <1>1, <2>1, <2>2, SumOfFour
<1>4. SumTo(n, f) = f[a] + f[a + 1] + f[a + 2] + f[a + 3]
  <2>1. ASSUME NEW k \in a .. a + 3 PROVE f[k] \in Int
    <3>1. k \in 0 .. n - 1 /\ weight[k] \in Nat /\ p[k] \in Byte
      BY <1>1, <1>2, <2>1
    <3>2. weight[k] * p[k] \in Int
      BY <3>1, ByteProducts
    <3> QED BY <1>1, <3>1, <3>2
  <2>2. ASSUME NEW k \in 0 .. n - 1, k \notin a .. a + 3 PROVE f[k] = 0
    <3>1. weight[k] = 0 /\ p[k] \in Byte
      BY <1>1, <2>2
    <3>2. 0 * p[k] = 0
      BY <3>1, ByteProducts
    <3>3. f[k] = weight[k] * p[k]
      BY <1>1
    <3> QED BY <3>1, <3>2, <3>3
  <2>3. /\ \A k \in 0 .. a - 1 : f[k] = 0
        /\ \A k \in a + 4 .. n - 1 : f[k] = 0
    BY <1>2, <2>2
  <2>4. \A k \in a .. a + 3 : f[k] \in Int
    BY <2>1
  <2> QED BY <1>1, <2>3, <2>4, SumOfFour
<1>5. /\ f[a] = weight[a] * p[a] /\ f[a + 1] = weight[a + 1] * p[a + 1]
      /\ f[a + 2] = weight[a + 2] * p[a + 2] /\ f[a + 3] = weight[a + 3] * p[a + 3]
  BY <1>1, <1>2
<1> QED BY <1>3, <1>4, <1>5 DEF FourProducts

\* The reference: samples with the weights 1, 3, 3, 1, those that do not exist left out.
RoundedMean(num, den) == (2 * num + den) \div (2 * den)

LEMMA TriangleIs ==
  ASSUME NEW size \in Nat, NEW o \in Nat, 2 * o + 2 =< size, size % 2 = 0,
         NEW p \in [0 .. size - 1 -> Byte]
  PROVE  /\ size = 2 => Triangle(o, size, p) = RoundedMean(3 * p[0] + 3 * p[1], 6)
         /\ size # 2 /\ o = 0 => Triangle(o, size, p) = RoundedMean(3 * p[0] + 3 * p[1] + p[2], 7)
         /\ size # 2 /\ 2 * o + 2 = size =>
              Triangle(o, size, p) = RoundedMean(p[size - 3] + 3 * p[size - 2] + 3 * p[size - 1], 7)
         /\ o # 0 /\ 2 * o + 2 < size =>
              Triangle(o, size, p)
                = RoundedMean(p[2 * o - 1] + 3 * p[2 * o] + 3 * p[2 * o + 1] + p[2 * o + 2], 8)
<1> DEFINE weight == [x \in 0 .. size - 1 |-> Quarter(o, x)]
           f == [x \in 0 .. size - 1 |-> weight[x] * p[x]]
<1>1. \A x \in 0 .. size - 1 : weight[x] = IF x = 2 * o \/ x = 2 * o + 1 THEN 3
                                           ELSE IF x = 2 * o - 1 \/ x = 2 * o + 2 THEN 1
                                           ELSE 0
  BY QuarterIs
<1>2. \A x \in 0 .. size - 1 : f[x] = weight[x] * p[x]
  OBVIOUS
<1>3. Triangle(o, size, p) = RoundedMean(SumTo(size, f), SumTo(size, weight))
  BY DEF Triangle, RoundedMean
<1>4. \A x \in 0 .. size - 1 : /\ weight[x] \in Nat /\ p[x] \in Byte
                               /\ p[x] \in Int /\ 0 * p[x] = 0 /\ 1 * p[x] = p[x]
  <2> SUFFICES ASSUME NEW x \in 0 .. size - 1
               PROVE  /\ weight[x] \in Nat /\ p[x] \in Byte
                      /\ p[x] \in Int /\ 0 * p[x] = 0 /\ 1 * p[x] = p[x]
    OBVIOUS
  <2>1. weight[x] \in Nat
    BY <1>1
  <2>2. p[x] \in Byte
    OBVIOUS
  <2> HIDE DEF weight
  <2> QED BY <2>1, <2>2, ByteProducts
<1> HIDE DEF weight
<1>5. CASE size = 2
  <2>1. o = 0 /\ 0 \in 0 .. size - 1 /\ 1 \in 0 .. size - 1
    BY <1>5
  <2>2. weight[0] = 3 /\ weight[1] = 3
    BY <1>1, <2>1
  <2>3. f[0] = 3 * p[0] /\ f[1] = 3 * p[1] /\ p[0] \in Int /\ p[1] \in Int
    BY <1>2, <1>4, <2>1, <2>2
  <2> HIDE DEF f
  <2>4. SumTo(2, weight) = 6 /\ SumTo(2, f) = 3 * p[0] + 3 * p[1]
    <3>1. f[0] \in Int /\ f[1] \in Int /\ weight[0] \in Int /\ weight[1] \in Int
      BY <2>2, <2>3
    <3>2. SumTo(2, weight) = weight[0] + weight[1] /\ SumTo(2, f) = f[0] + f[1]
      BY <3>1, SumSmall
    <3> QED BY <2>2, <2>3, <3>2
  <2> QED BY <1>3, <1>5, <2>1, <2>4
<1>6. CASE size # 2
  <2>0. size >= 4
    BY <1>6
  <2> DEFINE a == IF o = 0 THEN 0 ELSE IF 2 * o + 2 = size THEN size - 4 ELSE 2 * o - 1
             sum == FourProducts(weight, p, a)
  <2>1. /\ a \in Nat /\ a + 4 =< size
        /\ \A k \in 0 .. size - 1 : k \notin a .. a + 3 =>
             k # 2 * o - 1 /\ k # 2 * o /\ k # 2 * o + 1 /\ k # 2 * o + 2
    BY <2>0
  <2> HIDE DEF a
  <2>2. \A k \in 0 .. size - 1 : k \notin a .. a + 3 => weight[k] = 0
    BY <1>1, <2>1
  <2> USE DEF a
  <2>3. /\ SumTo(size, weight) = weight[a] + weight[a + 1] + weight[a + 2] + weight[a + 3]
        /\ SumTo(size, f) = sum
    <3>1. \A k \in 0 .. size - 1 : weight[k] \in Nat /\ p[k] \in Byte
      BY <1>4
    <3> HIDE DEF a, f
    <3>2. Filter(size, a, weight, p, f)
      BY <1>2, <2>1, <2>2, <3>1 DEF Filter
    <3> QED BY <3>2, FilterIs
  <2>4. a \in 0 .. size - 1 /\ a + 1 \in 0 .. size - 1 /\ a + 2 \in 0 .. size - 1 /\ a + 3 \in 0 .. size - 1
    <3> HIDE DEF a
    <3> QED BY <2>1
  <2> HIDE DEF f, sum
  <2>5. CASE o = 0
    <3>1. a = 0 /\ a + 1 = 1 /\ a + 2 = 2 /\ a + 3 = 3 /\ 2 * o + 2 # size
      BY <2>0, <2>5
    <3> HIDE DEF a
    <3>2. weight[0] = 3 /\ weight[1] = 3 /\ weight[2] = 1 /\ weight[3] = 0
      BY <1>1, <2>4, <2>5, <3>1
    <3>3. sum = 3 * p[0] + 3 * p[1] + 1 * p[2] + 0 * p[3]
      BY <3>1, <3>2 DEF sum, FourProducts
    <3>4. p[0] \in Int /\ p[1] \in Int /\ 1 * p[2] = p[2] /\ 0 * p[3] = 0 /\ p[2] \in Int
      BY <1>4, <2>4, <3>1
    <3>5. SumTo(size, weight) = 7 /\ SumTo(size, f) = 3 * p[0] + 3 * p[1] + p[2]
      <4>1. SumTo(size, weight) = 7
        BY <2>3, <3>1, <3>2
      <4>2. SumTo(size, f) = 3 * p[0] + 3 * p[1] + p[2]
        BY <2>3, <3>3, <3>4
      <4> QED BY <4>1, <4>2
    <3> QED BY <1>3, <1>6, <2>5, <3>1, <3>5
  <2>6. CASE o # 0 /\ 2 * o + 2 = size
    <3>1. /\ a = size - 4 /\ a + 1 = size - 3 /\ a + 2 = size - 2 /\ a + 3 = size - 1
          /\ a + 1 = 2 * o - 1 /\ a + 2 = 2 * o /\ a + 3 = 2 * o + 1 /\ a = 2 * o - 2
      BY <2>0, <2>6
    <3> HIDE DEF a
    <3>2. weight[a] = 0 /\ weight[a + 1] = 1 /\ weight[a + 2] = 3 /\ weight[a + 3] = 3
      BY <1>1, <2>4, <2>6, <3>1
    <3>3. sum = 0 * p[a] + 1 * p[a + 1] + 3 * p[a + 2] + 3 * p[a + 3]
      BY <3>2 DEF sum, FourProducts
    <3>4. /\ 0 * p[a] = 0 /\ 1 * p[a + 1] = p[a + 1] /\ p[a + 1] \in Int
          /\ p[a + 2] \in Int /\ p[a + 3] \in Int
      BY <1>4, <2>4
    <3>5. SumTo(size, weight) = 7 /\ SumTo(size, f) = p[a + 1] + 3 * p[a + 2] + 3 * p[a + 3]
      <4>1. SumTo(size, weight) = 7
        BY <2>3, <3>2
      <4>2. SumTo(size, f) = p[a + 1] + 3 * p[a + 2] + 3 * p[a + 3]
        BY <2>3, <3>3, <3>4
      <4> QED BY <4>1, <4>2
    <3> QED BY <1>3, <1>6, <2>6, <3>1, <3>5
  <2>7. CASE o # 0 /\ 2 * o + 2 < size
    <3>1. a = 2 * o - 1 /\ a + 1 = 2 * o /\ a + 2 = 2 * o + 1 /\ a + 3 = 2 * o + 2
      BY <2>7
    <3> HIDE DEF a
    <3>2. weight[a] = 1 /\ weight[a + 1] = 3 /\ weight[a + 2] = 3 /\ weight[a + 3] = 1
      BY <1>1, <2>4, <2>7, <3>1
    <3>3. sum = 1 * p[a] + 3 * p[a + 1] + 3 * p[a + 2] + 1 * p[a + 3]
      BY <3>2 DEF sum, FourProducts
    <3>4. /\ 1 * p[a] = p[a] /\ p[a] \in Int /\ p[a + 1] \in Int /\ p[a + 2] \in Int
          /\ 1 * p[a + 3] = p[a + 3] /\ p[a + 3] \in Int
      BY <1>4, <2>4
    <3>5. SumTo(size, weight) = 8 /\ SumTo(size, f) = p[a] + 3 * p[a + 1] + 3 * p[a + 2] + p[a + 3]
      <4>1. SumTo(size, weight) = 8
        BY <2>3, <3>2
      <4>2. SumTo(size, f) = p[a] + 3 * p[a + 1] + 3 * p[a + 2] + p[a + 3]
        BY <2>3, <3>3, <3>4
      <4> QED BY <4>1, <4>2
    <3> QED BY <1>3, <1>6, <2>7, <3>1, <3>5
  <2>8. o = 0 \/ (o # 0 /\ 2 * o + 2 = size) \/ (o # 0 /\ 2 * o + 2 < size)
    OBVIOUS
  <2>9. o = 0 => 2 * o + 2 # size
    BY <2>0
  <2> QED BY <1>6, <2>5, <2>6, <2>7, <2>8, <2>9
<1> QED BY <1>5, <1>6

LEMMA ClipIsByte ==
  ASSUME NEW acc \in Int
  PROVE  RoundShiftClipU8(acc) \in Byte
<1>1. (acc + 8192) \div 16384 \in Int
  OBVIOUS
<1> QED BY <1>1 DEF RoundShiftClipU8, One, Byte

\* Two samples have the same weight.
LEMMA HalvesAreExact ==
  ASSUME NEW a \in Byte, NEW b \in Byte
  PROVE  RoundShiftClipU8(8192 * a + 8192 * b) = RoundedMean(3 * a + 3 * b, 6)
<1> DEFINE n == a + b + 1
<1>1. n \in 1 .. 511 /\ 8192 * a + 8192 * b + 8192 = 8192 * n /\ 2 * (3 * a + 3 * b) + 6 = 6 * n
  BY DEF Byte
<1>2. (8192 * n) \div 16384 = n \div 2 /\ (6 * n) \div 12 = n \div 2 /\ n \div 2 \in 0 .. 255
  BY <1>1
<1> HIDE DEF n
<1>3. RoundShiftClipU8(8192 * a + 8192 * b) = n \div 2
  BY <1>1, <1>2 DEF RoundShiftClipU8, One
<1>4. RoundedMean(3 * a + 3 * b, 6) = n \div 2
  BY <1>1, <1>2 DEF RoundedMean
<1> QED BY <1>3, <1>4

LEMMA TapsAreMean ==
  ASSUME NEW p0 \in Byte, NEW p1 \in Byte, NEW p2 \in Byte, NEW p3 \in Byte
  PROVE  FastTaps(p0, p1, p2, p3) = RoundedMean(p0 + 3 * p1 + 3 * p2 + p3, 8)
<1> DEFINE n == p0 + p3 + 3 * (p1 + p2) + 4
<1>1. n \in Nat /\ 2 * (p0 + 3 * p1 + 3 * p2 + p3) + 8 = 2 * n
  BY DEF Byte
<1>2. (2 * n) \div 16 = n \div 8
  BY <1>1
<1> QED BY <1>1, <1>2 DEF FastTaps, RoundedMean

LEMMA WeightsAre ==
  ASSUME NEW a, NEW b, NEW c, NEW d
  PROVE  LET w == Weights(a, b, c, d)
         IN w[0] = a /\ w[1] = b /\ w[2] = c /\ w[3] = d /\ w[4] = 0
BY DEF Weights

\* One output of a pass of Downscale2x, away from the borders, at either of them or
\* both at once, is the triangle filter of the reals, rounded to nearest: neither the
\* short cut, nor the rounding of the weights, nor its correction shows
\* (Stages.cpp:181-224, 267-371).
THEOREM PassIsTriangle ==
  ASSUME NEW size \in Nat, NEW o \in Nat, 2 * o + 2 =< size, size % 2 = 0,
         NEW p \in [0 .. size - 1 -> Byte]
  PROVE  Pass(o, size, p) = Triangle(o, size, p) /\ Pass(o, size, p) \in Byte
<1> DEFINE c     == TriangleCoeffs(o, size)
           avail == IF KSize < size - c.first THEN KSize ELSE size - c.first
           h     == [k \in 0 .. avail - 1 |-> c.w[k] * p[c.first + k]]
<1>1. Pass(o, size, p) = IF Fast(c.w)
                         THEN FastTaps(p[c.first], p[c.first + 1], p[c.first + 2], p[c.first + 3])
                         ELSE RoundShiftClipU8(SumTo(avail, h))
  BY DEF Pass
<1>2. \A k \in 0 .. avail - 1 : h[k] = c.w[k] * p[c.first + k]
  OBVIOUS
<1>3. KSize = 5 /\ avail = IF KSize < size - c.first THEN KSize ELSE size - c.first
  BY DEF KSize
<1> HIDE DEF avail, h
<1>4. \A k \in 0 .. size - 1 : p[k] \in Byte /\ p[k] \in Int /\ 0 * p[k] = 0
  BY ByteProducts
<1>5. CASE size = 2
  <2>1. c = [first |-> 0, w |-> Weights(8192, 8192, 0, 0)] /\ o = 0
    BY <1>5, CoeffsAre
  <2> HIDE DEF c
  <2>2. c.first = 0 /\ avail = 2 /\ c.w[0] = 8192 /\ c.w[1] = 8192
    BY <1>3, <1>5, <2>1, WeightsAre
  <2>3. /\ h[0] = 8192 * p[0] /\ h[1] = 8192 * p[1]
        /\ p[0] \in Byte /\ p[1] \in Byte /\ p[0] \in Int /\ p[1] \in Int
    <3>1. h[0] = c.w[0] * p[c.first + 0] /\ h[1] = c.w[1] * p[c.first + 1]
      BY <1>2, <2>2
    <3>2. c.first + 0 = 0 /\ c.first + 1 = 1
      BY <2>2
    <3>3. p[0] \in Byte /\ p[1] \in Byte /\ p[0] \in Int /\ p[1] \in Int
      BY <1>4, <1>5
    <3> QED BY <2>2, <3>1, <3>2, <3>3
  <2>4. SumTo(avail, h) = 8192 * p[0] + 8192 * p[1]
    BY <2>2, <2>3, SumSmall
  <2>5. Pass(o, size, p) = RoundShiftClipU8(8192 * p[0] + 8192 * p[1])
    BY <1>1, <2>2, <2>4 DEF Fast
  <2>6. 8192 * p[0] + 8192 * p[1] \in Int
    BY <2>3
  <2>7. Triangle(o, size, p) = RoundedMean(3 * p[0] + 3 * p[1], 6)
    BY <1>5, TriangleIs
  <2> QED BY <2>3, <2>5, <2>6, <2>7, HalvesAreExact, ClipIsByte
<1>6. CASE size # 2 /\ o = 0
  <2>0. size >= 4 /\ 2 * o + 2 # size
    BY <1>6
  <2>1. c = [first |-> 0, w |-> Weights(7021, 7022, 2341, 0)]
    BY <1>6, CoeffsAre
  <2> HIDE DEF c
  <2>2. /\ c.first = 0 /\ avail \in {4, 5} /\ avail =< size
        /\ c.w[0] = 7021 /\ c.w[1] = 7022 /\ c.w[2] = 2341 /\ c.w[3] = 0 /\ c.w[4] = 0
    BY <1>3, <2>0, <2>1, WeightsAre
  <2>3. /\ p[0] \in Byte /\ p[1] \in Byte /\ p[2] \in Byte
        /\ p[0] \in Int /\ p[1] \in Int /\ p[2] \in Int
        /\ 0 * p[3] = 0 /\ (avail = 5 => 0 * p[4] = 0)
    BY <1>4, <2>0, <2>2
  <2>4. /\ h[0] = 7021 * p[0] /\ h[1] = 7022 * p[1] /\ h[2] = 2341 * p[2] /\ h[3] = 0
        /\ avail = 5 => h[4] = 0
    <3>1. /\ h[0] = c.w[0] * p[c.first + 0] /\ h[1] = c.w[1] * p[c.first + 1]
          /\ h[2] = c.w[2] * p[c.first + 2] /\ h[3] = c.w[3] * p[c.first + 3]
          /\ avail = 5 => h[4] = c.w[4] * p[c.first + 4]
      BY <1>2, <2>2
    <3>2. /\ c.first + 0 = 0 /\ c.first + 1 = 1 /\ c.first + 2 = 2 /\ c.first + 3 = 3
          /\ c.first + 4 = 4
      BY <2>2
    <3> QED BY <2>2, <2>3, <3>1, <3>2
  <2>5. SumTo(avail, h) = 7021 * p[0] + 7022 * p[1] + 2341 * p[2]
    <3>1. h[0] \in Int /\ h[1] \in Int /\ h[2] \in Int /\ h[3] \in Int
      BY <2>3, <2>4
    <3>2. SumTo(4, h) = h[0] + h[1] + h[2] + h[3]
      BY <3>1, SumSmall
    <3>3. SumTo(4, h) = 7021 * p[0] + 7022 * p[1] + 2341 * p[2] /\ SumTo(4, h) \in Int
      <4>1. SumTo(4, h) = 7021 * p[0] + 7022 * p[1] + 2341 * p[2] + 0
        BY <2>4, <3>2
      <4>2. p[0] \in Int /\ p[1] \in Int /\ p[2] \in Int
        BY <2>3
      <4> QED BY <4>1, <4>2
    <3>4. avail = 5 => SumTo(4 + 1, h) = SumTo(4, h) + h[4]
      BY SumStep
    <3>5. SumTo(avail, h) = SumTo(4, h)
      BY <2>2, <2>4, <3>3, <3>4
    <3> QED BY <3>3, <3>5
  <2>6. Pass(o, size, p) = RoundShiftClipU8(7021 * p[0] + 7022 * p[1] + 2341 * p[2])
    BY <1>1, <2>2, <2>5 DEF Fast
  <2>7. 7021 * p[0] + 7022 * p[1] + 2341 * p[2] \in Int
    BY <2>3
  <2>8. Triangle(o, size, p) = RoundedMean(3 * p[0] + 3 * p[1] + p[2], 7)
    BY <1>6, TriangleIs
  <2>9. RoundedMean(3 * p[0] + 3 * p[1] + p[2], 7) = (2 * (3 * p[0] + 3 * p[1] + p[2]) + 7) \div 14
    BY DEF RoundedMean
  <2> DEFINE x == p[0]  y == p[1]  z == p[2]
  <2>10. /\ x \in Byte /\ y \in Byte /\ z \in Byte
         /\ Pass(o, size, p) = RoundShiftClipU8(7021 * x + 7022 * y + 2341 * z)
         /\ Triangle(o, size, p) = (2 * (3 * x + 3 * y + z) + 7) \div 14
         /\ 7021 * x + 7022 * y + 2341 * z \in Int
    BY <2>3, <2>6, <2>7, <2>8, <2>9
  <2> HIDE DEF x, y, z
  <2>11. RoundShiftClipU8(7021 * x + 7022 * y + 2341 * z) = (2 * (3 * x + 3 * y + z) + 7) \div 14
    BY <2>10, BorderIsExact
  <2> QED BY <2>10, <2>11, ClipIsByte
<1>7. CASE size # 2 /\ 2 * o + 2 = size
  <2>0. size >= 4 /\ o # 0 /\ 2 * o - 1 = size - 3
    BY <1>7
  <2>1. c = [first |-> size - 3, w |-> Weights(2341, 7021, 7022, 0)]
    BY <1>7, <2>0, CoeffsAre
  <2> HIDE DEF c
  <2>2. /\ c.first = size - 3 /\ avail = 3
        /\ c.first + 0 = size - 3 /\ c.first + 1 = size - 2 /\ c.first + 2 = size - 1
        /\ c.w[0] = 2341 /\ c.w[1] = 7021 /\ c.w[2] = 7022
    BY <1>3, <2>0, <2>1, WeightsAre
  <2>3. /\ p[size - 3] \in Byte /\ p[size - 2] \in Byte /\ p[size - 1] \in Byte
        /\ p[size - 3] \in Int /\ p[size - 2] \in Int /\ p[size - 1] \in Int
    BY <1>4, <2>0
  <2>4. h[0] = 2341 * p[size - 3] /\ h[1] = 7021 * p[size - 2] /\ h[2] = 7022 * p[size - 1]
    <3>1. /\ h[0] = c.w[0] * p[c.first + 0] /\ h[1] = c.w[1] * p[c.first + 1]
          /\ h[2] = c.w[2] * p[c.first + 2]
      <4>1. avail = 3
        BY <2>2
      <4> QED BY <1>2, <4>1
    <3> QED BY <2>2, <3>1
  <2>5. SumTo(avail, h) = 2341 * p[size - 3] + 7021 * p[size - 2] + 7022 * p[size - 1]
    <3>1. h[0] \in Int /\ h[1] \in Int /\ h[2] \in Int
      <4> DEFINE x == p[size - 3]  y == p[size - 2]  z == p[size - 1]
      <4>1. x \in Int /\ y \in Int /\ z \in Int /\ h[0] = 2341 * x /\ h[1] = 7021 * y /\ h[2] = 7022 * z
        BY <2>3, <2>4
      <4> HIDE DEF x, y, z
      <4> QED BY <4>1
    <3>2. SumTo(3, h) = h[0] + h[1] + h[2]
      BY <3>1, SumSmall
    <3> QED BY <2>2, <2>4, <3>2
  <2>6. Pass(o, size, p)
          = RoundShiftClipU8(2341 * p[size - 3] + 7021 * p[size - 2] + 7022 * p[size - 1])
    BY <1>1, <2>2, <2>5 DEF Fast
  <2>7. 2341 * p[size - 3] + 7021 * p[size - 2] + 7022 * p[size - 1] \in Int
    BY <2>3
  <2>8. Triangle(o, size, p)
          = (2 * (p[size - 3] + 3 * p[size - 2] + 3 * p[size - 1]) + 7) \div 14
    BY <1>7, TriangleIs DEF RoundedMean
  <2> DEFINE x == p[size - 3]  y == p[size - 2]  z == p[size - 1]
  <2>9. /\ x \in Byte /\ y \in Byte /\ z \in Byte
        /\ Pass(o, size, p) = RoundShiftClipU8(2341 * x + 7021 * y + 7022 * z)
        /\ Triangle(o, size, p) = (2 * (x + 3 * y + 3 * z) + 7) \div 14
        /\ 2341 * x + 7021 * y + 7022 * z \in Int
    BY <2>3, <2>6, <2>7, <2>8
  <2> HIDE DEF x, y, z
  <2>10. RoundShiftClipU8(2341 * x + 7021 * y + 7022 * z) = (2 * (x + 3 * y + 3 * z) + 7) \div 14
    BY <2>9, BorderIsExact
  <2> QED BY <2>9, <2>10, ClipIsByte
<1>8. CASE o # 0 /\ 2 * o + 2 < size
  <2>1. c = [first |-> 2 * o - 1, w |-> Weights(2048, 6144, 6144, 2048)]
    BY <1>8, CoeffsAre
  <2> HIDE DEF c
  <2>2. /\ c.first = 2 * o - 1
        /\ c.first + 1 = 2 * o /\ c.first + 2 = 2 * o + 1 /\ c.first + 3 = 2 * o + 2
        /\ Fast(c.w)
    BY <2>1, WeightsAre DEF Fast
  <2>3. /\ p[2 * o - 1] \in Byte /\ p[2 * o] \in Byte /\ p[2 * o + 1] \in Byte
        /\ p[2 * o + 2] \in Byte
    BY <1>4, <1>8
  <2>4. Pass(o, size, p) = FastTaps(p[2 * o - 1], p[2 * o], p[2 * o + 1], p[2 * o + 2])
    BY <1>1, <2>2
  <2>5. Triangle(o, size, p)
          = RoundedMean(p[2 * o - 1] + 3 * p[2 * o] + 3 * p[2 * o + 1] + p[2 * o + 2], 8)
    BY <1>8, TriangleIs
  <2> DEFINE x == p[2 * o - 1]  y == p[2 * o]  z == p[2 * o + 1]  t == p[2 * o + 2]
  <2>6. /\ x \in Byte /\ y \in Byte /\ z \in Byte /\ t \in Byte
        /\ Pass(o, size, p) = FastTaps(x, y, z, t)
        /\ Triangle(o, size, p) = RoundedMean(x + 3 * y + 3 * z + t, 8)
    BY <2>3, <2>4, <2>5
  <2> HIDE DEF x, y, z, t
  <2>7. FastTaps(x, y, z, t) = RoundedMean(x + 3 * y + 3 * z + t, 8)
    BY <2>6, TapsAreMean
  <2>8. FastTaps(x, y, z, t) \in Byte
    BY <2>6, ShortCutIsExact
  <2> QED BY <2>6, <2>7, <2>8
<1> QED BY <1>5, <1>6, <1>7, <1>8
-----------------------------------------------------------------------------
(* Offsets.                                                                 *)

LEMMA OneMore ==
  ASSUME NEW m \in Nat, NEW x \in Int, NEW y \in Int, x < y
  PROVE  x * m + m =< y * m
<1>1. y - x - 1 \in Nat /\ (y - x - 1) * m \in Nat
  OBVIOUS
<1>2. (y - x - 1) * m = y * m - x * m - m
  OBVIOUS
<1> QED BY <1>1, <1>2

\* Place a * m + b of an array of rows of m holds element b of row a.
At(a, m, b) == a * m + b

LEMMA DivMod ==
  ASSUME NEW a \in Nat, NEW m \in Nat \ {0}, NEW b \in 0 .. m - 1
  PROVE  At(a, m, b) \div m = a /\ At(a, m, b) % m = b /\ At(a, m, b) \in Nat
<1> DEFINE q == (a * m + b) \div m
           r == (a * m + b) % m
<1>1. a * m \in Nat
  OBVIOUS
<1>2. q \in Int /\ r \in 0 .. m - 1 /\ a * m + b = m * q + r
  BY <1>1
<1> HIDE DEF q, r
<1>3. m * q = q * m /\ q * m \in Int
  BY <1>2
<1>4. ~(a < q)
  <2>1. a < q => a * m + m =< q * m
    BY <1>2, OneMore
  <2> QED BY <1>1, <1>2, <1>3, <2>1
<1>5. ~(q < a)
  <2>1. q < a => q * m + m =< a * m
    BY <1>2, OneMore
  <2> QED BY <1>1, <1>2, <1>3, <2>1
<1>6. q = a
  BY <1>2, <1>4, <1>5
<1>7. r = b
  BY <1>1, <1>2, <1>3, <1>6
<1>8. a * m + b \in Nat
  BY <1>1
<1> QED BY <1>6, <1>7, <1>8 DEF q, r, At

LEMMA Within ==
  ASSUME NEW a \in Nat, NEW n \in Nat, a < n, NEW m \in Nat \ {0}, NEW b \in 0 .. m - 1
  PROVE  At(a, m, b) \in 0 .. n * m - 1
<1>1. a * m + m =< n * m /\ n * m \in Nat /\ a * m \in Nat
  BY OneMore
<1> QED BY <1>1 DEF At
-----------------------------------------------------------------------------
(* A frame.                                                                 *)

\* Where the thread is.
FrameOK == /\ g \in Geometries /\ mode \in Modes /\ swapRB \in BOOLEAN /\ image \in Images
           /\ LayoutAccepts(g)

LEMMA Sizes ==
  ASSUME FrameOK
  PROVE  /\ g \in Geometry /\ g.count \in Nat \ {0} /\ Step(g) \in Nat \ {0}
         /\ g.stripHeight = (g.count - 1) * Step(g) + g.patchHeight
         /\ g.patchHeight \in Nat \ {0} /\ g.stripWidth \in Nat \ {0}
         /\ RowBytes(g) = 3 * g.stripWidth
         /\ ModelH \in Nat \ {0} /\ ModelW \in Nat \ {0}
         /\ mode = "native" => ModelH = g.patchHeight /\ ModelW = g.stripWidth
         /\ mode # "native" => /\ g.patchHeight = 2 * ModelH /\ g.stripWidth = 2 * ModelW
                               /\ g.patchHeight % 2 = 0 /\ g.stripWidth % 2 = 0
<1>1. /\ g \in Geometry /\ g.channels = 3
      /\ mode # "native" => g.patchHeight % 2 = 0 /\ g.stripWidth % 2 = 0
  BY FrameAssumption DEF FrameOK
<1>2. /\ g.stripWidth \in Nat \ {0} /\ g.patchHeight \in Nat \ {0} /\ g.count \in Nat \ {0}
      /\ g.overlap \in Nat /\ g.overlap < g.patchHeight
      /\ g.stripHeight = (g.count - 1) * Step(g) + g.patchHeight
  BY <1>1 DEF FrameOK, LayoutAccepts, Geometry
<1>3. Step(g) \in Nat \ {0} /\ RowBytes(g) = 3 * g.stripWidth
  BY <1>1, <1>2 DEF Step, RowBytes
<1>4. CASE mode = "native"
  BY <1>1, <1>2, <1>3, <1>4 DEF ModelH, ModelW
<1>5. CASE mode # "native"
  <2>1. /\ ModelH = g.patchHeight \div 2 /\ ModelW = g.stripWidth \div 2
        /\ g.patchHeight % 2 = 0 /\ g.stripWidth % 2 = 0
    BY <1>1, <1>5 DEF ModelH, ModelW
  <2>2. /\ g.patchHeight = 2 * ModelH /\ g.stripWidth = 2 * ModelW
        /\ ModelH \in Nat \ {0} /\ ModelW \in Nat \ {0}
    BY <1>2, <2>1
  <2> QED BY <1>1, <1>2, <1>3, <1>5, <2>1, <2>2
<1> QED BY <1>4, <1>5

\* A patch's header shows its rows of the strip.
LEMMA HeaderIs ==
  ASSUME FrameOK, NEW p \in 0 .. g.count - 1, NEW v \in 0 .. g.patchHeight - 1
  PROVE  /\ Header(p)[v] \in [0 .. 3 * g.stripWidth - 1 -> Byte]
         /\ \A b \in 0 .. 3 * g.stripWidth - 1 :
              /\ Header(p)[v][b] = Pixel(image, p * Step(g) + v, b)
              /\ Header(p)[v][b] \in Byte
<1> DEFINE R == RowBytes(g)
<1>1. /\ R = 3 * g.stripWidth /\ R \in Nat \ {0} /\ Step(g) \in Nat \ {0} /\ g.count \in Nat \ {0}
      /\ g.patchHeight \in Nat \ {0} /\ g \in Geometry
      /\ g.stripHeight = (g.count - 1) * Step(g) + g.patchHeight
  BY Sizes
<1>2. p * Step(g) + v \in 0 .. g.stripHeight - 1
  <2>1. p \in Nat /\ g.count - 1 \in Nat /\ p =< g.count - 1
    BY <1>1
  <2>2. p * Step(g) =< (g.count - 1) * Step(g)
    BY <1>1, <2>1, Monotone
  <2>3. p * Step(g) \in Nat /\ (g.count - 1) * Step(g) \in Nat
    BY <1>1, <2>1
  <2> QED BY <1>1, <2>2, <2>3
<1>3. Offset(g, p) = (p * Step(g)) * R
  BY DEF Offset
<1>4. Header(p)[v] = [b \in 0 .. R - 1 |-> Strip(Offset(g, p) + v * R + b)]
  BY DEF Header
<1> DEFINE row == p * Step(g) + v
<1>5. row \in Nat /\ p * Step(g) \in Nat /\ v \in Nat
  BY <1>1, <1>2
<1> HIDE DEF R
<1>6. Offset(g, p) + v * R = row * R
  <2>1. \A a, b \in Nat : a * R + b * R = (a + b) * R
    BY <1>1
  <2> QED BY <1>3, <1>5, <2>1
<1> HIDE DEF row
<1>7. ASSUME NEW b \in 0 .. R - 1
      PROVE  /\ Strip(Offset(g, p) + v * R + b) = Pixel(image, row, b)
             /\ Pixel(image, row, b) \in Byte
  <2>1. At(row, R, b) \div R = row /\ At(row, R, b) % R = b
    BY <1>1, <1>5, DivMod
  <2>2. Strip(At(row, R, b)) = Pixel(image, row, b)
    BY <2>1 DEF Strip, R
  <2>3. Pixel(image, row, b) \in Byte
    BY <1>2, FrameAssumption DEF FrameOK, R, row
  <2> QED BY <1>6, <2>2, <2>3 DEF At
<1>8. \A b \in 0 .. R - 1 : /\ Header(p)[v][b] = Pixel(image, row, b)
                            /\ Header(p)[v][b] \in Byte
  BY <1>4, <1>7
<1>9. Header(p)[v] \in [0 .. R - 1 -> Byte]
  BY <1>4, <1>7
<1> QED BY <1>1, <1>8, <1>9 DEF row

\* Which place of the slot's input a pixel of the model is in.
LEMMA PlaceIs ==
  ASSUME FrameOK, NEW p \in 0 .. g.count - 1, NEW k \in 0 .. 2,
         NEW y \in 0 .. ModelH - 1, NEW x \in 0 .. ModelW - 1
  PROVE  LET n == p * ImgElems + k * ModelH * ModelW + y * ModelW + x
             m == n % ImgElems
             plane == ModelH * ModelW
         IN /\ n \in 0 .. g.count * ImgElems - 1 /\ n \div ImgElems = p
            /\ m \div plane = k /\ (m % plane) \div ModelW = y /\ m % ModelW = x
<1> DEFINE H == ModelH
           W == ModelW
           plane == H * W
           E == ImgElems
           d == At(y, W, x)
           m == At(k, plane, d)
           n == At(p, E, m)
<1>1. H \in Nat \ {0} /\ W \in Nat \ {0} /\ g.count \in Nat /\ p \in Nat /\ p < g.count
  BY Sizes
<1>2. E = 3 * plane
  <2>1. \A a, b \in Nat : 3 * a * b = 3 * (a * b)
    OBVIOUS
  <2> QED BY <1>1, <2>1 DEF ImgElems
<1>3. k \in Nat /\ y \in Nat /\ k * H + y \in Nat /\ y < H /\ k < 3
  BY <1>1
<1>4. p * ImgElems + k * ModelH * ModelW + y * ModelW + x = n
  <2>1. p * E \in Nat /\ k * H * W \in Nat /\ y * W \in Nat /\ k * H * W = k * plane
    <3>1. E \in Nat
      BY <1>1, <1>2
    <3>2. \A a, b, c \in Nat : a * b * c = a * (b * c) /\ a * b * c \in Nat /\ a * b \in Nat
      OBVIOUS
    <3> QED BY <1>1, <1>3, <3>1, <3>2
  <2> HIDE DEF E
  <2>2. \A a, b, c, e \in Nat : a + b + c + e = a + (b + (c + e))
    OBVIOUS
  <2>3. p * E + k * H * W + y * W + x = p * E + (k * H * W + (y * W + x))
    BY <1>1, <2>1, <2>2
  <2> QED BY <2>1, <2>3 DEF E, At
<1>5. d \in 0 .. plane - 1 /\ d \div W = y /\ d % W = x
  BY <1>1, <1>3, DivMod, Within
<1>6. plane \in Nat \ {0}
  BY <1>1
<1>7. m = At(k * H + y, W, x)
  <2>1. \A a, b, c, e \in Nat : a * (b * c) + e * c = (a * b + e) * c
    OBVIOUS
  <2>2. k * (H * W) + (y * W + x) = (k * (H * W) + y * W) + x
    <3>1. k * (H * W) \in Nat /\ y * W \in Nat
      BY <1>1, <1>3, <1>6
    <3> QED BY <3>1, <1>1
  <2> QED BY <1>1, <1>3, <2>1, <2>2 DEF At
<1>8. m % W = x
  <2> DEFINE r == k * H + y
  <2>1. r \in Nat /\ x \in 0 .. W - 1 /\ m = At(r, W, x)
    BY <1>3, <1>7
  <2> HIDE DEF r, m, W
  <2> QED BY <1>1, <2>1, DivMod DEF W
<1> HIDE DEF d, plane, E
<1>9. m \in 0 .. 3 * plane - 1 /\ m \div plane = k /\ m % plane = d
  BY <1>3, <1>5, <1>6, DivMod, Within
<1> HIDE DEF m
<1>10. n \in 0 .. g.count * E - 1 /\ n \div E = p /\ n % E = m
  <2>1. E \in Nat \ {0} /\ m \in 0 .. E - 1
    BY <1>2, <1>6, <1>9
  <2> QED BY <1>1, <2>1, DivMod, Within
<1> HIDE DEF n
<1> QED BY <1>4, <1>5, <1>8, <1>9, <1>10 DEF plane, E

\* Every row the packing is given holds what the model was trained on.
LEMMA RowIs ==
  ASSUME FrameOK, NEW p \in 0 .. g.count - 1, NEW y \in 0 .. ModelH - 1
  PROVE  LET row == ModelRow(mode, Header(p), g.stripWidth, g.patchHeight, y)
         IN /\ row \in [0 .. 3 * ModelW - 1 -> Byte]
            /\ \A x \in 0 .. ModelW - 1, c \in Colour : row[3 * x + c] = Expected(p, y, x, c)
<1> DEFINE row == ModelRow(mode, Header(p), g.stripWidth, g.patchHeight, y)
           W == g.stripWidth
           H == g.patchHeight
<1>1. /\ W \in Nat \ {0} /\ H \in Nat \ {0} /\ ModelW \in Nat \ {0} /\ ModelH \in Nat \ {0}
      /\ mode = "native" => ModelH = H /\ ModelW = W
      /\ mode # "native" => H = 2 * ModelH /\ W = 2 * ModelW /\ H % 2 = 0 /\ W % 2 = 0
  BY Sizes
<1>2. ASSUME NEW v \in 0 .. H - 1
      PROVE  /\ Header(p)[v] \in [0 .. 3 * W - 1 -> Byte]
             /\ \A u \in 0 .. W - 1, c \in Colour :
                  /\ Header(p)[v][3 * u + c] = Sample(p, v, u, c)
                  /\ Sample(p, v, u, c) \in Byte
  <2>1. \A u \in 0 .. W - 1, c \in Colour : 3 * u + c \in 0 .. 3 * W - 1
    BY <1>1 DEF Colour
  <2> QED BY <2>1, HeaderIs DEF Sample
<1> HIDE DEF W, H
<1>3. CASE mode = "native"
  <2>1. row = Header(p)[y]
    BY <1>3 DEF ModelRow
  <2>2. ASSUME NEW x \in 0 .. ModelW - 1, NEW c \in Colour
        PROVE  row[3 * x + c] = Expected(p, y, x, c)
    <3>1. Expected(p, y, x, c) = Sample(p, y, x, c)
      BY <1>3 DEF Expected
    <3> QED BY <1>1, <1>2, <1>3, <2>1, <3>1
  <2>3. row \in [0 .. 3 * ModelW - 1 -> Byte]
    BY <1>1, <1>2, <1>3, <2>1
  <2> QED BY <2>2, <2>3 DEF row
<1>4. CASE mode # "native"
  <2> DEFINE value(x, c) == IF mode = "box" THEN RunBox(Header(p), y, c, x)
                            ELSE RunAntialias(Header(p), W, H, y, c, x)
  <2>1. row = [k \in 0 .. 3 * ModelW - 1 |-> value(k \div 3, k % 3)]
    BY <1>1, <1>4 DEF ModelRow, W, H
  <2>2. ASSUME NEW x \in 0 .. ModelW - 1, NEW c \in Colour
        PROVE  value(x, c) = Expected(p, y, x, c) /\ value(x, c) \in Byte
    <3>1. CASE mode = "box"
      <4>1. /\ 2 * y \in 0 .. H - 1 /\ 2 * y + 1 \in 0 .. H - 1
            /\ 2 * x \in 0 .. W - 1 /\ 2 * x + 1 \in 0 .. W - 1
            /\ 3 * (2 * x) + c = 6 * x + c /\ 3 * (2 * x + 1) + c = 6 * x + 3 + c
        BY <1>1, <1>4 DEF Colour
      <4>2. /\ Header(p)[2 * y][6 * x + c] = Sample(p, 2 * y, 2 * x, c)
            /\ Header(p)[2 * y][6 * x + 3 + c] = Sample(p, 2 * y, 2 * x + 1, c)
            /\ Header(p)[2 * y + 1][6 * x + c] = Sample(p, 2 * y + 1, 2 * x, c)
            /\ Header(p)[2 * y + 1][6 * x + 3 + c] = Sample(p, 2 * y + 1, 2 * x + 1, c)
            /\ Sample(p, 2 * y, 2 * x, c) \in Byte /\ Sample(p, 2 * y, 2 * x + 1, c) \in Byte
            /\ Sample(p, 2 * y + 1, 2 * x, c) \in Byte
            /\ Sample(p, 2 * y + 1, 2 * x + 1, c) \in Byte
        <5>1. ASSUME NEW v \in 0 .. H - 1, NEW u \in 0 .. W - 1
              PROVE  /\ Header(p)[v][3 * u + c] = Sample(p, v, u, c)
                     /\ Sample(p, v, u, c) \in Byte
          BY <1>2
        <5> QED BY <4>1, <5>1
      <4> DEFINE a == Sample(p, 2 * y, 2 * x, c)
                 b == Sample(p, 2 * y, 2 * x + 1, c)
                 d == Sample(p, 2 * y + 1, 2 * x, c)
                 e == Sample(p, 2 * y + 1, 2 * x + 1, c)
      <4>3. value(x, c) = (a + b + d + e + 2) \div 4
        BY <3>1, <4>2 DEF RunBox
      <4>4. Expected(p, y, x, c) = (a + b + d + e + 2) \div 4
        BY <3>1 DEF Expected
      <4>5. a \in Byte /\ b \in Byte /\ d \in Byte /\ e \in Byte
        BY <4>2
      <4> HIDE DEF a, b, d, e, value
      <4>6. (a + b + d + e + 2) \div 4 \in Byte
        BY <4>5 DEF Byte
      <4> QED BY <4>3, <4>4, <4>6
    <3>2. CASE mode # "box"
      <4> DEFINE across(v) == [u \in 0 .. W - 1 |-> Header(p)[v][3 * u + c]]
                 wanted(v) == [u \in 0 .. W - 1 |-> Sample(p, v, u, c)]
                 down == [v \in 0 .. H - 1 |-> Pass(x, W, across(v))]
      <4>1. mode = "antialias"
        BY <1>4, <3>2, FrameAssumption DEF FrameOK
      <4>2. value(x, c) = Pass(y, H, down)
        BY <3>2 DEF RunAntialias
      <4>3. Expected(p, y, x, c) = Triangle(y, H, [v \in 0 .. H - 1 |-> Triangle(x, W, wanted(v))])
        BY <4>1 DEF Expected, W, H
      <4>4. /\ 2 * x + 2 =< W /\ W % 2 = 0 /\ W \in Nat /\ x \in Nat
            /\ 2 * y + 2 =< H /\ H % 2 = 0 /\ H \in Nat /\ y \in Nat
        BY <1>1, <1>4
      <4> HIDE DEF value
      <4>5. ASSUME NEW v \in 0 .. H - 1
            PROVE  /\ Pass(x, W, across(v)) = Triangle(x, W, wanted(v))
                   /\ Pass(x, W, across(v)) \in Byte
        <5>1. across(v) = wanted(v) /\ wanted(v) \in [0 .. W - 1 -> Byte]
          BY <1>2
        <5> HIDE DEF across, wanted
        <5> QED BY <4>4, <5>1, PassIsTriangle
      <4>6. down \in [0 .. H - 1 -> Byte] /\ down = [v \in 0 .. H - 1 |-> Triangle(x, W, wanted(v))]
        <5> HIDE DEF across, wanted
        <5> QED BY <4>5
      <4> HIDE DEF down
      <4>7. Pass(y, H, down) = Triangle(y, H, down) /\ Pass(y, H, down) \in Byte
        BY <4>4, <4>6, PassIsTriangle
      <4> QED BY <4>2, <4>3, <4>6, <4>7
    <3> QED BY <3>1, <3>2
  <2> HIDE DEF value, row
  <2>3. ASSUME NEW k \in 0 .. 3 * ModelW - 1
        PROVE  k \div 3 \in 0 .. ModelW - 1 /\ k % 3 \in Colour
    BY <1>1 DEF Colour
  <2>4. row \in [0 .. 3 * ModelW - 1 -> Byte]
    BY <2>1, <2>2, <2>3
  <2>5. ASSUME NEW x \in 0 .. ModelW - 1, NEW c \in Colour
        PROVE  row[3 * x + c] = Expected(p, y, x, c)
    <3>1. 3 * x + c \in 0 .. 3 * ModelW - 1 /\ (3 * x + c) \div 3 = x /\ (3 * x + c) % 3 = c
      BY <1>1 DEF Colour
    <3> QED BY <2>1, <2>2, <3>1
  <2> QED BY <2>4, <2>5 DEF row
<1> QED BY <1>3, <1>4

\* The place of a pixel of the model in the input, and what should be there.
Place(p, k, y, x) == p * ImgElems + k * ModelH * ModelW + y * ModelW + x

Wanted(p, k, y, x) == <<Expected(p, y, x, IF swapRB THEN 2 - k ELSE k), k>>

FrameInv == /\ FrameOK /\ i \in Nat
            /\ DOMAIN input = 0 .. g.count * ImgElems - 1
            /\ InputExact

LEMMA InitFrame == Init => FrameInv
<1> SUFFICES ASSUME Init
             PROVE  FrameInv
  OBVIOUS
<1>1. FrameOK /\ i = 0 /\ input = [n \in 0 .. g.count * ImgElems - 1 |-> Stale]
  BY DEF Init, FrameOK
<1>2. ASSUME NEW p \in 0 .. g.count - 1, NEW k \in 0 .. 2,
             NEW y \in 0 .. ModelH - 1, NEW x \in 0 .. ModelW - 1
      PROVE  input[Place(p, k, y, x)] = Stale /\ ~(p < i)
  <2>1. Place(p, k, y, x) \in 0 .. g.count * ImgElems - 1
    BY <1>1, PlaceIs DEF Place
  <2> QED BY <1>1, <2>1
<1>3. InputExact
  BY <1>2 DEF InputExact, Place
<1> QED BY <1>1, <1>3 DEF FrameInv

LEMMA InputExactNext ==
  ASSUME UNCHANGED <<g, mode, swapRB, image>>, UNCHANGED <<ImgElems, ModelH, ModelW>>,
         \A p \in 0 .. g.count - 1, k \in 0 .. 2, y \in 0 .. ModelH - 1, x \in 0 .. ModelW - 1 :
           input'[Place(p, k, y, x)] = IF p < i' THEN Wanted(p, k, y, x) ELSE Stale
  PROVE  InputExact'
<1> SUFFICES ASSUME NEW p \in 0 .. g.count - 1, NEW plane \in 0 .. 2,
                    NEW y \in 0 .. ModelH - 1, NEW x \in 0 .. ModelW - 1
             PROVE  input'[p * ImgElems + plane * ModelH * ModelW + y * ModelW + x]
                      = IF p < i' THEN <<Expected(p, y, x, IF swapRB THEN 2 - plane ELSE plane)',
                                         plane>>
                        ELSE Stale
  BY DEF InputExact, Stale
<1>1. Expected(p, y, x, IF swapRB THEN 2 - plane ELSE plane)'
        = Expected(p, y, x, IF swapRB THEN 2 - plane ELSE plane)
  BY DEF Expected, Sample
<1> QED BY <1>1 DEF Place, Wanted

\* One turn of the loop writes the floats of its patch, and no others.
LEMMA StepFrame == FrameInv /\ [Next]_vars => FrameInv'
<1> SUFFICES ASSUME FrameInv, [Next]_vars
             PROVE  FrameInv'
  OBVIOUS
<1>1. UNCHANGED <<g, mode, swapRB, image>>
  BY DEF Next, FillPatch, vars
<1>2. /\ UNCHANGED <<ImgElems, ModelH, ModelW>>
      /\ FrameOK'
  BY <1>1 DEF FrameInv, FrameOK, ImgElems, ModelH, ModelW
<1>3. ASSUME NEW p \in 0 .. g.count - 1, NEW k \in 0 .. 2,
             NEW y \in 0 .. ModelH - 1, NEW x \in 0 .. ModelW - 1
      PROVE  /\ Place(p, k, y, x) \in DOMAIN input
             /\ input[Place(p, k, y, x)] = IF p < i THEN Wanted(p, k, y, x) ELSE Stale
  <2>1. Place(p, k, y, x) \in 0 .. g.count * ImgElems - 1
    BY PlaceIs DEF Place, FrameInv
  <2> QED BY <2>1 DEF FrameInv, InputExact, Place, Wanted
<1>4. CASE UNCHANGED vars
  <2>1. UNCHANGED <<i, input>>
    BY <1>4 DEF vars
  <2>2. ASSUME NEW p \in 0 .. g.count - 1, NEW k \in 0 .. 2,
               NEW y \in 0 .. ModelH - 1, NEW x \in 0 .. ModelW - 1
        PROVE  input'[Place(p, k, y, x)] = IF p < i' THEN Wanted(p, k, y, x) ELSE Stale
    BY <1>3, <2>1
  <2>3. InputExact'
    BY <1>1, <1>2, <2>2, InputExactNext
  <2> QED BY <1>1, <1>2, <2>1, <2>3 DEF FrameInv
<1>5. CASE FillPatch
  <2> DEFINE plane == ModelH * ModelW
             rows == [y \in 0 .. ModelH - 1 |->
                        ModelRow(mode, Header(i), g.stripWidth, g.patchHeight, y)]
             pixel(m) == <<PackRow(rows[(m % plane) \div ModelW], ModelW,
                                   Plane(m \div plane, swapRB), m % ModelW), m \div plane>>
  <2>1. /\ i < g.count /\ i' = i + 1
        /\ input' = [n \in DOMAIN input |-> IF n \div ImgElems = i THEN pixel(n % ImgElems)
                                            ELSE input[n]]
    BY <1>5 DEF FillPatch
  <2> HIDE DEF pixel
  <2>2. ASSUME NEW p \in 0 .. g.count - 1, NEW k \in 0 .. 2,
               NEW y \in 0 .. ModelH - 1, NEW x \in 0 .. ModelW - 1
        PROVE  input'[Place(p, k, y, x)] = IF p < i' THEN Wanted(p, k, y, x) ELSE Stale
    <3> DEFINE n == Place(p, k, y, x)
               m == n % ImgElems
    <3>1. /\ n \div ImgElems = p /\ m \div plane = k /\ (m % plane) \div ModelW = y
          /\ m % ModelW = x /\ n \in DOMAIN input
      BY <1>3, PlaceIs DEF Place, FrameInv
    <3> HIDE DEF n, m, plane
    <3>2. input'[n] = IF p = i THEN pixel(m) ELSE input[n]
      BY <2>1, <3>1 DEF m
    <3>3. p \in Nat /\ i \in Nat
      BY DEF FrameInv
    <3>4. CASE p # i
      <4>1. p < i <=> p < i'
        BY <2>1, <3>3, <3>4
      <4> QED BY <1>3, <3>2, <3>4, <4>1 DEF n
    <3>5. CASE p = i
      <4> DEFINE c == Plane(k, swapRB)
                 row == ModelRow(mode, Header(p), g.stripWidth, g.patchHeight, y)
      <4>1. c \in Colour
        BY DEF Plane, Colour, FrameInv, FrameOK
      <4>2. rows[y] = row
        BY <3>5
      <4>3. pixel(m) = <<PackRow(row, ModelW, c, x), k>>
        <5> HIDE DEF rows, row
        <5> QED BY <3>1, <4>2 DEF pixel
      <4>4. row \in [0 .. 3 * ModelW - 1 -> Byte] /\ row[3 * x + c] = Expected(p, y, x, c)
        <5>1. row \in [0 .. 3 * ModelW - 1 -> Byte]
              /\ \A xx \in 0 .. ModelW - 1, cc \in Colour : row[3 * xx + cc] = Expected(p, y, xx, cc)
          BY RowIs DEF FrameInv
        <5> HIDE DEF row, c
        <5> QED BY <4>1, <5>1
      <4>5. ModelW \in Nat
        BY Sizes DEF FrameInv
      <4>6. PackRow(row, ModelW, c, x) = Expected(p, y, x, c)
        <5> HIDE DEF row, c
        <5> QED BY <4>1, <4>4, <4>5, PackRowIsExact
      <4>7. pixel(m) = Wanted(p, k, y, x)
        BY <4>3, <4>6 DEF Wanted, Plane
      <4>8. p < i'
        BY <2>1, <3>3, <3>5
      <4> QED BY <3>2, <3>5, <4>7, <4>8 DEF n
    <3> QED BY <3>4, <3>5
  <2>3. InputExact'
    BY <1>1, <1>2, <2>2, InputExactNext
  <2>4. i' \in Nat /\ DOMAIN input' = 0 .. g.count * ImgElems - 1
    BY <2>1 DEF FrameInv
  <2> QED BY <1>1, <1>2, <2>3, <2>4 DEF FrameInv
<1> QED BY <1>4, <1>5 DEF Next

\* When the prep thread has passed patch i every float of the patches before it is the
\* one the model was trained on, in its plane, row and column, and nothing else has
\* been written (Stages.cpp:90-371, 411-420): for every accepted geometry, size,
\* channel order, picture and kind of downscaling.
THEOREM InputIsExact == Spec => []InputExact
<1>1. FrameInv => InputExact
  BY DEF FrameInv
<1> QED BY <1>1, InitFrame, StepFrame, PTL DEF Spec
=============================================================================
