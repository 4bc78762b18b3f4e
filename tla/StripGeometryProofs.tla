------------------------ MODULE StripGeometryProofs ------------------------
(***************************************************************************)
(* What the arithmetic of StripGeometry computes, for images of any size   *)
(* and every choice of the constants.                                      *)
(***************************************************************************)
EXTENDS StripGeometry, WellFoundedInduction, TLAPS

-----------------------------------------------------------------------------
(* Division *)

LEMMA DivMod ==
  ASSUME NEW n \in Nat, n > 0, NEW i \in Nat
  PROVE  /\ i = n * (i \div n) + (i % n)
         /\ i % n \in 0 .. n - 1 /\ i \div n \in Nat
OBVIOUS

LEMMA NoMultiple ==
  ASSUME NEW n \in Nat, NEW q \in Int, 0 - n < n * q, n * q < n
  PROVE  q = 0
<1>1. CASE q <= 0 - 1
  <2>1. n * q <= n * (0 - 1)
    BY <1>1
  <2> QED
    BY <2>1
<1>2. CASE q >= 1
  <2>1. n * q >= n * 1
    BY <1>2
  <2> QED
    BY <2>1
<1> QED
  BY <1>1, <1>2

LEMMA DivIs ==
  ASSUME NEW n \in Nat, n > 0, NEW i \in Nat, NEW q \in Int,
         n * q <= i, i < n * q + n
  PROVE  i \div n = q /\ i % n = i - n * q
<1> DEFINE d == (i \div n) - q
<1>1. d \in Int /\ n * d = n * (i \div n) - n * q
  BY DivMod
<1>2. n * (i \div n) = i - (i % n) /\ i % n \in 0 .. n - 1 /\ n * q \in Int
  BY DivMod
<1>3. 0 - n < n * d /\ n * d < n
  BY <1>1, <1>2
<1> HIDE DEF d
<1>4. d = 0
  BY <1>1, <1>3, NoMultiple
<1> QED
  BY <1>4, <1>2, DivMod DEF d

(* Rounding up. *)
LEMMA CeilDivIs ==
  ASSUME NEW a \in Nat, NEW b \in Nat, b > 0
  PROVE  /\ CeilDiv(a, b) \in Nat
         /\ a <= b * CeilDiv(a, b) /\ b * CeilDiv(a, b) < a + b
         /\ a > 0 => CeilDiv(a, b) > 0
<1> DEFINE i == a + b - 1
           c == i \div b
           r == i % b
<1>1. i \in Nat
  OBVIOUS
<1>2. i = b * c + r /\ r \in 0 .. b - 1 /\ c \in Nat
  <2> HIDE DEF i
  <2> QED
    BY <1>1, DivMod
<1>3. CeilDiv(a, b) = c
  BY DEF CeilDiv
<1>4. i = a + b - 1
  OBVIOUS
<1> HIDE DEF i, c, r
<1>5. b * c \in Int
  BY <1>2
<1>6. a <= b * c /\ b * c < a + b
  BY <1>2, <1>4, <1>5
<1>7. ASSUME a > 0
      PROVE  c > 0
  <2> SUFFICES ASSUME c = 0
               PROVE  FALSE
    BY <1>2
  <2>1. b * c = 0
    OBVIOUS
  <2> QED
    BY <1>6, <1>7, <2>1
<1> QED
  BY <1>2, <1>3, <1>6, <1>7

(* A set of naturals with a bound has a largest element. *)
LEMMA HasLargest ==
  ASSUME NEW b \in Nat, NEW S \in SUBSET (0 .. b), S # {}
  PROVE  \E x \in S : \A y \in S : y <= x
<1> DEFINE T == { n \in Nat : \E x \in S : n = b - x }
<1>1. T \subseteq Nat /\ T # {}
  <2>1. PICK x \in S : TRUE
    OBVIOUS
  <2>2. b - x \in T
    OBVIOUS
  <2> QED
    BY <2>2
<1>2. \E n \in T : \A m \in T : ~(<<m, n>> \in OpToRel(<, Nat))
  <2> HIDE DEF T
  <2> QED
    BY <1>1, WFMin, NatLessThanWellFounded
<1>3. PICK n \in T : \A m \in T : ~(m < n)
  BY <1>2 DEF OpToRel
<1>4. PICK x \in S : n = b - x
  OBVIOUS
<1>5. ASSUME NEW y \in S
      PROVE  y <= x
  <2>1. b - y \in T
    OBVIOUS
  <2>2. ~(b - y < b - x)
    BY <1>3, <1>4, <2>1
  <2> QED
    BY <2>2
<1> QED
  BY <1>5

LEMMA Distributes ==
  ASSUME NEW a \in Int, NEW b \in Int, NEW c \in Int
  PROVE  (a + b) * c = a * c + b * c
OBVIOUS

LEMMA LessTimes ==
  ASSUME NEW a \in Nat, NEW b \in Nat, NEW c \in Nat, a <= b
  PROVE  a * c <= b * c /\ a * c \in Nat /\ b * c \in Nat
<1>1. b = a + (b - a) /\ b - a \in Nat
  OBVIOUS
<1>2. b * c = a * c + (b - a) * c
  BY <1>1, Distributes
<1>3. a * c \in Nat /\ (b - a) * c \in Nat
  BY <1>1
<1> QED
  BY <1>2, <1>3

-----------------------------------------------------------------------------
(* Strips *)

ImageSizes == [height : Nat \ {0}, rowBytes : Nat \ {0}]

LEMMA ChunkHoldsHeader == HeaderSize < WRTSIZE /\ NominalStripHeight <= WRTSIZE
<1> DEFINE q == WRTSIZE \div NominalStripHeight
<1>1. q \in Nat /\ WRTSIZE = NominalStripHeight * q
  BY GeometryAssumption, DivMod
<1> HIDE DEF q
<1>2. q # 0
  <2>1. q = 0 => WRTSIZE = 0
    BY <1>1, GeometryAssumption
  <2> QED
    BY <2>1, GeometryAssumption
<1>3. 1 * NominalStripHeight <= q * NominalStripHeight
  BY <1>1, <1>2, LessTimes, GeometryAssumption
<1>4. q * NominalStripHeight = WRTSIZE
  BY <1>1, GeometryAssumption
<1> QED
  BY <1>3, <1>4, GeometryAssumption

(* Every image has a strip; all strips but the last have the nominal       *)
(* height, the last has the rest of the rows and at least one.             *)
LEMMA StripHeights ==
  ASSUME NEW image \in ImageSizes
  PROVE  LET n == NumStrips(image) IN
         /\ n \in Nat \ {0}
         /\ \A s \in Int : StripHeight(image, s) \in 1 .. NominalStripHeight
         /\ \A s \in Int : s < n - 1 => StripHeight(image, s) = NominalStripHeight
         /\ NominalStripHeight * (n - 1) + StripHeight(image, n - 1) = image.height
<1> DEFINE n == NumStrips(image)
           h == image.height
           k == NominalStripHeight
<1>1. h \in Nat /\ h > 0 /\ k \in Nat /\ k > 0
  BY GeometryAssumption DEF ImageSizes
<1>2. n \in Nat /\ n > 0 /\ h <= k * n /\ k * n < h + k
  BY <1>1, CeilDivIs DEF NumStrips
<1>3. \A s : StripHeight(image, s) =
              IF s < n - 1 \/ h % k = 0 THEN k ELSE h % k
  BY DEF StripHeight
<1> HIDE DEF n, h, k
<1>4. k * (n - 1) = k * n - k /\ k * n \in Int
  BY <1>1, <1>2
<1>5. h % k \in 0 .. k - 1
  BY <1>1, DivMod
<1>6. k * (n - 1) + (IF h % k = 0 THEN k ELSE h % k) = h
  <2>1. CASE h = k * n
    <3>1. h % k = h - k * n
      BY <2>1, <1>1, <1>2, <1>4, DivIs
    <3> QED
      BY <3>1, <2>1, <1>1, <1>2, <1>4
  <2>2. CASE h # k * n
    <3>1. n - 1 \in Int /\ k * (n - 1) <= h /\ h < k * (n - 1) + k
      BY <2>2, <1>1, <1>2, <1>4
    <3>2. h % k = h - k * (n - 1)
      BY <3>1, <1>1, DivIs
    <3>3. h % k # 0
      BY <3>2, <1>1, <1>2, <1>4
    <3> QED
      BY <3>2, <3>3, <3>1, <1>1
  <2> QED
    BY <2>1, <2>2
<1>7. \A s \in Int : StripHeight(image, s) \in 1 .. k
  BY <1>1, <1>2, <1>3, <1>5
<1>8. \A s \in Int : s < n - 1 => StripHeight(image, s) = k
  BY <1>3
<1>9. StripHeight(image, n - 1) = IF h % k = 0 THEN k ELSE h % k
  BY <1>3, <1>2
<1> QED
  BY <1>2, <1>6, <1>7, <1>8, <1>9 DEF n, h, k

(* The strips follow each other without a gap, from 0 to the end.          *)
LEMMA StripsFollow ==
  ASSUME NEW image \in ImageSizes
  PROVE  LET n == NumStrips(image) IN
         /\ LogicalOffset(image, 0) = 0
         /\ \A s \in Nat : /\ LogicalOffset(image, s) \in Nat
                           /\ LogicalLen(image, s) \in Nat \ {0}
                           /\ LogicalLen(image, s)
                                <= NominalStripHeight * image.rowBytes
         /\ \A s \in Nat : s < n - 1 =>
              LogicalOffset(image, s + 1) =
                LogicalOffset(image, s) + LogicalLen(image, s)
         /\ LogicalOffset(image, n - 1) + LogicalLen(image, n - 1) =
              image.height * image.rowBytes
         /\ \A s \in Nat : s < n =>
              LogicalOffset(image, s) + LogicalLen(image, s)
                <= image.height * image.rowBytes
<1> DEFINE n == NumStrips(image)
           w == image.rowBytes
           k == NominalStripHeight
           hs(s) == StripHeight(image, s)
<1>1. w \in Nat /\ w > 0 /\ k \in Nat /\ k > 0 /\ image.height \in Nat
  BY GeometryAssumption DEF ImageSizes
<1>2. n \in Nat \ {0}
  BY StripHeights
<1>3. /\ \A s \in Int : hs(s) \in 1 .. k
      /\ \A s \in Int : s < n - 1 => hs(s) = k
      /\ k * (n - 1) + hs(n - 1) = image.height
  BY StripHeights
<1>4. \A s : LogicalOffset(image, s) = s * k * w
  BY DEF LogicalOffset
<1>5. \A s : LogicalLen(image, s) = hs(s) * w
  BY DEF LogicalLen
<1> HIDE DEF n, w, k, hs
<1>6. LogicalOffset(image, 0) = 0
  BY <1>4, <1>1
<1>7. ASSUME NEW s \in Nat
      PROVE  /\ LogicalOffset(image, s) \in Nat
             /\ LogicalLen(image, s) \in Nat \ {0}
             /\ LogicalLen(image, s) <= k * w
  <2>1. s * k \in Nat /\ s * k * w \in Nat
    BY <1>1
  <2>2. hs(s) \in Nat /\ 1 <= hs(s) /\ hs(s) <= k
    BY <1>1, <1>3
  <2>3. 1 * w <= hs(s) * w /\ hs(s) * w <= k * w /\ hs(s) * w \in Nat
    BY <2>2, <1>1, LessTimes
  <2> QED
    BY <2>1, <2>3, <1>1, <1>4, <1>5
<1>8. ASSUME NEW s \in Nat, s < n - 1
      PROVE  LogicalOffset(image, s + 1) =
               LogicalOffset(image, s) + LogicalLen(image, s)
  <2>1. (s + 1) * k = s * k + k /\ s * k \in Int
    BY <1>1
  <2>2. (s * k + k) * w = s * k * w + k * w
    BY <2>1, <1>1, Distributes
  <2>3. hs(s) = k
    BY <1>3, <1>8
  <2> QED
    BY <2>1, <2>2, <2>3, <1>4, <1>5
<1>9. LogicalOffset(image, n - 1) + LogicalLen(image, n - 1) =
        image.height * w
  <2>1. (n - 1) * k = k * (n - 1) /\ (n - 1) * k \in Int /\ n - 1 \in Int
    BY <1>1, <1>2
  <2>2. hs(n - 1) \in Int
    BY <1>3, <2>1
  <2>3. ((n - 1) * k + hs(n - 1)) * w = (n - 1) * k * w + hs(n - 1) * w
    BY <2>1, <2>2, <1>1, Distributes
  <2> QED
    BY <2>1, <2>3, <1>3, <1>4, <1>5
<1>10. ASSUME NEW s \in Nat, s < n
       PROVE  LogicalOffset(image, s) + LogicalLen(image, s) <= image.height * w
  <2>1. CASE s = n - 1
    BY <2>1, <1>9, <1>7, <1>1
  <2>2. CASE s < n - 1
    <3>1. LogicalOffset(image, s) + LogicalLen(image, s) = (s + 1) * k * w
      BY <2>2, <1>8, <1>4
    <3>2. (s + 1) * k <= (n - 1) * k /\ (s + 1) * k \in Nat /\ (n - 1) * k \in Nat
      BY <2>2, <1>1, <1>2, LessTimes
    <3>3. (s + 1) * k * w <= (n - 1) * k * w
      BY <3>2, <1>1, LessTimes
    <3>4. (n - 1) * k * w = LogicalOffset(image, n - 1) /\ n - 1 \in Nat
      BY <1>2, <1>4
    <3> HIDE DEF LogicalOffset
    <3>5. LogicalOffset(image, n - 1) \in Nat /\ LogicalLen(image, n - 1) \in Nat
      BY <3>4, <1>7
    <3>6. (s + 1) * k * w \in Nat /\ image.height * w \in Nat
      BY <3>2, <1>1
    <3> QED
      BY <3>1, <3>3, <3>4, <3>5, <3>6, <1>9
  <2> QED
    BY <2>1, <2>2, <1>2, <1>10
<1> QED
  BY <1>6, <1>7, <1>8, <1>9, <1>10 DEF n, w, k
=============================================================================
