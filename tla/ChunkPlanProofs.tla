-------------------------- MODULE ChunkPlanProofs --------------------------
(***************************************************************************)
(* The properties of ChunkPlan, for images of any size and every choice of *)
(* the constants.                                                          *)
(*                                                                         *)
(* The file is divided into cells of WRTSIZE bytes.  A strip, the header   *)
(* included in strip 0, reaches from Begin to End, through the cells       *)
(* FirstCell to LastCell.  The inductive invariant (PlanInv) says that the *)
(* construction gives a strip the part of each of these cells that lies    *)
(* within it, and that IOChunk c is cell c - 1.                            *)
(***************************************************************************)
EXTENDS ChunkPlan, StripGeometryProofs, FiniteSetTheorems, SequenceTheorems

-----------------------------------------------------------------------------
(* Cells *)

At(c) == c * WRTSIZE

Cell(x) == x \div WRTSIZE

LEMMA AtStep ==
  /\ WRTSIZE \in Nat /\ 0 < WRTSIZE /\ At(0) = 0
  /\ \A c \in Int : At(c) \in Int /\ At(c + 1) = At(c) + WRTSIZE
  /\ \A c \in Nat : At(c) \in Nat
<1>1. WRTSIZE \in Nat /\ 0 < WRTSIZE
  BY GeometryAssumption
<1>2. ASSUME NEW c \in Int
      PROVE  At(c) \in Int /\ At(c + 1) = At(c) + WRTSIZE
  <2>1. (c + 1) * WRTSIZE = c * WRTSIZE + 1 * WRTSIZE
    BY <1>1, Distributes
  <2> QED
    BY <1>1, <2>1 DEF At
<1> QED
  BY <1>1, <1>2 DEF At

LEMMA AtLess ==
  ASSUME NEW a \in Nat, NEW b \in Nat, a < b
  PROVE  At(a) + WRTSIZE <= At(b)
<1>1. (a + 1) * WRTSIZE <= b * WRTSIZE
  BY AtStep, LessTimes
<1>2. At(a + 1) = At(a) + WRTSIZE
  BY AtStep
<1> QED
  BY <1>1, <1>2 DEF At

(* The distance between two cells. *)
LEMMA AtMinus ==
  ASSUME NEW a \in Int, NEW b \in Int
  PROVE  At(a) - At(b) = At(a - b) /\ At(a) + At(b) = At(a + b)
<1>1. (a + b) * WRTSIZE = a * WRTSIZE + b * WRTSIZE
  BY AtStep, Distributes
<1>2. ((a - b) + b) * WRTSIZE = (a - b) * WRTSIZE + b * WRTSIZE
  BY AtStep, Distributes
<1>3. (a - b) + b = a /\ At(a - b) \in Int /\ At(b) \in Int /\ At(a) \in Int
  BY AtStep
<1> QED
  BY <1>1, <1>2, <1>3 DEF At

LEMMA CellIs ==
  ASSUME NEW x \in Nat
  PROVE  /\ Cell(x) \in Nat
         /\ At(Cell(x)) <= x /\ x < At(Cell(x)) + WRTSIZE
         /\ IsAligned(x) <=> x = At(Cell(x))
         /\ \A c \in Int : At(c) <= x /\ x < At(c) + WRTSIZE => Cell(x) = c
<1> DEFINE w == WRTSIZE
           q == x \div w
           r == x % w
<1>1. w \in Nat /\ w > 0
  BY GeometryAssumption
<1>2. x = w * q + r /\ r \in 0 .. w - 1 /\ q \in Nat
  BY <1>1, DivMod
<1>3. Cell(x) = q /\ (IsAligned(x) <=> r = 0)
  BY DEF Cell, IsAligned
<1>4. ASSUME NEW c \in Int
      PROVE  At(c) = w * c
  BY <1>1, <1>4 DEF At
<1>5. ASSUME NEW c \in Int, At(c) <= x, x < At(c) + w
      PROVE  q = c
  <2> HIDE DEF w
  <2>1. w * c <= x /\ x < w * c + w
    BY <1>4, <1>5
  <2> QED
    BY <2>1, <1>1, DivIs
<1>6. At(q) = w * q
  BY <1>2, <1>4
<1> HIDE DEF w, q, r
<1>7. w * q \in Int
  BY <1>1, <1>2
<1>8. At(q) <= x /\ x < At(q) + w /\ (r = 0 <=> x = At(q))
  BY <1>2, <1>6, <1>7, <1>1
<1> QED
  BY <1>2, <1>3, <1>5, <1>8 DEF w

LEMMA AtAligned ==
  ASSUME NEW c \in Nat
  PROVE  IsAligned(At(c)) /\ Cell(At(c)) = c
<1>1. At(c) \in Nat /\ At(c) < At(c) + WRTSIZE
  BY AtStep
<1>2. Cell(At(c)) = c
  BY <1>1, CellIs
<1> QED
  BY <1>1, <1>2, CellIs

-----------------------------------------------------------------------------
(* The strips *)

IsStrip(m, s) == m \in ImageSizes /\ s \in 0 .. NumStrips(m) - 1

IsLast(m, s) == s = NumStrips(m) - 1

Begin(m, s) == StripOffset(s = 0, LogicalOffset(m, s))

End(m, s) == StripEnd(s = 0, LogicalOffset(m, s), LogicalLen(m, s))

(* The first byte of a strip that is not of the header. *)
Start(m, s) == IF s = 0 THEN HeaderSize ELSE Begin(m, s)

FirstCell(m, s) == Cell(Begin(m, s))

LastCell(m, s) == Cell(End(m, s) - 1)

LEMMA BeginEnd ==
  ASSUME NEW m, NEW s, IsStrip(m, s)
  PROVE  /\ Begin(m, s) = IF s = 0 THEN 0 ELSE HeaderSize + LogicalOffset(m, s)
         /\ End(m, s) = HeaderSize + LogicalOffset(m, s) + LogicalLen(m, s)
         /\ Start(m, s) = HeaderSize + LogicalOffset(m, s)
         /\ Begin(m, s) \in Nat /\ End(m, s) \in Nat /\ Start(m, s) \in Nat
         /\ Begin(m, s) <= Start(m, s) /\ Start(m, s) < End(m, s)
         /\ End(m, s) = Start(m, s) + LogicalLen(m, s)
         /\ HeaderSize + LogicalOffset(m, s) \in Nat
         /\ LogicalLen(m, s) \in Nat \ {0}
         /\ End(m, s) <= DataEnd(m)
         /\ IsLast(m, s) => End(m, s) = DataEnd(m)
<1>1. HeaderSize \in Nat /\ 0 < HeaderSize
  BY GeometryAssumption
<1>2. m \in ImageSizes /\ s \in Nat /\ s < NumStrips(m) /\ NumStrips(m) \in Nat \ {0}
  BY StripHeights DEF IsStrip
<1>3. /\ LogicalOffset(m, s) \in Nat /\ LogicalLen(m, s) \in Nat \ {0}
      /\ LogicalOffset(m, 0) = 0
      /\ LogicalOffset(m, s) + LogicalLen(m, s) <= m.height * m.rowBytes
      /\ s = NumStrips(m) - 1 =>
           LogicalOffset(m, s) + LogicalLen(m, s) = m.height * m.rowBytes
  BY <1>2, StripsFollow
<1>4. m.height * m.rowBytes \in Nat
  BY <1>2 DEF ImageSizes
<1> HIDE DEF LogicalOffset, LogicalLen
<1>5. /\ Begin(m, s) = IF s = 0 THEN 0 ELSE HeaderSize + LogicalOffset(m, s)
      /\ Start(m, s) = IF s = 0 THEN HeaderSize
                       ELSE HeaderSize + LogicalOffset(m, s)
  BY DEF Begin, Start, StripOffset
<1>6. CASE s = 0
  <2>1. End(m, s) = 0 + LogicalLen(m, s) + HeaderSize
    BY <1>6 DEF End, StripEnd, StripOffset
  <2> QED
    BY <1>1, <1>3, <1>4, <1>5, <1>6, <2>1 DEF DataEnd, IsLast
<1>7. CASE s # 0
  <2>1. End(m, s) = HeaderSize + LogicalOffset(m, s) + LogicalLen(m, s) + 0
    BY <1>7 DEF End, StripEnd, StripOffset
  <2> QED
    BY <1>1, <1>3, <1>4, <1>5, <1>7, <2>1 DEF DataEnd, IsLast
<1> QED
  BY <1>6, <1>7

(* A strip begins where the one before it ends. *)
LEMMA Neighbours ==
  ASSUME NEW m, NEW s, IsStrip(m, s), s > 0
  PROVE  IsStrip(m, s - 1) /\ ~IsLast(m, s - 1) /\ Begin(m, s) = End(m, s - 1)
<1>1. m \in ImageSizes /\ s \in Nat /\ s < NumStrips(m) /\ NumStrips(m) \in Nat
  BY StripHeights DEF IsStrip
<1>2. IsStrip(m, s - 1) /\ ~IsLast(m, s - 1) /\ s - 1 \in Nat
  BY <1>1 DEF IsStrip, IsLast
<1>3. LogicalOffset(m, (s - 1) + 1) =
        LogicalOffset(m, s - 1) + LogicalLen(m, s - 1)
  BY <1>1, <1>2, StripsFollow
<1>4. (s - 1) + 1 = s
  BY <1>1
<1>5. HeaderSize \in Nat /\ LogicalOffset(m, s - 1) \in Nat /\ LogicalLen(m, s - 1) \in Nat
  BY <1>1, <1>2, StripsFollow, GeometryAssumption
<1> HIDE DEF LogicalOffset, LogicalLen
<1>6. /\ Begin(m, s) = HeaderSize + LogicalOffset(m, s)
      /\ End(m, s - 1) = HeaderSize + LogicalOffset(m, s - 1) + LogicalLen(m, s - 1)
  BY <1>2, <1>1, BeginEnd
<1> QED
  BY <1>2, <1>3, <1>4, <1>5, <1>6

(* The boundary between two strips is never on a boundary of cells: it is  *)
(* a multiple of NominalStripHeight, behind the header, and that of cells  *)
(* one of WRTSIZE.                                                         *)
LEMMA SeamsUnaligned ==
  ASSUME NEW m, NEW s, IsStrip(m, s), ~IsLast(m, s)
  PROVE  ~IsAligned(End(m, s))
<1> SUFFICES ASSUME IsAligned(End(m, s))
             PROVE  FALSE
  OBVIOUS
<1> DEFINE k == NominalStripHeight
           q == WRTSIZE \div k
           e == Cell(End(m, s))
           w == m.rowBytes
           j == s + 1
<1>1. /\ m \in ImageSizes /\ s \in Nat /\ s < NumStrips(m) - 1
      /\ NumStrips(m) \in Nat
  BY StripHeights DEF IsStrip, IsLast
<1>2. /\ HeaderSize \in Nat /\ 0 < HeaderSize /\ HeaderSize < k
      /\ k \in Nat /\ w \in Nat /\ j \in Nat
  BY <1>1, GeometryAssumption DEF ImageSizes
<1>3. End(m, s) = HeaderSize + j * k * w
  <2>1. LogicalOffset(m, s + 1) = LogicalOffset(m, s) + LogicalLen(m, s)
    BY <1>1, StripsFollow
  <2>2. LogicalOffset(m, s + 1) = j * k * w
    BY DEF LogicalOffset
  <2>3. /\ LogicalOffset(m, s) \in Nat /\ LogicalLen(m, s) \in Nat
        /\ End(m, s) = HeaderSize + LogicalOffset(m, s) + LogicalLen(m, s)
    BY <1>1, StripsFollow, BeginEnd
  <2> HIDE DEF LogicalOffset, LogicalLen, j, k, w
  <2> QED
    BY <2>1, <2>2, <2>3, <1>2
<1>4. q \in Nat /\ WRTSIZE = k * q
  BY <1>2, GeometryAssumption, DivMod
<1>5. e \in Nat /\ End(m, s) = e * WRTSIZE
  BY BeginEnd, CellIs DEF At
<1> HIDE DEF k, q, e, w, j
<1>6. e * (k * q) = k * (e * q) /\ j * k * w = k * (j * w)
  BY <1>2, <1>4, <1>5
<1>7. e * q \in Nat /\ j * w \in Nat
  BY <1>2, <1>4, <1>5
<1> DEFINE a == e * q
           b == j * w
<1>8. a \in Nat /\ b \in Nat /\ k * a = HeaderSize + k * b
  BY <1>3, <1>4, <1>5, <1>6, <1>7
<1> HIDE DEF a, b
<1>9. k * (a - b) = k * a - k * b /\ k * a \in Int /\ k * b \in Int
  BY <1>2, <1>8
<1>10. k * (a - b) = HeaderSize
  BY <1>2, <1>8, <1>9
<1>11. a - b = 0
  BY <1>2, <1>8, <1>10, NoMultiple
<1>12. k * (a - b) = 0
  BY <1>2, <1>11
<1> QED
  BY <1>10, <1>12, <1>2

(* Where a strip lies among the cells. *)
LEMMA CellsOfStrip ==
  ASSUME NEW m, NEW s, IsStrip(m, s)
  PROVE  LET f == FirstCell(m, s)
             l == LastCell(m, s)
         IN  /\ f \in Nat /\ l \in Nat /\ f <= l
             /\ At(f) \in Nat /\ At(l) \in Nat
             /\ At(f) <= Begin(m, s) /\ Start(m, s) < At(f) + WRTSIZE
             /\ At(l) < End(m, s) /\ End(m, s) <= At(l) + WRTSIZE
             /\ f < l => At(f) + WRTSIZE <= At(l)
             /\ s = 0 => f = 0
             /\ s > 0 => At(f) < Begin(m, s) /\ f = LastCell(m, s - 1)
             /\ ~IsAligned(End(m, s)) =>
                  Cell(End(m, s)) = l /\ End(m, s) < At(l) + WRTSIZE
             /\ IsAligned(End(m, s)) =>
                  Cell(End(m, s)) = l + 1 /\ End(m, s) = At(l) + WRTSIZE
<1> DEFINE f == FirstCell(m, s)
           l == LastCell(m, s)
           b == Begin(m, s)
           e == End(m, s)
           st == Start(m, s)
<1>1. b \in Nat /\ e \in Nat /\ st \in Nat /\ b <= st /\ st < e /\ e - 1 \in Nat
  BY BeginEnd
<1>2. /\ f \in Nat /\ At(f) <= b /\ b < At(f) + WRTSIZE
      /\ IsAligned(b) <=> b = At(f)
  BY <1>1, CellIs DEF FirstCell
<1>3. l \in Nat /\ At(l) <= e - 1 /\ e - 1 < At(l) + WRTSIZE
  BY <1>1, CellIs DEF LastCell
<1>4. At(f) \in Nat /\ At(l) \in Nat /\ WRTSIZE \in Nat /\ WRTSIZE > 0
  BY <1>2, <1>3, AtStep
<1>5. s \in Nat
  BY DEF IsStrip
<1>6. At(l) < e /\ e <= At(l) + WRTSIZE
  <2> HIDE DEF l, e
  <2> QED
    BY <1>1, <1>3, <1>4
<1>7. f <= l
  <2> SUFFICES ASSUME l < f
               PROVE  FALSE
    BY <1>2, <1>3
  <2>1. At(l) + WRTSIZE <= At(f)
    BY <1>2, <1>3, AtLess
  <2> HIDE DEF l, e, f, b, st
  <2> QED
    BY <2>1, <1>1, <1>2, <1>4, <1>6
<1>8. f < l => At(f) + WRTSIZE <= At(l)
  BY <1>2, <1>3, AtLess
<1>9. ASSUME s = 0
      PROVE  f = 0 /\ st < At(f) + WRTSIZE
  <2>1. b = 0 /\ st = HeaderSize /\ HeaderSize \in Nat
    BY <1>9, BeginEnd, GeometryAssumption DEF Start
  <2>2. Cell(0) = 0
    BY AtAligned, AtStep
  <2> QED
    BY <2>1, <2>2, AtStep, ChunkHoldsHeader DEF FirstCell
<1>10. ASSUME s > 0
       PROVE  At(f) < b /\ f = LastCell(m, s - 1) /\ st < At(f) + WRTSIZE
  <2>1. IsStrip(m, s - 1) /\ ~IsLast(m, s - 1) /\ b = End(m, s - 1)
    BY <1>10, Neighbours
  <2>2. ~IsAligned(b)
    BY <2>1, SeamsUnaligned
  <2>3. At(f) < b
    <3> HIDE DEF f, b
    <3> QED
      BY <2>2, <1>1, <1>2, <1>4
  <2>4. st = b
    BY <1>10 DEF Start
  <2>5. LastCell(m, s - 1) = Cell(b - 1)
    BY <2>1 DEF LastCell
  <2> HIDE DEF f, b
  <2>6. b - 1 \in Nat /\ At(f) <= b - 1 /\ b - 1 < At(f) + WRTSIZE
    BY <2>3, <1>1, <1>2, <1>4
  <2>7. Cell(b - 1) = f
    BY <2>6, <1>2, CellIs
  <2> QED
    BY <2>3, <2>4, <2>5, <2>7, <1>2
<1>11. ASSUME ~IsAligned(e)
       PROVE  Cell(e) = l /\ e < At(l) + WRTSIZE
  <2>1. e # At(l) + WRTSIZE
    <3>1. At(l) + WRTSIZE = At(l + 1) /\ l + 1 \in Nat
      BY <1>3, AtStep
    <3> QED
      BY <3>1, <1>11, AtAligned
  <2> HIDE DEF e, l
  <2>2. At(l) <= e /\ e < At(l) + WRTSIZE
    BY <2>1, <1>1, <1>4, <1>6
  <2> QED
    BY <2>2, <1>1, <1>3, CellIs
<1>12. ASSUME IsAligned(e)
       PROVE  Cell(e) = l + 1 /\ e = At(l) + WRTSIZE
  <2>1. e = At(Cell(e)) /\ Cell(e) \in Nat
    BY <1>12, <1>1, CellIs
  <2>2. Cell(e) > l
    <3> SUFFICES ASSUME Cell(e) <= l
                 PROVE  FALSE
      BY <2>1, <1>3
    <3> HIDE DEF e, l
    <3>1. CASE Cell(e) = l
      BY <3>1, <2>1, <1>6, <1>4
    <3>2. CASE Cell(e) < l
      <4>1. At(Cell(e)) + WRTSIZE <= At(l)
        BY <3>2, <2>1, <1>3, AtLess
      <4> QED
        BY <4>1, <2>1, <1>6, <1>4, <1>1
    <3> QED
      BY <3>1, <3>2, <2>1, <1>3
  <2>3. At(l) + WRTSIZE = At(l + 1) /\ l + 1 \in Nat
    BY <1>3, AtStep
  <2>4. Cell(e) = l + 1
    <3> SUFFICES ASSUME l + 1 < Cell(e)
                 PROVE  FALSE
      BY <2>1, <2>2, <1>3
    <3>1. At(l + 1) + WRTSIZE <= At(Cell(e))
      BY <2>1, <2>3, AtLess
    <3> HIDE DEF e, l
    <3> QED
      BY <3>1, <2>1, <2>3, <1>6, <1>4, <1>1
  <2> QED
    BY <2>1, <2>3, <2>4
<1> QED
  BY <1>2, <1>3, <1>4, <1>5, <1>6, <1>7, <1>8, <1>9, <1>10, <1>11, <1>12

(* The strips before a strip end before it begins. *)
LEMMA EndsGrow ==
  ASSUME NEW m, NEW s, NEW t, IsStrip(m, s), IsStrip(m, t), s < t
  PROVE  End(m, s) <= Begin(m, t) /\ LastCell(m, s) <= FirstCell(m, t)
<1> DEFINE k == NominalStripHeight
           w == m.rowBytes
<1>1. /\ m \in ImageSizes /\ s \in Nat /\ t \in Nat /\ t < NumStrips(m)
      /\ NumStrips(m) \in Nat
  BY StripHeights DEF IsStrip
<1>2. HeaderSize \in Nat /\ k \in Nat /\ w \in Nat
  BY <1>1, GeometryAssumption DEF ImageSizes
<1>3. End(m, s) = HeaderSize + LogicalOffset(m, s + 1)
  <2>1. /\ IsStrip(m, s + 1) /\ s + 1 > 0 /\ s + 1 # 0
    BY <1>1 DEF IsStrip
  <2>2. Begin(m, s + 1) = End(m, (s + 1) - 1) /\ (s + 1) - 1 = s
    BY <2>1, <1>1, Neighbours
  <2> QED
    BY <2>1, <2>2, BeginEnd
<1>4. Begin(m, t) = HeaderSize + LogicalOffset(m, t)
  BY <1>1, BeginEnd
<1>5. (s + 1) * k <= t * k /\ (s + 1) * k \in Nat /\ t * k \in Nat
  BY <1>1, <1>2, LessTimes
<1>6. (s + 1) * k * w <= t * k * w /\ (s + 1) * k * w \in Nat /\ t * k * w \in Nat
  BY <1>5, <1>2, LessTimes
<1>7. End(m, s) <= Begin(m, t)
  BY <1>2, <1>3, <1>4, <1>6 DEF LogicalOffset
<1>8. LastCell(m, s) <= FirstCell(m, t)
  <2>1. /\ LastCell(m, s) \in Nat /\ At(LastCell(m, s)) < End(m, s)
        /\ FirstCell(m, t) \in Nat /\ t > 0
    BY <1>1, CellsOfStrip
  <2>2. /\ Begin(m, t) \in Nat /\ End(m, s) \in Nat /\ At(LastCell(m, s)) \in Nat
        /\ At(FirstCell(m, t)) \in Nat /\ WRTSIZE \in Nat
    BY BeginEnd, <2>1, AtStep
  <2>3. Begin(m, t) < At(FirstCell(m, t)) + WRTSIZE
    BY <2>2, CellIs DEF FirstCell
  <2>4. FirstCell(m, t) < LastCell(m, s) =>
          At(FirstCell(m, t)) + WRTSIZE <= At(LastCell(m, s))
    BY <2>1, AtLess
  <2> HIDE DEF k, w
  <2> QED
    BY <2>1, <2>2, <2>3, <2>4, <1>7
<1> QED
  BY <1>7, <1>8

-----------------------------------------------------------------------------
(* ChunkInfo *)

(* What the constructor of ChunkInfo computes, in terms of cells. *)
LEMMA ChunkInfoIs ==
  ASSUME NEW m, NEW s, IsStrip(m, s)
  PROVE  LET ci == ChunkInfo(m, s)
             f  == FirstCell(m, s)
             l  == LastCell(m, s)
         IN  /\ ci.isFirst = (s = 0) /\ ci.isFinal = IsLast(m, s)
             /\ ci.first.x0 = Begin(m, s)
             /\ ci.first.x1 = IF f = l THEN End(m, s) ELSE At(f) + WRTSIZE
             /\ ci.last.x0 = At(Cell(End(m, s)))
             /\ ci.last.x1 = End(m, s)
             /\ HasFirstSeam(ci) <=> s > 0
             /\ HasLastSeam(ci) <=> ~IsLast(m, s)
<1> DEFINE ci == ChunkInfo(m, s)
           f == FirstCell(m, s)
           l == LastCell(m, s)
           b == Begin(m, s)
           e == End(m, s)
           leftLast == IF s = 0 THEN 0
                       ELSE LastBegin(FALSE, LogicalOffset(m, s - 1),
                                             LogicalLen(m, s - 1))
<1>1. /\ f \in Nat /\ l \in Nat /\ f <= l /\ At(f) \in Nat /\ At(l) \in Nat
      /\ At(l) < e /\ e <= At(l) + WRTSIZE
      /\ f < l => At(f) + WRTSIZE <= At(l)
      /\ s = 0 => f = 0
      /\ s > 0 => At(f) < b
  BY CellsOfStrip
<1>2. b \in Nat /\ e \in Nat /\ WRTSIZE \in Nat /\ WRTSIZE > 0 /\ s \in Nat
  BY BeginEnd, AtStep DEF IsStrip
<1>3. leftLast = At(f)
  <2>1. CASE s = 0
    BY <2>1, <1>1, AtStep
  <2>2. CASE s # 0
    <3>1. IsStrip(m, s - 1) /\ b = End(m, s - 1) /\ s - 1 \in Int
      BY <2>2, <1>2, Neighbours
    <3>2. End(m, s - 1) = HeaderSize + LogicalOffset(m, s - 1) + LogicalLen(m, s - 1)
      BY <3>1, BeginEnd
    <3>3. StripEnd(FALSE, LogicalOffset(m, s - 1), LogicalLen(m, s - 1)) =
            HeaderSize + LogicalOffset(m, s - 1) + LogicalLen(m, s - 1) + 0
      BY DEF StripEnd, StripOffset
    <3>4. HeaderSize + LogicalOffset(m, s - 1) \in Nat /\ LogicalLen(m, s - 1) \in Nat
      BY <3>1, BeginEnd
    <3>5. StripEnd(FALSE, LogicalOffset(m, s - 1), LogicalLen(m, s - 1)) = b
      <4> DEFINE x == HeaderSize + LogicalOffset(m, s - 1)
                 y == LogicalLen(m, s - 1)
                 z == StripEnd(FALSE, LogicalOffset(m, s - 1),
                                      LogicalLen(m, s - 1))
      <4>1. /\ z = x + y + 0
            /\ x \in Nat /\ y \in Nat /\ b = x + y
        BY <3>1, <3>2, <3>3, <3>4
      <4>2. z = b
        <5> HIDE DEF x, y, z, b
        <5> QED
          BY <4>1
      <4> QED
        BY <4>2
    <3>6. leftLast = Cell(b) * WRTSIZE
      BY <2>2, <3>5 DEF LastBegin, Cell
    <3> QED
      BY <3>6 DEF At, FirstCell
  <2> QED
    BY <2>1, <2>2
<1>4. /\ ci.isFirst = (s = 0) /\ ci.isFinal = IsLast(m, s)
      /\ ci.first.x0 = b
      /\ ci.first.x1 = IF leftLast + WRTSIZE < e THEN leftLast + WRTSIZE ELSE e
      /\ ci.last.x1 = e
  BY DEF ChunkInfo, Begin, End, IsLast
<1>5. ci.last.x0 = At(Cell(e))
  BY DEF ChunkInfo, LastBegin, End, At, Cell
<1>6. (IF At(f) + WRTSIZE < e THEN At(f) + WRTSIZE ELSE e) =
        IF f = l THEN e ELSE At(f) + WRTSIZE
  <2> HIDE DEF f, l, e, b
  <2> QED
    BY <1>1, <1>2
<1>7. HasFirstSeam(ci) <=> s > 0
  <2>1. HasFirstSeam(ci) <=> s # 0 /\ ~IsAligned(b)
    BY <1>4 DEF HasFirstSeam
  <2>2. s # 0 => ~IsAligned(b)
    <3> SUFFICES ASSUME s # 0
                 PROVE  ~IsAligned(b)
      OBVIOUS
    <3>1. IsStrip(m, s - 1) /\ ~IsLast(m, s - 1) /\ b = End(m, s - 1)
      BY <1>2, Neighbours
    <3> QED
      BY <3>1, SeamsUnaligned
  <2>3. s # 0 <=> s > 0
    BY <1>2
  <2> QED
    BY <2>1, <2>2, <2>3
<1>8. HasLastSeam(ci) <=> ~IsLast(m, s)
  <2>1. HasLastSeam(ci) <=> ~IsLast(m, s) /\ ~IsAligned(e)
    BY <1>4 DEF HasLastSeam
  <2> QED
    BY <2>1, SeamsUnaligned
<1> HIDE DEF ci, f, l, b, e, leftLast
<1> QED
  BY <1>3, <1>4, <1>5, <1>6, <1>7, <1>8 DEF ci, f, l, b, e

(* The rounding up in numChunks(). *)
LEMMA CellsBetween ==
  ASSUME NEW a \in Nat, NEW l \in Nat, NEW e \in Nat, a <= l,
         At(l) < e, e <= At(l) + WRTSIZE
  PROVE  CeilDiv(e - At(a), WRTSIZE) = l - a + 1 /\ e - At(a) >= 0
<1> DEFINE d == e - At(a)
           x == d + WRTSIZE - 1
<1>1. /\ WRTSIZE \in Nat /\ WRTSIZE > 0 /\ At(a) \in Nat /\ At(l) \in Nat
      /\ At(l) - At(a) = At(l - a) /\ At(l - a) \in Nat /\ l - a \in Nat
      /\ At(l - a + 1) = At(l - a) + WRTSIZE /\ l - a + 1 \in Nat
  <2>1. l - a \in Nat /\ l - a + 1 \in Nat /\ l - a \in Int
    OBVIOUS
  <2>2. At(l - a + 1) = At(l - a) + WRTSIZE /\ At(l - a) \in Nat
    BY <2>1, AtStep
  <2> QED
    BY <2>1, <2>2, AtStep, AtMinus
<1> DEFINE al == At(l)
           aa == At(a)
           a1 == At(l - a + 1)
           ad == At(l - a)
<1>2. x \in Nat /\ a1 <= x /\ x < a1 + WRTSIZE /\ d >= 0
  <2>1. /\ aa \in Nat /\ al \in Nat /\ al - aa = ad /\ ad \in Nat
        /\ a1 = ad + WRTSIZE /\ al < e /\ e <= al + WRTSIZE
    BY <1>1
  <2>2. d = e - aa /\ x = d + WRTSIZE - 1
    OBVIOUS
  <2> HIDE DEF al, aa, a1, ad, d, x
  <2> QED
    BY <2>1, <2>2, <1>1
<1>3. Cell(x) = l - a + 1
  <2> HIDE DEF x
  <2> QED
    BY <1>1, <1>2, CellIs
<1> QED
  BY <1>2, <1>3 DEF CeilDiv, Cell

LEMMA NumChunksIs ==
  ASSUME NEW m, NEW s, IsStrip(m, s)
  PROVE  /\ NumChunks(ChunkInfo(m, s)) = LastCell(m, s) - FirstCell(m, s) + 1
         /\ ChunkInfoAsserts(ChunkInfo(m, s))
         /\ CellsOf(m, s) = FirstCell(m, s) .. LastCell(m, s)
<1> DEFINE ci == ChunkInfo(m, s)
           f == FirstCell(m, s)
           l == LastCell(m, s)
           b == Begin(m, s)
           e == End(m, s)
           c == Cell(e)
           last == IsLast(m, s)
           g == IF s > 0 THEN f + 1 ELSE f
<1>1. /\ f \in Nat /\ l \in Nat /\ f <= l /\ At(f) \in Nat /\ At(l) \in Nat
      /\ At(f) <= b /\ b < At(f) + WRTSIZE
      /\ At(l) < e /\ e <= At(l) + WRTSIZE
      /\ f < l => At(f) + WRTSIZE <= At(l)
      /\ s = 0 => f = 0
      /\ IsAligned(e) => c = l + 1 /\ e = At(l) + WRTSIZE
      /\ ~IsAligned(e) => c = l
  <2>1. Start(m, s) < At(f) + WRTSIZE /\ b <= Start(m, s) /\ b \in Nat
        /\ Start(m, s) \in Nat /\ At(f) \in Nat /\ WRTSIZE \in Nat
    BY CellsOfStrip, BeginEnd, AtStep
  <2>2. b < At(f) + WRTSIZE
    <3> HIDE DEF f, b
    <3> QED
      BY <2>1
  <2> QED
    BY CellsOfStrip, <2>2
<1>2. b \in Nat /\ e \in Nat /\ WRTSIZE \in Nat /\ WRTSIZE > 0 /\ s \in Nat /\ b < e
  <2>1. b <= Start(m, s) /\ Start(m, s) < e /\ Start(m, s) \in Nat /\ b \in Nat /\ e \in Nat
    BY BeginEnd
  <2> QED
    BY <2>1, AtStep DEF IsStrip
<1>3. /\ ci.isFinal = last
      /\ ci.first.x0 = b
      /\ ci.first.x1 = IF f = l THEN e ELSE At(f) + WRTSIZE
      /\ ci.last.x0 = At(c) /\ ci.last.x1 = e
      /\ HasFirstSeam(ci) <=> s > 0
      /\ HasLastSeam(ci) <=> ~last
  BY ChunkInfoIs
<1>4. ~last => c = l
  BY <1>1, SeamsUnaligned
<1>5. c \in Nat /\ At(c) \in Nat /\ l <= c /\ IsAligned(At(c)) /\ At(c) <= e
  <2>1. c \in Nat /\ At(c) <= e
    BY <1>2, CellIs
  <2>2. l <= c
    <3> HIDE DEF l, c
    <3> QED
      BY <1>1
  <2> QED
    BY <2>1, <2>2, AtAligned, AtStep
<1>6. (ci.first.x1 = ci.last.x1) <=> f = l
  <2> HIDE DEF ci, f, l, b, e, c, last
  <2> QED
    BY <1>1, <1>2, <1>3
<1>7. ASSUME f < l
      PROVE  /\ NonSeam(ci).x0 = At(g)
             /\ NonSeam(ci).x1 = IF last THEN e ELSE At(l)
             /\ g \in Nat /\ g <= l /\ At(g) \in Nat
  <2>1. ci.first.x1 = At(f + 1)
    BY <1>7, <1>3, <1>1, AtStep
  <2>2. s = 0 => b = At(f)
    <3>1. s = 0 => b = 0
      BY BeginEnd
    <3> QED
      BY <3>1, <1>1, AtStep
  <2>3. NonSeam(ci).x0 = IF s > 0 THEN ci.first.x1 ELSE ci.first.x0
    BY <1>3 DEF NonSeam
  <2>4. NonSeam(ci).x1 = IF ~last THEN ci.last.x0 ELSE ci.last.x1
    BY <1>3 DEF NonSeam
  <2>5. s > 0 \/ s = 0
    BY <1>2
  <2>6. NonSeam(ci).x0 = At(g)
    BY <2>1, <2>2, <2>3, <2>5, <1>3
  <2>7. NonSeam(ci).x1 = IF last THEN e ELSE At(l)
    BY <2>4, <1>3, <1>4
  <2>8. g \in Nat /\ g <= l
    <3> HIDE DEF f, l
    <3> QED
      BY <1>7, <1>1
  <2> QED
    BY <2>6, <2>7, <2>8, AtStep
<1>8. ASSUME f < l
      PROVE  /\ CeilDiv(DimLen(NonSeam(ci)), WRTSIZE) = IF last THEN l - g + 1 ELSE l - g
             /\ DimLen(NonSeam(ci)) >= 0
  <2>1. DimLen(NonSeam(ci)) = (IF last THEN e ELSE At(l)) - At(g)
    BY <1>7, <1>8 DEF DimLen
  <2>2. g \in Nat /\ g <= l /\ At(g) \in Nat
    BY <1>7, <1>8
  <2>3. CASE last
    BY <2>1, <2>2, <2>3, <1>1, <1>2, CellsBetween
  <2>4. CASE ~last
    <3>1. CASE g = l
      <4>1. DimLen(NonSeam(ci)) = 0
        BY <2>1, <2>4, <3>1, <1>1
      <4>2. Cell(WRTSIZE - 1) = 0
        <5>1. /\ WRTSIZE - 1 \in Nat /\ At(0) <= WRTSIZE - 1
              /\ WRTSIZE - 1 < At(0) + WRTSIZE
          BY <1>2, AtStep
        <5> QED
          BY <5>1, CellIs
      <4>3. 0 + WRTSIZE - 1 = WRTSIZE - 1
        BY <1>2
      <4>4. CeilDiv(DimLen(NonSeam(ci)), WRTSIZE) = 0
        BY <4>1, <4>2, <4>3 DEF CeilDiv, Cell
      <4> QED
        BY <4>1, <4>4, <3>1, <2>4, <1>1
    <3>2. CASE g < l
      <4>1. l - 1 \in Nat /\ g <= l - 1 /\ At((l - 1) + 1) = At(l - 1) + WRTSIZE
            /\ (l - 1) + 1 = l /\ At(l - 1) \in Nat
        BY <3>2, <2>2, <1>1, AtStep
      <4>2. At(l - 1) < At(l) /\ At(l) <= At(l - 1) + WRTSIZE
        BY <4>1, <1>1, <1>2
      <4>3. /\ CeilDiv(At(l) - At(g), WRTSIZE) = l - 1 - g + 1
            /\ At(l) - At(g) >= 0
        BY <4>1, <4>2, <2>2, <1>1, CellsBetween
      <4>4. l - 1 - g + 1 = l - g
        BY <1>1, <2>2
      <4> QED
        BY <4>3, <4>4, <2>1, <2>4
    <3> QED
      BY <3>1, <3>2, <2>2, <1>1
  <2> QED
    BY <2>3, <2>4
<1>9. NumChunks(ci) = l - f + 1
  <2>1. CASE f = l
    <3>1. NumChunks(ci) = 1
      BY <2>1, <1>6 DEF NumChunks
    <3> QED
      BY <2>1, <3>1, <1>1
  <2>2. CASE f # l
    <3>1. f < l
      BY <2>2, <1>1
    <3>2. NumChunks(ci) = CeilDiv(DimLen(NonSeam(ci)), WRTSIZE)
             + (IF s > 0 THEN 1 ELSE 0) + (IF ~last THEN 1 ELSE 0)
      BY <2>2, <1>6, <1>3 DEF NumChunks
    <3>3. NumChunks(ci) = (IF last THEN l - g + 1 ELSE l - g)
             + (IF s > 0 THEN 1 ELSE 0) + (IF ~last THEN 1 ELSE 0)
      BY <3>1, <3>2, <1>8
    <3>4. f \in Nat /\ l \in Nat
      BY <1>1
    <3> HIDE DEF f, l, last
    <3> QED
      BY <3>3, <3>4
  <2> QED
    BY <2>1, <2>2
<1>10. ChunkInfoAsserts(ci)
  <2>1. IsAligned(ci.last.x0)
    BY <1>3, <1>5
  <2>2. f < l => /\ (ci.last.x0 - ci.first.x1) % WRTSIZE = 0
                 /\ ci.first.x1 <= ci.last.x0
    <3> SUFFICES ASSUME f < l
                 PROVE  /\ (ci.last.x0 - ci.first.x1) % WRTSIZE = 0
                        /\ ci.first.x1 <= ci.last.x0
      OBVIOUS
    <3>1. ci.first.x1 = At(f + 1) /\ ci.last.x0 = At(c)
      BY <1>3, <1>1, AtStep
    <3>2. f + 1 \in Nat /\ f + 1 <= c /\ c - (f + 1) \in Nat
      BY <1>1, <1>5
    <3>3. At(c) - At(f + 1) = At(c - (f + 1)) /\ At(f + 1) \in Nat
      BY <3>2, <1>5, AtMinus, AtStep
    <3>4. At(c - (f + 1)) % WRTSIZE = 0 /\ At(c - (f + 1)) \in Nat
      BY <3>2, AtAligned, AtStep DEF IsAligned
    <3>5. At(f + 1) <= At(c)
      <4> HIDE DEF f, c
      <4> QED
        BY <3>3, <3>4, <1>5
    <3> QED
      BY <3>1, <3>3, <3>4, <3>5
  <2>3. DimLen(ci.first) >= 0 /\ DimLen(ci.last) >= 0
    <3>1. DimLen(ci.first) = (IF f = l THEN e ELSE At(f) + WRTSIZE) - b
      BY <1>3 DEF DimLen
    <3>2. DimLen(ci.last) = e - At(c)
      BY <1>3 DEF DimLen
    <3> HIDE DEF f, l, e, b, c, ci
    <3> QED
      BY <3>1, <3>2, <1>1, <1>2, <1>5
  <2>4. f < l => /\ IsAligned(NonSeam(ci).x0)
                 /\ last \/ IsAligned(NonSeam(ci).x1)
                 /\ NumChunks(ci) > 1
    <3>1. f < l => NumChunks(ci) > 1
      <4> HIDE DEF ci, f, l
      <4> QED
        BY <1>9, <1>1
    <3> QED
      BY <3>1, <1>1, <1>7, AtAligned
  <2>5. f = l \/ f < l
    BY <1>1
  <2> QED
    BY <2>1, <2>2, <2>3, <2>4, <2>5, <1>3, <1>6, <1>8 DEF ChunkInfoAsserts
<1>11. CellsOf(m, s) = f .. l
  <2>1. CellsOf(m, s) = Cell(b) .. Cell(b) + NumChunks(ci) - 1
    BY <1>3 DEF CellsOf, Cell
  <2>2. Cell(b) = f
    BY DEF FirstCell
  <2>3. f + (l - f + 1) - 1 = l
    <3> HIDE DEF f, l
    <3> QED
      BY <1>1
  <2> QED
    BY <2>1, <2>2, <2>3, <1>9
<1> QED
  BY <1>9, <1>10, <1>11

-----------------------------------------------------------------------------
(* The parts of a strip *)

(* Where the part of strip s in cell c begins and ends in the file. *)
From(m, s, c) == IF c = FirstCell(m, s) THEN Start(m, s) ELSE At(c)

To(m, s, c) == IF c = LastCell(m, s) THEN End(m, s) ELSE At(c) + WRTSIZE

PartIn(m, s, c) ==
  StripChunk(c + 1, From(m, s, c) - At(c), To(m, s, c) - From(m, s, c))

NumCells(m, s) == LastCell(m, s) - FirstCell(m, s) + 1

PartsAt(m, s) ==
  [k \in 1 .. NumCells(m, s) |-> PartIn(m, s, FirstCell(m, s) + k - 1)]

LEMMA PartFacts ==
  ASSUME NEW m, NEW s, IsStrip(m, s),
         NEW c \in FirstCell(m, s) .. LastCell(m, s)
  PROVE  /\ c \in Nat /\ At(c) \in Nat
         /\ From(m, s, c) \in Nat /\ To(m, s, c) \in Nat
         /\ At(c) <= From(m, s, c) /\ From(m, s, c) < To(m, s, c)
         /\ To(m, s, c) <= At(c) + WRTSIZE
         /\ To(m, s, c) <= End(m, s)
         /\ c < LastCell(m, s) => To(m, s, c) = From(m, s, c + 1)
<1> DEFINE f == FirstCell(m, s)
           l == LastCell(m, s)
           b == Begin(m, s)
           e == End(m, s)
           st == Start(m, s)
<1>1. /\ f \in Nat /\ l \in Nat /\ f <= l /\ At(f) \in Nat /\ At(l) \in Nat
      /\ At(f) <= b /\ st < At(f) + WRTSIZE
      /\ At(l) < e /\ e <= At(l) + WRTSIZE
  BY CellsOfStrip
<1>2. b \in Nat /\ e \in Nat /\ st \in Nat /\ b <= st /\ st < e
  BY BeginEnd
<1>3. WRTSIZE \in Nat /\ 0 < WRTSIZE
  BY AtStep
<1>4. c \in Nat /\ f <= c /\ c <= l /\ At(c) \in Nat
  BY <1>1, AtStep
<1>5. /\ From(m, s, c) = IF c = f THEN st ELSE At(c)
      /\ To(m, s, c) = IF c = l THEN e ELSE At(c) + WRTSIZE
  BY DEF From, To
<1>6. c < l => /\ At(c) + WRTSIZE <= At(l)
               /\ From(m, s, c + 1) = At(c) + WRTSIZE
  <2> SUFFICES ASSUME c < l
               PROVE  /\ At(c) + WRTSIZE <= At(l)
                      /\ From(m, s, c + 1) = At(c) + WRTSIZE
    OBVIOUS
  <2>1. c + 1 # f
    <3> HIDE DEF f, l
    <3> QED
      BY <1>1, <1>4
  <2>2. From(m, s, c + 1) = At(c + 1)
    BY <2>1 DEF From
  <2> QED
    BY <2>2, <1>1, <1>4, AtStep, AtLess
<1> HIDE DEF f, l, b, e, st
<1> QED
  BY <1>1, <1>2, <1>3, <1>4, <1>5, <1>6 DEF l, e

-----------------------------------------------------------------------------
(* IOChunks *)

Chunk(offset, len, shareCount) ==
  [offset |-> offset, len |-> len, shareCount |-> shareCount]

LEMMA ChunkFields ==
  ASSUME NEW o, NEW l, NEW q
  PROVE  /\ Chunk(o, l, q).offset = o /\ Chunk(o, l, q).len = l
         /\ Chunk(o, l, q).shareCount = q
BY DEF Chunk

LEMMA ExtendIs ==
  ASSUME NEW o \in Nat, NEW l \in Nat, NEW q \in Nat, NEW x \in Nat, NEW y \in Nat
  PROVE  Extend(Chunk(o, l, q), x, y) =
           Chunk(o, IF q > 1 /\ o + l = x THEN l + y ELSE l, q)
BY DEF Extend, Chunk

LEMMA ShareIs ==
  ASSUME NEW o, NEW l, NEW q
  PROVE  Share(Chunk(o, l, q)) = Chunk(o, l, q + 1)
BY DEF Share, Chunk

LEMMA TrimIs ==
  ASSUME NEW o, NEW l, NEW q, NEW ci
  PROVE  Trim(ci, Chunk(o, l, q)) =
           Chunk(o, IF ci.isFinal THEN DimLen(ci.last) ELSE l, q)
BY DEF Trim, Chunk

LEMMA NewIs ==
  ASSUME NEW o, NEW l, NEW shared
  PROVE  IOChunk(o, l, shared) = Chunk(o, l, IF shared THEN 2 ELSE 1)
BY DEF IOChunk, Chunk

(* The length of an IOChunk once strip s has been built: it is full, but   *)
(* for the last one of the image, and for one that begins the file, which  *)
(* grows with every strip.                                                 *)
LenAfter(m, s, c) ==
  IF c = LastCell(m, s) /\ IsLast(m, s) THEN End(m, s) - At(Cell(End(m, s)))
  ELSE IF c = LastCell(m, s) /\ c = 0 THEN End(m, s)
  ELSE WRTSIZE

(* The IOChunks before strip s is built: the last of them is shared with s. *)
Ready(m, s) ==
  /\ IsStrip(m, s)
  /\ s = 0 => ioChunks = <<>>
  /\ s > 0 =>
       /\ ioChunks \in Seq([offset : Nat, len : Nat, shareCount : Nat \ {0}])
       /\ Len(ioChunks) = FirstCell(m, s) + 1
       /\ LeftFinal = FirstCell(m, s) + 1
       /\ \A c \in 0 .. FirstCell(m, s) :
            ioChunks[c + 1] = Chunk(At(c), LenAfter(m, s - 1, c),
                                    ioChunks[c + 1].shareCount)
       /\ ioChunks[FirstCell(m, s) + 1].shareCount > 1

(* How many strips count as sharers of cell c once strip s is built. *)
SharedAfter(m, s, c) ==
  (IF s > 0 /\ c <= FirstCell(m, s) THEN ioChunks[c + 1].shareCount ELSE 1)
  + (IF c = LastCell(m, s) /\ ~IsLast(m, s) THEN 1 ELSE 0)

ChunksAfter(m, s) ==
  [k \in 1 .. LastCell(m, s) + 1 |->
     Chunk(At(k - 1), LenAfter(m, s, k - 1), SharedAfter(m, s, k - 1))]

(* The images whose construction comes to an end: the data does not end on *)
(* a boundary of cells, or fills just the first one.                       *)
Sound(m, s) == ~IsAligned(End(m, s)) \/ (s = 0 /\ LastCell(m, s) = 0)

(* The length of the chunk that a strip shares with the one before it. *)
LEMMA SeamLen ==
  ASSUME NEW m, NEW s, IsStrip(m, s), s > 0
  PROVE  \A c \in 0 .. FirstCell(m, s) :
           LenAfter(m, s - 1, c) =
             IF c = FirstCell(m, s) /\ c = 0 THEN Begin(m, s) ELSE WRTSIZE
<1>1. /\ ~IsLast(m, s - 1) /\ Begin(m, s) = End(m, s - 1)
      /\ FirstCell(m, s) = LastCell(m, s - 1)
  BY Neighbours, CellsOfStrip
<1> QED
  BY <1>1 DEF LenAfter

(* An IOChunk in front of the cells of strip s stays as it is. *)
LEMMA OldChunk ==
  ASSUME NEW m, NEW s, Ready(m, s), s > 0,
         NEW k \in 1 .. FirstCell(m, s) + 1, k # FirstCell(m, s) + 1
  PROVE  ioChunks[k] =
           Chunk(At(k - 1), LenAfter(m, s, k - 1), SharedAfter(m, s, k - 1))
<1> DEFINE f == FirstCell(m, s)
           l == LastCell(m, s)
<1>1. f \in Nat /\ l \in Nat /\ f <= l /\ IsStrip(m, s)
  BY CellsOfStrip DEF Ready
<1>2. /\ k - 1 \in 0 .. f /\ k - 1 # f /\ k - 1 # l /\ (k - 1) + 1 = k
      /\ k - 1 <= f /\ k \in 1 .. f + 1
  <2>1. k \in 1 .. f + 1 /\ k # f + 1
    OBVIOUS
  <2> HIDE DEF f, l
  <2> QED
    BY <2>1, <1>1
<1>3. /\ ioChunks \in Seq([offset : Nat, len : Nat, shareCount : Nat \ {0}])
      /\ Len(ioChunks) = f + 1
      /\ \A c \in 0 .. f : ioChunks[c + 1] =
           Chunk(At(c), LenAfter(m, s - 1, c), ioChunks[c + 1].shareCount)
  BY DEF Ready
<1>4. ioChunks[k] = Chunk(At(k - 1), LenAfter(m, s - 1, k - 1), ioChunks[k].shareCount)
  BY <1>2, <1>3
<1>5. LenAfter(m, s - 1, k - 1) = WRTSIZE
  BY <1>1, <1>2, SeamLen
<1>6. LenAfter(m, s, k - 1) = WRTSIZE
  BY <1>2 DEF LenAfter
<1>7. ioChunks[k].shareCount \in Nat
  <2>1. ioChunks[k] \in [offset : Nat, len : Nat, shareCount : Nat \ {0}]
    BY <1>2, <1>3, ElementOfSeq
  <2> QED
    BY <2>1
<1>8. SharedAfter(m, s, k - 1) = ioChunks[k].shareCount
  <2>1. SharedAfter(m, s, k - 1) = ioChunks[(k - 1) + 1].shareCount + 0
    BY <1>2 DEF SharedAfter
  <2> QED
    BY <2>1, <1>2, <1>7
<1> QED
  BY <1>4, <1>5, <1>6, <1>8

-----------------------------------------------------------------------------
(* A strip within one cell *)

LEMMA SingleParts ==
  ASSUME NEW m, NEW s, IsStrip(m, s), FirstCell(m, s) = LastCell(m, s)
  PROVE  PartsAt(m, s) =
           << StripChunk(FirstCell(m, s) + 1,
                         Start(m, s) - At(FirstCell(m, s)),
                         End(m, s) - Start(m, s)) >>
<1> DEFINE f == FirstCell(m, s)
           p == StripChunk(f + 1, Start(m, s) - At(f), End(m, s) - Start(m, s))
<1>1. f \in Nat
  BY CellsOfStrip
<1>2. NumCells(m, s) = 1 /\ f + 1 - 1 = f
  <2> HIDE DEF f
  <2>1. NumCells(m, s) = f - f + 1
    BY DEF NumCells, f
  <2> QED
    BY <1>1, <2>1
<1>3. PartIn(m, s, f) = p
  BY DEF PartIn, From, To
<1>4. PartsAt(m, s) = [k \in 1 .. 1 |-> PartIn(m, s, f + k - 1)]
  BY <1>2 DEF PartsAt
<1>5. \A k \in 1 .. 1 : k = 1
  OBVIOUS
<1> HIDE DEF p, f
<1> QED
  BY <1>2, <1>3, <1>4, <1>5 DEF p, f

LEMMA SingleFirst ==
  ASSUME NEW m, NEW s, Ready(m, s), s = 0, LastCell(m, s) = 0
  PROVE  LET plan == SingleChunk(ChunkInfo(m, s))
         IN  /\ plan.ok /\ plan.pieces = PartsAt(m, s)
             /\ plan.ios = ChunksAfter(m, s)
<1> DEFINE ci == ChunkInfo(m, s)
           e == End(m, s)
           last == IsLast(m, s)
           q == IF last THEN 1 ELSE 2
           l == IF last THEN e - At(Cell(e)) ELSE e
           plan == SingleChunk(ci)
<1>1. /\ IsStrip(m, s) /\ FirstCell(m, s) = 0 /\ At(0) = 0
      /\ e \in Nat /\ HeaderSize \in Nat /\ 0 < HeaderSize /\ HeaderSize < e
      /\ e <= WRTSIZE /\ WRTSIZE \in Nat
      /\ Start(m, s) = HeaderSize
  <2>1. /\ IsStrip(m, s) /\ FirstCell(m, s) = 0 /\ At(0) = 0
        /\ e <= At(0) + WRTSIZE
    BY CellsOfStrip, AtStep DEF Ready
  <2>2. e \in Nat /\ Start(m, s) < e /\ Start(m, s) = HeaderSize
    BY <2>1, BeginEnd DEF Start
  <2> HIDE DEF e
  <2> QED
    BY <2>1, <2>2, AtStep, GeometryAssumption
<1>2. /\ ci.isFirst /\ ci.isFinal = last
      /\ ci.first.x1 = e /\ ci.last.x0 = At(Cell(e)) /\ ci.last.x1 = e
      /\ ~HasFirstSeam(ci) /\ (HasLastSeam(ci) <=> ~last)
  <2>1. /\ ci.isFirst = (s = 0) /\ ci.isFinal = last
        /\ ci.first.x1 = IF FirstCell(m, s) = LastCell(m, s) THEN e
                         ELSE At(FirstCell(m, s)) + WRTSIZE
        /\ ci.last.x0 = At(Cell(e)) /\ ci.last.x1 = e
    BY <1>1, ChunkInfoIs
  <2>2. (HasFirstSeam(ci) <=> s > 0) /\ (HasLastSeam(ci) <=> ~last)
    BY <1>1, ChunkInfoIs
  <2>3. ~(s > 0) /\ FirstCell(m, s) = LastCell(m, s)
    BY <1>1
  <2> HIDE DEF ci, e, last
  <2> QED
    BY <2>1, <2>2, <2>3
<1>3. Cell(e) \in Nat /\ At(Cell(e)) \in Nat /\ At(Cell(e)) <= e
  BY <1>1, CellIs, AtStep
<1>4. IOChunk(0, e, HasLastSeam(ci)) = Chunk(0, e, q)
  <2> HIDE DEF ci, e, last
  <2> QED
    BY <1>2, NewIs
<1>5. Extend(Chunk(0, e, q), HeaderSize, e - HeaderSize) = Chunk(0, e, q)
  <2>1. e - HeaderSize \in Nat /\ q \in Nat /\ 0 + e # HeaderSize /\ 0 \in Nat
    <3> HIDE DEF e, last
    <3> QED
      BY <1>1
  <2> HIDE DEF e, q
  <2> QED
    BY <1>1, <2>1, ExtendIs
<1>6. Trim(ci, Chunk(0, e, q)) = Chunk(0, l, q)
  <2>1. DimLen(ci.last) = e - At(Cell(e))
    BY <1>2 DEF DimLen
  <2> QED
    BY <2>1, <1>2, TrimIs
<1>7. /\ plan.ios = Append(ioChunks, Chunk(0, l, q))
      /\ plan.pieces =
           << StripChunk(Len(ioChunks) + 1, HeaderSize, e - HeaderSize) >>
      /\ plan.ok <=>
           /\ StripChunkAsserts(Chunk(0, e, q), HeaderSize, e - HeaderSize)
           /\ Chunk(0, e, q).len <= WRTSIZE /\ Chunk(0, l, q).len <= WRTSIZE
  <2> HIDE DEF ci, e, last, q, l
  <2> QED
    BY <1>2, <1>4, <1>5, <1>6 DEF SingleChunk, plan
<1>8. ioChunks = <<>>
  BY DEF Ready
<1>9. plan.ios = ChunksAfter(m, s)
  <2>1. plan.ios = [k \in 1 .. 1 |-> Chunk(0, l, q)]
    <3> HIDE DEF plan, l, q
    <3> QED
      BY <1>7, <1>8
  <2>2. LenAfter(m, s, 0) = l
    BY <1>1 DEF LenAfter
  <2>3. SharedAfter(m, s, 0) = q
    BY DEF SharedAfter
  <2>4. ChunksAfter(m, s) = [k \in 1 .. 1 |-> Chunk(At(k - 1),
                               LenAfter(m, s, k - 1), SharedAfter(m, s, k - 1))]
    BY DEF ChunksAfter
  <2>5. \A k \in 1 .. 1 : k - 1 = 0
    OBVIOUS
  <2> HIDE DEF plan, l, q
  <2> QED
    BY <2>1, <2>2, <2>3, <2>4, <2>5, <1>1
<1>10. plan.pieces = PartsAt(m, s)
  <2>1. PartsAt(m, s) =
          << StripChunk(0 + 1, HeaderSize - At(0), e - HeaderSize) >>
    BY <1>1, SingleParts
  <2>2. HeaderSize - At(0) = HeaderSize /\ Len(ioChunks) = 0
    BY <1>1, <1>8
  <2> HIDE DEF plan, e
  <2> QED
    BY <2>1, <2>2, <1>7
<1>11. plan.ok
  <2>1. l <= WRTSIZE
    <3> HIDE DEF e, last
    <3> QED
      BY <1>1, <1>3
  <2>2. HeaderSize \in 0 .. e - 1 /\ e - HeaderSize \in 0 .. e
    <3> HIDE DEF e
    <3> QED
      BY <1>1
  <2> HIDE DEF e, q, l, plan
  <2> QED
    BY <2>1, <2>2, <1>1, <1>7, ChunkFields DEF StripChunkAsserts
<1> QED
  BY <1>9, <1>10, <1>11

LEMMA SingleNext ==
  ASSUME NEW m, NEW s, Ready(m, s), s > 0, FirstCell(m, s) = LastCell(m, s),
         ~IsAligned(End(m, s))
  PROVE  LET plan == SingleChunk(ChunkInfo(m, s))
         IN  /\ plan.ok /\ plan.pieces = PartsAt(m, s)
             /\ plan.ios = ChunksAfter(m, s)
<1> DEFINE ci == ChunkInfo(m, s)
           f == FirstCell(m, s)
           a == At(f)
           b == Begin(m, s)
           e == End(m, s)
           last == IsLast(m, s)
           id == f + 1
           old == ioChunks[id].shareCount
           q == IF last THEN old ELSE old + 1
           l0 == IF f = 0 THEN b ELSE WRTSIZE
           l1 == IF f = 0 THEN e ELSE WRTSIZE
           l2 == IF last THEN e - a ELSE l1
           plan == SingleChunk(ci)
<1>1. /\ IsStrip(m, s) /\ f \in Nat /\ a \in Nat /\ (f = 0 => a = 0)
      /\ b \in Nat /\ e \in Nat /\ WRTSIZE \in Nat /\ 0 < WRTSIZE
      /\ a < b /\ b < e /\ e < a + WRTSIZE /\ Start(m, s) = b
      /\ Cell(e) = f /\ s # 0
  <2>1. IsStrip(m, s) /\ s # 0
    BY DEF Ready, IsStrip
  <2>2. /\ f \in Nat /\ a \in Nat /\ a < b /\ Cell(e) = f /\ e < a + WRTSIZE
    BY <2>1, CellsOfStrip
  <2>3. b \in Nat /\ e \in Nat /\ b < e /\ Start(m, s) = b
    BY <2>1, BeginEnd DEF Start
  <2>4. f = 0 => a = 0
    BY AtStep
  <2> QED
    BY <2>1, <2>2, <2>3, <2>4, AtStep
<1>2. /\ ~ci.isFirst /\ ci.isFinal = last
      /\ ci.first.x0 = b /\ ci.first.x1 = e
      /\ ci.last.x0 = a /\ ci.last.x1 = e
      /\ HasFirstSeam(ci) /\ (HasLastSeam(ci) <=> ~last)
  <2>1. /\ ci.isFirst = (s = 0) /\ ci.isFinal = last
        /\ ci.first.x0 = b /\ ci.last.x0 = At(Cell(e)) /\ ci.last.x1 = e
        /\ ci.first.x1 = IF f = LastCell(m, s) THEN e ELSE At(f) + WRTSIZE
    BY <1>1, ChunkInfoIs
  <2>2. (HasFirstSeam(ci) <=> s > 0) /\ (HasLastSeam(ci) <=> ~last)
    BY <1>1, ChunkInfoIs
  <2> HIDE DEF ci, b, e, last
  <2> QED
    BY <2>1, <2>2, <1>1
<1>3. /\ ioChunks \in Seq([offset : Nat, len : Nat, shareCount : Nat \ {0}])
      /\ Len(ioChunks) = id /\ LeftFinal = id
      /\ old \in Nat /\ old > 1
      /\ ioChunks[id] = Chunk(a, l0, old)
      /\ \A c \in 0 .. f : ioChunks[c + 1] =
           Chunk(At(c), LenAfter(m, s - 1, c), ioChunks[c + 1].shareCount)
  <2>1. /\ ioChunks \in Seq([offset : Nat, len : Nat, shareCount : Nat \ {0}])
        /\ Len(ioChunks) = id /\ LeftFinal = id /\ old > 1
        /\ \A c \in 0 .. f : ioChunks[c + 1] =
             Chunk(At(c), LenAfter(m, s - 1, c), ioChunks[c + 1].shareCount)
    BY DEF Ready
  <2>2. f \in 0 .. f /\ id \in 1 .. Len(ioChunks)
    <3> HIDE DEF f
    <3> QED
      BY <1>1, <2>1
  <2>3. ioChunks[id] \in [offset : Nat, len : Nat, shareCount : Nat \ {0}]
    BY <2>1, <2>2, ElementOfSeq
  <2>4. LenAfter(m, s - 1, f) = l0
    BY <1>1, <2>2, SeamLen
  <2> QED
    BY <2>1, <2>2, <2>3, <2>4
<1>4. /\ (IF last THEN ioChunks[id] ELSE Share(ioChunks[id])) = Chunk(a, l0, q)
      /\ l0 \in Nat /\ q \in Nat /\ q > 1
  <2>1. l0 \in Nat /\ q \in Nat /\ q > 1
    <3> HIDE DEF b, old, last, f
    <3> QED
      BY <1>1, <1>3
  <2>2. Share(Chunk(a, l0, old)) = Chunk(a, l0, old + 1)
    BY ShareIs
  <2> QED
    BY <2>1, <2>2, <1>3
<1>5. /\ Extend(Chunk(a, l0, q), b - a, e - b) = Chunk(a, l1, q)
      /\ l1 \in Nat
  <2>1. /\ b - a \in Nat /\ e - b \in Nat /\ l1 \in Nat
        /\ (IF q > 1 /\ a + l0 = b - a THEN l0 + (e - b) ELSE l0) = l1
    <3> HIDE DEF a, b, e, q, f
    <3> QED
      BY <1>1, <1>4
  <2> DEFINE x == b - a
             y == e - b
  <2>2. x \in Nat /\ y \in Nat
    BY <2>1
  <2>3. Extend(Chunk(a, l0, q), x, y) =
          Chunk(a, IF q > 1 /\ a + l0 = x THEN l0 + y ELSE l0, q)
    <3>1. a \in Nat /\ l0 \in Nat /\ q \in Nat
      BY <1>1, <1>4
    <3> HIDE DEF x, y, a, q, l0
    <3> QED
      BY <3>1, <2>2, ExtendIs
  <2> HIDE DEF l0, l1, q
  <2> QED
    BY <2>1, <2>3
<1>6. Trim(ci, Chunk(a, l1, q)) = Chunk(a, l2, q)
  <2>1. DimLen(ci.last) = e - a
    BY <1>2 DEF DimLen
  <2> QED
    BY <2>1, <1>2, TrimIs
<1>7. /\ plan.ios = [ioChunks EXCEPT ![id] = Chunk(a, l2, q)]
      /\ plan.pieces = << StripChunk(id, b - a, e - b) >>
      /\ plan.ok <=>
           /\ a <= b
           /\ StripChunkAsserts(Chunk(a, l1, q), b - a, e - b)
           /\ Chunk(a, l1, q).len <= WRTSIZE /\ Chunk(a, l2, q).len <= WRTSIZE
  <2>1. DimLen(ci.first) = e - b
    BY <1>2 DEF DimLen
  <2>2. last => (CASE HasFirstSeam(ci) /\ HasLastSeam(ci) -> Share(ioChunks[id])
                   [] HasFirstSeam(ci) /\ ~HasLastSeam(ci) -> ioChunks[id]
                   [] OTHER -> IOChunk(0, ci.first.x1, HasLastSeam(ci)))
                = Chunk(a, l0, q)
    <3> HIDE DEF ci, a, l0, q, id
    <3> QED
      BY <1>2, <1>4
  <2>3. ~last => (CASE HasFirstSeam(ci) /\ HasLastSeam(ci) -> Share(ioChunks[id])
                   [] HasFirstSeam(ci) /\ ~HasLastSeam(ci) -> ioChunks[id]
                   [] OTHER -> IOChunk(0, ci.first.x1, HasLastSeam(ci)))
                = Chunk(a, l0, q)
    <3> HIDE DEF ci, a, l0, q, id
    <3> QED
      BY <1>2, <1>4
  <2> HIDE DEF ci, a, b, e, last, q, l0, l1, l2, id
  <2> QED
    BY <1>2, <1>3, <1>5, <1>6, <2>1, <2>2, <2>3 DEF SingleChunk, plan
<1>8. plan.ios = ChunksAfter(m, s)
  <2>1. DOMAIN ioChunks = 1 .. id
    BY <1>3
  <2>2. plan.ios = [k \in 1 .. id |-> IF k = id THEN Chunk(a, l2, q) ELSE ioChunks[k]]
    <3> HIDE DEF plan, id, a, l2, q
    <3> QED
      BY <1>7, <2>1
  <2>3. ChunksAfter(m, s) = [k \in 1 .. id |-> Chunk(At(k - 1),
                               LenAfter(m, s, k - 1), SharedAfter(m, s, k - 1))]
    BY DEF ChunksAfter
  <2>4. ASSUME NEW k \in 1 .. id
        PROVE  (IF k = id THEN Chunk(a, l2, q) ELSE ioChunks[k]) =
                 Chunk(At(k - 1), LenAfter(m, s, k - 1), SharedAfter(m, s, k - 1))
    <3>1. CASE k = id
      <4>1. k - 1 = f
        <5> HIDE DEF f
        <5> QED
          BY <3>1, <1>1
      <4>2. LenAfter(m, s, f) = l2
        BY <1>1 DEF LenAfter
      <4>3. SharedAfter(m, s, f) = q
        <5>1. SharedAfter(m, s, f) = old + (IF ~last THEN 1 ELSE 0)
          BY <1>1 DEF SharedAfter
        <5> HIDE DEF old, last
        <5> QED
          BY <5>1, <1>3
      <4> QED
        BY <3>1, <4>1, <4>2, <4>3
    <3>2. CASE k # id
      BY <3>2, OldChunk
    <3> QED
      BY <3>1, <3>2
  <2> HIDE DEF plan, id, a, l2, q
  <2> QED
    BY <2>2, <2>3, <2>4
<1>9. plan.pieces = PartsAt(m, s)
  BY <1>1, <1>7, SingleParts
<1>10. plan.ok
  <2>1. /\ a <= b /\ b - a \in 0 .. l1 - 1 /\ e - b \in 0 .. l1
        /\ l1 <= WRTSIZE /\ l2 <= WRTSIZE
    <3> HIDE DEF a, b, e, f, last
    <3> QED
      BY <1>1
  <2> HIDE DEF a, b, e, q, l1, l2, plan
  <2> QED
    BY <2>1, <1>7, ChunkFields DEF StripChunkAsserts
<1> QED
  BY <1>8, <1>9, <1>10

-----------------------------------------------------------------------------
(* A strip of several cells *)

(* What is known of the strip and its ChunkInfo. *)
LEMMA ManyInfo ==
  ASSUME NEW m, NEW s, IsStrip(m, s), FirstCell(m, s) < LastCell(m, s)
  PROVE  LET ci == ChunkInfo(m, s)
             f  == FirstCell(m, s)
             l  == LastCell(m, s)
             b  == Begin(m, s)
             e  == End(m, s)
         IN  /\ f \in Nat /\ l \in Nat /\ f < l
             /\ b \in Nat /\ e \in Nat /\ At(f) \in Nat /\ At(l) \in Nat
             /\ At(f) <= b /\ b < At(f) + WRTSIZE
             /\ At(l) < e /\ e <= At(l) + WRTSIZE
             /\ s \in Nat /\ (s > 0 => At(f) < b)
             /\ NumChunks(ci) = l - f + 1 /\ NumChunks(ci) \in Nat
             /\ ci.isFirst = (s = 0) /\ ci.isFinal = IsLast(m, s)
             /\ ci.first.x0 = b /\ ci.first.x1 = At(f) + WRTSIZE
             /\ ci.last.x0 = At(Cell(e)) /\ ci.last.x1 = e
             /\ HasFirstSeam(ci) <=> s > 0
             /\ HasLastSeam(ci) <=> ~IsLast(m, s)
<1> DEFINE ci == ChunkInfo(m, s)
           f == FirstCell(m, s)
           l == LastCell(m, s)
           b == Begin(m, s)
           e == End(m, s)
           st == Start(m, s)
<1>1. /\ f \in Nat /\ l \in Nat /\ At(f) \in Nat /\ At(l) \in Nat
      /\ At(f) <= b /\ st < At(f) + WRTSIZE
      /\ At(l) < e /\ e <= At(l) + WRTSIZE
      /\ s > 0 => At(f) < b
  BY CellsOfStrip
<1>2. b \in Nat /\ e \in Nat /\ b <= st /\ st \in Nat /\ WRTSIZE \in Nat
  BY BeginEnd, AtStep
<1>3. b < At(f) + WRTSIZE
  <2> HIDE DEF b, f, st
  <2> QED
    BY <1>1, <1>2
<1>4. /\ ci.isFirst = (s = 0) /\ ci.isFinal = IsLast(m, s)
      /\ ci.first.x0 = b
      /\ ci.first.x1 = IF f = l THEN e ELSE At(f) + WRTSIZE
      /\ ci.last.x0 = At(Cell(e)) /\ ci.last.x1 = e
  BY ChunkInfoIs
<1>5. (HasFirstSeam(ci) <=> s > 0) /\ (HasLastSeam(ci) <=> ~IsLast(m, s))
  BY ChunkInfoIs
<1>6. NumChunks(ci) = l - f + 1
  BY NumChunksIs
<1>7. f # l /\ l - f + 1 \in Nat
  <2> HIDE DEF f, l
  <2> QED
    BY <1>1 DEF f, l
<1>8. s \in Nat
  BY DEF IsStrip
<1> QED
  BY <1>1, <1>2, <1>3, <1>4, <1>5, <1>6, <1>7, <1>8

LEMMA FullAligned == IsAligned(WRTSIZE)
<1>1. At(0 + 1) = At(0) + WRTSIZE /\ At(0) = 0 /\ 0 + 1 \in Nat /\ WRTSIZE \in Nat
  BY AtStep
<1> QED
  BY <1>1, AtAligned

(* The first chunk, when it is shared with the strip before. *)
LEMMA ManySeam ==
  ASSUME NEW m, NEW s, Ready(m, s), FirstCell(m, s) < LastCell(m, s), s > 0
  PROVE  LET ci == ChunkInfo(m, s)
             n  == NumChunks(ci)
             c  == FirstCell(m, s)
         IN  /\ IsSeam(ci, 0)
             /\ WriteableOffset(ci, n, 0) = From(m, s, c) - At(c)
             /\ WriteableLen(ci, n, 0) = To(m, s, c) - From(m, s, c)
             /\ Grown(ci, n, 0) = Chunk(At(c), LenAfter(m, s, c), SharedAfter(m, s, c))
             /\ ManyAssert(ci, n, 0)
<1> DEFINE ci == ChunkInfo(m, s)
           n == NumChunks(ci)
           f == FirstCell(m, s)
           l == LastCell(m, s)
           a == At(f)
           b == Begin(m, s)
           old == ioChunks[f + 1].shareCount
           l0 == IF f = 0 THEN b ELSE WRTSIZE
           x == b - a
           y == (a + WRTSIZE) - b
<1>1. /\ f \in Nat /\ l \in Nat /\ f < l /\ n = l - f + 1
      /\ b \in Nat /\ a \in Nat /\ a < b /\ b < a + WRTSIZE
      /\ ci.first.x0 = b /\ ci.first.x1 = a + WRTSIZE
      /\ HasFirstSeam(ci)
  BY ManyInfo DEF Ready
<1>2. WRTSIZE \in Nat /\ (f = 0 => a = 0) /\ IsAligned(a) /\ IsAligned(WRTSIZE)
  BY AtStep, <1>1, AtAligned, FullAligned
<1>3. LeftFinal = f + 1 /\ ioChunks[f + 1] = Chunk(a, l0, old) /\ old \in Nat /\ old > 1
  <2>1. /\ ioChunks \in Seq([offset : Nat, len : Nat, shareCount : Nat \ {0}])
        /\ Len(ioChunks) = f + 1 /\ LeftFinal = f + 1 /\ old > 1
        /\ \A c \in 0 .. f : ioChunks[c + 1] =
             Chunk(At(c), LenAfter(m, s - 1, c), ioChunks[c + 1].shareCount)
    BY DEF Ready
  <2>2. f \in 0 .. f /\ f + 1 \in 1 .. Len(ioChunks)
    <3> HIDE DEF f
    <3> QED
      BY <1>1, <2>1
  <2>3. ioChunks[f + 1] \in [offset : Nat, len : Nat, shareCount : Nat \ {0}]
    <3> HIDE DEF f
    <3> QED
      BY <2>1, <2>2, ElementOfSeq
  <2>4. LenAfter(m, s - 1, f) = l0
    BY <2>2, SeamLen DEF Ready
  <2> QED
    BY <2>1, <2>2, <2>3, <2>4
<1>4. x \in 1 .. WRTSIZE - 1 /\ y \in 1 .. WRTSIZE - 1 /\ x \in Nat /\ y \in Nat
      /\ l0 \in Nat /\ 0 # n - 1
  <2> HIDE DEF f, l, a, b, n
  <2> QED
    BY <1>1, <1>2
<1>5. IsSeam(ci, 0) /\ ~IsShared(ci, n, 0) /\ ~IsLastOfAll(ci, n, 0) /\ ~ci.isFirst
  <2>1. HasFirstSeam(ci) /\ 0 # n - 1
    BY <1>1, <1>4
  <2> HIDE DEF ci, n
  <2> QED
    BY <2>1 DEF IsSeam, IsShared, IsLastOfAll, HasFirstSeam
<1>6. /\ ChunkIO(ci, n, 0) = Chunk(a, l0, old) /\ ChunkLen(ci, n, 0) = WRTSIZE
      /\ WriteableOffset(ci, n, 0) = x /\ WriteableLen(ci, n, 0) = y
  <2>1. ChunkIO(ci, n, 0) = Chunk(a, l0, old)
    BY <1>3, <1>5 DEF ChunkIO
  <2>2. ChunkLen(ci, n, 0) = WRTSIZE
    BY <1>5 DEF ChunkLen
  <2>3. ioChunks[LeftFinal].offset = a
    BY <1>3, ChunkFields
  <2> HIDE DEF ci, n, a, b
  <2>4. WriteableOffset(ci, n, 0) = ci.first.x0 - ioChunks[LeftFinal].offset
    BY <1>5 DEF WriteableOffset
  <2>5. WriteableLen(ci, n, 0) = ci.first.x1 - ci.first.x0
    BY <1>5 DEF WriteableLen, DimLen
  <2>6. WriteableOffset(ci, n, 0) = x
    BY <2>3, <2>4, <1>1
  <2>7. WriteableLen(ci, n, 0) = y
    <3>1. ci.first.x0 = b /\ ci.first.x1 = a + WRTSIZE
      BY <1>1
    <3> QED
      BY <2>5, <3>1
  <2> QED
    BY <2>1, <2>2, <2>6, <2>7
<1>7. Grown(ci, n, 0) = Chunk(a, WRTSIZE, old)
  <2>1. (IF old > 1 /\ a + l0 = x THEN l0 + y ELSE l0) = WRTSIZE
    <3> HIDE DEF f, a, b, old
    <3> QED
      BY <1>1, <1>2, <1>3
  <2>2. Grown(ci, n, 0) = Extend(Chunk(a, l0, old), x, y)
    BY <1>6 DEF Grown
  <2>3. a \in Nat /\ l0 \in Nat /\ old \in Nat /\ x \in Nat /\ y \in Nat
    BY <1>1, <1>3, <1>4
  <2>4. Extend(Chunk(a, l0, old), x, y) =
          Chunk(a, IF old > 1 /\ a + l0 = x THEN l0 + y ELSE l0, old)
    <3> HIDE DEF a, l0, old, x, y
    <3> QED
      BY <2>3, ExtendIs
  <2> QED
    BY <2>1, <2>2, <2>4
<1>8. LenAfter(m, s, f) = WRTSIZE /\ SharedAfter(m, s, f) = old
  <2>1. f # l
    BY <1>1
  <2>2. SharedAfter(m, s, f) = old + 0
    <3>1. f <= f
      BY <1>1
    <3> QED
      BY <2>1, <3>1 DEF SharedAfter
  <2> QED
    BY <2>1, <2>2, <1>3 DEF LenAfter
<1>9. From(m, s, f) = b /\ To(m, s, f) = a + WRTSIZE
  BY <1>1 DEF From, To, Start
<1>10. From(m, s, f) - At(f) = x /\ To(m, s, f) - From(m, s, f) = y
  <2>1. At(f) = a
    OBVIOUS
  <2> HIDE DEF f, a, b
  <2> QED
    BY <1>9, <2>1
<1>11. ManyAssert(ci, n, 0)
  <2>1. StripChunkAsserts(Chunk(a, WRTSIZE, old), x, y)
    <3>1. x \in 0 .. WRTSIZE - 1 /\ y \in 0 .. WRTSIZE
      BY <1>2, <1>4
    <3> HIDE DEF x, y, a, old
    <3> QED
      BY <3>1, ChunkFields DEF StripChunkAsserts
  <2>2. Chunk(a, WRTSIZE, old).len <= WRTSIZE /\ Chunk(a, l0, old).offset = a
        /\ Chunk(a, l0, old).shareCount = old
    BY <1>2, ChunkFields
  <2> HIDE DEF ci, n, a, l0, old, x, y
  <2> QED
    BY <2>1, <2>2, <1>2, <1>3, <1>4, <1>5, <1>6, <1>7 DEF ManyAssert
<1> HIDE DEF ci, n, a, b, x, y, old
<1> QED
  BY <1>5, <1>6, <1>7, <1>8, <1>10, <1>11 DEF ci, n, a

(* A chunk in front of the last one, and new. *)
LEMMA ManyInner ==
  ASSUME NEW m, NEW s, Ready(m, s), FirstCell(m, s) < LastCell(m, s),
         NEW i \in Nat, FirstCell(m, s) + i < LastCell(m, s), s = 0 \/ i > 0
  PROVE  LET ci == ChunkInfo(m, s)
             n  == NumChunks(ci)
             c  == FirstCell(m, s) + i
         IN  /\ ~IsSeam(ci, i)
             /\ WriteableOffset(ci, n, i) = From(m, s, c) - At(c)
             /\ WriteableLen(ci, n, i) = To(m, s, c) - From(m, s, c)
             /\ Grown(ci, n, i) = Chunk(At(c), LenAfter(m, s, c), SharedAfter(m, s, c))
             /\ ManyAssert(ci, n, i)
<1> DEFINE ci == ChunkInfo(m, s)
           n == NumChunks(ci)
           f == FirstCell(m, s)
           l == LastCell(m, s)
           c == f + i
           head == s = 0 /\ i = 0
           x == IF head THEN HeaderSize ELSE 0
           y == IF head THEN WRTSIZE - HeaderSize ELSE WRTSIZE
<1>1. /\ f \in Nat /\ l \in Nat /\ f < l /\ n = l - f + 1 /\ s \in Nat
      /\ At(f) \in Nat
      /\ ci.isFirst = (s = 0)
      /\ ci.first.x1 = At(f) + WRTSIZE
      /\ HasFirstSeam(ci) <=> s > 0
  BY ManyInfo DEF Ready
<1>2. /\ WRTSIZE \in Nat /\ 0 < WRTSIZE /\ IsAligned(WRTSIZE)
      /\ HeaderSize \in Nat /\ 0 < HeaderSize /\ HeaderSize < WRTSIZE
  BY AtStep, FullAligned, GeometryAssumption, ChunkHoldsHeader
<1>3. /\ c \in Nat /\ c # l /\ i # n - 1 /\ ~(s > 0 /\ i = 0)
      /\ (c <= f => i = 0) /\ (c = f <=> i = 0)
  <2>1. ~(s > 0 /\ i = 0)
    BY <1>1
  <2>2. c = f + i /\ c < l
    OBVIOUS
  <2> HIDE DEF f, l, n, c
  <2>3. c \in Nat /\ c # l /\ i # n - 1
    BY <2>2, <1>1
  <2>4. (c <= f => i = 0) /\ (c = f <=> i = 0)
    BY <2>2, <1>1
  <2> QED
    BY <2>1, <2>3, <2>4
<1>4. At(c) \in Nat /\ IsAligned(At(c))
  BY <1>3, AtStep, AtAligned
<1>5. ~IsSeam(ci, i) /\ ~IsShared(ci, n, i) /\ ~IsLastOfAll(ci, n, i)
  <2>1. ~IsSeam(ci, i)
    BY <1>1, <1>3 DEF IsSeam
  <2> QED
    BY <2>1, <1>3 DEF IsShared, IsLastOfAll
<1>6. ChunkOffset(ci, n, i) = At(c)
  <2>1. ChunkOffset(ci, n, i) = (At(f) + WRTSIZE) - WRTSIZE + i * WRTSIZE
    <3>1. ci.first.x1 = At(f) + WRTSIZE /\ i # n - 1
      BY <1>1, <1>3
    <3> HIDE DEF ci, n, f
    <3> QED
      BY <3>1 DEF ChunkOffset
  <2>2. i * WRTSIZE = At(i) /\ At(f) + At(i) = At(c) /\ At(i) \in Nat
    BY <1>1, AtMinus, AtStep DEF At
  <2> HIDE DEF f, c
  <2> QED
    BY <2>1, <2>2, <1>1, <1>2
<1>7. /\ ChunkIO(ci, n, i) = Chunk(At(c), WRTSIZE, 1)
      /\ ChunkLen(ci, n, i) = WRTSIZE
      /\ WriteableOffset(ci, n, i) = x /\ WriteableLen(ci, n, i) = y
  <2>1. ChunkLen(ci, n, i) = WRTSIZE
    BY <1>5 DEF ChunkLen
  <2>2. ChunkIO(ci, n, i) = IOChunk(At(c), WRTSIZE, FALSE)
    <3>1. ChunkIO(ci, n, i) = IOChunk(At(c), WRTSIZE, IsShared(ci, n, i))
      BY <2>1, <1>5, <1>6 DEF ChunkIO
    <3>2. IOChunk(At(c), WRTSIZE, IsShared(ci, n, i)) = Chunk(At(c), WRTSIZE, 1)
      BY <1>5, NewIs
    <3>3. IOChunk(At(c), WRTSIZE, FALSE) = Chunk(At(c), WRTSIZE, 1)
      BY NewIs
    <3> QED
      BY <3>1, <3>2, <3>3
  <2>3. IOChunk(At(c), WRTSIZE, FALSE) = Chunk(At(c), WRTSIZE, 1)
    BY NewIs
  <2>4. ci.isFirst /\ i = 0 <=> head
    BY <1>1
  <2> HIDE DEF ci, n, c
  <2>5. WriteableOffset(ci, n, i) = x
    BY <1>5, <2>4 DEF WriteableOffset
  <2>6. WriteableLen(ci, n, i) = y
    BY <1>5, <2>1, <2>4 DEF WriteableLen
  <2> QED
    BY <2>1, <2>2, <2>3, <2>5, <2>6
<1>8. Grown(ci, n, i) = Chunk(At(c), WRTSIZE, 1)
  <2>1. Grown(ci, n, i) = Extend(Chunk(At(c), WRTSIZE, 1), x, y)
    BY <1>7 DEF Grown
  <2>2. x \in Nat /\ y \in Nat
    BY <1>2
  <2>3. Extend(Chunk(At(c), WRTSIZE, 1), x, y) =
          Chunk(At(c), IF 1 > 1 /\ At(c) + WRTSIZE = x THEN WRTSIZE + y ELSE WRTSIZE, 1)
    <3>1. /\ At(c) \in Nat /\ WRTSIZE \in Nat /\ 1 \in Nat
          /\ x \in Nat /\ y \in Nat
      BY <2>2, <1>2, <1>4
    <3> HIDE DEF x, y, c
    <3> QED
      BY <3>1, ExtendIs
  <2> QED
    BY <2>1, <2>3
<1>9. LenAfter(m, s, c) = WRTSIZE /\ SharedAfter(m, s, c) = 1
  <2>1. LenAfter(m, s, c) = WRTSIZE
    BY <1>3 DEF LenAfter
  <2>2. ~(s > 0 /\ c <= f)
    BY <1>3
  <2>3. SharedAfter(m, s, c) = 1 + 0
    BY <2>2, <1>3 DEF SharedAfter
  <2> QED
    BY <2>1, <2>3
<1>10. From(m, s, c) - At(c) = x /\ To(m, s, c) - From(m, s, c) = y
  <2>1. To(m, s, c) = At(c) + WRTSIZE
    BY <1>3 DEF To
  <2>2. From(m, s, c) = At(c) + x
    <3>1. CASE i = 0
      <4>1. s = 0 /\ From(m, s, c) = HeaderSize
        BY <3>1, <1>3, <1>1 DEF From, Start
      <4>2. f = 0 /\ c = 0
        <5>1. f = 0
          BY <4>1, CellsOfStrip DEF Ready
        <5> QED
          BY <5>1, <3>1
      <4> QED
        BY <4>1, <4>2, <3>1, <1>2, AtStep
    <3>2. CASE i # 0
      BY <3>2, <1>3, <1>4 DEF From
    <3> QED
      BY <3>1, <3>2
  <2> HIDE DEF c, head
  <2> QED
    BY <2>1, <2>2, <1>2, <1>4
<1>11. ManyAssert(ci, n, i)
  <2>1. StripChunkAsserts(Chunk(At(c), WRTSIZE, 1), x, y)
    <3>1. x \in 0 .. WRTSIZE - 1 /\ y \in 0 .. WRTSIZE
      BY <1>2
    <3> HIDE DEF x, y, c
    <3> QED
      BY <3>1, ChunkFields DEF StripChunkAsserts
  <2>2. Chunk(At(c), WRTSIZE, 1).len <= WRTSIZE /\ Chunk(At(c), WRTSIZE, 1).offset = At(c)
    BY <1>2, ChunkFields
  <2> HIDE DEF ci, n, c, x, y
  <2> QED
    BY <2>1, <2>2, <1>2, <1>4, <1>5, <1>7, <1>8 DEF ManyAssert
<1> QED
  BY <1>5, <1>7, <1>8, <1>9, <1>10, <1>11

(* The last chunk. *)
LEMMA ManyLast ==
  ASSUME NEW m, NEW s, Ready(m, s), FirstCell(m, s) < LastCell(m, s),
         ~IsAligned(End(m, s)), NEW i, i = LastCell(m, s) - FirstCell(m, s)
  PROVE  LET ci == ChunkInfo(m, s)
             n  == NumChunks(ci)
             c  == LastCell(m, s)
         IN  /\ ~IsSeam(ci, i)
             /\ WriteableOffset(ci, n, i) = From(m, s, c) - At(c)
             /\ WriteableLen(ci, n, i) = To(m, s, c) - From(m, s, c)
             /\ Grown(ci, n, i) = Chunk(At(c), LenAfter(m, s, c), SharedAfter(m, s, c))
             /\ ManyAssert(ci, n, i)
<1> DEFINE ci == ChunkInfo(m, s)
           n == NumChunks(ci)
           f == FirstCell(m, s)
           l == LastCell(m, s)
           e == End(m, s)
           a == At(l)
           last == IsLast(m, s)
           y == e - a
           len == IF last THEN y ELSE WRTSIZE
           q == IF last THEN 1 ELSE 2
<1>1. /\ f \in Nat /\ l \in Nat /\ f < l /\ n = (l - f) + 1
      /\ At(f) \in Nat /\ a \in Nat /\ e \in Nat /\ a < e
      /\ ci.isFinal = last
      /\ ci.first.x1 = At(f) + WRTSIZE
      /\ ci.last.x0 = At(Cell(e)) /\ ci.last.x1 = e
      /\ HasLastSeam(ci) <=> ~last
  BY ManyInfo DEF Ready
<1>2. Cell(e) = l /\ e < a + WRTSIZE
  BY CellsOfStrip DEF Ready
<1>3. WRTSIZE \in Nat /\ 0 < WRTSIZE /\ IsAligned(WRTSIZE) /\ IsAligned(a)
  BY <1>1, AtStep, FullAligned, AtAligned
<1>4. /\ y \in 1 .. WRTSIZE - 1 /\ y \in Nat /\ len \in Nat
      /\ i \in Nat /\ i # 0 /\ i = n - 1 /\ l # 0 /\ l # f /\ ~(l <= f)
  <2>1. i = l - f
    OBVIOUS
  <2> HIDE DEF f, l, e, a, n, last
  <2> QED
    BY <1>1, <1>2, <1>3, <2>1
<1>5. /\ ~IsSeam(ci, i)
      /\ (IsShared(ci, n, i) <=> ~last) /\ (IsLastOfAll(ci, n, i) <=> last)
  <2>1. (HasLastSeam(ci) <=> ~last) /\ ci.isFinal = last /\ i = n - 1 /\ i # 0
    BY <1>1, <1>4
  <2> HIDE DEF ci, n, last
  <2> QED
    BY <2>1 DEF IsSeam, IsShared, IsLastOfAll
<1>6. DimLen(ci.last) = y
  BY <1>1, <1>2 DEF DimLen
<1>7. ChunkOffset(ci, n, i) = a
  <2>1. CASE ~last
    BY <2>1, <1>1, <1>2, <1>4 DEF ChunkOffset
  <2>2. CASE last
    <3>1. ci.first.x1 = At(f) + WRTSIZE /\ ~HasLastSeam(ci)
      BY <2>2, <1>1
    <3>2. i * WRTSIZE = At(i) /\ At(f) + At(i) = At(f + i) /\ At(i) \in Nat
      BY <1>1, <1>4, AtMinus, AtStep DEF At
    <3>3. f + i = l
      <4> HIDE DEF f, l
      <4> QED
        BY <1>1 DEF f, l
    <3> HIDE DEF ci, n, f
    <3>4. ChunkOffset(ci, n, i) = (At(f) + WRTSIZE) - WRTSIZE + i * WRTSIZE
      BY <3>1 DEF ChunkOffset
    <3> QED
      BY <3>2, <3>3, <3>4, <1>1, <1>3
  <2> QED
    BY <2>1, <2>2
<1>8. /\ ChunkLen(ci, n, i) = len
      /\ ChunkIO(ci, n, i) = Chunk(a, len, q)
      /\ WriteableOffset(ci, n, i) = 0 /\ WriteableLen(ci, n, i) = y
  <2> HIDE DEF ci, n, l, e, a, last, y
  <2>1. ChunkLen(ci, n, i) = len
    BY <1>5, <1>6 DEF ChunkLen
  <2>2. ChunkIO(ci, n, i) = IOChunk(a, len, IsShared(ci, n, i))
    BY <2>1, <1>5, <1>7 DEF ChunkIO
  <2>3. IOChunk(a, len, IsShared(ci, n, i)) = Chunk(a, len, q)
    BY <1>5, NewIs
  <2>4. WriteableOffset(ci, n, i) = 0
    BY <1>4, <1>5 DEF WriteableOffset
  <2>5. WriteableLen(ci, n, i) = y
    BY <2>1, <1>4, <1>5, <1>6 DEF WriteableLen
  <2> QED
    BY <2>1, <2>2, <2>3, <2>4, <2>5
<1>9. Grown(ci, n, i) = Chunk(a, len, q)
  <2>1. Grown(ci, n, i) = Extend(Chunk(a, len, q), 0, y)
    BY <1>8 DEF Grown
  <2>2. a + len # 0 /\ q \in Nat
    <3> HIDE DEF a, e, last
    <3> QED
      BY <1>1, <1>3, <1>4
  <2>3. Extend(Chunk(a, len, q), 0, y) =
          Chunk(a, IF q > 1 /\ a + len = 0 THEN len + y ELSE len, q)
    <3>1. a \in Nat /\ len \in Nat /\ q \in Nat /\ 0 \in Nat /\ y \in Nat
      BY <2>2, <1>1, <1>4
    <3> HIDE DEF a, len, q, y
    <3> QED
      BY <3>1, ExtendIs
  <2> HIDE DEF a, len, q
  <2> QED
    BY <2>1, <2>2, <2>3
<1>10. LenAfter(m, s, l) = len /\ SharedAfter(m, s, l) = q
  <2>1. LenAfter(m, s, l) = len
    BY <1>2, <1>4 DEF LenAfter
  <2>2. SharedAfter(m, s, l) = 1 + (IF last THEN 0 ELSE 1)
    BY <1>4 DEF SharedAfter
  <2> QED
    BY <2>1, <2>2
<1>11. From(m, s, l) - At(l) = 0 /\ To(m, s, l) - From(m, s, l) = y
  <2>1. From(m, s, l) = a /\ To(m, s, l) = e
    BY <1>4 DEF From, To
  <2>2. a - a = 0
    BY <1>1
  <2> QED
    BY <2>1, <2>2
<1>12. ManyAssert(ci, n, i)
  <2>1. StripChunkAsserts(Chunk(a, len, q), 0, y)
    <3>1. 0 \in 0 .. len - 1 /\ y \in 0 .. len
      <4> HIDE DEF y, last
      <4> QED
        BY <1>3, <1>4
    <3> HIDE DEF y, a, len, q
    <3> QED
      BY <3>1, ChunkFields DEF StripChunkAsserts
  <2>2. Chunk(a, len, q).len <= WRTSIZE /\ Chunk(a, len, q).offset = a
    <3>1. len <= WRTSIZE
      <4> HIDE DEF y, last
      <4> QED
        BY <1>3, <1>4
    <3> QED
      BY <3>1, ChunkFields
  <2>3. last \/ IsAligned(len)
    BY <1>3
  <2> HIDE DEF ci, n, a, len, q, y, last
  <2> QED
    BY <2>1, <2>2, <2>3, <1>3, <1>4, <1>5, <1>8, <1>9 DEF ManyAssert
<1> HIDE DEF ci, n, l, y, len, q
<1> QED
  BY <1>5, <1>8, <1>9, <1>10, <1>11, <1>12 DEF ci, n, l, a

(* When the data ends on a boundary of cells, the last chunk is empty. *)
LEMMA ManyEmpty ==
  ASSUME NEW m, NEW s, IsStrip(m, s), FirstCell(m, s) < LastCell(m, s),
         IsAligned(End(m, s))
  PROVE  LET ci == ChunkInfo(m, s)
             n  == NumChunks(ci)
         IN  n - 1 \in 0 .. n - 1 /\ ~ManyAssert(ci, n, n - 1)
<1> DEFINE ci == ChunkInfo(m, s)
           n == NumChunks(ci)
           f == FirstCell(m, s)
           l == LastCell(m, s)
           e == End(m, s)
           o == ChunkOffset(ci, n, n - 1)
<1>1. /\ f \in Nat /\ l \in Nat /\ f < l /\ n = (l - f) + 1 /\ n \in Nat
      /\ e \in Nat
      /\ ci.isFinal = IsLast(m, s)
      /\ ci.last.x0 = At(Cell(e)) /\ ci.last.x1 = e
      /\ HasLastSeam(ci) <=> ~IsLast(m, s)
  BY ManyInfo
<1>2. IsLast(m, s)
  BY SeamsUnaligned
<1>3. n - 1 \in 0 .. n - 1 /\ n - 1 # 0
  <2> HIDE DEF f, l, n
  <2> QED
    BY <1>1
<1>4. DimLen(ci.last) = 0
  <2>1. e = At(Cell(e))
    BY <1>1, CellIs
  <2>2. DimLen(ci.last) = e - At(Cell(e))
    BY <1>1 DEF DimLen
  <2> HIDE DEF e
  <2> QED
    BY <2>1, <2>2, <1>1
<1>5. ~IsSeam(ci, n - 1) /\ ~IsShared(ci, n, n - 1) /\ IsLastOfAll(ci, n, n - 1)
  <2>1. n - 1 # 0 /\ ~HasLastSeam(ci) /\ ci.isFinal
    BY <1>1, <1>2, <1>3
  <2> HIDE DEF ci, n
  <2> QED
    BY <2>1 DEF IsSeam, IsShared, IsLastOfAll
<1> HIDE DEF ci, n, o
<1>6. ChunkLen(ci, n, n - 1) = 0
  BY <1>4, <1>5 DEF ChunkLen
<1>7. ChunkIO(ci, n, n - 1) = Chunk(o, 0, 1)
  <2>1. ChunkIO(ci, n, n - 1) = IOChunk(o, 0, IsShared(ci, n, n - 1))
    BY <1>5, <1>6 DEF ChunkIO, o
  <2> QED
    BY <2>1, <1>5, NewIs
<1>8. Grown(ci, n, n - 1) = Chunk(o, 0, 1)
  BY <1>7 DEF Grown, Extend, Chunk
<1>9. ~StripChunkAsserts(Chunk(o, 0, 1), WriteableOffset(ci, n, n - 1),
                         WriteableLen(ci, n, n - 1))
  <2>1. Chunk(o, 0, 1).len = 0
    BY ChunkFields
  <2>2. \A x : x \notin 0 .. 0 - 1
    OBVIOUS
  <2> QED
    BY <2>1, <2>2 DEF StripChunkAsserts
<1>10. ~ManyAssert(ci, n, n - 1)
  BY <1>8, <1>9 DEF ManyAssert
<1> QED
  BY <1>3, <1>10 DEF ci, n

(* Two sequences are the beginning and the rest of a third. *)
LEMMA Joins ==
  ASSUME NEW p \in Nat, NEW q \in Nat, NEW r, NEW b, NEW t,
         r = [k \in 1 .. p + q |-> r[k]],
         b = [k \in 1 .. p |-> r[k]],
         t = [k \in 1 .. q |-> r[p + k]]
  PROVE  b \o t = r
<1> DEFINE S == { r[k] : k \in 1 .. p + q }
<1>1. b \in [1 .. p -> S] /\ t \in [1 .. q -> S]
  <2>1. ASSUME NEW k \in 1 .. p
        PROVE  r[k] \in S
    OBVIOUS
  <2>2. ASSUME NEW k \in 1 .. q
        PROVE  r[p + k] \in S
    <3>1. p + k \in 1 .. p + q
      OBVIOUS
    <3> QED
      BY <3>1
  <2> HIDE DEF S
  <2> QED
    BY <2>1, <2>2
<1> HIDE DEF S
<1>2. /\ b \in Seq(S) /\ t \in Seq(S) /\ Len(b) = p /\ Len(t) = q
  <2>1. b \in Seq(S) /\ t \in Seq(S)
    <3>1. Seq(S) = UNION { [1 .. n -> S] : n \in Nat }
      BY SeqDef, Zenon
    <3>2. b \in UNION { [1 .. n -> S] : n \in Nat }
      BY <1>1, Zenon
    <3>3. t \in UNION { [1 .. n -> S] : n \in Nat }
      BY <1>1, Zenon
    <3> QED
      BY <3>1, <3>2, <3>3, Zenon
  <2>2. DOMAIN b = 1 .. p /\ DOMAIN t = 1 .. q
    OBVIOUS
  <2> QED
    BY <2>1, <2>2, LenProperties
<1>3. /\ Len(b \o t) = p + q /\ b \o t \in Seq(S)
      /\ \A k \in 1 .. p + q :
           (b \o t)[k] = IF k <= p THEN b[k] ELSE t[k - p]
  BY <1>2, ConcatProperties
<1>4. b \o t = [k \in 1 .. p + q |-> (b \o t)[k]]
  BY <1>3
<1>5. ASSUME NEW k \in 1 .. p + q
      PROVE  (b \o t)[k] = r[k]
  <2>1. CASE k <= p
    BY <2>1, <1>3
  <2>2. CASE ~(k <= p)
    <3>1. k - p \in 1 .. q /\ p + (k - p) = k
      BY <2>2
    <3> QED
      BY <2>2, <3>1, <1>3
  <2> QED
    BY <2>1, <2>2
<1> QED
  BY <1>4, <1>5

(* Every chunk of such a strip, the one of cell FirstCell + i. *)
LEMMA ManyEach ==
  ASSUME NEW m, NEW s, Ready(m, s), FirstCell(m, s) < LastCell(m, s),
         ~IsAligned(End(m, s)), NEW i \in 0 .. LastCell(m, s) - FirstCell(m, s)
  PROVE  LET ci == ChunkInfo(m, s)
             n  == NumChunks(ci)
             c  == FirstCell(m, s) + i
         IN  /\ IsSeam(ci, i) <=> s > 0 /\ i = 0
             /\ WriteableOffset(ci, n, i) = From(m, s, c) - At(c)
             /\ WriteableLen(ci, n, i) = To(m, s, c) - From(m, s, c)
             /\ Grown(ci, n, i) = Chunk(At(c), LenAfter(m, s, c), SharedAfter(m, s, c))
             /\ ManyAssert(ci, n, i)
<1> DEFINE f == FirstCell(m, s)
           l == LastCell(m, s)
<1>1. f \in Nat /\ l \in Nat /\ f < l /\ s \in Nat /\ i \in Nat /\ i <= l - f
  <2>1. f \in Nat /\ l \in Nat /\ s \in Nat
    BY ManyInfo DEF Ready
  <2> QED
    BY <2>1
<1>2. CASE s > 0 /\ i = 0
  <2>1. f + 0 = f
    BY <1>1
  <2> QED
    BY <1>2, <2>1, ManySeam
<1>3. CASE ~(s > 0 /\ i = 0) /\ i = l - f
  <2>1. f + i = l
    <3> HIDE DEF f, l
    <3> QED
      BY <1>1, <1>3
  <2> QED
    BY <1>3, <2>1, ManyLast
<1>4. CASE ~(s > 0 /\ i = 0) /\ i # l - f
  <2>1. f + i < l /\ (s = 0 \/ i > 0)
    <3> HIDE DEF f, l
    <3> QED
      BY <1>1, <1>4
  <2> QED
    BY <1>1, <1>4, <2>1, ManyInner
<1> QED
  BY <1>2, <1>3, <1>4

LEMMA ManyIs ==
  ASSUME NEW m, NEW s, Ready(m, s), FirstCell(m, s) < LastCell(m, s),
         ~IsAligned(End(m, s))
  PROVE  LET ci   == ChunkInfo(m, s)
             plan == ManyChunks(ci, NumChunks(ci))
         IN  /\ plan.ok /\ plan.pieces = PartsAt(m, s)
             /\ plan.ios = ChunksAfter(m, s)
<1> DEFINE ci == ChunkInfo(m, s)
           n == NumChunks(ci)
           f == FirstCell(m, s)
           l == LastCell(m, s)
           seam == IF s > 0 THEN 1 ELSE 0
           base == IF s > 0 THEN [ioChunks EXCEPT ![LeftFinal] = Grown(ci, n, 0)]
                            ELSE ioChunks
           tail == [k \in 1 .. n - seam |-> Grown(ci, n, k - 1 + seam)]
           G(c) == Chunk(At(c), LenAfter(m, s, c), SharedAfter(m, s, c))
           plan == ManyChunks(ci, n)
<1>1. /\ f \in Nat /\ l \in Nat /\ f < l /\ s \in Nat /\ n = (l - f) + 1 /\ n \in Nat
      /\ HasFirstSeam(ci) <=> s > 0
  BY ManyInfo DEF Ready
<1>2. /\ s = 0 => ioChunks = <<>> /\ Len(ioChunks) = 0 /\ f = 0
      /\ s > 0 => Len(ioChunks) = f + 1 /\ LeftFinal = f + 1
                  /\ DOMAIN ioChunks = 1 .. f + 1
  <2>1. s = 0 => ioChunks = <<>> /\ Len(ioChunks) = 0 /\ f = 0
    BY CellsOfStrip DEF Ready
  <2>2. s > 0 => Len(ioChunks) = f + 1 /\ LeftFinal = f + 1
                 /\ DOMAIN ioChunks = 1 .. f + 1
    <3> SUFFICES ASSUME s > 0
                 PROVE  Len(ioChunks) = f + 1 /\ LeftFinal = f + 1
                        /\ DOMAIN ioChunks = 1 .. f + 1
      OBVIOUS
    <3>1. /\ ioChunks \in Seq([offset : Nat, len : Nat, shareCount : Nat \ {0}])
          /\ Len(ioChunks) = f + 1 /\ LeftFinal = f + 1
      BY DEF Ready
    <3> QED
      BY <3>1
  <2> QED
    BY <2>1, <2>2
<1>3. ASSUME NEW i \in 0 .. l - f
      PROVE  /\ IsSeam(ci, i) <=> s > 0 /\ i = 0
             /\ WriteableOffset(ci, n, i) = From(m, s, f + i) - At(f + i)
             /\ WriteableLen(ci, n, i) = To(m, s, f + i) - From(m, s, f + i)
             /\ Grown(ci, n, i) = G(f + i)
             /\ ManyAssert(ci, n, i)
  BY <1>3, ManyEach
<1>4. n - 1 = l - f /\ n - seam \in Nat
  <2> HIDE DEF f, l, n
  <2> QED
    BY <1>1
<1>5. plan.ok
  <2>1. plan.ok <=> \A i \in 0 .. n - 1 : ManyAssert(ci, n, i)
    BY DEF ManyChunks
  <2> QED
    BY <2>1, <1>3, <1>4
<1>6. plan.ios = base \o tail
  <2>1. plan.ios = (IF HasFirstSeam(ci)
                    THEN [ioChunks EXCEPT ![LeftFinal] = Grown(ci, n, 0)]
                    ELSE ioChunks)
            \o [k \in 1 .. n - (IF HasFirstSeam(ci) THEN 1 ELSE 0) |->
                  Grown(ci, n, k - 1 + (IF HasFirstSeam(ci) THEN 1 ELSE 0))]
    BY DEF ManyChunks
  <2>2. CASE s > 0
    <3>1. HasFirstSeam(ci)
      BY <2>2, <1>1
    <3> HIDE DEF ci, n, plan
    <3> QED
      BY <2>1, <2>2, <3>1
  <2>3. CASE ~(s > 0)
    <3>1. ~HasFirstSeam(ci)
      BY <2>3, <1>1
    <3> HIDE DEF ci, n, plan
    <3> QED
      BY <2>1, <2>3, <3>1
  <2> QED
    BY <2>2, <2>3
<1>7. plan.pieces =
        [k \in 1 .. n |-> StripChunk(IF IsSeam(ci, k - 1) THEN LeftFinal
                                     ELSE Len(ioChunks) + k - seam,
                                     WriteableOffset(ci, n, k - 1),
                                     WriteableLen(ci, n, k - 1))]
  <2>1. seam = IF HasFirstSeam(ci) THEN 1 ELSE 0
    BY <1>1
  <2> HIDE DEF seam, n, ci
  <2> QED
    BY <2>1 DEF ManyChunks, plan
<1>8. plan.pieces = PartsAt(m, s)
  <2>1. PartsAt(m, s) = [k \in 1 .. n |-> PartIn(m, s, f + k - 1)]
    BY <1>1 DEF PartsAt, NumCells
  <2>2. ASSUME NEW k \in 1 .. n
        PROVE  StripChunk(IF IsSeam(ci, k - 1) THEN LeftFinal
                          ELSE Len(ioChunks) + k - seam,
                          WriteableOffset(ci, n, k - 1),
                          WriteableLen(ci, n, k - 1)) = PartIn(m, s, f + k - 1)
    <3>1. /\ k - 1 \in 0 .. l - f /\ f + (k - 1) = f + k - 1
          /\ (f + k - 1) + 1 = f + k /\ (k - 1 = 0 <=> k = 1)
      <4>1. k \in Nat /\ 1 <= k /\ k <= n
        BY <1>1
      <4> HIDE DEF f, l, n
      <4> QED
        BY <4>1, <1>1
    <3> DEFINE id == IF IsSeam(ci, k - 1) THEN LeftFinal
                     ELSE Len(ioChunks) + k - seam
    <3>2. IsSeam(ci, k - 1) <=> s > 0 /\ k = 1
      BY <3>1, <1>3
    <3>3. id = f + k
      <4>1. CASE s = 0
        <5>1. id = 0 + k - 0
          BY <4>1, <3>2, <1>2
        <5> QED
          BY <5>1, <4>1, <1>2
      <4>2. CASE s > 0 /\ k = 1
        BY <4>2, <3>2, <1>2
      <4>3. CASE s > 0 /\ k # 1
        <5>1. id = f + 1 + k - 1
          BY <4>3, <3>2, <1>2
        <5> HIDE DEF id, f
        <5> QED
          BY <5>1, <1>1
      <4> QED
        BY <4>1, <4>2, <4>3, <1>1
    <3>4. /\ WriteableOffset(ci, n, k - 1) = From(m, s, f + k - 1) - At(f + k - 1)
          /\ WriteableLen(ci, n, k - 1) = To(m, s, f + k - 1) - From(m, s, f + k - 1)
      BY <3>1, <1>3
    <3> HIDE DEF id, ci, n, f
    <3>5. StripChunk(id, WriteableOffset(ci, n, k - 1), WriteableLen(ci, n, k - 1))
            = PartIn(m, s, f + k - 1)
      BY <3>1, <3>3, <3>4 DEF PartIn
    <3> QED
      BY <3>5 DEF id
  <2> HIDE DEF plan, n, ci, f, seam
  <2> QED
    BY <2>1, <2>2, <1>7
<1>9. plan.ios = ChunksAfter(m, s)
  <2> DEFINE r == ChunksAfter(m, s)
             p == f + seam
             v == n - seam
  <2>1. r = [k \in 1 .. l + 1 |-> G(k - 1)]
    BY DEF ChunksAfter
  <2>2. /\ p \in Nat /\ v \in Nat /\ p + v = l + 1 /\ seam \in {0, 1}
        /\ s = 0 => p = 0
        /\ s > 0 => p = f + 1 /\ seam = 1
    <3>1. /\ seam \in {0, 1} /\ (s = 0 => seam = 0) /\ (s > 0 => seam = 1)
      OBVIOUS
    <3> HIDE DEF f, l, n, seam
    <3> QED
      BY <3>1, <1>1, <1>2, <1>4
  <2>3. tail = [k \in 1 .. v |-> r[p + k]]
    <3>1. ASSUME NEW k \in 1 .. v
          PROVE  Grown(ci, n, k - 1 + seam) = r[p + k]
      <4>1. /\ k - 1 + seam \in 0 .. l - f /\ p + k \in 1 .. l + 1
            /\ f + (k - 1 + seam) = (p + k) - 1
        <5>1. k \in Nat /\ 1 <= k /\ k <= v /\ v = n - seam /\ p = f + seam
          BY <2>2
        <5> HIDE DEF f, l, n, seam, p, v
        <5> QED
          BY <5>1, <2>2, <1>1
      <4>2. Grown(ci, n, k - 1 + seam) = G(f + (k - 1 + seam))
        BY <4>1, <1>3
      <4>3. r[p + k] = G((p + k) - 1)
        <5> HIDE DEF r, G, p, l
        <5> QED
          BY <2>1, <4>1
      <4> HIDE DEF r, G, p, l, f, seam, ci, n
      <4> QED
        BY <4>1, <4>2, <4>3
    <3>2. tail = [k \in 1 .. v |-> Grown(ci, n, k - 1 + seam)]
      OBVIOUS
    <3> HIDE DEF tail, r, p, v, ci, n, seam
    <3> QED
      BY <3>1, <3>2
  <2>4. base = [k \in 1 .. p |-> r[k]]
    <3>1. CASE s = 0
      <4>1. base = <<>> /\ p = 0
        BY <3>1, <1>2, <2>2
      <4> HIDE DEF base, p, r
      <4> QED
        BY <4>1
    <3>2. CASE s > 0
      <4>1. /\ p = f + 1 /\ base = [ioChunks EXCEPT ![p] = Grown(ci, n, 0)]
            /\ DOMAIN ioChunks = 1 .. p /\ p <= l + 1
        <5>1. p = f + 1 /\ LeftFinal = p /\ DOMAIN ioChunks = 1 .. p
          BY <3>2, <1>2, <2>2
        <5>2. p <= l + 1
          BY <2>2
        <5> QED
          BY <3>2, <5>1, <5>2
      <4>2. Grown(ci, n, 0) = G(f)
        <5>1. 0 \in 0 .. l - f /\ f + 0 = f
          BY <1>1
        <5> QED
          BY <5>1, <1>3
      <4>3. ASSUME NEW k \in 1 .. p
            PROVE  (IF k = p THEN G(f) ELSE ioChunks[k]) = r[k]
        <5>1. r[k] = G(k - 1) /\ k \in 1 .. f + 1 /\ k \in Int
          <6>1. k \in 1 .. l + 1 /\ k \in Int
            BY <4>1, <2>2, <1>1
          <6> HIDE DEF r, G, l
          <6> QED
            BY <6>1, <2>1, <4>1
        <5>2. CASE k = p
          <6>1. k - 1 = f
            <7> HIDE DEF f
            <7> QED
              BY <5>2, <4>1, <1>1
          <6> QED
            BY <5>1, <5>2, <6>1
        <5>3. CASE k # p
          <6>1. k # f + 1
            BY <5>3, <4>1
          <6>2. ioChunks[k] = G(k - 1)
            BY <5>1, <6>1, <3>2, OldChunk
          <6> QED
            BY <5>1, <5>3, <6>2
        <5> QED
          BY <5>2, <5>3
      <4>4. base = [k \in 1 .. p |-> IF k = p THEN G(f) ELSE ioChunks[k]]
        <5> HIDE DEF base, f, G, p
        <5> QED
          BY <4>1, <4>2
      <4> HIDE DEF base, f, G, p, r
      <4> QED
        BY <4>3, <4>4
    <3> QED
      BY <3>1, <3>2, <1>1
  <2>5. r = [k \in 1 .. p + v |-> r[k]]
    <3>1. r = [k \in 1 .. l + 1 |-> r[k]]
      <4> HIDE DEF r, G, l
      <4> QED
        BY <2>1
    <3> HIDE DEF r, p, v
    <3> QED
      BY <3>1, <2>2
  <2> HIDE DEF base, tail, r, p, v, plan
  <2>6. base \o tail = r
    BY <2>2, <2>3, <2>4, <2>5, Joins
  <2> QED
    BY <2>6, <1>6 DEF r
<1> QED
  BY <1>5, <1>8, <1>9

-----------------------------------------------------------------------------
(* The strip as a whole *)

Plan(m, s) ==
  LET ci == ChunkInfo(m, s)
      n  == NumChunks(ci)
  IN  IF n = 1 THEN SingleChunk(ci) ELSE ManyChunks(ci, n)

LEMMA PlanIs ==
  ASSUME NEW m, NEW s, Ready(m, s), Sound(m, s)
  PROVE  /\ Plan(m, s).ok /\ Plan(m, s).pieces = PartsAt(m, s)
         /\ Plan(m, s).ios = ChunksAfter(m, s)
<1> DEFINE ci == ChunkInfo(m, s)
           n == NumChunks(ci)
           f == FirstCell(m, s)
           l == LastCell(m, s)
<1>1. /\ IsStrip(m, s) /\ s \in Nat /\ f \in Nat /\ l \in Nat /\ f <= l
      /\ (s = 0 => f = 0) /\ n = (l - f) + 1
  <2>1. IsStrip(m, s) /\ s \in Nat
    BY DEF Ready, IsStrip
  <2> QED
    BY <2>1, CellsOfStrip, NumChunksIs
<1>2. CASE f = l
  <2>1. n = 1
    <3> HIDE DEF f, l, n
    <3> QED
      BY <1>1, <1>2
  <2>2. Plan(m, s) = SingleChunk(ci)
    BY <2>1 DEF Plan
  <2>3. CASE s = 0
    <3>1. l = 0
      BY <2>3, <1>1, <1>2
    <3> QED
      BY <2>2, <2>3, <3>1, SingleFirst
  <2>4. CASE s # 0
    <3>1. ~IsAligned(End(m, s)) /\ s > 0
      BY <2>4, <1>1 DEF Sound
    <3> QED
      BY <2>2, <3>1, <1>2, SingleNext
  <2> QED
    BY <2>3, <2>4
<1>3. CASE f < l
  <2>1. n # 1 /\ l # 0
    <3> HIDE DEF f, l, n
    <3> QED
      BY <1>1, <1>3
  <2>2. Plan(m, s) = ManyChunks(ci, n)
    BY <2>1 DEF Plan
  <2>3. ~IsAligned(End(m, s))
    BY <2>1 DEF Sound
  <2> QED
    BY <1>3, <2>2, <2>3, ManyIs
<1> QED
  BY <1>1, <1>2, <1>3

(* An image that ends on a boundary of cells, and is not a single cell in  *)
(* a single strip, ends the program: its last strip either lies in front   *)
(* of the chunk it is said to end in, or has an empty last chunk.          *)
LEMMA PlanFails ==
  ASSUME NEW m, NEW s, IsStrip(m, s), ~Sound(m, s)
  PROVE  ~Plan(m, s).ok
<1> DEFINE ci == ChunkInfo(m, s)
           n == NumChunks(ci)
           f == FirstCell(m, s)
           l == LastCell(m, s)
           b == Begin(m, s)
           e == End(m, s)
<1>1. /\ s \in Nat /\ f \in Nat /\ l \in Nat /\ f <= l
      /\ (s = 0 => f = 0) /\ n = (l - f) + 1
      /\ Cell(e) = l + 1 /\ e = At(l) + WRTSIZE
      /\ IsAligned(e) /\ ~(s = 0 /\ l = 0)
  <2>1. s \in Nat /\ IsAligned(e) /\ ~(s = 0 /\ l = 0)
    BY DEF IsStrip, Sound
  <2> QED
    BY <2>1, CellsOfStrip, NumChunksIs
<1>2. CASE f = l
  <2>1. n = 1 /\ s # 0
    <3>1. ~(s = 0 /\ f = 0) /\ n = (f - f) + 1
      BY <1>1, <1>2
    <3> HIDE DEF f, n
    <3> QED
      BY <3>1, <1>1
  <2>2. Plan(m, s) = SingleChunk(ci)
    BY <2>1 DEF Plan
  <2>3. ~ci.isFirst /\ ci.first.x0 = b /\ ci.last.x0 = e
    <3>1. /\ ci.isFirst = (s = 0) /\ ci.first.x0 = b
          /\ ci.last.x0 = At(Cell(e))
      BY ChunkInfoIs
    <3>2. At(l + 1) = At(l) + WRTSIZE
      BY <1>1, AtStep
    <3> QED
      BY <3>1, <3>2, <2>1, <1>1
  <2>4. ~(e <= b)
    <3>1. b \in Nat /\ e \in Nat /\ Start(m, s) \in Nat
          /\ b <= Start(m, s) /\ Start(m, s) < e
      BY BeginEnd
    <3> HIDE DEF b, e
    <3> QED
      BY <3>1
  <2>5. SingleChunk(ci).ok => ci.isFirst \/ ci.last.x0 <= ci.first.x0
    <3> HIDE DEF ci
    <3> QED
      BY DEF SingleChunk
  <2> QED
    BY <2>2, <2>3, <2>4, <2>5
<1>3. CASE f < l
  <2>1. n # 1
    <3> HIDE DEF f, l, n
    <3> QED
      BY <1>1, <1>3
  <2>2. Plan(m, s) = ManyChunks(ci, n)
    BY <2>1 DEF Plan
  <2>3. n - 1 \in 0 .. n - 1 /\ ~ManyAssert(ci, n, n - 1)
    BY <1>1, <1>3, ManyEmpty
  <2>4. ManyChunks(ci, n).ok <=> \A i \in 0 .. n - 1 : ManyAssert(ci, n, i)
    <3> HIDE DEF ci, n
    <3> QED
      BY DEF ManyChunks
  <2> QED
    BY <2>2, <2>3, <2>4
<1> QED
  BY <1>1, <1>2, <1>3

LEMMA HasSmallest ==
  ASSUME NEW S \in SUBSET Nat, S # {}
  PROVE  \E x \in S : \A y \in S : x <= y
<1>1. \E x \in S : \A y \in S : ~(<<y, x>> \in OpToRel(<, Nat))
  BY NatLessThanWellFounded, WFMin
<1>2. PICK x \in S : \A y \in S : ~(y < x)
  BY <1>1 DEF OpToRel
<1>3. ASSUME NEW y \in S
      PROVE  x <= y
  <2>1. ~(y < x) /\ x \in Nat /\ y \in Nat
    BY <1>2
  <2> QED
    BY <2>1
<1> QED
  BY <1>3

(* A function of partial sums is what the recursive total computes. *)
Sums(g, p, n) ==
  /\ g = [k \in 0 .. n |-> g[k]] /\ g[0] = 0
  /\ \A k \in 1 .. n : g[k - 1] + p[k].len = g[k]

LEMMA TotalIs ==
  ASSUME NEW p, NEW n \in Nat, Len(p) = n, NEW g, Sums(g, p, n)
  PROVE  WriteableTotal(p) = g[n]
<1> DEFINE IsTotal(h) ==
             h = [k \in 0 .. n |-> IF k = 0 THEN 0 ELSE h[k - 1] + p[k].len]
<1>1. IsTotal(g)
  <2>1. ASSUME NEW k \in 0 .. n
        PROVE  g[k] = IF k = 0 THEN 0 ELSE g[k - 1] + p[k].len
    <3>1. k # 0 => k \in 1 .. n
      OBVIOUS
    <3> QED
      BY <3>1 DEF Sums
  <2> QED
    BY <2>1 DEF Sums
<1>2. ASSUME NEW h, IsTotal(h)
      PROVE  h[n] = g[n]
  <2> DEFINE B == { k \in 0 .. n : h[k] # g[k] }
  <2>1. \A k \in 0 .. n : h[k] = IF k = 0 THEN 0 ELSE h[k - 1] + p[k].len
    BY <1>2
  <2>2. B = {}
    <3> SUFFICES ASSUME B # {}
                 PROVE  FALSE
      OBVIOUS
    <3>1. B \subseteq Nat
      OBVIOUS
    <3>2. PICK x \in B : \A y \in B : x <= y
      <4> HIDE DEF B
      <4> QED
        BY <3>1, HasSmallest
    <3>3. x # 0 /\ x \in 1 .. n /\ x - 1 \in 0 .. n /\ x - 1 \notin B
      BY <3>2, <2>1 DEF Sums
    <3>4. h[x] = h[x - 1] + p[x].len /\ h[x - 1] = g[x - 1]
      BY <3>2, <3>3, <2>1
    <3>5. g[x - 1] + p[x].len = g[x]
      BY <3>3 DEF Sums
    <3>6. h[x] # g[x]
      BY <3>2
    <3> QED
      BY <3>4, <3>5, <3>6
  <2>3. n \in 0 .. n
    OBVIOUS
  <2>4. n \notin B
    BY <2>2
  <2> QED
    BY <2>3, <2>4
<1>3. WriteableTotal(p) = (CHOOSE h : IsTotal(h))[n]
  BY DEF WriteableTotal
<1>4. IsTotal(CHOOSE h : IsTotal(h))
  <2> HIDE DEF IsTotal
  <2> QED
    BY <1>1
<1> QED
  BY <1>2, <1>3, <1>4

LEMMA PartsAre ==
  ASSUME NEW m, NEW s, IsStrip(m, s)
  PROVE  LET n == NumCells(m, s)
             f == FirstCell(m, s)
             p == PartsAt(m, s)
         IN  /\ n \in Nat \ {0} /\ f + n = LastCell(m, s) + 1
             /\ DOMAIN p = 1 .. n /\ Len(p) = n /\ Last(p) = p[n]
             /\ \A k \in 1 .. n :
                  /\ f + k - 1 \in f .. LastCell(m, s) /\ (f + k - 1) + 1 = f + k
                  /\ p[k].ioChunk = f + k
                  /\ p[k].offset = From(m, s, f + k - 1) - At(f + k - 1)
                  /\ p[k].len = To(m, s, f + k - 1) - From(m, s, f + k - 1)
<1> DEFINE n == NumCells(m, s)
           f == FirstCell(m, s)
           l == LastCell(m, s)
           p == PartsAt(m, s)
<1>1. f \in Nat /\ l \in Nat /\ f <= l
  BY CellsOfStrip
<1>2. n = (l - f) + 1
  BY DEF NumCells
<1>3. n \in Nat \ {0} /\ f + n = l + 1
  <2> HIDE DEF f, l, n
  <2> QED
    BY <1>1, <1>2
<1>4. p = [k \in 1 .. n |-> PartIn(m, s, f + k - 1)]
  BY DEF PartsAt
<1>5. DOMAIN p = 1 .. n /\ Len(p) = n /\ Last(p) = p[n]
  <2>1. DOMAIN p = 1 .. n /\ Len(p) = n
    <3> HIDE DEF f, n, p
    <3> QED
      BY <1>3, <1>4
  <2> QED
    BY <2>1 DEF Last
<1>6. ASSUME NEW k \in 1 .. n
      PROVE  /\ f + k - 1 \in f .. l /\ (f + k - 1) + 1 = f + k
             /\ p[k].ioChunk = f + k
             /\ p[k].offset = From(m, s, f + k - 1) - At(f + k - 1)
             /\ p[k].len = To(m, s, f + k - 1) - From(m, s, f + k - 1)
  <2>1. f + k - 1 \in f .. l /\ (f + k - 1) + 1 = f + k
    <3>1. k \in 1 .. n
      OBVIOUS
    <3> HIDE DEF f, l, n
    <3> QED
      BY <3>1, <1>1, <1>3
  <2>2. p[k] = PartIn(m, s, f + k - 1)
    <3>1. k \in 1 .. n
      OBVIOUS
    <3> HIDE DEF f, n, p
    <3> QED
      BY <3>1, <1>4
  <2> HIDE DEF f, n, p
  <2>3. /\ p[k].ioChunk = (f + k - 1) + 1
        /\ p[k].offset = From(m, s, f + k - 1) - At(f + k - 1)
        /\ p[k].len = To(m, s, f + k - 1) - From(m, s, f + k - 1)
    BY <2>2 DEF PartIn, StripChunk
  <2> QED
    BY <2>1, <2>3
<1> QED
  BY <1>3, <1>5, <1>6

(* The parts of a strip add up to its pixel data. *)
LEMMA PartsTotal ==
  ASSUME NEW m, NEW s, IsStrip(m, s)
  PROVE  WriteableTotal(PartsAt(m, s)) = LogicalLen(m, s)
<1> DEFINE n == NumCells(m, s)
           f == FirstCell(m, s)
           l == LastCell(m, s)
           st == Start(m, s)
           p == PartsAt(m, s)
           g == [k \in 0 .. n |-> IF k = 0 THEN 0 ELSE To(m, s, f + k - 1) - st]
<1>1. n \in Nat \ {0} /\ f + n = l + 1 /\ Len(p) = n /\ f \in Nat /\ l \in Nat
  BY PartsAre, CellsOfStrip
<1>2. st \in Nat /\ End(m, s) = st + LogicalLen(m, s) /\ LogicalLen(m, s) \in Nat
      /\ End(m, s) \in Nat
  BY BeginEnd
<1>3. ASSUME NEW k \in 1 .. n
      PROVE  g[k - 1] + p[k].len = g[k]
  <2> DEFINE c == f + k - 1
  <2>1. /\ c \in f .. l
        /\ p[k].len = To(m, s, c) - From(m, s, c)
    BY PartsAre
  <2>2. /\ From(m, s, c) \in Nat /\ To(m, s, c) \in Nat
    BY <2>1, PartFacts
  <2>3. g[k] = To(m, s, c) - st
    <3>1. k \in 0 .. n /\ k # 0
      <4>1. k \in 1 .. n
        OBVIOUS
      <4> HIDE DEF n
      <4> QED
        BY <4>1, <1>1
    <3> HIDE DEF n, f, st
    <3> QED
      BY <3>1 DEF g
  <2>4. g[k - 1] = From(m, s, c) - st
    <3>1. CASE k = 1
      <4>1. g[k - 1] = 0
        <5>1. k - 1 = 0 /\ 0 \in 0 .. n
          BY <3>1, <1>1
        <5> HIDE DEF n, f, st
        <5> QED
          BY <5>1 DEF g
      <4>2. c = f
        <5> HIDE DEF f
        <5> QED
          BY <3>1, <1>1 DEF c
      <4>3. From(m, s, c) = st
        BY <4>2 DEF From
      <4> QED
        BY <4>1, <4>3, <1>2
    <3>2. CASE k # 1
      <4>1. k - 1 \in 1 .. n /\ k - 1 \in 0 .. n /\ k - 1 # 0
        <5>1. k \in 1 .. n
          OBVIOUS
        <5> HIDE DEF n
        <5> QED
          BY <5>1, <3>2, <1>1
      <4> DEFINE d == f + (k - 1) - 1
      <4>2. g[k - 1] = To(m, s, d) - st
        <5> HIDE DEF n, f, st
        <5> QED
          BY <4>1 DEF g
      <4>3. d \in f .. l /\ d < l /\ d + 1 = c
        <5>1. d \in f .. l
          BY <4>1, PartsAre
        <5>2. d + 1 = c /\ d < c
          <6>1. k \in Int
            BY <1>1
          <6> HIDE DEF f
          <6> QED
            BY <6>1, <1>1
        <5> HIDE DEF c, d, f, l
        <5> QED
          BY <5>1, <5>2, <2>1, <1>1
      <4>4. To(m, s, d) = From(m, s, c)
        <5>1. To(m, s, d) = From(m, s, d + 1)
          <6> HIDE DEF d
          <6> QED
            BY <4>3, PartFacts
        <5> QED
          BY <5>1, <4>3
      <4> QED
        BY <4>2, <4>4
    <3> QED
      BY <3>1, <3>2
  <2> HIDE DEF c, g, p, st
  <2> QED
    BY <2>1, <2>2, <2>3, <2>4, <1>2
<1>4. g = [k \in 0 .. n |-> g[k]] /\ g[0] = 0
  <2>1. 0 \in 0 .. n
    BY <1>1
  <2> HIDE DEF n
  <2> QED
    BY <2>1
<1>5. g[n] = LogicalLen(m, s)
  <2>1. f + n - 1 = l /\ n \in 0 .. n /\ n # 0
    <3> HIDE DEF f, n, l
    <3> QED
      BY <1>1
  <2>2. To(m, s, l) = End(m, s)
    BY DEF To
  <2>3. g[n] = To(m, s, f + n - 1) - st
    <3> HIDE DEF n, f, st
    <3> QED
      BY <2>1
  <2> HIDE DEF st, g
  <2> QED
    BY <2>1, <2>2, <2>3, <1>2
<1> HIDE DEF g, n, p
<1>6. WriteableTotal(p) = g[n]
  <2>1. n \in Nat /\ Len(p) = n
    BY <1>1
  <2>2. \A k \in 1 .. n : g[k - 1] + p[k].len = g[k]
    BY <1>3
  <2>3. Sums(g, p, n)
    BY <2>2, <1>4 DEF Sums
  <2> QED
    BY <2>1, <2>3, TotalIs
<1> QED
  BY <1>5, <1>6 DEF p

(* The validation at the end of generateChunks succeeds. *)
LEMMA PlanValid ==
  ASSUME NEW m, NEW s, Ready(m, s), Sound(m, s)
  PROVE  Validates(ChunkInfo(m, s), Plan(m, s), LogicalLen(m, s))
<1> DEFINE ci == ChunkInfo(m, s)
           plan == Plan(m, s)
           n == NumCells(m, s)
           f == FirstCell(m, s)
           l == LastCell(m, s)
           e == End(m, s)
           st == Start(m, s)
           p == PartsAt(m, s)
           io == ChunksAfter(m, s)
<1>1. IsStrip(m, s)
  BY DEF Ready
<1>2. plan.pieces = p /\ plan.ios = io
  BY PlanIs
<1>3. /\ n \in Nat /\ 1 \in 1 .. n /\ n \in 1 .. n /\ f + n = l + 1
      /\ f \in Nat /\ l \in Nat /\ f <= l /\ (s = 0 => f = 0)
      /\ Len(p) = n /\ Last(p) = p[n]
  <2>1. n \in Nat \ {0}
    BY <1>1, PartsAre
  <2>2. 1 \in 1 .. n /\ n \in 1 .. n
    BY <2>1
  <2> QED
    BY <1>1, <2>1, <2>2, PartsAre, CellsOfStrip
<1>4. /\ f + 1 - 1 = f /\ f + n - 1 = l /\ f + 1 \in 1 .. l + 1 /\ l + 1 \in 1 .. l + 1
      /\ (f + 1) - 1 = f /\ (l + 1) - 1 = l /\ (n = 1 <=> f = l)
  <2> HIDE DEF f, l, n
  <2> QED
    BY <1>3
<1>5. /\ p[1].ioChunk = f + 1
      /\ p[1].offset = st - At(f)
  <2>1. /\ p[1].ioChunk = f + 1
        /\ p[1].offset = From(m, s, f + 1 - 1) - At(f + 1 - 1)
    <3>1. IsStrip(m, s) /\ 1 \in 1 .. n
      BY <1>1, <1>3
    <3> QED
      BY <3>1, PartsAre
  <2>2. From(m, s, f) = st
    BY DEF From
  <2> QED
    BY <2>1, <2>2, <1>4
<1>6. /\ p[n].ioChunk = l + 1
      /\ p[n].len = e - (IF f = l THEN st ELSE At(l))
  <2>1. /\ p[n].ioChunk = f + n
        /\ p[n].len = To(m, s, f + n - 1) - From(m, s, f + n - 1)
    <3>1. IsStrip(m, s) /\ n \in 1 .. n
      BY <1>1, <1>3
    <3> QED
      BY <3>1, PartsAre
  <2>2. To(m, s, l) = e /\ From(m, s, l) = IF f = l THEN st ELSE At(l)
    BY DEF From, To
  <2> QED
    BY <2>1, <2>2, <1>3, <1>4
<1>7. io[f + 1].offset = At(f) /\ io[l + 1].offset = At(l)
  <2>1. io = [k \in 1 .. l + 1 |->
                Chunk(At(k - 1), LenAfter(m, s, k - 1), SharedAfter(m, s, k - 1))]
    BY DEF ChunksAfter
  <2> HIDE DEF io, f, l
  <2>2. io[f + 1] = Chunk(At((f + 1) - 1), LenAfter(m, s, (f + 1) - 1),
                          SharedAfter(m, s, (f + 1) - 1))
    BY <2>1, <1>4
  <2>3. io[l + 1] = Chunk(At((l + 1) - 1), LenAfter(m, s, (l + 1) - 1),
                          SharedAfter(m, s, (l + 1) - 1))
    BY <2>1, <1>4
  <2> QED
    BY <2>2, <2>3, <1>4, ChunkFields
<1>8. /\ ci.isFirst = (s = 0)
      /\ ci.first.x0 = Begin(m, s) /\ ci.last.x1 = e
  BY <1>1, ChunkInfoIs
<1>9. /\ st \in Nat /\ e \in Nat /\ LogicalLen(m, s) \in Nat
      /\ e = st + LogicalLen(m, s)
      /\ st = Begin(m, s) + (IF s = 0 THEN HeaderSize ELSE 0)
      /\ At(f) \in Nat /\ At(l) \in Nat
  <2>1. HeaderSize \in Nat
    BY GeometryAssumption
  <2>2. /\ st \in Nat /\ e \in Nat /\ LogicalLen(m, s) \in Nat
        /\ e = st + LogicalLen(m, s)
        /\ Begin(m, s) \in Nat /\ (s = 0 => Begin(m, s) = 0)
    BY <1>1, BeginEnd
  <2>3. st = Begin(m, s) + (IF s = 0 THEN HeaderSize ELSE 0)
    BY <2>1, <2>2 DEF Start
  <2> QED
    BY <1>3, <2>2, <2>3, AtStep
<1>10. At(l) + (e - (IF f = l THEN st ELSE At(l)))
         + (IF n = 1 THEN st - At(f) ELSE 0) = e
  <2>1. CASE f = l
    <3>1. At(f) + (e - st) + (st - At(f)) = e
      <4> HIDE DEF f, e, st
      <4> QED
        BY <1>9
    <3> QED
      BY <2>1, <3>1, <1>4
  <2>2. CASE f # l
    <3>1. At(l) + (e - At(l)) + 0 = e
      <4> HIDE DEF l, e
      <4> QED
        BY <1>9
    <3> QED
      BY <2>2, <3>1, <1>4
  <2> QED
    BY <2>1, <2>2
<1>11. At(f) + (st - At(f)) = st
  <2> HIDE DEF f, st
  <2> QED
    BY <1>9
<1>12. WriteableTotal(p) = LogicalLen(m, s)
  BY <1>1, PartsTotal
<1>13. ci.isFirst => At(f) = 0
  BY <1>3, <1>8, AtStep
<1> DEFINE begin == io[p[1].ioChunk].offset + p[1].offset
           end == io[Last(p).ioChunk].offset + Last(p).len
                    + (IF Len(p) = 1 THEN p[1].offset ELSE 0)
<1>14. begin = st /\ end = e /\ (ci.isFirst => io[p[1].ioChunk].offset = 0)
  <2> HIDE DEF io, p, f, l, n, ci, st, e
  <2> QED
    BY <1>3, <1>5, <1>6, <1>7, <1>10, <1>11, <1>13
<1>15. e - st = LogicalLen(m, s)
  <2> HIDE DEF e, st
  <2> QED
    BY <1>9
<1>16. begin = ci.first.x0 + (IF ci.isFirst THEN HeaderSize ELSE 0)
  BY <1>8, <1>9, <1>14
<1>17. Validates(ci, plan, LogicalLen(m, s)) <=>
         /\ ci.isFirst => io[p[1].ioChunk].offset = 0
         /\ WriteableTotal(p) = LogicalLen(m, s)
         /\ end = ci.last.x1
         /\ begin = ci.first.x0 + (IF ci.isFirst THEN HeaderSize ELSE 0)
         /\ end - begin = LogicalLen(m, s)
  <2> HIDE DEF ci, plan, p, io
  <2> QED
    BY <1>2 DEF Validates
<1> HIDE DEF ci, plan, p, io, begin, end, st, e
<1>18. end - begin = LogicalLen(m, s) /\ end = ci.last.x1
  BY <1>8, <1>14, <1>15
<1>19. Validates(ci, plan, LogicalLen(m, s))
  BY <1>12, <1>14, <1>16, <1>17, <1>18
<1> QED
  BY <1>19 DEF ci, plan

-----------------------------------------------------------------------------
(* Which strips have a part of a chunk *)

(* The parts that the first b strips have of chunk c, as <<strip, chunk>>. *)
PartIds(m, b, c) ==
  { i \in UNION { {t} \X (1 .. NumCells(m, t - 1)) : t \in 1 .. b } :
      FirstCell(m, i[1] - 1) + i[2] = c }

LEMMA PartIdsAre ==
  ASSUME NEW m, NEW b, NEW c, NEW i
  PROVE  i \in PartIds(m, b, c) <=>
           \E t \in 1 .. b : \E k \in 1 .. NumCells(m, t - 1) :
             i = <<t, k>> /\ FirstCell(m, t - 1) + k = c
<1>1. ASSUME NEW t \in 1 .. b, NEW k \in 1 .. NumCells(m, t - 1),
             i = <<t, k>>, FirstCell(m, t - 1) + k = c
      PROVE  i \in PartIds(m, b, c)
  <2>1. i \in {t} \X (1 .. NumCells(m, t - 1)) /\ i[1] = t /\ i[2] = k
    BY <1>1
  <2> QED
    BY <2>1, <1>1 DEF PartIds
<1>2. ASSUME i \in PartIds(m, b, c)
      PROVE  \E t \in 1 .. b : \E k \in 1 .. NumCells(m, t - 1) :
               i = <<t, k>> /\ FirstCell(m, t - 1) + k = c
  <2>1. PICK t \in 1 .. b : i \in {t} \X (1 .. NumCells(m, t - 1))
    BY <1>2 DEF PartIds
  <2>2. PICK k \in 1 .. NumCells(m, t - 1) : i = <<t, k>>
    BY <2>1
  <2>3. FirstCell(m, i[1] - 1) + i[2] = c
    BY <1>2 DEF PartIds
  <2> QED
    BY <2>2, <2>3
<1> QED
  BY <1>1, <1>2

(* A strip has a part of the chunks from FirstCell + 1 to LastCell + 1. *)
LEMMA PartIdIs ==
  ASSUME NEW m, NEW s, IsStrip(m, s), NEW c \in Int
  PROVE  \A k : k \in 1 .. NumCells(m, s) /\ FirstCell(m, s) + k = c <=>
                k = c - FirstCell(m, s)
                /\ FirstCell(m, s) < c /\ c <= LastCell(m, s) + 1
<1> DEFINE f == FirstCell(m, s)
           l == LastCell(m, s)
           n == NumCells(m, s)
<1>1. f \in Nat /\ l \in Nat /\ n \in Nat /\ f + n = l + 1
  BY CellsOfStrip, PartsAre
<1> HIDE DEF f, l, n
<1>2. \A k : k \in 1 .. n /\ f + k = c <=> k = c - f /\ f < c /\ c <= l + 1
  BY <1>1
<1> QED
  BY <1>2 DEF f, l, n

LEMMA PartIdIn ==
  ASSUME NEW m, NEW s, IsStrip(m, s), NEW c \in Int,
         FirstCell(m, s) < c, c <= LastCell(m, s) + 1
  PROVE  /\ c - FirstCell(m, s) \in 1 .. NumCells(m, s)
         /\ FirstCell(m, s) + (c - FirstCell(m, s)) = c
<1> DEFINE k == c - FirstCell(m, s)
<1>1. k \in 1 .. NumCells(m, s) /\ FirstCell(m, s) + k = c <=>
        k = c - FirstCell(m, s)
        /\ FirstCell(m, s) < c /\ c <= LastCell(m, s) + 1
  <2> HIDE DEF k
  <2> QED
    BY PartIdIs
<1> QED
  BY <1>1

LEMMA PartIdsStep ==
  ASSUME NEW m, NEW b, IsStrip(m, b), NEW c \in Int
  PROVE  LET f == FirstCell(m, b) IN
         /\ <<b + 1, c - f>> \notin PartIds(m, b, c)
         /\ PartIds(m, b + 1, c) =
              IF f < c /\ c <= LastCell(m, b) + 1
              THEN PartIds(m, b, c) \cup {<<b + 1, c - f>>}
              ELSE PartIds(m, b, c)
<1> DEFINE f == FirstCell(m, b)
           l == LastCell(m, b)
<1>1. b \in Nat /\ (b + 1) - 1 = b
  BY DEF IsStrip
<1>2. <<b + 1, c - f>> \notin PartIds(m, b, c)
  <2> SUFFICES ASSUME <<b + 1, c - f>> \in PartIds(m, b, c)
               PROVE  FALSE
    OBVIOUS
  <2>1. PICK t \in 1 .. b : \E k \in 1 .. NumCells(m, t - 1) : <<b + 1, c - f>> = <<t, k>>
    BY PartIdsAre
  <2>2. t = b + 1
    BY <2>1
  <2> QED
    BY <2>2, <1>1
<1>3. ASSUME NEW i
      PROVE  i \in PartIds(m, b + 1, c) <=>
               i \in PartIds(m, b, c)
               \/ (i = <<b + 1, c - f>> /\ f < c /\ c <= l + 1)
  <2>1. i \in PartIds(m, b + 1, c) <=>
          \/ \E t \in 1 .. b : \E k \in 1 .. NumCells(m, t - 1) :
               i = <<t, k>> /\ FirstCell(m, t - 1) + k = c
          \/ \E k \in 1 .. NumCells(m, b) : i = <<b + 1, k>> /\ f + k = c
    <3>1. i \in PartIds(m, b + 1, c) <=>
            \E t \in 1 .. b + 1 : \E k \in 1 .. NumCells(m, t - 1) :
               i = <<t, k>> /\ FirstCell(m, t - 1) + k = c
      BY PartIdsAre
    <3>2. \A t : t \in 1 .. b + 1 <=> t \in 1 .. b \/ t = b + 1
      BY <1>1
    <3> QED
      BY <3>1, <3>2, <1>1
  <2>2. (\E k \in 1 .. NumCells(m, b) : i = <<b + 1, k>> /\ f + k = c) <=>
          i = <<b + 1, c - f>> /\ f < c /\ c <= l + 1
    <3>1. \A k : k \in 1 .. NumCells(m, b) /\ f + k = c <=>
                 k = c - f /\ f < c /\ c <= l + 1
      BY PartIdIs
    <3> HIDE DEF f, l
    <3> QED
      BY <3>1
  <2>3. i \in PartIds(m, b, c) <=>
          \E t \in 1 .. b : \E k \in 1 .. NumCells(m, t - 1) :
               i = <<t, k>> /\ FirstCell(m, t - 1) + k = c
    BY PartIdsAre
  <2> QED
    BY <2>1, <2>2, <2>3
<1> HIDE DEF f, l
<1>4. PartIds(m, b + 1, c) =
        IF f < c /\ c <= l + 1 THEN PartIds(m, b, c) \cup {<<b + 1, c - f>>}
                               ELSE PartIds(m, b, c)
  BY <1>3
<1> QED
  BY <1>2, <1>4 DEF f, l

(* The strips before b have no part of the chunks behind the first of b. *)
LEMMA PartIdsEmpty ==
  ASSUME NEW m, NEW b, IsStrip(m, b), NEW c \in Int, b = 0 \/ FirstCell(m, b) + 1 < c
  PROVE  PartIds(m, b, c) = {}
<1> SUFFICES ASSUME NEW i, i \in PartIds(m, b, c)
             PROVE  FALSE
  OBVIOUS
<1>1. PICK t \in 1 .. b : \E k \in 1 .. NumCells(m, t - 1) :
        i = <<t, k>> /\ FirstCell(m, t - 1) + k = c
  BY PartIdsAre
<1>2. /\ b \in Nat /\ t \in Nat /\ t - 1 < b /\ b # 0 /\ IsStrip(m, t - 1)
      /\ FirstCell(m, b) + 1 < c
  BY <1>1, StripHeights DEF IsStrip
<1>3. c <= LastCell(m, t - 1) + 1
  BY <1>1, <1>2, PartIdIs
<1>4. LastCell(m, t - 1) <= FirstCell(m, b)
  BY <1>2, EndsGrow
<1>5. LastCell(m, t - 1) \in Nat /\ FirstCell(m, b) \in Nat
  BY <1>2, CellsOfStrip
<1> QED
  BY <1>2, <1>3, <1>4, <1>5

(* Every chunk but the last is full to its end by the part of some strip. *)
LEMMA SomeFillsCell ==
  ASSUME NEW m, NEW b, IsStrip(m, b), NEW c \in 1 .. LastCell(m, b)
  PROVE  \E t \in 1 .. b + 1 :
           <<t, c - FirstCell(m, t - 1)>> \in PartIds(m, b + 1, c)
           /\ IsStrip(m, t - 1) /\ FirstCell(m, t - 1) < c /\ c <= LastCell(m, t - 1)
<1> DEFINE T == { t \in 0 .. b : IsStrip(m, t) /\ c <= LastCell(m, t) }
<1>1. b \in Nat /\ LastCell(m, b) \in Nat /\ c \in Nat /\ c <= LastCell(m, b) /\ 1 <= c
  BY CellsOfStrip DEF IsStrip
<1>2. T \subseteq Nat /\ T # {}
  <2>1. b \in T
    BY <1>1
  <2> QED
    BY <2>1
<1>3. PICK t \in T : \A u \in T : t <= u
  <2> HIDE DEF T
  <2> QED
    BY <1>2, HasSmallest
<1>4. t \in 0 .. b /\ IsStrip(m, t) /\ c <= LastCell(m, t)
  BY <1>3
<1>5. FirstCell(m, t) < c
  <2>1. CASE t = 0
    BY <2>1, <1>1, <1>4, CellsOfStrip
  <2>2. CASE t # 0
    <3>1. IsStrip(m, t - 1) /\ FirstCell(m, t) = LastCell(m, t - 1) /\ t - 1 \in 0 .. b
          /\ LastCell(m, t - 1) \in Nat
      BY <2>2, <1>1, <1>4, Neighbours, CellsOfStrip
    <3>2. t - 1 \notin T
      BY <1>3, <1>4
    <3> QED
      BY <3>1, <3>2, <1>1
  <2> QED
    BY <2>1, <2>2
<1> DEFINE u == t + 1
<1>6. u \in 1 .. b + 1 /\ u - 1 = t
  BY <1>1, <1>4
<1> HIDE DEF u
<1>7. LastCell(m, t) \in Nat /\ c <= LastCell(m, t) + 1
  BY <1>1, <1>4, CellsOfStrip
<1>8. <<u, c - FirstCell(m, t)>> \in PartIds(m, b + 1, c)
  <2> DEFINE k == c - FirstCell(m, t)
  <2>1. k \in 1 .. NumCells(m, u - 1) /\ FirstCell(m, u - 1) + k = c
    <3>1. k \in 1 .. NumCells(m, t) /\ FirstCell(m, t) + k = c
      BY <1>1, <1>4, <1>5, <1>7, PartIdIn
    <3> QED
      BY <3>1, <1>6
  <2> HIDE DEF k
  <2>2. \E v \in 1 .. b + 1 : \E j \in 1 .. NumCells(m, v - 1) :
          <<u, k>> = <<v, j>> /\ FirstCell(m, v - 1) + j = c
    BY <2>1, <1>6
  <2>3. <<u, k>> \in PartIds(m, b + 1, c)
    BY <2>2, PartIdsAre
  <2> QED
    BY <2>3 DEF k
<1> QED
  BY <1>4, <1>5, <1>6, <1>8

-----------------------------------------------------------------------------
(* The invariant *)

(* The IOChunks once strip s has been built: io[c] is cell c - 1, and its  *)
(* share count is the number of strips that have a part of it, and one     *)
(* more for the next strip when it is the last one so far.                 *)
ChunksBuilt(m, s, io) ==
  /\ io = [c \in 1 .. LastCell(m, s) + 1 |->
             Chunk(At(c - 1), LenAfter(m, s, c - 1), io[c].shareCount)]
  /\ \A c \in 1 .. LastCell(m, s) + 1 :
       /\ io[c].shareCount \in Nat \ {0}
       /\ IsFiniteSet(PartIds(m, s + 1, c))
       /\ io[c].shareCount = Cardinality(PartIds(m, s + 1, c))
            + (IF c = LastCell(m, s) + 1 /\ ~IsLast(m, s) THEN 1 ELSE 0)
  /\ ~IsLast(m, s) => io[LastCell(m, s) + 1].shareCount > 1

PlanInv ==
  /\ img \in Images /\ aborted \in BOOLEAN
  /\ Built \in 0 .. NumStrips(img)
  /\ stripChunks = [k \in 1 .. Built |-> PartsAt(img, k - 1)]
  /\ Built = 0 => ioChunks = <<>>
  /\ Built > 0 => ChunksBuilt(img, Built - 1, ioChunks) /\ Sound(img, Built - 1)
  /\ aborted => Built < NumStrips(img) /\ ~Sound(img, Built)

LEMMA LenAfterType ==
  ASSUME NEW m, NEW s, IsStrip(m, s), NEW c
  PROVE  LenAfter(m, s, c) \in 0 .. WRTSIZE
<1> DEFINE e == End(m, s)
           l == LastCell(m, s)
<1>1. /\ e \in Nat /\ Cell(e) \in Nat /\ At(Cell(e)) \in Nat
      /\ At(Cell(e)) <= e /\ e < At(Cell(e)) + WRTSIZE
      /\ WRTSIZE \in Nat
  <2>1. e \in Nat
    BY BeginEnd
  <2> QED
    BY <2>1, CellIs, AtStep
<1>2. e - At(Cell(e)) \in 0 .. WRTSIZE
  <2> HIDE DEF e
  <2> QED
    BY <1>1
<1>3. l = 0 => e <= WRTSIZE
  <2>1. e <= At(l) + WRTSIZE
    BY CellsOfStrip
  <2> QED
    BY <2>1, <1>1, AtStep
<1>4. CASE c = l /\ IsLast(m, s)
  BY <1>2, <1>4 DEF LenAfter
<1>5. CASE c = l /\ ~IsLast(m, s) /\ c = 0
  <2>1. LenAfter(m, s, c) = e
    BY <1>5 DEF LenAfter
  <2> QED
    BY <2>1, <1>1, <1>3, <1>5
<1>6. CASE c # l \/ (~IsLast(m, s) /\ c # 0)
  <2>1. LenAfter(m, s, c) = WRTSIZE
    BY <1>6 DEF LenAfter
  <2> QED
    BY <2>1, <1>1
<1> QED
  BY <1>4, <1>5, <1>6

LEMMA StripsBuilt ==
  ASSUME PlanInv
  PROVE  /\ img \in ImageSizes /\ Built \in Nat /\ NumStrips(img) \in Nat \ {0}
         /\ \A t \in 1 .. Built : IsStrip(img, t - 1)
         /\ Built < NumStrips(img) => IsStrip(img, Built)
<1>1. /\ img \in ImageSizes /\ Built \in 0 .. NumStrips(img)
  BY ImagesAssumption DEF PlanInv, ImageSizes
<1>2. NumStrips(img) \in Nat \ {0}
  BY <1>1, StripHeights
<1> HIDE DEF NumStrips, Built
<1>3. /\ Built \in Nat
      /\ \A t \in 1 .. Built : t - 1 \in 0 .. NumStrips(img) - 1
      /\ Built < NumStrips(img) => Built \in 0 .. NumStrips(img) - 1
  BY <1>1, <1>2
<1> QED
  BY <1>1, <1>2, <1>3 DEF IsStrip

LEMMA ReadyHolds ==
  ASSUME PlanInv, Built < NumStrips(img)
  PROVE  Ready(img, Built)
<1> DEFINE b == Built
           f == FirstCell(img, b)
           R == [offset : Nat, len : Nat, shareCount : Nat \ {0}]
<1>1. IsStrip(img, b) /\ b \in Nat
  BY StripsBuilt
<1>2. b = 0 => ioChunks = <<>>
  BY DEF PlanInv
<1>3. ASSUME b > 0
      PROVE  /\ ioChunks \in Seq(R) /\ Len(ioChunks) = f + 1 /\ LeftFinal = f + 1
             /\ \A c \in 0 .. f : ioChunks[c + 1] =
                  Chunk(At(c), LenAfter(img, b - 1, c), ioChunks[c + 1].shareCount)
             /\ ioChunks[f + 1].shareCount > 1
  <2>1. /\ IsStrip(img, b - 1) /\ ~IsLast(img, b - 1)
        /\ f = LastCell(img, b - 1) /\ f \in Nat
    BY <1>1, <1>3, Neighbours, CellsOfStrip
  <2>2. ChunksBuilt(img, b - 1, ioChunks)
    BY <1>3 DEF PlanInv
  <2>3. /\ ioChunks = [c \in 1 .. f + 1 |->
             Chunk(At(c - 1), LenAfter(img, b - 1, c - 1), ioChunks[c].shareCount)]
        /\ \A c \in 1 .. f + 1 : ioChunks[c].shareCount \in Nat \ {0}
        /\ ioChunks[f + 1].shareCount > 1
    BY <2>1, <2>2 DEF ChunksBuilt
  <2>4. ASSUME NEW c \in 1 .. f + 1
        PROVE  /\ ioChunks[c] = Chunk(At(c - 1), LenAfter(img, b - 1, c - 1),
                                      ioChunks[c].shareCount)
               /\ ioChunks[c] \in R
    <3>1. ioChunks[c] = Chunk(At(c - 1), LenAfter(img, b - 1, c - 1),
                              ioChunks[c].shareCount)
      <4>1. c \in 1 .. f + 1
        OBVIOUS
      <4> HIDE DEF f, b
      <4> QED
        BY <4>1, <2>3
    <3>2. c - 1 \in Nat
      BY <2>1
    <3>3. /\ At(c - 1) \in Nat /\ LenAfter(img, b - 1, c - 1) \in Nat
          /\ ioChunks[c].shareCount \in Nat \ {0}
      <4>1. LenAfter(img, b - 1, c - 1) \in 0 .. WRTSIZE
        BY <2>1, LenAfterType
      <4>2. LenAfter(img, b - 1, c - 1) \in Nat
        BY <4>1, AtStep
      <4> QED
        BY <3>2, <4>2, <2>3, AtStep
    <3>4. Chunk(At(c - 1), LenAfter(img, b - 1, c - 1), ioChunks[c].shareCount) \in R
      BY <3>3 DEF Chunk
    <3> QED
      BY <3>1, <3>4
  <2>5. f + 1 \in Nat /\ DOMAIN ioChunks = 1 .. f + 1
    <3> HIDE DEF f, b
    <3> QED
      BY <2>1, <2>3
  <2>6. ioChunks \in Seq(R) /\ Len(ioChunks) = f + 1
    <3>1. ioChunks = [c \in 1 .. f + 1 |-> ioChunks[c]]
      <4> HIDE DEF f, b
      <4> QED
        BY <2>3
    <3>2. ioChunks \in [1 .. f + 1 -> R]
      <4> HIDE DEF f, b, R
      <4> QED
        BY <3>1, <2>4
    <3>3. ioChunks \in Seq(R)
      <4> HIDE DEF f, b, R
      <4>1. Seq(R) = UNION { [1 .. n -> R] : n \in Nat }
        BY SeqDef, Zenon
      <4> QED
        BY <4>1, <3>2, <2>5, Zenon
    <3> QED
      BY <3>3, <2>5, LenProperties
  <2>7. LeftFinal = f + 1
    <3>1. /\ stripChunks = [k \in 1 .. b |-> PartsAt(img, k - 1)] /\ b = Len(stripChunks)
      BY DEF PlanInv
    <3>2. Last(stripChunks) = PartsAt(img, b - 1)
      <4>1. b \in 1 .. b
        BY <1>1, <1>3
      <4>2. Last(stripChunks) = stripChunks[b]
        BY <3>1 DEF Last
      <4> HIDE DEF b
      <4> QED
        BY <3>1, <4>1, <4>2
    <3> DEFINE p == PartsAt(img, b - 1)
               n == NumCells(img, b - 1)
               g == FirstCell(img, b - 1)
    <3>3. n \in Nat \ {0} /\ Last(p) = p[n] /\ g + n = f + 1
      BY <2>1, PartsAre
    <3>4. n \in 1 .. n
      BY <3>3
    <3>5. p[n].ioChunk = g + n
      BY <2>1, <3>4, PartsAre
    <3> QED
      BY <3>2, <3>3, <3>5 DEF LeftFinal
  <2>8. \A c \in 0 .. f : ioChunks[c + 1] =
          Chunk(At(c), LenAfter(img, b - 1, c), ioChunks[c + 1].shareCount)
    <3> SUFFICES ASSUME NEW c \in 0 .. f
                 PROVE  ioChunks[c + 1] =
          Chunk(At(c), LenAfter(img, b - 1, c), ioChunks[c + 1].shareCount)
      OBVIOUS
    <3>1. c + 1 \in 1 .. f + 1 /\ (c + 1) - 1 = c
      <4>1. c \in 0 .. f
        OBVIOUS
      <4> HIDE DEF f
      <4> QED
        BY <4>1, <2>1
    <3>2. ioChunks[c + 1] = Chunk(At((c + 1) - 1), LenAfter(img, b - 1, (c + 1) - 1),
                                  ioChunks[c + 1].shareCount)
      BY <3>1, <2>4
    <3> QED
      BY <3>1, <3>2
  <2> QED
    BY <2>3, <2>6, <2>7, <2>8
<1>4. b = 0 \/ b > 0
  BY <1>1
<1> HIDE DEF b
<1> QED
  BY <1>1, <1>2, <1>3, <1>4 DEF Ready, b

(* A strip that is built keeps the shares right. *)
LEMMA ChunksStep ==
  ASSUME NEW m, NEW s, Ready(m, s), s > 0 => ChunksBuilt(m, s - 1, ioChunks)
  PROVE  ChunksBuilt(m, s, ChunksAfter(m, s))
<1> DEFINE f == FirstCell(m, s)
           l == LastCell(m, s)
           io == ChunksAfter(m, s)
           one(c) == IF c = l + 1 /\ ~IsLast(m, s) THEN 1 ELSE 0
           old(c) == IF s > 0 /\ c <= f + 1 THEN ioChunks[c].shareCount ELSE 1
           ids(c) == PartIds(m, s + 1, c)
<1>1. /\ IsStrip(m, s) /\ s \in Nat /\ f \in Nat /\ l \in Nat /\ f <= l
      /\ (s = 0 => f = 0)
  <2>1. IsStrip(m, s) /\ s \in Nat
    BY DEF Ready, IsStrip
  <2> QED
    BY <2>1, CellsOfStrip
<1>2. ASSUME NEW c \in 1 .. l + 1
      PROVE  /\ io[c] = Chunk(At(c - 1), LenAfter(m, s, c - 1), io[c].shareCount)
             /\ io[c].shareCount = old(c) + one(c)
  <2>1. io[c] = Chunk(At(c - 1), LenAfter(m, s, c - 1), SharedAfter(m, s, c - 1))
    <3>1. c \in 1 .. l + 1
      OBVIOUS
    <3> HIDE DEF l
    <3> QED
      BY <3>1 DEF ChunksAfter, l
  <2>2. SharedAfter(m, s, c - 1) = old(c) + one(c)
    <3>1. /\ (c - 1 <= f <=> c <= f + 1) /\ (c - 1) + 1 = c
          /\ (c - 1 = l <=> c = l + 1)
      <4>1. c \in 1 .. l + 1
        OBVIOUS
      <4> HIDE DEF f, l
      <4> QED
        BY <4>1, <1>1
    <3> QED
      BY <3>1 DEF SharedAfter
  <2>3. io[c].shareCount = SharedAfter(m, s, c - 1)
    BY <2>1, ChunkFields
  <2> HIDE DEF io, old, one
  <2> QED
    BY <2>1, <2>2, <2>3
<1>3. io = [c \in 1 .. l + 1 |->
              Chunk(At(c - 1), LenAfter(m, s, c - 1), io[c].shareCount)]
  <2>1. io = [c \in 1 .. l + 1 |-> io[c]]
    BY DEF ChunksAfter
  <2> HIDE DEF io, l
  <2> QED
    BY <2>1, <1>2
<1>4. ASSUME NEW c \in 1 .. l + 1
      PROVE  /\ old(c) \in Nat \ {0} /\ IsFiniteSet(ids(c))
             /\ old(c) = Cardinality(ids(c))
  <2>1. c \in Int /\ c - f \in Int /\ c <= l + 1
    BY <1>1
  <2> DEFINE before == PartIds(m, s, c)
             new == <<s + 1, c - f>>
  <2>2. /\ new \notin before
        /\ ids(c) = IF f < c /\ c <= l + 1 THEN before \cup {new} ELSE before
    BY <1>1, <2>1, PartIdsStep
  <2>3. ASSUME s > 0, c <= f + 1
        PROVE  /\ ioChunks[c].shareCount \in Nat \ {0} /\ IsFiniteSet(before)
               /\ ioChunks[c].shareCount = Cardinality(before)
                    + (IF c = f + 1 THEN 1 ELSE 0)
    <3>1. /\ ~IsLast(m, s - 1) /\ f = LastCell(m, s - 1)
          /\ (s - 1) + 1 = s /\ c \in 1 .. f + 1
      BY <1>1, <2>1, <2>3, Neighbours, CellsOfStrip
    <3>2. ChunksBuilt(m, s - 1, ioChunks)
      BY <2>3
    <3> HIDE DEF f
    <3> QED
      BY <3>1, <3>2 DEF ChunksBuilt
  <2>4. CASE s > 0 /\ c <= f
    <3>1. ids(c) = before /\ c <= f + 1 /\ c # f + 1 /\ ~(f < c)
      <4>1. ~(f < c) /\ c <= f + 1 /\ c # f + 1
        <5> HIDE DEF f
        <5> QED
          BY <2>4, <2>1, <1>1
      <4> QED
        BY <4>1, <2>2
    <3>2. ioChunks[c].shareCount = Cardinality(before) + 0
      BY <3>1, <2>3, <2>4
    <3>3. Cardinality(before) \in Nat /\ IsFiniteSet(before)
      BY <3>1, <2>3, <2>4, FS_CardinalityType
    <3> HIDE DEF before, ids, f
    <3> QED
      BY <3>1, <3>2, <3>3, <2>3, <2>4
  <2>5. CASE s > 0 /\ c = f + 1
    <3>1. ids(c) = before \cup {new} /\ c <= f + 1
      <4>1. f < c /\ c <= f + 1
        <5> HIDE DEF f
        <5> QED
          BY <2>5, <2>1, <1>1
      <4> QED
        BY <4>1, <2>1, <2>2
    <3>2. /\ IsFiniteSet(before) /\ ioChunks[c].shareCount = Cardinality(before) + 1
          /\ ioChunks[c].shareCount \in Nat \ {0}
      BY <3>1, <2>3, <2>5
    <3> HIDE DEF before, new, ids, f
    <3>3. /\ IsFiniteSet(before \cup {new})
          /\ Cardinality(before \cup {new}) = Cardinality(before) + 1
      BY <3>2, <2>2, FS_AddElement
    <3> QED
      BY <3>1, <3>2, <3>3, <2>5
  <2>6. CASE s = 0 \/ f + 1 < c
    <3>1. before = {}
      BY <1>1, <2>1, <2>6, PartIdsEmpty
    <3>2. f < c /\ ~(s > 0 /\ c <= f + 1)
      <4>1. c \in 1 .. l + 1
        OBVIOUS
      <4> HIDE DEF f, l
      <4> QED
        BY <4>1, <1>1, <2>1, <2>6
    <3>3. ids(c) = {new}
      BY <3>1, <3>2, <2>1, <2>2
    <3>4. IsFiniteSet({new}) /\ Cardinality({new}) = 1
      BY FS_Singleton
    <3> HIDE DEF ids, new, f
    <3> QED
      BY <3>2, <3>3, <3>4
  <2> HIDE DEF ids, old
  <2>7. (s > 0 /\ c <= f) \/ (s > 0 /\ c = f + 1) \/ (s = 0 \/ f + 1 < c)
    <3> HIDE DEF f
    <3> QED
      BY <1>1, <2>1
  <2> QED
    BY <2>4, <2>5, <2>6, <2>7
<1>5. l + 1 \in 1 .. l + 1
  BY <1>1
<1>6. ~IsLast(m, s) => io[l + 1].shareCount > 1
  <2> SUFFICES ASSUME ~IsLast(m, s)
               PROVE  io[l + 1].shareCount > 1
    OBVIOUS
  <2>1. io[l + 1].shareCount = old(l + 1) + one(l + 1)
    BY <1>2, <1>5
  <2>2. one(l + 1) = 1
    OBVIOUS
  <2>3. old(l + 1) \in Nat \ {0}
    BY <1>4, <1>5
  <2> HIDE DEF old, one, io, l
  <2> QED
    BY <2>1, <2>2, <2>3
<1>7. ASSUME NEW c \in 1 .. l + 1
      PROVE  /\ io[c].shareCount \in Nat \ {0}
             /\ IsFiniteSet(ids(c))
             /\ io[c].shareCount = Cardinality(ids(c)) + one(c)
  <2>1. io[c].shareCount = old(c) + one(c)
    BY <1>2
  <2>2. /\ old(c) \in Nat \ {0} /\ IsFiniteSet(ids(c)) /\ old(c) = Cardinality(ids(c))
    BY <1>4
  <2>3. one(c) \in Nat
    OBVIOUS
  <2> HIDE DEF old, one, io, ids
  <2> QED
    BY <2>1, <2>2, <2>3
<1> HIDE DEF io, l
<1> QED
  BY <1>3, <1>6, <1>7 DEF ChunksBuilt, l, io

LEMMA PlanInvInit == Init => PlanInv
<1> SUFFICES ASSUME Init
             PROVE  PlanInv
  OBVIOUS
<1>1. /\ img \in Images /\ ioChunks = <<>> /\ stripChunks = <<>> /\ aborted = FALSE
  BY DEF Init
<1>2. Built = 0
  BY <1>1 DEF Built
<1>3. img \in ImageSizes
  BY <1>1, ImagesAssumption DEF ImageSizes
<1>4. 0 \in 0 .. NumStrips(img)
  <2>1. NumStrips(img) \in Nat \ {0}
    BY <1>3, StripHeights
  <2> HIDE DEF NumStrips
  <2> QED
    BY <2>1
<1>5. stripChunks = [k \in 1 .. 0 |-> PartsAt(img, k - 1)]
  BY <1>1
<1>6. ~(0 > 0)
  OBVIOUS
<1> QED
  BY <1>1, <1>2, <1>4, <1>5, <1>6 DEF PlanInv

(* What building a strip does: it succeeds or ends the program. *)
LEMMA BuildsStrip ==
  ASSUME PlanInv, GenerateChunks
  PROVE  /\ Ready(img, Built) /\ Built < NumStrips(img) /\ ~aborted
         /\ img' = img
         /\ Sound(img, Built) =>
              /\ ioChunks' = ChunksAfter(img, Built)
              /\ stripChunks' = Append(stripChunks, PartsAt(img, Built))
              /\ aborted' = aborted
         /\ ~Sound(img, Built) =>
              aborted' /\ ioChunks' = ioChunks /\ stripChunks' = stripChunks
<1> DEFINE ci == ChunkInfo(img, Built)
           plan == Plan(img, Built)
           ok == /\ ChunkInfoAsserts(ci) /\ plan.ok
                 /\ Validates(ci, plan, LogicalLen(img, Built))
<1>1. ~aborted /\ Built # NumStrips(img)
  BY DEF GenerateChunks, Complete
<1>2. Built < NumStrips(img)
  <2>1. Built \in 0 .. NumStrips(img) /\ NumStrips(img) \in Nat
    BY StripsBuilt DEF PlanInv
  <2> HIDE DEF Built, NumStrips
  <2> QED
    BY <2>1, <1>1
<1>3. Ready(img, Built) /\ IsStrip(img, Built)
  BY <1>2, ReadyHolds, StripsBuilt
<1>4. /\ ok => /\ ioChunks' = plan.ios
               /\ stripChunks' = Append(stripChunks, plan.pieces)
               /\ UNCHANGED <<img, aborted>>
      /\ ~ok => /\ aborted' = TRUE
                /\ UNCHANGED <<img, ioChunks, stripChunks>>
  <2> DEFINE n == NumChunks(ci)
  <2>1. plan = IF n = 1 THEN SingleChunk(ci) ELSE ManyChunks(ci, n)
    BY DEF Plan
  <2> HIDE DEF ci, n, plan
  <2> QED
    BY <2>1 DEF GenerateChunks, ci, n
<1>5. ASSUME Sound(img, Built)
      PROVE  ok /\ plan.ios = ChunksAfter(img, Built) /\ plan.pieces = PartsAt(img, Built)
  BY <1>3, <1>5, PlanIs, PlanValid, NumChunksIs
<1>6. ASSUME ~Sound(img, Built)
      PROVE  ~ok
  BY <1>3, <1>6, PlanFails
<1>7. img' = img
  BY <1>4
<1>8. Sound(img, Built) =>
        /\ ioChunks' = ChunksAfter(img, Built)
        /\ stripChunks' = Append(stripChunks, PartsAt(img, Built))
        /\ aborted' = aborted
  BY <1>4, <1>5
<1>9. ~Sound(img, Built) =>
        aborted' /\ ioChunks' = ioChunks /\ stripChunks' = stripChunks
  BY <1>4, <1>6
<1> QED
  BY <1>1, <1>2, <1>3, <1>7, <1>8, <1>9

LEMMA PlanInvStep == PlanInv /\ [Next]_vars => PlanInv'
<1> SUFFICES ASSUME PlanInv, [Next]_vars
             PROVE  PlanInv'
  OBVIOUS
<1>1. CASE GenerateChunks
  <2> DEFINE b == Built
  <2>1. /\ Ready(img, b) /\ b < NumStrips(img) /\ ~aborted
        /\ img' = img
        /\ Sound(img, b) =>
             /\ ioChunks' = ChunksAfter(img, b)
             /\ stripChunks' = Append(stripChunks, PartsAt(img, b))
             /\ aborted' = aborted
        /\ ~Sound(img, b) =>
             aborted' /\ ioChunks' = ioChunks /\ stripChunks' = stripChunks
    BY <1>1, BuildsStrip
  <2>2. /\ b \in Nat /\ NumStrips(img) \in Nat
        /\ stripChunks = [k \in 1 .. b |-> PartsAt(img, k - 1)]
        /\ img \in Images
    BY StripsBuilt DEF PlanInv
  <2>3. CASE Sound(img, b)
    <3>1. /\ stripChunks' = [k \in 1 .. b + 1 |-> PartsAt(img, k - 1)]
          /\ Built' = b + 1
      <4>1. stripChunks' = Append(stripChunks, PartsAt(img, b)) /\ b = Len(stripChunks)
        BY <2>1, <2>3 DEF Built
      <4>2. (b + 1) - 1 = b
        BY <2>2
      <4> HIDE DEF b
      <4>3. stripChunks' = [k \in 1 .. b + 1 |-> PartsAt(img, k - 1)]
        BY <4>1, <4>2, <2>2
      <4>4. Len(stripChunks') = b + 1
        BY <4>3, <2>2
      <4> QED
        BY <4>3, <4>4 DEF Built
    <3>2. ChunksBuilt(img, b, ChunksAfter(img, b))
      <4>1. b > 0 => ChunksBuilt(img, b - 1, ioChunks)
        BY DEF PlanInv
      <4> HIDE DEF b
      <4> QED
        BY <4>1, <2>1, ChunksStep
    <3>3. /\ (b + 1) - 1 = b /\ b + 1 # 0 /\ b + 1 \in 0 .. NumStrips(img)
      <4> HIDE DEF b, NumStrips
      <4> QED
        BY <2>1, <2>2
    <3>4. img' \in Images /\ aborted' \in BOOLEAN /\ ~aborted'
      BY <2>1, <2>2, <2>3 DEF PlanInv
    <3>5. Built' \in 0 .. NumStrips(img') /\ Built' # 0 /\ Built' - 1 = b
      BY <2>1, <3>1, <3>3
    <3>6. stripChunks' = [k \in 1 .. Built' |-> PartsAt(img', k - 1)]
      BY <2>1, <3>1
    <3>7. ChunksBuilt(img', Built' - 1, ioChunks') /\ Sound(img', Built' - 1)
      BY <2>1, <2>3, <3>2, <3>5
    <3> HIDE DEF b
    <3> QED
      BY <3>4, <3>5, <3>6, <3>7 DEF PlanInv
  <2>4. CASE ~Sound(img, b)
    <3>1. /\ img' = img /\ ioChunks' = ioChunks /\ stripChunks' = stripChunks
          /\ aborted' /\ Built' = Built /\ b < NumStrips(img) /\ ~Sound(img, b)
      BY <2>1, <2>4 DEF Built
    <3>2. aborted' \in BOOLEAN
      <4>1. aborted' = TRUE
        BY <1>1, <2>1, <2>4 DEF GenerateChunks
      <4> QED
        BY <4>1
    <3> QED
      BY <3>1, <3>2 DEF PlanInv
  <2> QED
    BY <2>3, <2>4
<1>2. CASE UNCHANGED vars
  BY <1>2 DEF vars, PlanInv, Built, ChunksBuilt
<1> QED
  BY <1>1, <1>2 DEF Next, Stopped

LEMMA PlanInvHolds == Spec => []PlanInv
BY PlanInvInit, PlanInvStep, PTL DEF Spec

-----------------------------------------------------------------------------
(* What the invariant says of the parts built so far *)

LEMMA ChunksNow ==
  ASSUME PlanInv
  PROVE  /\ DOMAIN stripChunks = 1 .. Built
         /\ Built = 0 => DOMAIN ioChunks = {}
         /\ Built > 0 =>
              LET l == LastCell(img, Built - 1) IN
              /\ IsStrip(img, Built - 1) /\ l \in Nat
              /\ DOMAIN ioChunks = 1 .. l + 1 /\ Len(ioChunks) = l + 1
              /\ \A c \in 1 .. l + 1 :
                   /\ ioChunks[c] = Chunk(At(c - 1), LenAfter(img, Built - 1, c - 1),
                                          ioChunks[c].shareCount)
                   /\ ioChunks[c].offset = At(c - 1)
                   /\ ioChunks[c].len = LenAfter(img, Built - 1, c - 1)
              /\ ChunksBuilt(img, Built - 1, ioChunks)
<1>1. DOMAIN stripChunks = 1 .. Built
  BY DEF PlanInv
<1>2. Built = 0 => DOMAIN ioChunks = {}
  BY DEF PlanInv
<1>3. ASSUME Built > 0
      PROVE  LET l == LastCell(img, Built - 1) IN
              /\ IsStrip(img, Built - 1) /\ l \in Nat
              /\ DOMAIN ioChunks = 1 .. l + 1 /\ Len(ioChunks) = l + 1
              /\ \A c \in 1 .. l + 1 :
                   /\ ioChunks[c] = Chunk(At(c - 1), LenAfter(img, Built - 1, c - 1),
                                          ioChunks[c].shareCount)
                   /\ ioChunks[c].offset = At(c - 1)
                   /\ ioChunks[c].len = LenAfter(img, Built - 1, c - 1)
              /\ ChunksBuilt(img, Built - 1, ioChunks)
  <2> DEFINE l == LastCell(img, Built - 1)
  <2>1. IsStrip(img, Built - 1)
    <3>1. Built \in 1 .. Built
      BY <1>3, StripsBuilt
    <3> QED
      BY <3>1, StripsBuilt
  <2>2. l \in Nat
    BY <2>1, CellsOfStrip
  <2>3. ChunksBuilt(img, Built - 1, ioChunks)
    BY <1>3 DEF PlanInv
  <2>4. ioChunks = [c \in 1 .. l + 1 |-> Chunk(At(c - 1),
                      LenAfter(img, Built - 1, c - 1), ioChunks[c].shareCount)]
    BY <2>3 DEF ChunksBuilt
  <2> HIDE DEF l
  <2>5. DOMAIN ioChunks = 1 .. l + 1 /\ Len(ioChunks) = l + 1
    <3>1. DOMAIN ioChunks = 1 .. l + 1
      BY <2>4
    <3>2. ioChunks = [c \in 1 .. l + 1 |-> ioChunks[c]]
      BY <2>4
    <3> QED
      BY <3>1, <3>2, <2>2
  <2>6. ASSUME NEW c \in 1 .. l + 1
        PROVE  /\ ioChunks[c] = Chunk(At(c - 1), LenAfter(img, Built - 1, c - 1),
                                      ioChunks[c].shareCount)
               /\ ioChunks[c].offset = At(c - 1)
               /\ ioChunks[c].len = LenAfter(img, Built - 1, c - 1)
    <3>1. ioChunks[c] = Chunk(At(c - 1), LenAfter(img, Built - 1, c - 1),
                              ioChunks[c].shareCount)
      BY <2>4
    <3> QED
      BY <3>1, ChunkFields
  <2> QED
    BY <2>1, <2>2, <2>3, <2>5, <2>6 DEF l
<1> QED
  BY <1>1, <1>2, <1>3

LEMMA StripNow ==
  ASSUME PlanInv, NEW t \in 1 .. Built
  PROVE  /\ IsStrip(img, t - 1) /\ stripChunks[t] = PartsAt(img, t - 1)
         /\ Built > 0 /\ t \in Nat
         /\ LastCell(img, t - 1) \in Nat
         /\ LastCell(img, t - 1) <= LastCell(img, Built - 1)
<1> DEFINE b == Built
<1>1. b \in Nat /\ t \in Nat /\ t <= b /\ b > 0 /\ b \in 1 .. b
  <2>1. b \in Nat
    BY StripsBuilt
  <2>2. t \in 1 .. b
    OBVIOUS
  <2> HIDE DEF b
  <2> QED
    BY <2>1, <2>2
<1>2. IsStrip(img, t - 1) /\ IsStrip(img, b - 1)
  BY <1>1, StripsBuilt
<1>3. stripChunks[t] = PartsAt(img, t - 1)
  <2>1. stripChunks = [k \in 1 .. b |-> PartsAt(img, k - 1)] /\ t \in 1 .. b
    BY DEF PlanInv
  <2> HIDE DEF b
  <2> QED
    BY <2>1
<1>4. LastCell(img, t - 1) \in Nat /\ LastCell(img, b - 1) \in Nat
  BY <1>2, CellsOfStrip
<1>5. LastCell(img, t - 1) <= LastCell(img, b - 1)
  <2>1. CASE t = b
    BY <2>1, <1>4
  <2>2. CASE t # b
    <3>1. t - 1 < b - 1
      <4> HIDE DEF b
      <4> QED
        BY <2>2, <1>1
    <3>2. LastCell(img, t - 1) <= FirstCell(img, b - 1)
      BY <3>1, <1>2, EndsGrow
    <3>3. FirstCell(img, b - 1) \in Nat /\ FirstCell(img, b - 1) <= LastCell(img, b - 1)
      BY <1>2, CellsOfStrip
    <3> QED
      BY <3>2, <3>3, <1>4
  <2> QED
    BY <2>1, <2>2
<1> QED
  BY <1>1, <1>2, <1>3, <1>4, <1>5

LEMMA PartNow ==
  ASSUME PlanInv, NEW t \in 1 .. Built, NEW k \in 1 .. NumCells(img, t - 1)
  PROVE  LET p == stripChunks[t][k]
             c == FirstCell(img, t - 1) + k - 1
         IN  /\ c \in FirstCell(img, t - 1) .. LastCell(img, t - 1)
             /\ c + 1 = FirstCell(img, t - 1) + k
             /\ p.ioChunk = c + 1 /\ c + 1 \in DOMAIN ioChunks
             /\ p.offset = From(img, t - 1, c) - At(c)
             /\ p.len = To(img, t - 1, c) - From(img, t - 1, c)
             /\ ioChunks[c + 1].offset = At(c)
             /\ ioChunks[c + 1].len = LenAfter(img, Built - 1, c)
             /\ PartBegin(p) = From(img, t - 1, c)
             /\ PartEnd(p) = To(img, t - 1, c)
             /\ p.offset + p.len = To(img, t - 1, c) - At(c)
<1> DEFINE p == stripChunks[t][k]
           f == FirstCell(img, t - 1)
           c == f + k - 1
           l == LastCell(img, t - 1)
           x == From(img, t - 1, c)
           y == To(img, t - 1, c)
<1>1. /\ IsStrip(img, t - 1) /\ stripChunks[t] = PartsAt(img, t - 1)
      /\ Built > 0 /\ l \in Nat /\ l <= LastCell(img, Built - 1)
  BY StripNow
<1>2. /\ c \in f .. l /\ c + 1 = f + k
      /\ p.ioChunk = f + k
      /\ p.offset = x - At(c) /\ p.len = y - x
  BY <1>1, PartsAre
<1>3. c \in Nat /\ At(c) \in Nat /\ x \in Nat /\ y \in Nat
  BY <1>1, <1>2, PartFacts
<1>4. /\ LastCell(img, Built - 1) \in Nat
      /\ DOMAIN ioChunks = 1 .. LastCell(img, Built - 1) + 1
      /\ \A d \in 1 .. LastCell(img, Built - 1) + 1 :
           /\ ioChunks[d].offset = At(d - 1)
           /\ ioChunks[d].len = LenAfter(img, Built - 1, d - 1)
  BY <1>1, ChunksNow
<1>5. c + 1 \in 1 .. LastCell(img, Built - 1) + 1 /\ (c + 1) - 1 = c
  <2>1. c <= l
    <3>1. f \in Nat
      BY <1>1, CellsOfStrip
    <3> HIDE DEF f, l, c
    <3> QED
      BY <3>1, <1>1, <1>2
  <2> DEFINE z == LastCell(img, Built - 1)
  <2>2. c \in Nat /\ c <= l /\ l <= z /\ l \in Nat /\ z \in Nat
    BY <2>1, <1>1, <1>3, <1>4
  <2> HIDE DEF c, l, z
  <2>3. c + 1 \in 1 .. z + 1 /\ (c + 1) - 1 = c
    BY <2>2
  <2> QED
    BY <2>3 DEF z
<1>6. ioChunks[c + 1].offset = At(c) /\ ioChunks[c + 1].len = LenAfter(img, Built - 1, c)
  BY <1>4, <1>5
<1>7. PartBegin(p) = At(c) + (x - At(c))
  BY <1>2, <1>6 DEF PartBegin
<1> HIDE DEF p, x, y, c
<1>8. PartBegin(p) = x /\ p.offset + p.len = y - At(c)
  BY <1>2, <1>3, <1>7
<1>9. PartEnd(p) = y
  BY <1>2, <1>3, <1>8 DEF PartEnd
<1> QED
  BY <1>2, <1>4, <1>5, <1>6, <1>8, <1>9 DEF p, x, y, c

LEMMA PartsNow ==
  ASSUME PlanInv
  PROVE  /\ \A t \in 1 .. Built : DOMAIN stripChunks[t] = 1 .. NumCells(img, t - 1)
         /\ \A i : i \in Parts <=>
              \E t \in 1 .. Built : \E k \in 1 .. NumCells(img, t - 1) : i = <<t, k>>
         /\ \A c : PartsOf(c) = PartIds(img, Built, c)
<1>1. ASSUME NEW t \in 1 .. Built
      PROVE  DOMAIN stripChunks[t] = 1 .. NumCells(img, t - 1)
  BY StripNow, PartsAre
<1>2. Parts = UNION { {t} \X (1 .. NumCells(img, t - 1)) : t \in 1 .. Built }
  <2>1. DOMAIN stripChunks = 1 .. Built
    BY ChunksNow
  <2> HIDE DEF Built
  <2> QED
    BY <2>1, <1>1 DEF Parts
<1>3. ASSUME NEW i
      PROVE  i \in Parts <=>
               \E t \in 1 .. Built : \E k \in 1 .. NumCells(img, t - 1) : i = <<t, k>>
  <2>1. ASSUME NEW t \in 1 .. Built, NEW k \in 1 .. NumCells(img, t - 1), i = <<t, k>>
        PROVE  i \in Parts
    <3>1. i \in {t} \X (1 .. NumCells(img, t - 1))
      BY <2>1
    <3> QED
      BY <3>1, <1>2
  <2>2. ASSUME i \in Parts
        PROVE  \E t \in 1 .. Built : \E k \in 1 .. NumCells(img, t - 1) : i = <<t, k>>
    <3>1. PICK t \in 1 .. Built : i \in {t} \X (1 .. NumCells(img, t - 1))
      BY <1>2, <2>2
    <3>2. PICK k \in 1 .. NumCells(img, t - 1) : i = <<t, k>>
      BY <3>1
    <3> QED
      BY <3>2
  <2> QED
    BY <2>1, <2>2
<1>4. ASSUME NEW c
      PROVE  PartsOf(c) = PartIds(img, Built, c)
  <2>1. ASSUME NEW i \in Parts
        PROVE  Part(i).ioChunk = FirstCell(img, i[1] - 1) + i[2]
    <3>1. PICK t \in 1 .. Built : \E k \in 1 .. NumCells(img, t - 1) : i = <<t, k>>
      BY <1>3
    <3>2. PICK k \in 1 .. NumCells(img, t - 1) : i = <<t, k>>
      BY <3>1
    <3>3. stripChunks[t][k].ioChunk = FirstCell(img, t - 1) + k
      BY PartNow
    <3>4. i[1] = t /\ i[2] = k
      BY <3>2
    <3> QED
      BY <3>3, <3>4 DEF Part
  <2> QED
    BY <2>1, <1>2 DEF PartsOf, PartIds
<1> QED
  BY <1>1, <1>3, <1>4

-----------------------------------------------------------------------------
(* The properties *)

(* The states of the construction are well formed: every part refers to an *)
(* IOChunk that exists, and lies within its buffer.                        *)
THEOREM ChunkPlanTypeCorrect == Spec => []TypeOK
<1>1. PlanInv => TypeOK
  <2> SUFFICES ASSUME PlanInv
               PROVE  TypeOK
    OBVIOUS
  <2>1. img \in Images /\ aborted \in BOOLEAN
    BY DEF PlanInv
  <2>2. ASSUME NEW k \in DOMAIN ioChunks
        PROVE  ioChunks[k] \in
                 [offset : Nat, len : 0 .. WRTSIZE, shareCount : Nat \ {0}]
    <3> DEFINE l == LastCell(img, Built - 1)
    <3>1. Built > 0
      BY StripsBuilt, ChunksNow
    <3>2. /\ IsStrip(img, Built - 1) /\ l \in Nat /\ k \in 1 .. l + 1
          /\ ioChunks[k] = Chunk(At(k - 1), LenAfter(img, Built - 1, k - 1),
                                 ioChunks[k].shareCount)
          /\ ChunksBuilt(img, Built - 1, ioChunks)
      BY <3>1, ChunksNow
    <3>3. LenAfter(img, Built - 1, k - 1) \in 0 .. WRTSIZE
      BY <3>2, LenAfterType
    <3>4. At(k - 1) \in Nat
      <4>1. k - 1 \in Nat
        BY <3>2
      <4> QED
        BY <4>1, AtStep
    <3>5. ioChunks[k].shareCount \in Nat \ {0}
      BY <3>2 DEF ChunksBuilt
    <3> QED
      BY <3>2, <3>3, <3>4, <3>5 DEF Chunk
  <2>3. ASSUME NEW t \in DOMAIN stripChunks, NEW k \in DOMAIN stripChunks[t]
        PROVE  stripChunks[t][k] \in [ioChunk : DOMAIN ioChunks,
                             offset : 0 .. WRTSIZE - 1, len : 1 .. WRTSIZE]
    <3>1. t \in 1 .. Built /\ k \in 1 .. NumCells(img, t - 1)
      BY ChunksNow, PartsNow
    <3> DEFINE c == FirstCell(img, t - 1) + k - 1
               x == From(img, t - 1, c)
               y == To(img, t - 1, c)
    <3>2. /\ IsStrip(img, t - 1) /\ stripChunks[t] = PartsAt(img, t - 1)
          /\ c \in FirstCell(img, t - 1) .. LastCell(img, t - 1)
          /\ c + 1 \in DOMAIN ioChunks
      BY <3>1, StripNow, PartNow
    <3>3. stripChunks[t][k] = StripChunk(c + 1, x - At(c), y - x)
      <4>1. stripChunks[t][k] = PartIn(img, t - 1, c)
        BY <3>1, <3>2 DEF PartsAt
      <4> QED
        BY <4>1 DEF PartIn
    <3>4. /\ At(c) \in Nat /\ x \in Nat /\ y \in Nat
          /\ At(c) <= x /\ x < y /\ y <= At(c) + WRTSIZE
      BY <3>2, PartFacts
    <3> HIDE DEF c, x, y
    <3>5. x - At(c) \in 0 .. WRTSIZE - 1 /\ y - x \in 1 .. WRTSIZE
      BY <3>4, AtStep
    <3> QED
      BY <3>2, <3>3, <3>5 DEF StripChunk
  <2> QED
    BY <2>1, <2>2, <2>3 DEF TypeOK
<1> QED
  BY <1>1, PlanInvHolds, PTL

(* No assertion of the constructor fails on an image whose data does not   *)
(* end on a chunk boundary.                                                *)
THEOREM ConstructionSucceeds == Spec => []NoAbort
<1>1. PlanInv => NoAbort
  <2> SUFFICES ASSUME PlanInv, aborted
               PROVE  EndsAligned(img)
    BY DEF NoAbort
  <2>1. IsStrip(img, Built) /\ IsAligned(End(img, Built))
    BY StripsBuilt DEF PlanInv, Sound
  <2>2. IsLast(img, Built)
    BY <2>1, SeamsUnaligned
  <2>3. End(img, Built) = DataEnd(img)
    BY <2>1, <2>2, BeginEnd
  <2> QED
    BY <2>1, <2>3 DEF EndsAligned
<1> QED
  BY <1>1, PlanInvHolds, PTL

(* The parts that the strips fill follow each other from the end of the    *)
(* header to the end of the data.                                          *)
THEOREM PartsTileFile == Spec => []PartsTile
<1>1. PlanInv => PartsTile
  <2> SUFFICES ASSUME PlanInv
               PROVE  PartsTile
    OBVIOUS
  <2>1. DOMAIN stripChunks = 1 .. Built /\ Built \in Nat
    BY ChunksNow, StripsBuilt
  <2>2. ASSUME NEW t \in 1 .. Built
        PROVE  /\ PartBegin(stripChunks[t][1]) = Start(img, t - 1)
               /\ PartEnd(Last(stripChunks[t])) = End(img, t - 1)
               /\ IsStrip(img, t - 1) /\ t \in Nat
    <3> DEFINE f == FirstCell(img, t - 1)
               n == NumCells(img, t - 1)
    <3>1. /\ IsStrip(img, t - 1) /\ stripChunks[t] = PartsAt(img, t - 1)
          /\ t \in Nat
      BY StripNow
    <3>2. /\ n \in Nat \ {0} /\ f + n = LastCell(img, t - 1) + 1
          /\ Last(stripChunks[t]) = stripChunks[t][n]
          /\ f \in Nat /\ LastCell(img, t - 1) \in Nat
      BY <3>1, PartsAre, CellsOfStrip
    <3>3. 1 \in 1 .. n /\ n \in 1 .. n /\ f + 1 - 1 = f
          /\ f + n - 1 = LastCell(img, t - 1)
      <4> HIDE DEF f, n
      <4> QED
        BY <3>2
    <3>4. PartBegin(stripChunks[t][1]) = From(img, t - 1, f + 1 - 1)
      BY <3>3, PartNow
    <3>5. PartEnd(stripChunks[t][n]) = To(img, t - 1, f + n - 1)
      BY <3>3, PartNow
    <3> QED
      BY <3>1, <3>2, <3>3, <3>4, <3>5 DEF From, To
  <2>3. ASSUME NEW t \in 1 .. Built
        PROVE  PartBegin(stripChunks[t][1]) =
                 IF t = 1 THEN HeaderSize ELSE PartEnd(Last(stripChunks[t - 1]))
    <3>1. CASE t = 1
      <4>1. t - 1 = 0
        BY <3>1
      <4> QED
        BY <4>1, <3>1, <2>2 DEF Start
    <3>2. CASE t # 1
      <4>1. t - 1 \in 1 .. Built /\ t - 1 > 0 /\ t - 1 # 0
        BY <3>2, <2>1
      <4>2. Begin(img, t - 1) = End(img, (t - 1) - 1)
        BY <4>1, <2>2, Neighbours
      <4>3. Start(img, t - 1) = Begin(img, t - 1)
        BY <4>1 DEF Start
      <4>4. PartEnd(Last(stripChunks[t - 1])) = End(img, (t - 1) - 1)
        BY <4>1, <2>2
      <4> QED
        BY <3>2, <4>2, <4>3, <4>4, <2>2
    <3> QED
      BY <3>1, <3>2
  <2>4. ASSUME NEW t \in 1 .. Built, NEW k \in 2 .. Len(stripChunks[t])
        PROVE  PartBegin(stripChunks[t][k]) = PartEnd(stripChunks[t][k - 1])
    <3> DEFINE f == FirstCell(img, t - 1)
               l == LastCell(img, t - 1)
               n == NumCells(img, t - 1)
               c == f + (k - 1) - 1
    <3>1. /\ IsStrip(img, t - 1) /\ n \in Nat \ {0} /\ f + n = l + 1
          /\ Len(stripChunks[t]) = n /\ f \in Nat /\ l \in Nat
      BY StripNow, PartsAre, CellsOfStrip
    <3>2. /\ k \in 1 .. n /\ k - 1 \in 1 .. n
          /\ c \in f .. l /\ c < l /\ c + 1 = f + k - 1
      <4>1. k \in 2 .. n
        BY <3>1
      <4>2. c = f + (k - 1) - 1
        OBVIOUS
      <4> HIDE DEF f, l, n, c
      <4> QED
        BY <4>1, <4>2, <3>1
    <3>3. PartBegin(stripChunks[t][k]) = From(img, t - 1, f + k - 1)
      BY <3>2, PartNow
    <3>4. PartEnd(stripChunks[t][k - 1]) = To(img, t - 1, c)
      BY <3>2, PartNow
    <3>5. To(img, t - 1, c) = From(img, t - 1, c + 1)
      <4> HIDE DEF c
      <4> QED
        BY <3>1, <3>2, PartFacts
    <3> QED
      BY <3>2, <3>3, <3>4, <3>5
  <2>5. Complete => PartEnd(Last(Last(stripChunks))) = DataEnd(img)
    <3> SUFFICES ASSUME Complete
                 PROVE  PartEnd(Last(Last(stripChunks))) = DataEnd(img)
      OBVIOUS
    <3>1. Built = NumStrips(img) /\ Built \in 1 .. Built
      BY StripsBuilt DEF Complete
    <3>2. Last(stripChunks) = stripChunks[Built]
      BY DEF Last, Built
    <3>3. PartEnd(Last(stripChunks[Built])) = End(img, Built - 1)
          /\ IsStrip(img, Built - 1)
      BY <3>1, <2>2
    <3>4. IsLast(img, Built - 1)
      BY <3>1 DEF IsLast
    <3> QED
      BY <3>2, <3>3, <3>4, BeginEnd
  <2> QED
    BY <2>1, <2>3, <2>4, <2>5 DEF PartsTile
<1> QED
  BY <1>1, PlanInvHolds, PTL

(* Once the image is built, the share count of a chunk is the number of    *)
(* strips that have a part of it.                                          *)
THEOREM SharesCounted == Spec => []ShareCountExact
<1>1. PlanInv => ShareCountExact
  <2> SUFFICES ASSUME PlanInv, Complete, NEW c \in DOMAIN ioChunks
               PROVE  ioChunks[c].shareCount = Cardinality(PartsOf(c))
    BY DEF ShareCountExact
  <2> DEFINE l == LastCell(img, Built - 1)
  <2>1. Built = NumStrips(img) /\ Built > 0 /\ Built \in Nat /\ (Built - 1) + 1 = Built
    BY StripsBuilt DEF Complete
  <2>2. c \in 1 .. l + 1 /\ ChunksBuilt(img, Built - 1, ioChunks)
    BY <2>1, ChunksNow
  <2>3. IsLast(img, Built - 1)
    BY <2>1 DEF IsLast
  <2>4. /\ IsFiniteSet(PartIds(img, Built, c))
        /\ ioChunks[c].shareCount = Cardinality(PartIds(img, Built, c)) + 0
    BY <2>1, <2>2, <2>3 DEF ChunksBuilt
  <2>5. Cardinality(PartIds(img, Built, c)) \in Nat
    BY <2>4, FS_CardinalityType
  <2>6. PartsOf(c) = PartIds(img, Built, c)
    BY PartsNow
  <2> QED
    BY <2>4, <2>5, <2>6
<1> QED
  BY <1>1, PlanInvHolds, PTL

(* The parts of chunk c, and where they end in it. *)
LEMMA PartsOfAre ==
  ASSUME PlanInv, NEW c, NEW i \in PartsOf(c)
  PROVE  \E t \in 1 .. Built :
           /\ IsStrip(img, t - 1) /\ c \in Nat /\ c - 1 \in Nat
           /\ c - 1 \in FirstCell(img, t - 1) .. LastCell(img, t - 1)
           /\ Part(i).offset + Part(i).len = To(img, t - 1, c - 1) - At(c - 1)
<1>1. i \in PartIds(img, Built, c)
  BY PartsNow
<1>2. PICK t \in 1 .. Built : \E k \in 1 .. NumCells(img, t - 1) :
        i = <<t, k>> /\ FirstCell(img, t - 1) + k = c
  BY <1>1, PartIdsAre
<1>3. PICK k \in 1 .. NumCells(img, t - 1) : i = <<t, k>> /\ FirstCell(img, t - 1) + k = c
  BY <1>2
<1> DEFINE f == FirstCell(img, t - 1)
           d == f + k - 1
<1>4. /\ IsStrip(img, t - 1) /\ f \in Nat
  BY StripNow, CellsOfStrip
<1>5. /\ d \in f .. LastCell(img, t - 1) /\ d + 1 = f + k
      /\ stripChunks[t][k].offset + stripChunks[t][k].len = To(img, t - 1, d) - At(d)
  BY PartNow
<1>6. Part(i) = stripChunks[t][k]
  BY <1>3 DEF Part
<1>7. d = c - 1 /\ c \in Nat /\ c - 1 \in Nat
  <2> HIDE DEF f, d
  <2> QED
    BY <1>3, <1>4, <1>5 DEF f
<1> HIDE DEF d, f
<1> QED
  BY <1>4, <1>5, <1>6, <1>7 DEF f

(* Once the image is built, every chunk is as long as the parts in it       *)
(* reach.                                                                   *)
THEOREM LengthsExact == Spec => []LengthExact
<1>1. PlanInv => LengthExact
  <2> SUFFICES ASSUME PlanInv, Complete, ~EndsAligned(img), NEW c \in DOMAIN ioChunks
               PROVE  /\ \A i \in PartsOf(c) :
                           Part(i).offset + Part(i).len <= ioChunks[c].len
                      /\ \E i \in PartsOf(c) :
                           Part(i).offset + Part(i).len = ioChunks[c].len
    BY DEF LengthExact
  <2> DEFINE b == Built
             s == b - 1
             l == LastCell(img, s)
             d == c - 1
             e == End(img, s)
  <2>1. b = NumStrips(img) /\ b > 0 /\ b \in Nat /\ s + 1 = b /\ b \in 1 .. b
    BY StripsBuilt DEF Complete
  <2>2. /\ IsStrip(img, s) /\ l \in Nat /\ c \in 1 .. l + 1
        /\ ioChunks[c].len = LenAfter(img, s, d)
    BY <2>1, ChunksNow
  <2>3. IsLast(img, s)
    BY <2>1 DEF IsLast
  <2>4. e = DataEnd(img) /\ Cell(e) = l /\ e \in Nat
    <3>1. e = DataEnd(img) /\ e \in Nat
      BY <2>2, <2>3, BeginEnd
    <3>2. ~IsAligned(e)
      BY <3>1 DEF EndsAligned
    <3> QED
      BY <3>1, <3>2, <2>2, CellsOfStrip
  <2>5. /\ d \in Nat /\ (d = l <=> c = l + 1) /\ (c # l + 1 => c \in 1 .. l)
        /\ At(d) \in Nat /\ WRTSIZE \in Nat
    <3>1. d \in Nat /\ (d = l <=> c = l + 1) /\ (c # l + 1 => c \in 1 .. l)
      <4>1. c \in 1 .. l + 1 /\ d = c - 1
        BY <2>2
      <4> HIDE DEF l, d
      <4> QED
        BY <4>1, <2>2
    <3> QED
      BY <3>1, AtStep
  <2>6. ioChunks[c].len = (IF c = l + 1 THEN e ELSE At(d) + WRTSIZE) - At(d)
    <3>1. CASE c = l + 1
      BY <3>1, <2>2, <2>3, <2>4, <2>5 DEF LenAfter
    <3>2. CASE c # l + 1
      <4>1. ioChunks[c].len = WRTSIZE
        BY <3>2, <2>2, <2>5 DEF LenAfter
      <4> HIDE DEF d, l
      <4> QED
        BY <4>1, <3>2, <2>5
    <3> QED
      BY <3>1, <3>2
  <2>7. ASSUME NEW i \in PartsOf(c)
        PROVE  Part(i).offset + Part(i).len <= ioChunks[c].len
    <3>1. PICK t \in 1 .. Built :
           /\ IsStrip(img, t - 1)
           /\ d \in FirstCell(img, t - 1) .. LastCell(img, t - 1)
           /\ Part(i).offset + Part(i).len = To(img, t - 1, d) - At(d)
      BY PartsOfAre
    <3> DEFINE y == To(img, t - 1, d)
    <3>2. y \in Nat /\ y <= At(d) + WRTSIZE /\ y <= End(img, t - 1)
      <4> HIDE DEF d
      <4> QED
        BY <3>1, PartFacts
    <3>3. End(img, t - 1) <= DataEnd(img) /\ End(img, t - 1) \in Nat
      BY <3>1, BeginEnd
    <3> HIDE DEF y, d, l, e
    <3>4. y <= IF c = l + 1 THEN e ELSE At(d) + WRTSIZE
      BY <3>2, <3>3, <2>4, <2>5
    <3>5. y - At(d) <= (IF c = l + 1 THEN e ELSE At(d) + WRTSIZE) - At(d)
      BY <3>2, <3>4, <2>4, <2>5
    <3> QED
      BY <3>1, <3>5, <2>6 DEF y
  <2>8. ASSUME NEW t \in 1 .. b, NEW k \in 1 .. NumCells(img, t - 1),
               FirstCell(img, t - 1) + k = c
        PROVE  /\ <<t, k>> \in PartsOf(c)
               /\ Part(<<t, k>>).offset + Part(<<t, k>>).len
                    = To(img, t - 1, d) - At(d)
    <3>1. <<t, k>> \in PartsOf(c)
      <4>1. <<t, k>> \in PartIds(img, b, c)
        <5>1. \E v \in 1 .. b : \E j \in 1 .. NumCells(img, v - 1) :
                <<t, k>> = <<v, j>> /\ FirstCell(img, v - 1) + j = c
          BY <2>8
        <5> QED
          BY <5>1, PartIdsAre
      <4> QED
        BY <4>1, PartsNow
    <3> DEFINE h == FirstCell(img, t - 1) + k - 1
    <3>2. /\ h + 1 = c /\ h \in FirstCell(img, t - 1) .. LastCell(img, t - 1)
          /\ stripChunks[t][k].offset + stripChunks[t][k].len
               = To(img, t - 1, h) - At(h)
      BY <2>8, PartNow
    <3>3. h = d
      <4>1. h \in Int
        <5>1. FirstCell(img, t - 1) \in Nat
          BY StripNow, CellsOfStrip
        <5> QED
          BY <5>1
      <4> HIDE DEF h
      <4> QED
        BY <3>2, <4>1
    <3>4. Part(<<t, k>>) = stripChunks[t][k]
      BY DEF Part
    <3> QED
      BY <3>1, <3>2, <3>3, <3>4
  <2>9. \E i \in PartsOf(c) : Part(i).offset + Part(i).len = ioChunks[c].len
    <3>1. CASE c = l + 1
      <4> DEFINE n == NumCells(img, s)
      <4>1. n \in 1 .. n /\ FirstCell(img, s) + n = c
        <5>1. n \in Nat \ {0} /\ FirstCell(img, s) + n = l + 1
          BY <2>2, PartsAre
        <5> QED
          BY <5>1, <3>1
      <4>2. To(img, s, d) = e
        BY <3>1, <2>5 DEF To
      <4>3. /\ <<b, n>> \in PartsOf(c)
            /\ Part(<<b, n>>).offset + Part(<<b, n>>).len = To(img, s, d) - At(d)
        BY <4>1, <2>1, <2>8
      <4> HIDE DEF b, n, d, e, l, s
      <4> QED
        BY <4>2, <4>3, <3>1, <2>6
    <3>2. CASE c # l + 1
      <4>1. PICK t \in 1 .. s + 1 :
           <<t, c - FirstCell(img, t - 1)>> \in PartIds(img, s + 1, c)
           /\ IsStrip(img, t - 1) /\ FirstCell(img, t - 1) < c
           /\ c <= LastCell(img, t - 1)
        BY <3>2, <2>2, <2>5, SomeFillsCell
      <4> DEFINE k == c - FirstCell(img, t - 1)
      <4>2. /\ LastCell(img, t - 1) \in Nat /\ FirstCell(img, t - 1) \in Nat
            /\ c \in Int /\ t \in 1 .. b
        BY <4>1, <2>1, <2>2, CellsOfStrip
      <4>3. k \in 1 .. NumCells(img, t - 1) /\ FirstCell(img, t - 1) + k = c
        <5>1. /\ IsStrip(img, t - 1) /\ c \in Int
              /\ k = c - FirstCell(img, t - 1)
              /\ FirstCell(img, t - 1) < c /\ c <= LastCell(img, t - 1) + 1
          BY <4>1, <4>2
        <5> DEFINE u == t - 1
        <5>2. IsStrip(img, u) /\ FirstCell(img, u) < c /\ c <= LastCell(img, u) + 1
          BY <5>1
        <5> HIDE DEF u
        <5>3. /\ c - FirstCell(img, u) \in 1 .. NumCells(img, u)
              /\ FirstCell(img, u) + (c - FirstCell(img, u)) = c
          BY <5>1, <5>2, PartIdIn
        <5> QED
          BY <5>3 DEF u
      <4>4. /\ <<t, k>> \in PartsOf(c)
            /\ Part(<<t, k>>).offset + Part(<<t, k>>).len = To(img, t - 1, d) - At(d)
        <5> HIDE DEF k, d
        <5> QED
          BY <4>2, <4>3, <2>8
      <4>5. To(img, t - 1, d) = At(d) + WRTSIZE
        <5>1. d # LastCell(img, t - 1)
          BY <4>1, <4>2
        <5> QED
          BY <5>1 DEF To
      <4> HIDE DEF k, d, l
      <4> QED
        BY <4>4, <4>5, <3>2, <2>6
    <3> QED
      BY <3>1, <3>2
  <2> QED
    BY <2>7, <2>9
<1> QED
  BY <1>1, PlanInvHolds, PTL

(* Once the image is built, the chunks of a strip follow each other in the *)
(* file, so that one write at the offset of the first one places them all. *)
THEOREM StripsAreVectors == Spec => []StripIsOneVector
<1>1. PlanInv => StripIsOneVector
  <2> SUFFICES ASSUME PlanInv, Complete, NEW t \in DOMAIN stripChunks,
                      NEW k \in 1 .. Len(stripChunks[t]) - 1
               PROVE  LET c == ioChunks[stripChunks[t][k].ioChunk]
                          d == ioChunks[stripChunks[t][k + 1].ioChunk]
                      IN  c.offset + c.len = d.offset
    BY DEF StripIsOneVector
  <2> DEFINE f == FirstCell(img, t - 1)
             l == LastCell(img, t - 1)
             n == NumCells(img, t - 1)
             h == f + k - 1
             g == f + (k + 1) - 1
  <2>1. t \in 1 .. Built
    BY ChunksNow
  <2>2. /\ IsStrip(img, t - 1) /\ n \in Nat \ {0} /\ f + n = l + 1
        /\ Len(stripChunks[t]) = n /\ f \in Nat /\ l \in Nat
        /\ l <= LastCell(img, Built - 1) /\ Built > 0
    BY <2>1, StripNow, PartsAre, CellsOfStrip
  <2>3. /\ k \in 1 .. n /\ k + 1 \in 1 .. n /\ h + 1 = g /\ h \in Nat /\ h < l
    <3>1. k \in 1 .. n - 1 /\ h = f + k - 1 /\ g = f + (k + 1) - 1
      BY <2>2
    <3> HIDE DEF f, l, n, h, g
    <3> QED
      BY <3>1, <2>2
  <2>4. /\ stripChunks[t][k].ioChunk = h + 1
        /\ ioChunks[h + 1].offset = At(h)
        /\ ioChunks[h + 1].len = LenAfter(img, Built - 1, h)
    BY <2>1, <2>3, PartNow
  <2>5. /\ stripChunks[t][k + 1].ioChunk = g + 1
        /\ ioChunks[g + 1].offset = At(g)
    BY <2>1, <2>3, PartNow
  <2>6. h # LastCell(img, Built - 1)
    <3>1. LastCell(img, Built - 1) \in Nat
      BY <2>2, ChunksNow
    <3> HIDE DEF h, l
    <3> QED
      BY <3>1, <2>2, <2>3
  <2>7. LenAfter(img, Built - 1, h) = WRTSIZE
    BY <2>6 DEF LenAfter
  <2>8. At(h) + WRTSIZE = At(g)
    <3> HIDE DEF h, g
    <3> QED
      BY <2>3, AtStep
  <2> HIDE DEF h, g
  <2> QED
    BY <2>4, <2>5, <2>7, <2>8
<1> QED
  BY <1>1, PlanInvHolds, PTL

(* The chunks of an image, counted: for a final strip. *)
LEMMA LastCellIs ==
  ASSUME NEW m, NEW s, IsStrip(m, s), IsLast(m, s), HeaderFits(m)
  PROVE  LastCell(m, s) + 1 = NumUniqueChunks(m)
<1> DEFINE l == LastCell(m, s)
           e == End(m, s)
           h == m.height
           w == m.rowBytes
<1>1. l \in Nat /\ e = DataEnd(m) /\ m \in ImageSizes
  BY CellsOfStrip, BeginEnd DEF IsStrip
<1>2. CeilDiv(e, WRTSIZE) = l + 1
  <2>1. /\ At(l) < e /\ e <= At(l) + WRTSIZE /\ e \in Nat
    BY CellsOfStrip, BeginEnd
  <2>2. 0 \in Nat /\ 0 <= l
    BY <1>1
  <2>3. CeilDiv(e - At(0), WRTSIZE) = l - 0 + 1
    BY <1>1, <2>1, <2>2, CellsBetween
  <2>4. e - At(0) = e /\ l - 0 + 1 = l + 1
    <3> HIDE DEF e, l
    <3> QED
      BY <2>1, <1>1, AtStep
  <2> QED
    BY <2>3, <2>4
<1>3. DataEnd(m) - HeaderSize = w * h
  <2>1. h \in Nat /\ w \in Nat /\ HeaderSize \in Nat
    BY <1>1, GeometryAssumption DEF ImageSizes
  <2>2. DataEnd(m) = HeaderSize + h * w
    BY DEF DataEnd
  <2>3. h * w = w * h /\ h * w \in Nat
    BY <2>1
  <2> HIDE DEF h, w
  <2> QED
    BY <2>1, <2>2, <2>3
<1>4. NumUniqueChunks(m) = CeilDiv(DataEnd(m) - HeaderSize, WRTSIZE)
  BY <1>3 DEF NumUniqueChunks
<1> QED
  BY <1>1, <1>2, <1>4 DEF HeaderFits

(* The encoder waits for as many chunk writes as there are chunks, for an  *)
(* image that the header does not make one chunk longer.                   *)
THEOREM ChunksCounted == Spec => []UniqueChunksCounted
<1>1. PlanInv => UniqueChunksCounted
  <2> SUFFICES ASSUME PlanInv, Complete, HeaderFits(img)
               PROVE  Len(ioChunks) = NumUniqueChunks(img)
    BY DEF UniqueChunksCounted
  <2> DEFINE s == Built - 1
  <2>1. Built = NumStrips(img) /\ Built > 0 /\ Built \in Nat
    BY StripsBuilt DEF Complete
  <2>2. IsStrip(img, s) /\ Len(ioChunks) = LastCell(img, s) + 1
    BY <2>1, ChunksNow
  <2>3. IsLast(img, s)
    BY <2>1 DEF IsLast
  <2> QED
    BY <2>2, <2>3, LastCellIs
<1> QED
  BY <1>1, PlanInvHolds, PTL

(* The chunks of a strip are the cells of the file it overlaps.            *)
THEOREM ChunksFollowCells == Spec => []ChunksAreCells
<1>1. PlanInv => ChunksAreCells
  <2> SUFFICES ASSUME PlanInv
               PROVE  ChunksAreCells
    OBVIOUS
  <2>1. ASSUME NEW t \in DOMAIN stripChunks
        PROVE  CellsOf(img, t - 1) =
                 { ioChunks[stripChunks[t][k].ioChunk].offset \div WRTSIZE :
                     k \in DOMAIN stripChunks[t] }
    <3> DEFINE f == FirstCell(img, t - 1)
               l == LastCell(img, t - 1)
               n == NumCells(img, t - 1)
    <3>1. t \in 1 .. Built
      BY ChunksNow
    <3>2. /\ IsStrip(img, t - 1) /\ n \in Nat \ {0} /\ f + n = l + 1
          /\ DOMAIN stripChunks[t] = 1 .. n /\ f \in Nat /\ l \in Nat
          /\ CellsOf(img, t - 1) = f .. l
      BY <3>1, StripNow, PartsAre, CellsOfStrip, PartsNow, NumChunksIs
    <3>3. ASSUME NEW k \in 1 .. n
          PROVE  /\ ioChunks[stripChunks[t][k].ioChunk].offset \div WRTSIZE = f + k - 1
                 /\ f + k - 1 \in f .. l
      <4> DEFINE c == f + k - 1
      <4>1. /\ c \in f .. l /\ stripChunks[t][k].ioChunk = c + 1
            /\ ioChunks[c + 1].offset = At(c)
        BY <3>1, PartNow
      <4>2. c \in Nat
        <5> HIDE DEF c, f, l
        <5> QED
          BY <4>1, <3>2
      <4> HIDE DEF c
      <4>3. Cell(At(c)) = c
        BY <4>2, AtAligned
      <4> QED
        BY <4>1, <4>3 DEF Cell, c
    <3>4. ASSUME NEW c \in f .. l
          PROVE  \E k \in 1 .. n : c = f + k - 1
      <4> DEFINE j == c - f + 1
      <4>1. j \in 1 .. n /\ c = f + j - 1
        <5>1. c \in f .. l
          OBVIOUS
        <5>2. f \in Nat /\ l \in Nat /\ n \in Nat /\ f + n = l + 1
          BY <3>2
        <5>3. j = (c - f) + 1
          OBVIOUS
        <5> HIDE DEF f, l, n, j
        <5>4. c \in Int /\ f <= c /\ c <= l
          BY <5>1, <5>2
        <5>5. j \in Int /\ 1 <= j /\ j <= n
          BY <5>2, <5>3, <5>4
        <5>6. c = f + j - 1
          BY <5>2, <5>3, <5>4
        <5> QED
          BY <5>5, <5>6, <5>2
      <4> QED
        BY <4>1
    <3> HIDE DEF f, l, n
    <3>5. f .. l = { ioChunks[stripChunks[t][k].ioChunk].offset \div WRTSIZE : k \in 1 .. n }
      BY <3>3, <3>4
    <3> QED
      BY <3>2, <3>5
  <2>2. ASSUME NEW i \in Parts
        PROVE  ioChunks[Part(i).ioChunk].offset = WRTSIZE * (Part(i).ioChunk - 1)
    <3>1. PICK t \in 1 .. Built : \E k \in 1 .. NumCells(img, t - 1) : i = <<t, k>>
      BY PartsNow
    <3>2. PICK k \in 1 .. NumCells(img, t - 1) : i = <<t, k>>
      BY <3>1
    <3> DEFINE c == FirstCell(img, t - 1) + k - 1
    <3>3. /\ c \in FirstCell(img, t - 1) .. LastCell(img, t - 1)
          /\ stripChunks[t][k].ioChunk = c + 1
          /\ ioChunks[c + 1].offset = At(c) /\ IsStrip(img, t - 1)
      BY PartNow, StripNow
    <3>4. c \in Nat
      <4>1. FirstCell(img, t - 1) \in Nat
        BY <3>3, CellsOfStrip
      <4> HIDE DEF c
      <4> QED
        BY <3>3, <4>1
    <3>5. Part(i) = stripChunks[t][k]
      BY <3>2 DEF Part
    <3> HIDE DEF c
    <3>6. At(c) = WRTSIZE * ((c + 1) - 1)
      BY <3>4, AtStep DEF At
    <3> QED
      BY <3>3, <3>5, <3>6
  <2> QED
    BY <2>1, <2>2 DEF ChunksAreCells
<1> QED
  BY <1>1, PlanInvHolds, PTL

(* The cells of two different strips meet only in the last of the one and  *)
(* the first of the other.                                                 *)
LEMMA InnerCells ==
  ASSUME NEW m, NEW s, NEW t, IsStrip(m, s), IsStrip(m, t),
         NEW e \in Nat, FirstCell(m, s) < e, e < LastCell(m, s),
         e \in FirstCell(m, t) .. LastCell(m, t)
  PROVE  t = s
<1>1. s \in Nat /\ t \in Nat
  BY DEF IsStrip
<1>2. /\ FirstCell(m, s) \in Nat /\ LastCell(m, s) \in Nat
      /\ FirstCell(m, t) \in Nat /\ LastCell(m, t) \in Nat
  BY CellsOfStrip
<1>3. s < t => LastCell(m, s) <= FirstCell(m, t)
  BY EndsGrow
<1>4. t < s => LastCell(m, t) <= FirstCell(m, s)
  BY EndsGrow
<1> QED
  BY <1>1, <1>2, <1>3, <1>4

(* The cells of the strips are all the cells of the file. *)
LEMMA CellsCover ==
  ASSUME NEW m \in ImageSizes
  PROVE  LET b == NumStrips(m) - 1
         IN  /\ IsStrip(m, b) /\ IsLast(m, b)
             /\ UNION { CellsOf(m, s) : s \in 0 .. b } = 0 .. LastCell(m, b)
<1> DEFINE b == NumStrips(m) - 1
           S == 0 .. b
           l == LastCell(m, b)
<1>1. b \in Nat /\ IsStrip(m, b) /\ IsLast(m, b)
  BY StripHeights DEF IsStrip, IsLast
<1>2. l \in Nat
  BY <1>1, CellsOfStrip
<1>3. ASSUME NEW s \in S
      PROVE  /\ IsStrip(m, s) /\ CellsOf(m, s) = FirstCell(m, s) .. LastCell(m, s)
             /\ FirstCell(m, s) \in Nat /\ LastCell(m, s) \in Nat
             /\ LastCell(m, s) <= l
  <2>1. IsStrip(m, s) /\ s \in Nat /\ s <= b
    BY <1>1 DEF IsStrip
  <2>2. /\ FirstCell(m, s) \in Nat /\ LastCell(m, s) \in Nat
        /\ FirstCell(m, b) \in Nat /\ FirstCell(m, b) <= l
    BY <2>1, <1>1, CellsOfStrip
  <2>3. s < b => LastCell(m, s) <= FirstCell(m, b)
    BY <2>1, <1>1, EndsGrow
  <2>4. s = b => LastCell(m, s) = l
    OBVIOUS
  <2>5. LastCell(m, s) <= l
    <3> HIDE DEF b, l
    <3> QED
      BY <2>1, <2>2, <2>3, <2>4, <1>1, <1>2
  <2> QED
    BY <2>1, <2>2, <2>5, NumChunksIs
<1>4. ASSUME NEW c \in 0 .. l
      PROVE  \E s \in S : c \in CellsOf(m, s)
  <2>1. CASE c = l
    <3>1. b \in S /\ FirstCell(m, b) <= l /\ FirstCell(m, b) \in Nat
      BY <1>1, CellsOfStrip
    <3>2. c \in FirstCell(m, b) .. l
      <4> HIDE DEF l
      <4> QED
        BY <2>1, <3>1, <1>2
    <3> QED
      BY <3>1, <3>2, <1>3
  <2>2. CASE c # l
    <3> DEFINE d == c + 1
    <3>1. d \in 1 .. l /\ c \in Nat
      BY <2>2, <1>2
    <3> HIDE DEF d
    <3>2. PICK t \in 1 .. b + 1 : FirstCell(m, t - 1) < d /\ d <= LastCell(m, t - 1)
      BY <1>1, <3>1, SomeFillsCell
    <3>3. t - 1 \in S
      BY <1>1
    <3>4. /\ FirstCell(m, t - 1) \in Nat /\ LastCell(m, t - 1) \in Nat
          /\ CellsOf(m, t - 1) = FirstCell(m, t - 1) .. LastCell(m, t - 1)
      BY <3>3, <1>3
    <3>5. c \in FirstCell(m, t - 1) .. LastCell(m, t - 1)
      BY <3>1, <3>2, <3>4 DEF d
    <3> QED
      BY <3>3, <3>4, <3>5
  <2> QED
    BY <2>1, <2>2
<1>5. ASSUME NEW s \in S, NEW c \in CellsOf(m, s)
      PROVE  c \in 0 .. l
  <2>1. /\ c \in FirstCell(m, s) .. LastCell(m, s) /\ LastCell(m, s) <= l
        /\ FirstCell(m, s) \in Nat /\ LastCell(m, s) \in Nat
    BY <1>3
  <2> HIDE DEF l
  <2> QED
    BY <2>1, <1>2
<1> HIDE DEF S, l
<1>6. UNION { CellsOf(m, s) : s \in S } = 0 .. l
  BY <1>4, <1>5
<1> QED
  BY <1>1, <1>6 DEF S, l

(* The division of every image is one that the theorems about the encoder  *)
(* may be used for (EncodeAssumption and Runs of ParallelEncode, for cells *)
(* as chunks): every strip has a chunk, a chunk between two of a strip is  *)
(* that strip's alone, and maxPixelWrites_ is the number of chunks unless  *)
(* the header needs one more (ImageStripper, ImageFormat::init).           *)
THEOREM CellsSuitEncoder ==
  ASSUME NEW m \in ImageSizes
  PROVE  LET S == 0 .. NumStrips(m) - 1
             C == UNION { CellsOf(m, s) : s \in S }
         IN  /\ IsFiniteSet(S) /\ IsFiniteSet(C) /\ C \subseteq Nat
             /\ \A s \in S : CellsOf(m, s) # {}
             /\ \A s \in S : \A c, d \in CellsOf(m, s), e \in C :
                  c < e /\ e < d => /\ e \in CellsOf(m, s)
                                   /\ { t \in S : e \in CellsOf(m, t) } = {s}
             /\ HeaderFits(m) => Cardinality(C) = NumUniqueChunks(m)
<1> DEFINE b == NumStrips(m) - 1
           S == 0 .. b
           l == LastCell(m, b)
           C == UNION { CellsOf(m, s) : s \in S }
<1>1. b \in Nat /\ IsStrip(m, b) /\ IsLast(m, b) /\ C = 0 .. l
  BY StripHeights, CellsCover
<1>2. l \in Nat
  BY <1>1, CellsOfStrip
<1>3. \A s \in S : IsStrip(m, s)
  BY DEF IsStrip
<1>4. \A s \in S :
        /\ FirstCell(m, s) \in Nat /\ LastCell(m, s) \in Nat
        /\ FirstCell(m, s) <= LastCell(m, s)
        /\ CellsOf(m, s) = FirstCell(m, s) .. LastCell(m, s)
  BY <1>3, CellsOfStrip, NumChunksIs
<1>5. IsFiniteSet(S) /\ IsFiniteSet(C) /\ Cardinality(C) = l + 1 /\ C \subseteq Nat
  <2>1. /\ 0 \in Int /\ b \in Int /\ l \in Int
        /\ ~(0 > l) /\ l - 0 + 1 = l + 1 /\ 0 .. l \subseteq Nat
    BY <1>1, <1>2
  <2>2. IsFiniteSet(0 .. b) /\ IsFiniteSet(0 .. l) /\ Cardinality(0 .. l) = l + 1
    BY <2>1, FS_Interval
  <2> QED
    BY <2>1, <2>2, <1>1
<1> HIDE DEF C
<1>6. \A s \in S : CellsOf(m, s) # {}
  <2> TAKE s \in S
  <2>1. FirstCell(m, s) \in FirstCell(m, s) .. LastCell(m, s)
    BY <1>4
  <2> QED
    BY <2>1, <1>4
<1>7. ASSUME NEW s \in S, NEW c \in CellsOf(m, s), NEW d \in CellsOf(m, s),
             NEW e \in C, c < e, e < d
      PROVE  e \in CellsOf(m, s) /\ { t \in S : e \in CellsOf(m, t) } = {s}
  <2>1. /\ c \in FirstCell(m, s) .. LastCell(m, s)
        /\ d \in FirstCell(m, s) .. LastCell(m, s)
        /\ FirstCell(m, s) \in Nat /\ LastCell(m, s) \in Nat /\ e \in Nat
    BY <1>4, <1>5
  <2>2. FirstCell(m, s) < e /\ e < LastCell(m, s)
    BY <2>1, <1>7
  <2>3. e \in CellsOf(m, s)
    <3>1. e \in FirstCell(m, s) .. LastCell(m, s)
      BY <2>1, <2>2
    <3> QED
      BY <3>1, <1>4
  <2>4. ASSUME NEW t \in S, e \in CellsOf(m, t)
        PROVE  t = s
    <3>1. e \in FirstCell(m, t) .. LastCell(m, t) /\ IsStrip(m, t) /\ IsStrip(m, s)
      BY <2>4, <1>3, <1>4
    <3> QED
      BY <3>1, <2>1, <2>2, InnerCells
  <2> QED
    BY <2>3, <2>4
<1>8. HeaderFits(m) => Cardinality(C) = NumUniqueChunks(m)
  BY <1>1, <1>5, LastCellIs
<1>9. \A s \in S : \A c, d \in CellsOf(m, s), e \in C :
        c < e /\ e < d => /\ e \in CellsOf(m, s)
                         /\ { t \in S : e \in CellsOf(m, t) } = {s}
  BY <1>7
<1> QED
  BY <1>5, <1>6, <1>8, <1>9 DEF C

-----------------------------------------------------------------------------
(* The bytes of the cells *)

(* What strip s puts into the file, and the length of cell c. *)
BytesOf(m, s) == ChunkInfo(m, s).first.x0 .. ChunkInfo(m, s).last.x1 - 1

CellLen(m, c) ==
  IF At(c) + WRTSIZE <= DataEnd(m) THEN WRTSIZE ELSE DataEnd(m) - At(c)

LEMMA BytesOfIs ==
  ASSUME NEW m, NEW s, IsStrip(m, s)
  PROVE  BytesOf(m, s) = Begin(m, s) .. End(m, s) - 1
BY ChunkInfoIs DEF BytesOf

(* Every byte of the file is some strip's, one that has the byte's cell.   *)
LEMMA SomeWritesByte ==
  ASSUME NEW m, NEW b, IsStrip(m, b), IsLast(m, b),
         NEW p \in Nat, p < DataEnd(m)
  PROVE  \E s \in 0 .. b : /\ IsStrip(m, s) /\ p \in BytesOf(m, s)
                           /\ Cell(p) \in CellsOf(m, s)
<1> DEFINE T == { t \in 0 .. b : IsStrip(m, t) /\ p < End(m, t) }
<1>1. b \in Nat /\ T \subseteq Nat /\ b \in T
  BY BeginEnd DEF IsStrip
<1>2. PICK s \in T : \A t \in T : s <= t
  BY <1>1, HasSmallest
<1>3. s \in 0 .. b /\ s \in Nat /\ s <= b /\ IsStrip(m, s) /\ p < End(m, s)
  BY <1>1, <1>2
<1>4. /\ Begin(m, s) \in Nat /\ End(m, s) \in Nat
      /\ s = 0 => Begin(m, s) = 0
  BY <1>3, BeginEnd
<1>5. Begin(m, s) <= p
  <2>1. CASE s = 0
    BY <2>1, <1>4
  <2>2. CASE s # 0
    <3>1. IsStrip(m, s - 1) /\ Begin(m, s) = End(m, s - 1) /\ s - 1 \in 0 .. b
      BY <2>2, <1>1, <1>3, Neighbours
    <3>2. s - 1 \notin T
      BY <1>2, <1>3
    <3>3. ~(p < End(m, s - 1))
      BY <3>1, <3>2
    <3> QED
      BY <3>1, <3>3, <1>4
  <2> QED
    BY <2>1, <2>2
<1> HIDE DEF T
<1>6. p \in BytesOf(m, s)
  <2>1. p \in Begin(m, s) .. End(m, s) - 1
    BY <1>3, <1>4, <1>5
  <2> QED
    BY <2>1, <1>3, BytesOfIs
<1> DEFINE c == Cell(p)
           f == FirstCell(m, s)
           l == LastCell(m, s)
<1>7. /\ c \in Nat /\ At(c) <= p /\ p < At(c) + WRTSIZE
      /\ f \in Nat /\ l \in Nat
      /\ At(f) <= Begin(m, s) /\ End(m, s) <= At(l) + WRTSIZE
      /\ At(c) \in Nat /\ At(f) \in Nat /\ At(l) \in Nat /\ WRTSIZE \in Nat
  BY <1>3, CellIs, CellsOfStrip, AtStep
<1>8. CellsOf(m, s) = f .. l
  BY <1>3, NumChunksIs
<1> HIDE DEF c, f, l
<1>9. f <= c
  <2>1. c < f => At(c) + WRTSIZE <= At(f)
    BY <1>7, AtLess
  <2> QED
    BY <2>1, <1>4, <1>5, <1>7
<1>10. c <= l
  <2>1. l < c => At(l) + WRTSIZE <= At(c)
    BY <1>7, AtLess
  <2> QED
    BY <2>1, <1>3, <1>4, <1>7
<1>11. c \in CellsOf(m, s)
  BY <1>7, <1>8, <1>9, <1>10
<1> QED
  BY <1>3, <1>6, <1>11 DEF c

(* The cells of every image are laid out as the theorem about the bytes of *)
(* the file has them (FileLayout of BufferLife): they follow each other    *)
(* from 0 and end with the data, all but the last are full, which is what  *)
(* O_DIRECT needs, and every byte of a cell is of a strip that shares it.  *)
(* Without -k so do the strips, which are then written whole (ChunkInfo,   *)
(* IOChunk, ImageFormat::getPoolBuffer).                                   *)
THEOREM CellsMakeFile ==
  ASSUME NEW m \in ImageSizes
  PROVE  LET S == 0 .. NumStrips(m) - 1
             C == UNION { CellsOf(m, s) : s \in S }
         IN  /\ \A c \in C :
                  /\ 0 .. c \subseteq C
                  /\ 0 < CellLen(m, c) /\ CellLen(m, c) <= WRTSIZE
                  /\ At(c) + CellLen(m, c) <= DataEnd(m)
                  /\ IF c + 1 \in C
                     THEN /\ At(c + 1) = At(c) + CellLen(m, c)
                          /\ CellLen(m, c) = WRTSIZE
                     ELSE At(c) + CellLen(m, c) = DataEnd(m)
                  /\ \A p \in At(c) .. At(c) + CellLen(m, c) - 1 :
                       \E s \in S : c \in CellsOf(m, s) /\ p \in BytesOf(m, s)
             /\ \A s \in S :
                  /\ BytesOf(m, s) = Begin(m, s) .. End(m, s) - 1
                  /\ Begin(m, s) < End(m, s) /\ End(m, s) <= DataEnd(m)
                  /\ IF s + 1 \in S THEN Begin(m, s + 1) = End(m, s)
                                    ELSE End(m, s) = DataEnd(m)
<1> DEFINE b == NumStrips(m) - 1
           S == 0 .. b
           l == LastCell(m, b)
           C == UNION { CellsOf(m, s) : s \in S }
           e == DataEnd(m)
<1>1. b \in Nat /\ IsStrip(m, b) /\ IsLast(m, b) /\ C = 0 .. l
  BY StripHeights, CellsCover
<1>2. /\ l \in Nat /\ At(l) < e /\ e <= At(l) + WRTSIZE /\ e \in Nat
      /\ At(l) \in Nat
  BY <1>1, CellsOfStrip, BeginEnd
<1> HIDE DEF C, l
<1>3. ASSUME NEW c \in C
      PROVE  /\ c \in Nat /\ c <= l /\ At(c) \in Nat /\ WRTSIZE \in Nat
             /\ 0 < WRTSIZE /\ At(c + 1) = At(c) + WRTSIZE
             /\ 0 .. c \subseteq C
             /\ c + 1 \in C <=> c < l
  <2>1. c \in Nat /\ c <= l
    BY <1>1, <1>2, <1>3
  <2>2. 0 .. c \subseteq C /\ (c + 1 \in C <=> c < l)
    BY <1>1, <1>2, <2>1
  <2> QED
    BY <2>1, <2>2, AtStep
<1>4. ASSUME NEW c \in C
      PROVE  /\ 0 < CellLen(m, c) /\ CellLen(m, c) <= WRTSIZE
             /\ CellLen(m, c) \in Nat
             /\ At(c) + CellLen(m, c) <= e
             /\ c < l => CellLen(m, c) = WRTSIZE
             /\ ~(c < l) => At(c) + CellLen(m, c) = e
  <2>1. c < l => At(c) + WRTSIZE <= At(l)
    BY <1>2, <1>3, AtLess
  <2>2. ~(c < l) => At(c) = At(l)
    <3>1. ~(c < l) => c = l
      BY <1>2, <1>3
    <3> QED
      BY <3>1
  <2>3. CellLen(m, c) = IF At(c) + WRTSIZE <= e THEN WRTSIZE ELSE e - At(c)
    BY DEF CellLen
  <2> HIDE DEF e
  <2> QED
    BY <2>1, <2>2, <2>3, <1>2, <1>3
<1>5. ASSUME NEW c \in C, NEW p \in At(c) .. At(c) + CellLen(m, c) - 1
      PROVE  \E s \in S : c \in CellsOf(m, s) /\ p \in BytesOf(m, s)
  <2>1. p \in Nat /\ At(c) <= p /\ p < At(c) + WRTSIZE /\ p < e
    <3> HIDE DEF e
    <3> QED
      BY <1>2, <1>3, <1>4
  <2>2. Cell(p) = c
    BY <2>1, <1>3, CellIs
  <2> QED
    BY <2>1, <2>2, <1>1, SomeWritesByte
<1>6. ASSUME NEW s \in S
      PROVE  /\ BytesOf(m, s) = Begin(m, s) .. End(m, s) - 1
             /\ Begin(m, s) < End(m, s) /\ End(m, s) <= e
             /\ IF s + 1 \in S THEN Begin(m, s + 1) = End(m, s)
                               ELSE End(m, s) = e
  <2>1. s \in Nat /\ IsStrip(m, s)
    BY DEF IsStrip
  <2>2. /\ Begin(m, s) \in Nat /\ Start(m, s) \in Nat /\ End(m, s) \in Nat
        /\ Begin(m, s) <= Start(m, s) /\ Start(m, s) < End(m, s)
        /\ End(m, s) <= e
        /\ IsLast(m, s) => End(m, s) = e
    BY <2>1, BeginEnd
  <2>3. ASSUME s + 1 \in S
        PROVE  Begin(m, s + 1) = End(m, s)
    <3>1. IsStrip(m, s + 1) /\ s + 1 > 0
      BY <2>1, <2>3 DEF IsStrip
    <3>2. Begin(m, s + 1) = End(m, (s + 1) - 1)
      BY <3>1, Neighbours
    <3>3. (s + 1) - 1 = s
      BY <2>1
    <3> QED
      BY <3>2, <3>3
  <2>4. ASSUME s + 1 \notin S
        PROVE  End(m, s) = e
    <3>1. s = b
      BY <2>1, <2>4, <1>1
    <3> QED
      BY <3>1, <1>1, <2>2
  <2>5. Begin(m, s) < End(m, s)
    BY <2>2
  <2> QED
    BY <2>1, <2>2, <2>3, <2>4, <2>5, BytesOfIs
<1>7. \A c \in C :
        /\ 0 .. c \subseteq C
        /\ 0 < CellLen(m, c) /\ CellLen(m, c) <= WRTSIZE
        /\ At(c) + CellLen(m, c) <= e
        /\ IF c + 1 \in C
           THEN /\ At(c + 1) = At(c) + CellLen(m, c)
                /\ CellLen(m, c) = WRTSIZE
           ELSE At(c) + CellLen(m, c) = e
        /\ \A p \in At(c) .. At(c) + CellLen(m, c) - 1 :
             \E s \in S : c \in CellsOf(m, s) /\ p \in BytesOf(m, s)
  BY <1>3, <1>4, <1>5
<1> QED
  BY <1>6, <1>7 DEF C

=============================================================================
