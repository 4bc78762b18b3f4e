-------------------------- MODULE TiffFinishProofs --------------------------
(***************************************************************************)
(* The safety properties of TiffFinish, for images of any size, any limit  *)
(* of a TIFF and any length of its directory.                              *)
(*                                                                         *)
(* The inductive invariant has four parts: the lengths of the buffers,     *)
(* which never change (InputsOK); where the simulation stands, by which    *)
(* libtiff's count of strips and the program's end together (SimInv);      *)
(* which pieces have arrived, and where the directory goes behind them     *)
(* (PlaceInv); and what has been written of it, and why if it has not      *)
(* (DirectoryInv).  As long as every write of pixels was done (Clean) the  *)
(* last two say exactly where the directory is; afterwards they keep only  *)
(* what does not depend on it.                                             *)
(***************************************************************************)
EXTENDS TiffFinish, StripGeometryProofs

InputsOK ==
  /\ img \in Images /\ mode \in Modes
  /\ IF mode.chunked THEN bufLen = <<>>
     ELSE /\ bufLen \in [Pieces -> { StripLen(s) : s \in Pieces }]
          /\ \A s \in Pieces : StripLen(s) <= bufLen[s]

Stages == {"reopen", "open", "strips", "drain", "link", "arrays",
           "directory", "close", "returned", "deleted", "aborted"}

Early == {"reopen", "open", "strips", "drain", "link"}
Drained == {"link", "arrays", "directory", "close"}
Ends == {"returned", "deleted", "aborted"}

SimInv ==
  /\ stage \in Stages /\ simulateWrite \in BOOLEAN
  /\ numSimulatedWrites \in 0 .. maxSimulatedWrites /\ off \in Nat
  /\ stripOffset \in Seq(Nat) /\ Len(stripOffset) <= NumStrips(img)
  /\ StripOffsetsMatch
  /\ stage \in {"reopen", "open"} =>
       off = 0 /\ numSimulatedWrites = 0 /\ stripOffset = <<>>
  /\ stage = "open" => simulateWrite
  /\ stage = "strips" =>
       /\ numSimulatedWrites = NextStrip
       /\ simulateWrite <=> NextStrip < NumStrips(img)
       /\ NextStrip < NumStrips(img) =>
            off = HeaderSize + LogicalOffset(img, NextStrip)
  /\ stage \in {"drain", "link", "arrays", "directory", "close"} =>
       ~simulateWrite /\ NextStrip = NumStrips(img)

(* The place of the directory: the end of all pixels, on an even offset.   *)
DirectoryPlace == ((EndOfAll(Pieces) + 1) \div 2) * 2

(* No write of pixels failed or was cut short, so far. *)
Clean == short = {} /\ refused = {}

PlaceInv ==
  /\ landed \subseteq Pieces /\ short \subseteq Pieces
  /\ refused \subseteq Pieces /\ dropped \subseteq Pieces
  /\ ~mode.faulty => Clean
  /\ refused = {} => dropped = {}
  /\ size \in Nat
  /\ fd \in {"direct", "buffered", "closed"}
  /\ stage \in Stages \ ({"reopen"} \cup Ends) => fd = "buffered"
  /\ stage \in Early => extents = {} /\ diroff = 0
  /\ stage \in Early /\ Clean => size = EndOfAll(landed)
  /\ stage \in Drained => Outstanding \subseteq dropped
  /\ \A p \in landed : PieceEnd(p) <= size
  /\ stage \in {"arrays", "directory"} \/ extents # {} =>
       \A p \in Sound : PieceEnd(p) <= diroff
  /\ diroff \in Nat
  /\ Clean => diroff \in {0, DirectoryPlace}
  /\ link \in 0 .. TiffLimit - 1

LinkPart == [at |-> HeaderSize \div 2, len |-> HeaderSize \div 2, part |-> "link"]
ArraysPart == [at |-> ArraysAt, len |-> ArraysLen, part |-> "arrays"]
DirectoryPart == [at |-> diroff, len |-> DirSize, part |-> "directory"]

ArrayedParts ==
  {LinkPart} \cup (IF ArraysLen = 0 THEN {} ELSE {ArraysPart})
AllParts == ArrayedParts \cup {DirectoryPart}

(* The directory was written and the file has been, or is to be, closed. *)
Written ==
  flushed /\ (stage = "close" \/ encoded)

Fits == DirectoryPlace + DirSize + (DirSize % 2) + ArraysLen < TiffLimit

DirectoryInv ==
  /\ flushed \in BOOLEAN /\ encoded \in BOOLEAN
  /\ stage \notin {"close"} \cup Ends => flushed
  /\ encoded => stage \in Ends
  /\ extents \subseteq AllParts
  /\ Clean /\ extents # {} => diroff = DirectoryPlace
  /\ Clean /\ stage = "arrays" =>
       link = diroff /\ diroff = DirectoryPlace /\ extents = {LinkPart}
  /\ Clean /\ stage = "directory" =>
       /\ link = diroff /\ diroff = DirectoryPlace /\ Fits
       /\ extents = ArrayedParts
  /\ Clean /\ Written =>
       /\ link = diroff /\ diroff = DirectoryPlace /\ Fits
       /\ extents = AllParts
       /\ landed = Pieces /\ NextStrip = NumStrips(img)
  /\ Fits /\ ~mode.faulty =>
       /\ flushed
       /\ stage \in {"returned", "deleted"} => encoded

FinishInv == InputsOK /\ SimInv /\ PlaceInv /\ DirectoryInv

-----------------------------------------------------------------------------
(* Arithmetic *)

LEMMA ExceedsIs ==
  ASSUME NEW offset \in Nat, NEW n \in Nat
  PROVE  Exceeds(offset, n) <=> TiffLimit <= offset + n
<1> DEFINE t == offset + n
           l == TiffLimit
<1>1. l \in Nat /\ l > 0 /\ t \in Nat
  BY FinishAssumption
<1>2. GreaterOf(offset, n) \in {offset, n}
        /\ offset <= GreaterOf(offset, n) /\ n <= GreaterOf(offset, n)
  BY DEF GreaterOf
<1>3. Exceeds(offset, n) <=> t % l < GreaterOf(offset, n)
  BY DEF Exceeds
<1>4. t % l < l /\ t % l \in Nat
  BY <1>1, DivMod
<1>5. t = offset + n
  OBVIOUS
<1> HIDE DEF t, l
<1>6. CASE t < l
  <2>1. t % l = t - l * 0
    BY <1>1, <1>6, DivIs
  <2> QED
    BY <2>1, <1>1, <1>2, <1>3, <1>5, <1>6 DEF t, l
<1>7. CASE l <= t /\ l <= GreaterOf(offset, n)
  BY <1>7, <1>1, <1>2, <1>3, <1>4 DEF t, l
<1>8. CASE l <= t /\ GreaterOf(offset, n) < l
  <2>1. offset < l /\ n < l
    BY <1>8, <1>1, <1>2
  <2>2. t % l = t - l * 1
    BY <2>1, <1>1, <1>5, <1>8, DivIs
  <2> QED
    BY <2>1, <2>2, <1>1, <1>2, <1>3, <1>5, <1>8 DEF t, l
<1> QED
  BY <1>1, <1>2, <1>6, <1>7, <1>8

LEMMA RoundsUp ==
  ASSUME NEW n \in Nat
  PROVE  ((n + 1) \div 2) * 2 \in Nat /\ n <= ((n + 1) \div 2) * 2
<1> DEFINE i == n + 1
<1>1. i \in Nat /\ i = n + 1
  OBVIOUS
<1> HIDE DEF i
<1>2. i = 2 * (i \div 2) + (i % 2) /\ i % 2 \in 0 .. 2 - 1 /\ i \div 2 \in Nat
  BY <1>1, DivMod
<1>3. (i \div 2) * 2 \in Nat /\ n <= (i \div 2) * 2
  BY <1>1, <1>2
<1> QED
  BY <1>3 DEF i

LEMMA LargestIs ==
  ASSUME NEW b \in Nat, NEW S \in SUBSET (0 .. b), S # {}
  PROVE  LargestOf(S) \in S /\ \A y \in S : y <= LargestOf(S)
BY HasLargest DEF LargestOf

LEMMA LargestOnly ==
  ASSUME NEW b \in Nat, NEW S \in SUBSET (0 .. b),
         NEW x \in S, \A y \in S : y <= x
  PROVE  LargestOf(S) = x
<1>1. LargestOf(S) \in S /\ \A y \in S : y <= LargestOf(S)
  BY LargestIs
<1> HIDE DEF LargestOf
<1>2. x <= LargestOf(S) /\ LargestOf(S) <= x
  BY <1>1
<1>3. S \subseteq Nat
  OBVIOUS
<1> DEFINE y == LargestOf(S)
<1>4. x \in Nat /\ y \in Nat /\ x <= y /\ y <= x
  BY <1>1, <1>2, <1>3
<1> HIDE DEF y
<1>5. y = x
  BY <1>4
<1> QED
  BY <1>5 DEF y

-----------------------------------------------------------------------------
(* The pieces of the data *)

LEMMA ImageOK ==
  ASSUME InputsOK
  PROVE  /\ img \in ImageSizes
         /\ img.height * img.rowBytes \in Nat \ {0}
         /\ DataEnd(img) = HeaderSize + img.height * img.rowBytes
         /\ DataEnd(img) \in Nat
         /\ NumStrips(img) \in Nat \ {0}
<1>1. img \in ImageSizes
  BY FinishAssumption DEF InputsOK, ImageSizes
<1>2. img.height \in Nat \ {0} /\ img.rowBytes \in Nat \ {0}
  BY <1>1 DEF ImageSizes
<1>3. 1 * img.rowBytes <= img.height * img.rowBytes
        /\ img.height * img.rowBytes \in Nat
  BY <1>2, LessTimes
<1>4. NumStrips(img) \in Nat \ {0}
  BY <1>1, StripHeights
<1> QED
  BY <1>1, <1>2, <1>3, <1>4, GeometryAssumption DEF DataEnd

(* Every strip lies within the data and has a positive length. *)
LEMMA StripPlaces ==
  ASSUME InputsOK, NEW s \in 0 .. NumStrips(img) - 1
  PROVE  /\ StripLen(s) \in Nat \ {0} /\ StripBegin(s) \in Nat
         /\ StripBegin(s) + StripLen(s) <= DataEnd(img)
         /\ s = NumStrips(img) - 1 => StripBegin(s) + StripLen(s) = DataEnd(img)
         /\ s = 0 => StripBegin(s) = 0 /\ HeaderSize <= StripLen(s)
<1> DEFINE lo == LogicalOffset(img, s)
           ll == LogicalLen(img, s)
           hw == img.height * img.rowBytes
<1>1. /\ lo \in Nat /\ ll \in Nat \ {0} /\ lo + ll <= hw
      /\ s = NumStrips(img) - 1 => lo + ll = hw
      /\ s = 0 => lo = 0
  BY ImageOK, StripsFollow
<1>2. DataEnd(img) = HeaderSize + hw /\ hw \in Nat
  BY ImageOK
<1>3. StripLen(s) = ll + (IF s = 0 THEN HeaderSize ELSE 0)
  BY DEF StripLen
<1>4. StripBegin(s) = IF s = 0 THEN 0 ELSE HeaderSize + lo
  BY DEF StripBegin, StripOffset
<1> HIDE DEF lo, ll, hw
<1>5. HeaderSize \in Nat
  BY GeometryAssumption
<1>6. CASE s = 0
  BY <1>1, <1>2, <1>3, <1>4, <1>5, <1>6
<1>7. CASE s # 0
  BY <1>1, <1>2, <1>3, <1>4, <1>5, <1>7
<1> QED
  BY <1>6, <1>7

(* The pieces have an end; the first holds the header, the last reaches    *)
(* the end of the data.                                                    *)
LEMMA PieceEnds ==
  ASSUME InputsOK
  PROVE  /\ 0 \in Pieces
         /\ \A p \in Pieces : PieceEnd(p) \in Nat
         /\ HeaderSize <= PieceEnd(0)
         /\ \E p \in Pieces : DataEnd(img) <= PieceEnd(p)
         /\ \E b \in Nat : \A p \in Pieces : PieceEnd(p) <= b
<1>1. /\ HeaderSize \in Nat /\ WRTSIZE \in Nat \ {0} /\ HeaderSize <= WRTSIZE
      /\ DataEnd(img) \in Nat /\ HeaderSize <= DataEnd(img) /\ DataEnd(img) > 0
      /\ NumStrips(img) \in Nat \ {0}
  BY GeometryAssumption, ChunkHoldsHeader, ImageOK
<1>2. CASE mode.chunked
  <2> DEFINE c == CeilDiv(DataEnd(img), WRTSIZE)
             w == WRTSIZE
             e == DataEnd(img)
  <2>1. Pieces = 0 .. c - 1
    BY <1>2 DEF Pieces
  <2>2. c \in Nat /\ c > 0 /\ e <= w * c
    <3>1. e \in Nat /\ e > 0 /\ w \in Nat /\ w > 0 /\ c = CeilDiv(e, w)
      BY <1>1
    <3> HIDE DEF w, e, c
    <3> QED
      BY <3>1, CeilDivIs
  <2>3. \A p : PieceEnd(p) = IF mode.direct THEN (p + 1) * w
                             ELSE IF (p + 1) * w < e THEN (p + 1) * w ELSE e
    BY <1>2 DEF PieceEnd, LesserOf
  <2> HIDE DEF c, w, e
  <2>4. w \in Nat /\ w > 0 /\ e \in Nat /\ HeaderSize <= e /\ HeaderSize <= w
          /\ HeaderSize \in Nat
    BY <1>1 DEF w, e
  <2>5. ASSUME NEW p \in 0 .. c - 1
        PROVE  (p + 1) * w \in Nat /\ (p + 1) * w <= c * w /\ c * w \in Nat
    BY <2>2, <2>4, LessTimes
  <2>6. c * w = w * c /\ c * w \in Nat /\ (c - 1 + 1) * w = c * w
          /\ (0 + 1) * w = w
    BY <2>2, <2>4
  <2>7. c - 1 \in 0 .. c - 1 /\ 0 \in 0 .. c - 1
    BY <2>2
  <2>8. \A p \in 0 .. c - 1 : PieceEnd(p) \in Nat /\ PieceEnd(p) <= c * w
    BY <2>2, <2>3, <2>4, <2>5, <2>6
  <2>9. HeaderSize <= PieceEnd(0)
    BY <2>3, <2>4, <2>6
  <2>10. e <= PieceEnd(c - 1)
    BY <2>2, <2>3, <2>4, <2>6
  <2> QED
    BY <2>1, <2>6, <2>7, <2>8, <2>9, <2>10 DEF e
<1>3. CASE ~mode.chunked
  <2> DEFINE n == NumStrips(img)
  <2>1. Pieces = 0 .. n - 1
    BY <1>3 DEF Pieces
  <2>2. \A p : PieceEnd(p) = StripBegin(p) + bufLen[p]
    BY <1>3 DEF PieceEnd
  <2>3. \A s \in Pieces : bufLen[s] \in { StripLen(r) : r \in Pieces }
                           /\ StripLen(s) <= bufLen[s]
    BY <1>3 DEF InputsOK
  <2>4. n \in Nat \ {0} /\ n - 1 \in Pieces /\ 0 \in Pieces
    BY <1>1, <2>1
  <2>5. ASSUME NEW s \in Pieces
        PROVE  /\ StripLen(s) \in Nat \ {0} /\ StripBegin(s) \in Nat
               /\ StripBegin(s) + StripLen(s) <= DataEnd(img)
    BY <2>1, StripPlaces
  <2>6. /\ StripBegin(n - 1) + StripLen(n - 1) = DataEnd(img)
        /\ StripBegin(0) = 0 /\ HeaderSize <= StripLen(0)
    BY <2>1, <2>4, StripPlaces
  <2> HIDE DEF n
  <2>7. ASSUME NEW s \in Pieces
        PROVE  /\ bufLen[s] \in Nat /\ bufLen[s] <= DataEnd(img)
               /\ StripLen(s) <= bufLen[s]
    <3>1. PICK r \in Pieces : bufLen[s] = StripLen(r)
      BY <2>3
    <3> QED
      BY <3>1, <2>3, <2>5, <1>1
  <2>8. ASSUME NEW s \in Pieces
        PROVE  PieceEnd(s) \in Nat /\ PieceEnd(s) <= DataEnd(img) + DataEnd(img)
    BY <2>2, <2>5, <2>7, <1>1
  <2>9. HeaderSize <= PieceEnd(0)
    BY <2>2, <2>4, <2>5, <2>6, <2>7, <1>1
  <2>10. DataEnd(img) <= PieceEnd(n - 1)
    BY <2>2, <2>4, <2>5, <2>6, <2>7, <1>1
  <2>11. DataEnd(img) + DataEnd(img) \in Nat
    BY <1>1
  <2> QED
    BY <2>4, <2>8, <2>9, <2>10, <2>11
<1> QED
  BY <1>2, <1>3

-----------------------------------------------------------------------------
(* The end of the pieces that have arrived *)

LEMMA EndsBound ==
  ASSUME InputsOK
  PROVE  \E b \in Nat : \A S \in SUBSET Pieces :
           {0} \cup { PieceEnd(p) : p \in S } \in SUBSET (0 .. b)
<1>1. PICK b \in Nat : \A p \in Pieces : PieceEnd(p) <= b
  BY PieceEnds
<1>2. \A p \in Pieces : PieceEnd(p) \in 0 .. b
  BY <1>1, PieceEnds
<1> QED
  BY <1>2

LEMMA EndIs ==
  ASSUME InputsOK, NEW S \in SUBSET Pieces
  PROVE  EndOfAll(S) \in Nat /\ \A p \in S : PieceEnd(p) <= EndOfAll(S)
<1> DEFINE E == {0} \cup { PieceEnd(p) : p \in S }
<1>1. PICK b \in Nat : E \in SUBSET (0 .. b)
  BY EndsBound
<1>2. E # {} /\ \A p \in S : PieceEnd(p) \in E
  OBVIOUS
<1>3. EndOfAll(S) = LargestOf(E)
  BY DEF EndOfAll
<1> HIDE DEF E
<1>4. LargestOf(E) \in E /\ \A y \in E : y <= LargestOf(E)
  BY <1>1, <1>2, LargestIs
<1>5. LargestOf(E) \in Nat
  <2>1. E \subseteq Nat
    BY <1>1
  <2> QED
    BY <2>1, <1>4
<1>6. ASSUME NEW p \in S
      PROVE  PieceEnd(p) <= LargestOf(E)
  BY <1>2, <1>4
<1> QED
  BY <1>3, <1>5, <1>6

LEMMA EndGrows ==
  ASSUME InputsOK, NEW S \in SUBSET Pieces, NEW p \in Pieces
  PROVE  EndOfAll(S \cup {p}) = GreaterOf(EndOfAll(S), PieceEnd(p))
<1> DEFINE E == {0} \cup { PieceEnd(q) : q \in S }
           F == {0} \cup { PieceEnd(q) : q \in S \cup {p} }
           e == PieceEnd(p)
           x == LargestOf(E)
<1>1. PICK b \in Nat : E \in SUBSET (0 .. b) /\ F \in SUBSET (0 .. b)
  BY EndsBound
<1>2. F = E \cup {e} /\ E # {}
  OBVIOUS
<1>3. EndOfAll(S) = x /\ EndOfAll(S \cup {p}) = LargestOf(F)
  BY DEF EndOfAll
<1> HIDE DEF E, F, e
<1>4. x \in E /\ \A y \in E : y <= x
  BY <1>1, <1>2, LargestIs
<1> HIDE DEF x
<1>5. x \in Nat /\ e \in Nat
  BY <1>1, <1>2, <1>4
<1>6. GreaterOf(x, e) \in F /\ \A y \in F : y <= GreaterOf(x, e)
  <2>1. GreaterOf(x, e) \in {x, e} /\ x <= GreaterOf(x, e) /\ e <= GreaterOf(x, e)
    BY <1>5 DEF GreaterOf
  <2>2. GreaterOf(x, e) \in F
    BY <2>1, <1>2, <1>4
  <2>3. ASSUME NEW y \in F
        PROVE  y <= GreaterOf(x, e)
    <3>1. CASE y \in E
      <4>1. y <= x /\ y \in Int /\ GreaterOf(x, e) \in Int
        BY <3>1, <1>1, <1>4, <1>5, <2>1
      <4> QED
        BY <4>1, <2>1, <1>5
    <3>2. CASE y = e
      BY <3>2, <2>1
    <3> QED
      BY <3>1, <3>2, <1>2
  <2> QED
    BY <2>2, <2>3
<1>7. LargestOf(F) = GreaterOf(x, e)
  BY <1>1, <1>6, LargestOnly
<1> QED
  BY <1>3, <1>7 DEF e

(* The directory comes behind all pixels. *)
LEMMA PlaceIs ==
  ASSUME InputsOK
  PROVE  /\ DirectoryPlace \in Nat \ {0} /\ HeaderSize <= DirectoryPlace
         /\ DataEnd(img) <= DirectoryPlace
         /\ \A p \in Pieces : PieceEnd(p) <= DirectoryPlace
<1> DEFINE e == EndOfAll(Pieces)
<1>1. e \in Nat /\ \A p \in Pieces : PieceEnd(p) <= e
  BY EndIs
<1>2. DirectoryPlace \in Nat /\ e <= DirectoryPlace
  BY <1>1, RoundsUp DEF DirectoryPlace
<1> HIDE DEF e
<1>3. PICK q \in Pieces : DataEnd(img) <= PieceEnd(q)
  BY PieceEnds
<1>4. /\ 0 \in Pieces /\ HeaderSize <= PieceEnd(0)
      /\ \A p \in Pieces : PieceEnd(p) \in Nat
      /\ DataEnd(img) \in Nat /\ HeaderSize \in Nat /\ 0 < HeaderSize
  BY PieceEnds, ImageOK, GeometryAssumption
<1>5. \A p \in Pieces : PieceEnd(p) <= DirectoryPlace
  BY <1>1, <1>2, <1>4
<1>6. HeaderSize <= DirectoryPlace /\ DataEnd(img) <= DirectoryPlace
  BY <1>2, <1>3, <1>4, <1>5
<1> QED
  BY <1>2, <1>4, <1>5, <1>6

-----------------------------------------------------------------------------
(* The image, the way it is written and the buffers do not change. *)

LEMMA InputsKept ==
  ASSUME UNCHANGED inputVars
  PROVE  /\ InputsOK <=> InputsOK'
         /\ Pieces' = Pieces /\ ArraysLen' = ArraysLen
         /\ \A p : PieceEnd(p)' = PieceEnd(p)
         /\ \A S : EndOfAll(S)' = EndOfAll(S)
         /\ DirectoryPlace' = DirectoryPlace
         /\ Fits <=> Fits'
         /\ maxSimulatedWrites' = maxSimulatedWrites
<1>1. img' = img /\ mode' = mode /\ bufLen' = bufLen
  BY DEF inputVars
<1>2. Pieces' = Pieces /\ ArraysLen' = ArraysLen
        /\ maxSimulatedWrites' = maxSimulatedWrites
  BY <1>1 DEF Pieces, ArraysLen, maxSimulatedWrites
<1>3. \A s : StripLen(s)' = StripLen(s) /\ StripBegin(s)' = StripBegin(s)
  BY <1>1 DEF StripLen, StripBegin
<1>4. \A p : PieceEnd(p)' = PieceEnd(p)
  BY <1>1, <1>3 DEF PieceEnd
<1>5. \A S : EndOfAll(S)' = EndOfAll(S)
  BY <1>4 DEF EndOfAll
<1>6. DirectoryPlace' = DirectoryPlace
  BY <1>2, <1>4 DEF DirectoryPlace, EndOfAll
<1>7. Fits <=> Fits'
  BY <1>2, <1>6 DEF Fits
<1>8. InputsOK <=> InputsOK'
  BY <1>1, <1>2, <1>3 DEF InputsOK
<1> QED
  BY <1>2, <1>4, <1>5, <1>6, <1>7, <1>8

LEMMA NextKeepsInputs ==
  ASSUME [Next]_vars
  PROVE  UNCHANGED inputVars
BY DEF Next, EncodeFinish, Land, LandShort, Refuse, Reopen, ReopenFails, ClientOpen, WriteStrip,
       WriteStripFails, EndStrips, CloseRings, LinkDirectory, WriteArrays,
       WriteDirectory, FlushFails, CloseFile, FsyncFails, Delete, Ended, vars

-----------------------------------------------------------------------------
(* The simulation *)

Late == {"drain", "link", "arrays", "directory", "close"}

(* What a write of libtiff does once the simulation has ended. *)
LEMMA RealWrite ==
  ASSUME NEW place, NEW n, NEW part, ~simulateWrite,
         SeekAndWrite(place, n, part)
  PROVE  /\ extents' = extents \cup {[at |-> place, len |-> n, part |-> part]}
         /\ size' = GreaterOf(size, place + n)
         /\ link' = IF part = "link" THEN diroff' % TiffLimit ELSE link
         /\ UNCHANGED <<pieceVars, fd, simVars>>
BY DEF SeekAndWrite, Simulate

LEMMA SimulateIs ==
  ASSUME NEW n, Simulate(n)
  PROVE  /\ simulateWrite' \in BOOLEAN
         /\ simulateWrite' <=> ~(off # 0 /\ numSimulatedWrites' = maxSimulatedWrites)
<1>1. simulateWrite' = ~(off # 0 /\ numSimulatedWrites' = maxSimulatedWrites)
  BY DEF Simulate
<1> QED
  BY <1>1, Zenon

LEMMA SimQuiet ==
  ASSUME InputsOK, SimInv, UNCHANGED inputVars, UNCHANGED <<simVars, stripOffset>>,
         \/ stage' = stage
         \/ stage' \in Ends
         \/ stage \in Late /\ stage' \in Late
         \/ stage = "strips" /\ NextStrip = NumStrips(img) /\ stage' = "drain"
  PROVE  SimInv'
<1>1. /\ img' = img /\ simulateWrite' = simulateWrite /\ off' = off
      /\ numSimulatedWrites' = numSimulatedWrites /\ stripOffset' = stripOffset
  BY DEF inputVars, simVars
<1>2. StripOffsetsMatch' /\ NextStrip' = NextStrip
        /\ maxSimulatedWrites' = maxSimulatedWrites
  BY <1>1 DEF SimInv, StripOffsetsMatch, NextStrip, maxSimulatedWrites
<1>3. /\ simulateWrite \in BOOLEAN
      /\ numSimulatedWrites \in 0 .. maxSimulatedWrites /\ off \in Nat
      /\ stripOffset \in Seq(Nat) /\ Len(stripOffset) <= NumStrips(img)
  BY DEF SimInv
<1>4. NumStrips(img) \in Nat
  BY ImageOK
<1>5. CASE stage' = stage
  BY <1>1, <1>2, <1>3, <1>5 DEF SimInv
<1>6. CASE stage' \in Ends
  BY <1>1, <1>2, <1>3, <1>6 DEF SimInv, Stages, Ends
<1>7. CASE stage \in Late /\ stage' \in Late
  BY <1>1, <1>2, <1>3, <1>7 DEF SimInv, Stages, Late
<1>8. CASE stage = "strips" /\ NextStrip = NumStrips(img) /\ stage' = "drain"
  <2>1. ~simulateWrite
    BY <1>4, <1>8 DEF SimInv
  <2> QED
    BY <1>1, <1>2, <1>3, <1>8, <2>1 DEF SimInv, Stages
<1> QED
  BY <1>5, <1>6, <1>7, <1>8

LEMMA SimReopen ==
  ASSUME InputsOK, SimInv, Reopen
  PROVE  SimInv'
<1>1. /\ stage = "reopen" /\ stage' = "open" /\ simulateWrite' = TRUE
      /\ img' = img /\ off' = off /\ numSimulatedWrites' = numSimulatedWrites
      /\ stripOffset' = stripOffset
  BY DEF Reopen, inputVars, tiffVars
<1>2. StripOffsetsMatch' /\ maxSimulatedWrites' = maxSimulatedWrites
  BY <1>1 DEF SimInv, StripOffsetsMatch, maxSimulatedWrites
<1> QED
  BY <1>1, <1>2 DEF SimInv, Stages

(* The header moves the offset, and is not counted. *)
LEMMA SimClientOpen ==
  ASSUME InputsOK, SimInv, ClientOpen
  PROVE  SimInv'
<1>1. /\ stage = "open" /\ stage' = "strips" /\ img' = img
      /\ stripOffset' = stripOffset
      /\ SeekAndWrite(Seek(0), HeaderSize, "header")
  BY DEF ClientOpen, inputVars, tiffVars
<1>2. simulateWrite /\ off = 0 /\ numSimulatedWrites = 0 /\ stripOffset = <<>>
  BY <1>1 DEF SimInv
<1>3. Simulate(HeaderSize)
  BY <1>1, <1>2 DEF SeekAndWrite
<1>4. numSimulatedWrites' = 0 /\ off' = HeaderSize
  <2>1. HeaderSize \in Nat
    BY GeometryAssumption
  <2>2. /\ numSimulatedWrites' = numSimulatedWrites + (IF off # 0 THEN 1 ELSE 0)
        /\ off' = off + HeaderSize
    BY <1>3 DEF Simulate
  <2> QED
    BY <1>2, <2>1, <2>2
<1>9. simulateWrite' /\ simulateWrite' \in BOOLEAN
  BY <1>2, <1>3, SimulateIs
<1>5. NumStrips(img) \in Nat \ {0} /\ LogicalOffset(img, 0) = 0
        /\ HeaderSize \in Nat
  BY ImageOK, StripsFollow, GeometryAssumption
<1>6. Len(<<>>) = 0 /\ <<>> \in Seq(Nat) /\ DOMAIN <<>> = {}
  OBVIOUS
<1>7. StripOffsetsMatch' /\ NextStrip' = 0 /\ maxSimulatedWrites' = NumStrips(img)
  BY <1>1, <1>2, <1>6 DEF StripOffsetsMatch, NextStrip, maxSimulatedWrites
<1>8. off' = HeaderSize + LogicalOffset(img, 0)
  BY <1>4, <1>5
<1> QED
  BY <1>1, <1>2, <1>4, <1>5, <1>6, <1>7, <1>8, <1>9 DEF SimInv, Stages

(* Every strip is counted, and moves the offset to that of the next. *)
LEMMA SimWriteStrip ==
  ASSUME InputsOK, SimInv, WriteStrip
  PROVE  SimInv'
<1> DEFINE k == NextStrip
           n == NumStrips(img)
           len == LogicalLen(img, k)
<1>1. /\ stage = "strips" /\ stage' = "strips" /\ k < n /\ img' = img
      /\ Simulate(len) /\ stripOffset' = Append(stripOffset, Seek(size))
  BY DEF WriteStrip, inputVars
<1>2. /\ numSimulatedWrites = k /\ simulateWrite /\ off \in Nat
      /\ off = HeaderSize + LogicalOffset(img, k)
      /\ stripOffset \in Seq(Nat) /\ StripOffsetsMatch
  BY <1>1 DEF SimInv
<1>3. k \in Nat /\ n \in Nat \ {0} /\ k = Len(stripOffset)
  BY <1>2, ImageOK DEF NextStrip
<1>4. /\ LogicalOffset(img, k) \in Nat /\ len \in Nat
      /\ k < n - 1 => LogicalOffset(img, k + 1) = LogicalOffset(img, k) + len
      /\ HeaderSize \in Nat \ {0}
  <2>1. img \in ImageSizes
    BY ImageOK
  <2>2. HeaderSize \in Nat \ {0}
    BY GeometryAssumption
  <2> HIDE DEF k
  <2> QED
    BY <1>3, <2>1, <2>2, StripsFollow
<1> HIDE DEF n, len
<1>5. off # 0
  BY <1>2, <1>4
<1>6. /\ numSimulatedWrites' = k + 1 /\ off' = off + len
      /\ simulateWrite' \in BOOLEAN /\ (simulateWrite' <=> k + 1 # n)
  <2>1. /\ numSimulatedWrites' = numSimulatedWrites + (IF off # 0 THEN 1 ELSE 0)
        /\ off' = off + len
    BY <1>1 DEF Simulate
  <2>2. numSimulatedWrites' = k + 1 /\ off' = off + len
    BY <1>2, <1>5, <2>1
  <2>3. maxSimulatedWrites = n
    BY DEF maxSimulatedWrites, n
  <2> HIDE DEF k
  <2> QED
    BY <1>1, <1>5, <2>2, <2>3, SimulateIs
<1>7. stripOffset' = Append(stripOffset, off)
  BY <1>1, <1>2 DEF Seek
<1>8. /\ stripOffset' \in Seq(Nat) /\ Len(stripOffset') = k + 1
      /\ \A i \in 1 .. k + 1 :
            stripOffset'[i] = IF i = k + 1 THEN off ELSE stripOffset[i]
      /\ DOMAIN stripOffset' = 1 .. k + 1 /\ DOMAIN stripOffset = 1 .. k
  BY <1>2, <1>3, <1>7
<1>9. StripOffsetsMatch'
  <2> SUFFICES ASSUME NEW i \in 1 .. k + 1
               PROVE  stripOffset'[i] = HeaderSize + LogicalOffset(img, i - 1)
    BY <1>1, <1>8 DEF StripOffsetsMatch
  <2>1. CASE i = k + 1
    <3>1. i - 1 = k
      BY <2>1, <1>3
    <3> QED
      BY <2>1, <3>1, <1>2, <1>8
  <2>2. CASE i # k + 1
    <3>1. i \in DOMAIN stripOffset
      BY <2>2, <1>3, <1>8
    <3> QED
      BY <2>2, <3>1, <1>2, <1>8 DEF StripOffsetsMatch
  <2> QED
    BY <2>1, <2>2
<1>10. NextStrip' = k + 1 /\ NumStrips(img)' = n /\ maxSimulatedWrites' = n
  BY <1>1, <1>8 DEF NextStrip, n, maxSimulatedWrites
<1>11. simulateWrite' <=> k + 1 < n
  BY <1>1, <1>3, <1>6 DEF n
<1>12. k + 1 < n => off' = HeaderSize + LogicalOffset(img, k + 1)
  BY <1>2, <1>3, <1>4, <1>6
<1>13. off' \in Nat /\ numSimulatedWrites' \in 0 .. n /\ k + 1 <= n
         /\ simulateWrite' \in BOOLEAN
  BY <1>1, <1>2, <1>3, <1>4, <1>6 DEF n
<1> HIDE DEF k
<1>14. /\ NextStrip' < NumStrips(img)' =>
             off' = HeaderSize + LogicalOffset(img, NextStrip)'
       /\ numSimulatedWrites' = NextStrip'
       /\ simulateWrite' <=> NextStrip' < NumStrips(img)'
  BY <1>1, <1>6, <1>10, <1>11, <1>12
<1> QED
  BY <1>1, <1>8, <1>9, <1>10, <1>13, <1>14 DEF SimInv, Stages

LEMMA SimStep ==
  ASSUME InputsOK, SimInv, [Next]_vars
  PROVE  SimInv'
<1>0. UNCHANGED inputVars
  BY NextKeepsInputs
<1>1. ASSUME NEW p \in Pieces, Land(p) \/ LandShort(p) \/ Refuse(p)
      PROVE  SimInv'
  BY <1>1, <1>0, SimQuiet DEF Land, LandShort, Refuse, tiffVars
<1>2. CASE ReopenFails
  BY <1>2, <1>0, SimQuiet DEF ReopenFails, tiffVars, Ends
<1>3. CASE WriteStripFails
  BY <1>3, <1>0, SimQuiet DEF WriteStripFails, tiffVars, Ends
<1>4. CASE EndStrips
  BY <1>4, <1>0, SimQuiet DEF EndStrips, tiffVars
<1>5. CASE CloseRings
  BY <1>5, <1>0, SimQuiet DEF CloseRings, tiffVars, Late
<1>6. CASE LinkDirectory
  <2>1. stage = "link" /\ ~simulateWrite /\ stage' \in {"close", "arrays"}
          /\ stripOffset' = stripOffset
    BY <1>6 DEF LinkDirectory, SimInv
  <2>2. UNCHANGED simVars
    BY <1>6, <2>1, RealWrite DEF LinkDirectory
  <2> QED
    BY <1>0, <2>1, <2>2, SimQuiet DEF Late
<1>7. CASE WriteArrays
  <2>1. stage = "arrays" /\ ~simulateWrite /\ stage' \in {"close", "directory"}
          /\ stripOffset' = stripOffset
    BY <1>7 DEF WriteArrays, SimInv
  <2>2. UNCHANGED simVars
    BY <1>7, <2>1, RealWrite DEF WriteArrays
  <2> QED
    BY <1>0, <2>1, <2>2, SimQuiet DEF Late
<1>8. CASE WriteDirectory
  <2>1. stage = "directory" /\ ~simulateWrite /\ stage' = "close"
          /\ stripOffset' = stripOffset
    BY <1>8 DEF WriteDirectory, SimInv, tiffVars
  <2>2. UNCHANGED simVars
    BY <1>8, <2>1, RealWrite DEF WriteDirectory
  <2> QED
    BY <1>0, <2>1, <2>2, SimQuiet DEF Late
<1>9. CASE FlushFails
  BY <1>9, <1>0, SimQuiet DEF FlushFails, Late
<1>10. CASE CloseFile
  BY <1>10, <1>0, SimQuiet DEF CloseFile, Ends
<1>11. CASE Delete \/ FsyncFails
  BY <1>11, <1>0, SimQuiet DEF Delete, FsyncFails, tiffVars, Ends
<1>12. CASE UNCHANGED vars
  BY <1>12, <1>0, SimQuiet DEF vars, tiffVars
<1> QED
  BY <1>1, <1>2, <1>3, <1>4, <1>5, <1>6, <1>7, <1>8, <1>9, <1>10, <1>11, <1>12,
     SimReopen, SimClientOpen, SimWriteStrip
     DEF Next, EncodeFinish, Ended

-----------------------------------------------------------------------------
(* The place of the directory *)

(* What failed stays failed. *)
LEMMA CleanBefore ==
  ASSUME [Next]_vars
  PROVE  Clean' => Clean
<1>1. ASSUME NEW p \in Pieces, Land(p) \/ LandShort(p) \/ Refuse(p)
      PROVE  short \subseteq short' /\ refused \subseteq refused'
  BY <1>1 DEF Land, LandShort, Refuse
<1>2. ASSUME NEW place, NEW n, NEW part, SeekAndWrite(place, n, part)
      PROVE  short' = short /\ refused' = refused
  BY <1>2 DEF SeekAndWrite, Simulate, fileVars, pieceVars
<1>3. CASE ClientOpen \/ LinkDirectory \/ WriteDirectory
  BY <1>2, <1>3 DEF ClientOpen, LinkDirectory, WriteDirectory, Clean
<1>4. CASE WriteArrays
  <2>1. UNCHANGED fileVars \/ SeekAndWrite(ArraysAt, ArraysLen, "arrays")
    BY <1>4 DEF WriteArrays
  <2> QED
    BY <1>2, <2>1 DEF fileVars, pieceVars, Clean
<1>5. CASE Reopen \/ ReopenFails \/ WriteStripFails \/ EndStrips \/ CloseRings
             \/ FlushFails \/ CloseFile \/ FsyncFails \/ Delete \/ UNCHANGED vars
  BY <1>5 DEF Reopen, ReopenFails, WriteStripFails, EndStrips, CloseRings,
              FlushFails, CloseFile, FsyncFails, Delete, vars, fileVars,
              pieceVars, Clean
<1>6. CASE WriteStrip
  BY <1>6 DEF WriteStrip, Simulate, fileVars, pieceVars, Clean
<1>7. ASSUME NEW p \in Pieces, Land(p) \/ LandShort(p) \/ Refuse(p)
      PROVE  Clean' => Clean
  BY <1>1, <1>7 DEF Clean
<1> QED
  BY <1>3, <1>4, <1>5, <1>6, <1>7 DEF Next, EncodeFinish, Ended

(* When the rings are closed, and nothing failed, all pixels are there. *)
LEMMA AllLanded ==
  ASSUME PlaceInv, Clean, stage \in Drained
  PROVE  landed = Pieces
BY DEF PlaceInv, Clean, Outstanding

(* Steps that neither bring pieces nor write to the file. *)
LEMMA PlaceQuiet ==
  ASSUME InputsOK, PlaceInv, UNCHANGED inputVars,
         UNCHANGED <<landed, short, refused, size, link, extents, diroff>>,
         dropped' = dropped \/ ReapRings,
         fd' = fd \/ fd' = "closed" \/ fd' = "buffered",
         stage' \in Stages \ ({"reopen"} \cup Ends) => fd' = "buffered",
         stage' \in Early => stage \in Early,
         stage' \in {"arrays", "directory"} => stage' = stage,
         stage' \in Drained => stage \in Drained \/ ReapRings
  PROVE  PlaceInv'
<1>1. /\ Pieces' = Pieces /\ DirectoryPlace' = DirectoryPlace
      /\ \A p : PieceEnd(p)' = PieceEnd(p)
      /\ mode' = mode
  BY InputsKept DEF inputVars
<1>2. EndOfAll(landed)' = EndOfAll(landed)
  BY InputsKept DEF EndOfAll
<1>3. Outstanding' = Outstanding /\ (Clean' <=> Clean)
  BY <1>1 DEF Outstanding, Clean
<1>4. /\ dropped \subseteq dropped' /\ dropped' \subseteq Pieces
      /\ refused = {} => dropped' = {}
  <2>1. dropped \subseteq Pieces /\ (refused = {} => dropped = {})
    BY DEF PlaceInv
  <2>2. Outstanding \subseteq Pieces
    BY DEF Outstanding
  <2>3. CASE ReapRings
    BY <2>1, <2>2, <2>3 DEF ReapRings
  <2> QED
    BY <2>1, <2>3
<1>5. Sound' \subseteq Sound
  BY <1>1, <1>4 DEF Sound
<1>6. stage' \in Drained => Outstanding' \subseteq dropped'
  <2>1. ReapRings => Outstanding \subseteq dropped'
    BY DEF ReapRings
  <2>2. stage \in Drained => Outstanding \subseteq dropped
    BY DEF PlaceInv
  <2> QED
    BY <1>3, <1>4, <2>1, <2>2
<1>7. stage' \in Early => extents' = {} /\ diroff' = 0
        /\ (Clean' => size' = EndOfAll(landed)')
  BY <1>2, <1>3 DEF PlaceInv
<1>8. /\ \A p \in landed' : PieceEnd(p)' <= size'
      /\ stage' \in {"arrays", "directory"} \/ extents' # {} =>
           \A p \in Sound' : PieceEnd(p)' <= diroff'
  <2>1. \A p \in landed : PieceEnd(p) <= size
    BY DEF PlaceInv
  <2>2. stage \in {"arrays", "directory"} \/ extents # {} =>
          \A p \in Sound : PieceEnd(p) <= diroff
    BY DEF PlaceInv
  <2> QED
    BY <1>1, <1>5, <2>1, <2>2
<1> QED
  BY <1>1, <1>3, <1>4, <1>6, <1>7, <1>8 DEF PlaceInv

LEMMA PieceBegins ==
  ASSUME InputsOK, NEW p \in Pieces
  PROVE  PieceBegin(p) \in Nat
<1>1. CASE mode.chunked
  <2> DEFINE c == CeilDiv(DataEnd(img), WRTSIZE)
  <2>1. p \in 0 .. c - 1 /\ PieceBegin(p) = p * WRTSIZE
    BY <1>1 DEF Pieces, PieceBegin
  <2> HIDE DEF c
  <2>2. p \in Nat /\ WRTSIZE \in Nat
    BY <2>1, GeometryAssumption
  <2> QED
    BY <2>1, <2>2, LessTimes
<1>2. CASE ~mode.chunked
  <2>1. p \in 0 .. NumStrips(img) - 1 /\ PieceBegin(p) = StripBegin(p)
    BY <1>2 DEF Pieces, PieceBegin
  <2> QED
    BY <2>1, StripPlaces
<1> QED
  BY <1>1, <1>2

(* The bytes of a write that is cut short lie within the piece. *)
LEMMA ShortEnds ==
  ASSUME InputsOK, NEW p \in Pieces, NEW n \in Cuts(p)
  PROVE  ShortEnd(p, n) \in Nat /\ ShortEnd(p, n) <= PieceEnd(p)
<1>1. n \in Nat /\ PieceBegin(p) + n < PieceEnd(p)
  BY FinishAssumption DEF Cuts
<1>2. PieceBegin(p) \in Nat /\ PieceEnd(p) \in Nat
  BY PieceBegins, PieceEnds
<1> QED
  BY <1>1, <1>2 DEF ShortEnd

LEMMA PlaceLand ==
  ASSUME InputsOK, PlaceInv, NEW p \in Pieces, Land(p)
  PROVE  PlaceInv'
<1>1. /\ p \in Outstanding /\ landed' = landed \cup {p}
      /\ size' = GreaterOf(size, PieceEnd(p))
      /\ link' = IF p = 0 THEN 0 ELSE link
      /\ UNCHANGED inputVars /\ stage' = stage /\ fd' = fd
      /\ short' = short /\ refused' = refused /\ dropped' = dropped
      /\ extents' = extents /\ diroff' = diroff
  BY DEF Land, tiffVars
<1>2. /\ Pieces' = Pieces /\ DirectoryPlace' = DirectoryPlace
      /\ \A q : PieceEnd(q)' = PieceEnd(q)
      /\ mode' = mode
  BY <1>1, InputsKept DEF inputVars
<1>3. landed \in SUBSET Pieces /\ landed' \subseteq Pieces
  BY <1>1 DEF PlaceInv
<1>4. EndOfAll(landed)' = EndOfAll(landed \cup {p})
  BY <1>1, <1>2 DEF EndOfAll
<1>5. EndOfAll(landed \cup {p}) = GreaterOf(EndOfAll(landed), PieceEnd(p))
  BY <1>3, EndGrows
<1>6. size' \in Nat /\ \A q \in landed' : PieceEnd(q) <= size'
  <2>1. size \in Nat /\ \A q \in Pieces : PieceEnd(q) \in Nat
    BY PieceEnds DEF PlaceInv
  <2>2. size' \in Nat /\ size <= size' /\ PieceEnd(p) <= size'
    BY <1>1, <2>1 DEF GreaterOf
  <2>3. \A q \in landed : PieceEnd(q) <= size
    BY DEF PlaceInv
  <2> QED
    BY <1>1, <1>3, <2>1, <2>2, <2>3
<1>7. link' \in 0 .. TiffLimit - 1
  <2>1. 0 \in 0 .. TiffLimit - 1
    BY FinishAssumption
  <2> QED
    BY <1>1, <2>1 DEF PlaceInv
<1>8. /\ (Clean' <=> Clean) /\ Sound' = Sound /\ Outstanding' \subseteq Outstanding
  BY <1>1, <1>2 DEF Clean, Sound, Outstanding
<1>9. stage \in Early /\ Clean => size' = EndOfAll(landed)'
  BY <1>1, <1>4, <1>5 DEF PlaceInv
<1>10. stage \in {"arrays", "directory"} \/ extents # {} =>
         \A q \in Sound : PieceEnd(q) <= diroff
  BY DEF PlaceInv
<1> QED
  BY <1>1, <1>2, <1>3, <1>6, <1>7, <1>8, <1>9, <1>10 DEF PlaceInv

LEMMA PlaceFailed ==
  ASSUME InputsOK, PlaceInv, NEW p \in Pieces, LandShort(p) \/ Refuse(p)
  PROVE  PlaceInv' /\ ~Clean'
<1>1. /\ mode.faulty /\ p \in Outstanding /\ landed' = landed
      /\ \/ short' = short \cup {p} /\ refused' = refused
         \/ refused' = refused \cup {p} /\ short' = short
      /\ UNCHANGED inputVars /\ stage' = stage /\ fd' = fd
      /\ dropped' = dropped /\ extents' = extents /\ diroff' = diroff
  BY DEF LandShort, Refuse, tiffVars
<1>2. /\ Pieces' = Pieces /\ \A q : PieceEnd(q)' = PieceEnd(q)
      /\ mode' = mode
  BY <1>1, InputsKept DEF inputVars
<1>3. size \in Nat /\ \A q \in Pieces : PieceEnd(q) \in Nat
  BY PieceEnds DEF PlaceInv
<1>4. size' \in Nat /\ size <= size'
  <2>1. CASE LandShort(p)
    <3>1. PICK n \in Cuts(p) : size' = GreaterOf(size, ShortEnd(p, n))
      BY <2>1 DEF LandShort
    <3>2. ShortEnd(p, n) \in Nat
      BY ShortEnds
    <3> QED
      BY <1>3, <3>1, <3>2 DEF GreaterOf
  <2>2. CASE Refuse(p)
    BY <1>3, <2>2 DEF Refuse
  <2> QED
    BY <2>1, <2>2
<1>5. link' \in 0 .. TiffLimit - 1
  <2>1. 0 \in 0 .. TiffLimit - 1
    BY FinishAssumption
  <2>2. link' \in {0, link}
    BY DEF LandShort, Refuse
  <2> QED
    BY <2>1, <2>2 DEF PlaceInv
<1>6. ~Clean' /\ Sound' \subseteq Sound /\ Outstanding' \subseteq Outstanding
        /\ short' \subseteq Pieces /\ refused' \subseteq Pieces
        /\ (refused' = {} => refused = {})
  BY <1>1, <1>2 DEF Clean, Sound, Outstanding, PlaceInv
<1>7. \A q \in landed' : PieceEnd(q)' <= size'
  <2>1. landed \subseteq Pieces /\ \A q \in landed : PieceEnd(q) <= size
    BY DEF PlaceInv
  <2> QED
    BY <1>1, <1>2, <1>3, <1>4, <2>1
<1>8. stage' \in {"arrays", "directory"} \/ extents' # {} =>
        \A q \in Sound' : PieceEnd(q)' <= diroff'
  <2>1. stage \in {"arrays", "directory"} \/ extents # {} =>
          \A q \in Sound : PieceEnd(q) <= diroff
    BY DEF PlaceInv
  <2> QED
    BY <1>1, <1>2, <1>6, <2>1
<1> QED
  BY <1>1, <1>2, <1>4, <1>5, <1>6, <1>7, <1>8 DEF PlaceInv

(* What LinkDirectory does: the place is that of DirectoryPlace, if all    *)
(* writes of pixels were done, and behind those that were done, if not.    *)
LEMMA LinkIs ==
  ASSUME InputsOK, SimInv, PlaceInv, LinkDirectory
  PROVE  /\ stage = "link" /\ extents = {} /\ fd = "buffered"
         /\ diroff' \in Nat /\ (Clean => diroff' = DirectoryPlace)
         /\ \A p \in Sound : PieceEnd(p) <= diroff'
         /\ extents' = {LinkPart}
         /\ link' = diroff' % TiffLimit
         /\ size' \in Nat /\ size <= size'
         /\ UNCHANGED <<pieceVars, fd, simVars, stripOffset, encoded>>
         /\ UNCHANGED inputVars
         /\ IF Exceeds(diroff', DirSize)
            THEN stage' = "close" /\ flushed' = FALSE
            ELSE stage' = "arrays" /\ flushed' = flushed
<1> DEFINE h == HeaderSize \div 2
<1>1. /\ stage = "link" /\ diroff' = ((Seek(size) + 1) \div 2) * 2
      /\ SeekAndWrite(h, h, "link")
      /\ IF Exceeds(diroff', DirSize)
         THEN stage' = "close" /\ flushed' = FALSE
         ELSE stage' = "arrays" /\ flushed' = flushed
      /\ UNCHANGED inputVars /\ stripOffset' = stripOffset /\ encoded' = encoded
  BY DEF LinkDirectory
<1>2. ~simulateWrite /\ extents = {} /\ fd = "buffered" /\ size \in Nat
  BY <1>1 DEF SimInv, PlaceInv, Stages, Ends, Early
<1>3. diroff' = ((size + 1) \div 2) * 2
  BY <1>1, <1>2 DEF Seek
<1>4. Clean => diroff' = DirectoryPlace
  <2>1. Clean => size = EndOfAll(landed) /\ landed = Pieces
    BY <1>1, AllLanded DEF PlaceInv, Early, Drained
  <2> QED
    BY <1>3, <2>1 DEF DirectoryPlace
<1>5. diroff' \in Nat /\ size <= diroff'
  BY <1>2, <1>3, RoundsUp
<1>6. \A p \in Sound : PieceEnd(p) <= diroff'
  <2>1. Sound \subseteq landed /\ landed \subseteq Pieces
    BY <1>1 DEF PlaceInv, Drained, Sound, Outstanding
  <2>2. \A p \in landed : PieceEnd(p) <= size
    BY DEF PlaceInv
  <2>3. \A p \in Pieces : PieceEnd(p) \in Nat
    BY PieceEnds
  <2> QED
    BY <1>2, <1>5, <2>1, <2>2, <2>3
<1>7. LinkPart = [at |-> h, len |-> h, part |-> "link"]
  BY DEF LinkPart
<1>8. h \in Nat
  BY GeometryAssumption, DivMod
<1> HIDE DEF h
<1>9. /\ extents' = extents \cup {[at |-> h, len |-> h, part |-> "link"]}
      /\ size' = GreaterOf(size, h + h)
      /\ link' = diroff' % TiffLimit
      /\ UNCHANGED <<pieceVars, fd, simVars>>
  BY <1>1, <1>2, RealWrite
<1>10. size' \in Nat /\ size <= size'
  BY <1>2, <1>8, <1>9 DEF GreaterOf
<1> QED
  BY <1>1, <1>2, <1>4, <1>5, <1>6, <1>7, <1>9, <1>10

LEMMA ArraysAre ==
  ASSUME InputsOK, SimInv, PlaceInv
  PROVE  /\ ArraysLen \in Nat /\ DirSize \in Nat \ {0} /\ DirSize % 2 \in 0 .. 1
         /\ diroff \in Nat /\ ArraysAt = diroff + DirSize + (DirSize % 2)
         /\ ArraysAt \in Nat
<1>1. DirSize \in Nat \ {0}
  BY FinishAssumption
<1>2. DirSize % 2 \in 0 .. 2 - 1
  BY <1>1, DivMod
<1>3. ArraysLen \in Nat
  BY ImageOK DEF ArraysLen
<1>4. diroff \in Nat
  BY DEF PlaceInv
<1> QED
  BY <1>1, <1>2, <1>3, <1>4 DEF ArraysAt

LEMMA ArraysWritten ==
  ASSUME InputsOK, SimInv, PlaceInv, WriteArrays
  PROVE  /\ stage = "arrays" /\ fd = "buffered"
         /\ UNCHANGED <<pieceVars, fd, simVars, stripOffset, diroff, encoded, link>>
         /\ UNCHANGED inputVars
         /\ size' \in Nat /\ size <= size'
         /\ IF Exceeds(ArraysAt, ArraysLen)
            THEN stage' = "close" /\ flushed' = FALSE /\ extents' = extents
            ELSE /\ stage' = "directory" /\ flushed' = flushed
                 /\ extents' = extents \cup
                      (IF ArraysLen = 0 THEN {} ELSE {ArraysPart})
<1>1. /\ stage = "arrays"
      /\ UNCHANGED inputVars /\ stripOffset' = stripOffset /\ diroff' = diroff
      /\ encoded' = encoded
  BY DEF WriteArrays
<1>2. ~simulateWrite /\ fd = "buffered" /\ size \in Nat
  BY <1>1 DEF SimInv, PlaceInv, Stages, Ends
<1>3. ArraysLen \in Nat /\ ArraysAt \in Nat
  BY ArraysAre
<1>4. CASE Exceeds(ArraysAt, ArraysLen)
  <2>1. stage' = "close" /\ flushed' = FALSE /\ UNCHANGED <<fileVars, simVars>>
    BY <1>4 DEF WriteArrays
  <2> QED
    BY <1>1, <1>2, <1>4, <2>1 DEF fileVars
<1>5. CASE ~Exceeds(ArraysAt, ArraysLen) /\ ArraysLen = 0
  <2>1. stage' = "directory" /\ flushed' = flushed /\ UNCHANGED <<fileVars, simVars>>
    BY <1>5 DEF WriteArrays
  <2> QED
    BY <1>1, <1>2, <1>5, <2>1 DEF fileVars
<1>6. CASE ~Exceeds(ArraysAt, ArraysLen) /\ ArraysLen # 0
  <2>1. /\ stage' = "directory" /\ flushed' = flushed
        /\ SeekAndWrite(ArraysAt, ArraysLen, "arrays")
    BY <1>6 DEF WriteArrays
  <2>2. /\ extents' = extents \cup {ArraysPart}
        /\ size' = GreaterOf(size, ArraysAt + ArraysLen)
        /\ link' = link /\ UNCHANGED <<pieceVars, fd, simVars>>
    <3>1. "arrays" # "link"
      OBVIOUS
    <3> QED
      BY <1>2, <2>1, <3>1, RealWrite DEF ArraysPart
  <2>3. size' \in Nat /\ size <= size'
    BY <1>2, <1>3, <2>2 DEF GreaterOf
  <2> QED
    BY <1>1, <1>2, <1>6, <2>1, <2>2, <2>3
<1> QED
  BY <1>4, <1>5, <1>6

LEMMA DirectoryWritten ==
  ASSUME InputsOK, SimInv, PlaceInv, WriteDirectory
  PROVE  /\ stage = "directory" /\ stage' = "close"
         /\ fd = "buffered" /\ NextStrip = NumStrips(img)
         /\ UNCHANGED <<pieceVars, fd, simVars, stripOffset, diroff, encoded,
                        flushed, link>>
         /\ UNCHANGED inputVars
         /\ size' \in Nat /\ size <= size'
         /\ extents' = extents \cup {DirectoryPart}
<1>1. /\ stage = "directory" /\ stage' = "close"
      /\ UNCHANGED inputVars /\ stripOffset' = stripOffset /\ diroff' = diroff
      /\ encoded' = encoded /\ flushed' = flushed
      /\ SeekAndWrite(diroff, DirSize, "directory")
  BY DEF WriteDirectory, tiffVars
<1>2. ~simulateWrite /\ fd = "buffered" /\ size \in Nat
        /\ NextStrip = NumStrips(img)
  BY <1>1 DEF SimInv, PlaceInv, Stages, Ends
<1>3. DirSize \in Nat /\ diroff \in Nat
  BY ArraysAre
<1>4. /\ extents' = extents \cup {DirectoryPart}
      /\ size' = GreaterOf(size, diroff + DirSize)
      /\ link' = link /\ UNCHANGED <<pieceVars, fd, simVars>>
  <2>1. "directory" # "link"
    OBVIOUS
  <2> QED
    BY <1>1, <1>2, <2>1, RealWrite DEF DirectoryPart
<1>5. size' \in Nat /\ size <= size'
  BY <1>2, <1>3, <1>4 DEF GreaterOf
<1> QED
  BY <1>1, <1>2, <1>4, <1>5

(* A write in simulation leaves the file alone. *)
LEMMA Simulated ==
  ASSUME InputsOK, SimInv, PlaceInv, ClientOpen \/ WriteStrip
  PROVE  /\ stage \in {"open", "strips"} /\ stage' = "strips"
         /\ UNCHANGED fileVars
         /\ UNCHANGED <<diroff, flushed, encoded>>
<1>1. CASE ClientOpen
  <2>1. stage = "open" /\ simulateWrite
    BY <1>1 DEF ClientOpen, SimInv
  <2> QED
    BY <1>1, <2>1 DEF ClientOpen, SeekAndWrite, Simulate, tiffVars
<1>2. CASE WriteStrip
  BY <1>2 DEF WriteStrip, Simulate
<1> QED
  BY <1>1, <1>2

(* The directory's place is kept, and has been found, when a part of it is *)
(* written.                                                                *)
LEMMA PlaceWritten ==
  ASSUME InputsOK, PlaceInv, UNCHANGED inputVars, UNCHANGED pieceVars,
         stage \in Drained, stage' \in {"arrays", "directory", "close"},
         fd = "buffered", fd' = fd, size' \in Nat, size <= size',
         diroff' \in Nat, Clean => diroff' \in {0, DirectoryPlace},
         \A p \in Sound : PieceEnd(p) <= diroff',
         link' \in 0 .. TiffLimit - 1
  PROVE  PlaceInv'
<1>1. /\ Pieces' = Pieces /\ DirectoryPlace' = DirectoryPlace
      /\ \A p : PieceEnd(p)' = PieceEnd(p)
      /\ mode' = mode
  BY InputsKept DEF inputVars
<1>2. landed' = landed /\ short' = short /\ refused' = refused
        /\ dropped' = dropped
  BY DEF pieceVars
<1>3. Outstanding' = Outstanding /\ (Clean' <=> Clean) /\ Sound' = Sound
  BY <1>1, <1>2 DEF Outstanding, Clean, Sound
<1>4. \A p \in landed' : PieceEnd(p)' <= size'
  <2>1. /\ landed \subseteq Pieces /\ size \in Nat
        /\ \A p \in landed : PieceEnd(p) <= size
    BY DEF PlaceInv
  <2>2. \A p \in Pieces : PieceEnd(p) \in Nat
    BY PieceEnds
  <2> QED
    BY <1>1, <1>2, <2>1, <2>2
<1>5. stage' \notin Early /\ Outstanding \subseteq dropped
  BY DEF PlaceInv, Early
<1>6. \A p \in Sound' : PieceEnd(p)' <= diroff'
  BY <1>1, <1>3
<1> QED
  BY <1>1, <1>2, <1>3, <1>4, <1>5, <1>6 DEF PlaceInv

LEMMA PlaceStep ==
  ASSUME InputsOK, SimInv, PlaceInv, [Next]_vars
  PROVE  PlaceInv'
<1>0. UNCHANGED inputVars
  BY NextKeepsInputs
<1>a. Drained = {"link", "arrays", "directory", "close"}
        /\ Ends = {"returned", "deleted", "aborted"}
        /\ Early = {"reopen", "open", "strips", "drain", "link"}
  BY DEF Drained, Ends, Early
<1>1. ASSUME NEW p \in Pieces, Land(p) \/ LandShort(p) \/ Refuse(p)
      PROVE  PlaceInv'
  BY <1>1, PlaceLand, PlaceFailed
<1>2. CASE Reopen
  <2>1. stage = "reopen" /\ stage' = "open" /\ fd' = "buffered"
          /\ UNCHANGED <<pieceVars, size, link, extents, diroff>>
    BY <1>2 DEF Reopen, tiffVars
  <2> QED
    BY <1>0, <1>a, <2>1, PlaceQuiet DEF pieceVars
<1>3. CASE ReopenFails
  <2>1. stage' = "returned" /\ fd' = "closed"
          /\ UNCHANGED <<pieceVars, size, link, extents, diroff>>
    BY <1>3 DEF ReopenFails, tiffVars
  <2> QED
    BY <1>0, <1>a, <2>1, PlaceQuiet DEF pieceVars
<1>4. CASE ClientOpen \/ WriteStrip
  <2>1. /\ stage \in {"open", "strips"} /\ stage' = "strips"
        /\ UNCHANGED <<pieceVars, size, link, extents, diroff>> /\ fd' = fd
    BY <1>4, Simulated DEF fileVars
  <2>2. fd = "buffered"
    BY <1>a, <2>1 DEF PlaceInv, Stages
  <2> QED
    BY <1>0, <1>a, <2>1, <2>2, PlaceQuiet DEF pieceVars
<1>5. CASE WriteStripFails \/ FsyncFails
  <2>1. stage' \in {"returned", "aborted"} /\ fd' = fd
          /\ UNCHANGED <<pieceVars, size, link, extents, diroff>>
    BY <1>5 DEF WriteStripFails, FsyncFails, tiffVars, fileVars
  <2> QED
    BY <1>0, <1>a, <2>1, PlaceQuiet DEF pieceVars
<1>6. CASE EndStrips
  <2>1. stage = "strips" /\ stage' = "drain" /\ fd' = fd
          /\ UNCHANGED <<pieceVars, size, link, extents, diroff>>
    BY <1>6 DEF EndStrips, tiffVars, fileVars
  <2>2. fd = "buffered"
    BY <1>a, <2>1 DEF PlaceInv, Stages
  <2> QED
    BY <1>0, <1>a, <2>1, <2>2, PlaceQuiet DEF pieceVars
<1>7. CASE CloseRings
  <2>1. stage = "drain" /\ stage' = "link" /\ fd' = fd /\ ReapRings
          /\ UNCHANGED <<landed, short, refused, size, link, extents, diroff>>
    BY <1>7 DEF CloseRings, tiffVars
  <2>2. fd = "buffered"
    BY <1>a, <2>1 DEF PlaceInv, Stages
  <2> QED
    BY <1>0, <1>a, <2>1, <2>2, PlaceQuiet
<1>8. CASE LinkDirectory
  <2>1. /\ stage = "link" /\ stage' \in {"close", "arrays"} /\ fd = "buffered"
        /\ diroff' \in Nat /\ (Clean => diroff' = DirectoryPlace)
        /\ \A p \in Sound : PieceEnd(p) <= diroff'
        /\ link' = diroff' % TiffLimit /\ size' \in Nat /\ size <= size'
        /\ UNCHANGED pieceVars /\ fd' = fd
    BY <1>8, LinkIs
  <2>2. link' \in 0 .. TiffLimit - 1
    <3>1. TiffLimit \in Nat /\ TiffLimit > 0
      BY FinishAssumption
    <3> QED
      BY <2>1, <3>1, DivMod
  <2> QED
    BY <1>0, <1>a, <2>1, <2>2, PlaceWritten
<1>b. /\ diroff \in Nat /\ (Clean => diroff \in {0, DirectoryPlace})
      /\ stage \in {"arrays", "directory"} \/ extents # {} =>
           \A p \in Sound : PieceEnd(p) <= diroff
      /\ link \in 0 .. TiffLimit - 1
  BY DEF PlaceInv
<1>9. CASE WriteArrays
  <2>1. /\ stage = "arrays" /\ stage' \in {"close", "directory"}
        /\ fd = "buffered" /\ diroff' = diroff
        /\ link' = link /\ size' \in Nat /\ size <= size'
        /\ UNCHANGED pieceVars /\ fd' = fd
    BY <1>9, ArraysWritten
  <2> QED
    BY <1>0, <1>a, <1>b, <2>1, PlaceWritten
<1>10. CASE WriteDirectory
  <2>1. /\ stage = "directory" /\ stage' = "close"
        /\ fd = "buffered" /\ diroff' = diroff
        /\ link' = link /\ size' \in Nat /\ size <= size'
        /\ UNCHANGED pieceVars /\ fd' = fd
    BY <1>10, DirectoryWritten
  <2> QED
    BY <1>0, <1>a, <1>b, <2>1, PlaceWritten
<1>11. CASE FlushFails
  <2>1. stage \in {"link", "arrays", "directory"} /\ stage' = "close" /\ fd' = fd
          /\ UNCHANGED <<pieceVars, size, link, extents, diroff>>
    BY <1>11 DEF FlushFails, fileVars
  <2>2. fd = "buffered"
    BY <1>a, <2>1 DEF PlaceInv, Stages
  <2> QED
    BY <1>0, <1>a, <2>1, <2>2, PlaceQuiet DEF pieceVars
<1>12. CASE CloseFile
  <2>1. stage' = "returned" /\ fd' = "closed"
          /\ UNCHANGED <<pieceVars, size, link, extents, diroff>>
    BY <1>12 DEF CloseFile
  <2> QED
    BY <1>0, <1>a, <2>1, PlaceQuiet DEF pieceVars
<1>13. CASE Delete
  <2>1. stage' = "deleted" /\ fd' = "closed" /\ ReapRings
          /\ UNCHANGED <<landed, short, refused, size, link, extents, diroff>>
    BY <1>13 DEF Delete, tiffVars
  <2> QED
    BY <1>0, <1>a, <2>1, PlaceQuiet
<1>14. CASE UNCHANGED vars
  <2>1. stage' = stage /\ fd' = fd
          /\ UNCHANGED <<pieceVars, size, link, extents, diroff>>
    BY <1>14 DEF vars, fileVars, tiffVars
  <2>2. stage \in Stages \ ({"reopen"} \cup Ends) => fd = "buffered"
    BY DEF PlaceInv
  <2> QED
    BY <1>0, <2>1, <2>2, PlaceQuiet DEF pieceVars
<1> QED
  BY <1>1, <1>2, <1>3, <1>4, <1>5, <1>6, <1>7, <1>8, <1>9, <1>10, <1>11, <1>12,
     <1>13, <1>14 DEF Next, EncodeFinish, Ended

-----------------------------------------------------------------------------
(* What is written of the directory *)

LEMMA PartsKept ==
  ASSUME UNCHANGED inputVars, diroff' = diroff
  PROVE  ArrayedParts' = ArrayedParts /\ AllParts' = AllParts
           /\ DirectoryPart' = DirectoryPart
<1>1. img' = img
  BY DEF inputVars
<1> QED
  BY <1>1 DEF ArrayedParts, AllParts, LinkPart, ArraysPart, DirectoryPart,
              ArraysAt, ArraysLen

LEMMA DirectoryQuiet ==
  ASSUME InputsOK, DirectoryInv, UNCHANGED inputVars,
         UNCHANGED <<extents, diroff, flushed, encoded>>, Clean' => Clean,
         ~Fits \/ mode.faulty \/ stage' \notin {"returned", "deleted"}
           \/ stage \in {"returned", "deleted"},
         stage' \in {"arrays", "directory", "close"} =>
           stage' = stage /\ (Clean' => link' = link),
         stage' \notin {"close"} \cup Ends => stage \notin {"close"} \cup Ends,
         stage \in Ends => stage' \in Ends,
         Clean' /\ Written' => Written /\ link' = link /\ landed' = landed
                                 /\ stripOffset' = stripOffset
  PROVE  DirectoryInv'
<1>1. /\ DirectoryPlace' = DirectoryPlace /\ (Fits <=> Fits')
      /\ AllParts' = AllParts /\ ArrayedParts' = ArrayedParts
      /\ Pieces' = Pieces
  BY InputsKept, PartsKept
<1>2. img' = img /\ mode' = mode
  BY DEF inputVars
<1>3. LinkPart' = LinkPart
  BY DEF LinkPart
<1>4. /\ flushed \in BOOLEAN /\ encoded \in BOOLEAN
      /\ stage \notin {"close"} \cup Ends => flushed
      /\ encoded => stage \in Ends
      /\ extents \subseteq AllParts
      /\ Clean /\ extents # {} => diroff = DirectoryPlace
  BY DEF DirectoryInv
<1>5. Clean' /\ Written' =>
        /\ link' = diroff' /\ diroff' = DirectoryPlace' /\ Fits'
        /\ extents' = AllParts'
        /\ landed' = Pieces' /\ NextStrip' = NumStrips(img)'
  <2> SUFFICES ASSUME Clean', Written'
               PROVE  /\ link' = diroff' /\ diroff' = DirectoryPlace' /\ Fits'
                      /\ extents' = AllParts'
                      /\ landed' = Pieces' /\ NextStrip' = NumStrips(img)'
    OBVIOUS
  <2>1. /\ link = diroff /\ diroff = DirectoryPlace /\ Fits
        /\ extents = AllParts /\ landed = Pieces /\ NextStrip = NumStrips(img)
    BY DEF DirectoryInv
  <2> QED
    BY <1>1, <1>2, <2>1 DEF NextStrip
<1>6. Clean' /\ stage' = "arrays" =>
        link' = diroff' /\ diroff' = DirectoryPlace' /\ extents' = {LinkPart'}
  BY <1>1, <1>3 DEF DirectoryInv
<1>7. Clean' /\ stage' = "directory" =>
        /\ link' = diroff' /\ diroff' = DirectoryPlace' /\ Fits'
        /\ extents' = ArrayedParts'
  BY <1>1 DEF DirectoryInv
<1>8. Fits' /\ ~mode'.faulty =>
        /\ flushed'
        /\ stage' \in {"returned", "deleted"} => encoded'
  BY <1>1, <1>2 DEF DirectoryInv
<1> QED
  BY <1>1, <1>4, <1>5, <1>6, <1>7, <1>8 DEF DirectoryInv

LEMMA FitsMeans ==
  ASSUME InputsOK
  PROVE  /\ Fits <=> DirectoryPlace + DirSize + (DirSize % 2) + ArraysLen < TiffLimit
         /\ Fits => DirectoryPlace + DirSize < TiffLimit
         /\ Fits => DataEnd(img) < TiffLimit
         /\ TiffLimit \in Nat
<1>1. /\ DirectoryPlace \in Nat /\ DataEnd(img) <= DirectoryPlace
      /\ DataEnd(img) \in Nat
  BY PlaceIs, ImageOK
<1>2. DirSize \in Nat /\ DirSize > 0 /\ TiffLimit \in Nat
  BY FinishAssumption
<1>3. DirSize % 2 \in 0 .. 2 - 1
  BY <1>2, DivMod
<1>4. ArraysLen \in Nat
  BY ImageOK DEF ArraysLen
<1> QED
  BY <1>1, <1>2, <1>3, <1>4 DEF Fits

(* A strip that exceeds the limit is pixel data that does. *)
LEMMA StripExceeds ==
  ASSUME InputsOK, SimInv, WriteStripFails
  PROVE  ~Fits
<1> DEFINE k == NextStrip
           len == LogicalLen(img, k)
<1>1. stage = "strips" /\ k < NumStrips(img)
        /\ (Exceeds(Seek(size), len) \/ ~simulateWrite)
  BY DEF WriteStripFails
<1>2. /\ simulateWrite /\ off = HeaderSize + LogicalOffset(img, k)
      /\ k \in Nat /\ off \in Nat
  BY <1>1 DEF SimInv, NextStrip
<1>3. Exceeds(off, len)
  BY <1>1, <1>2 DEF Seek
<1> HIDE DEF k
<1> DEFINE hw == img.height * img.rowBytes
<1>4. len \in Nat /\ LogicalOffset(img, k) \in Nat
        /\ LogicalOffset(img, k) + len <= hw
  BY <1>1, <1>2, ImageOK, StripsFollow
<1>5. DataEnd(img) = HeaderSize + hw /\ hw \in Nat /\ HeaderSize \in Nat
  BY ImageOK, GeometryAssumption
<1> HIDE DEF len, hw
<1>6. TiffLimit <= off + len
  BY <1>2, <1>3, <1>4, ExceedsIs
<1>7. TiffLimit <= DataEnd(img) /\ DataEnd(img) \in Nat
  <2>1. TiffLimit \in Nat
    BY FitsMeans
  <2> QED
    BY <1>2, <1>4, <1>5, <1>6, <2>1
<1> QED
  BY <1>7, FitsMeans

LEMMA DirectoryLink ==
  ASSUME InputsOK, SimInv, PlaceInv, DirectoryInv, LinkDirectory
  PROVE  DirectoryInv'
<1>1. /\ stage = "link" /\ extents = {}
      /\ diroff' \in Nat /\ (Clean => diroff' = DirectoryPlace)
      /\ extents' = {LinkPart}
      /\ link' = diroff' % TiffLimit
      /\ encoded' = encoded /\ UNCHANGED pieceVars
      /\ UNCHANGED inputVars
      /\ IF Exceeds(diroff', DirSize)
         THEN stage' = "close" /\ flushed' = FALSE
         ELSE stage' = "arrays" /\ flushed' = flushed
  BY LinkIs
<1>2. /\ DirectoryPlace' = DirectoryPlace /\ (Fits <=> Fits')
      /\ mode' = mode /\ (Clean' <=> Clean)
  BY <1>1, InputsKept DEF inputVars, pieceVars, Clean
<1>3. flushed /\ ~encoded /\ encoded \in BOOLEAN /\ flushed \in BOOLEAN
  BY <1>1 DEF DirectoryInv, Ends
<1>4. LinkPart' = LinkPart /\ LinkPart \in AllParts'
  BY DEF LinkPart, AllParts, ArrayedParts
<1>5. DirSize \in Nat /\ DirSize > 0 /\ TiffLimit \in Nat /\ TiffLimit > 0
  BY FinishAssumption
<1>9. ~mode.faulty => Clean
  BY DEF PlaceInv
<1>6. CASE Exceeds(diroff', DirSize)
  <2>1. TiffLimit <= diroff' + DirSize
    BY <1>1, <1>5, <1>6, ExceedsIs
  <2>2. Clean => ~Fits
    BY <1>1, <1>5, <2>1, FitsMeans
  <2>3. stage' = "close" /\ ~flushed' /\ flushed' \in BOOLEAN
    BY <1>1, <1>6
  <2>4. ~Written' /\ (mode'.faulty \/ ~Fits')
    BY <1>2, <1>9, <2>2, <2>3 DEF Written
  <2>5. ~encoded' /\ encoded' \in BOOLEAN
    BY <1>1, <1>3
  <2>6. extents' \subseteq AllParts'
          /\ (Clean' => diroff' = DirectoryPlace')
    BY <1>1, <1>2, <1>4
  <2>7. stage' \notin {"arrays", "directory", "returned", "deleted"}
          /\ stage' \in {"close"} \cup Ends
    BY <2>3
  <2> QED
    BY <2>3, <2>4, <2>5, <2>6, <2>7 DEF DirectoryInv
<1>7. CASE ~Exceeds(diroff', DirSize)
  <2>1. diroff' < TiffLimit
    BY <1>1, <1>5, <1>7, ExceedsIs
  <2> DEFINE d == diroff'
             l == TiffLimit
  <2>2. d \in Nat /\ l \in Nat /\ d < l /\ l > 0 /\ link' = d % l
    BY <1>1, <1>5, <2>1
  <2>7. link' = d
    <3> HIDE DEF d, l
    <3>1. d % l = d - l * 0
      BY <2>2, DivIs
    <3> QED
      BY <2>2, <3>1
  <2>3. link' = diroff'
    BY <2>7
  <2>4. stage' = "arrays" /\ flushed' /\ flushed' \in BOOLEAN
          /\ ~encoded' /\ encoded' \in BOOLEAN
    BY <1>1, <1>3, <1>7
  <2>5. ~Written'
    BY <2>4 DEF Written
  <2>6. extents' \subseteq AllParts' /\ extents' = {LinkPart'}
          /\ (Clean' => diroff' = DirectoryPlace')
    BY <1>1, <1>2, <1>4
  <2> QED
    BY <2>3, <2>4, <2>5, <2>6 DEF DirectoryInv
<1> QED
  BY <1>6, <1>7

LEMMA DirectoryArrays ==
  ASSUME InputsOK, SimInv, PlaceInv, DirectoryInv, WriteArrays
  PROVE  DirectoryInv'
<1>1. /\ stage = "arrays"
      /\ UNCHANGED <<pieceVars, diroff, encoded, link>>
      /\ UNCHANGED inputVars
      /\ IF Exceeds(ArraysAt, ArraysLen)
         THEN stage' = "close" /\ flushed' = FALSE /\ extents' = extents
         ELSE /\ stage' = "directory" /\ flushed' = flushed
              /\ extents' = extents \cup
                   (IF ArraysLen = 0 THEN {} ELSE {ArraysPart})
  BY ArraysWritten
<1>2. /\ DirectoryPlace' = DirectoryPlace /\ (Fits <=> Fits')
      /\ AllParts' = AllParts /\ ArrayedParts' = ArrayedParts
      /\ mode' = mode /\ (Clean' <=> Clean)
  BY <1>1, InputsKept, PartsKept DEF inputVars, pieceVars, Clean
<1>3. /\ flushed /\ ~encoded /\ encoded \in BOOLEAN /\ flushed \in BOOLEAN
      /\ extents \subseteq AllParts
      /\ Clean => link = diroff /\ diroff = DirectoryPlace /\ extents = {LinkPart}
  BY <1>1 DEF DirectoryInv, Ends
<1>4. /\ ArraysLen \in Nat /\ ArraysAt \in Nat /\ TiffLimit \in Nat
      /\ Clean => ArraysAt = DirectoryPlace + DirSize + (DirSize % 2)
  BY <1>3, ArraysAre, FitsMeans
<1>5. Clean => (Fits <=> ArraysAt + ArraysLen < TiffLimit)
  BY <1>4, FitsMeans
<1>6. Exceeds(ArraysAt, ArraysLen) <=> TiffLimit <= ArraysAt + ArraysLen
  BY <1>4, ExceedsIs
<1>7. Clean => (Exceeds(ArraysAt, ArraysLen) <=> ~Fits)
  BY <1>4, <1>5, <1>6
<1>10. ~mode.faulty => Clean
  BY DEF PlaceInv
<1>8. CASE Exceeds(ArraysAt, ArraysLen)
  <2>1. stage' = "close" /\ ~flushed' /\ flushed' \in BOOLEAN /\ extents' = extents
          /\ ~encoded' /\ encoded' \in BOOLEAN
    BY <1>1, <1>3, <1>8
  <2>2. ~Written' /\ (mode'.faulty \/ ~Fits')
    BY <1>2, <1>7, <1>8, <1>10, <2>1 DEF Written
  <2>3. extents' \subseteq AllParts'
          /\ (Clean' => diroff' = DirectoryPlace')
    BY <1>1, <1>2, <1>3, <2>1
  <2>4. stage' \notin {"arrays", "directory", "returned", "deleted"}
          /\ stage' \in {"close"} \cup Ends
    BY <2>1
  <2> QED
    BY <2>1, <2>2, <2>3, <2>4 DEF DirectoryInv
<1>9. CASE ~Exceeds(ArraysAt, ArraysLen)
  <2>1. /\ stage' = "directory" /\ flushed' /\ flushed' \in BOOLEAN
        /\ ~encoded' /\ encoded' \in BOOLEAN
    BY <1>1, <1>3, <1>9
  <2>2. Clean => extents' = ArrayedParts
    BY <1>1, <1>3, <1>9 DEF ArrayedParts
  <2>3. ~Written' /\ (Clean' => Fits')
    BY <1>2, <1>7, <1>9, <2>1 DEF Written
  <2>4. extents' \subseteq AllParts'
    BY <1>1, <1>2, <1>3, <1>9 DEF AllParts, ArrayedParts
  <2>5. Clean' => /\ link' = diroff' /\ diroff' = DirectoryPlace'
                  /\ extents' = ArrayedParts'
    BY <1>1, <1>2, <1>3, <2>2
  <2> QED
    BY <2>1, <2>3, <2>4, <2>5 DEF DirectoryInv
<1> QED
  BY <1>8, <1>9

LEMMA DirectoryDirectory ==
  ASSUME InputsOK, SimInv, PlaceInv, DirectoryInv, WriteDirectory
  PROVE  DirectoryInv'
<1>1. /\ stage = "directory" /\ stage' = "close"
      /\ NextStrip = NumStrips(img)
      /\ UNCHANGED <<pieceVars, stripOffset, diroff, encoded, flushed, link>>
      /\ UNCHANGED inputVars
      /\ extents' = extents \cup {DirectoryPart}
  BY DirectoryWritten
<1>2. /\ Pieces' = Pieces /\ DirectoryPlace' = DirectoryPlace
      /\ (Fits <=> Fits') /\ AllParts' = AllParts
      /\ landed' = landed /\ (Clean' <=> Clean)
  BY <1>1, InputsKept, PartsKept DEF pieceVars, Clean
<1>3. /\ flushed /\ ~encoded /\ encoded \in BOOLEAN /\ flushed \in BOOLEAN
      /\ extents \subseteq AllParts
      /\ Clean => /\ link = diroff /\ diroff = DirectoryPlace
                  /\ extents = ArrayedParts /\ Fits
  BY <1>1 DEF DirectoryInv, Ends
<1>4. /\ extents' \subseteq AllParts'
      /\ Clean' => extents' = AllParts'
  BY <1>1, <1>2, <1>3 DEF AllParts
<1>5. NextStrip' = NumStrips(img)'
  BY <1>1 DEF NextStrip, inputVars
<1>6. Clean => landed = Pieces
  BY <1>1, AllLanded DEF Drained
<1>7. flushed' /\ ~encoded' /\ encoded' \in BOOLEAN /\ flushed' \in BOOLEAN
        /\ stage' = "close"
  BY <1>1, <1>3
<1>8. Clean' => /\ link' = diroff' /\ diroff' = DirectoryPlace'
               /\ Fits' /\ landed' = Pieces'
  BY <1>1, <1>2, <1>3, <1>6
<1> QED
  BY <1>4, <1>5, <1>7, <1>8 DEF DirectoryInv

LEMMA DirectoryStep ==
  ASSUME FinishInv, [Next]_vars
  PROVE  DirectoryInv'
<1> USE DEF FinishInv
<1>0. UNCHANGED inputVars
  BY NextKeepsInputs
<1>a. (Written <=> flushed /\ (stage = "close" \/ encoded))
        /\ (Written' <=> flushed' /\ (stage' = "close" \/ encoded'))
  BY DEF Written
<1>b. encoded => stage \in Ends
  BY DEF DirectoryInv
<1>c. Ends = {"returned", "deleted", "aborted"}
        /\ Drained = {"link", "arrays", "directory", "close"}
  BY DEF Ends, Drained
<1>d. Clean' => Clean
  BY CleanBefore
<1>1. ASSUME NEW p \in Pieces, Land(p)
      PROVE  DirectoryInv'
  <2>1. UNCHANGED <<extents, diroff, flushed, encoded>> /\ stage' = stage
          /\ p \in Pieces \ landed
    BY <1>1 DEF Land, tiffVars, Outstanding
  <2>2. Clean => stage \notin Drained
    BY <2>1, AllLanded
  <2>3. Clean /\ Written => landed = Pieces
    BY DEF DirectoryInv
  <2>4. Clean => ~Written'
    BY <1>a, <2>1, <2>3
  <2> QED
    BY <1>0, <1>c, <1>d, <2>1, <2>2, <2>4, DirectoryQuiet
<1>11. ASSUME NEW p \in Pieces, LandShort(p) \/ Refuse(p)
       PROVE  DirectoryInv'
  <2>1. UNCHANGED <<extents, diroff, flushed, encoded>> /\ stage' = stage
    BY <1>11 DEF LandShort, Refuse, tiffVars
  <2>2. ~Clean'
    BY <1>11, PlaceFailed
  <2> QED
    BY <1>0, <2>1, <2>2, DirectoryQuiet
<1>12. CASE FsyncFails
  <2>1. UNCHANGED <<extents, diroff, flushed, encoded, landed, link, stripOffset>>
          /\ stage \in {"reopen", "close", "returned"} /\ stage' = "aborted"
    BY <1>12 DEF FsyncFails, tiffVars, fileVars, pieceVars
  <2>2. Written' => Written
    BY <1>a, <1>b, <1>c, <2>1
  <2> QED
    BY <1>0, <1>c, <1>d, <2>1, <2>2, DirectoryQuiet
<1>2. CASE Reopen
  <2>1. UNCHANGED <<extents, diroff, flushed, encoded>> /\ stage = "reopen"
          /\ stage' = "open"
    BY <1>2 DEF Reopen, tiffVars
  <2>9. ~Written'
    BY <1>a, <1>b, <1>c, <2>1
  <2> QED
    BY <1>0, <1>c, <1>d, <2>1, <2>9, DirectoryQuiet
<1>3. CASE ReopenFails
  <2>1. UNCHANGED <<extents, diroff, flushed, encoded>> /\ stage = "reopen"
          /\ stage' = "returned" /\ mode.faulty
    BY <1>3 DEF ReopenFails, tiffVars
  <2>9. ~Written'
    BY <1>a, <1>b, <1>c, <2>1
  <2> QED
    BY <1>0, <1>c, <1>d, <2>1, <2>9, DirectoryQuiet
<1>4. CASE ClientOpen \/ WriteStrip
  <2>1. UNCHANGED <<extents, diroff, flushed, encoded>>
          /\ stage \in {"open", "strips"} /\ stage' = "strips"
    BY <1>4, Simulated DEF fileVars
  <2>9. ~Written'
    BY <1>a, <1>b, <1>c, <2>1
  <2> QED
    BY <1>0, <1>c, <1>d, <2>1, <2>9, DirectoryQuiet
<1>5. CASE WriteStripFails
  <2>1. UNCHANGED <<extents, diroff, flushed, encoded>> /\ stage = "strips"
          /\ stage' = "returned"
    BY <1>5 DEF WriteStripFails, tiffVars, fileVars
  <2>2. ~Fits
    BY <1>5, StripExceeds
  <2>9. ~Written'
    BY <1>a, <1>b, <1>c, <2>1
  <2> QED
    BY <1>0, <1>c, <1>d, <2>1, <2>2, <2>9, DirectoryQuiet
<1>6. CASE EndStrips \/ CloseRings
  <2>1. UNCHANGED <<extents, diroff, flushed, encoded>>
          /\ stage \in {"strips", "drain"} /\ stage' \in {"drain", "link"}
    BY <1>6 DEF EndStrips, CloseRings, tiffVars, fileVars
  <2>9. ~Written'
    BY <1>a, <1>b, <1>c, <2>1
  <2> QED
    BY <1>0, <1>c, <1>d, <2>1, <2>9, DirectoryQuiet
<1>7. CASE FlushFails
  <2>1. /\ UNCHANGED <<extents, diroff, encoded>> /\ stage' = "close"
        /\ ~flushed' /\ flushed' \in BOOLEAN
        /\ stage \in {"link", "arrays", "directory"}
        /\ mode.faulty \/ ~CanWrite
    BY <1>7 DEF FlushFails, fileVars
  <2>2. mode.faulty
    <3>1. fd = "buffered"
      BY <2>1 DEF PlaceInv, Stages, Ends
    <3> QED
      BY <2>1, <3>1 DEF CanWrite
  <2>3. ~encoded' /\ ~Written' /\ mode'.faulty /\ encoded' \in BOOLEAN
    BY <1>0, <1>a, <1>b, <1>c, <2>1, <2>2 DEF inputVars, DirectoryInv
  <2>4. AllParts' = AllParts /\ DirectoryPlace' = DirectoryPlace
    BY <1>0, <2>1, PartsKept, InputsKept
  <2> QED
    BY <1>d, <2>1, <2>3, <2>4 DEF DirectoryInv
<1>8. CASE CloseFile
  <2>1. /\ UNCHANGED <<extents, diroff, flushed, landed, stripOffset, link>>
        /\ stage = "close" /\ stage' = "returned" /\ encoded' = TRUE
    BY <1>8 DEF CloseFile, pieceVars
  <2>2. /\ Pieces' = Pieces /\ DirectoryPlace' = DirectoryPlace
        /\ (Fits <=> Fits') /\ AllParts' = AllParts
    BY <1>0, <2>1, InputsKept, PartsKept
  <2>3. Written' => Written
    BY <1>a, <2>1
  <2>4. img' = img /\ mode' = mode
    BY <1>0 DEF inputVars
  <2>5. NextStrip' = NextStrip /\ NumStrips(img)' = NumStrips(img)
    BY <2>1, <2>4 DEF NextStrip
  <2>6. /\ flushed \in BOOLEAN /\ extents \subseteq AllParts
        /\ Clean /\ extents # {} => diroff = DirectoryPlace
        /\ Clean /\ Written =>
             /\ link = diroff /\ diroff = DirectoryPlace /\ Fits
             /\ extents = AllParts /\ landed = Pieces /\ NextStrip = NumStrips(img)
        /\ Fits /\ ~mode.faulty => flushed
    BY DEF DirectoryInv
  <2>7. Clean' /\ Written' =>
             /\ link' = diroff' /\ diroff' = DirectoryPlace' /\ Fits'
             /\ extents' = AllParts' /\ landed' = Pieces'
             /\ NextStrip' = NumStrips(img)'
    BY <1>d, <2>1, <2>2, <2>3, <2>5, <2>6
  <2>8. Fits' /\ ~mode'.faulty => flushed' /\ encoded'
    BY <2>1, <2>2, <2>4, <2>6
  <2> QED
    BY <1>c, <1>d, <2>1, <2>2, <2>6, <2>7, <2>8 DEF DirectoryInv
<1>9. CASE Delete
  <2>1. /\ UNCHANGED <<extents, diroff, flushed, encoded, landed, stripOffset, link>>
        /\ stage = "returned" /\ stage' = "deleted"
    BY <1>9 DEF Delete, tiffVars
  <2>2. Written' => Written
    BY <1>a, <2>1
  <2> QED
    BY <1>0, <1>c, <1>d, <2>1, <2>2, DirectoryQuiet
<1>10. CASE UNCHANGED vars
  <2>1. /\ UNCHANGED <<extents, diroff, flushed, encoded, landed, stripOffset, link>>
        /\ stage' = stage
    BY <1>10 DEF vars, fileVars, pieceVars, tiffVars
  <2>2. Written' => Written
    BY <1>a, <2>1
  <2> QED
    BY <1>0, <1>c, <1>d, <2>1, <2>2, DirectoryQuiet
<1> QED
  BY <1>1, <1>2, <1>3, <1>4, <1>5, <1>6, <1>7, <1>8, <1>9, <1>10, <1>11, <1>12,
     DirectoryLink, DirectoryArrays, DirectoryDirectory
     DEF Next, EncodeFinish, Ended

-----------------------------------------------------------------------------
(* The invariant holds, and what follows from it. *)

LEMMA InitInputs ==
  ASSUME Init
  PROVE  InputsOK
<1>1. img \in Images /\ mode \in Modes
  BY DEF Init
<1>2. CASE mode.chunked
  BY <1>1, <1>2 DEF Init, InputsOK
<1>3. CASE ~mode.chunked
  <2>1. /\ bufLen \in [Pieces -> { StripLen(s) : s \in Pieces }]
        /\ \A s \in Pieces : bufLen[s] \in BufferLens(s, landed \cup short)
    BY <1>3 DEF Init
  <2>2. img \in ImageSizes
    BY <1>1, FinishAssumption DEF ImageSizes
  <2>3. Pieces \subseteq Nat
    <3>1. NumStrips(img) \in Nat
      BY <2>2, StripHeights
    <3> QED
      BY <1>3, <3>1 DEF Pieces
  <2>4. ASSUME NEW s \in Pieces
        PROVE  StripLen(s) <= bufLen[s]
    <3>1. LogicalLen(img, s) \in Nat /\ HeaderSize \in Nat
      BY <2>2, <2>3, StripsFollow, GeometryAssumption
    <3>2. StripLen(s) \in Nat
      BY <3>1 DEF StripLen
    <3>3. CASE bufLen[s] = StripLen(s)
      BY <3>2, <3>3
    <3>4. CASE bufLen[s] # StripLen(s)
      <4>1. \E r \in landed \cup short : StripLen(r) >= StripLen(s) /\ bufLen[s] = StripLen(r)
        BY <2>1, <3>4 DEF BufferLens
      <4> QED
        BY <4>1
    <3> QED
      BY <3>3, <3>4
  <2> QED
    BY <1>1, <1>3, <2>1, <2>4 DEF InputsOK
<1> QED
  BY <1>2, <1>3

(* The file ends with the last piece in it, or with a part of one. *)
LEMMA InitSize ==
  ASSUME Init
  PROVE  /\ size \in Nat /\ \A p \in landed : PieceEnd(p) <= size
         /\ short = {} => size = EndOfAll(landed)
<1> DEFINE E == EndOfAll(landed)
<1>1. InputsOK /\ landed \in SUBSET Pieces /\ short \subseteq Pieces
  <2>1. landed \in SUBSET Pieces /\ short \in {{}} \cup SUBSET (Pieces \ landed)
    BY DEF Init
  <2> QED
    BY <2>1, InitInputs
<1>2. E \in Nat /\ \A p \in landed : PieceEnd(p) <= E
  BY <1>1, EndIs
<1>3. PICK cut \in [short -> ShortWrites] :
        /\ \A p \in short : cut[p] \in Cuts(p)
        /\ size = LargestOf({E} \cup { ShortEnd(p, cut[p]) : p \in short })
  BY DEF Init
<1> DEFINE S == {E} \cup { ShortEnd(p, cut[p]) : p \in short }
<1>4. PICK b \in Nat : \A p \in Pieces : PieceEnd(p) <= b
  BY <1>1, PieceEnds
<1> HIDE DEF E
<1>5. \A p \in Pieces : PieceEnd(p) \in Nat
  BY <1>1, PieceEnds
<1>6. ASSUME NEW p \in short
      PROVE  ShortEnd(p, cut[p]) \in 0 .. b + E
  <2>1. p \in Pieces /\ cut[p] \in Cuts(p)
    BY <1>1, <1>3
  <2>2. ShortEnd(p, cut[p]) \in Nat /\ ShortEnd(p, cut[p]) <= PieceEnd(p)
    BY <1>1, <2>1, ShortEnds
  <2> QED
    BY <1>2, <1>4, <1>5, <2>1, <2>2
<1>7. S \in SUBSET (0 .. b + E) /\ E \in S /\ S # {} /\ b + E \in Nat
  BY <1>2, <1>6
<1>8. size = LargestOf(S)
  BY <1>3
<1> HIDE DEF S
<1>9. size \in S /\ \A y \in S : y <= size
  BY <1>7, <1>8, LargestIs
<1>10. size \in Nat /\ E <= size
  BY <1>7, <1>9
<1>11. \A p \in landed : PieceEnd(p) <= size
  BY <1>1, <1>2, <1>5, <1>10
<1>12. short = {} => size = E
  BY <1>9 DEF S
<1> QED
  BY <1>10, <1>11, <1>12 DEF E

LEMMA InitFinish ==
  ASSUME Init
  PROVE  FinishInv
<1>1. InputsOK
  BY InitInputs
<1>2. /\ stage = "reopen" /\ simulateWrite = FALSE /\ off = 0
      /\ numSimulatedWrites = 0 /\ stripOffset = <<>> /\ diroff = 0 /\ link = 0
      /\ extents = {} /\ flushed = TRUE /\ encoded = FALSE
      /\ fd \in {"direct", "buffered"} /\ dropped = {}
  BY DEF Init
<1>3. /\ landed \subseteq Pieces /\ short \subseteq Pieces /\ refused \subseteq Pieces
      /\ ~mode.faulty => Clean
  <2>1. /\ landed \in SUBSET Pieces
        /\ short \in IF mode.faulty THEN SUBSET (Pieces \ landed) ELSE {{}}
        /\ refused \in IF mode.faulty THEN SUBSET (Pieces \ (landed \cup short))
                        ELSE {{}}
    BY DEF Init
  <2> QED
    BY <2>1 DEF Clean
<1>4. NumStrips(img) \in Nat \ {0}
  BY <1>1, ImageOK
<1>5. SimInv
  <2>1. <<>> \in Seq(Nat) /\ Len(<<>>) = 0 /\ DOMAIN <<>> = {}
    OBVIOUS
  <2>2. StripOffsetsMatch
    BY <1>2, <2>1 DEF StripOffsetsMatch
  <2>3. numSimulatedWrites \in 0 .. maxSimulatedWrites
          /\ Len(stripOffset) <= NumStrips(img)
    BY <1>2, <1>4, <2>1 DEF maxSimulatedWrites
  <2>4. simulateWrite \in BOOLEAN
    BY <1>2
  <2> QED
    BY <1>2, <2>1, <2>2, <2>3, <2>4 DEF SimInv, Stages
<1>6. PlaceInv
  <2>1. /\ size \in Nat /\ \A p \in landed : PieceEnd(p) <= size
        /\ Clean => size = EndOfAll(landed)
    BY InitSize DEF Clean
  <2>2. 0 \in 0 .. TiffLimit - 1
    BY FinishAssumption
  <2> QED
    BY <1>2, <1>3, <2>1, <2>2 DEF PlaceInv, Drained
<1>7. ~Written
  BY <1>2 DEF Written
<1>8. DirectoryInv
  BY <1>2, <1>7 DEF DirectoryInv
<1> QED
  BY <1>1, <1>5, <1>6, <1>8 DEF FinishInv

LEMMA FinishInvariant == Spec => []FinishInv
<1>1. Init => FinishInv
  BY InitFinish
<1>2. FinishInv /\ [Next]_vars => FinishInv'
  <2> SUFFICES ASSUME FinishInv, [Next]_vars
               PROVE  FinishInv'
    OBVIOUS
  <2>1. InputsOK /\ SimInv /\ PlaceInv
    BY DEF FinishInv
  <2>2. InputsOK'
    BY <2>1, NextKeepsInputs, InputsKept
  <2>3. SimInv' /\ PlaceInv' /\ DirectoryInv'
    BY <2>1, SimStep, PlaceStep, DirectoryStep
  <2> QED
    BY <2>2, <2>3 DEF FinishInv
<1> QED
  BY <1>1, <1>2, PTL DEF Spec

(* Every variable has its type: there are never more simulated writes or   *)
(* strips than the image has strips, the link fits into the header, and    *)
(* only pieces of the image arrive.                                        *)
THEOREM FinishTypeCorrect == Spec => []TypeOK
<1>1. FinishInv => TypeOK
  <2> SUFFICES ASSUME FinishInv
               PROVE  TypeOK
    OBVIOUS
  <2>1. InputsOK /\ SimInv /\ PlaceInv /\ DirectoryInv
    BY DEF FinishInv
  <2>2. DOMAIN bufLen = IF mode.chunked THEN {} ELSE Pieces
    <3>1. DOMAIN <<>> = {}
      OBVIOUS
    <3> QED
      BY <2>1, <3>1 DEF InputsOK
  <2>3. diroff \in Nat
    BY <2>1, ArraysAre
  <2>4. extents \subseteq [at : Nat, len : Nat \ {0},
                          part : {"header", "link", "arrays", "directory"}]
    <3>1. HeaderSize \div 2 \in Nat \ {0}
      <4>1. HeaderSize \in Nat /\ HeaderSize > 0 /\ HeaderSize % 2 = 0
        BY GeometryAssumption, FinishAssumption
      <4>2. HeaderSize = 2 * (HeaderSize \div 2) + (HeaderSize % 2)
              /\ HeaderSize \div 2 \in Nat
        BY <4>1, DivMod
      <4> QED
        BY <4>1, <4>2
    <3>2. /\ ArraysLen \in Nat /\ DirSize \in Nat \ {0} /\ ArraysAt \in Nat
      BY <2>1, ArraysAre
    <3>3. extents \subseteq AllParts
      BY <2>1 DEF DirectoryInv
    <3> QED
      BY <2>3, <3>1, <3>2, <3>3
         DEF AllParts, ArrayedParts, LinkPart, ArraysPart, DirectoryPart
  <2> QED
    BY <2>1, <2>2, <2>3, <2>4
       DEF TypeOK, InputsOK, SimInv, PlaceInv, DirectoryInv, Stages
<1> QED
  BY <1>1, FinishInvariant, PTL

(* The offsets that libtiff notes for the strips, which it never wrote,    *)
(* are those at which the program wrote them.                              *)
THEOREM StripsFound == Spec => []StripOffsetsMatch
<1>1. FinishInv => StripOffsetsMatch
  BY DEF FinishInv, SimInv
<1> QED
  BY <1>1, FinishInvariant, PTL

(* The simulation covers all strips and nothing of the directory. *)
THEOREM SimulationEnds == Spec => []SwitchInTime
<1>1. FinishInv => SwitchInTime
  BY DEF FinishInv, SimInv, SwitchInTime
<1> QED
  BY <1>1, FinishInvariant, PTL

(* What libtiff writes for real, but for the link in the header, comes     *)
(* behind all pixels but those of requests that failed or were cut short,  *)
(* and those still under way when a ring was given up for such a failure.  *)
THEOREM PixelsUntouched == Spec => []DirectoryBehindData
<1>1. FinishInv => DirectoryBehindData
  <2> SUFFICES ASSUME FinishInv, NEW e \in extents, e.part # "link",
                      NEW p \in Sound
               PROVE  PieceEnd(p) <= e.at
    BY DEF DirectoryBehindData
  <2>1. InputsOK /\ SimInv /\ PlaceInv
    BY DEF FinishInv
  <2>2. e \in AllParts
    BY DEF FinishInv, DirectoryInv
  <2>3. e = DirectoryPart \/ e = ArraysPart
    BY <2>2 DEF AllParts, ArrayedParts, LinkPart
  <2>4. e.at \in {diroff, ArraysAt}
    BY <2>3 DEF DirectoryPart, ArraysPart
  <2>5. /\ diroff \in Nat /\ DirSize \in Nat /\ DirSize % 2 \in 0 .. 1
        /\ ArraysAt = diroff + DirSize + (DirSize % 2)
    BY <2>1, ArraysAre
  <2>6. diroff <= e.at /\ e.at \in Nat
    BY <2>4, <2>5
  <2>7. PieceEnd(p) <= diroff
    BY <2>1 DEF PlaceInv
  <2>8. PieceEnd(p) \in Nat
    BY <2>1, PieceEnds DEF Sound
  <2> QED
    BY <2>5, <2>6, <2>7, <2>8
<1> QED
  BY <1>1, FinishInvariant, PTL

(* A file whose directory libtiff could write, and of which no write of    *)
(* pixels failed or was cut short, is a TIFF in the end: all pixels have   *)
(* arrived, the header leads to the directory, the directory knows every   *)
(* strip, and nothing of what was written lies on top of anything else.    *)
THEOREM FileReadable == Spec => []Readable
<1>1. FinishInv => Readable
  <2> SUFFICES ASSUME FinishInv, stage = "deleted", encoded, flushed,
                      short \cup refused = {}
               PROVE  /\ landed = Pieces
                      /\ Len(stripOffset) = NumStrips(img)
                      /\ link = diroff
                      /\ [at |-> diroff, len |-> DirSize, part |-> "directory"]
                           \in extents
                      /\ \A d, e \in extents :
                           d # e => d.at + d.len <= e.at \/ e.at + e.len <= d.at
    BY DEF Readable
  <2>1. InputsOK /\ SimInv /\ PlaceInv
    BY DEF FinishInv
  <2>2. Written /\ Clean
    BY DEF Written, Clean
  <2>3. /\ link = diroff /\ diroff = DirectoryPlace /\ extents = AllParts
        /\ landed = Pieces /\ Len(stripOffset) = NumStrips(img)
    BY <2>2 DEF FinishInv, DirectoryInv, NextStrip
  <2>4. [at |-> diroff, len |-> DirSize, part |-> "directory"] \in extents
    BY <2>3 DEF AllParts, DirectoryPart
  <2>5. /\ diroff \in Nat /\ DirSize \in Nat /\ DirSize % 2 \in 0 .. 1
        /\ ArraysAt = diroff + DirSize + (DirSize % 2) /\ ArraysLen \in Nat
    BY <2>1, ArraysAre
  <2> DEFINE h == HeaderSize \div 2
  <2>6. h + h <= diroff /\ h \in Nat
    <3>1. HeaderSize \in Nat
      BY GeometryAssumption
    <3>2. HeaderSize = 2 * h + (HeaderSize % 2) /\ HeaderSize % 2 \in 0 .. 2 - 1
            /\ h \in Nat
      BY <3>1, DivMod
    <3>3. HeaderSize <= diroff
      BY <2>1, <2>3, PlaceIs
    <3> HIDE DEF h
    <3> QED
      BY <3>1, <3>2, <3>3, <2>5
  <2>7. /\ LinkPart.at = h /\ LinkPart.len = h
        /\ DirectoryPart.at = diroff /\ DirectoryPart.len = DirSize
        /\ ArraysPart.at = ArraysAt /\ ArraysPart.len = ArraysLen
    BY DEF LinkPart, DirectoryPart, ArraysPart
  <2> HIDE DEF h
  <2>8. /\ LinkPart.at + LinkPart.len <= DirectoryPart.at
        /\ LinkPart.at + LinkPart.len <= ArraysPart.at
        /\ DirectoryPart.at + DirectoryPart.len <= ArraysPart.at
    BY <2>5, <2>6, <2>7
  <2>9. \A e \in extents : e = LinkPart \/ e = ArraysPart \/ e = DirectoryPart
    BY <2>3 DEF AllParts, ArrayedParts
  <2>10. ASSUME NEW d \in extents, NEW e \in extents, d # e
         PROVE  d.at + d.len <= e.at \/ e.at + e.len <= d.at
    BY <2>8, <2>9, <2>10
  <2> QED
    BY <2>3, <2>4, <2>10
<1> QED
  BY <1>1, FinishInvariant, PTL

(* If the disk refuses nothing, the directory is missing exactly when it   *)
(* does not fit, behind the pixels, into what a classic TIFF can address.  *)
THEOREM LostOnlyAtLimit == Spec => []LostAtLimitOnly
<1>1. FinishInv => LostAtLimitOnly
  <2> SUFFICES ASSUME FinishInv, stage = "deleted", ~mode.faulty
               PROVE  encoded /\ flushed <=> Fits
    BY DEF LostAtLimitOnly, Fits, DirectoryPlace
  <2>1. Fits => encoded /\ flushed
    BY DEF FinishInv, DirectoryInv
  <2>2. encoded /\ flushed => Fits
    BY DEF FinishInv, PlaceInv, DirectoryInv, Written
  <2> QED
    BY <2>1, <2>2
<1> QED
  BY <1>1, FinishInvariant, PTL
=============================================================================
