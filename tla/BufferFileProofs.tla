--------------------------- MODULE BufferFileProofs ---------------------------
(***************************************************************************)
(* What the writes put into the file: with the layout the chunks have, and *)
(* whatever the buffers held before, only bytes that belong where they     *)
(* come to be.  A vector of buffers that are ready has the bytes of the    *)
(* file from the offset of its first buffer on, so a write that is cut     *)
(* short anywhere is right as far as it got; a chunk that waits for its    *)
(* write has a buffer that is ready, once all its strips have filled it.   *)
(***************************************************************************)
EXTENDS BufferProofs, WellFoundedInduction

-----------------------------------------------------------------------------
(* Sums *)

LEMMA HasSmallest ==
  ASSUME NEW S \in SUBSET Nat, S # {}
  PROVE  \E x \in S : \A y \in S : x <= y
<1>1. \E x \in S : \A y \in S : ~(<<y, x>> \in OpToRel(<, Nat))
  BY NatLessThanWellFounded, WFMin
<1>2. PICK x \in S : \A y \in S : ~(y < x)
  BY <1>1 DEF OpToRel
<1>3. ASSUME NEW y \in S
      PROVE  x <= y
  <2>1. ~(y < x) /\ x \in Nat /\ y \in Nat
    BY <1>2
  <2> QED
    BY <2>1
<1> QED
  BY <1>3

Summand(f) == IsFiniteSet(DOMAIN f) /\ \A x \in DOMAIN f : f[x] \in Nat

(* A sum counts bricks: f[x] of them on every x. *)
Pile(f, x) == {x} \X (1 .. f[x])

Bricks(f, T) == UNION { Pile(f, x) : x \in T }

LEMMA PileSize ==
  ASSUME NEW f, NEW x, f[x] \in Nat
  PROVE  IsFiniteSet(Pile(f, x)) /\ Cardinality(Pile(f, x)) = f[x]
<1>1. /\ IsFiniteSet({x}) /\ Cardinality({x}) = 1
      /\ IsFiniteSet(1 .. f[x]) /\ Cardinality(1 .. f[x]) = f[x]
  <2> DEFINE n == f[x]
  <2>1. n \in Nat
    OBVIOUS
  <2> HIDE DEF n
  <2>2. IsFiniteSet(1 .. n) /\ Cardinality(1 .. n) = n
    BY <2>1, FS_Interval
  <2> QED
    BY <2>2, FS_Singleton DEF n
<1>2. /\ IsFiniteSet(Pile(f, x))
      /\ Cardinality(Pile(f, x)) = Cardinality({x}) * Cardinality(1 .. f[x])
  BY <1>1, FS_Product DEF Pile
<1> QED
  BY <1>1, <1>2

LEMMA BricksFinite ==
  ASSUME NEW f, Summand(f), NEW T \in SUBSET DOMAIN f
  PROVE  IsFiniteSet(Bricks(f, T)) /\ Cardinality(Bricks(f, T)) \in Nat
<1> DEFINE P == { Pile(f, x) : x \in T }
           g == [x \in T |-> Pile(f, x)]
<1>1. IsFiniteSet(T)
  BY FS_Subset DEF Summand
<1>2. g \in Surjection(T, P)
  BY DEF Surjection
<1>3. IsFiniteSet(P)
  BY <1>1, <1>2, FS_Surjection
<1>4. \A p \in P : IsFiniteSet(p)
  BY PileSize DEF Summand
<1>5. IsFiniteSet(UNION P)
  BY <1>3, <1>4, FS_UNION
<1> QED
  BY <1>5, FS_CardinalityType DEF Bricks

LEMMA BricksAdd ==
  ASSUME NEW f, Summand(f), NEW T \in SUBSET DOMAIN f,
         NEW x \in DOMAIN f, x \notin T
  PROVE  Cardinality(Bricks(f, T \cup {x})) = Cardinality(Bricks(f, T)) + f[x]
<1>1. Bricks(f, T \cup {x}) = Bricks(f, T) \cup Pile(f, x)
  BY DEF Bricks
<1>2. Bricks(f, T) \cap Pile(f, x) = {}
  BY DEF Bricks, Pile
<1>3. /\ IsFiniteSet(Pile(f, x)) /\ Cardinality(Pile(f, x)) = f[x]
      /\ f[x] \in Nat
  BY PileSize DEF Summand
<1>4. IsFiniteSet(Bricks(f, T)) /\ Cardinality(Bricks(f, T)) \in Nat
  BY BricksFinite
<1>5. Cardinality(Bricks(f, T) \cup Pile(f, x)) =
        Cardinality(Bricks(f, T)) + Cardinality(Pile(f, x))
          - Cardinality(Bricks(f, T) \cap Pile(f, x))
  BY <1>3, <1>4, FS_Union
<1>6. Cardinality(Bricks(f, T) \cap Pile(f, x)) = 0
  BY <1>2, FS_EmptySet
<1> DEFINE old == Cardinality(Bricks(f, T))
<1>7. Cardinality(Bricks(f, T) \cup Pile(f, x)) = old + f[x] - 0
  BY <1>3, <1>5, <1>6
<1>8. old \in Nat /\ f[x] \in Nat
  BY <1>3, <1>4
<1> HIDE DEF old
<1>9. old + f[x] - 0 = old + f[x]
  BY <1>8
<1> QED
  BY <1>1, <1>7, <1>9 DEF old

(* What the fold of a sum computes for the sets of its arguments. *)
IsFold(g, f) ==
  g = [s \in SUBSET DOMAIN f |->
         IF s = {} THEN 0
         ELSE f[CHOOSE x \in s : TRUE] + g[s \ {CHOOSE x \in s : TRUE}]]

LEMMA SumFolds ==
  ASSUME NEW f
  PROVE  SumFunction(f) = (CHOOSE g : IsFold(g, f))[DOMAIN f]
BY DEF SumFunction, SumFunctionOnSet, FoldFunctionOnSet, MapThenFoldSet, IsFold

LEMMA BricksFold ==
  ASSUME NEW f, Summand(f), NEW s \in SUBSET DOMAIN f, s # {}
  PROVE  LET x == CHOOSE y \in s : TRUE
         IN  /\ s \ {x} \in SUBSET DOMAIN f /\ x \in s
             /\ Cardinality(Bricks(f, s)) =
                  f[x] + Cardinality(Bricks(f, s \ {x}))
<1> DEFINE x == CHOOSE y \in s : TRUE
           r == s \ {x}
<1>1. x \in s
  OBVIOUS
<1> HIDE DEF x
<1>2. r \in SUBSET DOMAIN f /\ x \in DOMAIN f /\ x \notin r /\ r \cup {x} = s
  BY <1>1
<1> HIDE DEF r
<1>3. Cardinality(Bricks(f, r \cup {x})) = Cardinality(Bricks(f, r)) + f[x]
  BY <1>2, BricksAdd
<1>4. Cardinality(Bricks(f, r)) \in Nat /\ f[x] \in Nat
  BY <1>2, BricksFinite DEF Summand
<1>5. Cardinality(Bricks(f, s)) = f[x] + Cardinality(Bricks(f, r))
  BY <1>2, <1>3, <1>4
<1> QED
  BY <1>1, <1>2, <1>5 DEF x, r

LEMMA SumIs ==
  ASSUME NEW f, Summand(f)
  PROVE  SumFunction(f) = Cardinality(Bricks(f, DOMAIN f))
<1> DEFINE D == SUBSET DOMAIN f
           size(s) == Cardinality(Bricks(f, s))
           least(s) == CHOOSE y \in s : TRUE
           g == [s \in D |-> size(s)]
           h == CHOOSE k : IsFold(k, f)
<1>1. size({}) = 0
  <2>1. Bricks(f, {}) = {}
    BY DEF Bricks
  <2> QED
    BY <2>1, FS_EmptySet
<1>2. ASSUME NEW s \in D, s # {}
      PROVE  /\ s \ {least(s)} \in D /\ least(s) \in s
             /\ size(s) = f[least(s)] + size(s \ {least(s)})
  BY <1>2, BricksFold
<1> HIDE DEF size, least
<1>3. IsFold(g, f)
  <2>1. ASSUME NEW s \in D
        PROVE  g[s] = IF s = {} THEN 0
                      ELSE f[least(s)] + g[s \ {least(s)}]
    <3>1. g[s] = size(s)
      OBVIOUS
    <3>2. CASE s = {}
      BY <1>1, <3>1, <3>2
    <3>3. CASE s # {}
      <4>1. g[s \ {least(s)}] = size(s \ {least(s)})
        BY <1>2, <3>3
      <4> HIDE DEF g
      <4> QED
        BY <1>2, <3>1, <3>3, <4>1
    <3> QED
      BY <3>2, <3>3
  <2>2. g = [s \in D |-> g[s]]
    OBVIOUS
  <2> HIDE DEF g
  <2>3. g = [s \in D |-> IF s = {} THEN 0
                         ELSE f[least(s)] + g[s \ {least(s)}]]
    BY <2>1, <2>2
  <2> QED
    BY <2>3 DEF IsFold, least
<1> HIDE DEF g
<1>4. IsFold(h, f)
  BY <1>3
<1> HIDE DEF h
<1>5. \A s \in D : h[s] = IF s = {} THEN 0
                          ELSE f[least(s)] + h[s \ {least(s)}]
  BY <1>4 DEF IsFold, least
<1>6. \A s \in D : IsFiniteSet(s) /\ Cardinality(s) \in Nat
  BY FS_Subset, FS_CardinalityType DEF Summand
<1>7. \A s \in D : h[s] = size(s)
  <2> SUFFICES ASSUME NEW t \in D, h[t] # size(t) PROVE FALSE
    OBVIOUS
  <2> DEFINE B == { n \in Nat : \E s \in D :
                      Cardinality(s) = n /\ h[s] # size(s) }
  <2>1. Cardinality(t) \in B
    BY <1>6
  <2>2. PICK n \in B : \A m \in B : n <= m
    <3>1. B \in SUBSET Nat /\ B # {}
      BY <2>1
    <3> HIDE DEF B
    <3> QED
      BY <3>1, HasSmallest
  <2>3. PICK s \in D : Cardinality(s) = n /\ h[s] # size(s)
    OBVIOUS
  <2>4. s # {}
    BY <1>1, <1>5, <2>3
  <2>5. /\ s \ {least(s)} \in D /\ least(s) \in s
        /\ size(s) = f[least(s)] + size(s \ {least(s)})
    BY <1>2, <2>4
  <2>6. h[s \ {least(s)}] # size(s \ {least(s)})
    BY <1>5, <2>3, <2>4, <2>5
  <2>7. /\ Cardinality(s \ {least(s)}) = n - 1 /\ n \in Nat
        /\ Cardinality(s \ {least(s)}) \in Nat
    BY <1>6, <2>3, <2>5, FS_RemoveElement
  <2>8. Cardinality(s \ {least(s)}) \in B
    BY <2>5, <2>6, <2>7
  <2> HIDE DEF B
  <2>9. n <= Cardinality(s \ {least(s)})
    BY <2>2, <2>8
  <2> QED
    BY <2>7, <2>9
<1>8. SumFunction(f) = h[DOMAIN f]
  BY SumFolds DEF h
<1> QED
  BY <1>7, <1>8 DEF size

LEMMA SumNat ==
  ASSUME NEW f, Summand(f)
  PROVE  SumFunction(f) \in Nat /\ (DOMAIN f = {} => SumFunction(f) = 0)
<1>1. SumFunction(f) \in Nat
  BY SumIs, BricksFinite
<1>2. ASSUME DOMAIN f = {} PROVE SumFunction(f) = 0
  <2>1. Bricks(f, DOMAIN f) = {}
    BY <1>2 DEF Bricks
  <2> QED
    BY <2>1, SumIs, FS_EmptySet
<1> QED
  BY <1>1, <1>2

LEMMA SumAdd ==
  ASSUME NEW f, Summand(f), NEW g, NEW x, x \notin DOMAIN g,
         DOMAIN f = DOMAIN g \cup {x}, \A y \in DOMAIN g : f[y] = g[y]
  PROVE  Summand(g) /\ SumFunction(f) = SumFunction(g) + f[x]
<1>1. Summand(g)
  <2>1. DOMAIN g \in SUBSET DOMAIN f
    OBVIOUS
  <2> QED
    BY <2>1, FS_Subset DEF Summand
<1>2. Bricks(f, DOMAIN g) = Bricks(g, DOMAIN g)
  BY DEF Bricks, Pile
<1>3. Cardinality(Bricks(f, DOMAIN g \cup {x})) =
        Cardinality(Bricks(f, DOMAIN g)) + f[x]
  BY BricksAdd
<1> QED
  BY <1>1, <1>2, <1>3, SumIs

(* Fewer and smaller terms. *)
LEMMA SumMono ==
  ASSUME NEW f, Summand(f), NEW g, DOMAIN g \subseteq DOMAIN f,
         \A y \in DOMAIN g : g[y] \in Nat /\ g[y] <= f[y]
  PROVE  Summand(g) /\ SumFunction(g) <= SumFunction(f)
<1>1. Summand(g)
  BY FS_Subset DEF Summand
<1>2. Bricks(g, DOMAIN g) \subseteq Bricks(f, DOMAIN f)
  <2>1. ASSUME NEW y \in DOMAIN g
        PROVE  Pile(g, y) \subseteq Pile(f, y)
    <3>1. 1 .. g[y] \subseteq 1 .. f[y]
      BY DEF Summand
    <3> QED
      BY <3>1 DEF Pile
  <2> QED
    BY <2>1 DEF Bricks
<1>3. Cardinality(Bricks(g, DOMAIN g)) <= Cardinality(Bricks(f, DOMAIN f))
  BY <1>2, BricksFinite, FS_Subset
<1> QED
  BY <1>1, <1>3, SumIs

-----------------------------------------------------------------------------
(* Buffers fit for their chunks *)

Shaped(b) ==
  /\ {"allocLen", "len", "offset", "skip", "data"} \subseteq DOMAIN buf[b]
  /\ buf[b].allocLen \in Nat /\ buf[b].len \in 0 .. buf[b].allocLen
  /\ DOMAIN buf[b].data = 0 .. buf[b].allocLen - 1
  /\ IF Chunked THEN \A c \in Chunks : buf[b].allocLen = AllocLength[c]
                ELSE buf[b].len = buf[b].allocLen

(* Strip s fills byte k of chunk c. *)
Gives(s, c, k) == Chunked => Offset[c] + k \in StripBytes[s]

(* The buffer of a chunk is set up for it: it has its offset and at least  *)
(* its length, the first one has the header where no strip is written, and *)
(* what the strips so far have filled is there.                            *)
Prepared(c) ==
  LET b == buf[held[c]]
  IN  /\ b.offset = Offset[c] /\ b.len >= Length[c]
      /\ IF Chunked THEN b.len = Length[c]
         ELSE /\ b.skip = (IF Offset[c] = 0 THEN HeaderLength ELSE 0)
              /\ Offset[c] = 0 =>
                   \A k \in DOMAIN b.data : k < HeaderLength => b.data[k] = k
      /\ \A s \in Sharers(c) \cap filled : \A k \in 0 .. b.len - 1 :
           Gives(s, c, k) => b.data[k] = Offset[c] + k

(* Chunks without a gap, and a single one without -k. *)
Contiguous(C) ==
  /\ C # {} /\ C \subseteq Chunks
  /\ \A c, d \in C, e \in Chunks : c < e /\ e < d => e \in C
  /\ ~Chunked => \A c, d \in C : c = d

(* All strips have filled the buffers of C. *)
Ready(C) ==
  \A c \in C : /\ Shaped(held[c]) /\ Prepared(c)
               /\ Sharers(c) \subseteq filled

LEMMA LayoutTypes ==
  ASSUME FileLayout, NEW c \in Chunks
  PROVE  /\ c \in Nat /\ Offset[c] \in Nat /\ Length[c] \in Nat \ {0}
         /\ AllocLength[c] \in Nat /\ Length[c] <= AllocLength[c]
         /\ FileSize \in Nat /\ Offset[c] + Length[c] <= FileSize
<1>1. /\ Offset \in [Chunks -> Nat] /\ Length \in [Chunks -> Nat]
      /\ AllocLength \in [Chunks -> Nat] /\ Chunks \subseteq Nat
      /\ FileSize \in Nat
  BY BufferAssumption, EncodeAssumption
<1>2. 0 < Length[c] /\ Length[c] <= AllocLength[c]
  BY BufferAssumption
<1>3. Offset[c] + Length[c] <= FileSize
  BY DEF FileLayout
<1> QED
  BY <1>1, <1>2, <1>3

LEMMA IovTypes ==
  ASSUME FileLayout, NEW C \in SUBSET Chunks, Ready(C), NEW c \in C
  PROVE  /\ IovLen(c) \in Nat /\ buf[held[c]].len \in Nat
         /\ Length[c] <= buf[held[c]].len /\ buf[held[c]].len <= IovLen(c)
         /\ buf[held[c]].offset = Offset[c]
         /\ Direct => Chunked /\ IovLen(c) = AllocLength[c]
         /\ ~Direct => IovLen(c) = buf[held[c]].len
         /\ Chunked => buf[held[c]].len = Length[c]
<1>1. Shaped(held[c]) /\ Prepared(c)
  BY DEF Ready
<1>2. /\ buf[held[c]].allocLen \in Nat
      /\ buf[held[c]].len \in Nat
      /\ buf[held[c]].len <= buf[held[c]].allocLen
      /\ Chunked => buf[held[c]].allocLen = AllocLength[c]
  BY <1>1 DEF Shaped
<1>3. /\ Length[c] <= buf[held[c]].len /\ buf[held[c]].offset = Offset[c]
      /\ Chunked => buf[held[c]].len = Length[c]
  BY <1>1, <1>2, LayoutTypes DEF Prepared
<1>4. Direct => Chunked
  BY BufferAssumption
<1> QED
  BY <1>2, <1>3, <1>4 DEF IovLen

(* The byte of a full buffer that is meant for a position of the file. *)
LEMMA ReadyByte ==
  ASSUME FileLayout, NEW C \in SUBSET Chunks, Ready(C), NEW c \in C,
         NEW k \in Nat, k < IovLen(c), Offset[c] + k < FileSize
  PROVE  buf[held[c]].data[k] = Offset[c] + k
<1>1. /\ Offset[c] \in Nat /\ Length[c] \in Nat /\ FileSize \in Nat
      /\ c \in Chunks
  BY LayoutTypes
<1>2. /\ IovLen(c) \in Nat /\ buf[held[c]].len \in Nat
      /\ Length[c] <= buf[held[c]].len /\ buf[held[c]].len <= IovLen(c)
      /\ Direct => Chunked /\ IovLen(c) = AllocLength[c]
      /\ ~Direct => IovLen(c) = buf[held[c]].len
      /\ Chunked => buf[held[c]].len = Length[c]
  BY IovTypes
<1>3. Prepared(c) /\ Sharers(c) \subseteq filled
  BY DEF Ready
<1>4. ASSUME NEW s \in Sharers(c), Gives(s, c, k), k < buf[held[c]].len
      PROVE  buf[held[c]].data[k] = Offset[c] + k
  <2>1. s \in Sharers(c) \cap filled /\ k \in 0 .. buf[held[c]].len - 1
    BY <1>2, <1>3, <1>4
  <2> QED
    BY <1>3, <1>4, <2>1 DEF Prepared
<1>5. CASE Chunked
  <2>1. k < Length[c]
    <3>1. CASE Direct
      <4>1. CASE c + 1 \in Chunks
        BY <1>1, <1>2, <3>1, <4>1 DEF FileLayout
      <4>2. CASE c + 1 \notin Chunks
        <5>1. Offset[c] + Length[c] = FileSize
          BY <1>1, <4>2 DEF FileLayout
        <5> QED
          BY <1>1, <5>1
      <4> QED
        BY <4>1, <4>2
    <3>2. CASE ~Direct
      BY <1>2, <1>5, <3>2
    <3> QED
      BY <3>1, <3>2
  <2>2. Offset[c] + k \in Offset[c] .. Offset[c] + Length[c] - 1
    BY <1>1, <2>1
  <2>3. PICK s \in Sharers(c) : Offset[c] + k \in StripBytes[s]
    BY <1>1, <1>5, <2>2 DEF FileLayout
  <2> QED
    BY <1>2, <1>4, <1>5, <2>1, <2>3 DEF Gives
<1>6. CASE ~Chunked
  <2>1. PICK s \in Strips : c \in ChunksOf[s]
    BY EncodeAssumption
  <2>2. s \in Sharers(c)
    BY <2>1 DEF Sharers
  <2>3. k < buf[held[c]].len
    BY <1>2, <1>6
  <2> QED
    BY <1>4, <1>6, <2>2, <2>3 DEF Gives
<1> QED
  BY <1>5, <1>6

-----------------------------------------------------------------------------
(* Vectors of buffers *)

Lens(C) == [c \in C |-> IovLen(c)]

LEMMA LensSummand ==
  ASSUME FileLayout, NEW C \in SUBSET Chunks, Ready(C), NEW D \in SUBSET C
  PROVE  /\ Summand(Lens(D)) /\ BytesToWrite(D) = SumFunction(Lens(D))
         /\ DOMAIN Lens(D) = D /\ \A c \in D : Lens(D)[c] = IovLen(c)
<1>1. IsFiniteSet(D)
  BY EncodeAssumption, FS_Subset
<1>2. \A c \in D : IovLen(c) \in Nat
  BY IovTypes
<1> QED
  BY <1>1, <1>2 DEF Lens, Summand, BytesToWrite

LEMMA BytesNat ==
  ASSUME FileLayout, NEW C \in SUBSET Chunks, Ready(C), NEW D \in SUBSET C
  PROVE  BytesToWrite(D) \in Nat /\ (D = {} => BytesToWrite(D) = 0)
BY LensSummand, SumNat

LEMMA BytesAdd ==
  ASSUME FileLayout, NEW C \in SUBSET Chunks, Ready(C),
         NEW D \in SUBSET C, NEW c \in C, c \notin D
  PROVE  BytesToWrite(D \cup {c}) = BytesToWrite(D) + IovLen(c)
<1> DEFINE E == D \cup {c}
<1>1. E \in SUBSET C /\ E = D \cup {c}
  OBVIOUS
<1> HIDE DEF E
<1>2. /\ Summand(Lens(E)) /\ BytesToWrite(E) = SumFunction(Lens(E))
      /\ DOMAIN Lens(E) = E /\ \A d \in E : Lens(E)[d] = IovLen(d)
  BY <1>1, LensSummand
<1>3. /\ Summand(Lens(D)) /\ BytesToWrite(D) = SumFunction(Lens(D))
      /\ DOMAIN Lens(D) = D /\ \A d \in D : Lens(D)[d] = IovLen(d)
  BY LensSummand
<1>4. /\ c \notin DOMAIN Lens(D) /\ DOMAIN Lens(E) = DOMAIN Lens(D) \cup {c}
      /\ \A y \in DOMAIN Lens(D) : Lens(E)[y] = Lens(D)[y]
      /\ Lens(E)[c] = IovLen(c)
  BY <1>1, <1>2, <1>3
<1>5. SumFunction(Lens(E)) = SumFunction(Lens(D)) + Lens(E)[c]
  BY <1>2, <1>4, SumAdd
<1> QED
  BY <1>2, <1>3, <1>4, <1>5 DEF E

LEMMA BytesMono ==
  ASSUME FileLayout, NEW C \in SUBSET Chunks, Ready(C),
         NEW D \in SUBSET C, NEW E \in SUBSET D
  PROVE  BytesToWrite(E) <= BytesToWrite(D)
<1>1. /\ Summand(Lens(D)) /\ BytesToWrite(D) = SumFunction(Lens(D))
      /\ DOMAIN Lens(D) = D /\ \A d \in D : Lens(D)[d] = IovLen(d)
  BY LensSummand
<1>2. E \in SUBSET C
  OBVIOUS
<1>3. /\ BytesToWrite(E) = SumFunction(Lens(E))
      /\ DOMAIN Lens(E) = E /\ \A d \in E : Lens(E)[d] = IovLen(d)
  BY <1>2, LensSummand
<1>4. /\ DOMAIN Lens(E) \subseteq DOMAIN Lens(D)
      /\ \A y \in DOMAIN Lens(E) :
           Lens(E)[y] \in Nat /\ Lens(E)[y] <= Lens(D)[y]
  BY <1>1, <1>3 DEF Summand
<1>5. SumFunction(Lens(E)) <= SumFunction(Lens(D))
  BY <1>1, <1>4, SumMono
<1> QED
  BY <1>1, <1>3, <1>5

LEMMA MinIs ==
  ASSUME NEW C \in SUBSET Nat, C # {}
  PROVE  Min(C) \in C /\ \A c \in C : Min(C) <= c
BY HasSmallest DEF Min

LEMMA HasLargest ==
  ASSUME NEW C \in SUBSET Chunks, C # {}, FileLayout
  PROVE  \E c \in C : \A d \in C : d <= c
<1> DEFINE n == Cardinality(Chunks)
<1>1. IsFiniteSet(Chunks) /\ Chunks \subseteq Nat /\ n \in Nat
  BY EncodeAssumption, FS_CardinalityType
<1>2. ASSUME NEW c \in Chunks
      PROVE  c < n
  <2>1. 0 .. c \in SUBSET Chunks /\ c \in Nat
    BY <1>1 DEF FileLayout
  <2>2. Cardinality(0 .. c) = c + 1
    BY <2>1, FS_Interval
  <2>3. Cardinality(0 .. c) <= n
    BY <1>1, <2>1, FS_Subset
  <2> QED
    BY <1>1, <2>1, <2>2, <2>3
<1> HIDE DEF n
<1> DEFINE R == { k \in Nat : n - k \in C }
<1>3. \A c \in C : n - c \in Nat /\ n - (n - c) = c
  BY <1>1, <1>2
<1>4. R \in SUBSET Nat /\ R # {}
  BY <1>3
<1>5. \A c \in C : n - c \in R
  BY <1>3
<1> HIDE DEF R
<1>6. PICK k \in R : \A j \in R : k <= j
  BY <1>4, HasSmallest
<1>7. n - k \in C /\ k \in Nat
  BY <1>6 DEF R
<1>8. \A d \in C : d <= n - k
  BY <1>1, <1>5, <1>6, <1>7
<1> QED
  BY <1>7, <1>8

LEMMA NextInVector ==
  ASSUME FileLayout, NEW C, Contiguous(C), Ready(C),
         NEW c \in C, c + 1 \in C
  PROVE  Offset[c + 1] = Offset[c] + IovLen(c)
<1>1. C \in SUBSET Chunks /\ c \in Chunks /\ c + 1 \in Chunks /\ c \in Nat
  BY LayoutTypes DEF Contiguous
<1>2. Chunked
  <2>1. c # c + 1
    BY <1>1
  <2> QED
    BY <2>1 DEF Contiguous
<1>3. /\ Offset[c + 1] = Offset[c] + Length[c]
      /\ Direct => Length[c] = AllocLength[c]
  BY <1>1 DEF FileLayout
<1>4. IovLen(c) = Length[c]
  BY <1>1, <1>2, <1>3, IovTypes
<1> QED
  BY <1>3, <1>4

(* The chunk before one of a vector is in the vector, too. *)
LEMMA PreviousInVector ==
  ASSUME FileLayout, NEW C, Contiguous(C), NEW c \in C, c # Min(C)
  PROVE  /\ c - 1 \in C /\ c - 1 \in Nat /\ (c - 1) + 1 = c
         /\ { d \in C : d < c } = { d \in C : d < c - 1 } \cup {c - 1}
<1>1. C \in SUBSET Chunks /\ C # {} /\ C \in SUBSET Nat
  BY EncodeAssumption DEF Contiguous
<1>2. Min(C) \in C /\ Min(C) <= c /\ Min(C) \in Nat /\ c \in Nat
  BY <1>1, MinIs
<1>3. Min(C) < c /\ c - 1 \in Nat /\ Min(C) <= c - 1 /\ c - 1 < c
  BY <1>2
<1>4. c - 1 \in Chunks
  <2>1. 0 .. c \subseteq Chunks
    BY <1>1 DEF FileLayout
  <2>2. c - 1 \in 0 .. c
    BY <1>2, <1>3
  <2> QED
    BY <2>1, <2>2
<1>5. c - 1 \in C
  <2>1. CASE Min(C) = c - 1
    BY <1>2, <2>1
  <2>2. CASE Min(C) < c - 1
    BY <1>2, <1>3, <1>4, <2>2 DEF Contiguous
  <2> QED
    BY <1>2, <1>3, <2>1, <2>2
<1>6. { d \in C : d < c } = { d \in C : d < c - 1 } \cup {c - 1}
  <2>1. \A d \in C : d < c <=> d < c - 1 \/ d = c - 1
    BY <1>1, <1>2
  <2> QED
    BY <1>5, <2>1
<1> QED
  BY <1>2, <1>3, <1>5, <1>6

(* In the vector a chunk is as far from the first as in the file. *)
LEMMA BeforeIs ==
  ASSUME FileLayout, NEW C, Contiguous(C), Ready(C), NEW c \in C
  PROVE  Before(c, C) \in Nat /\ Offset[Min(C)] + Before(c, C) = Offset[c]
<1>1. C \in SUBSET Chunks /\ C # {} /\ C \in SUBSET Nat
  BY EncodeAssumption DEF Contiguous
<1>2. \A d \in C : Before(d, C) \in Nat
  <2> SUFFICES ASSUME NEW d \in C PROVE Before(d, C) \in Nat
    OBVIOUS
  <2>1. { e \in C : e < d } \in SUBSET C
    OBVIOUS
  <2> QED
    BY <1>1, <2>1, BytesNat DEF Before
<1> DEFINE Right(d) == Offset[Min(C)] + Before(d, C) = Offset[d]
           B == { d \in C : ~Right(d) }
<1>3. B = {}
  <2> SUFFICES ASSUME B # {} PROVE FALSE
    OBVIOUS
  <2>1. B \in SUBSET Nat
    BY <1>1
  <2>2. PICK d \in B : \A e \in B : d <= e
    <3> HIDE DEF B
    <3> QED
      BY <2>1, HasSmallest
  <2>3. d \in C /\ ~Right(d)
    OBVIOUS
  <2>4. d # Min(C)
    <3> SUFFICES ASSUME d = Min(C) PROVE Right(d)
      BY <2>3
    <3>1. { e \in C : e < d } = {}
      <4>1. \A e \in C : Min(C) <= e /\ e \in Nat
        BY <1>1, MinIs
      <4> QED
        BY <2>3, <4>1
    <3>2. Before(d, C) = 0
      <4>1. BytesToWrite({}) = 0
        BY <1>1, BytesNat
      <4> QED
        BY <3>1, <4>1 DEF Before
    <3>3. Offset[d] \in Nat
      BY <1>1, <2>3, LayoutTypes
    <3> QED
      BY <3>2, <3>3
  <2> DEFINE e == d - 1
  <2>5. /\ e \in C /\ e \in Nat /\ e + 1 = d
        /\ { x \in C : x < d } = { x \in C : x < e } \cup {e}
    BY <2>3, <2>4, PreviousInVector
  <2>6. e < d
    BY <2>5
  <2> HIDE DEF e
  <2>7. Right(e)
    <3>1. d \in Nat /\ ~(d <= e)
      BY <1>1, <2>3, <2>5, <2>6
    <3>2. e \notin B
      BY <2>2, <3>1
    <3> QED
      BY <2>5, <3>2
  <2>8. Before(d, C) = Before(e, C) + IovLen(e)
    <3>1. e \notin { x \in C : x < e } /\ { x \in C : x < e } \in SUBSET C
      BY <2>5
    <3>2. BytesToWrite({ x \in C : x < e } \cup {e}) =
            BytesToWrite({ x \in C : x < e }) + IovLen(e)
      BY <1>1, <2>5, <3>1, BytesAdd
    <3> QED
      BY <2>5, <3>2 DEF Before
  <2>9. Offset[d] = Offset[e] + IovLen(e)
    BY <2>3, <2>5, NextInVector
  <2>10. /\ Offset[Min(C)] \in Nat /\ Before(e, C) \in Nat
         /\ IovLen(e) \in Nat
    BY <1>1, <1>2, <2>5, MinIs, LayoutTypes, IovTypes
  <2> QED
    BY <2>3, <2>7, <2>8, <2>9, <2>10
<1> QED
  BY <1>2, <1>3

LEMMA VectorTypes ==
  ASSUME FileLayout, NEW C, Contiguous(C), Ready(C)
  PROVE  /\ C \in SUBSET Chunks /\ C # {} /\ C \in SUBSET Nat
         /\ Min(C) \in C /\ \A c \in C : Min(C) <= c
         /\ Offset[Min(C)] \in Nat /\ BytesToWrite(C) \in Nat
         /\ \A c \in C : /\ IovLen(c) \in Nat /\ Offset[c] \in Nat
                         /\ Before(c, C) \in Nat
                         /\ Offset[Min(C)] + Before(c, C) = Offset[c]
<1>1. C \in SUBSET Chunks /\ C # {} /\ C \in SUBSET Nat
  BY EncodeAssumption DEF Contiguous
<1>2. Min(C) \in C /\ \A c \in C : Min(C) <= c
  BY <1>1, MinIs
<1>3. C \in SUBSET C
  OBVIOUS
<1> QED
  BY <1>1, <1>2, <1>3, LayoutTypes, IovTypes, BytesNat, BeforeIs

(* The vector ends with its last chunk. *)
LEMMA VectorEnd ==
  ASSUME FileLayout, NEW C, Contiguous(C), Ready(C)
  PROVE  \E c \in C : BytesToWrite(C) = Before(c, C) + IovLen(c)
<1>1. C \in SUBSET Chunks /\ C # {} /\ C \in SUBSET Nat
  BY VectorTypes
<1>2. PICK c \in C : \A d \in C : d <= c
  BY <1>1, HasLargest
<1> DEFINE D == { d \in C : d < c }
<1>3. D \in SUBSET C /\ c \notin D /\ C = D \cup {c}
  <2>1. \A d \in C : d < c \/ d = c
    BY <1>1, <1>2
  <2>2. ~(c < c)
    BY <1>1
  <2> QED
    BY <2>1, <2>2
<1>4. Before(c, C) = BytesToWrite(D)
  BY DEF Before
<1> HIDE DEF D
<1>5. BytesToWrite(D \cup {c}) = BytesToWrite(D) + IovLen(c)
  BY <1>1, <1>3, BytesAdd
<1> QED
  BY <1>3, <1>4, <1>5

(* Every byte of the vector is one of a chunk. *)
LEMMA VectorCovered ==
  ASSUME FileLayout, NEW C, Contiguous(C), Ready(C),
         NEW k \in Nat, k < BytesToWrite(C)
  PROVE  \E c \in C : Before(c, C) <= k /\ k < Before(c, C) + IovLen(c)
<1>1. /\ C \in SUBSET Nat /\ BytesToWrite(C) \in Nat
      /\ Offset[Min(C)] \in Nat
      /\ \A c \in C : /\ IovLen(c) \in Nat /\ Offset[c] \in Nat
                      /\ Before(c, C) \in Nat
                      /\ Offset[Min(C)] + Before(c, C) = Offset[c]
  BY VectorTypes
<1> DEFINE R == { c \in C : k < Before(c, C) + IovLen(c) }
<1>2. R \in SUBSET Nat /\ R # {}
  BY <1>1, VectorEnd
<1>3. PICK c \in R : \A d \in R : c <= d
  <2> HIDE DEF R
  <2> QED
    BY <1>2, HasSmallest
<1>4. c \in C /\ k < Before(c, C) + IovLen(c)
  OBVIOUS
<1>5. CASE c = Min(C)
  <2>1. Before(c, C) = 0
    BY <1>1, <1>4, <1>5
  <2> QED
    BY <1>4, <2>1
<1>6. CASE c # Min(C)
  <2> DEFINE d == c - 1
  <2>1. d \in C /\ d \in Nat /\ d + 1 = c
    BY <1>4, <1>6, PreviousInVector
  <2> HIDE DEF d
  <2>2. ~(k < Before(d, C) + IovLen(d))
    <3>1. ~(c <= d)
      BY <2>1
    <3> QED
      BY <1>3, <2>1, <3>1
  <2>3. Offset[d + 1] = Offset[d] + IovLen(d)
    BY <1>4, <2>1, NextInVector
  <2>4. /\ Offset[Min(C)] + Before(c, C) = Offset[c]
        /\ Offset[Min(C)] + Before(d, C) = Offset[d]
        /\ Offset[c] = Offset[d] + IovLen(d)
    BY <1>1, <1>4, <2>1, <2>3
  <2>5. Before(c, C) = Before(d, C) + IovLen(d)
    BY <1>1, <1>4, <2>1, <2>4
  <2>6. Before(c, C) <= k
    BY <1>1, <1>4, <2>1, <2>2, <2>5
  <2> QED
    BY <1>4, <2>6
<1> QED
  BY <1>5, <1>6

(* So the bytes of the data are at their place. *)
LEMMA VectorByteIs ==
  ASSUME FileLayout, NEW C, Contiguous(C), Ready(C),
         NEW k \in Nat, k < BytesToWrite(C), Offset[Min(C)] + k < FileSize
  PROVE  VectorByte(k, C) = Offset[Min(C)] + k
<1> DEFINE Has(d) == Before(d, C) <= k /\ k < Before(d, C) + IovLen(d)
           c == CHOOSE d \in C : Has(d)
<1>1. /\ C \in SUBSET Chunks /\ Offset[Min(C)] \in Nat
      /\ \A d \in C : /\ IovLen(d) \in Nat /\ Offset[d] \in Nat
                      /\ Before(d, C) \in Nat
                      /\ Offset[Min(C)] + Before(d, C) = Offset[d]
  BY VectorTypes
<1>2. c \in C /\ Has(c)
  BY VectorCovered
<1>3. VectorByte(k, C) = buf[held[c]].data[k - Before(c, C)]
  BY DEF VectorByte
<1> HIDE DEF c
<1> DEFINE j == k - Before(c, C)
<1>4. /\ j \in Nat /\ j < IovLen(c)
      /\ Offset[c] + j = Offset[Min(C)] + k
  BY <1>1, <1>2
<1>5. VectorByte(k, C) = buf[held[c]].data[j]
  BY <1>3
<1> HIDE DEF j, Has
<1>6. buf[held[c]].data[j] = Offset[c] + j
  BY <1>1, <1>2, <1>4, ReadyByte
<1> QED
  BY <1>4, <1>5, <1>6

(* What a write does to the strips' part of the file. *)
LEMMA FirstWritten ==
  ASSUME FileLayout, NEW C, Contiguous(C), Ready(C),
         NEW n \in Nat, n <= BytesToWrite(C), WriteFirst(n, C)
  PROVE  \A p \in 0 .. FileSize - 1 :
           file'[p] = IF Offset[Min(C)] <= p /\ p < Offset[Min(C)] + n
                      THEN p ELSE file[p]
<1>1. /\ C \in SUBSET Chunks /\ Min(C) \in C /\ Offset[Min(C)] \in Nat
      /\ BytesToWrite(C) \in Nat
  BY VectorTypes
<1>2. buf[held[Min(C)]].offset = Offset[Min(C)]
  BY <1>1, IovTypes
<1>3. FileSize \in Nat /\ 0 .. FileSize - 1 \subseteq Positions
  BY BufferAssumption
<1> DEFINE from == Offset[Min(C)]
<1>4. file' = [p \in Positions |->
                 IF from <= p /\ p < from + n THEN VectorByte(p - from, C)
                                              ELSE file[p]]
  BY <1>2 DEF WriteFirst
<1> SUFFICES ASSUME NEW p \in 0 .. FileSize - 1
             PROVE  file'[p] = IF from <= p /\ p < from + n
                               THEN p ELSE file[p]
  OBVIOUS
<1>5. ASSUME from <= p, p < from + n
      PROVE  VectorByte(p - from, C) = p
  <2> DEFINE k == p - from
  <2>1. k \in Nat /\ k < BytesToWrite(C) /\ from + k = p /\ from + k < FileSize
    BY <1>1, <1>3, <1>5
  <2> HIDE DEF k
  <2>2. VectorByte(k, C) = from + k
    BY <2>1, VectorByteIs
  <2> QED
    BY <2>1, <2>2 DEF k
<1> QED
  BY <1>3, <1>4, <1>5

(* A chunk is in the first n bytes when all up to it are. *)
LEMMA ChunkWithin ==
  ASSUME FileLayout, NEW C, Contiguous(C), Ready(C), NEW c \in C,
         NEW n \in Nat,
         \/ c \in WithinFirst(n, C)
         \/ \E D \in SUBSET C : /\ { d \in C : d <= c } \subseteq D
                                /\ BytesToWrite(D) <= n
  PROVE  /\ Offset[Min(C)] <= Offset[c]
         /\ Offset[c] + Length[c] <= Offset[Min(C)] + n
<1>1. /\ C \in SUBSET Chunks /\ C \in SUBSET Nat /\ Offset[Min(C)] \in Nat
      /\ IovLen(c) \in Nat /\ Offset[c] \in Nat
      /\ Before(c, C) \in Nat /\ Offset[Min(C)] + Before(c, C) = Offset[c]
  BY VectorTypes
<1>2. /\ Length[c] \in Nat /\ buf[held[c]].len \in Nat
      /\ Length[c] <= buf[held[c]].len /\ buf[held[c]].len <= IovLen(c)
  BY <1>1, IovTypes, LayoutTypes
<1>3. CASE c \in WithinFirst(n, C)
  BY <1>1, <1>2, <1>3 DEF WithinFirst
<1>4. ASSUME NEW D \in SUBSET C, { d \in C : d <= c } \subseteq D,
             BytesToWrite(D) <= n
      PROVE  Before(c, C) + Length[c] <= n
  <2> DEFINE E == { d \in C : d < c }
  <2>1. /\ E \in SUBSET C /\ c \notin E /\ E \cup {c} \in SUBSET D
        /\ E \cup {c} \in SUBSET C
    <3>1. \A d \in C : d < c => d <= c
      BY <1>1
    <3>2. c <= c /\ ~(c < c)
      BY <1>1
    <3> QED
      BY <1>4, <3>1, <3>2
  <2>2. Before(c, C) = BytesToWrite(E)
    BY DEF Before
  <2> HIDE DEF E
  <2>3. BytesToWrite(E \cup {c}) = BytesToWrite(E) + IovLen(c)
    BY <1>1, <2>1, BytesAdd
  <2>4. BytesToWrite(E \cup {c}) <= BytesToWrite(D)
    BY <1>1, <2>1, BytesMono
  <2>5. BytesToWrite(D) \in Nat
    BY <1>1, BytesNat
  <2> QED
    BY <1>1, <1>2, <1>4, <2>2, <2>3, <2>4, <2>5
<1>5. ASSUME Before(c, C) + Length[c] <= n
      PROVE  /\ Offset[Min(C)] <= Offset[c]
             /\ Offset[c] + Length[c] <= Offset[Min(C)] + n
  BY <1>1, <1>2, <1>5
<1> QED
  BY <1>3, <1>4, <1>5, <1>1

-----------------------------------------------------------------------------
(* What is written is ready *)

(* The buffers are set up for the chunks that wait for a write, which have *)
(* theirs from the moment one of their strips is filled.                   *)
ByteInv ==
  /\ \A b \in Bufs : Shaped(b)
  /\ \A c \in Chunks : Claimed(c) /\ held[c] # NoBuf => Prepared(c)

HasBuffer ==
  \A c \in Chunks : Claimed(c) /\ Sharers(c) \cap filled # {} => held[c] # NoBuf

(* What a request writes is one vector. *)
RunInv == \A v \in Workers : \A r \in inflight[v] : Contiguous(r)

(* While the loop of FileIOUnix::write goes on, what its calls have        *)
(* reached so far of the batch is in the file.                             *)
LoopOf(w) ==
  reached[w] > 0 =>
    /\ pc[w] = "write" /\ w \notin ringsOpen
    /\ \A p \in 0 .. FileSize - 1 :
         Offset[Min(batch[w])] <= p
           /\ p < Offset[Min(batch[w])] + reached[w] => file[p] = p

LoopInv ==
  /\ bytesWritten \in [Workers -> Nat] /\ reached \in [Workers -> Nat]
  /\ \A w \in Workers : LoopOf(w)

FileInv ==
  /\ AliasInv /\ OwnInBatch /\ ByteInv /\ HasBuffer
  /\ RunInv /\ LoopInv /\ FileBytes

LEMMA ReadyOf ==
  ASSUME PoolTypes, ByteInv, HasBuffer, NEW C \in SUBSET Chunks,
         \A c \in C : Claimed(c) /\ Sharers(c) \subseteq filled
  PROVE  Ready(C)
<1> SUFFICES ASSUME NEW c \in C
             PROVE  Shaped(held[c]) /\ Prepared(c)
  BY DEF Ready
<1>1. PICK s \in Strips : c \in ChunksOf[s]
  BY EncodeAssumption
<1>2. s \in Sharers(c) \cap filled
  BY <1>1 DEF Sharers
<1>3. held[c] # NoBuf
  BY <1>2 DEF HasBuffer
<1>4. held[c] \in Bufs
  BY <1>3 DEF PoolTypes
<1> QED
  BY <1>3, <1>4 DEF ByteInv

LEMMA WritingReady ==
  ASSUME FileLayout, FileInv, ~aborted, NEW w \in Workers, pc[w] = "write"
  PROVE  Contiguous(batch[w]) /\ Ready(batch[w])
<1>1. /\ WriteInv /\ TypeInv /\ BatchPlace /\ BatchPassed /\ BatchIssued
      /\ OwnInBatch /\ PoolTypes /\ ByteInv /\ HasBuffer
  BY DEF FileInv, AliasInv, WriteInv, Gathered, PoolInv
<1>2. batch[w] \in SUBSET Chunks /\ batch[w] # {}
  BY <1>1, TrackedTypes DEF BatchPlace
<1>3. \A c \in batch[w] : issued[c] = 0 /\ Passed(c) = Sharers(c)
  BY <1>1 DEF BatchIssued, BatchPassed
<1>4. Ready(batch[w])
  <2>1. \A c \in batch[w] : Sharers(c) \subseteq filled
    BY <1>1, <1>2, <1>3, PassedFilled
  <2>2. \A c \in batch[w] : Claimed(c)
    BY <1>3 DEF Claimed
  <2> QED
    BY <1>1, <1>2, <2>1, <2>2, ReadyOf
<1>5. OneVector
  BY <1>1, BatchRuns DEF FileLayout
<1>6. ASSUME ~Chunked, NEW c \in batch[w], NEW d \in batch[w]
      PROVE  c = d
  <2>1. strip[w] \in Strips
    BY <1>1, TaskTypes
  <2>2. ChunksOf[strip[w]] = {strip[w]}
    BY <1>6, <2>1 DEF FileLayout
  <2>3. batch[w] \subseteq ChunksOf[strip[w]]
    BY <1>1 DEF OwnInBatch
  <2> QED
    BY <2>2, <2>3
<1> QED
  BY <1>2, <1>4, <1>5, <1>6 DEF Contiguous, OneVector

LEMMA InflightReady ==
  ASSUME FileLayout, FileInv, NEW v \in Workers, NEW r \in inflight[v]
  PROVE  Contiguous(r) /\ Ready(r)
<1>1. /\ WriteInv /\ TypeInv /\ Tracked /\ PoolTypes /\ ByteInv /\ HasBuffer
      /\ RunInv
  BY DEF FileInv, AliasInv, WriteInv, PoolInv
<1>2. r \in SUBSET Chunks
  BY <1>1, TrackedTypes
<1>3. \A c \in r : c \in UnderWay
  BY UnderWayIs DEF InRing
<1>4. \A c \in r : Claimed(c) /\ issued[c] > 0
  BY <1>1, <1>2, <1>3 DEF Claimed, Tracked
<1>5. \A c \in r : Sharers(c) \subseteq filled
  BY <1>1, <1>2, <1>4, NotTorn DEF NoTornChunk
<1> QED
  BY <1>1, <1>2, <1>4, <1>5, ReadyOf DEF RunInv

-----------------------------------------------------------------------------
(* What becomes of the buffers *)

(* At most the count of a buffer changes. *)
Alike(b) == buf'[b] = buf[b] \/ \E n : buf'[b] = [buf[b] EXCEPT !.refCount = n]

LEMMA AlikeFields ==
  ASSUME NEW b, Shaped(b), Alike(b)
  PROVE  /\ DOMAIN buf'[b] = DOMAIN buf[b]
         /\ buf'[b].allocLen = buf[b].allocLen
         /\ buf'[b].len = buf[b].len
         /\ buf'[b].offset = buf[b].offset
         /\ buf'[b].skip = buf[b].skip
         /\ buf'[b].data = buf[b].data
<1>1. {"allocLen", "len", "offset", "skip", "data"} \subseteq DOMAIN buf[b]
  BY DEF Shaped
<1> QED
  BY <1>1 DEF Alike

LEMMA AlikeShaped ==
  ASSUME NEW b, Shaped(b), Alike(b)
  PROVE  Shaped(b)'
BY AlikeFields DEF Shaped

LEMMA AlikePrepared ==
  ASSUME NEW c, Shaped(held[c]), Prepared(c), Alike(held[c]),
         held'[c] = held[c], Sharers(c) \cap filled' = Sharers(c) \cap filled
  PROVE  Prepared(c)'
<1> DEFINE b == held[c]
<1>1. /\ buf'[b].len = buf[b].len /\ buf'[b].offset = buf[b].offset
      /\ buf'[b].skip = buf[b].skip /\ buf'[b].data = buf[b].data
  BY AlikeFields
<1>2. held'[c] = b
  OBVIOUS
<1>3. /\ buf[b].offset = Offset[c] /\ buf[b].len >= Length[c]
      /\ IF Chunked THEN buf[b].len = Length[c]
         ELSE /\ buf[b].skip = (IF Offset[c] = 0 THEN HeaderLength ELSE 0)
              /\ Offset[c] = 0 =>
                   \A k \in DOMAIN buf[b].data :
                     k < HeaderLength => buf[b].data[k] = k
      /\ \A s \in Sharers(c) \cap filled : \A k \in 0 .. buf[b].len - 1 :
           Gives(s, c, k) => buf[b].data[k] = Offset[c] + k
  BY DEF Prepared
<1> HIDE DEF b
<1>4. Sharers(c)' = Sharers(c) /\ \A s, k : Gives(s, c, k)' <=> Gives(s, c, k)
  BY DEF Sharers, Gives
<1> QED
  BY <1>1, <1>2, <1>3, <1>4 DEF Prepared

BytesQuiet ==
  /\ Bufs' = Bufs /\ filled' = filled
  /\ \A b \in Bufs : Alike(b)
  /\ \A c \in Chunks : Claimed(c)' => held'[c] = held[c]

LEMMA QuietBytes ==
  ASSUME PoolTypes, ClaimsShrink, ByteInv, HasBuffer, BytesQuiet
  PROVE  ByteInv' /\ HasBuffer'
<1>1. \A b \in Bufs' : Shaped(b)'
  BY AlikeShaped DEF BytesQuiet, ByteInv
<1>2. ASSUME NEW c \in Chunks, Claimed(c)', held'[c] # NoBuf
      PROVE  Prepared(c)'
  <2>1. Claimed(c) /\ held'[c] = held[c] /\ held[c] # NoBuf
    BY <1>2 DEF ClaimsShrink, BytesQuiet
  <2>2. held[c] \in Bufs
    BY <2>1 DEF PoolTypes
  <2>3. Shaped(held[c]) /\ Prepared(c) /\ Alike(held[c]) /\ filled' = filled
    BY <2>1, <2>2 DEF ByteInv, BytesQuiet
  <2> QED
    BY <2>1, <2>3, AlikePrepared
<1>3. HasBuffer'
  <2> SUFFICES ASSUME NEW c \in Chunks, Claimed(c)',
                      Sharers(c)' \cap filled' # {}
               PROVE  held'[c] # NoBuf
    BY DEF HasBuffer
  <2>1. Sharers(c)' = Sharers(c)
    BY DEF Sharers
  <2> QED
    BY <2>1 DEF ClaimsShrink, BytesQuiet, HasBuffer
<1> QED
  BY <1>1, <1>2, <1>3 DEF ByteInv

(* A buffer out of NewBuf is as good as one of a pool. *)
LEMMA FreshShaped ==
  ASSUME NEW l \in Nat
  PROVE  /\ {"allocLen", "len", "offset", "skip", "data"} \subseteq
              DOMAIN NewBuf(l)
         /\ NewBuf(l).allocLen = l /\ NewBuf(l).len = l
         /\ DOMAIN NewBuf(l).data = 0 .. l - 1
BY DEF NewBuf

LEMMA ChunkBufferFields ==
  ASSUME NEW r, NEW c,
         {"allocLen", "len", "offset", "skip", "data"} \subseteq DOMAIN r
  PROVE  LET b == AsChunkBuffer(r, c)
         IN  /\ DOMAIN b = DOMAIN r
             /\ b.allocLen = r.allocLen /\ b.len = Length[c]
             /\ b.offset = Offset[c] /\ b.data = r.data
BY DEF AsChunkBuffer

LEMMA StripBufferFields ==
  ASSUME NEW r, NEW c,
         {"allocLen", "len", "offset", "skip", "data"} \subseteq DOMAIN r
  PROVE  LET b == AsStripBuffer(r, c)
         IN  /\ DOMAIN b = DOMAIN r
             /\ b.allocLen = r.allocLen /\ b.len = r.len
             /\ b.offset = Offset[c]
             /\ b.skip = (IF Offset[c] = 0 THEN HeaderLength ELSE 0)
             /\ DOMAIN b.data = DOMAIN r.data
             /\ Offset[c] = 0 =>
                  \A k \in DOMAIN b.data : k < HeaderLength => b.data[k] = k
<1> DEFINE b == AsStripBuffer(r, c)
<1>1. /\ DOMAIN b = DOMAIN r
      /\ b.allocLen = r.allocLen /\ b.len = r.len
      /\ b.offset = Offset[c]
      /\ b.skip = (IF Offset[c] = 0 THEN HeaderLength ELSE 0)
      /\ b.data = IF Offset[c] = 0 THEN WithHeader(r.data) ELSE r.data
  BY DEF AsStripBuffer
<1> HIDE DEF b
<1>2. DOMAIN b.data = DOMAIN r.data
  BY <1>1 DEF WithHeader
<1>3. ASSUME Offset[c] = 0, NEW k \in DOMAIN b.data, k < HeaderLength
      PROVE  b.data[k] = k
  <2>1. b.data = WithHeader(r.data) /\ k \in DOMAIN r.data
    BY <1>1, <1>2, <1>3
  <2> QED
    BY <1>3, <2>1 DEF WithHeader
<1> QED
  BY <1>1, <1>2, <1>3 DEF b

(* The buffer a chunk gets is shaped, whoever used it before, and set up   *)
(* for the chunk.                                                          *)
LEMMA GotBuffer ==
  ASSUME FileLayout, NEW c \in Chunks, NEW b,
         b \in Bufs => Shaped(b) /\ buf[b].allocLen >= AllocLength[c],
         held'[c] = b, filled' = filled, Sharers(c) \cap filled = {},
         LET before == IF b \in Bufs THEN buf[b] ELSE NewBuf(AllocLength[c])
         IN  buf'[b] = IF Chunked THEN AsChunkBuffer(before, c)
                                  ELSE AsStripBuffer(before, c)
  PROVE  Shaped(b)' /\ Prepared(c)'
<1> DEFINE r == IF b \in Bufs THEN buf[b] ELSE NewBuf(AllocLength[c])
           a == buf'[b]
<1>1. /\ AllocLength[c] \in Nat /\ Length[c] \in Nat
      /\ Length[c] <= AllocLength[c]
      /\ Chunked => \A d \in Chunks : AllocLength[c] = AllocLength[d]
  BY LayoutTypes DEF FileLayout
<1>2. /\ {"allocLen", "len", "offset", "skip", "data"} \subseteq DOMAIN r
      /\ r.allocLen \in Nat /\ r.allocLen >= AllocLength[c]
      /\ DOMAIN r.data = 0 .. r.allocLen - 1
      /\ IF Chunked THEN \A d \in Chunks : r.allocLen = AllocLength[d]
                    ELSE r.len = r.allocLen
  <2>1. CASE b \in Bufs
    BY <2>1 DEF Shaped
  <2>2. CASE b \notin Bufs
    BY <1>1, <2>2, FreshShaped
  <2> QED
    BY <2>1, <2>2
<1>3. a = IF Chunked THEN AsChunkBuffer(r, c) ELSE AsStripBuffer(r, c)
  OBVIOUS
<1> HIDE DEF r, a
<1>4. /\ DOMAIN a = DOMAIN r /\ a.allocLen = r.allocLen
      /\ a.offset = Offset[c] /\ DOMAIN a.data = DOMAIN r.data
      /\ Chunked => a.len = Length[c]
      /\ ~Chunked =>
           /\ a.len = r.len
           /\ a.skip = (IF Offset[c] = 0 THEN HeaderLength ELSE 0)
           /\ Offset[c] = 0 =>
                \A k \in DOMAIN a.data : k < HeaderLength => a.data[k] = k
  <2>1. CASE Chunked
    BY <1>2, <1>3, <2>1, ChunkBufferFields
  <2>2. CASE ~Chunked
    BY <1>2, <1>3, <2>2, StripBufferFields
  <2> QED
    BY <2>1, <2>2
<1>5. a.len \in 0 .. a.allocLen /\ a.len >= Length[c]
  BY <1>1, <1>2, <1>4
<1>6. Shaped(b)'
  <2>1. /\ {"allocLen", "len", "offset", "skip", "data"} \subseteq DOMAIN a
        /\ a.allocLen \in Nat /\ DOMAIN a.data = 0 .. a.allocLen - 1
        /\ IF Chunked THEN \A d \in Chunks : a.allocLen = AllocLength[d]
                      ELSE a.len = a.allocLen
    BY <1>2, <1>4
  <2> QED
    BY <1>5, <2>1 DEF Shaped, a
<1>7. Prepared(c)'
  <2>1. Sharers(c)' \cap filled' = {}
    BY DEF Sharers
  <2>2. buf'[held'[c]] = a
    BY DEF a
  <2> QED
    BY <1>4, <1>5, <2>1, <2>2 DEF Prepared
<1> QED
  BY <1>6, <1>7

LEMMA GetBytes ==
  ASSUME FileLayout, AliasInv, ClaimsShrink, ByteInv, HasBuffer,
         NEW w \in Workers, GetBuffer(w)
  PROVE  ByteInv' /\ HasBuffer'
<1>1. /\ WriteInv /\ TypeInv /\ Tracked /\ PoolInv /\ PoolTypes
  BY DEF AliasInv, WriteInv, PoolInv
<1>2. PICK c, b : Gets(w, c, b)
  BY <1>1, GetEffect
<1>3. /\ c \in Chunks /\ c \in ChunksOf[strip[w]] /\ held[c] = NoBuf
      /\ b # NoBuf /\ held'[c] = b
      /\ \A d \in Chunks : Claimed(d) => held[d] # b
      /\ Bufs' = Bufs \cup {b}
      /\ \A x \in Bufs : x # b => buf'[x] = buf[x]
      /\ \A d \in Chunks : d # c => held'[d] = held[d]
  BY <1>2 DEF Gets
<1>4. pc[w] = "fill" /\ filled' = filled
  BY DEF GetBuffer, vars, bufferVars
<1>5. issued[c] = 0
  BY <1>1, <1>3, <1>4, WantingFresh
<1>6. Sharers(c) \cap filled = {}
  BY <1>3, <1>5 DEF HasBuffer, Claimed
<1>7. Shaped(b)' /\ Prepared(c)'
  <2>1. /\ b \in Bufs => Shaped(b) /\ buf[b].allocLen >= AllocLength[c]
        /\ LET before == IF b \in Bufs THEN buf[b] ELSE NewBuf(AllocLength[c])
           IN  buf'[b] = IF Chunked THEN AsChunkBuffer(before, c)
                                    ELSE AsStripBuffer(before, c)
    BY <1>2 DEF Gets, ByteInv
  <2> QED
    BY <1>3, <1>4, <1>6, <2>1, GotBuffer
<1>8. \A x \in Bufs' : Shaped(x)'
  <2>1. ASSUME NEW x \in Bufs, x # b
        PROVE  Shaped(x)'
    <3>1. Shaped(x) /\ Alike(x)
      BY <1>3, <2>1 DEF ByteInv, Alike
    <3> QED
      BY <3>1, AlikeShaped
  <2> QED
    BY <1>3, <1>7, <2>1
<1>9. ASSUME NEW d \in Chunks, d # c, Claimed(d)', held'[d] # NoBuf
      PROVE  Prepared(d)'
  <2>1. Claimed(d) /\ held'[d] = held[d]
    BY <1>3, <1>9 DEF ClaimsShrink
  <2>2. held[d] \in Bufs /\ held[d] # b
    BY <1>1, <1>3, <1>9, <2>1 DEF PoolTypes
  <2>3. Shaped(held[d]) /\ Prepared(d) /\ Alike(held[d])
    BY <1>3, <1>9, <2>1, <2>2 DEF ByteInv, Alike
  <2> QED
    BY <1>4, <2>1, <2>3, AlikePrepared
<1>10. HasBuffer'
  <2>1. \A d : Sharers(d)' = Sharers(d)
    BY DEF Sharers
  <2> QED
    BY <1>3, <1>4, <2>1 DEF HasBuffer, ClaimsShrink
<1> QED
  BY <1>7, <1>8, <1>9, <1>10 DEF ByteInv

LEMMA FilledBuffer ==
  ASSUME NEW r, NEW x, "data" \in DOMAIN r
  PROVE  LET b == [r EXCEPT !.data = [k \in DOMAIN @ |-> x[k]]]
         IN  /\ DOMAIN b = DOMAIN r
             /\ b.data = [k \in DOMAIN r.data |-> x[k]]
             /\ \A f \in DOMAIN r : f # "data" => b[f] = r[f]
OBVIOUS

(* run() leaves a buffer with the bytes that belong there. *)
LEMMA FilledPrepared ==
  ASSUME NEW c \in Chunks, Shaped(held[c]), Prepared(c), held'[c] = held[c],
         NEW s, filled' = filled \cup {s}, Offset[c] \in Nat,
         buf'[held[c]] = [buf[held[c]] EXCEPT !.data =
                            [k \in DOMAIN @ |-> FilledByte(s, c, k)]]
  PROVE  Prepared(c)'
<1> DEFINE b == buf[held[c]]
           a == buf'[held[c]]
<1>1. /\ {"allocLen", "len", "offset", "skip", "data"} \subseteq DOMAIN b
      /\ b.allocLen \in Nat /\ b.len \in Nat /\ b.len <= b.allocLen
      /\ DOMAIN b.data = 0 .. b.allocLen - 1
      /\ ~Chunked => b.len = b.allocLen
  BY DEF Shaped
<1>2. /\ b.offset = Offset[c] /\ b.len >= Length[c]
      /\ Chunked => b.len = Length[c]
      /\ ~Chunked =>
           /\ b.skip = (IF Offset[c] = 0 THEN HeaderLength ELSE 0)
           /\ Offset[c] = 0 =>
                \A k \in DOMAIN b.data : k < HeaderLength => b.data[k] = k
      /\ \A t \in Sharers(c) \cap filled : \A k \in 0 .. b.len - 1 :
           Gives(t, c, k) => b.data[k] = Offset[c] + k
  BY DEF Prepared
<1>3. \A k : FilledByte(s, c, k) =
               IF Chunked
               THEN IF Offset[c] + k \in StripBytes[s]
                    THEN Offset[c] + k ELSE b.data[k]
               ELSE IF b.skip <= k /\ k < b.len
                    THEN b.offset + k ELSE b.data[k]
  BY DEF FilledByte
<1>4. a = [b EXCEPT !.data = [k \in DOMAIN @ |-> FilledByte(s, c, k)]]
  OBVIOUS
<1> HIDE DEF a, b
<1>5. /\ a.offset = b.offset /\ a.len = b.len /\ a.skip = b.skip
      /\ DOMAIN a.data = DOMAIN b.data
      /\ \A k \in DOMAIN b.data : a.data[k] = FilledByte(s, c, k)
  <2>1. /\ a.offset = b.offset /\ a.len = b.len /\ a.skip = b.skip
        /\ a.data = [k \in DOMAIN b.data |-> FilledByte(s, c, k)]
    BY <1>1, <1>4
  <2> QED
    BY <2>1
<1>6. ASSUME ~Chunked
      PROVE  /\ Offset[c] = 0 =>
                  \A k \in DOMAIN a.data : k < HeaderLength => a.data[k] = k
             /\ \A k \in 0 .. b.len - 1 : a.data[k] = Offset[c] + k
  <2>1. HeaderLength \in Nat
    BY BufferAssumption
  <2>2. ASSUME NEW k \in DOMAIN b.data
        PROVE  /\ k \in Nat /\ k < b.len
               /\ a.data[k] = IF b.skip <= k /\ k < b.len
                              THEN Offset[c] + k ELSE b.data[k]
    BY <1>1, <1>2, <1>3, <1>5, <1>6, <2>2
  <2>3. CASE Offset[c] = 0
    <3>1. \A k \in DOMAIN b.data :
            a.data[k] = IF HeaderLength <= k THEN k ELSE b.data[k]
      BY <1>2, <1>6, <2>1, <2>2, <2>3
    <3>2. \A k \in DOMAIN b.data : a.data[k] = k
      BY <1>2, <1>6, <2>1, <2>2, <2>3, <3>1
    <3> QED
      BY <1>1, <1>5, <1>6, <2>2, <2>3, <3>2
  <2>4. CASE Offset[c] # 0
    <3>1. \A k \in DOMAIN b.data : a.data[k] = Offset[c] + k
      BY <1>2, <1>6, <2>2, <2>4
    <3> QED
      BY <1>1, <1>6, <2>4, <3>1
  <2> QED
    BY <2>3, <2>4
<1>7. ASSUME NEW t \in Sharers(c)' \cap filled', NEW k \in 0 .. b.len - 1,
             Gives(t, c, k)'
      PROVE  a.data[k] = Offset[c] + k
  <2>1. t \in Sharers(c) /\ (t \in filled \/ t = s) /\ Gives(t, c, k)
    BY <1>7 DEF Sharers, Gives
  <2>2. CASE ~Chunked
    BY <1>6, <2>2
  <2>3. CASE Chunked
    <3>1. k \in DOMAIN b.data
      BY <1>1
    <3>2. a.data[k] = IF Offset[c] + k \in StripBytes[s]
                      THEN Offset[c] + k ELSE b.data[k]
      BY <1>3, <1>5, <2>3, <3>1
    <3>3. CASE t = s
      BY <2>1, <2>3, <3>2, <3>3 DEF Gives
    <3>4. CASE t \in filled
      BY <1>2, <2>1, <3>2, <3>4
    <3> QED
      BY <2>1, <3>3, <3>4
  <2> QED
    BY <2>2, <2>3
<1>8. buf'[held'[c]] = a
  BY DEF a
<1> QED
  BY <1>2, <1>5, <1>6, <1>7, <1>8 DEF Prepared

LEMMA FillBytes ==
  ASSUME FileLayout, AliasInv, ClaimsShrink, ByteInv, HasBuffer,
         NEW w \in Workers, FillStripBuffers(w)
  PROVE  ByteInv' /\ HasBuffer'
<1> DEFINE s == strip[w]
           D == ChunksOf[s]
           of(b) == CHOOSE d \in D : held[d] = b
<1>1. /\ WriteInv /\ TypeInv /\ Tracked /\ PoolInv /\ PoolTypes
  BY DEF AliasInv, WriteInv, PoolInv
<1>2. /\ pc[w] = "fill" /\ filled' = filled \cup {s} /\ held' = held
      /\ Wanting(w) = {}
  BY DEF FillStripBuffers, FillStrip
<1>3. buf' = [b \in Bufs |->
                IF b \notin Held(D) THEN buf[b]
                ELSE [buf[b] EXCEPT !.data =
                        [k \in DOMAIN @ |-> FilledByte(s, of(b), k)]]]
  BY DEF FillStripBuffers, Bufs
<1>4. s \in Strips /\ D \subseteq Chunks
  <2>1. s \in Strips
    BY <1>1, <1>2, TaskTypes
  <2> QED
    BY <2>1, EncodeAssumption
<1> HIDE DEF s
<1>5. \A d \in D : held[d] # NoBuf
  BY <1>2 DEF Wanting, s
<1>6. \A d \in D : Claimed(d)
  BY <1>1, <1>2, <1>4, WantingFresh DEF Claimed, s
<1>7. \A d \in D : Unaliased(d)
  BY <1>1, <1>4, <1>5, <1>6 DEF PoolInv
<1>8. \A c \in Chunks : Claimed(c) => \A d \in D : held[d] = held[c] => d = c
  BY <1>4, <1>7 DEF Unaliased
<1>9. Bufs' = Bufs
  BY <1>3 DEF Bufs
<1>10. ASSUME NEW b \in Bufs
       PROVE  Shaped(b)'
  <2>1. Shaped(b)
    BY DEF ByteInv
  <2>2. \/ buf'[b] = buf[b]
        \/ \E x : buf'[b] = [buf[b] EXCEPT !.data = [k \in DOMAIN @ |-> x[k]]]
    <3> DEFINE x == [k \in DOMAIN buf[b].data |-> FilledByte(s, of(b), k)]
    <3>1. \/ buf'[b] = buf[b]
          \/ buf'[b] = [buf[b] EXCEPT !.data = x]
      BY <1>3
    <3>2. x = [k \in DOMAIN buf[b].data |-> x[k]]
      OBVIOUS
    <3> HIDE DEF x
    <3>3. [buf[b] EXCEPT !.data = x] =
            [buf[b] EXCEPT !.data = [k \in DOMAIN @ |-> x[k]]]
      BY <3>2
    <3> QED
      BY <3>1, <3>3
  <2>3. CASE buf'[b] = buf[b]
    BY <2>1, <2>3 DEF Shaped
  <2>4. ASSUME NEW x,
               buf'[b] = [buf[b] EXCEPT !.data = [k \in DOMAIN @ |-> x[k]]]
        PROVE  Shaped(b)'
    <3>1. {"allocLen", "len", "offset", "skip", "data"} \subseteq DOMAIN buf[b]
      BY <2>1 DEF Shaped
    <3>2. /\ DOMAIN buf'[b] = DOMAIN buf[b]
          /\ buf'[b].allocLen = buf[b].allocLen /\ buf'[b].len = buf[b].len
          /\ DOMAIN buf'[b].data = DOMAIN buf[b].data
      BY <2>4, <3>1
    <3> QED
      BY <2>1, <3>2 DEF Shaped
  <2> QED
    BY <2>2, <2>3, <2>4
<1>11. ASSUME NEW c \in Chunks, Claimed(c)', held'[c] # NoBuf
       PROVE  Prepared(c)'
  <2>1. Claimed(c) /\ held'[c] = held[c] /\ held[c] # NoBuf
    BY <1>2, <1>11 DEF ClaimsShrink
  <2>2. held[c] \in Bufs
    BY <1>1, <2>1 DEF PoolTypes
  <2>3. Shaped(held[c]) /\ Prepared(c)
    BY <2>1, <2>2 DEF ByteInv
  <2>4. CASE c \in D
    <3>1. held[c] \in Held(D)
      BY <2>1, <2>4 DEF Held
    <3>2. of(held[c]) = c
      BY <1>8, <2>1, <2>4
    <3> HIDE DEF of
    <3>3. buf'[held[c]] = [buf[held[c]] EXCEPT !.data =
                             [k \in DOMAIN @ |-> FilledByte(s, c, k)]]
      BY <1>3, <2>2, <3>1, <3>2
    <3>4. Offset[c] \in Nat
      BY LayoutTypes
    <3> HIDE DEF D
    <3> QED
      BY <1>2, <2>1, <2>3, <3>3, <3>4, FilledPrepared
  <2>5. CASE c \notin D
    <3>1. held[c] \notin Held(D)
      BY <1>8, <2>1, <2>5 DEF Held
    <3>2. Alike(held[c])
      BY <1>3, <2>2, <3>1 DEF Alike
    <3>3. Sharers(c) \cap filled' = Sharers(c) \cap filled
      BY <1>2, <2>5 DEF Sharers
    <3> QED
      BY <2>1, <2>3, <3>2, <3>3, AlikePrepared
  <2> QED
    BY <2>4, <2>5
<1>12. HasBuffer'
  <2> SUFFICES ASSUME NEW c \in Chunks, Claimed(c)',
                      Sharers(c)' \cap filled' # {}
               PROVE  held[c] # NoBuf
    BY <1>2 DEF HasBuffer
  <2>1. Claimed(c) /\ Sharers(c)' = Sharers(c)
    BY DEF ClaimsShrink, Sharers
  <2>2. CASE s \in Sharers(c)
    BY <1>5, <2>2 DEF Sharers
  <2>3. CASE s \notin Sharers(c)
    BY <1>2, <2>1, <2>3 DEF HasBuffer
  <2> QED
    BY <2>2, <2>3
<1> QED
  BY <1>9, <1>10, <1>11, <1>12 DEF ByteInv

LEMMA SameAlike ==
  ASSUME \/ buf' = buf
         \/ \E n : buf' = [b \in Bufs |-> [buf[b] EXCEPT !.refCount = n[b]]]
  PROVE  Bufs' = Bufs /\ \A b \in Bufs : Alike(b)
<1>1. CASE buf' = buf
  BY <1>1 DEF Bufs, Alike
<1>2. ASSUME NEW n,
             buf' = [b \in Bufs |-> [buf[b] EXCEPT !.refCount = n[b]]]
      PROVE  Bufs' = Bufs /\ \A b \in Bufs : Alike(b)
  <2>1. Bufs' = Bufs
    BY <1>2 DEF Bufs
  <2>2. \A b \in Bufs : buf'[b] = [buf[b] EXCEPT !.refCount = n[b]]
    BY <1>2
  <2> QED
    BY <2>1, <2>2 DEF Alike
<1> QED
  BY <1>1, <1>2

LEMMA RefAlike ==
  ASSUME NEW C, buf' = Ref(C) \/ buf' = Unref(C)
  PROVE  Bufs' = Bufs /\ \A b \in Bufs : Alike(b)
<1> DEFINE k(b) == Cardinality({ c \in C : held[c] = b })
           n == [b \in Bufs |-> IF buf' = Ref(C) THEN buf[b].refCount + k(b)
                                ELSE buf[b].refCount - k(b)]
<1>1. CASE buf' = Ref(C)
  <2>1. buf' = [b \in Bufs |-> [buf[b] EXCEPT !.refCount = @ + k(b)]]
    BY <1>1 DEF Ref, Bufs
  <2>2. \A b \in Bufs : n[b] = buf[b].refCount + k(b)
    BY <1>1
  <2> HIDE DEF n, k
  <2>3. buf' = [b \in Bufs |-> [buf[b] EXCEPT !.refCount = n[b]]]
    BY <2>1, <2>2
  <2> QED
    BY <2>3, SameAlike
<1>2. CASE buf' # Ref(C)
  <2>1. buf' = [b \in Bufs |-> [buf[b] EXCEPT !.refCount = @ - k(b)]]
    BY <1>2 DEF Unref, Bufs
  <2>2. \A b \in Bufs : n[b] = buf[b].refCount - k(b)
    BY <1>2
  <2> HIDE DEF n, k
  <2>3. buf' = [b \in Bufs |-> [buf[b] EXCEPT !.refCount = n[b]]]
    BY <2>1, <2>2
  <2> QED
    BY <2>3, SameAlike
<1> QED
  BY <1>1, <1>2

LEMMA CloseAlike ==
  ASSUME MainCloseBuffers
  PROVE  Bufs' = Bufs /\ \A b \in Bufs : Alike(b)
<1> DEFINE j(b) == Cardinality({ w \in Workers : b \in pool[w] })
           k(b) == Cardinality({ c \in Chunks : Chunked /\ held[c] = b })
           n == [b \in Bufs |-> buf[b].refCount - j(b) - k(b)]
<1>1. buf' = [b \in Bufs |-> [buf[b] EXCEPT !.refCount = @ - j(b) - k(b)]]
  BY DEF MainCloseBuffers, Bufs
<1>2. \A b \in Bufs : n[b] = buf[b].refCount - j(b) - k(b)
  OBVIOUS
<1> HIDE DEF n, j, k
<1>3. buf' = [b \in Bufs |-> [buf[b] EXCEPT !.refCount = n[b]]]
  BY <1>1, <1>2
<1> QED
  BY <1>3, SameAlike

LEMMA FilledStill ==
  ASSUME NEW w \in Workers,
         \/ AcquireBuffer(w) \/ PwritevAgain(w) \/ PwritevLast(w)
         \/ PwritevFails(w) \/ SubmitBuffers(w) \/ ReapBuffers(w)
         \/ KernelReads(w) \/ OtherWork(w)
  PROVE  filled' = filled
<1> USE DEF bufferVars
<1>1. CASE AcquireBuffer(w)
  BY <1>1 DEF AcquireBuffer, Acquire
<1>2. CASE PwritevAgain(w)
  BY <1>2 DEF PwritevAgain, vars
<1>3. CASE PwritevLast(w) \/ PwritevFails(w)
  <2>1. WriteSync(w) \/ WriteShort(w) \/ WriteFails(w)
    BY <1>3 DEF PwritevLast, PwritevFails
  <2> QED
    BY <2>1 DEF WriteSync, WriteShort, WriteFails
<1>4. CASE SubmitBuffers(w) \/ ReapBuffers(w)
  BY <1>4 DEF SubmitBuffers, Submit, ReapBuffers, Reap
<1>5. CASE KernelReads(w)
  BY <1>5 DEF KernelReads, Kernel, KernelWrites, KernelWritesShort,
              KernelFails
<1>6. CASE OtherWork(w)
  BY <1>6 DEF OtherWork, TakeStrip, NothingToWrite, BeginWrite, EndReap,
              RingGone, Count, EndCount, BeginFinish, Seal
<1> QED
  BY <1>1, <1>2, <1>3, <1>4, <1>5, <1>6

LEMMA ReturnedKept ==
  ASSUME NEW C, held' = Returned(C), \A c \in C : ~Claimed(c)',
         held \in [Chunks -> Bufs \cup {NoBuf}]
  PROVE  \A c \in Chunks : Claimed(c)' => held'[c] = held[c]
BY DEF Returned

LEMMA WorkBytes ==
  ASSUME AliasInv, Later, ~aborted, NEW w \in Workers,
         \/ AcquireBuffer(w) \/ PwritevAgain(w) \/ PwritevLast(w)
         \/ PwritevFails(w) \/ SubmitBuffers(w) \/ ReapBuffers(w)
         \/ KernelReads(w) \/ OtherWork(w)
  PROVE  BytesQuiet
<1>1. filled' = filled
  BY FilledStill
<1>2. held \in [Chunks -> Bufs \cup {NoBuf}]
  BY DEF AliasInv, PoolInv, PoolTypes
<1>3. CASE AcquireBuffer(w)
  <2>1. held' = held /\ (buf' = buf \/ \E C : buf' = Ref(C))
    BY <1>3 DEF AcquireBuffer
  <2> QED
    BY <1>1, <2>1, SameAlike, RefAlike DEF BytesQuiet
<1>4. CASE \/ PwritevAgain(w) \/ SubmitBuffers(w) \/ KernelReads(w)
           \/ OtherWork(w)
  <2>1. buf' = buf /\ held' = held
    BY <1>4 DEF PwritevAgain, SubmitBuffers, KernelReads, OtherWork
  <2> QED
    BY <1>1, <2>1, SameAlike DEF BytesQuiet
<1>5. CASE PwritevLast(w) \/ PwritevFails(w)
  <2>1. /\ buf' = buf /\ Reclaim(w, batch[w])
        /\ \A c \in batch[w] : ~Claimed(c)'
    BY <1>5, LeaveUnclaims
  <2>2. held' = Returned(batch[w])
    BY <2>1 DEF Reclaim
  <2> QED
    BY <1>1, <1>2, <2>1, <2>2, SameAlike, ReturnedKept DEF BytesQuiet
<1>6. CASE ReapBuffers(w)
  <2>1. buf' = buf /\ held' = Returned(Head(answered[w]))
    BY <1>6 DEF ReapBuffers, Reclaim
  <2>2. \A c \in Head(answered[w]) : ~Claimed(c)'
    BY <1>6, ReapSeen, SeenUnclaims
  <2> QED
    BY <1>1, <1>2, <2>1, <2>2, SameAlike, ReturnedKept DEF BytesQuiet
<1> QED
  BY <1>3, <1>4, <1>5, <1>6

LEMMA MainBytes ==
  ASSUME AliasInv, Later,
         CloseRingsBuffers \/ MainDrainBuffers \/ MainCloseBuffers
  PROVE  BytesQuiet
<1>1. filled' = filled
  BY DEF CloseRingsBuffers, CloseRings, MainDrainBuffers, MainDrain,
         MainCloseBuffers, MainClose, bufferVars
<1>2. TypeInv /\ held \in [Chunks -> Bufs \cup {NoBuf}]
  BY DEF AliasInv, WriteInv, PoolInv, PoolTypes
<1>3. CASE CloseRingsBuffers
  <2>1. PICK v \in ringsOpen :
          \/ /\ RingSeen(v)
             /\ buf' = Unref(Head(answered[v]))
             /\ held' = Returned(Head(answered[v]))
          \/ UNCHANGED <<buf, held>>
    BY <1>2, <1>3, CloseSteps
  <2>2. CASE UNCHANGED <<buf, held>>
    BY <1>1, <2>2, SameAlike DEF BytesQuiet
  <2>3. CASE /\ RingSeen(v)
             /\ buf' = Unref(Head(answered[v]))
             /\ held' = Returned(Head(answered[v]))
    <3>1. v \in Workers
      BY <1>2, TrackedTypes
    <3>2. \A c \in Head(answered[v]) : ~Claimed(c)'
      BY <2>3, <3>1, SeenUnclaims
    <3> QED
      BY <1>1, <1>2, <2>3, <3>2, RefAlike, ReturnedKept DEF BytesQuiet
  <2> QED
    BY <2>1, <2>2, <2>3
<1>4. CASE MainDrainBuffers
  <2>1. buf' = buf /\ held' = held
    BY <1>4 DEF MainDrainBuffers
  <2> QED
    BY <1>1, <2>1, SameAlike DEF BytesQuiet
<1>5. CASE MainCloseBuffers
  <2>1. held' = held
    BY <1>5 DEF MainCloseBuffers
  <2> QED
    BY <1>1, <1>5, <2>1, CloseAlike DEF BytesQuiet
<1> QED
  BY <1>3, <1>4, <1>5

LEMMA BytesStep ==
  ASSUME FileLayout, AliasInv, ByteInv, HasBuffer, [BufferNext]_bvars
  PROVE  ByteInv' /\ HasBuffer'
<1>1. Later /\ ClaimsShrink
  BY TrackedStep
<1>2. PoolTypes
  BY DEF AliasInv, PoolInv
<1>3. CASE UNCHANGED bvars \/ BufferStopped
  <2>1. buf' = buf /\ held' = held /\ filled' = filled
    BY <1>3 DEF BufferStopped, bvars, vars, bufferVars
  <2>2. BytesQuiet
    BY <2>1, SameAlike DEF BytesQuiet
  <2> QED
    BY <1>1, <1>2, <2>2, QuietBytes
<1>4. ASSUME ~aborted, NEW w \in Workers, BufferStep(w)
      PROVE  ByteInv' /\ HasBuffer'
  <2>1. CASE GetBuffer(w)
    BY <1>1, <2>1, GetBytes
  <2>2. CASE FillStripBuffers(w)
    BY <1>1, <2>2, FillBytes
  <2>3. CASE \/ AcquireBuffer(w) \/ PwritevAgain(w) \/ PwritevLast(w)
             \/ PwritevFails(w) \/ SubmitBuffers(w) \/ ReapBuffers(w)
             \/ KernelReads(w) \/ OtherWork(w)
    <3>1. BytesQuiet
      BY <1>1, <1>4, <2>3, WorkBytes
    <3> QED
      BY <1>1, <1>2, <3>1, QuietBytes
  <2> QED
    BY <1>4, <2>1, <2>2, <2>3 DEF BufferStep
<1>5. CASE CloseRingsBuffers \/ MainDrainBuffers \/ MainCloseBuffers
  <2>1. BytesQuiet
    BY <1>1, <1>5, MainBytes
  <2> QED
    BY <1>1, <1>2, <2>1, QuietBytes
<1> QED
  BY <1>3, <1>4, <1>5 DEF BufferNext

-----------------------------------------------------------------------------
(* The requests and the loop *)

LEMMA RunStep ==
  ASSUME FileLayout, FileInv, [BufferNext]_bvars
  PROVE  RunInv'
<1>1. TypeInv /\ BatchIssued /\ RunInv
  BY DEF FileInv, AliasInv, WriteInv, Gathered
<1>2. \A r : Contiguous(r)' <=> Contiguous(r)
  BY DEF Contiguous
<1>3. SUFFICES ASSUME NEW v \in Workers, NEW r \in inflight'[v]
               PROVE  r \in inflight[v] \/ Contiguous(r)
  BY <1>1, <1>2 DEF RunInv
<1>4. inflight \in [Workers -> SUBSET SUBSET Chunks]
  BY <1>1, TrackedTypes
<1>5. CASE RingsStill
  BY <1>5 DEF RingsStill
<1>6. CASE UNCHANGED bvars \/ BufferStopped
  BY <1>6 DEF BufferStopped, bvars, vars, ringVars
<1>7. ASSUME ~aborted, NEW w \in Workers, BufferStep(w)
      PROVE  r \in inflight[v] \/ Contiguous(r)
  <2>1. CASE \/ GetBuffer(w) \/ FillStripBuffers(w) \/ AcquireBuffer(w)
             \/ OtherWork(w) \/ PwritevAgain(w) \/ PwritevLast(w)
             \/ PwritevFails(w)
    BY <1>5, <2>1, OtherStill, WriteStill
  <2>2. CASE SubmitBuffers(w)
    <3>1. pc[w] = "write"
      BY <2>2 DEF SubmitBuffers, Submit
    <3>2. Contiguous(batch[w])
      BY <1>7, <3>1, WritingReady
    <3>3. inflight' = [inflight EXCEPT ![w] = @ \cup {batch[w]}]
      BY <2>2 DEF SubmitBuffers, Submit
    <3> QED
      BY <1>4, <3>2, <3>3
  <2>3. CASE ReapBuffers(w)
    BY <2>3, ReapSeen DEF RingSeen
  <2>4. CASE KernelReads(w)
    <3>1. PICK q : RingAnswers(w, q)
      BY <1>1, <2>4, KernelAnswers
    <3> QED
      BY <1>4, <3>1 DEF RingAnswers
  <2> QED
    BY <1>7, <2>1, <2>2, <2>3, <2>4 DEF BufferStep
<1>8. CASE CloseRingsBuffers
  BY <1>1, <1>8, CloseSteps DEF RingSeen, RingCloses
<1>9. CASE MainDrainBuffers \/ MainCloseBuffers
  BY <1>5, <1>9, MainStill
<1> QED
  BY <1>6, <1>7, <1>8, <1>9 DEF BufferNext

LEMMA RingsClose ==
  ASSUME TypeInv, [BufferNext]_bvars
  PROVE  ringsOpen' \subseteq ringsOpen
<1>1. CASE UNCHANGED bvars \/ BufferStopped
  BY <1>1 DEF BufferStopped, bvars, vars, ringVars
<1>2. ASSUME NEW w \in Workers, BufferStep(w)
      PROVE  ringsOpen' \subseteq ringsOpen
  <2>1. CASE \/ GetBuffer(w) \/ FillStripBuffers(w) \/ AcquireBuffer(w)
             \/ OtherWork(w) \/ PwritevAgain(w) \/ PwritevLast(w)
             \/ PwritevFails(w)
    <3>1. RingsStill
      BY <2>1, OtherStill, WriteStill
    <3> QED
      BY <3>1 DEF RingsStill
  <2>2. CASE SubmitBuffers(w)
    BY <2>2 DEF SubmitBuffers, Submit
  <2>3. CASE ReapBuffers(w)
    BY <2>3 DEF ReapBuffers, Reap
  <2>4. CASE KernelReads(w)
    BY <2>4 DEF KernelReads, Kernel, KernelWrites, KernelWritesShort,
                KernelFails
  <2> QED
    BY <1>2, <2>1, <2>2, <2>3, <2>4 DEF BufferStep
<1>3. CASE CloseRingsBuffers
  BY <1>3, CloseSteps DEF RingSeen, RingCloses
<1>4. CASE MainDrainBuffers \/ MainCloseBuffers
  BY <1>4, MainStill DEF RingsStill
<1> QED
  BY <1>1, <1>2, <1>3, <1>4 DEF BufferNext

(* A worker that writes stays at it until it has handed its batch over. *)
LEMMA WriterStays ==
  ASSUME WriteInv, ~aborted, [Next]_vars, issued' = issued,
         NEW w \in Workers, pc[w] = "write"
  PROVE  pc'[w] = "write" /\ batch'[w] = batch[w]
<1> USE TaskTypes, TrackedTypes
<1>0. TypeInv /\ BatchPlace /\ BatchIssued
  BY DEF WriteInv, Gathered
<1>1. batch[w] # {} /\ batch[w] \in SUBSET Chunks
  BY <1>0 DEF BatchPlace
<1>2. CASE UNCHANGED vars
  BY <1>2 DEF vars, workerVars
<1>3. ASSUME NEW v \in Workers, Acquire(v) \/ BeginWrite(v) \/ Count(v)
      PROVE  pc'[w] = "write" /\ batch'[w] = batch[w]
  <2>1. v # w
    BY <1>3 DEF Acquire, BeginWrite, Count
  <2>2. CASE Acquire(v)
    BY <1>0, <2>1, <2>2 DEF Acquire
  <2>3. CASE BeginWrite(v)
    BY <1>0, <2>1, <2>3 DEF BeginWrite, Goto
  <2>4. CASE Count(v)
    BY <1>0, <2>1, <2>4 DEF Count
  <2> QED
    BY <1>3, <2>2, <2>3, <2>4
<1>4. ASSUME NEW v \in Workers, Issues(v)
      PROVE  FALSE
  <2>1. pc[v] = "write" /\ Issue(v)
    BY <1>4 DEF Issues
  <2>2. batch[v] # {} /\ batch[v] \in SUBSET Chunks
    BY <1>0, <2>1 DEF BatchPlace
  <2>3. PICK c \in batch[v] : c \in Chunks
    BY <2>2
  <2>4. issued[c] = 0
    BY <1>0, <2>1 DEF BatchIssued
  <2>5. issued'[c] = 1
    BY <2>1, <2>3, <2>4 DEF Issue
  <2> QED
    BY <2>4, <2>5
<1>5. CASE Elsewhere
  BY <1>1, <1>5 DEF Elsewhere
<1>6. [Next]_vars => Next \/ UNCHANGED vars
  OBVIOUS
<1> QED
  BY <1>0, <1>2, <1>3, <1>4, <1>5, <1>6, BatchKinds

(* What is written is right, or was there before. *)
FileGrows == \A p \in 0 .. FileSize - 1 : file'[p] \in {file[p], p}

(* Worker w goes on with its write, where it is at it. *)
StaysAt(w) ==
  pc[w] = "write" /\ w \notin ringsOpen =>
    pc'[w] = "write" /\ batch'[w] = batch[w]

LEMMA LoopStays ==
  ASSUME NEW w \in Workers, LoopOf(w), StaysAt(w), FileGrows,
         ringsOpen' \subseteq ringsOpen, reached'[w] = reached[w]
  PROVE  LoopOf(w)'
<1>1. CASE reached[w] > 0
  <2>1. /\ pc[w] = "write" /\ w \notin ringsOpen
        /\ pc'[w] = "write" /\ w \notin ringsOpen' /\ batch'[w] = batch[w]
    BY <1>1 DEF LoopOf, StaysAt
  <2> DEFINE from == Offset[Min(batch[w])]
             n == reached[w]
  <2>2. \A p \in 0 .. FileSize - 1 : from <= p /\ p < from + n => file[p] = p
    BY <1>1 DEF LoopOf
  <2>3. Offset[Min(batch'[w])] = from /\ reached'[w] = n
    BY <2>1
  <2> HIDE DEF from, n
  <2>4. \A p \in 0 .. FileSize - 1 : from <= p /\ p < from + n => file'[p] = p
    BY <2>2 DEF FileGrows
  <2> QED
    BY <2>1, <2>3, <2>4 DEF LoopOf
<1>2. CASE ~(reached[w] > 0)
  BY <1>2 DEF LoopOf
<1> QED
  BY <1>1, <1>2

LEMMA LoopQuiet ==
  ASSUME FileInv, ~aborted, [BufferNext]_bvars, issued' = issued, FileGrows,
         UNCHANGED loopVars
  PROVE  LoopInv'
<1>1. WriteInv /\ TypeInv /\ LoopInv
  BY DEF FileInv, AliasInv, WriteInv
<1>2. ringsOpen' \subseteq ringsOpen
  BY <1>1, RingsClose
<1>3. \A w \in Workers : StaysAt(w)
  BY <1>1, BufferSteps, WriterStays DEF StaysAt
<1>4. \A w \in Workers : LoopOf(w)
  BY <1>1 DEF LoopInv
<1>5. bytesWritten' = bytesWritten /\ reached' = reached
  BY DEF loopVars
<1>6. \A w \in Workers : LoopOf(w)'
  BY <1>2, <1>3, <1>4, <1>5, LoopStays
<1> QED
  BY <1>1, <1>5, <1>6 DEF LoopInv

LEMMA MaxTwo ==
  ASSUME NEW m \in Nat, NEW n \in Nat
  PROVE  /\ Max({m, n}) \in {m, n} /\ m <= Max({m, n}) /\ n <= Max({m, n})
         /\ Max({m, n}) \in Nat /\ Max({n, m}) = Max({m, n})
<1> DEFINE M == {m, n}
           Top(x) == x \in M /\ \A y \in M : x >= y
<1>1. \E x \in M : \A y \in M : x >= y
  <2>1. CASE m <= n
    BY <2>1
  <2>2. CASE n <= m
    BY <2>2
  <2> QED
    BY <2>1, <2>2
<1>2. Max(M) \in M /\ \A y \in M : Max(M) >= y
  BY <1>1 DEF Max
<1>3. {n, m} = {m, n}
  OBVIOUS
<1>4. Max({m, n}) \in {m, n} /\ Max({m, n}) >= m /\ Max({m, n}) >= n
  BY <1>2
<1> QED
  BY <1>3, <1>4

LEMMA TotalWithin ==
  ASSUME FileLayout, NEW C \in SUBSET Chunks, Ready(C)
  PROVE  /\ TotalBytes(C) \in Nat /\ BytesToWrite(C) \in Nat
         /\ TotalBytes(C) <= BytesToWrite(C)
<1> DEFINE g == [c \in C |-> buf[held[c]].len]
<1>1. C \in SUBSET C
  OBVIOUS
<1>2. /\ Summand(Lens(C)) /\ BytesToWrite(C) = SumFunction(Lens(C))
      /\ DOMAIN Lens(C) = C /\ \A c \in C : Lens(C)[c] = IovLen(c)
  BY <1>1, LensSummand
<1>3. \A c \in C : buf[held[c]].len \in Nat /\ buf[held[c]].len <= IovLen(c)
  BY IovTypes
<1>4. /\ DOMAIN g \subseteq DOMAIN Lens(C)
      /\ \A c \in DOMAIN g : g[c] \in Nat /\ g[c] <= Lens(C)[c]
  BY <1>2, <1>3
<1>5. TotalBytes(C) = SumFunction(g)
  BY DEF TotalBytes
<1> HIDE DEF g
<1>6. Summand(g) /\ SumFunction(g) <= SumFunction(Lens(C))
  BY <1>2, <1>4, SumMono
<1> QED
  BY <1>2, <1>5, <1>6, SumNat

(* A call of pwritev adds to what has been reached. *)
LEMMA Pwritev ==
  ASSUME FileLayout, FileInv, ~aborted, NEW w \in Workers, pc[w] = "write",
         NEW n \in Nat, n <= BytesToWrite(batch[w]), WriteFirst(n, batch[w])
  PROVE  /\ FileGrows
         /\ \A p \in 0 .. FileSize - 1 :
              Offset[Min(batch[w])] <= p
                /\ p < Offset[Min(batch[w])] + Max({n, reached[w]})
              => file'[p] = p
<1> DEFINE from == Offset[Min(batch[w])]
           m == reached[w]
           top == Max({n, m})
<1>1. Contiguous(batch[w]) /\ Ready(batch[w])
  BY WritingReady
<1>2. from \in Nat /\ FileSize \in Nat
  BY <1>1, VectorTypes, BufferAssumption
<1>3. \A p \in 0 .. FileSize - 1 :
        file'[p] = IF from <= p /\ p < from + n THEN p ELSE file[p]
  BY <1>1, FirstWritten
<1>4. /\ m \in Nat
      /\ m > 0 => \A p \in 0 .. FileSize - 1 :
                    from <= p /\ p < from + m => file[p] = p
  BY DEF FileInv, LoopInv, LoopOf
<1> HIDE DEF from, m
<1>5. top \in {m, n} /\ n <= top /\ top \in Nat
  BY <1>4, MaxTwo
<1> HIDE DEF top
<1>6. ASSUME NEW p \in 0 .. FileSize - 1, from <= p, p < from + top
      PROVE  file'[p] = p
  <2>1. CASE p < from + n
    BY <1>3, <1>6, <2>1
  <2>2. CASE ~(p < from + n)
    <3>1. p < from + m /\ m > 0
      BY <1>2, <1>4, <1>5, <1>6, <2>2
    <3>2. file[p] = p
      BY <1>4, <1>6, <3>1
    <3> QED
      BY <1>3, <2>2, <3>2
  <2> QED
    BY <2>1, <2>2
<1>7. FileGrows
  BY <1>3 DEF FileGrows
<1> QED
  BY <1>6, <1>7 DEF from, top, m

LEMMA GrowsBytes ==
  ASSUME FileLayout, FileBytes, FileGrows, onDisk \subseteq Chunks,
         \A c \in onDisk' \ onDisk :
           \A p \in Offset[c] .. Offset[c] + Length[c] - 1 : file'[p] = p
  PROVE  FileBytes'
<1>1. \A p \in 0 .. FileSize - 1 : file'[p] \in {Hole, p}
  BY DEF FileBytes, FileGrows
<1>2. ASSUME NEW c \in onDisk,
             NEW p \in Offset[c] .. Offset[c] + Length[c] - 1
      PROVE  file'[p] = p
  <2>1. c \in Chunks
    OBVIOUS
  <2>2. /\ Offset[c] \in Nat /\ Length[c] \in Nat /\ FileSize \in Nat
        /\ Offset[c] + Length[c] <= FileSize
    BY <2>1, LayoutTypes
  <2>3. p \in 0 .. FileSize - 1
    BY <2>2
  <2> QED
    BY <2>3 DEF FileBytes, FileGrows
<1> QED
  BY <1>1, <1>2 DEF FileBytes

LEMMA AgainBytes ==
  ASSUME FileLayout, FileInv, ~aborted, [BufferNext]_bvars,
         NEW w \in Workers, PwritevAgain(w)
  PROVE  LoopInv' /\ FileBytes'
<1>1. /\ TypeInv /\ LoopInv /\ FileBytes /\ onDisk \subseteq Chunks
      /\ batch[w] \in SUBSET Chunks
  BY TrackedTypes DEF FileInv, AliasInv, WriteInv, TypeInv, TypeOK
<1>2. PICK n \in ShortWrites :
        /\ bytesWritten[w] + n < TotalBytes(batch[w])
        /\ bytesWritten' = [bytesWritten EXCEPT ![w] = @ + n]
        /\ reached' = [reached EXCEPT ![w] = Max({@, n})]
        /\ WriteFirst(n, batch[w])
  BY DEF PwritevAgain
<1>3. /\ pc[w] = "write" /\ w \notin ringsOpen
      /\ pc' = pc /\ batch' = batch /\ ringsOpen' = ringsOpen
      /\ onDisk' = onDisk
  BY DEF PwritevAgain, vars, workerVars, ringVars, fileVars
<1>4. n \in Nat /\ bytesWritten[w] \in Nat /\ reached[w] \in Nat
  BY <1>1, BufferAssumption DEF LoopInv
<1>5. n <= BytesToWrite(batch[w])
  <2>1. Ready(batch[w])
    BY <1>3, WritingReady
  <2>2. /\ TotalBytes(batch[w]) \in Nat /\ BytesToWrite(batch[w]) \in Nat
        /\ TotalBytes(batch[w]) <= BytesToWrite(batch[w])
    BY <1>1, <2>1, TotalWithin
  <2> QED
    BY <1>2, <1>4, <2>2
<1>6. /\ FileGrows
      /\ \A p \in 0 .. FileSize - 1 :
           Offset[Min(batch[w])] <= p
             /\ p < Offset[Min(batch[w])] + Max({n, reached[w]})
           => file'[p] = p
  BY <1>2, <1>3, <1>4, <1>5, Pwritev
<1>7. FileBytes'
  BY <1>1, <1>3, <1>6, GrowsBytes
<1>8. ASSUME NEW v \in Workers, v # w
      PROVE  LoopOf(v)'
  <2>1. LoopOf(v) /\ StaysAt(v)
    BY <1>1, <1>3 DEF LoopInv, StaysAt
  <2>2. reached'[v] = reached[v]
    BY <1>2, <1>8
  <2> QED
    BY <1>3, <1>6, <2>1, <2>2, LoopStays
<1>9. LoopOf(w)'
  <2>1. reached'[w] = Max({n, reached[w]})
    <3>1. reached'[w] = Max({reached[w], n})
      BY <1>1, <1>2 DEF LoopInv
    <3> QED
      BY <1>4, <3>1, MaxTwo
  <2> QED
    BY <1>3, <1>6, <2>1 DEF LoopOf
<1>10. bytesWritten' \in [Workers -> Nat] /\ reached' \in [Workers -> Nat]
  <2>1. bytesWritten[w] + n \in Nat /\ Max({reached[w], n}) \in Nat
    BY <1>4, MaxTwo
  <2> QED
    BY <1>1, <1>2, <2>1 DEF LoopInv
<1> QED
  BY <1>7, <1>8, <1>9, <1>10 DEF LoopInv

(* Leaving the loop, a worker forgets what it has reached. *)
LEMMA LeaveLoops ==
  ASSUME FileInv, FileGrows, ringsOpen' \subseteq ringsOpen,
         NEW w \in Workers, LeaveLoop(w),
         \A v \in Workers : v # w => pc'[v] = pc[v] /\ batch'[v] = batch[v]
  PROVE  LoopInv'
<1>1. LoopInv
  BY DEF FileInv
<1>2. /\ bytesWritten' = [bytesWritten EXCEPT ![w] = 0]
      /\ reached' = [reached EXCEPT ![w] = 0]
  BY DEF LeaveLoop
<1>3. bytesWritten' \in [Workers -> Nat] /\ reached' \in [Workers -> Nat]
  BY <1>1, <1>2 DEF LoopInv
<1>4. ASSUME NEW v \in Workers, v # w
      PROVE  LoopOf(v)'
  <2>1. LoopOf(v) /\ StaysAt(v) /\ reached'[v] = reached[v]
    BY <1>1, <1>2, <1>4 DEF LoopInv, StaysAt
  <2> QED
    BY <2>1, LoopStays
<1>5. LoopOf(w)'
  <2>1. reached'[w] = 0
    BY <1>1, <1>2 DEF LoopInv
  <2> QED
    BY <2>1 DEF LoopOf
<1> QED
  BY <1>3, <1>4, <1>5 DEF LoopInv

(* The call that ends the loop: what counts as written is. *)
LEMMA LastBytes ==
  ASSUME FileLayout, FileInv, ~aborted, [BufferNext]_bvars,
         NEW w \in Workers, PwritevLast(w)
  PROVE  LoopInv' /\ FileBytes'
<1>1. /\ TypeInv /\ LoopInv /\ FileBytes /\ onDisk \subseteq Chunks
      /\ batch[w] \in SUBSET Chunks
  BY TrackedTypes DEF FileInv, AliasInv, WriteInv, TypeInv, TypeOK
<1> DEFINE C == batch[w]
           all == BytesToWrite(C)
<1>2. PICK n \in {all} \cup { m \in ShortWrites : IOErrors /\ m < all } :
        LET written == WithinFirst(Max({n, reached[w]}), C)
        IN  /\ WriteFirst(n, C)
            /\ \/ written = C /\ WriteSync(w)
               \/ WriteShort(w) /\ onDisk' = onDisk \cup written
               \/ WriteFails(w)
  BY DEF PwritevLast
<1> DEFINE top == Max({n, reached[w]})
<1>3. pc[w] = "write"
  BY DEF PwritevLast
<1>4. Contiguous(C) /\ Ready(C)
  BY <1>3, WritingReady
<1>5. all \in Nat /\ ShortWrites \subseteq Nat /\ reached[w] \in Nat
  BY <1>1, <1>4, TotalWithin, BufferAssumption DEF LoopInv
<1>6. n \in Nat /\ n <= all
  <2> HIDE DEF all
  <2> QED
    BY <1>5
<1>7. /\ FileGrows
      /\ \A p \in 0 .. FileSize - 1 :
           Offset[Min(C)] <= p /\ p < Offset[Min(C)] + top => file'[p] = p
  BY <1>2, <1>3, <1>6, Pwritev
<1>8. top \in Nat
  BY <1>5, <1>6, MaxTwo
<1>9. \A c \in onDisk' \ onDisk : c \in WithinFirst(top, C)
  <2>1. CASE WriteSync(w) /\ WithinFirst(top, C) = C
    BY <2>1 DEF WriteSync
  <2>2. CASE onDisk' = onDisk \cup WithinFirst(top, C)
    BY <2>2
  <2>3. CASE WriteFails(w)
    BY <2>3 DEF WriteFails, fileVars
  <2> QED
    BY <1>2, <2>1, <2>2, <2>3
<1> HIDE DEF top
<1>10. ASSUME NEW c \in onDisk' \ onDisk,
              NEW p \in Offset[c] .. Offset[c] + Length[c] - 1
       PROVE  file'[p] = p
  <2>1. c \in WithinFirst(top, C) /\ c \in C /\ c \in Chunks
    BY <1>1, <1>9 DEF WithinFirst
  <2>2. /\ Offset[Min(C)] <= Offset[c]
        /\ Offset[c] + Length[c] <= Offset[Min(C)] + top
    BY <1>4, <1>8, <2>1, ChunkWithin
  <2>3. /\ Offset[c] \in Nat /\ Length[c] \in Nat /\ FileSize \in Nat
        /\ Offset[c] + Length[c] <= FileSize
    BY <2>1, LayoutTypes
  <2>4. Offset[Min(C)] \in Nat
    BY <1>4, VectorTypes
  <2>5. /\ p \in 0 .. FileSize - 1 /\ Offset[Min(C)] <= p
        /\ p < Offset[Min(C)] + top
    BY <1>8, <2>2, <2>3, <2>4
  <2> QED
    BY <1>7, <2>5
<1>11. FileBytes'
  BY <1>1, <1>7, <1>10, GrowsBytes
<1>12. LoopInv'
  <2>1. WriteSync(w) \/ WriteShort(w) \/ WriteFails(w)
    BY <1>2
  <2>2. \A v \in Workers : v # w => pc'[v] = pc[v] /\ batch'[v] = batch[v]
    BY <1>1, <2>1, TaskTypes
    DEF WriteSync, WriteShort, WriteFails, Goto, workerVars
  <2>3. ringsOpen' \subseteq ringsOpen /\ LeaveLoop(w)
    BY <1>1, RingsClose DEF PwritevLast
  <2> QED
    BY <1>7, <2>2, <2>3, LeaveLoops
<1> QED
  BY <1>11, <1>12

LEMMA FailsBytes ==
  ASSUME FileLayout, FileInv, [BufferNext]_bvars,
         NEW w \in Workers, PwritevFails(w)
  PROVE  LoopInv' /\ FileBytes'
<1>1. /\ TypeInv /\ FileBytes /\ onDisk \subseteq Chunks
  BY DEF FileInv, AliasInv, WriteInv, TypeInv, TypeOK
<1>2. /\ file' = file /\ LeaveLoop(w) /\ onDisk' = onDisk
      /\ \A v \in Workers : v # w => pc'[v] = pc[v] /\ batch'[v] = batch[v]
  BY DEF PwritevFails, WriteFails, fileVars, workerVars
<1>3. FileGrows
  BY <1>2 DEF FileGrows
<1>4. ringsOpen' \subseteq ringsOpen
  BY <1>1, RingsClose
<1> QED
  BY <1>1, <1>2, <1>3, <1>4, LeaveLoops, GrowsBytes

(* The kernel writes as much of a request as it answers for. *)
LEMMA KernelBytes ==
  ASSUME FileLayout, FileInv, ~aborted, [BufferNext]_bvars,
         NEW v \in Workers, KernelReads(v)
  PROVE  LoopInv' /\ FileBytes'
<1>1. /\ TypeInv /\ FileBytes /\ onDisk \subseteq Chunks
      /\ inflight \in [Workers -> SUBSET SUBSET Chunks]
  BY TrackedTypes DEF FileInv, AliasInv, WriteInv, TypeInv, TypeOK
<1>2. PICK q \in inflight[v] :
        /\ inflight' = [inflight EXCEPT ![v] = @ \ {q}]
        /\ \/ onDisk' = onDisk \cup q
           \/ \E c \in q : onDisk' = onDisk \cup { d \in q : d < c }
           \/ onDisk' = onDisk
  <2>1. CASE KernelWrites(v)
    BY <2>1 DEF KernelWrites, Answer
  <2>2. CASE KernelWritesShort(v)
    BY <2>2 DEF KernelWritesShort, Answer
  <2>3. CASE KernelFails(v)
    BY <2>3 DEF KernelFails, Answer, fileVars
  <2> QED
    BY <2>1, <2>2, <2>3 DEF KernelReads, Kernel
<1>3. PICK r \in inflight[v] \ inflight'[v] : \E m \in Partial(v, r) :
        WriteFirst(BytesToWrite(r \cap onDisk') + m, r)
  BY DEF KernelReads, Answered
<1>4. r = q
  BY <1>1, <1>2, <1>3
<1> PICK m \in Partial(v, r) : WriteFirst(BytesToWrite(r \cap onDisk') + m, r)
  BY <1>3
<1> DEFINE D == r \cap onDisk'
           n == BytesToWrite(D) + m
           from == Offset[Min(r)]
<1>5. Contiguous(r) /\ Ready(r) /\ r \in SUBSET Chunks /\ r \subseteq Nat
  BY <1>3, InflightReady, VectorTypes
<1>6. /\ n \in Nat /\ n <= BytesToWrite(r)
      /\ BytesToWrite(D) \in Nat /\ BytesToWrite(D) <= n
  <2>1. D \in SUBSET r /\ r \in SUBSET r
    OBVIOUS
  <2>2. /\ BytesToWrite(D) \in Nat /\ BytesToWrite(r) \in Nat
        /\ BytesToWrite(D) <= BytesToWrite(r)
    <3> HIDE DEF D
    <3> QED
      BY <1>5, <2>1, BytesNat, BytesMono
  <2>3. CASE m = 0
    BY <2>2, <2>3
  <2>4. CASE m # 0
    <3>1. PICK c \in r : D = { d \in r : d < c } /\ m < IovLen(c)
      BY <2>4 DEF Partial
    <3>2. m \in Nat
      BY <2>4, BufferAssumption DEF Partial
    <3>3. c \notin D /\ D \cup {c} \in SUBSET r
      BY <1>5, <3>1
    <3> HIDE DEF D
    <3>4. BytesToWrite(D \cup {c}) = BytesToWrite(D) + IovLen(c)
      BY <1>5, <2>1, <3>3, BytesAdd
    <3>5. BytesToWrite(D \cup {c}) <= BytesToWrite(r)
      BY <1>5, <2>1, <3>3, BytesMono
    <3>6. IovLen(c) \in Nat
      BY <1>5, IovTypes
    <3>7. BytesToWrite(D) + m <= BytesToWrite(r)
      BY <2>2, <3>1, <3>2, <3>4, <3>5, <3>6
    <3> QED
      BY <2>2, <3>2, <3>7 DEF D
  <2> QED
    BY <2>3, <2>4
<1>7. \A p \in 0 .. FileSize - 1 :
        file'[p] = IF from <= p /\ p < from + n THEN p ELSE file[p]
  <2>1. WriteFirst(n, r)
    BY <1>3
  <2> HIDE DEF n
  <2> QED
    BY <1>5, <1>6, <2>1, FirstWritten
<1>8. FileGrows
  BY <1>7 DEF FileGrows
<1>9. ASSUME NEW c \in onDisk' \ onDisk
      PROVE  c \in r /\ { d \in r : d <= c } \subseteq D
  <2>1. CASE onDisk' = onDisk \cup r
    BY <1>9, <2>1
  <2>2. ASSUME NEW x \in r, onDisk' = onDisk \cup { d \in r : d < x }
        PROVE  c \in r /\ { d \in r : d <= c } \subseteq D
    <3>1. c \in r /\ c < x
      BY <1>9, <2>2
    <3>2. \A d \in r : d <= c => d < x
      BY <1>5, <3>1
    <3> QED
      BY <2>2, <3>1, <3>2
  <2> QED
    BY <1>2, <1>4, <1>9, <2>1, <2>2
<1> HIDE DEF n
<1>10. ASSUME NEW c \in onDisk' \ onDisk,
              NEW p \in Offset[c] .. Offset[c] + Length[c] - 1
       PROVE  file'[p] = p
  <2>1. c \in r /\ c \in Chunks /\ { d \in r : d <= c } \subseteq D
    BY <1>5, <1>9
  <2>2. D \in SUBSET r /\ BytesToWrite(D) <= n
    BY <1>6
  <2> HIDE DEF D
  <2>3. /\ Offset[Min(r)] <= Offset[c]
        /\ Offset[c] + Length[c] <= Offset[Min(r)] + n
    BY <1>5, <1>6, <2>1, <2>2, ChunkWithin
  <2>4. /\ Offset[c] \in Nat /\ Length[c] \in Nat /\ FileSize \in Nat
        /\ Offset[c] + Length[c] <= FileSize
    BY <2>1, LayoutTypes
  <2>5. from \in Nat
    BY <1>5, VectorTypes
  <2>6. /\ p \in 0 .. FileSize - 1 /\ from <= p /\ p < from + n
    BY <1>6, <2>3, <2>4, <2>5
  <2> HIDE DEF from
  <2> QED
    BY <1>7, <2>6
<1>11. FileBytes'
  BY <1>1, <1>8, <1>10, GrowsBytes
<1>12. UNCHANGED loopVars /\ issued' = issued
  BY IssuedStill DEF KernelReads
<1> QED
  BY <1>8, <1>11, <1>12, LoopQuiet

-----------------------------------------------------------------------------
(* Steps *)

LEMMA SameFile ==
  ASSUME FileInv, ~aborted, [BufferNext]_bvars, issued' = issued, FileLayout,
         file' = file, UNCHANGED loopVars, onDisk' = onDisk
  PROVE  LoopInv' /\ FileBytes'
<1>1. FileBytes /\ onDisk \subseteq Chunks
  BY DEF FileInv, AliasInv, WriteInv, TypeInv, TypeOK
<1>2. FileGrows
  BY DEF FileGrows
<1> QED
  BY <1>1, <1>2, LoopQuiet, GrowsBytes

LEMMA WorkFile ==
  ASSUME FileLayout, FileInv, ~aborted, [BufferNext]_bvars,
         NEW w \in Workers, BufferStep(w)
  PROVE  LoopInv' /\ FileBytes'
<1>1. CASE PwritevAgain(w)
  BY <1>1, AgainBytes
<1>2. CASE PwritevLast(w)
  BY <1>2, LastBytes
<1>3. CASE PwritevFails(w)
  BY <1>3, FailsBytes
<1>4. CASE KernelReads(w)
  BY <1>4, KernelBytes
<1>5. CASE GetBuffer(w) \/ FillStripBuffers(w) \/ AcquireBuffer(w)
           \/ ReapBuffers(w) \/ OtherWork(w)
  <2>1. issued' = issued
    BY <1>5, IssuedStill
  <2>2. file' = file /\ UNCHANGED loopVars
    BY <1>5 DEF GetBuffer, FillStripBuffers, AcquireBuffer, ReapBuffers,
                OtherWork
  <2>3. onDisk' = onDisk
    <3>1. CASE GetBuffer(w)
      BY <3>1 DEF GetBuffer, vars, fileVars
    <3>2. CASE FillStripBuffers(w) \/ AcquireBuffer(w)
      BY <3>2 DEF FillStripBuffers, FillStrip, AcquireBuffer, Acquire,
                  fileVars
    <3>3. CASE ReapBuffers(w)
      BY <3>3 DEF ReapBuffers, Reap, fileVars
    <3>4. CASE OtherWork(w)
      BY <3>4 DEF OtherWork, TakeStrip, NothingToWrite, BeginWrite, EndReap,
                  RingGone, Count, EndCount, BeginFinish, Seal, fileVars
    <3> QED
      BY <1>5, <3>1, <3>2, <3>3, <3>4
  <2> QED
    BY <2>1, <2>2, <2>3, SameFile
<1>6. CASE SubmitBuffers(w)
  <2>1. TypeInv /\ LoopInv /\ FileBytes /\ onDisk \subseteq Chunks
    BY DEF FileInv, AliasInv, WriteInv, TypeInv, TypeOK
  <2>2. /\ pc[w] = "write" /\ w \in ringsOpen /\ Goto(w, "reap")
        /\ batch' = batch /\ ringsOpen' = ringsOpen /\ onDisk' = onDisk
        /\ file' = file /\ UNCHANGED loopVars
    BY <1>6 DEF SubmitBuffers, Submit, workerVars, fileVars
  <2>3. FileGrows
    BY <2>2 DEF FileGrows
  <2>4. \A v \in Workers : StaysAt(v)
    BY <2>1, <2>2, TaskTypes DEF Goto, StaysAt
  <2>5. bytesWritten' = bytesWritten /\ reached' = reached
    BY <2>2 DEF loopVars
  <2>6. \A v \in Workers : LoopOf(v)'
    BY <2>1, <2>2, <2>3, <2>4, <2>5, LoopStays DEF LoopInv
  <2>7. LoopInv'
    BY <2>1, <2>5, <2>6 DEF LoopInv
  <2> QED
    BY <2>1, <2>2, <2>3, <2>7, GrowsBytes
<1> QED
  BY <1>1, <1>2, <1>3, <1>4, <1>5, <1>6 DEF BufferStep

LEMMA FileStutter ==
  ASSUME FileInv, UNCHANGED bvars
  PROVE  LoopInv' /\ FileBytes'
<1>1. LoopInv /\ FileBytes
  BY DEF FileInv
<1>2. /\ bytesWritten' = bytesWritten /\ reached' = reached /\ file' = file
      /\ pc' = pc /\ batch' = batch /\ ringsOpen' = ringsOpen
      /\ onDisk' = onDisk
  BY DEF bvars, loopVars, vars, workerVars, ringVars, fileVars
<1>3. \A w \in Workers : LoopOf(w)'
  BY <1>1, <1>2 DEF LoopInv, LoopOf
<1> QED
  BY <1>1, <1>2, <1>3 DEF LoopInv, FileBytes

LEMMA FileInvStep ==
  ASSUME FileLayout, FileInv, [BufferNext]_bvars
  PROVE  FileInv'
<1>1. /\ AliasInv /\ WriteInv /\ OwnInBatch /\ ByteInv /\ HasBuffer
  BY DEF FileInv, AliasInv
<1>2. AliasInv'
  BY <1>1, AliasStep
<1>3. OwnInBatch'
  BY <1>1, BufferSteps, OwnStep
<1>4. ByteInv' /\ HasBuffer'
  BY <1>1, BytesStep
<1>5. RunInv'
  BY RunStep
<1>6. LoopInv' /\ FileBytes'
  <2>1. CASE UNCHANGED bvars \/ BufferStopped
    BY <2>1, FileStutter DEF BufferStopped
  <2>2. ASSUME ~aborted, NEW w \in Workers, BufferStep(w)
        PROVE  LoopInv' /\ FileBytes'
    BY <2>2, WorkFile
  <2>3. CASE ~aborted /\ (CloseRingsBuffers \/ MainDrainBuffers
                            \/ MainCloseBuffers)
    <3>1. /\ issued' = issued /\ file' = file /\ UNCHANGED loopVars
          /\ onDisk' = onDisk
      BY <2>3 DEF CloseRingsBuffers, CloseRings, MainDrainBuffers, MainDrain,
                  MainCloseBuffers, MainClose, fileVars
    <3> QED
      BY <2>3, <3>1, SameFile
  <2> QED
    BY <2>1, <2>2, <2>3 DEF BufferNext
<1> QED
  BY <1>2, <1>3, <1>4, <1>5, <1>6 DEF FileInv

LEMMA ChunkBufIs ==
  ASSUME FileLayout, NEW c \in Chunks, Chunked, NEW b, buf[b] = ChunkBuf(c)
  PROVE  /\ Shaped(b)
         /\ held[c] = b /\ filled = {} => Prepared(c)
<1> DEFINE r == NewBuf(AllocLength[c])
           a == ChunkBuf(c)
<1>1. /\ AllocLength[c] \in Nat /\ Length[c] \in Nat
      /\ Length[c] <= AllocLength[c]
      /\ \A d \in Chunks : AllocLength[c] = AllocLength[d]
  BY LayoutTypes DEF FileLayout
<1>2. /\ {"allocLen", "len", "offset", "skip", "data"} \subseteq DOMAIN r
      /\ r.allocLen = AllocLength[c] /\ r.len = AllocLength[c]
      /\ DOMAIN r.data = 0 .. AllocLength[c] - 1
  BY <1>1, FreshShaped
<1>3. a = [r EXCEPT !.len = Length[c], !.offset = Offset[c]]
  BY DEF ChunkBuf
<1> HIDE DEF a, r
<1>4. /\ DOMAIN a = DOMAIN r /\ a.allocLen = r.allocLen
      /\ a.len = Length[c] /\ a.offset = Offset[c] /\ a.data = r.data
  BY <1>2, <1>3
<1>5. buf[b] = a
  BY DEF a
<1>6. Shaped(b)
  BY <1>1, <1>2, <1>4, <1>5 DEF Shaped
<1>7. ASSUME held[c] = b, filled = {}
      PROVE  Prepared(c)
  BY <1>1, <1>4, <1>5, <1>7 DEF Prepared
<1> QED
  BY <1>6, <1>7

LEMMA BytesInit ==
  ASSUME FileLayout, BufferInit
  PROVE  ByteInv /\ HasBuffer
<1> DEFINE n == Cardinality(SharedChunks)
           At(b) == CHOOSE c \in SharedChunks : Rank(c, SharedChunks) = b
<1>1. SharedChunks \in SUBSET Chunks /\ (SharedChunks # {} => Chunked)
  BY DEF SharedChunks
<1>2. /\ held = [c \in Chunks |-> IF c \in SharedChunks
                                  THEN Rank(c, SharedChunks) ELSE NoBuf]
      /\ buf = [b \in 1 .. n |-> ChunkBuf(At(b))]
      /\ filled = {}
  BY DEF BufferInit, Init
<1>3. Bufs = 1 .. n
  BY <1>2 DEF Bufs
<1>4. \A b \in 1 .. n :
        At(b) \in SharedChunks /\ Rank(At(b), SharedChunks) = b
  BY <1>1, RankCovers
<1>5. \A b \in 1 .. n : buf[b] = ChunkBuf(At(b))
  BY <1>2
<1>6. \A c \in SharedChunks :
        Rank(c, SharedChunks) \in 1 .. n /\ At(Rank(c, SharedChunks)) = c
  <2>1. \A c \in SharedChunks : Rank(c, SharedChunks) \in 1 .. n
    BY <1>1, Ranks
  <2>2. \A c, d \in SharedChunks :
          c # d => Rank(c, SharedChunks) # Rank(d, SharedChunks)
    BY <1>1, Ranks
  <2>3. \A c \in SharedChunks :
          /\ At(Rank(c, SharedChunks)) \in SharedChunks
          /\ Rank(At(Rank(c, SharedChunks)), SharedChunks)
               = Rank(c, SharedChunks)
    BY <1>4, <2>1
  <2> HIDE DEF At
  <2> QED
    BY <2>1, <2>2, <2>3
<1> HIDE DEF At, n
<1>7. ASSUME NEW b \in Bufs PROVE Shaped(b)
  <2>1. At(b) \in Chunks /\ Chunked /\ buf[b] = ChunkBuf(At(b))
    BY <1>1, <1>3, <1>4, <1>5
  <2> QED
    BY <2>1, ChunkBufIs
<1>8. ASSUME NEW c \in Chunks, held[c] # NoBuf PROVE Prepared(c)
  <2>1. c \in SharedChunks /\ held[c] = Rank(c, SharedChunks)
    BY <1>2, <1>8
  <2>2. buf[held[c]] = ChunkBuf(c) /\ Chunked
    BY <1>1, <1>5, <1>6, <2>1
  <2> QED
    BY <1>2, <2>2, ChunkBufIs
<1>9. HasBuffer
  BY <1>2 DEF HasBuffer
<1> QED
  BY <1>7, <1>8, <1>9 DEF ByteInv

LEMMA FileInvInit == FileLayout /\ BufferInit => FileInv
<1> SUFFICES ASSUME FileLayout, BufferInit PROVE FileInv
  OBVIOUS
<1>1. Init
  BY DEF BufferInit
<1>2. AliasInv
  BY <1>1, WriteInit, TrackedInit, PoolInit DEF AliasInv
<1>3. OwnInBatch
  BY <1>1, OwnInit
<1>4. RunInv
  BY <1>1 DEF Init, RunInv
<1>5. LoopInv
  BY DEF BufferInit, LoopInv, LoopOf
<1>6. FileBytes
  <2>1. file = [p \in Positions |-> Hole] /\ onDisk = {}
    BY <1>1 DEF BufferInit, Init
  <2>2. 0 .. FileSize - 1 \subseteq Positions
    BY BufferAssumption
  <2> QED
    BY <2>1, <2>2 DEF FileBytes
<1> QED
  BY <1>2, <1>3, <1>4, <1>5, <1>6, BytesInit DEF FileInv

(* Whatever the buffers held before they were recycled, however often a    *)
(* pwritev is cut short and repeated, and whichever thread comes to write  *)
(* a chunk: the part of the file that belongs to the strips holds only     *)
(* bytes that belong where they are, and a chunk that counts as written is *)
(* there byte for byte.  So it is for every file laid out in chunks the    *)
(* way FileLayout says, with any number of threads, strips and buffers.    *)
THEOREM BytesRight ==
  ASSUME FileLayout
  PROVE  BufferSpec => []FileBytes
<1>1. BufferInit => FileInv
  BY FileInvInit
<1>2. FileInv /\ [BufferNext]_bvars => FileInv'
  <2> SUFFICES ASSUME FileInv, [BufferNext]_bvars PROVE FileInv'
    OBVIOUS
  <2> QED
    BY FileInvStep
<1>3. FileInv => FileBytes
  BY DEF FileInv
<1> QED
  BY <1>1, <1>2, <1>3, PTL DEF BufferSpec

=============================================================================
