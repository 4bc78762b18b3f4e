---------------------------- MODULE BufferProofs ----------------------------
(***************************************************************************)
(* The buffers ride on the encoder: whatever the pools and the reference   *)
(* counts do, and however often a pwritev is repeated, a step of           *)
(* BufferLife is one of ParallelEncode or none.  And a recycled buffer     *)
(* serves one busy chunk at a time: no worker fills a buffer that waits    *)
(* for another chunk's write, or that the kernel still reads.  The         *)
(* reference count of a buffer is the number of its holders, so it is      *)
(* never freed under one of them, nor twice; and none is left over when    *)
(* the encoder is deleted.                                                 *)
(***************************************************************************)
EXTENDS BufferLife, ParallelEncodeProofs

LEMMA WriteSteps ==
  ASSUME NEW w \in Workers, ~aborted,
         PwritevAgain(w) \/ PwritevLast(w) \/ PwritevFails(w)
  PROVE  [Next]_vars
<1>1. CASE PwritevAgain(w)
  BY <1>1 DEF PwritevAgain
<1>2. CASE PwritevLast(w)
  <2>1. WriteSync(w) \/ WriteShort(w) \/ WriteFails(w)
    BY <1>2 DEF PwritevLast
  <2> QED
    BY <2>1 DEF Next, Work
<1>3. CASE PwritevFails(w)
  BY <1>3 DEF PwritevFails, Next, Work
<1> QED
  BY <1>1, <1>2, <1>3

LEMMA WorkSteps ==
  ASSUME NEW w \in Workers, BufferStep(w), ~aborted
  PROVE  [Next]_vars
<1>1. CASE GetBuffer(w)
  BY <1>1 DEF GetBuffer
<1>2. CASE FillStripBuffers(w)
  BY <1>2 DEF FillStripBuffers, Next, Work
<1>3. CASE AcquireBuffer(w)
  BY <1>3 DEF AcquireBuffer, Next, Work
<1>4. CASE PwritevAgain(w) \/ PwritevLast(w) \/ PwritevFails(w)
  BY <1>4, WriteSteps
<1>5. CASE SubmitBuffers(w) \/ ReapBuffers(w)
  BY <1>5 DEF SubmitBuffers, ReapBuffers, Next, Work
<1>6. CASE KernelReads(w)
  BY <1>6 DEF KernelReads, Next
<1>7. CASE OtherWork(w)
  BY <1>7 DEF OtherWork, Next, Work
<1> QED
  BY <1>1, <1>2, <1>3, <1>4, <1>5, <1>6, <1>7 DEF BufferStep

LEMMA BufferSteps == [BufferNext]_bvars => [Next]_vars
<1> SUFFICES ASSUME [BufferNext]_bvars PROVE [Next]_vars
  OBVIOUS
<1>1. CASE ~aborted /\ \E w \in Workers : BufferStep(w)
  BY <1>1, WorkSteps
<1>2. CASE ~aborted /\ CloseRingsBuffers
  BY <1>2 DEF CloseRingsBuffers, Next
<1>3. CASE ~aborted /\ (MainDrainBuffers \/ MainCloseBuffers)
  BY <1>3 DEF MainDrainBuffers, MainCloseBuffers, Next, Main
<1>4. CASE BufferStopped \/ UNCHANGED bvars
  BY <1>4 DEF BufferStopped, bvars
<1> QED
  BY <1>1, <1>2, <1>3, <1>4 DEF BufferNext

(* BufferLife implements ParallelEncode, but for its fairness. *)
THEOREM BuffersRefine == BufferSpec => Init /\ [][Next]_vars
<1>1. BufferInit => Init
  BY DEF BufferInit
<1> QED
  BY <1>1, BufferSteps, PTL DEF BufferSpec

(* So what is proved of ParallelEncode's steps holds with the buffers: on  *)
(* a failing disk, with short writes repeated, no chunk is written twice,  *)
(* or before all its strips have filled it, and the file is finished once. *)
THEOREM BufferedWrites ==
  BufferSpec => [](WriteOnce /\ NoTornChunk /\ FinishOnce)
<1>1. Init => WriteInv /\ Counting
  BY WriteInit, CountingInit
<1>2. WriteInv /\ Counting /\ [Next]_vars => (WriteInv /\ Counting)'
  <2>1. ASSUME Counting, UNCHANGED vars PROVE Counting'
    BY <2>1 DEF vars, workerVars, fileVars, Counting
  <2> QED
    BY <2>1, WriteStep, CountingStep, AliveOrStill DEF WriteInv
<1>3. WriteInv /\ Counting => WriteOnce /\ NoTornChunk /\ FinishOnce
  <2>1. WriteInv => WriteOnce
    BY DEF WriteInv, Gathered, BatchIssued, WriteOnce
  <2>2. WriteInv /\ Counting => FinishOnce
    BY CountTypes DEF WriteInv, Counting, FinishOnce
  <2> QED
    BY <2>1, <2>2, NotTorn
<1> QED
  BY <1>1, <1>2, <1>3, BuffersRefine, PTL

-----------------------------------------------------------------------------
(* Sets and sequences of sets *)

LEMMA UnionAdd ==
  ASSUME NEW A, NEW x
  PROVE  UNION (A \cup {x}) = (UNION A) \cup x
OBVIOUS

LEMMA UnionMeets ==
  ASSUME NEW A, NEW x
  PROVE  (UNION A) \cap x = {} <=> \A e \in A : e \cap x = {}
<1>1. ASSUME (UNION A) \cap x = {}, NEW e \in A PROVE e \cap x = {}
  BY <1>1
<1>2. ASSUME \A e \in A : e \cap x = {} PROVE (UNION A) \cap x = {}
  BY <1>2
<1> QED
  BY <1>1, <1>2

LEMMA Parts ==
  ASSUME NEW A, NEW B, NEW H, NEW T, A \cap B = {}, B = H \cup T, H \cap T = {}
  PROVE  A \cup B = (A \cup T) \cup H /\ H \cap (A \cup T) = {}
OBVIOUS

LEMMA TailOf ==
  ASSUME NEW S, NEW s \in Seq(S), s # <<>>
  PROVE  /\ Tail(s) \in Seq(S) /\ Len(Tail(s)) = Len(s) - 1 /\ Len(s) \in Nat
         /\ \A i \in 1 .. Len(Tail(s)) : Tail(s)[i] = s[i + 1]
         /\ Head(s) = s[1] /\ Head(s) \in S /\ 1 \in 1 .. Len(s)
<1>1. Len(s) \in Nat \ {0}
  BY EmptySeq
<1> QED
  BY <1>1, HeadTailProperties

LEMMA MembersTail ==
  ASSUME NEW S, NEW s \in Seq(S), s # <<>>
  PROVE  ToSet(s) = {Head(s)} \cup ToSet(Tail(s))
<1> DEFINE t == Tail(s)
<1>1. /\ DOMAIN s = 1 .. Len(s) /\ DOMAIN t = 1 .. Len(t)
      /\ Len(t) = Len(s) - 1 /\ Len(s) \in Nat
  BY TailOf, LenProperties
<1>2. \A i \in DOMAIN t : i + 1 \in DOMAIN s /\ t[i] = s[i + 1]
  BY <1>1, TailOf
<1>3. Head(s) = s[1] /\ 1 \in DOMAIN s
  BY <1>1, TailOf
<1>4. \A i \in DOMAIN s : i = 1 \/ (i - 1 \in DOMAIN t /\ t[i - 1] = s[i])
  <2>1. \A i \in DOMAIN s : i = 1 \/ (i - 1 \in DOMAIN t /\ (i - 1) + 1 = i)
    BY <1>1
  <2> QED
    BY <1>2, <2>1
<1> HIDE DEF t
<1>5. ToSet(s) \subseteq {Head(s)} \cup ToSet(t)
  BY <1>3, <1>4 DEF ToSet
<1>6. {Head(s)} \cup ToSet(t) \subseteq ToSet(s)
  BY <1>2, <1>3 DEF ToSet
<1> QED
  BY <1>5, <1>6 DEF t

LEMMA MembersAppend ==
  ASSUME NEW S, NEW s \in Seq(S), NEW e \in S
  PROVE  ToSet(Append(s, e)) = ToSet(s) \cup {e}
<1> DEFINE t == Append(s, e)
<1>1. /\ DOMAIN s = 1 .. Len(s) /\ Len(s) \in Nat
      /\ t \in Seq(S) /\ Len(t) = Len(s) + 1
      /\ \A i \in 1 .. Len(s) : t[i] = s[i]
      /\ t[Len(s) + 1] = e
  BY LenProperties, AppendProperties
<1>2. DOMAIN t = 1 .. Len(s) + 1
  BY <1>1, LenProperties
<1> HIDE DEF t
<1>3. DOMAIN t = DOMAIN s \cup {Len(s) + 1}
  BY <1>1, <1>2
<1>4. ToSet(t) = ToSet(s) \cup {e}
  BY <1>1, <1>3 DEF ToSet
<1> QED
  BY <1>4 DEF t

(* Sets none of which meets another. *)
Apart(s) == \A i, j \in 1 .. Len(s) : i # j => s[i] \cap s[j] = {}

LEMMA ApartTail ==
  ASSUME NEW S, NEW s \in Seq(S), s # <<>>, Apart(s)
  PROVE  /\ Apart(Tail(s)) /\ Head(s) \cap (UNION ToSet(Tail(s))) = {}
<1>1. /\ Len(Tail(s)) = Len(s) - 1 /\ Len(s) \in Nat
      /\ \A i \in 1 .. Len(Tail(s)) : Tail(s)[i] = s[i + 1]
      /\ DOMAIN Tail(s) = 1 .. Len(Tail(s)) /\ Head(s) = s[1]
      /\ 1 \in 1 .. Len(s)
  BY TailOf, LenProperties
<1>2. \A i \in 1 .. Len(Tail(s)) : i + 1 \in 1 .. Len(s) /\ i + 1 # 1
  BY <1>1
<1>3. Apart(Tail(s))
  <2>1. \A i, j \in 1 .. Len(Tail(s)) : i # j => i + 1 # j + 1
    BY <1>1
  <2> QED
    BY <1>1, <1>2, <2>1 DEF Apart
<1>4. \A i \in DOMAIN Tail(s) : Head(s) \cap Tail(s)[i] = {}
  BY <1>1, <1>2 DEF Apart
<1> QED
  BY <1>3, <1>4 DEF ToSet

LEMMA ApartAppend ==
  ASSUME NEW S, NEW s \in Seq(S), Apart(s), NEW e \in S,
         (UNION ToSet(s)) \cap e = {}
  PROVE  Apart(Append(s, e))
<1> DEFINE t == Append(s, e)
<1>1. /\ DOMAIN s = 1 .. Len(s) /\ Len(s) \in Nat
      /\ Len(t) = Len(s) + 1
      /\ \A i \in 1 .. Len(s) : t[i] = s[i]
      /\ t[Len(s) + 1] = e
  BY LenProperties, AppendProperties
<1>2. \A i \in 1 .. Len(s) : s[i] \cap e = {}
  <2> SUFFICES ASSUME NEW i \in 1 .. Len(s) PROVE s[i] \cap e = {}
    OBVIOUS
  <2>1. s[i] \in ToSet(s)
    BY <1>1 DEF ToSet
  <2> QED
    BY <2>1, UnionMeets
<1> HIDE DEF t
<1>3. \A i \in 1 .. Len(t) : i \in 1 .. Len(s) \/ i = Len(s) + 1
  BY <1>1
<1>4. Apart(t)
  BY <1>1, <1>2, <1>3 DEF Apart
<1> QED
  BY <1>4 DEF t

-----------------------------------------------------------------------------
(* Requests *)

(* The chunks of the requests of a ring that it has not given back. *)
InRing(v) == (UNION inflight[v]) \cup (UNION ToSet(answered[v]))

LEMMA UnderWayIs ==
  ASSUME NEW c
  PROVE  c \in UnderWay <=> c \in dropped \/ \E v \in Workers : c \in InRing(v)
BY DEF UnderWay, InRing

(* What is in an open ring is in no other one, and not dropped; its        *)
(* requests have no chunk in common.                                       *)
OwnRing(v) ==
  /\ InRing(v) \cap dropped = {}
  /\ \A u \in Workers : u # v => InRing(v) \cap InRing(u) = {}

OwnRequests(v) ==
  /\ \A r, q \in inflight[v] : r # q => r \cap q = {}
  /\ (UNION inflight[v]) \cap (UNION ToSet(answered[v])) = {}
  /\ Apart(answered[v])

Tracked ==
  /\ answered \in [Workers -> Seq(SUBSET Chunks)]
  /\ \A v \in Workers : Len(answered[v]) = Len(cq[v])
  /\ \A c \in Chunks : c \in UnderWay => issued[c] > 0
  /\ \A v \in ringsOpen : OwnRing(v) /\ OwnRequests(v)

LEMMA TrackedTypes ==
  ASSUME TypeInv
  PROVE  /\ inflight \in [Workers -> SUBSET SUBSET Chunks]
         /\ cq \in [Workers -> Seq(BOOLEAN)] /\ ringsOpen \subseteq Workers
         /\ batch \in [Workers -> SUBSET Chunks]
         /\ issued \in [Chunks -> Nat]
BY DEF TypeInv, TypeOK

LEMMA TrackedInit == BufferInit => Tracked
<1> SUFFICES ASSUME BufferInit PROVE Tracked
  OBVIOUS
<1>1. /\ \A v \in Workers : inflight[v] = {} /\ cq[v] = <<>>
                            /\ answered[v] = <<>>
      /\ dropped = {} /\ answered = [w \in Workers |-> <<>>]
      /\ ringsOpen \subseteq Workers
  BY DEF BufferInit, Init
<1>2. <<>> \in Seq(SUBSET Chunks) /\ ToSet(<<>>) = {} /\ Apart(<<>>)
  BY EmptySeq DEF ToSet, Apart
<1>3. \A v \in Workers : InRing(v) = {}
  BY <1>1, <1>2 DEF InRing
<1>4. \A c : c \notin UnderWay
  BY <1>1, <1>3, UnderWayIs
<1> QED
  BY <1>1, <1>2, <1>3, <1>4 DEF Tracked, OwnRing, OwnRequests

(* Chunks are handed out, and never taken back. *)
Later == \A c \in Chunks : issued[c] > 0 => issued'[c] > 0

(* Nothing comes into a ring, and what leaves it for dropped leaves a ring *)
(* that is closed.                                                         *)
RingsShrink ==
  /\ \A v \in Workers : InRing(v)' \subseteq InRing(v)
  /\ ringsOpen' \subseteq ringsOpen
  /\ \A c \in dropped' :
       c \in dropped \/ \E u \in Workers \ ringsOpen' : c \in InRing(u)

LEMMA UnderWayNext ==
  ASSUME NEW c
  PROVE  c \in UnderWay' <=>
           c \in dropped' \/ \E v \in Workers : c \in InRing(v)'
BY DEF UnderWay, InRing

LEMMA ShrinkTracked ==
  ASSUME TypeInv, Tracked, Later, RingsShrink,
         answered' \in [Workers -> Seq(SUBSET Chunks)],
         \A v \in Workers : Len(answered'[v]) = Len(cq'[v]),
         \A v \in ringsOpen' : OwnRequests(v)'
  PROVE  Tracked' /\ \A c : c \in UnderWay' => c \in UnderWay
<1> USE TrackedTypes
<1>1. \A c : c \in UnderWay' => c \in UnderWay
  <2> SUFFICES ASSUME NEW c, c \in UnderWay' PROVE c \in UnderWay
    OBVIOUS
  <2>1. c \in dropped' \/ \E v \in Workers : c \in InRing(v)'
    BY UnderWayNext
  <2>2. c \in dropped \/ \E v \in Workers : c \in InRing(v)
    BY <2>1 DEF RingsShrink
  <2> QED
    BY <2>2, UnderWayIs
<1>2. ASSUME NEW v \in ringsOpen'
      PROVE  OwnRing(v)'
  <2>1. v \in ringsOpen /\ v \in Workers /\ OwnRing(v)
    BY DEF RingsShrink, Tracked
  <2>2. InRing(v)' \cap dropped' = {}
    <3> SUFFICES ASSUME NEW c \in InRing(v)', c \in dropped' PROVE FALSE
      OBVIOUS
    <3>1. c \in InRing(v)
      BY <2>1 DEF RingsShrink
    <3>2. c \notin dropped /\ \A u \in Workers : u # v => c \notin InRing(u)
      BY <2>1, <3>1 DEF OwnRing
    <3> QED
      BY <3>2 DEF RingsShrink
  <2>3. \A u \in Workers : u # v => InRing(v)' \cap InRing(u)' = {}
    BY <2>1 DEF OwnRing, RingsShrink
  <2> QED
    BY <2>2, <2>3 DEF OwnRing
<1>3. \A c \in Chunks : c \in UnderWay' => issued'[c] > 0
  BY <1>1 DEF Tracked, Later
<1> QED
  BY <1>1, <1>2, <1>3 DEF Tracked

(* Nothing happens to the requests. *)
RingsStill == UNCHANGED <<inflight, cq, answered, dropped, ringsOpen>>

(* Worker w submits its batch. *)
RingSubmits(w) ==
  /\ w \in ringsOpen
  /\ \A c \in batch[w] : issued[c] = 0 /\ issued'[c] > 0
  /\ inflight' = [inflight EXCEPT ![w] = @ \cup {batch[w]}]
  /\ UNCHANGED <<cq, answered, dropped, ringsOpen>>

(* The oldest answer of ring v is seen. *)
RingSeen(v) ==
  /\ v \in ringsOpen /\ cq[v] # <<>>
  /\ cq' = [cq EXCEPT ![v] = Tail(@)]
  /\ answered' = [answered EXCEPT ![v] = Tail(@)]
  /\ UNCHANGED <<inflight, dropped, ringsOpen>>

(* Ring v is closed. *)
RingCloses(v) ==
  /\ v \in ringsOpen /\ ringsOpen' = ringsOpen \ {v}
  /\ cq' = [cq EXCEPT ![v] = <<>>]
  /\ dropped' = dropped \cup InRing(v)
  /\ answered' = [answered EXCEPT ![v] = <<>>]
  /\ UNCHANGED inflight

(* The kernel answers request r of ring v. *)
RingAnswers(v, r) ==
  /\ r \in inflight[v]
  /\ inflight' = [inflight EXCEPT ![v] = @ \ {r}]
  /\ IF v \in ringsOpen
     THEN /\ answered' = [answered EXCEPT ![v] = Append(@, r)]
          /\ \E s \in BOOLEAN : cq' = [cq EXCEPT ![v] = Append(@, s)]
     ELSE UNCHANGED <<answered, cq>>
  /\ UNCHANGED <<dropped, ringsOpen>>

LEMMA StillTracked ==
  ASSUME TypeInv, Tracked, Later, RingsStill
  PROVE  Tracked' /\ \A c : c \in UnderWay' => c \in UnderWay
<1>1. \A v \in Workers : InRing(v)' = InRing(v)
  BY DEF RingsStill, InRing
<1>2. \A v \in ringsOpen' : OwnRequests(v)'
  BY DEF RingsStill, OwnRequests, Tracked, Apart
<1>3. RingsShrink
  BY <1>1 DEF RingsShrink, RingsStill
<1> QED
  BY <1>2, <1>3, ShrinkTracked DEF Tracked, RingsStill

LEMMA SubmitTracked ==
  ASSUME TypeInv, Tracked, Later, NEW w \in Workers, RingSubmits(w)
  PROVE  /\ Tracked'
         /\ \A c \in Chunks :
              c \in UnderWay' => c \in UnderWay \/ issued[c] = 0
<1> USE TrackedTypes
<1>1. /\ inflight'[w] = inflight[w] \cup {batch[w]}
      /\ \A v \in Workers : v # w => inflight'[v] = inflight[v]
      /\ UNCHANGED <<cq, answered, dropped, ringsOpen>> /\ w \in ringsOpen
  BY DEF RingSubmits
<1>2. \A c \in batch[w] : c \in Chunks /\ issued[c] = 0 /\ issued'[c] > 0
  BY DEF RingSubmits
<1>3. /\ batch[w] \cap dropped = {}
      /\ \A v \in Workers : batch[w] \cap InRing(v) = {}
  <2>1. \A c \in batch[w] : c \notin UnderWay
    BY <1>2 DEF Tracked
  <2> QED
    BY <2>1, UnderWayIs
<1>4. /\ InRing(w)' = InRing(w) \cup batch[w]
      /\ \A v \in Workers : v # w => InRing(v)' = InRing(v)
  BY <1>1 DEF InRing
<1>5. ASSUME NEW c \in Chunks, c \in UnderWay'
      PROVE  c \in UnderWay \/ c \in batch[w]
  <2>1. c \in dropped' \/ \E v \in Workers : c \in InRing(v)'
    BY <1>5, UnderWayNext
  <2> QED
    BY <1>1, <1>4, <2>1, UnderWayIs
<1>6. \A c \in Chunks : c \in UnderWay' => issued'[c] > 0
  BY <1>2, <1>5 DEF Tracked, Later
<1>7. ASSUME NEW v \in ringsOpen
      PROVE  OwnRing(v)'
  <2>1. OwnRing(v) /\ v \in Workers
    BY DEF Tracked
  <2>2. CASE v = w
    <3>1. InRing(v)' \cap dropped' = {}
      BY <1>1, <1>3, <1>4, <2>1, <2>2 DEF OwnRing
    <3>2. ASSUME NEW u \in Workers, u # v
          PROVE  InRing(v)' \cap InRing(u)' = {}
      BY <1>3, <1>4, <2>1, <2>2, <3>2 DEF OwnRing
    <3> QED
      BY <3>1, <3>2 DEF OwnRing
  <2>3. CASE v # w
    <3>1. InRing(v)' \cap dropped' = {}
      BY <1>1, <1>4, <2>1, <2>3 DEF OwnRing
    <3>2. ASSUME NEW u \in Workers, u # v
          PROVE  InRing(v)' \cap InRing(u)' = {}
      <4>1. InRing(v)' = InRing(v) /\ InRing(v) \cap InRing(u) = {}
        BY <1>4, <2>1, <2>3, <3>2 DEF OwnRing
      <4>2. InRing(u)' \subseteq InRing(u) \cup batch[w]
        BY <1>4
      <4> QED
        BY <1>3, <2>1, <4>1, <4>2
    <3> QED
      BY <3>1, <3>2 DEF OwnRing
  <2> QED
    BY <2>2, <2>3
<1>8. ASSUME NEW v \in ringsOpen
      PROVE  OwnRequests(v)'
  <2>1. OwnRequests(v) /\ v \in Workers
    BY DEF Tracked
  <2>2. Apart(answered[v])'
    BY <1>1, <2>1 DEF OwnRequests, Apart
  <2>3. CASE v # w
    BY <1>1, <2>1, <2>2, <2>3 DEF OwnRequests
  <2>4. CASE v = w
    <3>1. \A r \in inflight[w] : r \cap batch[w] = {}
      BY <1>3 DEF InRing
    <3>2. \A r, q \in inflight'[w] : r # q => r \cap q = {}
      BY <1>1, <2>1, <2>4, <3>1 DEF OwnRequests
    <3>3. batch[w] \cap (UNION ToSet(answered[w])) = {}
      <4>1. batch[w] \cap InRing(w) = {}
        BY <1>3
      <4> QED
        BY <4>1 DEF InRing
    <3>4. (UNION inflight'[w]) = (UNION inflight[w]) \cup batch[w]
      BY <1>1, UnionAdd
    <3>5. (UNION inflight[w]) \cap (UNION ToSet(answered[w])) = {}
      BY <2>1, <2>4 DEF OwnRequests
    <3>6. (UNION inflight'[w]) \cap (UNION ToSet(answered'[w])) = {}
      <4>1. answered'[w] = answered[w]
        BY <1>1
      <4> QED
        BY <3>3, <3>4, <3>5, <4>1
    <3> QED
      BY <2>2, <2>4, <3>2, <3>6 DEF OwnRequests
  <2> QED
    BY <2>3, <2>4
<1>9. \A c \in Chunks : c \in UnderWay' => c \in UnderWay \/ issued[c] = 0
  BY <1>2, <1>5
<1> QED
  BY <1>1, <1>6, <1>7, <1>8, <1>9 DEF Tracked

LEMMA SeenTracked ==
  ASSUME TypeInv, Tracked, Later, NEW v \in Workers, RingSeen(v)
  PROVE  /\ Tracked' /\ \A c : c \in UnderWay' => c \in UnderWay
         /\ Head(answered[v]) \subseteq Chunks
         /\ \A c \in Head(answered[v]) : c \in UnderWay /\ c \notin UnderWay'
<1> DEFINE h == Head(answered[v])
           t == Tail(answered[v])
<1>1. /\ v \in ringsOpen /\ OwnRing(v) /\ OwnRequests(v)
      /\ answered[v] \in Seq(SUBSET Chunks) /\ cq[v] \in Seq(BOOLEAN)
      /\ answered \in [Workers -> Seq(SUBSET Chunks)]
      /\ cq \in [Workers -> Seq(BOOLEAN)] /\ cq[v] # <<>>
      /\ \A u \in Workers : Len(answered[u]) = Len(cq[u])
  BY TrackedTypes DEF Tracked, RingSeen
<1>2. answered[v] # <<>>
  <2>1. Len(cq[v]) # 0
    BY <1>1, EmptySeq
  <2> QED
    BY <1>1, <2>1
<1>3. /\ t \in Seq(SUBSET Chunks) /\ Len(t) = Len(answered[v]) - 1
      /\ h \in SUBSET Chunks
  BY <1>1, <1>2, TailOf
<1>4. Tail(cq[v]) \in Seq(BOOLEAN) /\ Len(Tail(cq[v])) = Len(cq[v]) - 1
  BY <1>1, TailOf
<1>5. ToSet(answered[v]) = {h} \cup ToSet(t)
  BY <1>1, <1>2, MembersTail
<1>6. Apart(t) /\ h \cap (UNION ToSet(t)) = {}
  BY <1>1, <1>2, ApartTail DEF OwnRequests
<1>7. /\ answered' = [answered EXCEPT ![v] = t]
      /\ cq' = [cq EXCEPT ![v] = Tail(@)]
      /\ UNCHANGED <<inflight, dropped, ringsOpen>>
  BY DEF RingSeen
<1> HIDE DEF h, t
<1>8. /\ answered'[v] = t
      /\ \A u \in Workers : u # v => answered'[u] = answered[u]
      /\ answered' \in [Workers -> Seq(SUBSET Chunks)]
  BY <1>1, <1>3, <1>7
<1>9. \A u \in Workers : Len(answered'[u]) = Len(cq'[u])
  BY <1>1, <1>3, <1>4, <1>7, <1>8
<1>10. (UNION ToSet(answered[v])) = h \cup (UNION ToSet(t))
  BY <1>5, UnionAdd
<1>11. InRing(v) = InRing(v)' \cup h /\ h \cap InRing(v)' = {}
  <2>1. (UNION inflight[v]) \cap (UNION ToSet(answered[v])) = {}
    BY <1>1 DEF OwnRequests
  <2>2. InRing(v)' = (UNION inflight[v]) \cup (UNION ToSet(t))
    BY <1>7, <1>8 DEF InRing
  <2>3. InRing(v) = (UNION inflight[v]) \cup (UNION ToSet(answered[v]))
    BY DEF InRing
  <2> QED
    BY <1>6, <1>10, <2>1, <2>2, <2>3, Parts
<1>12. \A u \in Workers : u # v => InRing(u)' = InRing(u)
  BY <1>7, <1>8 DEF InRing
<1>13. RingsShrink
  BY <1>7, <1>11, <1>12 DEF RingsShrink
<1>14. ASSUME NEW u \in ringsOpen'
       PROVE  OwnRequests(u)'
  <2>1. u \in Workers /\ OwnRequests(u) /\ inflight'[u] = inflight[u]
    BY <1>7 DEF Tracked, TypeInv, TypeOK
  <2>2. CASE u = v
    <3>1. (UNION ToSet(t)) \subseteq (UNION ToSet(answered[v]))
      BY <1>10
    <3> QED
      BY <1>6, <1>8, <2>1, <2>2, <3>1 DEF OwnRequests
  <2>3. CASE u # v
    <3>1. answered'[u] = answered[u]
      BY <1>8, <2>1, <2>3
    <3> QED
      BY <2>1, <3>1 DEF OwnRequests, Apart
  <2> QED
    BY <2>2, <2>3
<1>15. Tracked' /\ \A c : c \in UnderWay' => c \in UnderWay
  BY <1>8, <1>9, <1>13, <1>14, ShrinkTracked
<1>16. ASSUME NEW c \in h
       PROVE  c \in UnderWay /\ c \notin UnderWay'
  <2>1. c \in InRing(v) /\ c \notin InRing(v)'
    BY <1>11
  <2>2. c \notin dropped' /\ \A u \in Workers : u # v => c \notin InRing(u)'
    BY <1>1, <1>7, <1>12, <2>1 DEF OwnRing
  <2> QED
    BY <2>1, <2>2, UnderWayIs, UnderWayNext
<1> QED
  BY <1>3, <1>15, <1>16 DEF h

LEMMA ClosesTracked ==
  ASSUME TypeInv, Tracked, Later, NEW v \in Workers, RingCloses(v)
  PROVE  Tracked' /\ \A c : c \in UnderWay' => c \in UnderWay
<1>1. /\ v \in ringsOpen /\ ringsOpen' = ringsOpen \ {v}
      /\ answered \in [Workers -> Seq(SUBSET Chunks)]
      /\ cq \in [Workers -> Seq(BOOLEAN)]
      /\ \A u \in Workers : Len(answered[u]) = Len(cq[u])
  BY TrackedTypes DEF Tracked, RingCloses
<1>2. <<>> \in Seq(SUBSET Chunks) /\ Len(<<>>) = 0 /\ ToSet(<<>>) = {}
  BY EmptySeq DEF ToSet
<1>3. /\ cq' = [cq EXCEPT ![v] = <<>>]
      /\ answered' = [answered EXCEPT ![v] = <<>>]
      /\ inflight' = inflight /\ dropped' = dropped \cup InRing(v)
  BY DEF RingCloses
<1>4. /\ answered'[v] = <<>> /\ cq'[v] = <<>>
      /\ \A u \in Workers :
           u # v => answered'[u] = answered[u] /\ cq'[u] = cq[u]
  BY <1>1, <1>3
<1>5. answered' \in [Workers -> Seq(SUBSET Chunks)]
  BY <1>1, <1>2, <1>3
<1>6. \A u \in Workers : Len(answered'[u]) = Len(cq'[u])
  BY <1>1, <1>2, <1>4
<1>7. \A u \in Workers : InRing(u)' \subseteq InRing(u)
  BY <1>2, <1>3, <1>4 DEF InRing
<1>8. RingsShrink
  BY <1>1, <1>3, <1>7 DEF RingsShrink
<1>9. ASSUME NEW u \in ringsOpen'
      PROVE  OwnRequests(u)'
  <2>1. u \in Workers /\ OwnRequests(u) /\ u # v
    BY <1>1, TrackedTypes DEF Tracked
  <2>2. answered'[u] = answered[u] /\ inflight'[u] = inflight[u]
    BY <1>3, <1>4, <2>1
  <2> QED
    BY <2>1, <2>2 DEF OwnRequests, Apart
<1> QED
  BY <1>5, <1>6, <1>8, <1>9, ShrinkTracked

LEMMA AnswersTracked ==
  ASSUME TypeInv, Tracked, Later, NEW v \in Workers, NEW r, RingAnswers(v, r)
  PROVE  Tracked' /\ \A c : c \in UnderWay' => c \in UnderWay
<1>1. /\ answered \in [Workers -> Seq(SUBSET Chunks)]
      /\ cq \in [Workers -> Seq(BOOLEAN)] /\ ringsOpen \subseteq Workers
      /\ \A u \in Workers : Len(answered[u]) = Len(cq[u])
      /\ inflight \in [Workers -> SUBSET SUBSET Chunks]
  BY TrackedTypes DEF Tracked
<1>2. /\ r \in inflight[v] /\ inflight' = [inflight EXCEPT ![v] = @ \ {r}]
      /\ dropped' = dropped /\ ringsOpen' = ringsOpen
  BY DEF RingAnswers
<1>3. /\ r \in SUBSET Chunks /\ inflight'[v] = inflight[v] \ {r}
      /\ \A u \in Workers : u # v => inflight'[u] = inflight[u]
      /\ r \subseteq (UNION inflight[v])
      /\ (UNION inflight'[v]) \subseteq (UNION inflight[v])
  BY <1>1, <1>2
<1>4. CASE v \notin ringsOpen
  <2>1. answered' = answered /\ cq' = cq
    BY <1>4 DEF RingAnswers
  <2>2. \A u \in Workers : InRing(u)' \subseteq InRing(u)
    BY <1>3, <2>1 DEF InRing
  <2>3. RingsShrink
    BY <1>2, <2>2 DEF RingsShrink
  <2>4. ASSUME NEW u \in ringsOpen'
        PROVE  OwnRequests(u)'
    <3>1. u \in Workers /\ OwnRequests(u) /\ inflight'[u] = inflight[u]
      BY <1>1, <1>2, <1>3, <1>4 DEF Tracked
    <3> QED
      BY <2>1, <3>1 DEF OwnRequests, Apart
  <2> QED
    BY <1>1, <2>1, <2>3, <2>4, ShrinkTracked
<1>5. CASE v \in ringsOpen
  <2> DEFINE a == Append(answered[v], r)
  <2>1. PICK s \in BOOLEAN : cq' = [cq EXCEPT ![v] = Append(@, s)]
    BY <1>5 DEF RingAnswers
  <2>2. answered' = [answered EXCEPT ![v] = a]
    BY <1>5 DEF RingAnswers
  <2>3. OwnRequests(v)
    BY <1>5 DEF Tracked
  <2>4. a \in Seq(SUBSET Chunks) /\ Len(a) = Len(answered[v]) + 1
    BY <1>1, <1>3, AppendProperties
  <2>5. Len(Append(cq[v], s)) = Len(cq[v]) + 1
    BY <1>1, AppendProperties
  <2>6. ToSet(a) = ToSet(answered[v]) \cup {r}
    <3>1. answered[v] \in Seq(SUBSET Chunks)
      BY <1>1
    <3> QED
      BY <1>3, <3>1, MembersAppend
  <2>7. (UNION ToSet(answered[v])) \cap r = {}
    <3>1. (UNION inflight[v]) \cap (UNION ToSet(answered[v])) = {}
      BY <2>3 DEF OwnRequests
    <3> QED
      BY <1>3, <3>1
  <2>8. Apart(a)
    BY <1>1, <1>3, <2>3, <2>7, ApartAppend DEF OwnRequests
  <2> HIDE DEF a
  <2>9. /\ answered'[v] = a /\ answered' \in [Workers -> Seq(SUBSET Chunks)]
        /\ \A u \in Workers : u # v => answered'[u] = answered[u]
    BY <1>1, <2>2, <2>4
  <2>10. \A u \in Workers : Len(answered'[u]) = Len(cq'[u])
    BY <1>1, <2>1, <2>4, <2>5, <2>9
  <2>11. (UNION ToSet(a)) = (UNION ToSet(answered[v])) \cup r
    BY <2>6, UnionAdd
  <2>12. InRing(v)' \subseteq InRing(v)
    <3>1. InRing(v)' = (UNION inflight'[v]) \cup (UNION ToSet(a))
      BY <2>9 DEF InRing
    <3> QED
      BY <1>3, <2>11, <3>1 DEF InRing
  <2>13. \A u \in Workers : InRing(u)' \subseteq InRing(u)
    BY <1>3, <2>9, <2>12 DEF InRing
  <2>14. RingsShrink
    BY <1>2, <2>13 DEF RingsShrink
  <2>15. ASSUME NEW u \in ringsOpen'
         PROVE  OwnRequests(u)'
    <3>1. u \in Workers /\ OwnRequests(u)
      BY <1>1, <1>2 DEF Tracked
    <3>2. CASE u # v
      BY <1>3, <2>9, <3>1, <3>2 DEF OwnRequests, Apart
    <3>3. CASE u = v
      <4>1. \A q, p \in inflight'[v] : q # p => q \cap p = {}
        BY <1>3, <2>3 DEF OwnRequests
      <4>2. \A q \in inflight'[v] : q \cap r = {}
        BY <1>2, <1>3, <2>3 DEF OwnRequests
      <4>3. (UNION inflight[v]) \cap (UNION ToSet(answered[v])) = {}
        BY <2>3 DEF OwnRequests
      <4>4. (UNION inflight'[v]) \cap r = {}
        BY <4>2, UnionMeets
      <4>5. (UNION inflight'[v]) \cap (UNION ToSet(a)) = {}
        <5>1. (UNION inflight'[v]) \subseteq (UNION inflight[v])
          BY <1>3
        <5> QED
          BY <2>11, <4>3, <4>4, <5>1
      <4> QED
        BY <2>8, <2>9, <3>3, <4>1, <4>5 DEF OwnRequests
    <3> QED
      BY <3>2, <3>3
  <2> QED
    BY <2>9, <2>10, <2>14, <2>15, ShrinkTracked
<1> QED
  BY <1>4, <1>5

(* What is handed to a write was not, and is from then on. *)
LEMMA IssuesLater ==
  ASSUME TypeInv, BatchIssued, Next, ~aborted
  PROVE  Later
<1>1. issued \in [Chunks -> Nat]
  BY TrackedTypes
<1>2. CASE \E w \in Workers : Acquire(w) \/ BeginWrite(w) \/ Count(w)
  BY <1>2 DEF Acquire, BeginWrite, Count, Later
<1>3. CASE \E w \in Workers : Issues(w)
  BY <1>1, <1>3 DEF Issues, Issue, Later
<1>4. CASE Elsewhere
  BY <1>4 DEF Elsewhere, Later
<1> QED
  BY <1>2, <1>3, <1>4, BatchKinds

LEMMA WriteStill ==
  ASSUME NEW w \in Workers,
         PwritevAgain(w) \/ PwritevLast(w) \/ PwritevFails(w)
  PROVE  RingsStill
<1>1. CASE PwritevAgain(w)
  BY <1>1 DEF PwritevAgain, vars, ringVars, RingsStill
<1>2. CASE PwritevLast(w)
  <2>1. UNCHANGED <<answered, dropped>>
    BY <1>2 DEF PwritevLast, LeaveLoop
  <2>2. WriteSync(w) \/ WriteShort(w) \/ WriteFails(w)
    BY <1>2 DEF PwritevLast
  <2>3. UNCHANGED ringVars
    BY <2>2 DEF WriteSync, WriteShort, WriteFails
  <2> QED
    BY <2>1, <2>3 DEF ringVars, RingsStill
<1>3. CASE PwritevFails(w)
  BY <1>3 DEF PwritevFails, LeaveLoop, WriteFails, ringVars, RingsStill
<1> QED
  BY <1>1, <1>2, <1>3

LEMMA OtherStill ==
  ASSUME NEW w \in Workers,
         \/ GetBuffer(w) \/ FillStripBuffers(w) \/ AcquireBuffer(w)
         \/ OtherWork(w)
  PROVE  RingsStill
<1> USE DEF RingsStill, ringVars
<1>1. CASE GetBuffer(w)
  BY <1>1 DEF GetBuffer, vars
<1>2. CASE FillStripBuffers(w)
  BY <1>2 DEF FillStripBuffers, FillStrip
<1>3. CASE AcquireBuffer(w)
  BY <1>3 DEF AcquireBuffer, Acquire
<1>4. CASE OtherWork(w)
  <2>1. UNCHANGED <<answered, dropped>>
    BY <1>4 DEF OtherWork
  <2>2. \/ \E s \in Strips : TakeStrip(w, s)
        \/ NothingToWrite(w) \/ BeginWrite(w)
        \/ EndReap(w) \/ RingGone(w)
        \/ Count(w) \/ EndCount(w)
        \/ BeginFinish(w) \/ Seal(w)
    BY <1>4 DEF OtherWork
  <2>3. UNCHANGED ringVars
    BY <2>2 DEF TakeStrip, NothingToWrite, BeginWrite, EndReap, RingGone,
                Count, EndCount, BeginFinish, Seal
  <2> QED
    BY <2>1, <2>3
<1> QED
  BY <1>1, <1>2, <1>3, <1>4

LEMMA SubmitSubmits ==
  ASSUME TypeInv, BatchIssued, ~aborted, NEW w \in Workers, SubmitBuffers(w)
  PROVE  RingSubmits(w)
<1>1. /\ pc[w] = "write" /\ w \in ringsOpen /\ Issue(w)
      /\ inflight' = [inflight EXCEPT ![w] = @ \cup {batch[w]}]
      /\ UNCHANGED <<cq, answered, dropped, ringsOpen>>
  BY DEF SubmitBuffers, Submit
<1>2. \A c \in batch[w] : c \in Chunks /\ issued[c] = 0
  BY <1>1, TrackedTypes DEF BatchIssued
<1>3. \A c \in batch[w] : issued'[c] > 0
  BY <1>1, <1>2 DEF Issue
<1> QED
  BY <1>1, <1>2, <1>3 DEF RingSubmits

LEMMA ReapSeen ==
  ASSUME NEW w \in Workers, ReapBuffers(w)
  PROVE  RingSeen(w)
BY DEF ReapBuffers, Reap, fileVars, RingSeen

LEMMA KernelAnswers ==
  ASSUME TypeInv, NEW v \in Workers, KernelReads(v)
  PROVE  \E r : RingAnswers(v, r)
<1>1. inflight \in [Workers -> SUBSET SUBSET Chunks]
  BY TrackedTypes
<1>2. PICK r \in inflight[v] :
        /\ inflight' = [inflight EXCEPT ![v] = @ \ {r}]
        /\ \E s \in BOOLEAN :
             cq' = IF v \in ringsOpen
                   THEN [cq EXCEPT ![v] = Append(@, s)] ELSE cq
  <2>1. \E r \in inflight[v] : Answer(v, r, TRUE) \/ Answer(v, r, FALSE)
    BY DEF KernelReads, Kernel, KernelWrites, KernelWritesShort, KernelFails
  <2> QED
    BY <2>1 DEF Answer
<1>3. ringsOpen' = ringsOpen /\ dropped' = dropped
  BY DEF KernelReads, Kernel, KernelWrites, KernelWritesShort, KernelFails
<1>4. inflight'[v] = inflight[v] \ {r}
  BY <1>1, <1>2
<1>5. PICK q \in inflight[v] \ inflight'[v] :
        answered' = IF v \in ringsOpen
                    THEN [answered EXCEPT ![v] = Append(@, q)] ELSE answered
  BY DEF KernelReads, Answered
<1>6. q = r
  BY <1>4, <1>5
<1> QED
  BY <1>2, <1>3, <1>5, <1>6 DEF RingAnswers

LEMMA CloseSteps ==
  ASSUME TypeInv, CloseRingsBuffers
  PROVE  \E v \in ringsOpen :
           \/ /\ RingSeen(v)
              /\ buf' = Unref(Head(answered[v]))
              /\ held' = Returned(Head(answered[v]))
           \/ RingCloses(v) /\ UNCHANGED <<buf, held>>
<1>1. PICK u \in ringsOpen : WaitCompletion(u) \/ ExitRing(u)
  BY DEF CloseRingsBuffers, CloseRings
<1>2. PICK v \in ringsOpen :
        IF v \in ringsOpen'
        THEN /\ cq'[v] # cq[v]
             /\ buf' = Unref(Head(answered[v]))
             /\ held' = Returned(Head(answered[v]))
             /\ answered' = [answered EXCEPT ![v] = Tail(@)]
             /\ UNCHANGED dropped
        ELSE /\ dropped' = dropped \cup InRing(v)
             /\ answered' = [answered EXCEPT ![v] = <<>>]
             /\ UNCHANGED <<buf, held>>
  BY DEF CloseRingsBuffers, InRing
<1>3. /\ ringsOpen \subseteq Workers /\ cq \in [Workers -> Seq(BOOLEAN)]
  BY TrackedTypes
<1>4. CASE WaitCompletion(u)
  <2>1. /\ ringsOpen' = ringsOpen /\ inflight' = inflight
        /\ cq' = [cq EXCEPT ![u] = Tail(@)] /\ cq[u] # <<>>
    BY <1>4 DEF WaitCompletion
  <2>2. v = u
    BY <1>2, <1>3, <2>1
  <2> QED
    BY <1>2, <2>1, <2>2 DEF RingSeen
<1>5. CASE ExitRing(u)
  <2>1. /\ ringsOpen' = ringsOpen \ {u} /\ inflight' = inflight
        /\ cq' = [cq EXCEPT ![u] = <<>>]
    BY <1>5 DEF ExitRing
  <2>2. v = u
    BY <1>2, <1>3, <2>1
  <2> QED
    BY <1>2, <2>1, <2>2 DEF RingCloses
<1> QED
  BY <1>1, <1>4, <1>5

-----------------------------------------------------------------------------
(* Chunks and their buffers *)

(* A chunk that waits for its data or its write. *)
Claimed(c) == issued[c] = 0 \/ c \in UnderWay

(* No chunk comes to wait again. *)
ClaimsShrink == \A c \in Chunks : Claimed(c)' => Claimed(c)

LEMMA ClaimsLater ==
  ASSUME TypeInv, Later, issued' \in [Chunks -> Nat],
         \A c \in Chunks : c \in UnderWay' => c \in UnderWay \/ issued[c] = 0
  PROVE  ClaimsShrink
<1> SUFFICES ASSUME NEW c \in Chunks, Claimed(c)' PROVE Claimed(c)
  BY DEF ClaimsShrink
<1>1. issued'[c] = 0 => issued[c] = 0
  <2>1. issued[c] \in Nat /\ issued'[c] \in Nat
    BY TrackedTypes
  <2>2. issued[c] > 0 => issued'[c] > 0
    BY DEF Later
  <2> QED
    BY <2>1, <2>2
<1> QED
  BY <1>1 DEF Claimed

(* buf stays a sequence, whatever becomes of its elements. *)
IsVector(f) == \E n \in Nat : DOMAIN f = 1 .. n /\ f = [i \in 1 .. n |-> f[i]]

LEMMA VectorSeq ==
  ASSUME NEW f, IsVector(f)
  PROVE  /\ f \in Seq({ f[i] : i \in DOMAIN f })
         /\ Len(f) \in Nat /\ DOMAIN f = 1 .. Len(f)
<1>1. PICK n \in Nat : DOMAIN f = 1 .. n /\ f = [i \in 1 .. n |-> f[i]]
  BY DEF IsVector
<1>2. f \in [1 .. n -> { f[i] : i \in DOMAIN f }]
  BY <1>1
<1>3. f \in Seq({ f[i] : i \in DOMAIN f })
  BY <1>2, SeqDef
<1> QED
  BY <1>3, LenProperties

LEMMA VectorAppend ==
  ASSUME NEW f, IsVector(f), NEW x
  PROVE  /\ IsVector(Append(f, x))
         /\ DOMAIN Append(f, x) = DOMAIN f \cup {Len(f) + 1}
         /\ \A i \in DOMAIN f : Append(f, x)[i] = f[i]
         /\ Append(f, x)[Len(f) + 1] = x
<1> DEFINE S == { f[i] : i \in DOMAIN f } \cup {x}
           t == Append(f, x)
<1>1. /\ f \in [1 .. Len(f) -> S] /\ Len(f) \in Nat
      /\ DOMAIN f = 1 .. Len(f)
  BY VectorSeq DEF IsVector
<1>2. f \in Seq(S) /\ x \in S
  BY <1>1, SeqDef
<1> HIDE DEF S
<1>3. /\ t \in Seq(S) /\ Len(t) = Len(f) + 1
      /\ \A i \in 1 .. Len(f) : t[i] = f[i]
      /\ t[Len(f) + 1] = x
  BY <1>2, AppendProperties
<1>4. t \in [1 .. Len(f) + 1 -> S]
  BY <1>3, LenProperties
<1>5. DOMAIN t = 1 .. Len(f) + 1 /\ t = [i \in 1 .. Len(f) + 1 |-> t[i]]
  BY <1>4
<1> HIDE DEF t
<1>6. IsVector(t) /\ DOMAIN t = DOMAIN f \cup {Len(f) + 1}
  BY <1>1, <1>5 DEF IsVector
<1> QED
  BY <1>1, <1>3, <1>6 DEF t

LEMMA VectorSame ==
  ASSUME NEW f, IsVector(f), NEW g, g = [i \in DOMAIN f |-> g[i]]
  PROVE  IsVector(g) /\ DOMAIN g = DOMAIN f
BY DEF IsVector

(* The buffer of a claimed chunk is in no pool, and in no other of those. *)
Unaliased(c) ==
  /\ \A v \in Workers : held[c] \notin pool[v]
  /\ \A d \in Chunks : d # c /\ Claimed(d) => held[d] # held[c]

PoolTypes ==
  /\ IsVector(buf)
  /\ held \in [Chunks -> Bufs \cup {NoBuf}]
  /\ pool \in [Workers -> SUBSET Bufs]

PoolInv ==
  /\ PoolTypes
  /\ \A v, u \in Workers : v # u => pool[v] \cap pool[u] = {}
  /\ \A c \in Chunks : Claimed(c) /\ held[c] # NoBuf => Unaliased(c)

LEMMA PoolAliasing == PoolInv => NoAliasing
<1> SUFFICES ASSUME PoolInv,
                    NEW c \in Chunks, held[c] # NoBuf, Claimed(c),
                    NEW d \in Chunks, Claimed(d), d # c
             PROVE  /\ \A w \in Workers : held[c] \notin pool[w]
                    /\ held[d] # held[c]
  BY DEF NoAliasing, Claimed, PoolInv, Unaliased
<1> QED
  BY DEF PoolInv, Unaliased

(* Nothing is put into a pool, and no chunk gets a buffer. *)
PoolQuiet ==
  /\ buf' = [b \in Bufs |-> buf'[b]]
  /\ held' \in [Chunks -> Bufs \cup {NoBuf}]
  /\ \A c \in Chunks : held'[c] \in {held[c], NoBuf}
  /\ pool' \in [Workers -> SUBSET Bufs]
  /\ \A v \in Workers : pool'[v] \subseteq pool[v]

LEMMA QuietPool ==
  ASSUME PoolInv, ClaimsShrink, PoolQuiet
  PROVE  PoolInv'
<1>1. IsVector(buf') /\ Bufs' = Bufs
  BY VectorSame DEF PoolQuiet, PoolInv, PoolTypes, Bufs
<1>2. PoolTypes'
  BY <1>1 DEF PoolTypes, PoolQuiet
<1>3. \A v, u \in Workers : v # u => pool'[v] \cap pool'[u] = {}
  BY DEF PoolInv, PoolQuiet
<1>4. ASSUME NEW c \in Chunks, Claimed(c)', held'[c] # NoBuf
      PROVE  Unaliased(c)'
  <2>1. Claimed(c) /\ held'[c] = held[c]
    BY <1>4 DEF ClaimsShrink, PoolQuiet
  <2>2. Unaliased(c)
    BY <1>4, <2>1 DEF PoolInv
  <2>3. \A v \in Workers : held'[c] \notin pool'[v]
    BY <2>1, <2>2 DEF Unaliased, PoolQuiet
  <2>4. ASSUME NEW d \in Chunks, d # c, Claimed(d)'
        PROVE  held'[d] # held'[c]
    <3>1. Claimed(d)
      BY <2>4 DEF ClaimsShrink
    <3>2. held[d] # held[c]
      BY <2>2, <2>4, <3>1 DEF Unaliased
    <3> QED
      BY <1>4, <2>1, <3>2 DEF PoolQuiet
  <2> QED
    BY <2>3, <2>4 DEF Unaliased
<1> QED
  BY <1>2, <1>3, <1>4 DEF PoolInv

(* Worker w gets the buffers of chunks back that wait no longer. *)
LEMMA ReclaimPool ==
  ASSUME PoolInv, ClaimsShrink, buf' = buf, NEW w \in Workers,
         NEW C \in SUBSET Chunks, Reclaim(w, C),
         \A c \in C : Claimed(c) /\ ~Claimed(c)'
  PROVE  PoolInv'
<1>1. PoolTypes /\ Bufs' = Bufs
  BY DEF PoolInv, Bufs
<1>2. \A x \in Held(C) : x # NoBuf /\ \E d \in C : held[d] = x
  BY DEF Held
<1>3. Held(C) \subseteq Bufs
  BY <1>1, <1>2 DEF PoolTypes
<1>4. /\ held' \in [Chunks -> Bufs \cup {NoBuf}]
      /\ \A c \in Chunks : held'[c] \in {held[c], NoBuf}
  BY <1>1 DEF Reclaim, Returned, PoolTypes
<1>5. /\ pool' = [pool EXCEPT ![w] = @ \cup Held(C)]
      /\ pool'[w] = pool[w] \cup Held(C)
      /\ \A v \in Workers : v # w => pool'[v] = pool[v]
  BY <1>1 DEF Reclaim, PoolTypes
<1>6. PoolTypes'
  BY <1>1, <1>3, <1>4, <1>5 DEF PoolTypes
<1>7. ASSUME NEW x \in Held(C)
      PROVE  /\ \A v \in Workers : x \notin pool[v]
             /\ \A c \in Chunks \ C : Claimed(c) => held[c] # x
  <2>1. PICK d \in C : held[d] = x /\ x # NoBuf
    BY <1>2
  <2>2. Unaliased(d)
    BY <2>1 DEF PoolInv
  <2> QED
    BY <2>1, <2>2 DEF Unaliased
<1>8. ASSUME NEW v \in Workers, NEW u \in Workers, v # u
      PROVE  pool'[v] \cap pool'[u] = {}
  <2>1. pool[v] \cap pool[u] = {}
    BY <1>8 DEF PoolInv
  <2> QED
    BY <1>5, <1>7, <1>8, <2>1
<1>9. ASSUME NEW c \in Chunks, Claimed(c)', held'[c] # NoBuf
      PROVE  Unaliased(c)'
  <2>1. Claimed(c) /\ held'[c] = held[c] /\ c \notin C
    BY <1>4, <1>9 DEF ClaimsShrink
  <2>2. Unaliased(c)
    BY <1>9, <2>1 DEF PoolInv
  <2>3. \A v \in Workers : held[c] \notin pool[v] /\ held[c] \notin Held(C)
    BY <1>7, <2>1, <2>2 DEF Unaliased
  <2>4. \A v \in Workers : held'[c] \notin pool'[v]
    BY <1>5, <2>1, <2>3
  <2>5. ASSUME NEW d \in Chunks, d # c, Claimed(d)'
        PROVE  held'[d] # held'[c]
    <3>1. Claimed(d)
      BY <2>5 DEF ClaimsShrink
    <3>2. held[d] # held[c]
      BY <2>2, <2>5, <3>1 DEF Unaliased
    <3> QED
      BY <1>4, <1>9, <2>1, <3>2
  <2> QED
    BY <2>4, <2>5 DEF Unaliased
<1> QED
  BY <1>6, <1>8, <1>9 DEF PoolInv

(* Worker w gets buffer b for chunk c, from its pool or a new one. *)
Gets(w, c, b) ==
  /\ c \in Chunks /\ c \in ChunksOf[strip[w]] /\ held[c] = NoBuf
  /\ b # NoBuf /\ (b \in pool[w] \/ b \notin Bufs)
  /\ \A v \in Workers : v # w => b \notin pool[v]
  /\ \A d \in Chunks : Claimed(d) => held[d] # b
  /\ IsVector(buf') /\ Bufs' = Bufs \cup {b}
  /\ \A x \in Bufs : x # b => buf'[x] = buf[x]
  /\ b \in Bufs => buf[b].allocLen >= AllocLength[c]
  /\ LET before == IF b \in Bufs THEN buf[b] ELSE NewBuf(AllocLength[c])
     IN  buf'[b] = IF Chunked THEN AsChunkBuffer(before, c)
                              ELSE AsStripBuffer(before, c)
  /\ held'[c] = b /\ \A d \in Chunks : d # c => held'[d] = held[d]
  /\ held' \in [Chunks -> Bufs' \cup {NoBuf}]
  /\ pool'[w] = pool[w] \ {b}
  /\ \A v \in Workers : v # w => pool'[v] = pool[v]
  /\ pool' \in [Workers -> SUBSET Bufs']

LEMMA GetEffect ==
  ASSUME TypeInv, PoolInv, NEW w \in Workers, GetBuffer(w)
  PROVE  \E c, b : Gets(w, c, b)
<1>1. /\ PoolTypes /\ Bufs = DOMAIN buf
      /\ \A c \in Chunks : held[c] \in Bufs \cup {NoBuf}
      /\ Len(buf) \in Nat /\ DOMAIN buf = 1 .. Len(buf)
  BY VectorSeq DEF PoolInv, PoolTypes, Bufs
<1>2. ChunksOf[strip[w]] \subseteq Chunks
  <2>1. pc[w] = "fill"
    BY DEF GetBuffer
  <2>2. strip[w] \in Strips
    BY <2>1, TaskTypes
  <2> QED
    BY <2>2, EncodeAssumption
<1> DEFINE
      fresh(c) == NewBuf(AllocLength[c])
      got(c, b) == IF b \in DOMAIN buf THEN buf ELSE Append(buf, fresh(c))
      next(c, b) == IF Chunked THEN AsChunkBuffer(got(c, b)[b], c)
                               ELSE AsStripBuffer(got(c, b)[b], c)
<1>3. PICK c \in Wanting(w) : \E b \in FromPool(w, AllocLength[c]) :
        /\ buf' = [got(c, b) EXCEPT ![b] = next(c, b)]
        /\ held' = [held EXCEPT ![c] = b]
        /\ pool' = [pool EXCEPT ![w] = @ \ {b}]
  BY DEF GetBuffer
<1>4. PICK b \in FromPool(w, AllocLength[c]) :
        /\ buf' = [got(c, b) EXCEPT ![b] = next(c, b)]
        /\ held' = [held EXCEPT ![c] = b]
        /\ pool' = [pool EXCEPT ![w] = @ \ {b}]
  BY <1>3
<1> HIDE DEF fresh, next
<1>5. c \in Chunks /\ c \in ChunksOf[strip[w]] /\ held[c] = NoBuf
  BY <1>2 DEF Wanting
<1>6. \/ b \in pool[w] /\ buf[b].allocLen >= AllocLength[c]
      \/ b = Len(buf) + 1
  BY DEF FromPool
<1>7. /\ b # NoBuf /\ (b \in pool[w] \/ b \notin Bufs)
      /\ \A v \in Workers : v # w => b \notin pool[v]
      /\ \A d \in Chunks : Claimed(d) => held[d] # b
  <2>1. CASE b \in pool[w]
    <3>1. b \in Bufs /\ 0 \notin Bufs
      BY <1>1, <2>1 DEF PoolTypes
    <3>2. \A v \in Workers : v # w => b \notin pool[v]
      BY <2>1 DEF PoolInv
    <3>3. ASSUME NEW d \in Chunks, Claimed(d), held[d] = b PROVE FALSE
      <4>1. Unaliased(d)
        BY <3>1, <3>3 DEF PoolInv, NoBuf
      <4> QED
        BY <2>1, <3>3, <4>1 DEF Unaliased
    <3> QED
      BY <2>1, <3>1, <3>2, <3>3 DEF NoBuf
  <2>2. CASE b = Len(buf) + 1
    <3>1. b # 0 /\ b \notin Bufs
      BY <1>1, <2>2
    <3> QED
      BY <1>1, <3>1 DEF PoolTypes, NoBuf
  <2> QED
    BY <1>6, <2>1, <2>2
<1>8. /\ IsVector(got(c, b)) /\ DOMAIN got(c, b) = Bufs \cup {b}
      /\ \A x \in Bufs : got(c, b)[x] = buf[x]
      /\ b \notin Bufs => got(c, b)[b] = fresh(c)
  <2>1. CASE b \in Bufs
    BY <1>1, <2>1 DEF PoolTypes
  <2>2. CASE b \notin Bufs
    <3>1. IsVector(buf) /\ b = Len(buf) + 1
      BY <1>1, <1>6, <2>2 DEF PoolTypes
    <3>2. got(c, b) = Append(buf, fresh(c))
      BY <1>1, <2>2
    <3>3. /\ \A x \in 1 .. Len(buf) : Append(buf, fresh(c))[x] = buf[x]
          /\ Append(buf, fresh(c))[Len(buf) + 1] = fresh(c)
      BY <1>1, <3>1, VectorAppend
    <3> HIDE DEF got
    <3> QED
      BY <1>1, <3>1, <3>2, <3>3, VectorAppend
  <2> QED
    BY <2>1, <2>2
<1>9. LET before == IF b \in Bufs THEN buf[b] ELSE NewBuf(AllocLength[c])
      IN  next(c, b) = IF Chunked THEN AsChunkBuffer(before, c)
                                  ELSE AsStripBuffer(before, c)
  <2>1. got(c, b)[b] = IF b \in Bufs THEN buf[b] ELSE NewBuf(AllocLength[c])
    BY <1>8 DEF fresh
  <2> HIDE DEF got
  <2> QED
    BY <2>1 DEF next
<1> HIDE DEF got
<1>10. /\ IsVector(buf') /\ Bufs' = Bufs \cup {b}
       /\ \A x \in Bufs : x # b => buf'[x] = buf[x]
       /\ buf'[b] = next(c, b)
  <2>1. buf' = [i \in DOMAIN got(c, b) |-> buf'[i]]
    BY <1>4
  <2>2. IsVector(buf') /\ Bufs' = Bufs \cup {b}
    BY <1>8, <2>1, VectorSame DEF Bufs
  <2> QED
    BY <1>4, <1>8, <2>2
<1>11. /\ held'[c] = b /\ \A d \in Chunks : d # c => held'[d] = held[d]
       /\ held' \in [Chunks -> Bufs' \cup {NoBuf}]
  BY <1>1, <1>4, <1>5, <1>10 DEF PoolTypes
<1>12. /\ pool'[w] = pool[w] \ {b}
       /\ \A v \in Workers : v # w => pool'[v] = pool[v]
       /\ pool' \in [Workers -> SUBSET Bufs']
  BY <1>1, <1>4, <1>10 DEF PoolTypes
<1>13. b \in Bufs => buf[b].allocLen >= AllocLength[c]
  BY <1>1, <1>6
<1>14. Gets(w, c, b)
  BY <1>5, <1>7, <1>9, <1>10, <1>11, <1>12, <1>13 DEF Gets
<1> QED
  BY <1>14

LEMMA GetPool ==
  ASSUME TypeInv, PoolInv, ClaimsShrink, NEW w \in Workers, GetBuffer(w)
  PROVE  PoolInv'
<1>1. PICK c, b : Gets(w, c, b)
  BY GetEffect
<1>2. c \in Chunks
  BY <1>1 DEF Gets
<1>3. /\ b # NoBuf
      /\ \A v \in Workers : v # w => b \notin pool[v]
      /\ \A d \in Chunks : Claimed(d) => held[d] # b
  BY <1>1 DEF Gets
<1>4. IsVector(buf')
  BY <1>1 DEF Gets
<1>5. /\ held'[c] = b /\ \A d \in Chunks : d # c => held'[d] = held[d]
      /\ held' \in [Chunks -> Bufs' \cup {NoBuf}]
  BY <1>1 DEF Gets
<1>6. /\ pool'[w] = pool[w] \ {b}
      /\ \A v \in Workers : v # w => pool'[v] = pool[v]
      /\ pool' \in [Workers -> SUBSET Bufs']
  BY <1>1 DEF Gets
<1>7. PoolTypes'
  BY <1>4, <1>5, <1>6 DEF PoolTypes
<1>8. \A v \in Workers : pool'[v] \subseteq pool[v] /\ b \notin pool'[v]
  BY <1>3, <1>6
<1>9. \A v, u \in Workers : v # u => pool'[v] \cap pool'[u] = {}
  BY <1>8 DEF PoolInv
<1>10. ASSUME NEW d \in Chunks, Claimed(d)', held'[d] # NoBuf
       PROVE  Unaliased(d)'
  <2>1. CASE d = c
    <3>1. \A v \in Workers : held'[d] \notin pool'[v]
      BY <1>5, <1>8, <2>1
    <3>2. \A e \in Chunks : e # d /\ Claimed(e)' => held'[e] # held'[d]
      BY <1>3, <1>5, <2>1 DEF ClaimsShrink
    <3> QED
      BY <3>1, <3>2 DEF Unaliased
  <2>2. CASE d # c
    <3>1. Claimed(d) /\ held'[d] = held[d] /\ held[d] # b
      BY <1>3, <1>5, <1>10, <2>2 DEF ClaimsShrink
    <3>2. Unaliased(d)
      BY <1>10, <3>1 DEF PoolInv
    <3>3. \A v \in Workers : held'[d] \notin pool'[v]
      BY <1>8, <3>1, <3>2 DEF Unaliased
    <3>4. ASSUME NEW e \in Chunks, e # d, Claimed(e)'
          PROVE  held'[e] # held'[d]
      <4>1. CASE e = c
        BY <1>5, <3>1, <4>1
      <4>2. CASE e # c
        <5>1. Claimed(e) /\ held'[e] = held[e]
          BY <1>5, <3>4, <4>2 DEF ClaimsShrink
        <5> QED
          BY <3>1, <3>2, <3>4, <5>1 DEF Unaliased
      <4> QED
        BY <4>1, <4>2
    <3> QED
      BY <3>3, <3>4 DEF Unaliased
  <2> QED
    BY <2>1, <2>2
<1> QED
  BY <1>7, <1>9, <1>10 DEF PoolInv

(* Ranks number the chunks of a set. *)
LEMMA Ranks ==
  ASSUME NEW C \in SUBSET Chunks
  PROVE  /\ Cardinality(C) \in Nat
         /\ \A c \in C : Rank(c, C) \in 1 .. Cardinality(C)
         /\ \A c, d \in C : c # d => Rank(c, C) # Rank(d, C)
<1> DEFINE UpTo(c) == { e \in C : e <= c }
<1>1. C \subseteq Nat /\ IsFiniteSet(C)
  BY EncodeAssumption, FS_Subset
<1>2. \A c \in C :
        IsFiniteSet(UpTo(c)) /\ Cardinality(UpTo(c)) <= Cardinality(C)
  BY <1>1, FS_Subset
<1>3. Cardinality(C) \in Nat /\ \A c \in C : Cardinality(UpTo(c)) \in Nat
  BY <1>1, <1>2, FS_CardinalityType
<1>4. ASSUME NEW c \in C
      PROVE  Cardinality(UpTo(c)) # 0
  <2>1. c \in UpTo(c)
    BY <1>1
  <2> QED
    BY <1>2, <2>1, FS_EmptySet
<1>5. ASSUME NEW c \in C, NEW d \in C, c < d
      PROVE  Cardinality(UpTo(c)) # Cardinality(UpTo(d))
  <2>1. UpTo(c) \subseteq UpTo(d) /\ d \in UpTo(d) /\ d \notin UpTo(c)
    <3>1. c \in Nat /\ d \in Nat /\ d <= d /\ ~(d <= c)
      BY <1>1, <1>5
    <3>2. \A e \in C : e <= c => e <= d
      BY <1>1, <1>5, <3>1
    <3> QED
      BY <3>1, <3>2
  <2> HIDE DEF UpTo
  <2> QED
    BY <1>2, <2>1, FS_Subset
<1>6. \A c, d \in C : c # d => c < d \/ d < c
  BY <1>1
<1>7. \A c \in C : Rank(c, C) = Cardinality(UpTo(c))
  BY DEF Rank
<1> HIDE DEF UpTo
<1>8. \A c \in C : Rank(c, C) \in 1 .. Cardinality(C)
  BY <1>2, <1>3, <1>4, <1>7
<1>9. \A c, d \in C : c # d => Rank(c, C) # Rank(d, C)
  BY <1>5, <1>6, <1>7
<1> QED
  BY <1>3, <1>8, <1>9

LEMMA PoolInit == BufferInit => PoolInv
<1> SUFFICES ASSUME BufferInit PROVE PoolInv
  OBVIOUS
<1> DEFINE n == Cardinality(SharedChunks)
<1>1. SharedChunks \in SUBSET Chunks
  BY DEF SharedChunks
<1>2. /\ n \in Nat
      /\ \A c \in SharedChunks : Rank(c, SharedChunks) \in 1 .. n
      /\ \A c, d \in SharedChunks :
           c # d => Rank(c, SharedChunks) # Rank(d, SharedChunks)
  BY <1>1, Ranks
<1>3. /\ held = [c \in Chunks |-> IF c \in SharedChunks
                                  THEN Rank(c, SharedChunks) ELSE NoBuf]
      /\ buf = [b \in 1 .. n |-> buf[b]] /\ DOMAIN buf = 1 .. n
      /\ pool = [v \in Workers |-> {}]
  BY DEF BufferInit
<1> HIDE DEF n
<1>4. IsVector(buf)
  BY <1>2, <1>3 DEF IsVector
<1>5. PoolTypes
  BY <1>2, <1>3, <1>4 DEF PoolTypes, Bufs
<1>6. ASSUME NEW c \in Chunks, held[c] # NoBuf
      PROVE  Unaliased(c)
  <2>1. c \in SharedChunks /\ held[c] = Rank(c, SharedChunks)
    BY <1>3, <1>6
  <2>2. ASSUME NEW d \in Chunks, d # c
        PROVE  held[d] # held[c]
    <3>1. CASE d \in SharedChunks
      BY <1>2, <1>3, <2>1, <2>2, <3>1
    <3>2. CASE d \notin SharedChunks
      BY <1>3, <1>6, <3>2
    <3> QED
      BY <3>1, <3>2
  <2> QED
    BY <1>3, <2>2 DEF Unaliased
<1> QED
  BY <1>3, <1>5, <1>6 DEF PoolInv

-----------------------------------------------------------------------------
(* Steps *)

AliasInv == WriteInv /\ Tracked /\ PoolInv

LEMMA StillPool ==
  ASSUME PoolInv, UNCHANGED <<held, pool>>,
         buf' = buf \/ buf' = [b \in Bufs |-> buf'[b]]
  PROVE  PoolQuiet
<1>1. buf = [b \in Bufs |-> buf[b]]
  BY DEF PoolInv, PoolTypes, IsVector, Bufs
<1> QED
  BY <1>1 DEF PoolInv, PoolTypes, PoolQuiet

(* A worker leaves FileIOUnix::write: its chunks wait no longer. *)
LEMMA LeaveUnclaims ==
  ASSUME AliasInv, Later, ~aborted,
         NEW w \in Workers, PwritevLast(w) \/ PwritevFails(w)
  PROVE  /\ buf' = buf /\ Reclaim(w, batch[w]) /\ batch[w] \in SUBSET Chunks
         /\ \A c \in batch[w] : Claimed(c) /\ ~Claimed(c)'
<1>1. TypeInv /\ BatchIssued /\ Tracked
  BY DEF AliasInv, WriteInv, Gathered
<1>2. WriteSync(w) \/ WriteShort(w) \/ WriteFails(w)
  BY DEF PwritevLast, PwritevFails
<1>3. pc[w] = "write" /\ Issue(w)
  BY <1>2 DEF WriteSync, WriteShort, WriteFails
<1>4. LeaveLoop(w)
  BY DEF PwritevLast, PwritevFails
<1>5. buf' = buf /\ Reclaim(w, batch[w])
  BY <1>4 DEF LeaveLoop
<1>6. batch[w] \in SUBSET Chunks
  BY <1>1, TrackedTypes
<1>7. \A c : c \in UnderWay' => c \in UnderWay
  BY <1>1, WriteStill, StillTracked
<1>8. ASSUME NEW c \in batch[w]
      PROVE  Claimed(c) /\ ~Claimed(c)'
  <2>1. issued[c] = 0 /\ c \in Chunks
    BY <1>1, <1>3, <1>6 DEF BatchIssued
  <2>2. issued'[c] = 1
    BY <1>3, <2>1 DEF Issue
  <2>3. c \notin UnderWay
    BY <1>1, <2>1 DEF Tracked
  <2> QED
    BY <1>7, <2>1, <2>2, <2>3 DEF Claimed
<1> QED
  BY <1>5, <1>6, <1>8

(* Nor do those of an answer that is seen. *)
LEMMA SeenUnclaims ==
  ASSUME AliasInv, Later, NEW v \in Workers, RingSeen(v)
  PROVE  /\ Head(answered[v]) \in SUBSET Chunks
         /\ \A c \in Head(answered[v]) : Claimed(c) /\ ~Claimed(c)'
<1>1. TypeInv /\ Tracked
  BY DEF AliasInv, WriteInv
<1>2. /\ Head(answered[v]) \in SUBSET Chunks
      /\ \A c \in Head(answered[v]) : c \in UnderWay /\ c \notin UnderWay'
  BY <1>1, SeenTracked
<1>3. \A c \in Head(answered[v]) : issued'[c] > 0
  BY <1>1, <1>2 DEF Tracked, Later
<1> QED
  BY <1>2, <1>3 DEF Claimed

(* The other steps put nothing into a pool. *)
LEMMA WorkQuiet ==
  ASSUME PoolInv, NEW w \in Workers,
         \/ FillStripBuffers(w) \/ AcquireBuffer(w) \/ PwritevAgain(w)
         \/ SubmitBuffers(w) \/ KernelReads(w) \/ OtherWork(w)
  PROVE  PoolQuiet
<1>1. CASE FillStripBuffers(w)
  <2>1. /\ held' = held /\ pool' = pool
        /\ buf' = [b \in Bufs |-> buf'[b]]
    BY <1>1 DEF FillStripBuffers, Bufs
  <2> QED
    BY <2>1, StillPool
<1>2. CASE AcquireBuffer(w)
  <2>1. /\ held' = held /\ pool' = pool
        /\ buf' = buf \/ buf' = [b \in Bufs |-> buf'[b]]
    BY <1>2 DEF AcquireBuffer, Ref, Bufs
  <2> QED
    BY <2>1, StillPool
<1>3. CASE \/ PwritevAgain(w) \/ SubmitBuffers(w) \/ KernelReads(w)
           \/ OtherWork(w)
  <2>1. UNCHANGED <<buf, held, pool>>
    BY <1>3 DEF PwritevAgain, SubmitBuffers, KernelReads, OtherWork
  <2> QED
    BY <2>1, StillPool
<1> QED
  BY <1>1, <1>2, <1>3

LEMMA MainQuiet ==
  ASSUME PoolInv, CloseRingsBuffers \/ MainDrainBuffers \/ MainCloseBuffers
  PROVE  PoolQuiet
<1>1. CASE CloseRingsBuffers
  <2>1. /\ pool' = pool
        /\ \/ buf' = buf /\ held' = held
           \/ \E C : buf' = Unref(C) /\ held' = Returned(C)
    BY <1>1 DEF CloseRingsBuffers
  <2>2. CASE buf' = buf /\ held' = held
    BY <2>1, <2>2, StillPool
  <2>3. ASSUME NEW C, buf' = Unref(C), held' = Returned(C)
        PROVE  PoolQuiet
    <3>1. buf' = [b \in Bufs |-> buf'[b]]
      BY <2>3 DEF Unref, Bufs
    <3>2. /\ held \in [Chunks -> Bufs \cup {NoBuf}]
          /\ pool \in [Workers -> SUBSET Bufs]
      BY DEF PoolInv, PoolTypes
    <3>3. /\ held' \in [Chunks -> Bufs \cup {NoBuf}]
          /\ \A c \in Chunks : held'[c] \in {held[c], NoBuf}
      BY <2>3, <3>2 DEF Returned
    <3> QED
      BY <2>1, <3>1, <3>2, <3>3 DEF PoolQuiet
  <2> QED
    BY <2>1, <2>2, <2>3
<1>2. CASE MainDrainBuffers
  BY <1>2, StillPool DEF MainDrainBuffers
<1>3. CASE MainCloseBuffers
  <2>1. /\ buf' = [b \in Bufs |-> buf'[b]] /\ held' = held
        /\ pool' = [v \in Workers |-> {}]
    BY <1>3 DEF MainCloseBuffers, Bufs
  <2> QED
    BY <2>1 DEF PoolInv, PoolTypes, PoolQuiet
<1> QED
  BY <1>1, <1>2, <1>3

LEMMA MainStill ==
  ASSUME MainDrainBuffers \/ MainCloseBuffers
  PROVE  RingsStill
BY DEF MainDrainBuffers, MainDrain, MainCloseBuffers, MainClose,
       ringVars, RingsStill

(* The requests stay tracked, and no chunk comes to wait again. *)
LEMMA TrackedStep ==
  ASSUME AliasInv, [BufferNext]_bvars
  PROVE  WriteInv' /\ Later /\ Tracked' /\ ClaimsShrink
<1>1. TypeInv /\ BatchIssued /\ Tracked /\ WriteInv
  BY DEF AliasInv, WriteInv, Gathered
<1>2. [Next]_vars
  BY BufferSteps
<1>3. WriteInv'
  BY <1>1, <1>2, WriteStep
<1>4. issued' \in [Chunks -> Nat]
  BY <1>3 DEF WriteInv, TypeInv, TypeOK
<1>5. Later
  <2>1. CASE UNCHANGED vars
    BY <2>1 DEF vars, Later
  <2> QED
    BY <1>1, <1>2, <2>1, IssuesLater, AliveOrStill
<1>6. /\ Tracked'
      /\ \A c \in Chunks :
           c \in UnderWay' => c \in UnderWay \/ issued[c] = 0
  <2>1. CASE UNCHANGED bvars \/ BufferStopped
    <3>1. RingsStill
      BY <2>1 DEF BufferStopped, bvars, vars, ringVars, RingsStill
    <3> QED
      BY <1>1, <1>5, <3>1, StillTracked
  <2>2. ASSUME ~aborted, NEW w \in Workers, BufferStep(w)
        PROVE  /\ Tracked'
               /\ \A c \in Chunks :
                    c \in UnderWay' => c \in UnderWay \/ issued[c] = 0
    <3>1. CASE \/ GetBuffer(w) \/ FillStripBuffers(w) \/ AcquireBuffer(w)
               \/ OtherWork(w) \/ PwritevAgain(w) \/ PwritevLast(w)
               \/ PwritevFails(w)
      BY <1>1, <1>5, <3>1, OtherStill, WriteStill, StillTracked
    <3>2. CASE SubmitBuffers(w)
      BY <1>1, <1>5, <2>2, <3>2, SubmitSubmits, SubmitTracked
    <3>3. CASE ReapBuffers(w)
      BY <1>1, <1>5, <3>3, ReapSeen, SeenTracked
    <3>4. CASE KernelReads(w)
      BY <1>1, <1>5, <3>4, KernelAnswers, AnswersTracked
    <3> QED
      BY <2>2, <3>1, <3>2, <3>3, <3>4 DEF BufferStep
  <2>3. CASE CloseRingsBuffers
    <3>1. \E v \in Workers : RingSeen(v) \/ RingCloses(v)
      BY <1>1, <2>3, CloseSteps, TrackedTypes
    <3> QED
      BY <1>1, <1>5, <3>1, SeenTracked, ClosesTracked
  <2>4. CASE MainDrainBuffers \/ MainCloseBuffers
    BY <1>1, <1>5, <2>4, MainStill, StillTracked
  <2> QED
    BY <2>1, <2>2, <2>3, <2>4 DEF BufferNext
<1>7. ClaimsShrink
  BY <1>1, <1>4, <1>5, <1>6, ClaimsLater
<1> QED
  BY <1>3, <1>5, <1>6, <1>7

LEMMA AliasStep == AliasInv /\ [BufferNext]_bvars => AliasInv'
<1> SUFFICES ASSUME AliasInv, [BufferNext]_bvars PROVE AliasInv'
  OBVIOUS
<1>1. TypeInv /\ Tracked /\ PoolInv
  BY DEF AliasInv, WriteInv
<1>2. WriteInv' /\ Later /\ Tracked' /\ ClaimsShrink
  BY TrackedStep
<1>3. CASE UNCHANGED bvars \/ BufferStopped
  <2>1. UNCHANGED <<buf, held, pool>>
    BY <1>3 DEF BufferStopped, bvars
  <2> QED
    BY <1>1, <1>2, <2>1, StillPool, QuietPool DEF AliasInv
<1>4. ASSUME ~aborted, NEW w \in Workers, BufferStep(w)
      PROVE  PoolInv'
  <2>1. CASE GetBuffer(w)
    BY <1>1, <1>2, <2>1, GetPool
  <2>2. CASE PwritevLast(w) \/ PwritevFails(w)
    BY <1>1, <1>2, <1>4, <2>2, LeaveUnclaims, ReclaimPool
  <2>3. CASE ReapBuffers(w)
    <3>1. buf' = buf /\ Reclaim(w, Head(answered[w]))
      BY <2>3 DEF ReapBuffers
    <3>2. /\ Head(answered[w]) \in SUBSET Chunks
          /\ \A c \in Head(answered[w]) : Claimed(c) /\ ~Claimed(c)'
      BY <1>2, <2>3, ReapSeen, SeenUnclaims
    <3> QED
      BY <1>1, <1>2, <3>1, <3>2, ReclaimPool
  <2>4. CASE \/ FillStripBuffers(w) \/ AcquireBuffer(w) \/ PwritevAgain(w)
             \/ SubmitBuffers(w) \/ KernelReads(w) \/ OtherWork(w)
    BY <1>1, <1>2, <2>4, WorkQuiet, QuietPool
  <2> QED
    BY <1>4, <2>1, <2>2, <2>3, <2>4 DEF BufferStep
<1>5. CASE CloseRingsBuffers \/ MainDrainBuffers \/ MainCloseBuffers
  <2>1. PoolQuiet
    BY <1>1, <1>5, MainQuiet
  <2> QED
    BY <1>1, <1>2, <2>1, QuietPool DEF AliasInv
<1> QED
  BY <1>2, <1>3, <1>4, <1>5 DEF AliasInv, BufferNext

(* With any number of threads, chunks and buffers, -k or not: a buffer that *)
(* a chunk still needs, for its data or for a write not answered yet, is   *)
(* in no pool and serves no other such chunk.                              *)
THEOREM NoSharedBuffer == BufferSpec => []NoAliasing
<1>1. BufferInit => AliasInv
  <2>1. BufferInit => Init
    BY DEF BufferInit
  <2> QED
    BY <2>1, WriteInit, TrackedInit, PoolInit DEF AliasInv
<1>2. AliasInv => NoAliasing
  BY PoolAliasing DEF AliasInv
<1> QED
  BY <1>1, <1>2, AliasStep, PTL DEF BufferSpec

-----------------------------------------------------------------------------
(* Chunks passed to a write *)

Passing == UnderWay \cup HandedOver

(* Of a closed ring nothing is under way that is not counted as lost.      *)
Lost ==
  /\ dropped \subseteq Chunks
  /\ \A v \in Workers \ ringsOpen : InRing(v) \subseteq dropped

LEMMA RingChunks ==
  ASSUME TypeInv, Tracked, NEW v \in Workers
  PROVE  InRing(v) \subseteq Chunks
<1>1. answered[v] \in Seq(SUBSET Chunks) /\ inflight[v] \subseteq SUBSET Chunks
  BY TrackedTypes DEF Tracked
<1>2. ToSet(answered[v]) \subseteq SUBSET Chunks
  BY <1>1, LenProperties DEF ToSet
<1>3. UNION inflight[v] \subseteq Chunks
  BY <1>1
<1>4. UNION ToSet(answered[v]) \subseteq Chunks
  BY <1>2
<1> QED
  BY <1>3, <1>4 DEF InRing

LEMMA PassingClaimed ==
  ASSUME TypeInv, Tracked, Lost
  PROVE  /\ Passing \subseteq Chunks
         /\ \A c \in Passing : Claimed(c)
<1>1. UnderWay \subseteq Chunks
  BY RingChunks, UnderWayIs DEF Lost
<1>2. HandedOver \subseteq Chunks
  BY TrackedTypes DEF HandedOver
<1> QED
  BY <1>1, <1>2 DEF Passing, Claimed, HandedOver

LEMMA SameUnderWay ==
  ASSUME dropped' = dropped, \A v \in Workers : InRing(v)' = InRing(v)
  PROVE  UnderWay' = UnderWay
<1>1. \A c : c \in UnderWay' <=> c \in UnderWay
  BY UnderWayIs, UnderWayNext
<1> QED
  BY <1>1 DEF UnderWay

LEMMA StillRings ==
  ASSUME Lost, RingsStill
  PROVE  Lost' /\ UnderWay' = UnderWay
<1>1. \A v \in Workers : InRing(v)' = InRing(v)
  BY DEF RingsStill, InRing
<1>2. dropped' = dropped /\ ringsOpen' = ringsOpen
  BY DEF RingsStill
<1> QED
  BY <1>1, <1>2, SameUnderWay DEF Lost

LEMMA SubmitRings ==
  ASSUME TypeInv, Lost, NEW w \in Workers, RingSubmits(w)
  PROVE  Lost' /\ UnderWay' = UnderWay \cup batch[w]
<1>1. /\ inflight'[w] = inflight[w] \cup {batch[w]}
      /\ \A v \in Workers : v # w => inflight'[v] = inflight[v]
      /\ UNCHANGED <<answered, dropped, ringsOpen>> /\ w \in ringsOpen
  BY TrackedTypes DEF RingSubmits
<1>2. UNION inflight'[w] = (UNION inflight[w]) \cup batch[w]
  BY <1>1, UnionAdd
<1>3. /\ InRing(w)' = InRing(w) \cup batch[w]
      /\ \A v \in Workers : v # w => InRing(v)' = InRing(v)
  BY <1>1, <1>2 DEF InRing
<1>4. \A c : c \in UnderWay' <=> c \in UnderWay \cup batch[w]
  BY <1>1, <1>3, UnderWayIs, UnderWayNext
<1>5. UnderWay' = UnderWay \cup batch[w]
  BY <1>4 DEF UnderWay
<1> QED
  BY <1>1, <1>3, <1>5 DEF Lost

LEMMA ClosesRings ==
  ASSUME TypeInv, Tracked, Lost, NEW v \in Workers, RingCloses(v)
  PROVE  Lost' /\ UnderWay' = UnderWay
<1>1. /\ answered'[v] = <<>> /\ inflight' = inflight
      /\ \A u \in Workers : u # v => answered'[u] = answered[u]
      /\ dropped' = dropped \cup InRing(v) /\ ringsOpen' = ringsOpen \ {v}
  BY DEF RingCloses, Tracked
<1>2. ToSet(<<>>) = {}
  BY DEF ToSet
<1>3. /\ InRing(v)' \subseteq InRing(v)
      /\ \A u \in Workers : u # v => InRing(u)' = InRing(u)
  BY <1>1, <1>2 DEF InRing
<1>4. \A c : c \in UnderWay' <=> c \in UnderWay
  BY <1>1, <1>3, UnderWayIs, UnderWayNext
<1>5. UnderWay' = UnderWay
  BY <1>4 DEF UnderWay
<1>6. dropped' \subseteq Chunks
  BY <1>1, RingChunks DEF Lost
<1>7. ASSUME NEW u \in Workers \ ringsOpen'
      PROVE  InRing(u)' \subseteq dropped'
  BY <1>1, <1>3 DEF Lost
<1> QED
  BY <1>5, <1>6, <1>7 DEF Lost

LEMMA AnswersRings ==
  ASSUME TypeInv, Tracked, Lost, NEW v \in Workers, NEW r, RingAnswers(v, r)
  PROVE  Lost' /\ UnderWay' = UnderWay
<1>1. /\ answered[v] \in Seq(SUBSET Chunks) /\ r \in SUBSET Chunks
      /\ inflight'[v] = inflight[v] \ {r} /\ r \in inflight[v]
      /\ \A u \in Workers : u # v => inflight'[u] = inflight[u]
      /\ dropped' = dropped /\ ringsOpen' = ringsOpen
  BY TrackedTypes DEF RingAnswers, Tracked
<1>2. UNION inflight[v] = (UNION inflight'[v]) \cup r
  BY <1>1
<1>3. CASE v \in ringsOpen
  <2>1. answered' = [answered EXCEPT ![v] = Append(@, r)]
    BY <1>3 DEF RingAnswers
  <2>2. ToSet(Append(answered[v], r)) = ToSet(answered[v]) \cup {r}
    BY <1>1, MembersAppend
  <2>3. /\ ToSet(answered'[v]) = ToSet(answered[v]) \cup {r}
        /\ \A u \in Workers : u # v => answered'[u] = answered[u]
    BY <2>1, <2>2 DEF Tracked
  <2>4. UNION ToSet(answered'[v]) = (UNION ToSet(answered[v])) \cup r
    BY <2>3, UnionAdd
  <2>5. InRing(v)' = InRing(v)
    BY <1>2, <2>4 DEF InRing
  <2>6. \A u \in Workers : InRing(u)' = InRing(u)
    BY <1>1, <2>3, <2>5 DEF InRing
  <2> QED
    BY <1>1, <2>6, SameUnderWay DEF Lost
<1>4. CASE v \notin ringsOpen
  <2>1. answered' = answered
    BY <1>4 DEF RingAnswers
  <2>2. /\ InRing(v)' \subseteq InRing(v) /\ InRing(v) \subseteq dropped
        /\ \A u \in Workers : u # v => InRing(u)' = InRing(u)
    BY <1>1, <1>2, <1>4, <2>1 DEF InRing, Lost
  <2>3. \A c : c \in UnderWay' <=> c \in UnderWay
    BY <1>1, <2>2, UnderWayIs, UnderWayNext
  <2>4. UnderWay' = UnderWay
    BY <2>3 DEF UnderWay
  <2> QED
    BY <1>1, <2>2, <2>4 DEF Lost
<1> QED
  BY <1>3, <1>4

LEMMA SeenRings ==
  ASSUME TypeInv, Tracked, Later, Lost, NEW v \in Workers, RingSeen(v)
  PROVE  Lost' /\ UnderWay' = UnderWay \ Head(answered[v])
<1> DEFINE h == Head(answered[v])
           t == Tail(answered[v])
<1>1. /\ answered[v] \in Seq(SUBSET Chunks) /\ cq[v] \in Seq(BOOLEAN)
      /\ cq[v] # <<>> /\ Len(answered[v]) = Len(cq[v]) /\ v \in ringsOpen
  BY TrackedTypes DEF Tracked, RingSeen
<1>2. answered[v] # <<>>
  <2>1. Len(cq[v]) # 0
    BY <1>1, EmptySeq
  <2> QED
    BY <1>1, <2>1, EmptySeq
<1>3. ToSet(answered[v]) = {h} \cup ToSet(t)
  BY <1>1, <1>2, MembersTail
<1>4. UNION ToSet(answered[v]) = h \cup UNION ToSet(t)
  BY <1>3, UnionAdd
<1>5. /\ answered'[v] = t /\ UNCHANGED <<inflight, dropped, ringsOpen>>
      /\ \A u \in Workers : u # v => answered'[u] = answered[u]
  BY DEF RingSeen, Tracked
<1>6. \A c \in h : c \notin UnderWay'
  BY SeenTracked
<1> HIDE DEF h, t
<1>7. /\ InRing(v) = InRing(v)' \cup h
      /\ \A u \in Workers : u # v => InRing(u)' = InRing(u)
  BY <1>4, <1>5 DEF InRing
<1>8. \A c : c \in UnderWay' <=> c \in UnderWay \ h
  BY <1>5, <1>6, <1>7, UnderWayIs, UnderWayNext
<1>9. UnderWay' = UnderWay \ h
  BY <1>8 DEF UnderWay
<1>10. Lost'
  BY <1>1, <1>5, <1>7 DEF Lost
<1> QED
  BY <1>9, <1>10 DEF h

(* What is passed to a write and not given back changes only when a chunk  *)
(* is acquired, when a worker leaves FileIOUnix::write, and with an answer *)
(* that is seen.                                                           *)
LEMMA CountPasses ==
  ASSUME TypeInv, BatchIssued, NEW w \in Workers, Count(w)
  PROVE  HandedOver' = HandedOver
<1>1. PICK d \in batch[w] : batch' = [batch EXCEPT ![w] = @ \ {d}]
  BY DEF Count
<1>2. issued' = issued /\ pc[w] = "count"
  BY DEF Count
<1>3. issued[d] = 1 /\ batch \in [Workers -> SUBSET Chunks]
  BY <1>2, TrackedTypes DEF BatchIssued
<1>4. ASSUME NEW c, issued[c] = 0
      PROVE  \A v \in Workers : c \in batch'[v] <=> c \in batch[v]
  BY <1>1, <1>3, <1>4
<1>5. \A c : c \in HandedOver' <=> c \in HandedOver
  BY <1>2, <1>4 DEF HandedOver
<1> QED
  BY <1>5 DEF HandedOver

LEMMA WritePasses ==
  ASSUME TypeInv, BatchIssued, ~aborted, NEW w \in Workers,
         pc[w] = "write", Issue(w), batch' = batch
  PROVE  HandedOver' = HandedOver \ batch[w] /\ batch[w] \subseteq HandedOver
<1>1. batch[w] \subseteq Chunks /\ \A c \in batch[w] : issued[c] = 0
  BY TrackedTypes DEF BatchIssued
<1>2. \A c \in Chunks :
        issued'[c] = IF c \in batch[w] THEN issued[c] + 1 ELSE issued[c]
  BY DEF Issue
<1>3. \A c \in batch[w] : issued'[c] # 0
  BY <1>1, <1>2
<1>4. \A v \in Workers : batch[v] \subseteq Chunks
  BY TrackedTypes
<1>5. \A c : c \in HandedOver' <=> c \in HandedOver \ batch[w]
  BY <1>2, <1>3, <1>4 DEF HandedOver
<1> QED
  BY <1>1, <1>5 DEF HandedOver

LEMMA OtherPasses ==
  ASSUME TypeInv, BatchIssued, NEW w \in Workers,
         \/ GetBuffer(w) \/ FillStripBuffers(w) \/ PwritevAgain(w)
         \/ ReapBuffers(w) \/ KernelReads(w) \/ OtherWork(w)
  PROVE  HandedOver' = HandedOver
<1>1. CASE GetBuffer(w) \/ PwritevAgain(w)
  BY <1>1 DEF GetBuffer, PwritevAgain, vars, workerVars, HandedOver
<1>2. CASE FillStripBuffers(w)
  BY <1>2 DEF FillStripBuffers, FillStrip, workerVars, HandedOver
<1>3. CASE ReapBuffers(w)
  BY <1>3 DEF ReapBuffers, Reap, workerVars, HandedOver
<1>4. CASE KernelReads(w)
  BY <1>4 DEF KernelReads, Kernel, KernelWrites, KernelWritesShort,
              KernelFails, workerVars, HandedOver
<1>5. CASE OtherWork(w)
  <2>1. CASE Count(w)
    BY <2>1, CountPasses
  <2>2. CASE \/ \E s \in Strips : TakeStrip(w, s)
             \/ NothingToWrite(w) \/ BeginWrite(w)
             \/ EndReap(w) \/ RingGone(w) \/ EndCount(w)
             \/ BeginFinish(w) \/ Seal(w)
    <3>1. UNCHANGED <<batch, issued>>
      BY <2>2 DEF TakeStrip, NothingToWrite, BeginWrite, EndReap, RingGone,
                  EndCount, BeginFinish, Seal, workerVars
    <3> QED
      BY <3>1 DEF HandedOver
  <2> QED
    BY <1>5, <2>1, <2>2 DEF OtherWork
<1> QED
  BY <1>1, <1>2, <1>3, <1>4, <1>5

LEMMA MainPasses ==
  ASSUME CloseRingsBuffers \/ MainDrainBuffers \/ MainCloseBuffers
  PROVE  HandedOver' = HandedOver
BY DEF CloseRingsBuffers, CloseRings, MainDrainBuffers, MainDrain,
       MainCloseBuffers, MainClose, workerVars, HandedOver

(* A chunk that is acquired was in nobody's hands before. *)
LEMMA AcquirePasses ==
  ASSUME WriteInv, Tracked, ~aborted, NEW w \in Workers, Acquire(w)
  PROVE  \E C \in SUBSET Chunks :
           /\ batch'[w] \ batch[w] = C /\ HandedOver' = HandedOver \cup C
           /\ \A c \in C : c \notin Passing /\ issued[c] = 0
           /\ \A c, d \in C : c = d
<1>0. TypeInv /\ Ownership /\ AcquireCounted /\ Gathered
  BY DEF WriteInv
<1>1. PICK d \in todo[w] :
        /\ strip[w] \in Sharers(d) \ Passed(d)
        /\ batch' = IF acquireCount[d] + 1 = ShareCount(d)
                    THEN [batch EXCEPT ![w] = @ \cup {d}] ELSE batch
  BY <1>0, PassedAcquire
<1>2. d \in Chunks /\ issued' = issued
  BY <1>0, TaskTypes DEF Acquire
<1>3. Passed(d) # Sharers(d)
  BY <1>1
<1>4. issued[d] = 0 /\ \A v \in Workers : d \notin batch[v]
  BY <1>0, <1>2, <1>3 DEF Gathered, BatchPassed, BatchIssued
<1>5. d \notin Passing
  BY <1>2, <1>4 DEF Passing, HandedOver, Tracked
<1>6. \A v \in Workers : batch[v] \subseteq Chunks
  BY <1>0, TrackedTypes
<1>7. CASE batch' = batch
  <2>1. batch'[w] \ batch[w] = {} /\ HandedOver' = HandedOver \cup {}
    BY <1>2, <1>7 DEF HandedOver
  <2> QED
    BY <2>1
<1>8. CASE batch' = [batch EXCEPT ![w] = @ \cup {d}]
  <2>1. /\ batch'[w] = batch[w] \cup {d}
        /\ \A v \in Workers : v # w => batch'[v] = batch[v]
    BY <1>0, <1>8, TrackedTypes
  <2>2. \A c : c \in HandedOver' <=> c \in HandedOver \cup {d}
    BY <1>2, <1>4, <2>1 DEF HandedOver
  <2>3. HandedOver' = HandedOver \cup {d}
    BY <2>2 DEF HandedOver
  <2>4. batch'[w] \ batch[w] = {d}
    BY <1>4, <2>1
  <2> QED
    BY <1>2, <1>4, <1>5, <2>3, <2>4
<1> QED
  BY <1>1, <1>7, <1>8

-----------------------------------------------------------------------------
(* Counting the holders *)

PoolsOf(b) == { w \in Workers : b \in pool[w] }

Owners(b) == { c \in Chunks : held[c] = b /\ (Chunked => main # "closed") }

(* The chunks of C that a reference is counted for. *)
Counted(C, b) == { c \in C : held[c] = b }

WritesOf(b) == IF Chunked THEN Counted(Passing, b) ELSE {}

LEMMA AtMostOne ==
  ASSUME NEW S, \A x, y \in S : x = y
  PROVE  /\ IsFiniteSet(S)
         /\ Cardinality(S) = IF S = {} THEN 0 ELSE 1
<1>1. CASE S = {}
  BY <1>1, FS_EmptySet
<1>2. CASE S # {}
  <2>1. PICK x \in S : S = {x}
    BY <1>2
  <2> QED
    BY <2>1, FS_Singleton
<1> QED
  BY <1>1, <1>2

LEMMA CountedOnce ==
  ASSUME PoolInv, NEW C \in SUBSET Chunks, \A c \in C : Claimed(c),
         NEW b, b # NoBuf
  PROVE  /\ \A c, d \in Counted(C, b) : c = d
         /\ \A c \in Counted(C, b) : PoolsOf(b) = {}
<1>1. ASSUME NEW c \in Counted(C, b)
      PROVE  Unaliased(c) /\ held[c] = b /\ c \in C
  BY <1>1 DEF Counted, PoolInv
<1>2. ASSUME NEW c \in Counted(C, b), NEW d \in Counted(C, b)
      PROVE  c = d
  BY <1>1 DEF Unaliased
<1>3. \A c \in Counted(C, b) : PoolsOf(b) = {}
  BY <1>1 DEF Unaliased, PoolsOf
<1> QED
  BY <1>2, <1>3

LEMMA PoolsOnce ==
  ASSUME PoolInv, NEW b
  PROVE  \A v, u \in PoolsOf(b) : v = u
BY DEF PoolInv, PoolsOf

LEMMA HoldersIs ==
  ASSUME NEW b
  PROVE  Holders(b, Passing) = Cardinality(PoolsOf(b)) + Cardinality(Owners(b))
                               + Cardinality(WritesOf(b))
<1>1. { c \in Passing : Chunked /\ held[c] = b } = WritesOf(b)
  BY DEF WritesOf, Counted
<1> QED
  BY <1>1 DEF Holders, PoolsOf, Owners

Some(S) == IF S = {} THEN 0 ELSE 1

Tally(b) == Some(PoolsOf(b)) + Cardinality(Owners(b)) + Some(WritesOf(b))

RefsInv ==
  \A b \in Bufs : "refCount" \in DOMAIN buf[b] /\ buf[b].refCount = Tally(b)

LEMMA OwnersFinite ==
  ASSUME NEW b
  PROVE  IsFiniteSet(Owners(b)) /\ Cardinality(Owners(b)) \in Nat
<1>1. Owners(b) \subseteq Chunks /\ IsFiniteSet(Chunks)
  BY EncodeAssumption DEF Owners
<1> QED
  BY <1>1, FS_Subset, FS_CardinalityType

LEMMA NotNoBuf == ASSUME PoolInv PROVE NoBuf \notin Bufs
BY DEF PoolInv, PoolTypes, IsVector, Bufs, NoBuf

LEMMA TallyHolders ==
  ASSUME TypeInv, Tracked, Lost, PoolInv, NEW b \in Bufs
  PROVE  Holders(b, Passing) = Tally(b)
<1>1. Cardinality(PoolsOf(b)) = Some(PoolsOf(b))
  BY PoolsOnce, AtMostOne DEF Some
<1>2. \A c, d \in WritesOf(b) : c = d
  BY PassingClaimed, CountedOnce, NotNoBuf DEF WritesOf
<1>3. Cardinality(WritesOf(b)) = Some(WritesOf(b))
  BY <1>2, AtMostOne DEF Some
<1> QED
  BY <1>1, <1>3, HoldersIs DEF Tally

(* The number of references taken or given up for the chunks of C.         *)
LEMMA CountedIs ==
  ASSUME PoolInv, NEW C \in SUBSET Chunks, \A c \in C : Claimed(c),
         NEW b \in Bufs
  PROVE  Cardinality({ c \in C : held[c] = b }) = Some(Counted(C, b))
<1>1. \A c, d \in Counted(C, b) : c = d
  BY CountedOnce, NotNoBuf
<1>2. Cardinality(Counted(C, b)) = Some(Counted(C, b))
  BY <1>1, AtMostOne DEF Some
<1> QED
  BY <1>2 DEF Counted

(* A step without any effect on references. *)
LEMMA QuietRefs ==
  ASSUME RefsInv, Bufs' = Bufs, held' = held, pool' = pool, Passing' = Passing,
         main' = "closed" <=> main = "closed",
         \A b \in Bufs : /\ "refCount" \in DOMAIN buf'[b]
                         /\ buf'[b].refCount = buf[b].refCount
  PROVE  RefsInv'
<1>1. ASSUME NEW b \in Bufs
      PROVE  Tally(b)' = Tally(b)
  <2>1. PoolsOf(b)' = PoolsOf(b)
    BY DEF PoolsOf
  <2>2. Owners(b)' = Owners(b)
    BY DEF Owners
  <2>3. WritesOf(b)' = WritesOf(b)
    BY DEF WritesOf, Counted
  <2> QED
    BY <2>1, <2>2, <2>3 DEF Tally, Some
<1> QED
  BY <1>1 DEF RefsInv

(* The buffers of C, for which the writes held references, go to a pool.   *)
LEMMA ReclaimRefs ==
  ASSUME PoolInv, RefsInv, NEW w \in Workers, NEW C \in SUBSET Passing,
         Passing \subseteq Chunks, \A c \in Passing : Claimed(c),
         Reclaim(w, C), buf' = buf, main' = main, Passing' = Passing \ C
  PROVE  RefsInv'
<1>1. /\ pool' = [pool EXCEPT ![w] = @ \cup Held(C)] /\ held' = Returned(C)
      /\ pool \in [Workers -> SUBSET Bufs]
      /\ held \in [Chunks -> Bufs \cup {NoBuf}] /\ C \subseteq Chunks
  BY DEF Reclaim, PoolInv, PoolTypes
<1>2. Bufs' = Bufs /\ NoBuf \notin Bufs
  BY NotNoBuf DEF Bufs
<1>3. ASSUME NEW b \in Bufs
      PROVE  Tally(b)' = Tally(b)
  <2>1. b \in Held(C) <=> Counted(C, b) # {}
    BY <1>2 DEF Held, Counted
  <2>2. CASE Counted(C, b) = {}
    <3>1. PoolsOf(b)' = PoolsOf(b)
      BY <1>1, <2>1, <2>2 DEF PoolsOf
    <3>2. \A c \in Chunks : held'[c] = b <=> held[c] = b
      BY <1>1, <1>2, <2>2 DEF Returned, Counted
    <3>3. Owners(b)' = Owners(b)
      BY <3>2 DEF Owners
    <3>4. WritesOf(b)' = WritesOf(b)
      BY <2>2, <3>2 DEF WritesOf, Counted
    <3> QED
      BY <3>1, <3>3, <3>4 DEF Tally, Some
  <2>3. CASE Counted(C, b) # {}
    <3>1. PICK d \in C : held[d] = b
      BY <2>3 DEF Counted
    <3>2. /\ \A c, e \in Counted(Passing, b) : c = e
          /\ \A c \in Counted(Passing, b) : PoolsOf(b) = {}
      BY <1>2, CountedOnce
    <3>3. d \in Counted(Passing, b)
      BY <3>1 DEF Counted
    <3>4. PoolsOf(b) = {} /\ Counted(Passing, b) = {d}
      BY <3>2, <3>3
    <3>5. w \in PoolsOf(b)'
      BY <1>1, <2>1, <2>3 DEF PoolsOf
    <3>6. Some(PoolsOf(b)) = 0 /\ Some(PoolsOf(b)') = 1
      BY <3>4, <3>5 DEF Some
    <3>7. CASE Chunked
      <4>1. held' = held
        BY <1>1, <3>7 DEF Returned
      <4>2. Owners(b)' = Owners(b)
        BY <4>1 DEF Owners
      <4>3. WritesOf(b)' = {} /\ WritesOf(b) # {}
        BY <3>1, <3>4, <3>7, <4>1 DEF WritesOf, Counted
      <4>4. Some(WritesOf(b)') = 0 /\ Some(WritesOf(b)) = 1
        BY <4>3 DEF Some
      <4> QED
        BY <3>6, <4>2, <4>4, OwnersFinite DEF Tally, Some
    <3>8. CASE ~Chunked
      <4>1. held' = [c \in Chunks |-> IF c \in C THEN NoBuf ELSE held[c]]
        BY <1>1, <3>8 DEF Returned
      <4>2. \A c \in C : held[c] = b => c = d
        BY <3>4 DEF Counted
      <4>3. d \in Owners(b) /\ Owners(b)' = Owners(b) \ {d}
        BY <1>1, <1>2, <3>1, <3>8, <4>1, <4>2 DEF Owners
      <4>4. Cardinality(Owners(b)') = Cardinality(Owners(b)) - 1
        BY <4>3, OwnersFinite, FS_RemoveElement
      <4>5. WritesOf(b) = {} /\ WritesOf(b)' = {}
        BY <3>8 DEF WritesOf
      <4>6. Some(WritesOf(b)) = 0 /\ Some(WritesOf(b)') = 0
        BY <4>5 DEF Some
      <4> QED
        BY <3>6, <4>4, <4>6, OwnersFinite DEF Tally, Some
    <3> QED
      BY <3>7, <3>8
  <2> QED
    BY <2>2, <2>3
<1> QED
  BY <1>2, <1>3 DEF RefsInv

(* The references held for the writes of C are given up. *)
LEMMA UnrefRefs ==
  ASSUME PoolInv, RefsInv, NEW C \in SUBSET Passing,
         Passing \subseteq Chunks, \A c \in Passing : Claimed(c),
         held' = Returned(C), buf' = Unref(C), pool' = pool, main' = main,
         Passing' = Passing \ C
  PROVE  RefsInv'
<1>1. Bufs' = Bufs /\ NoBuf \notin Bufs /\ C \in SUBSET Chunks
  BY NotNoBuf DEF Bufs, Unref
<1>2. ASSUME NEW b \in Bufs
      PROVE  Tally(b) \in Nat /\ Tally(b)' = Tally(b) - Some(Counted(C, b))
  <2>1. PoolsOf(b)' = PoolsOf(b)
    BY DEF PoolsOf
  <2>2. Some(PoolsOf(b)) \in Nat /\ Some(PoolsOf(b)') = Some(PoolsOf(b))
    BY <2>1 DEF Some
  <2>3. CASE Counted(C, b) = {}
    <3>1. \A c \in Chunks : held'[c] = b <=> held[c] = b
      BY <1>1, <2>3 DEF Returned, Counted
    <3>2. Owners(b)' = Owners(b)
      BY <3>1 DEF Owners
    <3>3. WritesOf(b)' = WritesOf(b)
      BY <2>3, <3>1 DEF WritesOf, Counted
    <3>4. /\ Some(WritesOf(b)) \in Nat
          /\ Some(WritesOf(b)') = Some(WritesOf(b))
          /\ Some(Counted(C, b)) = 0
      BY <2>3, <3>3 DEF Some
    <3> QED
      BY <2>2, <3>2, <3>4, OwnersFinite DEF Tally
  <2>4. CASE Counted(C, b) # {}
    <3>1. PICK d \in C : held[d] = b
      BY <2>4 DEF Counted
    <3>2. \A c, e \in Counted(Passing, b) : c = e
      BY <1>1, CountedOnce
    <3>3. d \in Counted(Passing, b) /\ Some(Counted(C, b)) = 1
      BY <2>4, <3>1 DEF Counted, Some
    <3>4. Counted(Passing, b) = {d}
      BY <3>2, <3>3
    <3>5. CASE Chunked
      <4>1. held' = held
        BY <3>5 DEF Returned
      <4>2. Owners(b)' = Owners(b)
        BY <4>1 DEF Owners
      <4>3. WritesOf(b)' = {} /\ WritesOf(b) # {}
        BY <3>1, <3>4, <3>5, <4>1 DEF WritesOf, Counted
      <4>4. Some(WritesOf(b)') = 0 /\ Some(WritesOf(b)) = 1
        BY <4>3 DEF Some
      <4> QED
        BY <2>2, <3>3, <4>2, <4>4, OwnersFinite DEF Tally
    <3>6. CASE ~Chunked
      <4>1. held' = [c \in Chunks |-> IF c \in C THEN NoBuf ELSE held[c]]
        BY <3>6 DEF Returned
      <4>2. \A c \in C : held[c] = b => c = d
        BY <3>4 DEF Counted
      <4>3. d \in Owners(b) /\ Owners(b)' = Owners(b) \ {d}
        BY <1>1, <3>1, <3>6, <4>1, <4>2 DEF Owners
      <4>4. Cardinality(Owners(b)') = Cardinality(Owners(b)) - 1
        BY <4>3, OwnersFinite, FS_RemoveElement
      <4>5. WritesOf(b) = {} /\ WritesOf(b)' = {}
        BY <3>6 DEF WritesOf
      <4>6. Some(WritesOf(b)) = 0 /\ Some(WritesOf(b)') = 0
        BY <4>5 DEF Some
      <4> QED
        BY <2>2, <3>3, <4>4, <4>6, OwnersFinite DEF Tally
    <3> QED
      BY <3>5, <3>6
  <2> QED
    BY <2>3, <2>4
<1>3. ASSUME NEW b \in Bufs
      PROVE  /\ "refCount" \in DOMAIN buf'[b]
             /\ buf'[b].refCount = buf[b].refCount - Some(Counted(C, b))
  <2>1. "refCount" \in DOMAIN buf[b]
    BY DEF RefsInv
  <2>2. buf'[b] = [buf[b] EXCEPT !.refCount =
                     @ - Cardinality({ c \in C : held[c] = b })]
    BY DEF Unref, Bufs
  <2>3. Cardinality({ c \in C : held[c] = b }) = Some(Counted(C, b))
    BY <1>1, CountedIs
  <2> QED
    BY <2>1, <2>2, <2>3
<1> QED
  BY <1>1, <1>2, <1>3 DEF RefsInv

(* A worker takes references for the chunks of C, which are new to it.     *)
LEMMA AcquireRefs ==
  ASSUME PoolInv, RefsInv, NEW C \in SUBSET Chunks, C \cap Passing = {},
         Passing \subseteq Chunks, \A c \in Passing \cup C : Claimed(c),
         buf' = IF Chunked THEN Ref(C) ELSE buf,
         UNCHANGED <<held, pool, main>>, Passing' = Passing \cup C
  PROVE  RefsInv'
<1>1. Bufs' = Bufs /\ NoBuf \notin Bufs
  BY NotNoBuf DEF Bufs, Ref
<1>2. ASSUME NEW b \in Bufs
      PROVE  PoolsOf(b)' = PoolsOf(b) /\ Owners(b)' = Owners(b)
  BY DEF PoolsOf, Owners
<1>3. CASE ~Chunked
  <2>1. buf' = buf
    BY <1>3
  <2>2. ASSUME NEW b \in Bufs
        PROVE  Tally(b)' = Tally(b)
    <3>1. WritesOf(b)' = {} /\ WritesOf(b) = {}
      BY <1>3 DEF WritesOf
    <3> QED
      BY <1>2, <3>1 DEF Tally, Some
  <2> QED
    BY <1>1, <2>1, <2>2 DEF RefsInv
<1>4. CASE Chunked
  <2>1. ASSUME NEW b \in Bufs
        PROVE  Tally(b) \in Nat /\ Tally(b)' = Tally(b) + Some(Counted(C, b))
    <3>1. /\ WritesOf(b) = Counted(Passing, b)
          /\ WritesOf(b)' = Counted(Passing \cup C, b)
      BY <1>4 DEF WritesOf, Counted
    <3>2. \A c, d \in Counted(Passing \cup C, b) : c = d
      BY <1>1, CountedOnce
    <3>3. Counted(Passing \cup C, b) = Counted(Passing, b) \cup Counted(C, b)
      BY DEF Counted
    <3>4. Counted(Passing, b) \cap Counted(C, b) = {}
      BY DEF Counted
    <3>5. Counted(Passing, b) = {} \/ Counted(C, b) = {}
      BY <3>2, <3>3, <3>4
    <3>6. Some(WritesOf(b)') = Some(WritesOf(b)) + Some(Counted(C, b))
      BY <3>1, <3>3, <3>5 DEF Some
    <3>7. Some(WritesOf(b)) \in Nat /\ Some(Counted(C, b)) \in Nat
      BY DEF Some
    <3>8. Some(PoolsOf(b)) \in Nat /\ Some(PoolsOf(b)') = Some(PoolsOf(b))
      BY <1>2 DEF Some
    <3> QED
      BY <1>2, <3>6, <3>7, <3>8, OwnersFinite DEF Tally
  <2>2. ASSUME NEW b \in Bufs
        PROVE  /\ "refCount" \in DOMAIN buf'[b]
               /\ buf'[b].refCount = buf[b].refCount + Some(Counted(C, b))
    <3>1. "refCount" \in DOMAIN buf[b]
      BY DEF RefsInv
    <3>2. buf'[b] = [buf[b] EXCEPT !.refCount =
                       @ + Cardinality({ c \in C : held[c] = b })]
      BY <1>4 DEF Ref, Bufs
    <3>3. Cardinality({ c \in C : held[c] = b }) = Some(Counted(C, b))
      BY CountedIs
    <3> QED
      BY <3>1, <3>2, <3>3
  <2> QED
    BY <1>1, <2>1, <2>2 DEF RefsInv
<1> QED
  BY <1>3, <1>4

(* ~ImageFormat gives up what the pools and the chunks hold.               *)
LEMMA CloseRefs ==
  ASSUME TypeInv, PoolInv, RefsInv, MainCloseBuffers, Passing' = Passing
  PROVE  RefsInv'
<1>1. /\ main = "drain" /\ main' = "closed" /\ held' = held
      /\ pool' = [v \in Workers |-> {}]
  BY DEF MainCloseBuffers, MainClose
<1>2. Bufs' = Bufs
  BY DEF MainCloseBuffers, Bufs
<1>3. ASSUME NEW b \in Bufs
      PROVE  /\ "refCount" \in DOMAIN buf'[b]
             /\ buf'[b].refCount = Tally(b)'
  <2> DEFINE O == { c \in Chunks : Chunked /\ held[c] = b }
  <2>1. "refCount" \in DOMAIN buf[b] /\ buf[b].refCount = Tally(b)
    BY DEF RefsInv
  <2>2. buf'[b] = [buf[b] EXCEPT !.refCount =
                     @ - Cardinality({ w \in Workers : b \in pool[w] })
                       - Cardinality(O)]
    BY DEF MainCloseBuffers, Bufs
  <2>3. Cardinality({ w \in Workers : b \in pool[w] }) = Some(PoolsOf(b))
    <3>1. Cardinality(PoolsOf(b)) = Some(PoolsOf(b))
      BY PoolsOnce, AtMostOne DEF Some
    <3> QED
      BY <3>1 DEF PoolsOf
  <2>4. WritesOf(b)' = WritesOf(b)
    BY <1>1 DEF WritesOf, Counted
  <2>5. PoolsOf(b)' = {}
    BY <1>1 DEF PoolsOf
  <2>6. /\ Some(PoolsOf(b)) \in Nat /\ Some(PoolsOf(b)') = 0
        /\ Some(WritesOf(b)) \in Nat /\ Some(WritesOf(b)') = Some(WritesOf(b))
    BY <2>4, <2>5 DEF Some
  <2>7. /\ Cardinality(O) \in Nat
        /\ Cardinality(Owners(b)') = Cardinality(Owners(b)) - Cardinality(O)
    <3>1. CASE Chunked
      <4>1. O = Owners(b) /\ Owners(b)' = {}
        BY <1>1, <3>1 DEF Owners
      <4> HIDE DEF O
      <4> QED
        BY <4>1, OwnersFinite, FS_EmptySet
    <3>2. CASE ~Chunked
      <4>1. O = {} /\ Owners(b)' = Owners(b)
        BY <1>1, <3>2 DEF Owners
      <4> HIDE DEF O
      <4> QED
        BY <4>1, OwnersFinite, FS_EmptySet
    <3> QED
      BY <3>1, <3>2
  <2> HIDE DEF O
  <2>8. buf'[b].refCount = buf[b].refCount - Some(PoolsOf(b)) - Cardinality(O)
    BY <2>1, <2>2, <2>3
  <2>9. "refCount" \in DOMAIN buf'[b]
    BY <2>1, <2>2
  <2> QED
    BY <2>1, <2>6, <2>7, <2>8, <2>9, OwnersFinite DEF Tally
<1> QED
  BY <1>2, <1>3 DEF RefsInv

(* A chunk without a buffer, whose strip is about to be filled, has not    *)
(* been passed to a write: its strip has not acquired it.                  *)
LEMMA WantingFresh ==
  ASSUME WriteInv, Tracked, NEW w \in Workers, pc[w] = "fill",
         NEW c \in Chunks, c \in ChunksOf[strip[w]]
  PROVE  c \notin Passing /\ issued[c] = 0
<1>0. TypeInv /\ Ownership /\ BatchPassed /\ BatchIssued
  BY DEF WriteInv, Gathered
<1>1. strip[w] \in Strips /\ todo[w] = ChunksOf[strip[w]]
  BY <1>0, TaskTypes DEF Ownership
<1>2. strip[w] \in Sharers(c) \ Passed(c)
  BY <1>1 DEF Sharers, Passed
<1>3. issued[c] = 0 /\ \A v \in Workers : c \notin batch[v]
  BY <1>0, <1>2 DEF BatchPassed, BatchIssued
<1> QED
  BY <1>3 DEF Passing, HandedOver, Tracked

LEMMA KeptCount ==
  ASSUME NEW r, "refCount" \in DOMAIN r, NEW c
  PROVE  /\ "refCount" \in DOMAIN AsChunkBuffer(r, c)
         /\ "refCount" \in DOMAIN AsStripBuffer(r, c)
         /\ AsChunkBuffer(r, c).refCount = r.refCount
         /\ AsStripBuffer(r, c).refCount = r.refCount
<1>1. /\ "refCount" \in DOMAIN AsChunkBuffer(r, c)
      /\ AsChunkBuffer(r, c).refCount = r.refCount
  BY DEF AsChunkBuffer
<1>2. /\ "refCount" \in DOMAIN AsStripBuffer(r, c)
      /\ AsStripBuffer(r, c).refCount = r.refCount
  BY DEF AsStripBuffer
<1> QED
  BY <1>1, <1>2

LEMMA NewCount ==
  ASSUME NEW l
  PROVE  "refCount" \in DOMAIN NewBuf(l) /\ NewBuf(l).refCount = 1
BY DEF NewBuf

(* The reference of a pool, or of whoever made the buffer, is the chunk's. *)
LEMMA GetRefs ==
  ASSUME WriteInv, Tracked, Lost, MainLast, PoolInv, RefsInv,
         NEW w \in Workers, GetBuffer(w), Passing' = Passing
  PROVE  RefsInv'
<1>0. TypeInv /\ pc[w] = "fill" /\ main' = main
  BY DEF WriteInv, GetBuffer, vars
<1>1. PICK c, b : Gets(w, c, b)
  BY <1>0, GetEffect
<1>2. /\ c \in Chunks /\ held[c] = NoBuf /\ b # NoBuf
      /\ held'[c] = b /\ \A d \in Chunks : d # c => held'[d] = held[d]
  BY <1>1 DEF Gets
<1>3. /\ pool'[w] = pool[w] \ {b}
      /\ \A v \in Workers : v # w => pool'[v] = pool[v] /\ b \notin pool[v]
  BY <1>1 DEF Gets
<1>4. c \notin Passing
  BY <1>0, <1>1, WantingFresh DEF Gets
<1>5. Passing \subseteq Chunks
  BY <1>0, PassingClaimed
<1>6. main # "closed"
  BY <1>0 DEF MainLast
<1>7. NoBuf \notin Bufs /\ Bufs' = Bufs \cup {b}
  BY <1>1, NotNoBuf DEF Gets
<1>8. ASSUME NEW x \in Bufs, x # b
      PROVE  /\ "refCount" \in DOMAIN buf'[x]
             /\ buf'[x].refCount = Tally(x)'
  <2>1. buf'[x] = buf[x]
    BY <1>1, <1>8 DEF Gets
  <2>2. PoolsOf(x)' = PoolsOf(x)
    BY <1>3, <1>8 DEF PoolsOf
  <2>3. \A d \in Chunks : held'[d] = x <=> held[d] = x
    BY <1>2, <1>7, <1>8
  <2>4. Owners(x)' = Owners(x)
    BY <1>0, <2>3 DEF Owners
  <2>5. WritesOf(x)' = WritesOf(x)
    BY <1>5, <2>3 DEF WritesOf, Counted
  <2>6. Tally(x)' = Tally(x)
    BY <2>2, <2>4, <2>5 DEF Tally, Some
  <2> QED
    BY <2>1, <2>6 DEF RefsInv
<1>9. /\ "refCount" \in DOMAIN buf'[b]
      /\ buf'[b].refCount = Tally(b)'
  <2>1. PoolsOf(b)' = {}
    BY <1>3 DEF PoolsOf
  <2>2. Owners(b)' = Owners(b) \cup {c} /\ c \notin Owners(b)
    BY <1>0, <1>2, <1>6 DEF Owners
  <2>3. Cardinality(Owners(b)') = Cardinality(Owners(b)) + 1
    BY <2>2, OwnersFinite, FS_AddElement
  <2>4. WritesOf(b)' = WritesOf(b)
    BY <1>2, <1>4, <1>5 DEF WritesOf, Counted
  <2>5. /\ Some(PoolsOf(b)') = 0
        /\ Some(WritesOf(b)') = Some(WritesOf(b)) /\ Some(WritesOf(b)) \in Nat
    BY <2>1, <2>4 DEF Some
  <2>6. Tally(b)' = Cardinality(Owners(b)) + 1 + Some(WritesOf(b))
    BY <2>3, <2>5, OwnersFinite DEF Tally
  <2>7. CASE b \in Bufs
    <3>1. buf'[b] \in {AsChunkBuffer(buf[b], c), AsStripBuffer(buf[b], c)}
      BY <1>1, <2>7 DEF Gets
    <3>2. "refCount" \in DOMAIN buf[b] /\ buf[b].refCount = Tally(b)
      BY <2>7 DEF RefsInv
    <3>3. "refCount" \in DOMAIN buf'[b] /\ buf'[b].refCount = Tally(b)
      BY <3>1, <3>2, KeptCount
    <3>4. PoolsOf(b) # {}
      BY <1>1, <2>7 DEF Gets, PoolsOf
    <3>5. Some(PoolsOf(b)) = 1
      BY <3>4 DEF Some
    <3>6. Tally(b) = 1 + Cardinality(Owners(b)) + Some(WritesOf(b))
      BY <3>5 DEF Tally
    <3> QED
      BY <2>5, <2>6, <3>3, <3>6, OwnersFinite
  <2>8. CASE b \notin Bufs
    <3>1. buf'[b] \in {AsChunkBuffer(NewBuf(AllocLength[c]), c),
                       AsStripBuffer(NewBuf(AllocLength[c]), c)}
      BY <1>1, <2>8 DEF Gets
    <3>2. "refCount" \in DOMAIN buf'[b] /\ buf'[b].refCount = 1
      BY <3>1, KeptCount, NewCount
    <3>3. \A d \in Chunks : held[d] # b
      BY <1>2, <2>8 DEF PoolInv, PoolTypes
    <3>4. Owners(b) = {} /\ WritesOf(b) = {}
      BY <1>5, <3>3 DEF Owners, WritesOf, Counted
    <3>5. Cardinality(Owners(b)) = 0 /\ Some(WritesOf(b)) = 0
      BY <3>4, FS_EmptySet DEF Some
    <3> QED
      BY <2>6, <3>2, <3>5
  <2> QED
    BY <2>7, <2>8
<1> QED
  BY <1>7, <1>8, <1>9 DEF RefsInv

LEMMA RankCovers ==
  ASSUME NEW C \in SUBSET Chunks, NEW b \in 1 .. Cardinality(C)
  PROVE  \E c \in C : Rank(c, C) = b
<1> DEFINE R == { Rank(c, C) : c \in C }
           n == Cardinality(C)
<1>1. IsFiniteSet(C) /\ n \in Nat
  BY EncodeAssumption, Ranks, FS_Subset
<1>2. R \subseteq 1 .. n
  BY Ranks
<1>3. IsFiniteSet(1 .. n) /\ Cardinality(1 .. n) = n
  BY <1>1, FS_Interval
<1>4. IsFiniteSet(R)
  BY <1>2, <1>3, FS_Subset
<1>5. Cardinality(R) = n
  <2> DEFINE f == [c \in C |-> Rank(c, C)]
  <2>1. f \in Bijection(C, R)
    <3>1. f \in [C -> R] /\ \A r \in R : \E c \in C : f[c] = r
      OBVIOUS
    <3>2. \A c, d \in C : f[c] = f[d] => c = d
      BY Ranks
    <3> HIDE DEF f, R
    <3> QED
      BY <3>1, <3>2 DEF Bijection, Injection, Surjection, IsInjective
  <2>2. ExistsBijection(C, R)
    BY <2>1 DEF ExistsBijection
  <2> HIDE DEF R
  <2> QED
    BY <1>1, <1>4, <2>2, FS_Bijection
<1> HIDE DEF R
<1>6. R = 1 .. n
  BY <1>2, <1>3, <1>5, FS_Subset
<1> QED
  BY <1>6 DEF R

LEMMA RefsInit == BufferInit => Lost /\ MainLast /\ RefsInv
<1> SUFFICES ASSUME BufferInit PROVE Lost /\ MainLast /\ RefsInv
  OBVIOUS
<1> DEFINE n == Cardinality(SharedChunks)
           At(b) == CHOOSE c \in SharedChunks : Rank(c, SharedChunks) = b
<1>1. /\ \A v \in Workers : /\ inflight[v] = {} /\ answered[v] = <<>>
                            /\ batch[v] = {} /\ pool[v] = {}
      /\ dropped = {} /\ main = "wait"
  BY DEF BufferInit, Init
<1>2. /\ held = [c \in Chunks |-> IF c \in SharedChunks
                                  THEN Rank(c, SharedChunks) ELSE NoBuf]
      /\ buf = [b \in 1 .. n |-> ChunkBuf(At(b))]
  BY DEF BufferInit
<1>3. SharedChunks \in SUBSET Chunks
  BY DEF SharedChunks
<1>4. ToSet(<<>>) = {}
  BY DEF ToSet
<1>5. \A v \in Workers : InRing(v) = {}
  BY <1>1, <1>4 DEF InRing
<1>6. Lost
  BY <1>1, <1>5 DEF Lost
<1>7. MainLast
  BY <1>1 DEF MainLast
<1>8. Passing = {}
  <2>1. \A c : c \notin UnderWay
    BY <1>1, <1>5, UnderWayIs
  <2> QED
    BY <1>1, <2>1 DEF Passing, HandedOver
<1>9. ASSUME NEW b \in 1 .. n
      PROVE  "refCount" \in DOMAIN buf[b] /\ buf[b].refCount = 1
  <2>1. buf[b] = ChunkBuf(At(b))
    BY <1>2
  <2> HIDE DEF n, At
  <2> QED
    BY <2>1 DEF ChunkBuf, NewBuf
<1>10. ASSUME NEW b \in 1 .. n
       PROVE  Tally(b) = 1
  <2>1. b # NoBuf /\ n \in Nat
    BY <1>3, Ranks DEF NoBuf
  <2>2. PICK c \in SharedChunks : Rank(c, SharedChunks) = b
    BY <1>3, RankCovers
  <2>3. \A d \in Chunks : held[d] = b <=> d = c
    <3>1. \A d \in SharedChunks : d # c => Rank(d, SharedChunks) # b
      BY <1>3, <2>2, Ranks
    <3> QED
      BY <1>2, <1>3, <2>1, <2>2, <3>1
  <2>4. Owners(b) = {c}
    BY <1>1, <1>3, <2>3 DEF Owners
  <2>5. Cardinality(Owners(b)) = 1
    BY <2>4, FS_Singleton
  <2>6. PoolsOf(b) = {} /\ WritesOf(b) = {}
    BY <1>1, <1>8 DEF PoolsOf, WritesOf, Counted
  <2>7. Some(PoolsOf(b)) = 0 /\ Some(WritesOf(b)) = 0
    BY <2>6 DEF Some
  <2> QED
    BY <2>5, <2>7 DEF Tally
<1>11. Bufs = 1 .. n
  BY <1>2 DEF Bufs
<1> HIDE DEF n
<1>12. RefsInv
  BY <1>9, <1>10, <1>11 DEF RefsInv
<1> QED
  BY <1>6, <1>7, <1>12

-----------------------------------------------------------------------------
(* Steps *)

RefInv == AliasInv /\ Lost /\ MainLast /\ RefsInv

LEMMA RefFacts ==
  ASSUME RefInv
  PROVE  /\ TypeInv /\ BatchIssued /\ WriteInv /\ Tracked /\ PoolInv
         /\ Lost /\ MainLast /\ RefsInv
         /\ Passing \subseteq Chunks /\ \A c \in Passing : Claimed(c)
BY PassingClaimed DEF RefInv, AliasInv, WriteInv, Gathered

(* Only the main thread goes on with main. *)
LEMMA WorkMain ==
  ASSUME NEW w \in Workers, BufferStep(w) PROVE main' = main
<1>1. CASE GetBuffer(w) \/ PwritevAgain(w)
  BY <1>1 DEF GetBuffer, PwritevAgain, vars
<1>2. CASE FillStripBuffers(w) \/ AcquireBuffer(w)
  BY <1>2 DEF FillStripBuffers, FillStrip, AcquireBuffer, Acquire
<1>3. CASE PwritevLast(w) \/ PwritevFails(w)
  <2>1. WriteSync(w) \/ WriteShort(w) \/ WriteFails(w)
    BY <1>3 DEF PwritevLast, PwritevFails
  <2> QED
    BY <2>1 DEF WriteSync, WriteShort, WriteFails
<1>4. CASE SubmitBuffers(w) \/ ReapBuffers(w)
  BY <1>4 DEF SubmitBuffers, Submit, ReapBuffers, Reap
<1>5. CASE KernelReads(w)
  BY <1>5 DEF KernelReads, Kernel, KernelWrites, KernelWritesShort,
              KernelFails
<1>6. CASE OtherWork(w)
  BY <1>6 DEF OtherWork, TakeStrip, NothingToWrite, BeginWrite, EndReap,
              RingGone, Count, EndCount, BeginFinish, Seal
<1> QED
  BY <1>1, <1>2, <1>3, <1>4, <1>5, <1>6 DEF BufferStep

(* Steps that leave the buffers where they are. *)
LEMMA SameRefs ==
  ASSUME RefsInv, Passing' = Passing, UNCHANGED <<buf, held, pool, main>>
  PROVE  RefsInv'
<1>1. Bufs' = Bufs
  BY DEF Bufs
<1>2. \A b \in Bufs : /\ "refCount" \in DOMAIN buf'[b]
                      /\ buf'[b].refCount = buf[b].refCount
  BY DEF RefsInv
<1> QED
  BY <1>1, <1>2, QuietRefs

LEMMA FillRefs ==
  ASSUME RefsInv, NEW w \in Workers, FillStripBuffers(w), Passing' = Passing,
         main' = main
  PROVE  RefsInv'
<1>1. held' = held /\ pool' = pool /\ Bufs' = Bufs
  BY DEF FillStripBuffers, Bufs
<1>2. ASSUME NEW b \in Bufs
      PROVE  /\ "refCount" \in DOMAIN buf'[b]
             /\ buf'[b].refCount = buf[b].refCount
  <2>1. "refCount" \in DOMAIN buf[b]
    BY DEF RefsInv
  <2>2. \E x : buf'[b] = buf[b] \/ buf'[b] = [buf[b] EXCEPT !.data = x]
    <3> DEFINE c == CHOOSE d \in ChunksOf[strip[w]] : held[d] = b
               x == [k \in DOMAIN buf[b].data |-> FilledByte(strip[w], c, k)]
    <3>1. buf'[b] = buf[b] \/ buf'[b] = [buf[b] EXCEPT !.data = x]
      BY DEF FillStripBuffers, Bufs
    <3> HIDE DEF x
    <3> QED
      BY <3>1
  <2> QED
    BY <2>1, <2>2
<1> QED
  BY <1>1, <1>2, QuietRefs

LEMMA TakeRefs ==
  ASSUME RefInv, ~aborted, NEW w \in Workers, AcquireBuffer(w)
  PROVE  RefsInv'
<1>1. Acquire(w) /\ UNCHANGED <<held, pool, main>>
  BY DEF AcquireBuffer, Acquire
<1>2. PICK C \in SUBSET Chunks :
        /\ batch'[w] \ batch[w] = C /\ HandedOver' = HandedOver \cup C
        /\ \A c \in C : c \notin Passing /\ issued[c] = 0
        /\ \A c, d \in C : c = d
  BY <1>1, RefFacts, AcquirePasses
<1>3. buf' = IF Chunked THEN Ref(C) ELSE buf
  BY <1>2 DEF AcquireBuffer
<1>4. UnderWay' = UnderWay
  BY RefFacts, OtherStill, StillRings
<1>5. Passing' = Passing \cup C
  BY <1>2, <1>4 DEF Passing
<1>6. \A c \in Passing \cup C : Claimed(c)
  BY <1>2, RefFacts DEF Claimed
<1> QED
  BY <1>1, <1>2, <1>3, <1>5, <1>6, RefFacts, AcquireRefs

LEMMA LeaveRefs ==
  ASSUME RefInv, ~aborted, NEW w \in Workers,
         PwritevLast(w) \/ PwritevFails(w), main' = main
  PROVE  RefsInv'
<1>1. WriteSync(w) \/ WriteShort(w) \/ WriteFails(w)
  BY DEF PwritevLast, PwritevFails
<1>2. pc[w] = "write" /\ Issue(w) /\ batch' = batch
  BY <1>1 DEF WriteSync, WriteShort, WriteFails, workerVars
<1>3. buf' = buf /\ Reclaim(w, batch[w])
  BY DEF PwritevLast, PwritevFails, LeaveLoop
<1>4. HandedOver' = HandedOver \ batch[w] /\ batch[w] \subseteq HandedOver
  BY <1>2, RefFacts, WritePasses
<1>5. UnderWay' = UnderWay
  BY RefFacts, WriteStill, StillRings
<1>6. UnderWay \cap batch[w] = {}
  <2>1. batch[w] \subseteq Chunks /\ \A c \in batch[w] : issued[c] = 0
    BY <1>2, RefFacts, TrackedTypes DEF BatchIssued
  <2> QED
    BY <2>1, RefFacts DEF Tracked
<1>7. batch[w] \in SUBSET Passing /\ Passing' = Passing \ batch[w]
  BY <1>4, <1>5, <1>6 DEF Passing
<1> QED
  BY <1>3, <1>7, RefFacts, ReclaimRefs

LEMMA SubmitRefs ==
  ASSUME RefInv, ~aborted, NEW w \in Workers, SubmitBuffers(w), main' = main
  PROVE  RefsInv'
<1>1. pc[w] = "write" /\ Issue(w) /\ batch' = batch
  BY DEF SubmitBuffers, Submit, workerVars
<1>2. HandedOver' = HandedOver \ batch[w] /\ batch[w] \subseteq HandedOver
  BY <1>1, RefFacts, WritePasses
<1>3. UnderWay' = UnderWay \cup batch[w]
  BY RefFacts, SubmitSubmits, SubmitRings
<1>4. Passing' = Passing
  BY <1>2, <1>3 DEF Passing
<1> QED
  BY <1>4, RefFacts, SameRefs DEF SubmitBuffers

(* The chunks of an answer that is seen are passed no more. *)
LEMMA SeenPasses ==
  ASSUME RefInv, Later, NEW v \in Workers, RingSeen(v),
         HandedOver' = HandedOver
  PROVE  /\ Head(answered[v]) \in SUBSET Passing
         /\ Passing' = Passing \ Head(answered[v])
<1>1. UnderWay' = UnderWay \ Head(answered[v])
  BY RefFacts, SeenRings
<1>2. /\ Head(answered[v]) \in SUBSET Chunks
      /\ \A c \in Head(answered[v]) : c \in UnderWay
  BY RefFacts, SeenTracked
<1>3. \A c \in Head(answered[v]) : c \notin HandedOver
  BY <1>2, RefFacts DEF Tracked, HandedOver
<1> QED
  BY <1>1, <1>2, <1>3 DEF Passing

LEMMA CloseRingsRefs ==
  ASSUME RefInv, Later, CloseRingsBuffers
  PROVE  RefsInv'
<1>1. HandedOver' = HandedOver /\ pool' = pool /\ main' = main
  BY MainPasses DEF CloseRingsBuffers, CloseRings
<1>2. ringsOpen \subseteq Workers
  BY RefFacts, TrackedTypes
<1>3. ASSUME NEW v \in Workers, RingSeen(v),
             buf' = Unref(Head(answered[v])),
             held' = Returned(Head(answered[v]))
      PROVE  RefsInv'
  <2>1. /\ Head(answered[v]) \in SUBSET Passing
        /\ Passing' = Passing \ Head(answered[v])
    BY <1>1, <1>3, SeenPasses
  <2> QED
    BY <1>1, <1>3, <2>1, RefFacts, UnrefRefs
<1>4. ASSUME NEW v \in Workers, RingCloses(v), UNCHANGED <<buf, held>>
      PROVE  RefsInv'
  <2>1. UnderWay' = UnderWay
    BY <1>4, RefFacts, ClosesRings
  <2>2. Passing' = Passing
    BY <1>1, <2>1 DEF Passing
  <2> QED
    BY <1>1, <1>4, <2>2, RefFacts, SameRefs
<1> QED
  BY <1>2, <1>3, <1>4, RefFacts, CloseSteps

LEMMA WorkRefs ==
  ASSUME RefInv, Later, ~aborted, NEW w \in Workers, BufferStep(w)
  PROVE  Lost' /\ RefsInv'
<1>0. main' = main
  BY WorkMain
<1>1. CASE \/ GetBuffer(w) \/ FillStripBuffers(w) \/ OtherWork(w)
           \/ PwritevAgain(w)
  <2>1. RingsStill
    BY <1>1, OtherStill, WriteStill
  <2>2. Lost' /\ UnderWay' = UnderWay
    BY <2>1, RefFacts, StillRings
  <2>3. HandedOver' = HandedOver
    BY <1>1, RefFacts, OtherPasses
  <2>4. Passing' = Passing
    BY <2>2, <2>3 DEF Passing
  <2>5. CASE GetBuffer(w)
    BY <2>2, <2>4, <2>5, RefFacts, GetRefs
  <2>6. CASE FillStripBuffers(w)
    BY <1>0, <2>2, <2>4, <2>6, RefFacts, FillRefs
  <2>7. CASE OtherWork(w) \/ PwritevAgain(w)
    <3>1. UNCHANGED <<buf, held, pool>>
      BY <2>7 DEF OtherWork, PwritevAgain
    <3> QED
      BY <1>0, <2>2, <2>4, <3>1, RefFacts, SameRefs
  <2> QED
    BY <1>1, <2>5, <2>6, <2>7
<1>2. CASE AcquireBuffer(w)
  BY <1>2, RefFacts, OtherStill, StillRings, TakeRefs
<1>3. CASE PwritevLast(w) \/ PwritevFails(w)
  BY <1>0, <1>3, RefFacts, WriteStill, StillRings, LeaveRefs
<1>4. CASE SubmitBuffers(w)
  <2>1. RingSubmits(w)
    BY <1>4, RefFacts, SubmitSubmits
  <2> QED
    BY <1>0, <1>4, <2>1, RefFacts, SubmitRings, SubmitRefs
<1>5. CASE ReapBuffers(w)
  <2>1. RingSeen(w) /\ HandedOver' = HandedOver
    BY <1>5, RefFacts, ReapSeen, OtherPasses
  <2>2. Lost'
    BY <2>1, RefFacts, SeenRings
  <2>3. /\ Head(answered[w]) \in SUBSET Passing
        /\ Passing' = Passing \ Head(answered[w])
    BY <2>1, SeenPasses
  <2>4. buf' = buf /\ Reclaim(w, Head(answered[w]))
    BY <1>5 DEF ReapBuffers
  <2> QED
    BY <1>0, <2>2, <2>3, <2>4, RefFacts, ReclaimRefs
<1>6. CASE KernelReads(w)
  <2>1. HandedOver' = HandedOver /\ UNCHANGED <<buf, held, pool>>
    BY <1>6, RefFacts, OtherPasses DEF KernelReads
  <2>2. PICK r : RingAnswers(w, r)
    BY <1>6, RefFacts, KernelAnswers
  <2>3. Lost' /\ UnderWay' = UnderWay
    BY <2>2, RefFacts, AnswersRings
  <2>4. Passing' = Passing
    BY <2>1, <2>3 DEF Passing
  <2> QED
    BY <1>0, <2>1, <2>3, <2>4, RefFacts, SameRefs
<1> QED
  BY <1>1, <1>2, <1>3, <1>4, <1>5, <1>6 DEF BufferStep

LEMMA MainRefs ==
  ASSUME RefInv, Later,
         CloseRingsBuffers \/ MainDrainBuffers \/ MainCloseBuffers
  PROVE  Lost' /\ RefsInv'
<1>1. CASE CloseRingsBuffers
  <2>1. PICK v \in ringsOpen : RingSeen(v) \/ RingCloses(v)
    BY <1>1, RefFacts, CloseSteps
  <2>2. v \in Workers
    BY RefFacts, TrackedTypes
  <2>3. Lost'
    BY <2>1, <2>2, RefFacts, SeenRings, ClosesRings
  <2> QED
    BY <1>1, <2>3, CloseRingsRefs
<1>2. CASE MainDrainBuffers \/ MainCloseBuffers
  <2>1. Lost' /\ UnderWay' = UnderWay
    BY <1>2, RefFacts, MainStill, StillRings
  <2>2. HandedOver' = HandedOver
    BY <1>2, MainPasses
  <2>3. Passing' = Passing
    BY <2>1, <2>2 DEF Passing
  <2>4. CASE MainDrainBuffers
    <3>1. /\ UNCHANGED <<buf, held, pool>>
          /\ main # "closed" /\ main' # "closed"
      BY <2>4 DEF MainDrainBuffers, MainDrain
    <3>2. Bufs' = Bufs
      BY <3>1 DEF Bufs
    <3>3. \A b \in Bufs : /\ "refCount" \in DOMAIN buf'[b]
                          /\ buf'[b].refCount = buf[b].refCount
      BY <3>1, RefFacts DEF RefsInv
    <3> QED
      BY <2>1, <2>3, <3>1, <3>2, <3>3, RefFacts, QuietRefs
  <2>5. CASE MainCloseBuffers
    BY <2>1, <2>3, <2>5, RefFacts, CloseRefs
  <2> QED
    BY <1>2, <2>4, <2>5
<1> QED
  BY <1>1, <1>2

LEMMA RefStutter ==
  ASSUME RefInv, UNCHANGED bvars
  PROVE  Lost' /\ MainLast' /\ RefsInv'
<1>1. /\ UNCHANGED <<buf, held, pool, main, batch, issued, pc, pending>>
      /\ RingsStill
  BY DEF bvars, vars, workerVars, bufferVars, ringVars, RingsStill
<1>2. Lost' /\ UnderWay' = UnderWay
  BY <1>1, RefFacts, StillRings
<1>3. HandedOver' = HandedOver
  BY <1>1 DEF HandedOver
<1>4. Passing' = Passing
  BY <1>2, <1>3 DEF Passing
<1>5. MainLast'
  BY <1>1, RefFacts DEF MainLast
<1> QED
  BY <1>1, <1>2, <1>4, <1>5, RefFacts, SameRefs

LEMMA RefStep == RefInv /\ [BufferNext]_bvars => RefInv'
<1> SUFFICES ASSUME RefInv, [BufferNext]_bvars PROVE RefInv'
  OBVIOUS
<1>1. AliasInv'
  BY AliasStep DEF RefInv
<1>2. CASE UNCHANGED bvars \/ BufferStopped
  BY <1>1, <1>2, RefStutter DEF BufferStopped, RefInv
<1>3. CASE ~aborted /\ (\/ \E w \in Workers : BufferStep(w)
                        \/ CloseRingsBuffers
                        \/ MainDrainBuffers \/ MainCloseBuffers)
  <2>1. (Next /\ ~aborted) \/ UNCHANGED vars
    BY BufferSteps, AliveOrStill
  <2>2. Later
    <3>1. CASE UNCHANGED vars
      BY <3>1 DEF vars, Later
    <3> QED
      BY <2>1, <3>1, RefFacts, IssuesLater
  <2>3. MainLast'
    <3>1. CASE UNCHANGED vars
      BY <3>1, RefFacts DEF vars, bufferVars, MainLast
    <3> QED
      BY <2>1, <3>1, RefFacts, MainLastStep
  <2>4. Lost' /\ RefsInv'
    BY <1>3, <2>2, WorkRefs, MainRefs
  <2> QED
    BY <1>1, <2>3, <2>4 DEF RefInv
<1> QED
  BY <1>2, <1>3 DEF BufferNext

(* With any number of threads, chunks and buffers, -k or not, rings that   *)
(* fail or not: the reference count of every buffer is the number of the   *)
(* pools, chunks and writes that hold it.                                  *)
THEOREM ReferencesCounted == BufferSpec => []RefsExact
<1>1. BufferInit => RefInv
  <2>1. BufferInit => AliasInv
    BY WriteInit, TrackedInit, PoolInit DEF AliasInv, BufferInit
  <2> QED
    BY <2>1, RefsInit DEF RefInv
<1>2. RefInv => RefsExact
  <2> SUFFICES ASSUME RefInv, NEW b \in Bufs
               PROVE  buf[b].refCount = Holders(b, Passing)
    BY DEF RefsExact, Passing
  <2>1. buf[b].refCount = Tally(b)
    BY RefFacts DEF RefsInv
  <2> QED
    BY <2>1, RefFacts, TallyHolders
<1> QED
  BY <1>1, <1>2, RefStep, PTL DEF BufferSpec

-----------------------------------------------------------------------------
(* Nothing is left when the encoder is deleted *)

(* A chunk that all its strips have passed is in a batch, or written.      *)
NotForgotten ==
  \A c \in Chunks :
    Passed(c) = Sharers(c) =>
      issued[c] # 0 \/ \E w \in Workers : c \in batch[w]

LEMMA NotForgottenInit == BufferInit => NotForgotten
<1> SUFFICES ASSUME BufferInit, NEW c \in Chunks PROVE Passed(c) # Sharers(c)
  BY DEF NotForgotten
<1>1. pending = Strips
  BY DEF BufferInit, Init
<1>2. PICK s \in Strips : c \in ChunksOf[s]
  BY EncodeAssumption
<1> QED
  BY <1>1, <1>2 DEF Passed, Sharers

LEMMA NotForgottenStep ==
  ASSUME WriteInv, NotForgotten, Later, Next, ~aborted
  PROVE  NotForgotten'
<1>0. /\ TypeInv /\ Ownership /\ AcquireCounted /\ BatchIssued
      /\ batch \in [Workers -> SUBSET Chunks] /\ issued \in [Chunks -> Nat]
  BY TrackedTypes DEF WriteInv, Gathered
<1>1. \A c \in Chunks : Sharers(c)' = Sharers(c)
  BY DEF Sharers
<1>2. \A c \in Chunks : issued[c] # 0 => issued'[c] # 0
  BY <1>0 DEF Later
<1>3. ASSUME NEW w \in Workers, Acquire(w)
      PROVE  NotForgotten'
  <2>1. PICK d \in todo[w] :
          /\ Passed(d)' = Passed(d) \cup {strip[w]}
          /\ strip[w] \in Sharers(d) \ Passed(d)
          /\ batch' = IF acquireCount[d] + 1 = ShareCount(d)
                      THEN [batch EXCEPT ![w] = @ \cup {d}] ELSE batch
          /\ \A c \in Chunks \ {d} : Passed(c)' = Passed(c)
    BY <1>0, <1>3, PassedAcquire
  <2>2. d \in Chunks
    BY <1>0, TaskTypes
  <2>3. \A v \in Workers : batch[v] \subseteq batch'[v]
    BY <1>0, <2>1
  <2>4. ASSUME Passed(d)' = Sharers(d)
        PROVE  d \in batch'[w]
    <3>1. Cardinality(Passed(d) \cup {strip[w]}) = Cardinality(Passed(d)) + 1
      BY <2>1, <2>2, PassedFinite, FS_AddElement
    <3>2. acquireCount[d] + 1 = ShareCount(d)
      BY <1>0, <2>1, <2>2, <2>4, <3>1 DEF AcquireCounted, ShareCount
    <3> QED
      BY <1>0, <2>1, <3>2
  <2> QED
    BY <1>1, <1>2, <2>1, <2>2, <2>3, <2>4 DEF NotForgotten
<1>4. CASE ~ \E w \in Workers : Acquire(w)
  <2>1. \A c \in Chunks : Passed(c)' = Passed(c)
    BY <1>0, <1>4, PassedStep
  <2>2. \A v \in Workers : \A c \in batch[v] :
          c \in batch'[v] \/ issued[c] # 0
    <3>1. ASSUME NEW w \in Workers, Count(w)
          PROVE  \A v \in Workers : \A c \in batch[v] :
                   c \in batch'[v] \/ issued[c] # 0
      BY <1>0, <3>1 DEF Count, BatchIssued
    <3>2. ASSUME NEW w \in Workers, BeginWrite(w) \/ Issues(w)
          PROVE  batch' = batch
      BY <3>2 DEF BeginWrite, Issues
    <3>3. CASE Elsewhere
      BY <3>3 DEF Elsewhere
    <3> QED
      BY <1>0, <1>4, <3>1, <3>2, <3>3, BatchKinds
  <2> QED
    BY <1>1, <1>2, <2>1, <2>2 DEF NotForgotten
<1> QED
  BY <1>3, <1>4

(* So every chunk has been written when the main thread goes on. *)
LEMMA AllIssued ==
  ASSUME WriteInv, MainLast, NotForgotten, main # "wait", NEW c \in Chunks
  PROVE  issued[c] # 0 /\ \A w \in Workers : batch[w] = {}
<1>1. pending = {} /\ \A w \in Workers : pc[w] = "idle"
  BY DEF MainLast
<1>2. \A w \in Workers : todo[w] = {} /\ batch[w] = {}
  BY <1>1 DEF WriteInv, Ownership, Gathered, BatchPlace
<1>3. Passed(c) = Sharers(c)
  BY <1>1, <1>2 DEF Passed
<1> QED
  BY <1>2, <1>3 DEF NotForgotten

(* Without -k a chunk has a buffer only as long as it waits. *)
Temporary ==
  ~Chunked => \A c \in Chunks : held[c] # NoBuf => Claimed(c)

Emptied ==
  main = "closed" => ringsOpen = {} /\ \A w \in Workers : pool[w] = {}

LEMMA TemporaryInit == BufferInit => Temporary /\ Emptied
<1> SUFFICES ASSUME BufferInit PROVE Temporary /\ Emptied
  OBVIOUS
<1>1. main = "wait" /\ \A c \in Chunks : issued[c] = 0
  BY DEF BufferInit, Init
<1> QED
  BY <1>1 DEF Temporary, Emptied, Claimed

(* Only the writes change what is issued. *)
LEMMA IssuedStill ==
  ASSUME NEW w \in Workers,
         \/ GetBuffer(w) \/ FillStripBuffers(w) \/ AcquireBuffer(w)
         \/ PwritevAgain(w) \/ ReapBuffers(w) \/ KernelReads(w)
         \/ OtherWork(w)
  PROVE  issued' = issued
<1>1. CASE GetBuffer(w) \/ PwritevAgain(w)
  BY <1>1 DEF GetBuffer, PwritevAgain, vars
<1>2. CASE FillStripBuffers(w) \/ AcquireBuffer(w)
  BY <1>2 DEF FillStripBuffers, FillStrip, AcquireBuffer, Acquire
<1>3. CASE ReapBuffers(w)
  BY <1>3 DEF ReapBuffers, Reap
<1>4. CASE KernelReads(w)
  BY <1>4 DEF KernelReads, Kernel, KernelWrites, KernelWritesShort,
              KernelFails
<1>5. CASE OtherWork(w)
  BY <1>5 DEF OtherWork, TakeStrip, NothingToWrite, BeginWrite, EndReap,
              RingGone, Count, EndCount, BeginFinish, Seal
<1> QED
  BY <1>1, <1>2, <1>3, <1>4, <1>5

(* A chunk may stop waiting when its buffer is given back. *)
LEMMA GivesBack ==
  ASSUME Temporary, PoolInv, NEW C, held' = Returned(C),
         \A c \in Chunks \ C : Claimed(c) => Claimed(c)'
  PROVE  Temporary'
<1> SUFFICES ASSUME ~Chunked, NEW c \in Chunks, held'[c] # NoBuf
             PROVE  Claimed(c)'
  BY DEF Temporary
<1>1. c \notin C /\ held'[c] = held[c]
  BY DEF Returned
<1> QED
  BY <1>1 DEF Temporary

LEMMA KeepsAll ==
  ASSUME Temporary, held' = held, \A c \in Chunks : Claimed(c) => Claimed(c)'
  PROVE  Temporary'
BY DEF Temporary

LEMMA WorkTemporary ==
  ASSUME RefInv, Temporary, Later, ~aborted, NEW w \in Workers, BufferStep(w)
  PROVE  Temporary'
<1>1. CASE \/ GetBuffer(w) \/ FillStripBuffers(w) \/ AcquireBuffer(w)
           \/ OtherWork(w) \/ PwritevAgain(w)
  <2>1. UnderWay' = UnderWay /\ issued' = issued
    BY <1>1, RefFacts, OtherStill, WriteStill, StillRings, IssuedStill
  <2>2. \A c \in Chunks : Claimed(c) => Claimed(c)'
    BY <2>1 DEF Claimed
  <2>3. CASE GetBuffer(w)
    <3>1. PICK c, b : Gets(w, c, b)
      BY <2>3, RefFacts, GetEffect
    <3>2. pc[w] = "fill"
      BY <2>3 DEF GetBuffer
    <3>3. issued'[c] = 0
      BY <2>1, <3>1, <3>2, RefFacts, WantingFresh DEF Gets
    <3>4. \A d \in Chunks : d # c => held'[d] = held[d]
      BY <3>1 DEF Gets
    <3> QED
      BY <2>2, <3>3, <3>4 DEF Temporary, Claimed
  <2>4. CASE \/ FillStripBuffers(w) \/ AcquireBuffer(w)
             \/ OtherWork(w) \/ PwritevAgain(w)
    <3>1. held' = held
      BY <2>4 DEF FillStripBuffers, AcquireBuffer, OtherWork, PwritevAgain
    <3> QED
      BY <2>2, <3>1, KeepsAll
  <2> QED
    BY <1>1, <2>3, <2>4
<1>2. CASE PwritevLast(w) \/ PwritevFails(w)
  <2>1. WriteSync(w) \/ WriteShort(w) \/ WriteFails(w)
    BY <1>2 DEF PwritevLast, PwritevFails
  <2>2. Issue(w) /\ held' = Returned(batch[w])
    BY <1>2, <2>1 DEF WriteSync, WriteShort, WriteFails,
                      PwritevLast, PwritevFails, LeaveLoop, Reclaim
  <2>3. UnderWay' = UnderWay
    BY <1>2, RefFacts, WriteStill, StillRings
  <2>4. \A c \in Chunks \ batch[w] : issued'[c] = issued[c]
    BY <2>2 DEF Issue
  <2>5. \A c \in Chunks \ batch[w] : Claimed(c) => Claimed(c)'
    BY <2>3, <2>4 DEF Claimed
  <2> QED
    BY <2>2, <2>5, RefFacts, GivesBack
<1>3. CASE SubmitBuffers(w)
  <2>1. Issue(w) /\ held' = held
    BY <1>3 DEF SubmitBuffers, Submit
  <2>2. UnderWay' = UnderWay \cup batch[w]
    BY <1>3, RefFacts, SubmitSubmits, SubmitRings
  <2>3. \A c \in Chunks \ batch[w] : issued'[c] = issued[c]
    BY <2>1 DEF Issue
  <2>4. \A c \in Chunks : Claimed(c) => Claimed(c)'
    BY <2>2, <2>3 DEF Claimed
  <2> QED
    BY <2>1, <2>4, KeepsAll
<1>4. CASE ReapBuffers(w)
  <2>1. RingSeen(w) /\ issued' = issued /\ held' = Returned(Head(answered[w]))
    BY <1>4, ReapSeen, IssuedStill DEF ReapBuffers, Reclaim
  <2>2. UnderWay' = UnderWay \ Head(answered[w])
    BY <2>1, RefFacts, SeenRings
  <2>3. \A c \in Chunks \ Head(answered[w]) : Claimed(c) => Claimed(c)'
    BY <2>1, <2>2 DEF Claimed
  <2> QED
    BY <2>1, <2>3, RefFacts, GivesBack
<1>5. CASE KernelReads(w)
  <2>1. issued' = issued /\ held' = held
    BY <1>5, IssuedStill DEF KernelReads
  <2>2. PICK r : RingAnswers(w, r)
    BY <1>5, RefFacts, KernelAnswers
  <2>3. UnderWay' = UnderWay
    BY <2>2, RefFacts, AnswersRings
  <2>4. \A c \in Chunks : Claimed(c) => Claimed(c)'
    BY <2>1, <2>3 DEF Claimed
  <2> QED
    BY <2>1, <2>4, KeepsAll
<1> QED
  BY <1>1, <1>2, <1>3, <1>4, <1>5 DEF BufferStep

LEMMA MainTemporary ==
  ASSUME RefInv, Temporary, Later,
         CloseRingsBuffers \/ MainDrainBuffers \/ MainCloseBuffers
  PROVE  Temporary'
<1>1. issued' = issued
  BY DEF CloseRingsBuffers, CloseRings, MainDrainBuffers, MainDrain,
         MainCloseBuffers, MainClose
<1>2. CASE CloseRingsBuffers
  <2>1. PICK v \in ringsOpen :
           \/ /\ RingSeen(v)
              /\ held' = Returned(Head(answered[v]))
           \/ RingCloses(v) /\ held' = held
    BY <1>2, RefFacts, CloseSteps
  <2>2. v \in Workers
    BY RefFacts, TrackedTypes
  <2>3. CASE RingSeen(v) /\ held' = Returned(Head(answered[v]))
    <3>1. UnderWay' = UnderWay \ Head(answered[v])
      BY <2>2, <2>3, RefFacts, SeenRings
    <3>2. \A c \in Chunks \ Head(answered[v]) : Claimed(c) => Claimed(c)'
      BY <1>1, <3>1 DEF Claimed
    <3> QED
      BY <2>3, <3>2, RefFacts, GivesBack
  <2>4. CASE RingCloses(v) /\ held' = held
    <3>1. UnderWay' = UnderWay
      BY <2>2, <2>4, RefFacts, ClosesRings
    <3>2. \A c \in Chunks : Claimed(c) => Claimed(c)'
      BY <1>1, <3>1 DEF Claimed
    <3> QED
      BY <2>4, <3>2, KeepsAll
  <2> QED
    BY <2>1, <2>3, <2>4
<1>3. CASE MainDrainBuffers \/ MainCloseBuffers
  <2>1. UnderWay' = UnderWay
    BY <1>3, RefFacts, MainStill, StillRings
  <2>2. held' = held
    BY <1>3 DEF MainDrainBuffers, MainCloseBuffers
  <2>3. \A c \in Chunks : Claimed(c) => Claimed(c)'
    BY <1>1, <2>1 DEF Claimed
  <2> QED
    BY <2>2, <2>3, KeepsAll
<1> QED
  BY <1>2, <1>3

LEMMA EmptiedStep ==
  ASSUME RefInv, Emptied, ~aborted,
         \/ \E w \in Workers : BufferStep(w)
         \/ CloseRingsBuffers \/ MainDrainBuffers \/ MainCloseBuffers
  PROVE  Emptied'
<1>1. CASE MainCloseBuffers
  BY <1>1 DEF MainCloseBuffers, MainClose, ringVars, Emptied
<1>2. CASE MainDrainBuffers
  BY <1>2 DEF MainDrainBuffers, MainDrain, Emptied
<1>3. CASE CloseRingsBuffers
  <2>1. main' = main /\ \E v \in ringsOpen : TRUE
    BY <1>3 DEF CloseRingsBuffers, CloseRings
  <2> QED
    BY <2>1 DEF Emptied
<1>4. ASSUME NEW w \in Workers, BufferStep(w), main = "closed"
      PROVE  UNCHANGED <<pool, ringsOpen>>
  <2>1. pc[w] = "idle" /\ ringsOpen = {}
    BY <1>4, RefFacts DEF MainLast, Emptied
  <2>2. ~ (\/ GetBuffer(w) \/ ReapBuffers(w) \/ PwritevAgain(w)
           \/ PwritevLast(w) \/ PwritevFails(w) \/ SubmitBuffers(w))
    BY <2>1 DEF GetBuffer, ReapBuffers, Reap, PwritevAgain, PwritevLast,
                PwritevFails, WriteFails, SubmitBuffers, Submit
  <2>3. CASE FillStripBuffers(w) \/ AcquireBuffer(w) \/ OtherWork(w)
    BY <2>3, OtherStill
       DEF FillStripBuffers, AcquireBuffer, OtherWork, RingsStill
  <2>4. CASE KernelReads(w)
    BY <2>4 DEF KernelReads, Kernel, KernelWrites, KernelWritesShort,
                KernelFails
  <2> QED
    BY <1>4, <2>2, <2>3, <2>4 DEF BufferStep
<1>5. ASSUME NEW w \in Workers, BufferStep(w)
      PROVE  Emptied'
  <2>1. main' = main
    BY <1>5, WorkMain
  <2> QED
    BY <1>4, <1>5, <2>1 DEF Emptied
<1> QED
  BY <1>1, <1>2, <1>3, <1>5

LeakInv == RefInv /\ NotForgotten /\ Temporary /\ Emptied

LEMMA LeakStutter ==
  ASSUME LeakInv, UNCHANGED bvars
  PROVE  NotForgotten' /\ Temporary' /\ Emptied'
<1>1. /\ UNCHANGED <<held, pool, main, batch, issued, pending, strip, todo>>
      /\ RingsStill
  BY DEF bvars, vars, workerVars, bufferVars, ringVars, RingsStill
<1>2. UnderWay' = UnderWay
  BY <1>1, RefFacts, StillRings DEF LeakInv
<1>3. \A c \in Chunks : Passed(c)' = Passed(c) /\ Sharers(c)' = Sharers(c)
  BY <1>1 DEF Passed, Sharers
<1>4. NotForgotten'
  BY <1>1, <1>3 DEF NotForgotten, LeakInv
<1>5. Temporary'
  BY <1>1, <1>2, KeepsAll DEF Claimed, LeakInv
<1>6. Emptied'
  BY <1>1 DEF Emptied, LeakInv, RingsStill
<1> QED
  BY <1>4, <1>5, <1>6

LEMMA LeakStep == LeakInv /\ [BufferNext]_bvars => LeakInv'
<1> SUFFICES ASSUME LeakInv, [BufferNext]_bvars PROVE LeakInv'
  OBVIOUS
<1>1. RefInv'
  BY RefStep DEF LeakInv
<1>2. CASE UNCHANGED bvars \/ BufferStopped
  BY <1>1, <1>2, LeakStutter DEF BufferStopped, LeakInv
<1>3. CASE ~aborted /\ (\/ \E w \in Workers : BufferStep(w)
                        \/ CloseRingsBuffers
                        \/ MainDrainBuffers \/ MainCloseBuffers)
  <2>1. RefInv /\ NotForgotten /\ Temporary /\ Emptied
    BY DEF LeakInv
  <2>2. (Next /\ ~aborted) \/ UNCHANGED vars
    BY BufferSteps, AliveOrStill
  <2>3. Later
    <3>1. CASE UNCHANGED vars
      BY <3>1 DEF vars, Later
    <3> QED
      BY <2>1, <2>2, <3>1, RefFacts, IssuesLater
  <2>4. NotForgotten'
    <3>1. CASE UNCHANGED vars
      BY <2>1, <3>1 DEF vars, workerVars, bufferVars, NotForgotten, Passed,
                        Sharers
    <3> QED
      BY <2>1, <2>2, <2>3, <3>1, RefFacts, NotForgottenStep
  <2>5. Temporary' /\ Emptied'
    BY <1>3, <2>1, <2>3, WorkTemporary, MainTemporary, EmptiedStep
  <2> QED
    BY <1>1, <2>4, <2>5 DEF LeakInv
<1> QED
  BY <1>2, <1>3 DEF BufferNext

LEMMA NothingLeft ==
  ASSUME LeakInv, main = "closed", NEW b \in Bufs
  PROVE  buf[b].refCount = 0 \/ \E c \in dropped : held[c] = b
<1>1. RefInv /\ NotForgotten /\ Temporary /\ Emptied
  BY DEF LeakInv
<1>2. buf[b].refCount = Tally(b) /\ b # NoBuf
  BY <1>1, RefFacts, NotNoBuf DEF RefsInv
<1>3. \A c \in Chunks : issued[c] # 0 /\ \A w \in Workers : batch[w] = {}
  BY <1>1, RefFacts, AllIssued
<1>4. Some(PoolsOf(b)) = 0
  BY <1>1 DEF Emptied, PoolsOf, Some
<1>5. UnderWay \subseteq dropped
  BY <1>1, RefFacts, UnderWayIs DEF Emptied, Lost
<1>6. HandedOver = {}
  <2>1. \A c : c \in HandedOver => c \in Chunks /\ issued[c] = 0
    BY <1>1, RefFacts, TrackedTypes DEF HandedOver
  <2>2. \A c : c \notin HandedOver
    BY <1>3, <2>1
  <2> QED
    BY <2>2
<1>7. CASE \E c \in UnderWay : held[c] = b
  BY <1>5, <1>7
<1>8. CASE \A c \in UnderWay : held[c] # b
  <2>1. WritesOf(b) = {}
    BY <1>6, <1>8 DEF WritesOf, Counted, Passing
  <2>2. Owners(b) = {}
    <3>1. CASE Chunked
      BY <3>1 DEF Owners
    <3>2. CASE ~Chunked
      <4>1. \A c \in Chunks : held[c] = b => c \in UnderWay
        BY <1>1, <1>2, <1>3, <3>2 DEF Temporary, Claimed
      <4> QED
        BY <1>8, <4>1 DEF Owners
    <3> QED
      BY <3>1, <3>2
  <2>3. Some(WritesOf(b)) = 0 /\ Cardinality(Owners(b)) = 0
    BY <2>1, <2>2, FS_EmptySet DEF Some
  <2> QED
    BY <1>2, <1>4, <2>3 DEF Tally
<1> QED
  BY <1>7, <1>8

(* Whatever failed on the way: once the encoder is deleted, every buffer   *)
(* is freed, but for those of requests that a ring was closed over.        *)
THEOREM NothingLeaks == BufferSpec => []NoLeak
<1>1. BufferInit => LeakInv
  <2>1. BufferInit => AliasInv
    BY WriteInit, TrackedInit, PoolInit DEF AliasInv, BufferInit
  <2> QED
    BY <2>1, RefsInit, NotForgottenInit, TemporaryInit DEF LeakInv, RefInv
<1>2. LeakInv => NoLeak
  BY NothingLeft DEF NoLeak
<1> QED
  BY <1>1, <1>2, LeakStep, PTL DEF BufferSpec

=============================================================================
