------------------------ MODULE ParallelEncodeProofs ------------------------
(***************************************************************************)
(* What ParallelEncode guarantees for every number of workers, strips and  *)
(* chunks, proved in layers: each layer is an inductive invariant that may *)
(* use the layers below it.                                                *)
(***************************************************************************)
EXTENDS ParallelEncode, FiniteSetTheorems, SequenceTheorems, TLAPS

-----------------------------------------------------------------------------
(* Types *)

(* A worker has a strip exactly when it is not idle. *)
StripHeld == \A w \in Workers : (strip[w] = NoStrip) <=> (pc[w] = "idle")

TypeInv == TypeOK /\ StripHeld

LEMMA TypeInit == Init => TypeInv
<1> SUFFICES ASSUME Init PROVE TypeInv
  OBVIOUS
<1> USE DEF Init
<1>1. cq \in [Workers -> Seq(BOOLEAN)]
  <2>1. <<>> \in Seq(BOOLEAN)
    OBVIOUS
  <2> QED
    BY <2>1
<1>2. /\ fdOpen \in BOOLEAN /\ sealed \in BOOLEAN /\ aborted \in BOOLEAN
  OBVIOUS
<1>3. /\ acquireCount \in [Chunks -> Nat] /\ issued \in [Chunks -> Nat]
      /\ writes \in [Workers -> Nat] /\ numPixelWrites \in Nat
  OBVIOUS
<1>4. ringsOpen \subseteq Workers
  OBVIOUS
<1>5. StripHeld
  BY DEF StripHeld
<1> QED
  BY <1>1, <1>2, <1>3, <1>4, <1>5, Zenon DEF TypeInv, TypeOK

LEMMA TypeTask ==
  ASSUME TypeInv, NEW w \in Workers,
         \/ \E s \in Strips : TakeStrip(w, s)
         \/ FillStrip(w) \/ Acquire(w) \/ NothingToWrite(w) \/ BeginWrite(w)
  PROVE  TypeInv'
<1> USE EncodeAssumption DEF TypeInv, TypeOK, StripHeld, Goto, EndTask,
        workerVars, bufferVars, ringVars, fileVars
<1>1. CASE \E s \in Strips : TakeStrip(w, s)
  BY <1>1 DEF TakeStrip
<1>2. CASE FillStrip(w)
  BY <1>2 DEF FillStrip
<1>3. CASE Acquire(w)
  BY <1>3 DEF Acquire, IsLeast
<1>4. CASE NothingToWrite(w)
  BY <1>4 DEF NothingToWrite
<1>5. CASE BeginWrite(w)
  BY <1>5 DEF BeginWrite
<1> QED
  BY <1>1, <1>2, <1>3, <1>4, <1>5

LEMMA TypeWrite ==
  ASSUME TypeInv, NEW w \in Workers,
         \/ WriteSync(w) \/ WriteShort(w) \/ WriteFails(w)
         \/ Submit(w) \/ Reap(w) \/ EndReap(w) \/ RingGone(w)
  PROVE  TypeInv'
<1> USE EncodeAssumption DEF TypeInv, TypeOK, StripHeld, Goto, Issue,
        workerVars, bufferVars, ringVars, fileVars
<1>0. batch[w] \in SUBSET Chunks
  OBVIOUS
<1>1. CASE WriteSync(w)
  <2>1. issued' \in [Chunks -> Nat]
    BY <1>1 DEF WriteSync
  <2>2. onDisk' \subseteq Chunks
    BY <1>0, <1>1 DEF WriteSync
  <2> QED
    BY <1>1, <2>1, <2>2 DEF WriteSync
<1>2. CASE WriteShort(w)
  <2>1. issued' \in [Chunks -> Nat]
    BY <1>2 DEF WriteShort
  <2>2. onDisk' \subseteq Chunks
    BY <1>0, <1>2 DEF WriteShort
  <2> QED
    BY <1>2, <2>1, <2>2 DEF WriteShort
<1>3. CASE WriteFails(w)
  BY <1>3 DEF WriteFails
<1>4. CASE Submit(w)
  BY <1>4 DEF Submit
<1>5. CASE Reap(w)
  <2>1. Tail(cq[w]) \in Seq(BOOLEAN)
    BY <1>5, HeadTailProperties DEF Reap
  <2> QED
    BY <1>5, <2>1 DEF Reap
<1>6. CASE EndReap(w)
  BY <1>6 DEF EndReap
<1>7. CASE RingGone(w)
  BY <1>7 DEF RingGone
<1> QED
  BY <1>1, <1>2, <1>3, <1>4, <1>5, <1>6, <1>7

LEMMA TypeEnd ==
  ASSUME TypeInv, NEW w \in Workers,
         Count(w) \/ EndCount(w) \/ BeginFinish(w) \/ Seal(w)
  PROVE  TypeInv'
<1> USE EncodeAssumption DEF TypeInv, TypeOK, StripHeld, Goto, EndTask,
        workerVars, bufferVars, ringVars, fileVars
<1>1. CASE Count(w)
  BY <1>1 DEF Count
<1>2. CASE EndCount(w)
  <2>1. CASE writes[w] = MaxPixelWrites
    BY <1>2, <2>1 DEF EndCount
  <2>2. CASE writes[w] # MaxPixelWrites
    BY <1>2, <2>2 DEF EndCount
  <2> QED
    BY <2>1, <2>2
<1>3. CASE BeginFinish(w)
  <2>1. CASE sealed
    BY <1>3, <2>1 DEF BeginFinish
  <2>2. CASE ~sealed
    BY <1>3, <2>2 DEF BeginFinish
  <2> QED
    BY <2>1, <2>2
<1>4. CASE Seal(w)
  BY <1>4 DEF Seal
<1> QED
  BY <1>1, <1>2, <1>3, <1>4

LEMMA TypeOther ==
  ASSUME TypeInv,
         CloseRings \/ Main \/ \E v \in Workers : Kernel(v)
  PROVE  TypeInv'
<1> USE EncodeAssumption DEF TypeInv, TypeOK, StripHeld,
        workerVars, bufferVars, ringVars, fileVars
<1>1. CASE CloseRings
  <2> PICK v \in ringsOpen : WaitCompletion(v) \/ ExitRing(v)
    BY <1>1 DEF CloseRings
  <2>1. <<>> \in Seq(BOOLEAN)
    OBVIOUS
  <2>2. cq[v] # <<>> => Tail(cq[v]) \in Seq(BOOLEAN)
    BY HeadTailProperties
  <2>3. cq' \in [Workers -> Seq(BOOLEAN)]
    BY <2>1, <2>2 DEF WaitCompletion, ExitRing
  <2> QED
    BY <1>1, <2>3 DEF CloseRings, WaitCompletion, ExitRing
<1>2. CASE Main
  BY <1>2 DEF Main, MainDrain, MainClose
<1>3. CASE \E v \in Workers : Kernel(v)
  <2> PICK v \in Workers : Kernel(v)
    BY <1>3
  <2>1. PICK r \in inflight[v] : \E b \in BOOLEAN : Answer(v, r, b)
    BY DEF Kernel, KernelWrites, KernelWritesShort, KernelFails
  <2>2. \A b \in BOOLEAN : Append(cq[v], b) \in Seq(BOOLEAN)
    OBVIOUS
  <2>3. cq' \in [Workers -> Seq(BOOLEAN)]
    BY <2>1, <2>2 DEF Answer
  <2>4. inflight' \in [Workers -> SUBSET SUBSET Chunks]
    BY <2>1 DEF Answer
  <2>5. onDisk' \subseteq Chunks
    <3>1. CASE KernelWrites(v)
      BY <3>1 DEF KernelWrites
    <3>2. CASE KernelWritesShort(v)
      BY <3>2 DEF KernelWritesShort
    <3>3. CASE KernelFails(v)
      BY <3>3 DEF KernelFails
    <3> QED
      BY <3>1, <3>2, <3>3 DEF Kernel
  <2> QED
    BY <2>3, <2>4, <2>5 DEF Kernel, KernelWrites, KernelWritesShort, KernelFails
<1> QED
  BY <1>1, <1>2, <1>3

LEMMA TypeStep == TypeInv /\ [Next]_vars => TypeInv'
<1> SUFFICES ASSUME TypeInv, [Next]_vars PROVE TypeInv'
  OBVIOUS
<1>1. CASE UNCHANGED vars
  BY <1>1 DEF vars, workerVars, bufferVars, ringVars, fileVars,
              TypeInv, TypeOK, StripHeld
<1>2. ASSUME NEW w \in Workers, Work(w) PROVE TypeInv'
  BY <1>2, TypeTask, TypeWrite, TypeEnd DEF Work
<1> QED
  BY <1>1, <1>2, TypeOther DEF Next, Stopped

(* No step, with any number of threads and any image, leaves the types of  *)
(* the variables; in particular only a worker that has a strip fills one.  *)
THEOREM TypeCorrect == Spec => []TypeOK
<1>1. TypeInv => TypeOK
  BY DEF TypeInv
<1> QED
  BY <1>1, TypeInit, TypeStep, PTL DEF Spec

-----------------------------------------------------------------------------
(* Strips and the acquiring of chunks *)

(* A strip is in one place: pending, with one worker, or done.  A worker   *)
(* has chunks to acquire only before and while it acquires them.           *)
Ownership ==
  /\ \A v, w \in Workers : strip[v] = strip[w] /\ strip[v] # NoStrip => v = w
  /\ \A w \in Workers : strip[w] \notin pending
  /\ \A w \in Workers : pc[w] \notin {"fill", "acquire"} => todo[w] = {}
  /\ \A w \in Workers : pc[w] = "fill" => todo[w] = ChunksOf[strip[w]]
  /\ \A w \in Workers : strip[w] # NoStrip => todo[w] \subseteq ChunksOf[strip[w]]
  /\ \A s \in Strips \ filled :
       s \in pending \/ \E w \in Workers : strip[w] = s /\ pc[w] = "fill"

(* The strips that have acquired their part of chunk c. *)
Passed(c) ==
  { s \in Sharers(c) :
      /\ s \notin pending
      /\ \A w \in Workers : strip[w] = s => c \notin todo[w] }

AcquireCounted ==
  \A c \in Chunks : acquireCount[c] = Cardinality(Passed(c))

(* Worker v stays where it is, or goes on when it has acquired all chunks. *)
GoesOn(v) ==
  \/ strip'[v] = strip[v] /\ pc'[v] = pc[v]
  \/ /\ pc[v] \notin {"idle", "fill"}
     /\ pc[v] = "acquire" => todo[v] = {}
     /\ \/ strip'[v] = strip[v] /\ pc'[v] \notin {"idle", "fill", "acquire"}
        \/ strip'[v] = NoStrip /\ pc'[v] = "idle"

(* What every step after, or beside, the acquiring of chunks has in common.*)
Downstream ==
  /\ UNCHANGED <<pending, todo, filled, acquireCount>>
  /\ \A v \in Workers : GoesOn(v)

LEMMA StepKinds ==
  ASSUME TypeInv, Next
  PROVE  \/ \E w \in Workers, s \in Strips : TakeStrip(w, s)
         \/ \E w \in Workers : FillStrip(w) \/ Acquire(w)
         \/ Downstream
<1> USE DEF TypeInv, TypeOK, workerVars, bufferVars, ringVars, fileVars
<1>1. CASE Stopped \/ CloseRings \/ Main
  BY <1>1 DEF Stopped, vars, CloseRings, Main, MainDrain, MainClose,
              Downstream, GoesOn
<1>2. ASSUME NEW v \in Workers, Kernel(v) PROVE Downstream
  BY <1>2 DEF Kernel, KernelWrites, KernelWritesShort, KernelFails,
              Downstream, GoesOn
<1>3. ASSUME NEW w \in Workers, NothingToWrite(w) \/ BeginWrite(w)
      PROVE Downstream
  BY <1>3 DEF NothingToWrite, BeginWrite, EndTask, Goto, Downstream, GoesOn
<1>4. ASSUME NEW w \in Workers, WriteSync(w) \/ WriteShort(w) \/ WriteFails(w)
      PROVE Downstream
  BY <1>4 DEF WriteSync, WriteShort, WriteFails, Goto, Downstream, GoesOn
<1>5. ASSUME NEW w \in Workers, Submit(w) \/ Reap(w) \/ EndReap(w) \/ RingGone(w)
      PROVE Downstream
  BY <1>5 DEF Submit, Reap, EndReap, RingGone, Goto, Downstream, GoesOn
<1>6. ASSUME NEW w \in Workers,
             Count(w) \/ EndCount(w) \/ BeginFinish(w) \/ Seal(w)
      PROVE Downstream
  BY <1>6 DEF Count, EndCount, BeginFinish, Seal, EndTask, Goto,
              Downstream, GoesOn
<1> QED
  BY <1>1, <1>2, <1>3, <1>4, <1>5, <1>6 DEF Next, Work

LEMMA OwnershipInit == Init => Ownership
  BY EncodeAssumption DEF Init, Ownership

(* The types the proofs of this section use. *)
LEMMA TaskTypes ==
  ASSUME TypeInv
  PROVE  /\ pending \subseteq Strips /\ NoStrip \notin Strips
         /\ strip \in [Workers -> Strips \cup {NoStrip}]
         /\ pc \in [Workers -> {"idle", "fill", "acquire", "write", "reap",
                               "count", "finish", "drain"}]
         /\ todo \in [Workers -> SUBSET Chunks]
         /\ batch \in [Workers -> SUBSET Chunks]
         /\ acquireCount \in [Chunks -> Nat]
         /\ \A w \in Workers : strip[w] = NoStrip <=> pc[w] = "idle"
  BY EncodeAssumption DEF TypeInv, TypeOK, StripHeld

LEMMA TakeStripEffect ==
  ASSUME TypeInv, NEW w \in Workers, NEW s \in Strips, TakeStrip(w, s)
  PROVE  /\ \A v \in Workers : /\ strip'[v] = IF v = w THEN s ELSE strip[v]
                               /\ todo'[v] = IF v = w THEN ChunksOf[s] ELSE todo[v]
                               /\ pc'[v] = IF v = w THEN "fill" ELSE pc[v]
         /\ strip[w] = NoStrip /\ s \in pending /\ s # NoStrip
         /\ pending' = pending \ {s}
         /\ UNCHANGED <<filled, acquireCount>>
  BY TaskTypes DEF TakeStrip, Goto

LEMMA OwnershipStep ==
  ASSUME TypeInv, Ownership, Next
  PROVE  Ownership'
<1>1. ASSUME NEW w \in Workers, NEW s \in Strips, TakeStrip(w, s)
      PROVE Ownership'
  <2>1. \A x \in Strips \ filled' :
          x \in pending' \/ \E v \in Workers : strip'[v] = x /\ pc'[v] = "fill"
    BY <1>1, TakeStripEffect, TaskTypes DEF Ownership
  <2>2. \A v \in Workers : strip'[v] \notin pending'
    BY <1>1, TakeStripEffect DEF Ownership
  <2>3. \A u, v \in Workers : strip'[u] = strip'[v] /\ strip'[u] # NoStrip => u = v
    BY <1>1, TakeStripEffect DEF Ownership
  <2> QED
    BY <1>1, <2>1, <2>2, <2>3, TakeStripEffect DEF Ownership
<1>2. ASSUME NEW w \in Workers, FillStrip(w) PROVE Ownership'
  <2>1. \A v \in Workers : pc'[v] = IF v = w THEN "acquire" ELSE pc[v]
    BY <1>2, TaskTypes DEF FillStrip, Goto
  <2>2. UNCHANGED <<strip, todo, pending>> /\ filled' = filled \cup {strip[w]}
    BY <1>2 DEF FillStrip, workerVars
  <2>3. \A x \in Strips \ filled' :
          x \in pending' \/ \E v \in Workers : strip'[v] = x /\ pc'[v] = "fill"
    BY <2>1, <2>2 DEF Ownership
  <2> QED
    BY <2>1, <2>2, <2>3 DEF Ownership
<1>3. ASSUME NEW w \in Workers, Acquire(w) PROVE Ownership'
  BY <1>3, TaskTypes DEF Acquire, Ownership
<1>4. ASSUME Downstream PROVE Ownership'
  <2>1. \A v \in Workers : pc[v] = "fill" => pc'[v] = "fill" /\ strip'[v] = strip[v]
    BY <1>4 DEF Downstream, GoesOn
  <2>2. UNCHANGED <<pending, todo, filled>>
    BY <1>4 DEF Downstream
  <2>3. \A x \in Strips \ filled' :
          x \in pending' \/ \E v \in Workers : strip'[v] = x /\ pc'[v] = "fill"
    BY <2>1, <2>2 DEF Ownership
  <2>4. \A v \in Workers : strip'[v] \in {strip[v], NoStrip}
    BY <1>4 DEF Downstream, GoesOn
  <2>5. \A v \in Workers : pc'[v] \notin {"fill", "acquire"} => todo[v] = {}
    BY <1>4, TaskTypes DEF Downstream, GoesOn, Ownership
  <2>6. \A v \in Workers : pc'[v] = "fill" => pc[v] = "fill" /\ strip'[v] = strip[v]
    BY <1>4 DEF Downstream, GoesOn
  <2> QED
    BY <2>2, <2>3, <2>4, <2>5, <2>6, TaskTypes DEF Ownership
<1> QED
  BY <1>1, <1>2, <1>3, <1>4, StepKinds

(* No step but Acquire changes which strips have passed a chunk, *)
LEMMA PassedStep ==
  ASSUME TypeInv, Ownership, Next, NEW c \in Chunks,
         ~ \E w \in Workers : Acquire(w)
  PROVE  Passed(c)' = Passed(c) /\ acquireCount'[c] = acquireCount[c]
<1>1. ASSUME NEW w \in Workers, NEW s \in Strips, TakeStrip(w, s)
      PROVE Passed(c)' = Passed(c) /\ acquireCount'[c] = acquireCount[c]
  <2>1. \A x \in Sharers(c) : x \in Strips /\ c \in ChunksOf[x]
    BY DEF Sharers
  <2>2. ASSUME NEW x \in Sharers(c)
        PROVE (x \notin pending' /\ \A v \in Workers : strip'[v] = x => c \notin todo'[v])
              <=> (x \notin pending /\ \A v \in Workers : strip[v] = x => c \notin todo[v])
    <3>1. CASE x = s
      BY <1>1, <2>1, <3>1, TakeStripEffect
    <3>2. CASE x # s
      BY <1>1, <2>1, <3>2, TakeStripEffect, TaskTypes
    <3> QED
      BY <3>1, <3>2
  <2> QED
    BY <1>1, <2>2, TakeStripEffect DEF Passed, Sharers
<1>2. ASSUME NEW w \in Workers, FillStrip(w)
      PROVE Passed(c)' = Passed(c) /\ acquireCount'[c] = acquireCount[c]
  BY <1>2 DEF FillStrip, workerVars, Passed, Sharers
<1>3. ASSUME Downstream
      PROVE Passed(c)' = Passed(c) /\ acquireCount'[c] = acquireCount[c]
  <2>1. \A v \in Workers :
          strip'[v] = strip[v] \/ (strip'[v] = NoStrip /\ todo[v] = {})
    BY <1>3 DEF Downstream, GoesOn, Ownership
  <2>2. \A x \in Sharers(c) : x # NoStrip
    BY EncodeAssumption DEF Sharers
  <2>3. \A x \in Sharers(c) :
          (\A v \in Workers : strip'[v] = x => c \notin todo[v])
          <=> (\A v \in Workers : strip[v] = x => c \notin todo[v])
    BY <2>1, <2>2
  <2>4. UNCHANGED <<pending, todo, acquireCount>>
    BY <1>3 DEF Downstream
  <2> QED
    BY <2>3, <2>4 DEF Passed, Sharers
<1> QED
  BY <1>1, <1>2, <1>3, StepKinds

(* and Acquire adds the worker's strip to those that have passed its chunk.*)
LEMMA PassedAcquire ==
  ASSUME TypeInv, Ownership, NEW w \in Workers, Acquire(w)
  PROVE  \E d \in todo[w] :
           /\ Passed(d)' = Passed(d) \cup {strip[w]}
           /\ strip[w] \in Sharers(d) \ Passed(d)
           /\ acquireCount' = [acquireCount EXCEPT ![d] = @ + 1]
           /\ batch' = IF acquireCount[d] + 1 = ShareCount(d)
                       THEN [batch EXCEPT ![w] = @ \cup {d}] ELSE batch
           /\ \A c \in Chunks \ {d} : Passed(c)' = Passed(c)
<1>1. PICK d \in todo[w] :
        /\ todo' = [todo EXCEPT ![w] = @ \ {d}]
        /\ acquireCount' = [acquireCount EXCEPT ![d] = @ + 1]
        /\ batch' = IF acquireCount[d] + 1 = ShareCount(d)
                    THEN [batch EXCEPT ![w] = @ \cup {d}] ELSE batch
  BY DEF Acquire
<1>2. UNCHANGED <<strip, pending>> /\ strip[w] # NoStrip
  BY TaskTypes DEF Acquire
<1>3. strip[w] \in Sharers(d) /\ strip[w] \notin pending
  BY <1>1, <1>2, TaskTypes DEF Ownership, Sharers
<1>4. strip[w] \notin Passed(d)
  BY <1>1 DEF Passed
<1>5. \A v \in Workers : todo'[v] = IF v = w THEN todo[w] \ {d} ELSE todo[v]
  BY <1>1, TaskTypes
<1>6. \A v \in Workers : strip[v] = strip[w] => v = w
  BY <1>2 DEF Ownership
<1>7. ASSUME NEW x \in Sharers(d)
      PROVE  (\A v \in Workers : strip'[v] = x => d \notin todo'[v])
             <=> x = strip[w] \/ \A v \in Workers : strip[v] = x => d \notin todo[v]
  <2>1. CASE x = strip[w]
    BY <1>2, <1>5, <1>6, <2>1
  <2>2. CASE x # strip[w]
    BY <1>2, <1>5, <2>2
  <2> QED
    BY <2>1, <2>2
<1>8. Passed(d)' = Passed(d) \cup {strip[w]}
  BY <1>2, <1>3, <1>7 DEF Passed, Sharers
<1>9. ASSUME NEW c \in Chunks \ {d} PROVE Passed(c)' = Passed(c)
  <2>1. \A v \in Workers : c \in todo'[v] <=> c \in todo[v]
    BY <1>5, <1>9
  <2> QED
    BY <1>2, <2>1 DEF Passed, Sharers
<1> QED
  BY <1>1, <1>3, <1>4, <1>8, <1>9

LEMMA PassedFinite ==
  ASSUME NEW c \in Chunks
  PROVE  /\ IsFiniteSet(Sharers(c)) /\ IsFiniteSet(Passed(c))
         /\ Passed(c) \subseteq Sharers(c)
         /\ Cardinality(Passed(c)) \in Nat /\ ShareCount(c) \in Nat
         /\ Cardinality(Passed(c)) = ShareCount(c) => Passed(c) = Sharers(c)
<1>1. Sharers(c) \subseteq Strips /\ Passed(c) \subseteq Sharers(c)
  BY DEF Sharers, Passed
<1>2. IsFiniteSet(Sharers(c))
  BY <1>1, EncodeAssumption, FS_Subset
<1>3. IsFiniteSet(Passed(c))
  BY <1>1, <1>2, FS_Subset
<1>4. Cardinality(Passed(c)) = Cardinality(Sharers(c)) => Passed(c) = Sharers(c)
  BY <1>1, <1>2, FS_Subset
<1> QED
  BY <1>1, <1>2, <1>3, <1>4, FS_CardinalityType DEF ShareCount

LEMMA AcquireCountedInit == Init => AcquireCounted
<1> SUFFICES ASSUME Init, NEW c \in Chunks
             PROVE  acquireCount[c] = Cardinality(Passed(c))
  BY DEF AcquireCounted
<1>1. Passed(c) = {}
  BY DEF Init, Passed, Sharers
<1> QED
  BY <1>1, FS_EmptySet DEF Init

LEMMA AcquireCountedStep ==
  ASSUME TypeInv, Ownership, AcquireCounted, Next
  PROVE  AcquireCounted'
<1> SUFFICES ASSUME NEW c \in Chunks
             PROVE  acquireCount'[c] = Cardinality(Passed(c)')
  BY DEF AcquireCounted
<1>1. CASE \E w \in Workers : Acquire(w)
  <2>1. PICK w \in Workers : Acquire(w)
    BY <1>1
  <2>2. PICK d \in todo[w] :
          /\ Passed(d)' = Passed(d) \cup {strip[w]}
          /\ strip[w] \in Sharers(d) \ Passed(d)
          /\ acquireCount' = [acquireCount EXCEPT ![d] = @ + 1]
          /\ \A e \in Chunks \ {d} : Passed(e)' = Passed(e)
    BY <2>1, PassedAcquire
  <2>3. d \in Chunks /\ acquireCount \in [Chunks -> Nat]
    BY DEF TypeInv, TypeOK
  <2>4. CASE c = d
    <3>1. Cardinality(Passed(d) \cup {strip[w]}) = Cardinality(Passed(d)) + 1
      BY <2>2, <2>3, PassedFinite, FS_AddElement
    <3> QED
      BY <2>2, <2>3, <2>4, <3>1 DEF AcquireCounted
  <2>5. CASE c # d
    BY <2>2, <2>3, <2>5 DEF AcquireCounted
  <2> QED
    BY <2>4, <2>5
<1>2. CASE ~ \E w \in Workers : Acquire(w)
  BY <1>2, PassedStep DEF AcquireCounted
<1> QED
  BY <1>1, <1>2

-----------------------------------------------------------------------------
(* Batches: who writes a chunk, and when *)

(* Only a worker on its way from acquiring to counting has a batch; *)
BatchPlace ==
  /\ \A w \in Workers :
       batch[w] # {} => pc[w] \in {"acquire", "write", "reap", "count"}
  /\ \A w \in Workers : pc[w] \in {"write", "reap"} => batch[w] # {}

(* a chunk is in one batch at most; *)
BatchDisjoint ==
  \A v, w \in Workers : \A c \in batch[v] : c \in batch[w] => v = w

(* it gets there, and to a write, only when all its strips have passed it; *)
BatchPassed ==
  /\ \A w \in Workers : \A c \in batch[w] : Passed(c) = Sharers(c)
  /\ \A c \in Chunks : issued[c] = 1 => Passed(c) = Sharers(c)

(* and it has been handed to a write, once, when its worker is past that.  *)
BatchIssued ==
  /\ \A c \in Chunks : issued[c] \in {0, 1}
  /\ ~aborted => \A w \in Workers :
       pc[w] \in {"acquire", "write"} => \A c \in batch[w] : issued[c] = 0
  /\ \A w \in Workers :
       pc[w] \in {"reap", "count"} => \A c \in batch[w] : issued[c] = 1

Gathered == BatchPlace /\ BatchDisjoint /\ BatchPassed /\ BatchIssued

(* Worker w hands its batch to a write. *)
Issues(w) ==
  /\ pc[w] = "write" /\ ~aborted
  /\ Issue(w) /\ UNCHANGED <<batch, strip, todo, pending>>
  /\ \/ aborted' /\ pc' = pc
     \/ ~aborted' /\ \E place \in {"reap", "count"} : Goto(w, place)

(* What every other step but Acquire, BeginWrite and Count does. *)
Elsewhere ==
  /\ UNCHANGED <<batch, issued>> /\ (aborted => aborted')
  /\ \A v \in Workers :
       \/ pc'[v] = pc[v]
       \/ /\ pc'[v] \notin {"write", "reap"}
          /\ \/ pc[v] \in {"idle", "fill", "finish", "drain"}
             \/ batch[v] = {}
             \/ pc[v] = "reap" /\ pc'[v] = "count"

LEMMA BatchKinds ==
  ASSUME TypeInv, Next
  PROVE  \/ \E w \in Workers :
              Acquire(w) \/ BeginWrite(w) \/ Issues(w) \/ Count(w)
         \/ Elsewhere
<1> USE TaskTypes DEF workerVars, bufferVars, ringVars, fileVars, Elsewhere
<1>1. CASE Stopped \/ CloseRings \/ Main
  BY <1>1 DEF Stopped, vars, CloseRings, Main, MainDrain, MainClose
<1>2. ASSUME NEW v \in Workers, Kernel(v) PROVE Elsewhere
  <2>1. CASE KernelWrites(v)
    BY <2>1 DEF KernelWrites
  <2>2. CASE KernelWritesShort(v)
    BY <2>2 DEF KernelWritesShort
  <2>3. CASE KernelFails(v)
    BY <2>3 DEF KernelFails
  <2> QED
    BY <1>2, <2>1, <2>2, <2>3 DEF Kernel
<1>3. ASSUME NEW w \in Workers, \E s \in Strips : TakeStrip(w, s)
      PROVE Elsewhere
  BY <1>3 DEF TakeStrip, Goto
<1>4. ASSUME NEW w \in Workers, FillStrip(w) \/ NothingToWrite(w)
      PROVE Elsewhere
  BY <1>4 DEF FillStrip, NothingToWrite, EndTask, Goto
<1>5. ASSUME NEW w \in Workers, ~aborted, WriteSync(w) \/ WriteShort(w) \/ Submit(w)
      PROVE Issues(w)
  BY <1>5 DEF WriteSync, WriteShort, Submit, Issues
<1>6. ASSUME NEW w \in Workers, ~aborted, WriteFails(w)
      PROVE Issues(w)
  BY <1>6 DEF WriteFails, Issues
<1>7. ASSUME NEW w \in Workers, Reap(w) \/ EndReap(w) \/ RingGone(w)
      PROVE Elsewhere
  <2>1. CASE Reap(w)
    BY <2>1 DEF Reap
  <2>2. CASE EndReap(w)
    BY <2>2 DEF EndReap, Goto
  <2>3. CASE RingGone(w)
    BY <2>3 DEF RingGone
  <2> QED
    BY <1>7, <2>1, <2>2, <2>3
<1>8. ASSUME NEW w \in Workers, EndCount(w) \/ BeginFinish(w) \/ Seal(w)
      PROVE Elsewhere
  BY <1>8 DEF EndCount, BeginFinish, Seal, EndTask, Goto
<1> QED
  BY <1>1, <1>2, <1>3, <1>4, <1>5, <1>6, <1>7, <1>8 DEF Next, Work

LEMMA GatheredInit == Init => Gathered
  BY DEF Init, Gathered, BatchPlace, BatchDisjoint, BatchPassed, BatchIssued

LEMMA GatheredAcquire ==
  ASSUME TypeInv, Ownership, AcquireCounted, Gathered,
         NEW w \in Workers, Acquire(w), ~aborted
  PROVE  Gathered'
<1>1. PICK d \in todo[w] :
        /\ Passed(d)' = Passed(d) \cup {strip[w]}
        /\ strip[w] \in Sharers(d) \ Passed(d)
        /\ acquireCount' = [acquireCount EXCEPT ![d] = @ + 1]
        /\ batch' = IF acquireCount[d] + 1 = ShareCount(d)
                    THEN [batch EXCEPT ![w] = @ \cup {d}] ELSE batch
        /\ \A c \in Chunks \ {d} : Passed(c)' = Passed(c)
  BY PassedAcquire
<1>2. d \in Chunks /\ \A v \in Workers : batch[v] \subseteq Chunks
  BY TaskTypes
<1>3. UNCHANGED <<pc, issued, aborted>> /\ pc[w] = "acquire"
  BY DEF Acquire
<1>4. Passed(d) # Sharers(d)
  BY <1>1
<1>5. issued[d] = 0 /\ \A v \in Workers : d \notin batch[v]
  BY <1>2, <1>4 DEF Gathered, BatchPassed, BatchIssued
<1>6. \A c \in Chunks : Sharers(c)' = Sharers(c)
  BY DEF Sharers
<1>7. ASSUME NEW c \in Chunks, Passed(c) = Sharers(c)
      PROVE  Passed(c)' = Sharers(c)
  BY <1>1, <1>4, <1>7
<1>8. CASE acquireCount[d] + 1 = ShareCount(d)
  <2>1. Passed(d)' = Sharers(d)
    <3>1. Cardinality(Passed(d) \cup {strip[w]}) = Cardinality(Passed(d)) + 1
      BY <1>1, <1>2, PassedFinite, FS_AddElement
    <3>2. Cardinality(Passed(d) \cup {strip[w]}) = Cardinality(Sharers(d))
      BY <1>2, <1>8, <3>1 DEF AcquireCounted, ShareCount
    <3>3. Passed(d) \cup {strip[w]} \subseteq Sharers(d) /\ IsFiniteSet(Sharers(d))
      BY <1>1, <1>2, PassedFinite
    <3> QED
      BY <1>1, <3>2, <3>3, FS_Subset
  <2>2. \A v \in Workers :
          batch'[v] = IF v = w THEN batch[v] \cup {d} ELSE batch[v]
    BY <1>1, <1>8, TaskTypes
  <2>3. BatchPlace'
    BY <1>3, <2>2 DEF Gathered, BatchPlace
  <2>4. BatchDisjoint'
    <3>1. ASSUME NEW u \in Workers, NEW v \in Workers, NEW c \in batch'[u],
                 c \in batch'[v]
          PROVE  u = v
      BY <1>5, <2>2, <3>1 DEF Gathered, BatchDisjoint
    <3> QED
      BY <3>1 DEF BatchDisjoint
  <2>5. BatchPassed'
    <3>1. ASSUME NEW v \in Workers, NEW c \in batch'[v]
          PROVE  Passed(c)' = Sharers(c)'
      <4>1. CASE c = d
        BY <1>2, <1>6, <2>1, <4>1
      <4>2. CASE c # d
        <5>1. c \in batch[v] /\ c \in Chunks
          BY <1>2, <2>2, <4>2
        <5> QED
          BY <1>6, <1>7, <5>1 DEF Gathered, BatchPassed
      <4> QED
        BY <4>1, <4>2
    <3>2. ASSUME NEW c \in Chunks, issued'[c] = 1
          PROVE  Passed(c)' = Sharers(c)'
      BY <1>3, <1>6, <1>7, <3>2 DEF Gathered, BatchPassed
    <3> QED
      BY <3>1, <3>2 DEF BatchPassed
  <2>6. BatchIssued'
    <3>1. ASSUME NEW v \in Workers, pc[v] \in {"acquire", "write"},
                 NEW c \in batch'[v]
          PROVE  issued[c] = 0
      <4>1. c \in batch[v] => issued[c] = 0
        BY <3>1 DEF Gathered, BatchIssued
      <4> QED
        BY <1>5, <2>2, <4>1
    <3>2. ASSUME NEW v \in Workers, pc[v] \in {"reap", "count"},
                 NEW c \in batch'[v]
          PROVE  issued[c] = 1
      BY <1>3, <2>2, <3>2 DEF Gathered, BatchIssued
    <3> QED
      BY <1>3, <3>1, <3>2 DEF Gathered, BatchIssued
  <2> QED
    BY <2>3, <2>4, <2>5, <2>6 DEF Gathered
<1>9. CASE acquireCount[d] + 1 # ShareCount(d)
  <2>1. batch' = batch
    BY <1>1, <1>9
  <2>2. BatchPassed'
    <3>1. ASSUME NEW c \in Chunks,
                 issued[c] = 1 \/ \E v \in Workers : c \in batch[v]
          PROVE  Passed(c)' = Sharers(c)'
      BY <1>6, <1>7, <3>1 DEF Gathered, BatchPassed
    <3> QED
      BY <1>2, <1>3, <2>1, <3>1 DEF BatchPassed
  <2> QED
    BY <1>3, <2>1, <2>2 DEF Gathered, BatchPlace, BatchDisjoint, BatchIssued
<1> QED
  BY <1>8, <1>9

(* BatchPassed survives a step that moves no strip past a chunk, if what   *)
(* is new in a batch, or handed to a write, was in a batch before.         *)
LEMMA BatchPassedKept ==
  ASSUME TypeInv, BatchPassed,
         \A c \in Chunks : Passed(c)' = Passed(c),
         \A w \in Workers : batch'[w] \subseteq batch[w],
         \A c \in Chunks : issued'[c] = 1 =>
            issued[c] = 1 \/ \E w \in Workers : c \in batch[w]
  PROVE  BatchPassed'
<1>1. ASSUME NEW c \in Chunks,
             issued[c] = 1 \/ \E v \in Workers : c \in batch[v]
      PROVE  Passed(c)' = Sharers(c)'
  <2>1. Sharers(c)' = Sharers(c)
    BY DEF Sharers
  <2> QED
    BY <1>1, <2>1 DEF BatchPassed
<1>2. \A v \in Workers : batch[v] \subseteq Chunks
  BY TaskTypes
<1> QED
  BY <1>1, <1>2 DEF BatchPassed

LEMMA GatheredIssue ==
  ASSUME TypeInv, Gathered, NEW w \in Workers, Issues(w),
         \A c \in Chunks : Passed(c)' = Passed(c)
  PROVE  Gathered'
<1>1. /\ batch' = batch /\ pc[w] = "write" /\ ~aborted
      /\ \A c \in Chunks :
           issued'[c] = IF c \in batch[w] THEN issued[c] + 1 ELSE issued[c]
  BY DEF Issues, Issue
<1>2. \A v \in Workers : batch[v] \subseteq Chunks
  BY TaskTypes
<1>3. \A c \in batch[w] : issued'[c] = 1
  BY <1>1, <1>2 DEF Gathered, BatchIssued
<1>4. \A v \in Workers \ {w} : \A c \in batch[v] : issued'[c] = issued[c]
  BY <1>1, <1>2 DEF Gathered, BatchDisjoint
<1>5. \A v \in Workers \ {w} : pc'[v] = pc[v]
  BY TaskTypes DEF Issues, Goto
<1>6. IF aborted' THEN pc'[w] = "write" ELSE pc'[w] \in {"reap", "count"}
  BY <1>1, TaskTypes DEF Issues, Goto
<1>7. BatchPlace'
  BY <1>1, <1>5, <1>6 DEF Gathered, BatchPlace
<1>8. BatchIssued'
  BY <1>1, <1>2, <1>3, <1>4, <1>5, <1>6 DEF Gathered, BatchIssued
<1>9. BatchPassed'
  BY <1>1, BatchPassedKept DEF Gathered
<1> QED
  BY <1>1, <1>7, <1>8, <1>9 DEF Gathered, BatchDisjoint

LEMMA GatheredStep ==
  ASSUME TypeInv, Ownership, AcquireCounted, Gathered, Next, ~aborted
  PROVE  Gathered'
<1>1. CASE \E w \in Workers : Acquire(w)
  BY <1>1, GatheredAcquire
<1>2. CASE ~ \E w \in Workers : Acquire(w)
  <2>1. \A c \in Chunks : Passed(c)' = Passed(c)
    BY <1>2, PassedStep
  <2>2. ASSUME NEW w \in Workers, BeginWrite(w) PROVE Gathered'
    <3>1. /\ UNCHANGED <<batch, issued, aborted>> /\ pc[w] = "acquire"
          /\ batch[w] # {}
          /\ \A v \in Workers : pc'[v] = IF v = w THEN "write" ELSE pc[v]
      BY <2>2, TaskTypes DEF BeginWrite, Goto
    <3>2. BatchPlace' /\ BatchIssued'
      BY <3>1 DEF Gathered, BatchPlace, BatchIssued
    <3> QED
      BY <2>1, <3>1, <3>2, BatchPassedKept DEF Gathered, BatchDisjoint
  <2>3. ASSUME NEW w \in Workers, Issues(w) PROVE Gathered'
    BY <2>1, <2>3, GatheredIssue
  <2>4. ASSUME NEW w \in Workers, Count(w) PROVE Gathered'
    <3>1. /\ UNCHANGED <<pc, issued, aborted>> /\ pc[w] = "count"
          /\ \A v \in Workers : batch'[v] \subseteq batch[v]
          /\ \A v \in Workers \ {w} : batch'[v] = batch[v]
      BY <2>4, TaskTypes DEF Count
    <3>2. BatchPlace' /\ BatchIssued' /\ BatchDisjoint'
      BY <3>1 DEF Gathered, BatchPlace, BatchIssued, BatchDisjoint
    <3> QED
      BY <2>1, <3>1, <3>2, BatchPassedKept DEF Gathered
  <2>5. ASSUME Elsewhere PROVE Gathered'
    <3>1. UNCHANGED <<batch, issued>> /\ (aborted => aborted')
      BY <2>5 DEF Elsewhere
    <3>2. \A v \in Workers :
            \/ pc'[v] = pc[v]
            \/ batch[v] = {} /\ pc'[v] \notin {"write", "reap"}
            \/ pc[v] = "reap" /\ pc'[v] = "count"
      BY <2>5 DEF Elsewhere, Gathered, BatchPlace
    <3>3. BatchPlace' /\ BatchIssued'
      BY <3>1, <3>2 DEF Gathered, BatchPlace, BatchIssued
    <3> QED
      BY <2>1, <3>1, <3>3, BatchPassedKept DEF Gathered, BatchDisjoint
  <2> QED
    BY <1>2, <2>2, <2>3, <2>4, <2>5, BatchKinds
<1> QED
  BY <1>1, <1>2

WriteInv == TypeInv /\ Ownership /\ AcquireCounted /\ Gathered

LEMMA WriteInit == Init => WriteInv
  BY TypeInit, OwnershipInit, AcquireCountedInit, GatheredInit DEF WriteInv

(* A program that has aborted takes no more steps. *)
LEMMA AliveOrStill == [Next]_vars => (Next /\ ~aborted) \/ UNCHANGED vars
  BY DEF Next, Stopped

LEMMA WriteStep == WriteInv /\ [Next]_vars => WriteInv'
<1>1. ASSUME WriteInv, Next, ~aborted PROVE WriteInv'
  BY <1>1, TypeStep, OwnershipStep, AcquireCountedStep, GatheredStep DEF WriteInv
<1>2. ASSUME WriteInv, UNCHANGED vars PROVE WriteInv'
  <2> USE <1>2 DEF WriteInv, vars, workerVars, bufferVars, ringVars, fileVars
  <2>1. TypeInv'
    BY TypeStep
  <2>2. Ownership'
    BY DEF Ownership
  <2>3. \A c \in Chunks : Passed(c)' = Passed(c) /\ Sharers(c)' = Sharers(c)
    BY DEF Passed, Sharers
  <2>4. AcquireCounted'
    BY <2>3 DEF AcquireCounted
  <2>5. BatchPassed'
    BY <2>3, BatchPassedKept DEF Gathered
  <2>6. Gathered'
    BY <2>5 DEF Gathered, BatchPlace, BatchDisjoint, BatchIssued
  <2> QED
    BY <2>1, <2>2, <2>4, <2>6
<1> QED
  BY <1>1, <1>2, AliveOrStill

(* Whatever strips share whatever chunks, and in whatever order any number *)
(* of threads acquire them, acquire() lets exactly one thread write a      *)
(* chunk: none is ever handed to a write twice.                            *)
THEOREM WrittenOnce == Spec => []WriteOnce
<1>1. WriteInv => WriteOnce
  BY DEF WriteInv, Gathered, BatchIssued, WriteOnce
<1> QED
  BY <1>1, WriteInit, WriteStep, PTL DEF Spec

(* A strip that has passed a chunk has filled its part of it. *)
LEMMA PassedFilled ==
  ASSUME WriteInv, NEW c \in Chunks, Passed(c) = Sharers(c)
  PROVE  Sharers(c) \subseteq filled
<1> SUFFICES ASSUME NEW s \in Sharers(c), s \notin filled PROVE FALSE
  OBVIOUS
<1>1. s \in Passed(c)
  OBVIOUS
<1>2. s \in Strips /\ c \in ChunksOf[s]
  BY DEF Sharers
<1>3. PICK w \in Workers : strip[w] = s /\ pc[w] = "fill"
  BY <1>1, <1>2 DEF WriteInv, Ownership, Passed
<1>4. c \in todo[w]
  BY <1>2, <1>3 DEF WriteInv, Ownership
<1> QED
  BY <1>1, <1>3, <1>4 DEF Passed

LEMMA NotTorn == WriteInv => NoTornChunk
<1> SUFFICES ASSUME WriteInv, NEW c \in Chunks, issued[c] > 0
             PROVE  Sharers(c) \subseteq filled
  BY DEF NoTornChunk
<1>1. Passed(c) = Sharers(c)
  BY DEF WriteInv, Gathered, BatchIssued, BatchPassed
<1> QED
  BY <1>1, PassedFilled

(* The thread that writes a chunk is the last of those that share it: all  *)
(* of them have filled their parts, and none will touch the buffer again.  *)
THEOREM NeverTorn == Spec => []NoTornChunk
  BY NotTorn, WriteInit, WriteStep, PTL DEF Spec

-----------------------------------------------------------------------------
(* The counting of the writes *)

(* The values the workers' last increments returned are their own: no two  *)
(* workers hold the same one, and the one who holds MaxPixelWrites is the  *)
(* only one to finish the file.                                            *)
Counting ==
  /\ \A w \in Workers : writes[w] <= numPixelWrites
  /\ \A v, w \in Workers : v # w /\ writes[v] = writes[w] => writes[v] = 0
  /\ \A w \in Workers :
       pc[w] \in {"finish", "drain"} => writes[w] = MaxPixelWrites
  /\ sealed => numPixelWrites >= MaxPixelWrites
  /\ sealed => \A w \in Workers :
       writes[w] = MaxPixelWrites => pc[w] \in {"idle", "fill", "acquire"}

LEMMA CountTypes ==
  ASSUME TypeInv
  PROVE  /\ writes \in [Workers -> Nat] /\ numPixelWrites \in Nat
         /\ pc \in [Workers -> {"idle", "fill", "acquire", "write", "reap",
                               "count", "finish", "drain"}]
         /\ MaxPixelWrites \in Nat /\ MaxPixelWrites > 0
  BY EncodeAssumption DEF TypeInv, TypeOK

(* A worker moves on to a place behind which nothing is counted. *)
Passes(v) ==
  \/ pc'[v] = pc[v]
  \/ pc'[v] \in {"idle", "fill", "acquire"}
  \/ pc[v] \in {"write", "reap"} /\ pc'[v] \in {"reap", "count"}

(* What the steps that neither count nor finish have in common. *)
Uncounted ==
  /\ UNCHANGED <<writes, numPixelWrites, sealed>>
  /\ \A v \in Workers : Passes(v)

LEMMA CountKinds ==
  ASSUME TypeInv, Next
  PROVE  \/ \E w \in Workers : \/ BeginWrite(w) \/ Count(w) \/ EndCount(w)
                              \/ BeginFinish(w) \/ Seal(w)
         \/ Uncounted
<1> USE CountTypes DEF workerVars, bufferVars, ringVars, fileVars, Uncounted,
        Passes
<1>1. CASE Stopped \/ CloseRings
  BY <1>1 DEF Stopped, vars, CloseRings
<1>2. CASE Main
  <2>1. CASE MainDrain
    BY <2>1 DEF MainDrain
  <2>2. CASE MainClose
    BY <2>2 DEF MainClose
  <2> QED
    BY <1>2, <2>1, <2>2 DEF Main
<1>3. ASSUME NEW v \in Workers, Kernel(v) PROVE Uncounted
  <2>1. CASE KernelWrites(v)
    BY <2>1 DEF KernelWrites
  <2>2. CASE KernelWritesShort(v)
    BY <2>2 DEF KernelWritesShort
  <2>3. CASE KernelFails(v)
    BY <2>3 DEF KernelFails
  <2> QED
    BY <1>3, <2>1, <2>2, <2>3 DEF Kernel
<1>4. ASSUME NEW w \in Workers, \E s \in Strips : TakeStrip(w, s)
      PROVE Uncounted
  BY <1>4 DEF TakeStrip, Goto
<1>5. ASSUME NEW w \in Workers, FillStrip(w) \/ NothingToWrite(w)
      PROVE Uncounted
  BY <1>5 DEF FillStrip, NothingToWrite, EndTask, Goto
<1>6. ASSUME NEW w \in Workers, Acquire(w)
      PROVE Uncounted
  BY <1>6 DEF Acquire
<1>7. ASSUME NEW w \in Workers, WriteSync(w) \/ WriteShort(w) \/ Submit(w)
      PROVE Uncounted
  BY <1>7 DEF WriteSync, WriteShort, Submit, Goto
<1>8. ASSUME NEW w \in Workers, WriteFails(w) \/ Reap(w) \/ RingGone(w)
      PROVE Uncounted
  BY <1>8 DEF WriteFails, Reap, RingGone
<1>9. ASSUME NEW w \in Workers, EndReap(w)
      PROVE Uncounted
  BY <1>9 DEF EndReap, Goto
<1> QED
  BY <1>1, <1>2, <1>3, <1>4, <1>5, <1>6, <1>7, <1>8, <1>9 DEF Next, Work

LEMMA CountingInit == Init => Counting
  BY CountTypes, TypeInit DEF Init, Counting

LEMMA CountingStep ==
  ASSUME TypeInv, Counting, Next
  PROVE  Counting'
<1>1. CASE Uncounted
  BY <1>1, CountTypes DEF Counting, Uncounted, Passes
<1>2. ASSUME NEW w \in Workers, BeginWrite(w) PROVE Counting'
  <2>1. /\ \A v \in Workers : writes'[v] = IF v = w THEN 0 ELSE writes[v]
        /\ \A v \in Workers : pc'[v] = IF v = w THEN "write" ELSE pc[v]
        /\ UNCHANGED <<numPixelWrites, sealed>>
    BY <1>2, CountTypes DEF BeginWrite, Goto, fileVars
  <2> QED
    BY <2>1, CountTypes DEF Counting
<1>3. ASSUME NEW w \in Workers, Count(w) PROVE Counting'
  <2>1. /\ \A v \in Workers :
             writes'[v] = IF v = w THEN numPixelWrites + 1 ELSE writes[v]
        /\ numPixelWrites' = numPixelWrites + 1
        /\ pc[w] = "count" /\ UNCHANGED <<pc, sealed>>
    BY <1>3, CountTypes DEF Count, fileVars
  <2> QED
    BY <2>1, CountTypes DEF Counting
<1>4. ASSUME NEW w \in Workers, EndCount(w) PROVE Counting'
  <2>1. /\ \A v \in Workers \ {w} : pc'[v] = pc[v]
        /\ pc[w] = "count"
        /\ IF writes[w] = MaxPixelWrites THEN pc'[w] = "finish" ELSE pc'[w] = "idle"
        /\ UNCHANGED <<writes, numPixelWrites, sealed>>
    BY <1>4, CountTypes DEF EndCount, EndTask, Goto, fileVars
  <2> QED
    BY <2>1, CountTypes DEF Counting
<1>5. ASSUME NEW w \in Workers, BeginFinish(w) PROVE Counting'
  <2>1. /\ \A v \in Workers \ {w} : pc'[v] = pc[v]
        /\ pc[w] = "finish"
        /\ IF sealed THEN pc'[w] = "idle" ELSE pc'[w] = "drain"
        /\ UNCHANGED <<writes, numPixelWrites, sealed>>
    BY <1>5, CountTypes DEF BeginFinish, EndTask, Goto, fileVars
  <2> QED
    BY <2>1, CountTypes DEF Counting
<1>6. ASSUME NEW w \in Workers, Seal(w) PROVE Counting'
  <2>1. /\ \A v \in Workers \ {w} : pc'[v] = pc[v]
        /\ pc[w] = "drain" /\ pc'[w] = "idle"
        /\ UNCHANGED <<writes, numPixelWrites>>
    BY <1>6, CountTypes DEF Seal, EndTask, Goto
  <2>2. writes[w] = MaxPixelWrites /\ \A v \in Workers \ {w} : writes[v] # MaxPixelWrites
    BY <2>1, CountTypes DEF Counting
  <2> QED
    BY <2>1, <2>2, CountTypes DEF Counting
<1> QED
  BY <1>1, <1>2, <1>3, <1>4, <1>5, <1>6, CountKinds

(* Whatever the image, the disk and the number of threads, and however the *)
(* increments of numPixelWrites_ interleave, at most one worker finishes   *)
(* the file, and once it is finished nobody starts to do so again.         *)
THEOREM FinishedOnce == Spec => []FinishOnce
<1>1. TypeInv /\ Counting => FinishOnce
  BY CountTypes DEF Counting, FinishOnce
<1>2. Init => TypeInv /\ Counting
  BY TypeInit, CountingInit
<1>3. TypeInv /\ Counting /\ [Next]_vars => (TypeInv /\ Counting)'
  <2>1. ASSUME Counting, UNCHANGED vars PROVE Counting'
    BY <2>1 DEF Counting, vars, workerVars, fileVars
  <2> QED
    BY <2>1, TypeStep, CountingStep
<1> QED
  BY <1>1, <1>2, <1>3, PTL DEF Spec

-----------------------------------------------------------------------------
(* A batch is one run of chunks, so that a single vectored write at the    *)
(* offset of its first chunk puts all of them where they belong.           *)


(* Worker v is where it was if it can be at its write, or shortly before.  *)
Calm ==
  \A v \in Workers :
    pc'[v] \in {"acquire", "write"} =>
      /\ pc'[v] = pc[v] /\ strip'[v] = strip[v]
      /\ todo'[v] = todo[v] /\ batch'[v] = batch[v]

LEMMA VectorKinds ==
  ASSUME TypeInv, Next
  PROVE  Calm \/ \E w \in Workers : FillStrip(w) \/ Acquire(w) \/ BeginWrite(w)
<1>1. ASSUME NEW w \in Workers, NEW s \in Strips, TakeStrip(w, s)
      PROVE  Calm
  <2>1. batch' = batch
    BY <1>1 DEF TakeStrip
  <2>2. \A v \in Workers : pc'[v] \in {"acquire", "write"} => v # w
    BY <1>1, TakeStripEffect
  <2> QED
    BY <1>1, <2>1, <2>2, TakeStripEffect DEF Calm
<1>2. CASE Downstream
  <2>1. ASSUME NEW w \in Workers, Issues(w)
        PROVE  Calm
    <3>1. \A v \in Workers : pc'[v] \in {"acquire", "write"} => pc'[v] = pc[v]
      BY <2>1, TaskTypes DEF Issues, Goto
    <3> QED
      BY <2>1, <3>1 DEF Calm, Issues, Issue
  <2>2. ASSUME NEW w \in Workers, Count(w)
        PROVE  Calm
    <3>1. pc[w] = "count" /\ UNCHANGED <<pc, strip, todo>>
      BY <2>2 DEF Count
    <3>2. \A v \in Workers \ {w} : batch'[v] = batch[v]
      BY <2>2, TaskTypes DEF Count
    <3> QED
      BY <3>1, <3>2 DEF Calm
  <2>3. CASE Elsewhere
    <3>1. UNCHANGED <<batch, todo>>
      BY <1>2, <2>3 DEF Elsewhere, Downstream
    <3>2. ASSUME NEW v \in Workers, pc'[v] \in {"acquire", "write"}
          PROVE  pc'[v] = pc[v] /\ strip'[v] = strip[v]
      BY <1>2, <2>3, <3>2 DEF Elsewhere, Downstream, GoesOn
    <3> QED
      BY <3>1, <3>2 DEF Calm
  <2> QED
    BY <2>1, <2>2, <2>3, BatchKinds
<1> QED
  BY <1>1, <1>2, StepKinds

(* A worker gets all the chunks that no other strip has a part of. *)
OwnInBatch ==
  \A w \in Workers : pc[w] \in {"acquire", "write"} =>
    /\ batch[w] \subseteq ChunksOf[strip[w]]
    /\ \A c \in ChunksOf[strip[w]] \ todo[w] :
         Sharers(c) = {strip[w]} => c \in batch[w]

LEMMA OwnInit == Init => OwnInBatch
  BY DEF Init, OwnInBatch

LEMMA OwnAcquire ==
  ASSUME WriteInv, OwnInBatch, NEW w \in Workers, Acquire(w)
  PROVE  OwnInBatch'
<1> USE TaskTypes DEF WriteInv
<1>1. /\ pc[w] = "acquire" /\ UNCHANGED <<pc, strip>>
      /\ strip[w] \in Strips /\ todo[w] \subseteq ChunksOf[strip[w]]
  BY DEF Acquire, Ownership
<1>2. PICK d \in todo[w] :
        /\ todo' = [todo EXCEPT ![w] = @ \ {d}]
        /\ batch' = IF acquireCount[d] + 1 = ShareCount(d)
                    THEN [batch EXCEPT ![w] = @ \cup {d}] ELSE batch
  BY DEF Acquire
<1>3. /\ \A v \in Workers \ {w} : todo'[v] = todo[v] /\ batch'[v] = batch[v]
      /\ todo'[w] = todo[w] \ {d}
      /\ batch[w] \subseteq batch'[w] /\ batch'[w] \subseteq batch[w] \cup {d}
  BY <1>2
<1>4. ASSUME Sharers(d) = {strip[w]}
      PROVE  d \in batch'[w]
  <2>1. Passed(d) = {}
    BY <1>4, <1>2 DEF Passed
  <2>2. acquireCount[d] = 0
    BY <1>2, <2>1, FS_EmptySet DEF AcquireCounted
  <2>3. ShareCount(d) = 1
    BY <1>4, FS_Singleton DEF ShareCount
  <2>4. batch' = [batch EXCEPT ![w] = @ \cup {d}]
    BY <1>2, <2>2, <2>3
  <2> QED
    BY <2>4
<1>5. \A c : Sharers(c)' = Sharers(c)
  BY DEF Sharers
<1>6. ASSUME NEW v \in Workers \ {w}, pc'[v] \in {"acquire", "write"}
      PROVE  /\ batch'[v] \subseteq ChunksOf[strip'[v]]
             /\ \A c \in ChunksOf[strip'[v]] \ todo'[v] :
                  Sharers(c) = {strip'[v]} => c \in batch'[v]
  BY <1>1, <1>3, <1>6 DEF OwnInBatch
<1>7. /\ batch'[w] \subseteq ChunksOf[strip'[w]]
      /\ \A c \in ChunksOf[strip'[w]] \ todo'[w] :
           Sharers(c) = {strip'[w]} => c \in batch'[w]
  BY <1>1, <1>2, <1>3, <1>4 DEF OwnInBatch
<1> QED
  BY <1>5, <1>6, <1>7 DEF OwnInBatch

LEMMA OwnStep == WriteInv /\ OwnInBatch /\ [Next]_vars => OwnInBatch'
<1> SUFFICES ASSUME WriteInv, OwnInBatch, [Next]_vars PROVE OwnInBatch'
  OBVIOUS
<1> USE TaskTypes DEF WriteInv
<1>0. \A c : Sharers(c)' = Sharers(c)
  BY DEF Sharers
<1>1. CASE Calm
  BY <1>0, <1>1 DEF Calm, OwnInBatch
<1>2. ASSUME NEW w \in Workers, FillStrip(w)
      PROVE  OwnInBatch'
  <2>1. /\ pc[w] = "fill" /\ UNCHANGED <<strip, todo, batch>>
        /\ \A v \in Workers \ {w} : pc'[v] = pc[v]
    BY <1>2 DEF FillStrip, Goto, workerVars
  <2>2. batch[w] = {} /\ todo[w] = ChunksOf[strip[w]]
    BY <2>1 DEF Gathered, BatchPlace, Ownership
  <2> QED
    BY <1>0, <2>1, <2>2 DEF OwnInBatch
<1>3. ASSUME NEW w \in Workers, BeginWrite(w)
      PROVE  OwnInBatch'
  <2>1. /\ pc[w] = "acquire" /\ UNCHANGED <<strip, todo, batch>>
        /\ \A v \in Workers \ {w} : pc'[v] = pc[v]
    BY <1>3 DEF BeginWrite, Goto
  <2> QED
    BY <1>0, <2>1 DEF OwnInBatch
<1>4. CASE UNCHANGED vars
  BY <1>0, <1>4 DEF OwnInBatch, vars, workerVars
<1> QED
  BY <1>1, <1>2, <1>3, <1>4, OwnAcquire, VectorKinds

LEMMA BatchRuns == Runs /\ WriteInv /\ OwnInBatch => OneVector
<1> SUFFICES ASSUME Runs, WriteInv, OwnInBatch,
                    NEW w \in Workers, pc[w] = "write",
                    NEW c \in batch[w], NEW d \in batch[w],
                    NEW e \in Chunks, c < e /\ e < d
             PROVE  e \in batch[w]
  BY DEF OneVector
<1>1. strip[w] \in Strips /\ todo[w] = {}
  BY TaskTypes DEF WriteInv, Ownership
<1>2. c \in ChunksOf[strip[w]] /\ d \in ChunksOf[strip[w]]
  BY DEF OwnInBatch
<1>3. e \in ChunksOf[strip[w]] /\ Sharers(e) = {strip[w]}
  BY <1>1, <1>2 DEF Runs
<1> QED
  BY <1>1, <1>3 DEF OwnInBatch

(* For every such plan of strips and chunks, and however the workers' calls*)
(* of acquire() interleave, what a worker writes in one call has no gap.   *)
THEOREM WrittenAsOne ==
  ASSUME Runs
  PROVE  Spec => []OneVector
<1>1. WriteInv /\ OwnInBatch => OneVector
  BY BatchRuns
<1> QED
  BY <1>1, WriteInit, WriteStep, OwnInit, OwnStep, PTL DEF Spec

-----------------------------------------------------------------------------
(***************************************************************************)
(* What holds when the writes are counted right, that is when              *)
(* maxPixelWrites_ is the number of chunks (which it is for the images of  *)
(* ChunkPlan!UniqueChunksCounted): the order of data, directory and close. *)
(***************************************************************************)

(* Counted chunks *)

(* The chunks that have been written, or submitted, and counted. *)
Settled ==
  { c \in Chunks : issued[c] = 1 /\ \A w \in Workers : c \notin batch[w] }

AllCounted == numPixelWrites = Cardinality(Settled)

(* Once the main thread is past its wait there is nothing left to do. *)
MainLast ==
  main # "wait" => pending = {} /\ \A w \in Workers : pc[w] = "idle"

OrderInv == WriteInv /\ Counting /\ AllCounted /\ MainLast

LEMMA SettledFinite ==
  /\ Settled \subseteq Chunks /\ IsFiniteSet(Settled)
  /\ Cardinality(Settled) \in Nat
  /\ Cardinality(Settled) <= Cardinality(Chunks)
  /\ Cardinality(Settled) = Cardinality(Chunks) => Settled = Chunks
<1>1. Settled \subseteq Chunks /\ IsFiniteSet(Chunks)
  BY EncodeAssumption DEF Settled
<1> QED
  BY <1>1, FS_Subset, FS_CardinalityType

(* Only Count changes the number of writes. *)
LEMMA CounterKept ==
  ASSUME TypeInv, Next, ~ \E w \in Workers : Count(w)
  PROVE  numPixelWrites' = numPixelWrites
<1>1. ASSUME NEW w \in Workers, BeginWrite(w) \/ EndCount(w)
      PROVE  numPixelWrites' = numPixelWrites
  BY <1>1 DEF BeginWrite, EndCount
<1>2. ASSUME NEW w \in Workers, BeginFinish(w) \/ Seal(w)
      PROVE  numPixelWrites' = numPixelWrites
  BY <1>2 DEF BeginFinish, Seal
<1> QED
  BY <1>1, <1>2, CountKinds DEF Uncounted

(* A step settles one chunk and counts it, or does neither. *)
LEMMA SettledStep ==
  ASSUME WriteInv, Next, ~aborted
  PROVE  \/ Settled' = Settled /\ numPixelWrites' = numPixelWrites
         \/ \E c \in Chunks \ Settled :
              /\ Settled' = Settled \cup {c}
              /\ numPixelWrites' = numPixelWrites + 1
<1> USE DEF WriteInv
<1>1. \A w \in Workers : batch[w] \subseteq Chunks
  BY TaskTypes
<1>2. ASSUME NEW w \in Workers, Count(w)
      PROVE  \E c \in Chunks \ Settled :
               /\ Settled' = Settled \cup {c}
               /\ numPixelWrites' = numPixelWrites + 1
  <2>1. PICK c \in batch[w] :
          /\ batch' = [batch EXCEPT ![w] = @ \ {c}]
          /\ numPixelWrites' = numPixelWrites + 1
          /\ UNCHANGED issued /\ pc[w] = "count"
    BY <1>2 DEF Count
  <2>2. \A v \in Workers :
          batch'[v] = IF v = w THEN batch[v] \ {c} ELSE batch[v]
    BY <2>1, TaskTypes
  <2>3. issued[c] = 1 /\ c \in Chunks
    BY <1>1, <2>1 DEF Gathered, BatchIssued
  <2>4. \A v \in Workers \ {w} : c \notin batch[v]
    BY <2>1 DEF Gathered, BatchDisjoint
  <2>5. Settled' = Settled \cup {c} /\ c \notin Settled
    BY <2>1, <2>2, <2>3, <2>4 DEF Settled
  <2> QED
    BY <2>1, <2>3, <2>5
<1>3. CASE ~ \E w \in Workers : Count(w)
  <2>1. numPixelWrites' = numPixelWrites
    BY <1>3, CounterKept
  <2>2. ASSUME NEW w \in Workers, Acquire(w) PROVE Settled' = Settled
    <3>1. /\ UNCHANGED <<pc, issued, aborted>> /\ pc[w] = "acquire"
          /\ \A v \in Workers \ {w} : batch'[v] = batch[v]
          /\ batch[w] \subseteq batch'[w]
      BY <2>2, TaskTypes DEF Acquire
    <3>2. \A c \in batch'[w] : issued'[c] = 0
      BY <3>1, WriteStep DEF Gathered, BatchIssued
    <3> QED
      BY <3>1, <3>2 DEF Settled
  <2>3. ASSUME NEW w \in Workers, Issues(w) PROVE Settled' = Settled
    BY <2>3 DEF Issues, Issue, Settled
  <2>4. ASSUME NEW w \in Workers, BeginWrite(w) PROVE Settled' = Settled
    BY <2>4 DEF BeginWrite, Settled
  <2>5. ASSUME Elsewhere PROVE Settled' = Settled
    BY <2>5 DEF Elsewhere, Settled
  <2>6. Settled' = Settled
    BY <1>3, <2>2, <2>3, <2>4, <2>5, BatchKinds
  <2> QED
    BY <2>1, <2>6
<1> QED
  BY <1>2, <1>3

LEMMA AllCountedStep ==
  ASSUME WriteInv, AllCounted, Next, ~aborted
  PROVE  AllCounted'
<1>1. CASE Settled' = Settled /\ numPixelWrites' = numPixelWrites
  BY <1>1 DEF AllCounted
<1>2. ASSUME NEW c \in Chunks \ Settled,
             Settled' = Settled \cup {c}, numPixelWrites' = numPixelWrites + 1
      PROVE  AllCounted'
  BY <1>2, SettledFinite, FS_AddElement DEF AllCounted
<1> QED
  BY <1>1, <1>2, SettledStep

LEMMA MainLastStep ==
  ASSUME TypeInv, MainLast, Next, ~aborted
  PROVE  MainLast'
<1>1. CASE main = "wait"
  <2>1. main' = main \/ MainDrain
    <3>1. ASSUME NEW w \in Workers, Work(w) PROVE main' = main
      BY <3>1 DEF Work, TakeStrip, FillStrip, Acquire, NothingToWrite,
                  BeginWrite, WriteSync, WriteShort, WriteFails, Submit, Reap,
                  EndReap, RingGone, Count, EndCount, BeginFinish, Seal
    <3>2. ASSUME NEW w \in Workers, Kernel(w) PROVE main' = main
      BY <3>2 DEF Kernel, KernelWrites, KernelWritesShort, KernelFails
    <3>3. CASE CloseRings \/ Stopped
      BY <3>3 DEF CloseRings, Stopped, vars
    <3>4. CASE Main
      BY <1>1, <3>4 DEF Main, MainClose
    <3> QED
      BY <3>1, <3>2, <3>3, <3>4 DEF Next
  <2>2. CASE MainDrain
    BY <2>2 DEF MainDrain, MainLast, bufferVars
  <2> QED
    BY <1>1, <2>1, <2>2 DEF MainLast
<1>2. CASE main # "wait"
  <2>1. pending = {} /\ \A w \in Workers : pc[w] = "idle"
    BY <1>2 DEF MainLast
  <2>2. Downstream
    BY <2>1, StepKinds DEF TakeStrip, FillStrip, Acquire
  <2> QED
    BY <2>1, <2>2 DEF MainLast, Downstream, GoesOn
<1> QED
  BY <1>1, <1>2

LEMMA OrderInit == Init => OrderInv
<1> SUFFICES ASSUME Init PROVE OrderInv
  OBVIOUS
<1>1. Settled = {}
  BY DEF Init, Settled
<1>2. AllCounted
  BY <1>1, FS_EmptySet DEF Init, AllCounted
<1> QED
  BY <1>2, WriteInit, CountingInit DEF OrderInv, MainLast, Init

LEMMA OrderStep == OrderInv /\ [Next]_vars => OrderInv'
<1>1. ASSUME OrderInv, Next, ~aborted PROVE OrderInv'
  BY <1>1, WriteStep, CountingStep, AllCountedStep, MainLastStep
     DEF OrderInv, WriteInv
<1>2. ASSUME OrderInv, UNCHANGED vars PROVE OrderInv'
  <2>1. WriteInv'
    BY <1>2, WriteStep DEF OrderInv
  <2> QED
    BY <1>2, <2>1 DEF OrderInv, Counting, AllCounted, Settled, MainLast,
                      vars, workerVars, bufferVars, fileVars
<1> QED
  BY <1>1, <1>2, AliveOrStill

(* Whoever finishes the file, or has finished it, comes after all writes.  *)
LEMMA FinishLast ==
  ASSUME OrderInv, MaxPixelWrites = Cardinality(Chunks),
         sealed \/ \E w \in Workers : pc[w] \in {"finish", "drain"}
  PROVE  Settled = Chunks
<1>1. numPixelWrites >= MaxPixelWrites
  BY CountTypes DEF OrderInv, WriteInv, Counting
<1>2. numPixelWrites = Cardinality(Settled)
  BY DEF OrderInv, AllCounted
<1> QED
  BY <1>1, <1>2, SettledFinite, CountTypes DEF OrderInv, WriteInv

LEMMA RingsFree ==
  ASSUME OrderInv, MaxPixelWrites = Cardinality(Chunks)
  PROVE  RingOwnership
<1> SUFFICES ASSUME Closing, NEW v \in Workers, pc[v] \in {"write", "reap"}
             PROVE  FALSE
  BY DEF RingOwnership
<1>1. \E w \in Workers : pc[w] = "drain"
  BY DEF Closing, OrderInv, MainLast
<1>2. Settled = Chunks
  BY <1>1, FinishLast
<1>3. batch[v] # {} /\ batch[v] \subseteq Chunks
  BY TaskTypes DEF OrderInv, WriteInv, Gathered, BatchPlace
<1> QED
  BY <1>2, <1>3 DEF Settled

(* With the writes counted right, nobody is in a write, or reaps the       *)
(* completions of its ring, while the rings are being closed - on any      *)
(* disk, for any number of threads.                                        *)
THEOREM RingsOwned ==
  ASSUME MaxPixelWrites = Cardinality(Chunks)
  PROVE  Spec => []RingOwnership
  BY RingsFree, OrderInit, OrderStep, PTL DEF Spec

-----------------------------------------------------------------------------
(***************************************************************************)
(* What holds on a disk that never fails, too: no assertion fails, all     *)
(* data precedes the directory, and the encoder implements EncodedFile.    *)
(* This layer follows a chunk from its worker through the ring to the      *)
(* disk.                                                                   *)
(***************************************************************************)

(* Nobody finds its ring or the file closed. *)
Alive ==
  /\ ~aborted
  /\ ~fdOpen => sealed \/ main = "closed"
  /\ \A w \in Workers : pc[w] = "reap" => w \in ringsOpen

(* A request belongs to an open ring and no chunk is in two of them. *)
Requests ==
  /\ \A v \in Workers \ ringsOpen : inflight[v] = {}
  /\ \A v \in Workers : \A r \in inflight[v] :
       r \cap onDisk = {} /\ \A c \in r : issued[c] = 1
  /\ \A v, w \in Workers : \A q \in inflight[v], r \in inflight[w] :
       q \cap r # {} => q = r /\ v = w

Completions == \A v \in Workers : cq[v] \in Seq({TRUE})

(* A chunk that was handed to a write is under way or has arrived. *)
Arrived ==
  /\ \A c \in Chunks : issued[c] = 1 =>
       c \in onDisk \/ \E v \in Workers : \E r \in inflight[v] : c \in r
  /\ \A c \in onDisk : issued[c] = 1
  /\ sealed \/ main = "closed" => ringsOpen = {}

FlowInv == OrderInv /\ Alive /\ Requests /\ Completions /\ Arrived

(* The assumptions of all that follows. *)
Perfect == ~IOErrors /\ MaxPixelWrites = Cardinality(Chunks)

LEMMA FlowTypes ==
  ASSUME TypeInv
  PROVE  /\ pc \in [Workers -> {"idle", "fill", "acquire", "write", "reap",
                               "count", "finish", "drain"}]
         /\ batch \in [Workers -> SUBSET Chunks]
         /\ issued \in [Chunks -> Nat]
         /\ ringsOpen \subseteq Workers /\ onDisk \subseteq Chunks
         /\ inflight \in [Workers -> SUBSET SUBSET Chunks]
         /\ cq \in [Workers -> Seq(BOOLEAN)]
         /\ sealed \in BOOLEAN /\ fdOpen \in BOOLEAN /\ aborted \in BOOLEAN
  BY DEF TypeInv, TypeOK

(* What the steps away from the disk and the rings have in common. *)
Quiet ==
  /\ UNCHANGED <<issued, ringVars, fileVars, aborted>>
  /\ (main = "closed") <=> (main' = "closed")
  /\ \A v \in Workers : pc'[v] = "reap" => pc[v] = "reap"

LEMMA FlowKinds ==
  ASSUME TypeInv, Next, ~aborted
  PROVE  \/ \E w \in Workers :
              \/ WriteSync(w) \/ WriteShort(w) \/ WriteFails(w) \/ Submit(w)
              \/ Reap(w) \/ RingGone(w) \/ Seal(w) \/ Kernel(w)
         \/ CloseRings \/ MainClose \/ Quiet
<1> USE FlowTypes DEF Quiet
<1>1. CASE Stopped \/ MainDrain
  BY <1>1 DEF Stopped, vars, MainDrain
<1>2. ASSUME NEW w \in Workers, \E s \in Strips : TakeStrip(w, s)
      PROVE Quiet
  BY <1>2 DEF TakeStrip, Goto
<1>3. ASSUME NEW w \in Workers, FillStrip(w) \/ NothingToWrite(w)
      PROVE Quiet
  BY <1>3 DEF FillStrip, NothingToWrite, EndTask, Goto
<1>4. ASSUME NEW w \in Workers, Acquire(w) \/ BeginWrite(w) PROVE Quiet
  BY <1>4 DEF Acquire, BeginWrite, Goto
<1>5. ASSUME NEW w \in Workers, EndReap(w) \/ Count(w) PROVE Quiet
  BY <1>5 DEF EndReap, Count, Goto
<1>6. ASSUME NEW w \in Workers, EndCount(w) \/ BeginFinish(w) PROVE Quiet
  BY <1>6 DEF EndCount, BeginFinish, EndTask, Goto
<1> QED
  BY <1>1, <1>2, <1>3, <1>4, <1>5, <1>6 DEF Next, Work, Main

(* After the last write nobody is in one. *)
LEMMA NoLateWrite ==
  ASSUME FlowInv, Perfect, sealed \/ main = "closed", NEW w \in Workers
  PROVE  pc[w] \notin {"write", "reap"}
<1>1. CASE sealed
  <2>1. Settled = Chunks
    BY <1>1, FinishLast DEF FlowInv, Perfect
  <2>2. batch[w] = {}
    BY <2>1, TaskTypes DEF FlowInv, OrderInv, WriteInv, Settled
  <2> QED
    BY <2>2 DEF FlowInv, OrderInv, WriteInv, Gathered, BatchPlace
<1>2. CASE main = "closed"
  BY <1>2 DEF FlowInv, OrderInv, MainLast
<1> QED
  BY <1>1, <1>2

(* The steps that do happen when nothing fails. *)
LEMMA PerfectKinds ==
  ASSUME FlowInv, Perfect, Next
  PROVE  \/ \E w \in Workers :
              \/ WriteSync(w) \/ Submit(w) \/ Reap(w) \/ Seal(w)
              \/ KernelWrites(w)
         \/ CloseRings \/ MainClose \/ Quiet
<1>1. ASSUME NEW w \in Workers, WriteShort(w) \/ KernelWritesShort(w)
      PROVE FALSE
  BY <1>1 DEF WriteShort, KernelWritesShort, Perfect
<1>2. ASSUME NEW w \in Workers, WriteFails(w) PROVE FALSE
  BY <1>2, NoLateWrite DEF WriteFails, Perfect, FlowInv, Alive
<1>3. ASSUME NEW w \in Workers, RingGone(w) PROVE FALSE
  BY <1>3 DEF RingGone, FlowInv, Alive
<1>4. ASSUME NEW v \in Workers, KernelFails(v) PROVE FALSE
  BY <1>4 DEF KernelFails, Perfect, FlowInv, Requests
<1> QED
  BY <1>1, <1>2, <1>3, <1>4, FlowKinds
     DEF Kernel, FlowInv, Alive, OrderInv, WriteInv

-----------------------------------------------------------------------------
LEMMA FlowQuiet ==
  ASSUME Alive, Requests, Completions, Arrived, Quiet
  PROVE  Alive' /\ Requests' /\ Completions' /\ Arrived'
<1> USE DEF Quiet, ringVars, fileVars
<1>1. Alive'
  BY DEF Alive
<1>2. Requests'
  BY DEF Requests
<1>3. Completions'
  BY DEF Completions
<1>4. Arrived'
  BY DEF Arrived
<1> QED
  BY <1>1, <1>2, <1>3, <1>4

LEMMA FlowWriteSync ==
  ASSUME FlowInv, NEW w \in Workers, WriteSync(w)
  PROVE  Alive' /\ Requests' /\ Completions' /\ Arrived'
<1> USE DEF FlowInv, OrderInv, WriteInv
<1>1. /\ pc[w] = "write" /\ fdOpen /\ onDisk' = onDisk \cup batch[w]
      /\ UNCHANGED <<ringsOpen, inflight, cq, sealed, fdOpen, main, aborted>>
      /\ \A v \in Workers : pc'[v] = IF v = w THEN "count" ELSE pc[v]
  BY FlowTypes DEF WriteSync, Goto, ringVars
<1>2. \A c \in Chunks :
        issued'[c] = IF c \in batch[w] THEN issued[c] + 1 ELSE issued[c]
  BY DEF WriteSync, Issue
<1>3. \A c \in batch[w] : c \in Chunks /\ issued[c] = 0
  BY <1>1, FlowTypes DEF Gathered, BatchIssued, Alive
<1>4. \A c \in batch[w] : issued'[c] = 1
  BY <1>2, <1>3
<1>5. \A c \in Chunks \ batch[w] : issued'[c] = issued[c]
  BY <1>2
<1>6. Alive'
  BY <1>1 DEF Alive
<1>7. Requests'
  <2>1. \A v \in Workers : \A r \in inflight[v] : r \cap batch[w] = {}
    BY <1>3 DEF Requests
  <2>2. \A v \in Workers : \A r \in inflight[v] : r \subseteq Chunks
    BY FlowTypes
  <2>3. \A v \in Workers : \A r \in inflight[v] :
          r \cap onDisk' = {} /\ \A c \in r : issued'[c] = 1
    BY <1>1, <1>5, <2>1, <2>2 DEF Requests
  <2> QED
    BY <1>1, <2>3 DEF Requests
<1>8. Completions'
  BY <1>1 DEF Completions
<1>9. Arrived'
  BY <1>1, <1>3, <1>4, <1>5, FlowTypes DEF Arrived
<1> QED
  BY <1>6, <1>7, <1>8, <1>9

LEMMA FlowSubmit ==
  ASSUME FlowInv, NEW w \in Workers, Submit(w)
  PROVE  Alive' /\ Requests' /\ Completions' /\ Arrived'
<1> USE DEF FlowInv, OrderInv, WriteInv
<1>1. /\ pc[w] = "write" /\ w \in ringsOpen
      /\ UNCHANGED <<ringsOpen, onDisk, cq, sealed, fdOpen, main, aborted>>
      /\ \A v \in Workers : pc'[v] = IF v = w THEN "reap" ELSE pc[v]
      /\ \A v \in Workers :
           inflight'[v] = IF v = w THEN inflight[w] \cup {batch[w]} ELSE inflight[v]
  BY FlowTypes DEF Submit, Goto, fileVars
<1>2. \A c \in Chunks :
        issued'[c] = IF c \in batch[w] THEN issued[c] + 1 ELSE issued[c]
  BY DEF Submit, Issue
<1>3. \A c \in batch[w] : c \in Chunks /\ issued[c] = 0
  BY <1>1, FlowTypes DEF Gathered, BatchIssued, Alive
<1>4. \A c \in batch[w] : issued'[c] = 1
  BY <1>2, <1>3
<1>5. \A c \in Chunks \ batch[w] : issued'[c] = issued[c]
  BY <1>2
<1>6. Alive'
  BY <1>1 DEF Alive
<1>7. Requests'
  <2>1. \A v \in Workers : \A r \in inflight[v] : r \cap batch[w] = {}
    BY <1>3 DEF Requests
  <2>2. \A v \in Workers : \A r \in inflight[v] : r \subseteq Chunks
    BY FlowTypes
  <2>3. \A v \in Workers : \A r \in inflight[v] :
          r \cap onDisk = {} /\ \A c \in r : issued'[c] = 1
    BY <1>5, <2>1, <2>2 DEF Requests
  <2>4. batch[w] \cap onDisk = {}
    BY <1>3 DEF Arrived
  <2>5. \A v \in Workers \ ringsOpen' : inflight'[v] = {}
    BY <1>1 DEF Requests
  <2>6. \A v \in Workers : \A r \in inflight'[v] :
          r \cap onDisk' = {} /\ \A c \in r : issued'[c] = 1
    BY <1>1, <1>4, <2>3, <2>4
  <2>7. ASSUME NEW u \in Workers, NEW v \in Workers,
               NEW q \in inflight'[u], NEW r \in inflight'[v], q \cap r # {}
        PROVE  q = r /\ u = v
    <3>1. CASE q \in inflight[u] /\ r \in inflight[v]
      BY <2>7, <3>1 DEF Requests
    <3>2. CASE q \notin inflight[u]
      BY <1>1, <2>1, <2>7, <3>2
    <3>3. CASE r \notin inflight[v]
      BY <1>1, <2>1, <2>7, <3>3
    <3> QED
      BY <3>1, <3>2, <3>3
  <2> QED
    BY <2>5, <2>6, <2>7 DEF Requests
<1>8. Completions'
  BY <1>1 DEF Completions
<1>9. Arrived'
  <2>1. \A c \in onDisk : issued'[c] = 1
    BY <1>3, <1>5, FlowTypes DEF Arrived
  <2>2. ASSUME NEW c \in Chunks, issued'[c] = 1
        PROVE  c \in onDisk \/ \E v \in Workers : \E r \in inflight'[v] : c \in r
    <3>1. CASE c \in batch[w]
      BY <1>1, <3>1
    <3>2. CASE c \notin batch[w]
      BY <1>1, <1>5, <2>2, <3>2 DEF Arrived
    <3> QED
      BY <3>1, <3>2
  <2> QED
    BY <1>1, <2>1, <2>2 DEF Arrived
<1> QED
  BY <1>6, <1>7, <1>8, <1>9

LEMMA FlowKernel ==
  ASSUME FlowInv, NEW w \in Workers, KernelWrites(w)
  PROVE  Alive' /\ Requests' /\ Completions' /\ Arrived'
<1> USE DEF FlowInv, OrderInv, WriteInv
<1>1. PICK r \in inflight[w] :
        Answer(w, r, TRUE) /\ onDisk' = onDisk \cup r
  BY DEF KernelWrites
<1>2. /\ UNCHANGED <<pc, issued, ringsOpen, fdOpen, sealed, main, aborted>>
      /\ \A v \in Workers :
           inflight'[v] = IF v = w THEN inflight[w] \ {r} ELSE inflight[v]
  BY <1>1, FlowTypes DEF KernelWrites, Answer
<1>3. Alive'
  BY <1>2 DEF Alive
<1>4. Requests'
  <2>1. \A v \in Workers : inflight'[v] \subseteq inflight[v]
    BY <1>2
  <2>2. \A v \in Workers : \A q \in inflight'[v] : q \cap r = {}
    BY <1>2, <2>1 DEF Requests
  <2> QED
    BY <1>1, <1>2, <2>1, <2>2 DEF Requests
<1>5. Completions'
  <2>1. CASE w \in ringsOpen
    <3>1. \A v \in Workers :
            cq'[v] = IF v = w THEN Append(cq[w], TRUE) ELSE cq[v]
      BY <1>1, <2>1, FlowTypes DEF Answer
    <3>2. Append(cq[w], TRUE) \in Seq({TRUE})
      BY DEF Completions
    <3> QED
      BY <3>1, <3>2 DEF Completions
  <2>2. CASE w \notin ringsOpen
    BY <1>1, <2>2 DEF Answer, Completions
  <2> QED
    BY <2>1, <2>2
<1>6. Arrived'
  <2>1. \A c \in onDisk' : issued'[c] = 1
    BY <1>1, <1>2 DEF Arrived, Requests
  <2>2. ASSUME NEW c \in Chunks, issued[c] = 1, c \notin onDisk'
        PROVE  \E v \in Workers : \E q \in inflight'[v] : c \in q
    <3>1. PICK v \in Workers : \E q \in inflight[v] : c \in q
      BY <1>1, <2>2 DEF Arrived
    <3>2. \A q \in inflight[v] : c \in q => q # r
      BY <1>1, <2>2
    <3> QED
      BY <1>2, <3>1, <3>2
  <2> QED
    BY <1>2, <2>1, <2>2 DEF Arrived
<1> QED
  BY <1>3, <1>4, <1>5, <1>6

LEMMA FlowReap ==
  ASSUME FlowInv, NEW w \in Workers,
         cq[w] # <<>>, cq' = [cq EXCEPT ![w] = Tail(@)],
         UNCHANGED <<pc, issued, ringsOpen, inflight, fileVars, main, aborted>>
  PROVE  Alive' /\ Requests' /\ Completions' /\ Arrived'
<1> USE DEF FlowInv, OrderInv, WriteInv, fileVars
<1>1. Tail(cq[w]) \in Seq({TRUE})
  BY DEF Completions
<1>2. \A v \in Workers : cq'[v] = IF v = w THEN Tail(cq[w]) ELSE cq[v]
  BY FlowTypes
<1>3. Completions'
  BY <1>1, <1>2 DEF Completions
<1>4. Alive' /\ Requests' /\ Arrived'
  BY DEF Alive, Requests, Arrived
<1> QED
  BY <1>3, <1>4

LEMMA HeadIn ==
  ASSUME NEW S, NEW q \in Seq(S), q # <<>>
  PROVE  Head(q) \in S
  OBVIOUS

(* A ring is closed by a thread that nobody else writes beside, and with   *)
(* no failure in it only when it is empty.                                 *)
LEMMA FlowCloseRings ==
  ASSUME FlowInv, Perfect, CloseRings
  PROVE  Alive' /\ Requests' /\ Completions' /\ Arrived'
<1>1. PICK v \in ringsOpen : WaitCompletion(v) \/ ExitRing(v)
  BY DEF CloseRings
<1>2. v \in Workers
  BY <1>1, FlowTypes DEF FlowInv, OrderInv, WriteInv
<1>3. Closing
      /\ UNCHANGED <<pc, issued, fileVars, main, aborted>>
  BY DEF CloseRings
<1>4. CASE WaitCompletion(v)
  BY <1>2, <1>3, <1>4, FlowReap DEF WaitCompletion
<1>5. CASE ExitRing(v)
  <2>1. /\ ringsOpen' = ringsOpen \ {v} /\ UNCHANGED inflight
        /\ \A u \in Workers : cq'[u] = IF u = v THEN <<>> ELSE cq[u]
    BY <1>5, FlowTypes DEF ExitRing, FlowInv, OrderInv, WriteInv
  <2>2. inflight[v] = {}
    <3>1. cq[v] \in Seq({TRUE})
      BY <1>2 DEF FlowInv, Completions
    <3>2. cq[v] # <<>> => Head(cq[v]) \in {TRUE}
      BY <3>1, HeadIn, Zenon
    <3>3. cq[v] # <<>> => Head(cq[v])
      BY <3>2, Zenon
    <3> QED
      BY <1>5, <3>3 DEF ExitRing
  <2>3. \A w \in Workers : pc[w] # "reap"
    BY <1>3, RingsFree DEF FlowInv, Perfect, RingOwnership
  <2>4. Alive'
    BY <1>3, <2>1, <2>3 DEF FlowInv, Alive, fileVars
  <2>5. Requests'
    BY <1>2, <1>3, <2>1, <2>2 DEF FlowInv, Requests, fileVars
  <2>6. Completions'
    <3>1. <<>> \in Seq({TRUE})
      OBVIOUS
    <3>2. ASSUME NEW u \in Workers PROVE cq'[u] \in Seq({TRUE})
      BY <2>1, <3>1, <3>2 DEF FlowInv, Completions
    <3> QED
      BY <3>2 DEF Completions
  <2>7. Arrived'
    BY <1>3, <2>1 DEF FlowInv, Arrived, fileVars
  <2> QED
    BY <2>4, <2>5, <2>6, <2>7
<1> QED
  BY <1>1, <1>4, <1>5

LEMMA FlowClose ==
  ASSUME TypeInv, Alive, Requests, Completions, Arrived,
         MainClose \/ \E w \in Workers : Seal(w)
  PROVE  Alive' /\ Requests' /\ Completions' /\ Arrived'
<1>1. /\ ringsOpen = {} /\ (sealed' \/ main' = "closed")
      /\ UNCHANGED <<issued, ringsOpen, inflight, cq, onDisk, aborted>>
      /\ \A v \in Workers : pc'[v] = pc[v] \/ pc'[v] = "idle"
  BY FlowTypes DEF MainClose, Seal, EndTask, Goto, ringVars
<1>2. Alive'
  BY <1>1 DEF Alive
<1>3. Requests'
  BY <1>1 DEF Requests
<1>4. Completions'
  BY <1>1 DEF Completions
<1>5. Arrived'
  BY <1>1 DEF Arrived
<1> QED
  BY <1>2, <1>3, <1>4, <1>5

LEMMA FlowInit == Init => FlowInv
  BY OrderInit DEF Init, FlowInv, Alive, Requests, Completions, Arrived

LEMMA FlowStep == Perfect /\ FlowInv /\ [Next]_vars => FlowInv'
<1>1. ASSUME Perfect, FlowInv, Next PROVE FlowInv'
  <2>1. OrderInv'
    BY <1>1, OrderStep DEF FlowInv
  <2>2. ASSUME NEW w \in Workers, Reap(w)
        PROVE  Alive' /\ Requests' /\ Completions' /\ Arrived'
    BY <1>1, <2>2, FlowReap DEF Reap
  <2> QED
    BY <1>1, <2>1, <2>2, PerfectKinds, FlowQuiet, FlowWriteSync, FlowSubmit,
       FlowKernel, FlowCloseRings, FlowClose DEF FlowInv, OrderInv, WriteInv
<1>2. ASSUME FlowInv, UNCHANGED vars PROVE FlowInv'
  <2>1. OrderInv'
    BY <1>2, OrderStep DEF FlowInv
  <2>2. Quiet
    BY <1>2 DEF vars, workerVars, bufferVars, ringVars, fileVars, Quiet
  <2> QED
    BY <1>2, <2>1, <2>2, FlowQuiet DEF FlowInv
<1> QED
  BY <1>1, <1>2

-----------------------------------------------------------------------------
(* All data is in the file when the rings are closed for its directory. *)
LEMMA DataComplete ==
  ASSUME FlowInv, Perfect, ringsOpen = {},
         sealed \/ \E w \in Workers : pc[w] \in {"finish", "drain"}
  PROVE  onDisk = Chunks
<1>1. Settled = Chunks
  BY FinishLast DEF FlowInv, Perfect
<1>2. \A v \in Workers : inflight[v] = {}
  BY DEF FlowInv, Requests
<1>3. Chunks \subseteq onDisk
  BY <1>1, <1>2 DEF Settled, FlowInv, Arrived
<1>4. onDisk \subseteq Chunks
  BY FlowTypes DEF FlowInv, OrderInv, WriteInv
<1> QED
  BY <1>3, <1>4

(* On a disk that never fails no assertion of the encoder fails: no write  *)
(* finds the file closed, no worker its ring released.                     *)
THEOREM NeverAborts ==
  ASSUME Perfect
  PROVE  Spec => []EncodePixelsSucceeds
<1>1. FlowInv => EncodePixelsSucceeds
  BY DEF FlowInv, Alive, EncodePixelsSucceeds
<1> QED
  BY <1>1, FlowInit, FlowStep, PTL DEF Spec

(* The file is closed only when no request to write to it is under way.    *)
THEOREM NothingUnderWay ==
  ASSUME Perfect
  PROVE  Spec => []CloseWaits
<1>1. FlowInv => CloseWaits
  BY DEF FlowInv, Arrived, Requests, CloseWaits
<1> QED
  BY <1>1, FlowInit, FlowStep, PTL DEF Spec

(* Whatever order the kernel completes requests in, the directory comes    *)
(* after all data.                                                         *)
THEOREM DirectoryLast ==
  ASSUME Perfect
  PROVE  Spec => []DirectoryAfterData
<1>1. FlowInv => DirectoryAfterData
  BY DataComplete DEF FlowInv, Arrived, DirectoryAfterData
<1> QED
  BY <1>1, FlowInit, FlowStep, PTL DEF Spec

-----------------------------------------------------------------------------
(* The refinement of EncodedFile *)

(* What the actions mean for the file. *)
LEMMA FileKinds ==
  ASSUME TypeInv, FlowInv, Perfect, Next
  PROVE  \/ \E w \in Workers : \/ FillStrip(w) \/ WriteSync(w)
                               \/ KernelWrites(w) \/ Seal(w)
         \/ UNCHANGED <<filled, onDisk, sealed>>
<1>1. CASE \E w \in Workers : Submit(w) \/ Reap(w)
  BY <1>1 DEF Submit, Reap, bufferVars, fileVars
<1>2. CASE CloseRings \/ MainClose
  BY <1>2 DEF CloseRings, MainClose, bufferVars, fileVars
<1>3. CASE Quiet
  <2>1. UNCHANGED <<onDisk, sealed>>
    BY <1>3 DEF Quiet, fileVars
  <2>2. UNCHANGED filled \/ \E w \in Workers : FillStrip(w)
    BY StepKinds DEF TakeStrip, Acquire, Downstream
  <2> QED
    BY <2>1, <2>2
<1> QED
  BY <1>1, <1>2, <1>3, PerfectKinds

LEMMA FileInit == Init => File!Init
  BY DEF Init, File!Init

LEMMA FileStep == Perfect /\ FlowInv /\ [Next]_vars => [File!Next]_File!vars
<1> SUFFICES ASSUME Perfect, FlowInv, Next PROVE [File!Next]_File!vars
  BY DEF vars, bufferVars, fileVars, File!vars
<1> USE DEF File!vars, File!Next
<1>1. \A c : File!Sharers(c) = Sharers(c)
  BY DEF File!Sharers, Sharers
<1>2. TypeInv /\ WriteInv
  BY DEF FlowInv, OrderInv, WriteInv
<1>3. ASSUME NEW w \in Workers, FillStrip(w) PROVE [File!Next]_File!vars
  <2>1. strip[w] \in Strips
    BY <1>2, <1>3, TaskTypes DEF FillStrip
  <2>2. CASE strip[w] \in filled
    BY <1>3, <2>2 DEF FillStrip, fileVars
  <2>3. CASE strip[w] \notin filled
    BY <1>3, <2>1, <2>3 DEF FillStrip, fileVars, File!HandOver
  <2> QED
    BY <2>2, <2>3
<1>4. ASSUME NEW w \in Workers, WriteSync(w) PROVE [File!Next]_File!vars
  <2>1. batch[w] \in SUBSET Chunks
    BY <1>2, TaskTypes
  <2>2. \A c \in batch[w] : issued[c] = 0 /\ Sharers(c) \subseteq filled
    BY <1>2, <1>4, <2>1, PassedFilled
       DEF WriteSync, WriteInv, Gathered, BatchIssued, BatchPassed,
           FlowInv, Alive
  <2>3. batch[w] \cap onDisk = {}
    BY <2>2 DEF FlowInv, Arrived
  <2>4. File!WriteChunks(batch[w])
    BY <1>1, <1>4, <2>2, <2>3 DEF WriteSync, bufferVars, File!WriteChunks
  <2> QED
    BY <2>1, <2>4
<1>5. ASSUME NEW w \in Workers, KernelWrites(w) PROVE [File!Next]_File!vars
  <2>1. PICK r \in inflight[w] : onDisk' = onDisk \cup r
    BY <1>5 DEF KernelWrites
  <2>2. r \in SUBSET Chunks
    BY <1>2, FlowTypes
  <2>3. \A c \in r : issued[c] = 1
    BY DEF FlowInv, Requests
  <2>4. \A c \in r : Sharers(c) \subseteq filled
    BY <1>2, <2>2, <2>3, NotTorn DEF NoTornChunk
  <2>5. r \cap onDisk = {}
    BY DEF FlowInv, Requests
  <2>6. File!WriteChunks(r)
    BY <1>1, <1>5, <2>1, <2>4, <2>5
       DEF KernelWrites, bufferVars, File!WriteChunks
  <2> QED
    BY <2>2, <2>6
<1>6. ASSUME NEW w \in Workers, Seal(w) PROVE [File!Next]_File!vars
  <2>1. onDisk = Chunks
    BY <1>6, DataComplete DEF Seal
  <2>2. UNCHANGED <<filled, onDisk>> /\ sealed' = TRUE
    BY <1>6 DEF Seal, bufferVars
  <2>3. sealed \in BOOLEAN
    BY <1>2, FlowTypes
  <2> QED
    BY <2>1, <2>2, <2>3 DEF File!Seal
<1> QED
  BY <1>2, <1>3, <1>4, <1>5, <1>6, FileKinds

(* On a disk that never fails the encoder, with any number of workers and  *)
(* either kind of write, implements the abstract file.                     *)
THEOREM Implementation ==
  ASSUME Perfect
  PROVE  Spec => ImplementsFile
<1>1. Init => File!Init
  BY FileInit
<1> QED
  BY <1>1, FlowInit, FlowStep, FileStep, PTL DEF Spec, ImplementsFile, File!Spec

(* Once the file is sealed nothing more is filled, written or handed to a  *)
(* write: no thread comes late.                                            *)
LEMMA SealedStep ==
  Perfect /\ FlowInv /\ [Next]_vars
    => [sealed => UNCHANGED <<onDisk, issued, filled>>]_vars
<1> SUFFICES ASSUME Perfect, FlowInv, Next, sealed
             PROVE  UNCHANGED <<onDisk, issued, filled>>
  OBVIOUS
<1>1. WriteInv /\ TypeInv
  BY DEF FlowInv, OrderInv, WriteInv
<1>2. \A w \in Workers : pc[w] # "write" /\ inflight[w] = {}
  BY NoLateWrite DEF FlowInv, Arrived, Requests
<1>3. UNCHANGED issued
  <2>1. CASE \E w \in Workers : WriteSync(w) \/ Submit(w)
    BY <1>2, <2>1 DEF WriteSync, Submit
  <2>2. CASE \E w \in Workers : Reap(w) \/ Seal(w) \/ KernelWrites(w)
    BY <2>2 DEF Reap, Seal, KernelWrites
  <2>3. CASE CloseRings \/ MainClose
    BY <2>3 DEF CloseRings, MainClose
  <2>4. CASE Quiet
    BY <2>4 DEF Quiet
  <2> QED
    BY <2>1, <2>2, <2>3, <2>4, PerfectKinds
<1>4. UNCHANGED <<onDisk, filled>>
  <2>1. ASSUME NEW w \in Workers, FillStrip(w)
        PROVE  UNCHANGED <<onDisk, filled>>
    <3>1. strip[w] \in Strips
      BY <1>1, <2>1, TaskTypes DEF FillStrip
    <3>2. PICK c \in Chunks : c \in ChunksOf[strip[w]]
      BY <3>1, EncodeAssumption
    <3>3. Settled = Chunks
      BY FinishLast DEF FlowInv, Perfect
    <3>4. issued[c] = 1
      BY <3>2, <3>3 DEF Settled
    <3>5. strip[w] \in filled
      BY <1>1, <3>1, <3>2, <3>4, NotTorn DEF NoTornChunk, Sharers
    <3> QED
      BY <2>1, <3>5 DEF FillStrip, fileVars
  <2>2. ASSUME NEW w \in Workers, WriteSync(w) \/ KernelWrites(w)
        PROVE  FALSE
    BY <1>2, <2>2 DEF WriteSync, KernelWrites
  <2>3. ASSUME NEW w \in Workers, Seal(w)
        PROVE  UNCHANGED <<onDisk, filled>>
    BY <2>3 DEF Seal, bufferVars
  <2> QED
    BY <1>1, <2>1, <2>2, <2>3, FileKinds
<1> QED
  BY <1>3, <1>4

THEOREM Final ==
  ASSUME Perfect
  PROVE  Spec => SealedIsFinal
  BY FlowInit, FlowStep, SealedStep, PTL DEF Spec, SealedIsFinal

=============================================================================
