------------------------- MODULE BenchDriverProofs -------------------------
(***************************************************************************)
(* What the driver guarantees on every machine and for every option: which *)
(* runs it has made when it ends, why it crashes, and what a normal exit   *)
(* leaves behind.                                                          *)
(***************************************************************************)
EXTENDS BenchDriver, TLAPS

-----------------------------------------------------------------------------
(* Types *)

LEMMA RunKindType ==
  ASSUME NEW a \in BOOLEAN, NEW b \in BOOLEAN, NEW c \in BOOLEAN,
         NEW d \in BOOLEAN
  PROVE  RunKind(a, b, c, d) \in [store : BOOLEAN, direct : BOOLEAN,
                                  asynch : BOOLEAN, chunked : BOOLEAN]
BY DEF RunKind

LEMMA KindType ==
  ASSUME BenchTypeOK
  PROVE  Kind \in [store : BOOLEAN, direct : BOOLEAN, asynch : BOOLEAN,
                   chunked : BOOLEAN]
<1> DEFINE Kinds == [store : BOOLEAN, direct : BOOLEAN, asynch : BOOLEAN,
                     chunked : BOOLEAN]
<1>1. CASE ~options.full
  BY <1>1 DEF BenchTypeOK, Kind
<1>2. CASE options.full
  <2>1. TRUE \in BOOLEAN /\ FALSE \in BOOLEAN
    OBVIOUS
  <2>2. FullRuns[1] \in Kinds
    BY <2>1, RunKindType DEF FullRuns
  <2>3. FullRuns[2] \in Kinds
    BY <2>1, RunKindType DEF FullRuns
  <2>4. FullRuns[3] \in Kinds
    BY <2>1, RunKindType DEF FullRuns
  <2>5. FullRuns[4] \in Kinds
    BY <2>1, RunKindType DEF FullRuns
  <2>6. FullRuns[5] \in Kinds
    BY <2>1, RunKindType DEF FullRuns
  <2>7. test = 1 \/ test = 2 \/ test = 3 \/ test = 4 \/ test = 5
    BY DEF BenchTypeOK
  <2> HIDE DEF Kinds
  <2>8. FullRuns[test] \in Kinds
    BY <2>2, <2>3, <2>4, <2>5, <2>6, <2>7
  <2> QED
    BY <1>2, <2>8 DEF Kind, Kinds
<1> QED
  BY <1>1, <1>2

LEMMA BenchTypeInit == Init => BenchTypeOK
<1> SUFFICES ASSUME Init PROVE BenchTypeOK
  OBVIOUS
<1>1. PICK synch \in BOOLEAN, direct \in BOOLEAN, chunked \in BOOLEAN,
           c \in Concurrencies \cup {Unset} :
        options = Options(synch, direct, chunked, c)
  BY DEF Init
<1>2. options \in [full : BOOLEAN, concurrency : Nat,
                   kind : [store : BOOLEAN, direct : BOOLEAN,
                           asynch : BOOLEAN, chunked : BOOLEAN]]
  BY <1>1, BenchAssumption DEF Options, RunKind, FullRuns
<1>3. /\ hardware \in Machines /\ image \in Images
      /\ level = 2 /\ test = 1
      /\ pc \in {"level", "format"}
      /\ serializers = FALSE /\ descriptors = 0 /\ file = "absent"
      /\ failed = FALSE /\ refused = FALSE /\ tested = {}
  BY DEF Init
<1> QED
  <2>1. level \in Byte /\ test \in 1 .. 5 /\ descriptors \in Nat
    BY <1>3 DEF Byte
  <2>2. tested \subseteq Byte \X (1 .. 5)
    BY <1>3
  <2>3. /\ pc \in {"level", "format", "encodeInit", "executor", "tasks",
                   "delete", "ended", "crashed"}
        /\ serializers \in BOOLEAN /\ failed \in BOOLEAN /\ refused \in BOOLEAN
        /\ file \in {"absent", "empty", "incomplete", "complete"}
    BY <1>3
  <2> QED
    BY <1>2, <1>3, <2>1, <2>2, <2>3 DEF BenchTypeOK

LEMMA BenchTypeStep == BenchTypeOK /\ [Next]_vars => BenchTypeOK'
<1> SUFFICES ASSUME BenchTypeOK, [Next]_vars PROVE BenchTypeOK'
  OBVIOUS
<1> USE DEF BenchTypeOK, inputs, format
<1>1. CASE TestLevel
  <2>1. pc' \in {"ended", "format"}
    BY <1>1 DEF TestLevel
  <2> QED
    BY <1>1, <2>1 DEF TestLevel
<1>0. CASE CreateFormat
  <2>1. pc' \in {"crashed", "encodeInit"}
    BY <1>0 DEF CreateFormat
  <2> QED
    BY <1>0, <2>1 DEF CreateFormat
<1>2. CASE SkipInit
  BY <1>2 DEF SkipInit
<1>3. CASE EncodeInit \/ OpenFails \/ RingFails
  <2>1. CASE EncodeInit
    BY <2>1 DEF EncodeInit
  <2>2. CASE OpenFails
    BY <2>2 DEF OpenFails
  <2>3. CASE RingFails
    BY <2>3 DEF RingFails
  <2> QED
    BY <1>3, <2>1, <2>2, <2>3
<1>4. CASE StartExecutor
  BY <1>4 DEF StartExecutor
<1>5. CASE TasksCrash \/ WriteNothing \/ WriteToClosed
  BY <1>5 DEF TasksCrash, WriteNothing, WriteToClosed, Writing
<1>9. CASE WriteAll
  BY <1>9 DEF WriteAll, Writing
<1>10. CASE LoseDirectory
  BY <1>10 DEF LoseDirectory, Writing
<1>11. CASE DiskRefuses
  BY <1>11 DEF DiskRefuses, Writing
<1>6. CASE Delete
  <2>1. EndRun /\ UNCHANGED inputs
    BY <1>6 DEF Delete
  <2>2. NextLevel \in Byte
    BY DEF NextLevel, Byte
  <2>3. /\ level' \in Byte /\ test' \in 1 .. 5
        /\ pc' \in {"level", "format", "ended"}
        /\ tested' \subseteq Byte \X (1 .. 5)
    BY <2>1, <2>2 DEF EndRun
  <2> QED
    BY <1>6, <2>3 DEF Delete
<1>7. CASE DeleteCrashes \/ DeleteAborts
  BY <1>7 DEF DeleteCrashes, DeleteAborts
<1>8. CASE Stopped \/ UNCHANGED vars
  BY <1>8 DEF Stopped, vars
<1> QED
  BY <1>1, <1>0, <1>2, <1>3, <1>4, <1>5, <1>6, <1>7, <1>8, <1>9, <1>10, <1>11
     DEF Next

(* The variables have their types. *)
THEOREM BenchTypeCorrect == Spec => []BenchTypeOK
<1> QED
  BY BenchTypeInit, BenchTypeStep, PTL DEF Spec

-----------------------------------------------------------------------------
(* The progress of the full run *)

(* The runs before test t of level l. *)
Before(l, t) ==
  { p \in Byte \X (1 .. 5) :
      p[1] >= 2 /\ p[1] % 2 = 0 /\ (p[1] < l \/ (p[1] = l /\ p[2] < t)) }

(* What the level says about the machine and the runs that are over.  The  *)
(* level 0 comes after 254, and starts no executor.                        *)
Progress ==
  options.full =>
    /\ level % 2 = 0
    /\ level = 0 => /\ hardware >= 254 /\ test = 1
                    /\ tested = EvenLevels(254) \X (1 .. 5)
                    /\ pc \in {"level", "format", "encodeInit", "executor",
                               "crashed"}
    /\ level # 0 => /\ tested = Before(level, test)
                    /\ level = 2 \/ level - 2 <= hardware
    /\ pc \notin {"level", "ended"} => level <= hardware
    /\ pc = "level" => test = 1
    /\ pc = "ended" => test = 1 /\ level > hardware

LEMMA ProgressInit == Init => Progress
<1> SUFFICES ASSUME Init PROVE Progress
  OBVIOUS
<1>1. Before(2, 1) = {}
  BY DEF Before, Byte
<1>2. pc \in {"level", "format"} /\ (options.full => pc = "level")
  BY DEF Init
<1> QED
  BY <1>1, <1>2 DEF Init, Progress

(* One test more. *)
LEMMA BeforeNextTest ==
  ASSUME NEW l \in Byte, NEW t \in 1 .. 4, l % 2 = 0, l # 0
  PROVE  Before(l, t) \cup {<<l, t>>} = Before(l, t + 1)
<1>1. ASSUME NEW p \in Byte \X (1 .. 5)
      PROVE  p \in Before(l, t) \cup {<<l, t>>} <=> p \in Before(l, t + 1)
  <2>1. PICK a \in Byte, b \in 1 .. 5 : p = <<a, b>>
    OBVIOUS
  <2>2. p = <<l, t>> <=> a = l /\ b = t
    BY <2>1
  <2> QED
    BY <2>1, <2>2 DEF Before, Byte
<1>2. /\ <<l, t>> \in Byte \X (1 .. 5)
      /\ Before(l, t) \subseteq Byte \X (1 .. 5)
      /\ Before(l, t + 1) \subseteq Byte \X (1 .. 5)
  BY DEF Before
<1> QED
  BY <1>1, <1>2

(* The last test of a level. *)
LEMMA BeforeNextLevel ==
  ASSUME NEW l \in Byte, l % 2 = 0, l # 0, l # 254
  PROVE  Before(l, 5) \cup {<<l, 5>>} = Before(l + 2, 1)
<1>1. ASSUME NEW p \in Byte \X (1 .. 5)
      PROVE  p \in Before(l, 5) \cup {<<l, 5>>} <=> p \in Before(l + 2, 1)
  <2>1. PICK a \in Byte, b \in 1 .. 5 : p = <<a, b>>
    OBVIOUS
  <2>2. p = <<l, 5>> <=> a = l /\ b = 5
    BY <2>1
  <2> QED
    BY <2>1, <2>2 DEF Before, Byte
<1>2. /\ <<l, 5>> \in Byte \X (1 .. 5)
      /\ Before(l, 5) \subseteq Byte \X (1 .. 5)
      /\ Before(l + 2, 1) \subseteq Byte \X (1 .. 5)
  BY DEF Before
<1> QED
  BY <1>1, <1>2

(* The last test of the last level a byte can count to. *)
LEMMA BeforeTheEnd ==
  Before(254, 5) \cup {<<254, 5>>} = EvenLevels(254) \X (1 .. 5)
<1>1. ASSUME NEW p \in Byte \X (1 .. 5)
      PROVE  p \in Before(254, 5) \cup {<<254, 5>>}
               <=> p \in EvenLevels(254) \X (1 .. 5)
  <2>1. PICK a \in Byte, b \in 1 .. 5 : p = <<a, b>>
    OBVIOUS
  <2>2. p = <<254, 5>> <=> a = 254 /\ b = 5
    BY <2>1
  <2>3. p \in EvenLevels(254) \X (1 .. 5) <=> a \in EvenLevels(254)
    BY <2>1
  <2> QED
    BY <2>1, <2>2, <2>3 DEF Before, Byte, EvenLevels
<1>2. /\ <<254, 5>> \in Byte \X (1 .. 5)
      /\ Before(254, 5) \subseteq Byte \X (1 .. 5)
      /\ EvenLevels(254) \X (1 .. 5) \subseteq Byte \X (1 .. 5)
  BY DEF Before, EvenLevels, Byte
<1> QED
  BY <1>1, <1>2

LEMMA ProgressStep ==
  BenchTypeOK /\ Progress /\ [Next]_vars => Progress'
<1> SUFFICES ASSUME BenchTypeOK, Progress, [Next]_vars, options'.full
             PROVE  Progress'
  BY DEF Progress
<1> USE DEF inputs, format
<1>0. /\ level \in Byte /\ test \in 1 .. 5 /\ hardware \in Nat
      /\ options' = options /\ hardware' = hardware /\ options.full
  <2>1. options' = options /\ hardware' = hardware
    BY DEF Next, vars, TestLevel, CreateFormat, SkipInit, EncodeInit,
           OpenFails, RingFails, StartExecutor, TasksCrash, WriteNothing,
           WriteAll, LoseDirectory, WriteToClosed, DiskRefuses, Writing,
           Delete, DeleteCrashes, DeleteAborts, Stopped
  <2> QED
    BY <2>1, BenchAssumption DEF BenchTypeOK
<1>1. CASE TestLevel
  BY <1>0, <1>1 DEF TestLevel, Progress, Byte
<1>9. CASE CreateFormat
  BY <1>0, <1>9 DEF CreateFormat, Progress, Byte
<1>2. CASE SkipInit
  BY <1>0, <1>2 DEF SkipInit, Progress, Byte
<1>3. CASE EncodeInit \/ OpenFails \/ RingFails
  BY <1>0, <1>3 DEF EncodeInit, OpenFails, RingFails, Progress, Byte
<1>4. CASE StartExecutor
  BY <1>0, <1>4 DEF StartExecutor, Concurrency, Progress, Byte
<1>5. CASE TasksCrash \/ WriteNothing \/ WriteAll \/ LoseDirectory
              \/ WriteToClosed \/ DiskRefuses
  BY <1>0, <1>5 DEF TasksCrash, WriteNothing, WriteAll, LoseDirectory,
                    WriteToClosed, DiskRefuses, Writing, Progress, Byte
<1>6. CASE Delete
  <2>1. /\ pc = "delete" /\ level # 0
        /\ tested' = tested \cup {<<level, test>>}
        /\ tested = Before(level, test) /\ level % 2 = 0 /\ level <= hardware
    BY <1>0, <1>6 DEF Delete, EndRun, Progress
  <2>2. CASE test < 5
    <3>1. pc' = "format" /\ test' = test + 1 /\ level' = level
      BY <1>0, <1>6, <2>2 DEF Delete, EndRun
    <3>2. tested' = Before(level', test')
      BY <1>0, <2>1, <2>2, <3>1, BeforeNextTest
    <3> QED
      BY <1>0, <2>1, <3>1, <3>2 DEF Progress, Byte
  <2>3. CASE test = 5 /\ level # 254
    <3>1. /\ pc' = "level" /\ test' = 1 /\ level' = level + 2
          /\ level' % 2 = 0 /\ level' # 0
      BY <1>0, <1>6, <2>1, <2>3 DEF Delete, EndRun, NextLevel, Byte
    <3>2. tested' = Before(level', test')
      BY <1>0, <2>1, <2>3, <3>1, BeforeNextLevel
    <3> QED
      BY <1>0, <2>1, <3>1, <3>2 DEF Progress, Byte
  <2>4. CASE test = 5 /\ level = 254
    <3>1. pc' = "level" /\ test' = 1 /\ level' = 0
      BY <1>0, <1>6, <2>4 DEF Delete, EndRun, NextLevel
    <3>2. tested' = EvenLevels(254) \X (1 .. 5)
      BY <2>1, <2>4, BeforeTheEnd
    <3> QED
      BY <1>0, <2>1, <2>4, <3>1, <3>2 DEF Progress, Byte
  <2> QED
    BY <1>0, <2>2, <2>3, <2>4
<1>7. CASE DeleteCrashes \/ DeleteAborts
  BY <1>0, <1>7 DEF DeleteCrashes, DeleteAborts, Progress, Byte
<1>8. CASE Stopped \/ UNCHANGED vars
  BY <1>8 DEF Stopped, vars, Progress
<1> QED
  BY <1>1, <1>2, <1>3, <1>4, <1>5, <1>6, <1>7, <1>8, <1>9 DEF Next

LEMMA ProgressEnds == BenchTypeOK /\ Progress => EndsAfterAll
<1> SUFFICES ASSUME BenchTypeOK, Progress, pc = "ended", options.full
             PROVE  tested = EvenLevels(hardware) \X (1 .. 5)
  BY DEF EndsAfterAll, AllTested
<1>1. /\ level \in Byte /\ hardware \in Nat /\ level # 0 /\ level % 2 = 0
      /\ hardware < level
      /\ (level = 2 \/ level - 2 <= hardware)
      /\ tested = Before(level, 1)
  BY BenchAssumption DEF BenchTypeOK, Progress
<1>2. ASSUME NEW a \in Byte, NEW b \in 1 .. 5
      PROVE  <<a, b>> \in Before(level, 1) <=> a \in EvenLevels(hardware)
  BY <1>1 DEF Before, EvenLevels, Byte
<1>3. EvenLevels(hardware) \subseteq Byte
  BY <1>1 DEF EvenLevels, Byte
<1>4. Before(level, 1) \subseteq Byte \X (1 .. 5)
  BY DEF Before
<1>5. ASSUME NEW p \in Byte \X (1 .. 5)
      PROVE  p \in Before(level, 1) <=> p \in EvenLevels(hardware) \X (1 .. 5)
  <2>1. PICK a \in Byte, b \in 1 .. 5 : p = <<a, b>>
    OBVIOUS
  <2> QED
    BY <2>1, <1>2
<1> QED
  BY <1>1, <1>3, <1>4, <1>5

(* A full run that ends has made every test at every level and no other,   *)
(* whatever the machine (the loop of main, iobench.cpp:216-220).           *)
THEOREM AllLevelsRun == Spec => []EndsAfterAll
<1> QED
  BY BenchTypeInit, BenchTypeStep, ProgressInit, ProgressStep, ProgressEnds,
     PTL DEF Spec

-----------------------------------------------------------------------------
(* Failures and the file *)

(* What is known, at the places of a run, of its file.  A failure of       *)
(* encodeInit means no serializers, in a run that needs them.              *)
RunState ==
  /\ ~options.full => (options.kind.store /\ pc # "level")
  /\ pc \in {"level", "format", "encodeInit", "ended"} =>
       (~serializers /\ descriptors = 0 /\ ~failed)
  /\ pc \in {"executor", "tasks", "delete"} =>
       ((Kind.store => (failed <=> ~serializers)) /\ (~Kind.store => ~failed))
  /\ pc \in {"tasks", "delete"} => Concurrency # 0

(* The kind of the last run, between two levels or at the end. *)
LastKind == IF options.full THEN FullRuns[5] ELSE options.kind

(* The last run that has ended left a complete file, unless the image or   *)
(* the disk stood in its way.                                              *)
FileState ==
  image # {"empty"} /\ "huge" \notin image /\ ~refused =>
    /\ pc = "delete" /\ Kind.store /\ serializers =>
         (Miscounted \/ file = "complete")
    /\ pc \in {"level", "ended"} /\ (options.full => tested # {}) =>
         ((LastKind.chunked /\ "miscounted" \in image) \/ file = "complete")

(* Why the process has crashed, without a failure of encodeInit or of the  *)
(* disk.                                                                   *)
Crash ==
  pc = "crashed" /\ ~failed /\ ~refused =>
    \/ Concurrency = 0
    \/ ~Kind.store /\ "wide" \in image
    \/ Kind.chunked /\ "unbuildable" \in image
    \/ Miscounted

(* How far a full run comes that cannot get past a certain test. *)
Halts ==
  options.full =>
    /\ "wide" \in image => (level = 2 /\ test = 1 /\ pc # "delete")
    /\ "unbuildable" \in image =>
         /\ level = 2 /\ test <= 4
         /\ test = 4 => pc \in {"format", "crashed"}

RunInv == BenchTypeOK /\ RunState /\ FileState /\ Crash /\ Halts

LEMMA RunInit == Init => RunState /\ FileState /\ Crash /\ Halts
<1> SUFFICES ASSUME Init PROVE RunState /\ FileState /\ Crash /\ Halts
  OBVIOUS
<1>1. PICK synch \in BOOLEAN, direct \in BOOLEAN, chunked \in BOOLEAN,
           c \in Concurrencies \cup {Unset} :
        options = Options(synch, direct, chunked, c)
  BY DEF Init
<1>2. ~options.full => options.kind.store
  BY <1>1 DEF Options, RunKind
<1>3. /\ pc \in {"level", "format"} /\ serializers = FALSE
      /\ (options.full <=> pc = "level")
      /\ level = 2 /\ test = 1
      /\ descriptors = 0 /\ failed = FALSE /\ tested = {}
  BY DEF Init
<1> QED
  BY <1>2, <1>3 DEF RunState, FileState, Crash, Halts

(* The kind of a run and its concurrency depend on what a step inside the  *)
(* run leaves alone.                                                       *)
LEMMA SameRun ==
  ASSUME UNCHANGED <<inputs, level, test>>
  PROVE  /\ Kind' = Kind /\ Concurrency' = Concurrency
         /\ Miscounted' = Miscounted /\ LastKind' = LastKind
BY DEF Kind, Concurrency, Miscounted, LastKind, inputs

(* Which of the five runs store, and which have chunks. *)
LEMMA KindsOfRuns ==
  /\ FullRuns[5].store
  /\ \A t \in 1 .. 5 : FullRuns[t].chunked => t \in {4, 5}
<1>1. FullRuns[5] = RunKind(TRUE, TRUE, TRUE, TRUE)
  BY DEF FullRuns
<1>2. /\ FullRuns[1] = RunKind(FALSE, FALSE, FALSE, FALSE)
      /\ FullRuns[2] = RunKind(TRUE, FALSE, FALSE, FALSE)
      /\ FullRuns[3] = RunKind(TRUE, FALSE, TRUE, FALSE)
  BY DEF FullRuns
<1>3. ~FullRuns[1].chunked /\ ~FullRuns[2].chunked /\ ~FullRuns[3].chunked
  BY <1>2 DEF RunKind
<1>4. FullRuns[5].store
  BY <1>1 DEF RunKind
<1> QED
  BY <1>3, <1>4

(* The runs before the fourth test of the first level. *)
LEMMA BeforeFourth == Before(2, 4) = {2} \X (1 .. 3)
<1>1. ASSUME NEW p \in Byte \X (1 .. 5)
      PROVE  p \in Before(2, 4) <=> p \in {2} \X (1 .. 3)
  <2>1. PICK a \in Byte, b \in 1 .. 5 : p = <<a, b>>
    OBVIOUS
  <2>2. p \in {2} \X (1 .. 3) <=> a = 2 /\ b \in 1 .. 3
    BY <2>1
  <2> QED
    BY <2>1, <2>2 DEF Before, Byte
<1>2. /\ Before(2, 4) \subseteq Byte \X (1 .. 5)
      /\ {2} \X (1 .. 3) \subseteq Byte \X (1 .. 5)
  BY DEF Before, Byte
<1> QED
  BY <1>1, <1>2

LEMMA HaltsStep == RunInv /\ [Next]_vars => Halts'
<1> SUFFICES ASSUME RunInv, [Next]_vars, options'.full PROVE Halts'
  BY DEF Halts
<1> USE DEF RunInv, inputs, format
<1>0. /\ options' = options /\ image' = image /\ options.full
      /\ test \in 1 .. 5
  <2>1. options' = options /\ image' = image
    BY DEF Next, vars, TestLevel, CreateFormat, SkipInit, EncodeInit,
           OpenFails, RingFails, StartExecutor, TasksCrash, WriteNothing,
           WriteAll, LoseDirectory, WriteToClosed, DiskRefuses, Writing,
           Delete, DeleteCrashes, DeleteAborts, Stopped
  <2> QED
    BY <2>1 DEF BenchTypeOK
<1>k. Kind = FullRuns[test]
  BY <1>0 DEF Kind
<1>s. test = 1 => ~Kind.store
  <2>1. FullRuns[1] = RunKind(FALSE, FALSE, FALSE, FALSE)
    BY DEF FullRuns
  <2> QED
    BY <1>k, <2>1 DEF RunKind
<1>c. test = 4 => Kind.chunked
  <2>1. FullRuns[4] = RunKind(TRUE, TRUE, FALSE, TRUE)
    BY DEF FullRuns
  <2> QED
    BY <1>k, <2>1 DEF RunKind
<1>1. CASE TestLevel
  <2>1. pc = "level" /\ pc' \in {"format", "ended"}
        /\ UNCHANGED <<level, test>>
    BY <1>1 DEF TestLevel
  <2>2. test # 4 \/ "unbuildable" \notin image
    BY <1>0, <2>1 DEF Halts
  <2> QED
    BY <1>0, <2>1, <2>2 DEF Halts
<1>2. CASE CreateFormat
  <2>1. UNCHANGED <<level, test>> /\ pc' \in {"crashed", "encodeInit"}
        /\ (Kind.chunked /\ "unbuildable" \in image => pc' = "crashed")
    BY <1>2 DEF CreateFormat
  <2> QED
    BY <1>0, <1>c, <2>1 DEF Halts
<1>3. CASE SkipInit \/ EncodeInit \/ OpenFails \/ RingFails
  <2>1. /\ pc = "encodeInit" /\ pc' = "executor" /\ UNCHANGED <<level, test>>
    BY <1>3 DEF SkipInit, EncodeInit, OpenFails, RingFails
  <2> QED
    BY <1>0, <2>1 DEF Halts
<1>4. CASE StartExecutor
  <2>1. /\ pc = "executor" /\ pc' \in {"crashed", "tasks"}
        /\ UNCHANGED <<level, test>>
    BY <1>4 DEF StartExecutor
  <2> QED
    BY <1>0, <2>1 DEF Halts
<1>5. CASE TasksCrash \/ WriteNothing \/ WriteAll \/ LoseDirectory
              \/ WriteToClosed \/ DiskRefuses
  <2>1. /\ pc = "tasks" /\ pc' \in {"crashed", "delete"}
        /\ UNCHANGED <<level, test>>
    BY <1>5 DEF TasksCrash, WriteNothing, WriteAll, LoseDirectory,
                WriteToClosed, DiskRefuses, Writing
  <2>2. pc' = "delete" => (Kind.store \/ "wide" \notin image)
    BY <1>5 DEF TasksCrash, WriteNothing, WriteAll, LoseDirectory,
                WriteToClosed, DiskRefuses, Writing
  <2> QED
    BY <1>0, <1>s, <2>1, <2>2 DEF Halts
<1>6. CASE Delete
  <2>1. pc = "delete" /\ EndRun
    BY <1>6 DEF Delete
  <2>2. "wide" \notin image
    BY <1>0, <2>1 DEF Halts
  <2>3. CASE "unbuildable" \in image
    <3>1. level = 2 /\ test < 4
      BY <1>0, <2>1, <2>3 DEF Halts
    <3>2. pc' = "format" /\ test' = test + 1 /\ level' = level
      BY <1>0, <2>1, <3>1 DEF EndRun
    <3> QED
      BY <1>0, <2>2, <3>1, <3>2 DEF Halts
  <2>4. CASE "unbuildable" \notin image
    BY <1>0, <2>2, <2>4 DEF Halts
  <2> QED
    BY <2>3, <2>4
<1>7. CASE DeleteCrashes \/ DeleteAborts
  <2>1. pc' = "crashed" /\ UNCHANGED <<level, test>>
    BY <1>7 DEF DeleteCrashes, DeleteAborts
  <2> QED
    BY <1>0, <2>1 DEF Halts
<1>8. CASE Stopped \/ UNCHANGED vars
  BY <1>8 DEF Stopped, vars, Halts
<1> QED
  BY <1>1, <1>2, <1>3, <1>4, <1>5, <1>6, <1>7, <1>8 DEF Next

LEMMA RunStep == RunInv /\ [Next]_vars => RunInv'
<1> SUFFICES ASSUME RunInv, [Next]_vars PROVE (RunState /\ FileState /\ Crash)'
  BY BenchTypeStep, HaltsStep DEF RunInv
<1> USE DEF RunInv, format
<1>0. Kind.store \in BOOLEAN /\ serializers \in BOOLEAN /\ failed \in BOOLEAN
      /\ options.full \in BOOLEAN /\ refused \in BOOLEAN
  BY KindType DEF BenchTypeOK
<1>1. CASE TestLevel
  <2>1. /\ pc = "level" /\ pc' \in {"ended", "format"}
        /\ options' = options /\ image' = image
        /\ UNCHANGED <<serializers, descriptors, file, failed, refused, tested>>
        /\ LastKind' = LastKind
    BY <1>1, SameRun DEF TestLevel, inputs
  <2> QED
    BY <1>0, <2>1 DEF RunState, FileState, Crash
<1>2. CASE CreateFormat
  <2>1. /\ pc = "format" /\ pc' \in {"crashed", "encodeInit"}
        /\ UNCHANGED <<options, image, serializers, descriptors, failed>>
        /\ Kind' = Kind
        /\ pc' = "crashed" => (Kind.chunked /\ "unbuildable" \in image)
    BY <1>2, SameRun DEF CreateFormat, inputs
  <2> QED
    BY <1>0, <2>1 DEF RunState, FileState, Crash
<1>3. CASE SkipInit
  BY <1>0, <1>3, SameRun DEF SkipInit, RunState, FileState, Crash, inputs
<1>4. CASE EncodeInit
  BY <1>0, <1>4, SameRun DEF EncodeInit, RunState, FileState, Crash, inputs
<1>5. CASE OpenFails
  BY <1>0, <1>5, SameRun DEF OpenFails, RunState, FileState, Crash, inputs
<1>6. CASE RingFails
  BY <1>0, <1>6, SameRun DEF RingFails, RunState, FileState, Crash, inputs
<1>7. CASE StartExecutor
  BY <1>0, <1>7, SameRun DEF StartExecutor, RunState, FileState, Crash, inputs
<1>8. CASE TasksCrash \/ WriteNothing \/ WriteAll \/ LoseDirectory
              \/ WriteToClosed \/ DiskRefuses
  <2>1. /\ pc = "tasks" /\ pc' \in {"crashed", "delete"}
        /\ UNCHANGED <<options, image, serializers, failed>>
        /\ Kind' = Kind /\ Concurrency' = Concurrency
        /\ Miscounted' = Miscounted
    BY <1>8, SameRun DEF TasksCrash, WriteNothing, WriteAll, LoseDirectory,
                         WriteToClosed, DiskRefuses, Writing, inputs
  <2>2. RunState'
    BY <2>1 DEF RunState
  <2>3. FileState'
    BY <1>8, <2>1 DEF TasksCrash, WriteNothing, WriteAll, LoseDirectory,
                      WriteToClosed, DiskRefuses, Writing, FileState
  <2>4. Crash'
    <3> SUFFICES ASSUME pc' = "crashed", ~failed, ~refused'
                 PROVE  (~Kind.store /\ "wide" \in image) \/ Miscounted
      BY <2>1 DEF Crash
    <3>1. TasksCrash \/ WriteToClosed
      BY <1>8 DEF WriteNothing, WriteAll, LoseDirectory, DiskRefuses
    <3>2. CASE TasksCrash
      BY <1>0, <2>1, <3>2 DEF TasksCrash, RunState
    <3> QED
      BY <3>1, <3>2 DEF WriteToClosed
  <2> QED
    BY <2>2, <2>3, <2>4
<1>9. CASE Delete
  <2>1. /\ pc = "delete" /\ (Kind.store => serializers)
        /\ serializers' = FALSE /\ descriptors' = 0
        /\ UNCHANGED <<options, hardware, image, file, failed, refused>>
        /\ EndRun
    BY <1>9 DEF Delete, inputs
  <2>2. ~failed
    BY <1>0, <2>1 DEF RunState
  <2>3. CASE options.full /\ test < 5
    BY <1>0, <2>1, <2>2, <2>3 DEF EndRun, RunState, FileState, Crash
  <2>4. CASE ~(options.full /\ test < 5)
    <3>1. Kind = LastKind /\ LastKind' = LastKind
      BY <1>0, <2>1, <2>4 DEF Kind, LastKind, BenchTypeOK
    <3>2. LastKind.store
      BY KindsOfRuns DEF LastKind, RunState
    <3>3. pc' \in {"level", "ended"} /\ (options.full <=> pc' = "level")
      BY <2>1, <2>4 DEF EndRun
    <3>4. image # {"empty"} /\ "huge" \notin image /\ ~refused
            => (Miscounted \/ file = "complete")
      BY <2>1, <3>1, <3>2 DEF FileState
    <3> QED
      BY <1>0, <2>1, <2>2, <3>1, <3>3, <3>4
         DEF RunState, FileState, Crash, Miscounted
  <2> QED
    BY <2>3, <2>4
<1>10. CASE DeleteCrashes
  BY <1>0, <1>10, SameRun DEF DeleteCrashes, RunState, FileState, Crash, inputs
<1>11. CASE DeleteAborts
  BY <1>0, <1>11, SameRun DEF DeleteAborts, RunState, FileState, Crash, inputs
<1>12. CASE Stopped \/ UNCHANGED vars
  <2>1. UNCHANGED vars
    BY <1>12 DEF Stopped
  <2> QED
    BY <2>1, SameRun DEF vars, inputs, RunState, FileState, Crash
<1> QED
  BY <1>1, <1>2, <1>3, <1>4, <1>5, <1>6, <1>7, <1>8, <1>9, <1>10, <1>11, <1>12
     DEF Next

LEMMA NormalExit == RunInv => NormalExitIsSuccess
<1> SUFFICES ASSUME RunInv PROVE NormalExitIsSuccess
  OBVIOUS
<1>1. pc \in {"level", "ended"} => descriptors = 0 /\ ~failed
  BY DEF RunInv, RunState
<1>2. ASSUME pc = "ended", options.full => tested # {}, image # {"empty"},
             "huge" \notin image, ~refused,
             "miscounted" \in image => ~options.full /\ ~options.kind.chunked
      PROVE  file = "complete"
  BY <1>2 DEF RunInv, FileState, LastKind
<1> QED
  BY <1>1, <1>2 DEF NormalExitIsSuccess

LEMMA Crashes == RunInv /\ Progress => CrashesExplained
<1> SUFFICES ASSUME RunInv, Progress, pc = "crashed", ~failed, ~refused
             PROVE  CrashesExplained
  BY DEF CrashesExplained
<1>1. /\ options.full \in BOOLEAN /\ test \in 1 .. 5
      /\ options.concurrency \in Nat /\ hardware \in Nat
  BY BenchAssumption DEF RunInv, BenchTypeOK
<1>2. CASE Concurrency = 0
  <2>1. CASE options.full
    BY <1>1, <1>2, <2>1 DEF Concurrency, Progress, CrashesExplained
  <2>2. CASE ~options.full
    BY <1>1, <1>2, <2>2 DEF Concurrency, CrashesExplained
  <2> QED
    BY <1>1, <2>1, <2>2
<1>3. CASE ~Kind.store /\ "wide" \in image
  <2>1. options.full
    BY <1>3 DEF RunInv, RunState, Kind
  <2>2. level = 2 /\ test = 1
    BY <1>3, <2>1 DEF RunInv, Halts
  <2>3. tested = Before(2, 1)
    BY <2>1, <2>2 DEF Progress
  <2>4. tested = {}
    BY <2>3 DEF Before, Byte
  <2> QED
    BY <1>3, <2>1, <2>4 DEF CrashesExplained
<1>4. CASE Kind.chunked /\ "unbuildable" \in image
  <2>1. CASE options.full
    <3>1. test \in {4, 5}
      BY <1>1, <1>4, <2>1, KindsOfRuns DEF Kind
    <3>2. level = 2 /\ test = 4
      BY <1>4, <2>1, <3>1 DEF RunInv, Halts
    <3>3. tested = {2} \X (1 .. 3)
      BY <2>1, <3>2, BeforeFourth DEF Progress
    <3> QED
      BY <1>4, <3>3 DEF CrashesExplained
  <2>2. CASE ~options.full
    BY <1>4, <2>2 DEF CrashesExplained
  <2> QED
    BY <1>1, <2>1, <2>2
<1>5. CASE Miscounted
  BY <1>5 DEF Miscounted, CrashesExplained
<1> QED
  BY <1>2, <1>3, <1>4, <1>5 DEF RunInv, Crash

(* Unless encodeInit failed or the disk refused something in this run, the *)
(* process crashes only for a strip wider than a stack, for chunks that    *)
(* cannot be built or are miscounted, for a machine that does not tell its *)
(* concurrency, or, with 254 threads and more, at the level 0 behind all   *)
(* others (iobench.cpp:55, 64, 83, 118, 217, 225).                         *)
THEOREM CrashesOnlyThen == Spec => []CrashesExplained
<1>1. Init => RunInv /\ Progress
  BY BenchTypeInit, RunInit, ProgressInit DEF RunInv
<1>2. RunInv /\ Progress /\ [Next]_vars => (RunInv /\ Progress)'
  BY RunStep, ProgressStep DEF RunInv
<1> QED
  BY <1>1, <1>2, Crashes, PTL DEF Spec

(* A normal exit leaves no descriptor open and comes after no failure of   *)
(* encodeInit; what is known of the file then depends on the last run      *)
(* alone: with something to write that a TIFF can hold, writes counted     *)
(* right and no refusal of the disk in it, the file is complete            *)
(* (iobench.cpp:59, 134-136, 216-220; ImageFormat.cpp:102-164).            *)
THEOREM NormalExits == Spec => []NormalExitIsSuccess
<1>1. Init => RunInv
  BY BenchTypeInit, RunInit DEF RunInv
<1> QED
  BY <1>1, RunStep, NormalExit, PTL DEF Spec

=============================================================================
