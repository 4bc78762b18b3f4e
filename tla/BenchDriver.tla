---------------------------- MODULE BenchDriver ----------------------------
(***************************************************************************)
(* The benchmark driver (src/src/iobench.cpp): main turns the options into *)
(* one run, or into five runs for every concurrency level.  A run creates  *)
(* a TIFFFormat and, to store, removes the file and calls encodeInit,      *)
(* whose result it ignores; it creates an executor with a thread for each  *)
(* unit of concurrency, runs the strips' tasks, waits, and deletes all.    *)
(*                                                                         *)
(* The tasks of a run are one step here, with the outcomes they have in    *)
(* ParallelEncode and TiffFinish: what counts is what becomes of the       *)
(* process and of the file.  A "crash" is the end of the process by a      *)
(* signal, by an assertion or by an exception that nobody catches.         *)
(***************************************************************************)
EXTENDS Naturals, FiniteSets

CONSTANTS
  Machines,        \* values of std::thread::hardware_concurrency()
  Concurrencies,   \* values of the option -c
  Unset            \* an option that is not given

ASSUME BenchAssumption ==
  Machines \subseteq Nat /\ Concurrencies \subseteq Nat /\ Unset \notin Nat

(* A uint8_t. *)
Byte == 0 .. 255

(* What can be peculiar about an image: it has no row, hence no strip; its *)
(* strips do not fit on the stack of a thread; it trips an assertion where *)
(* its chunks are built (one that EndsAligned of ChunkPlan describes); its *)
(* chunks are one more than are counted (one without HeaderFits there); a  *)
(* classic TIFF cannot address it.                                         *)
Traits == {"empty", "wide", "unbuildable", "miscounted", "huge"}

Images ==
  { image \in SUBSET Traits :
      /\ "empty" \in image => image = {"empty"}
      /\ ~({"unbuildable", "miscounted"} \subseteq image) }

(* One run: the parameters of the static function run. *)
RunKind(store, direct, asynch, chunked) ==
  [store |-> store, direct |-> direct, asynch |-> asynch, chunked |-> chunked]

(* The five runs of a concurrency level. *)
FullRuns == << RunKind(FALSE, FALSE, FALSE, FALSE),
               RunKind(TRUE,  FALSE, FALSE, FALSE),
               RunKind(TRUE,  FALSE, TRUE,  FALSE),
               RunKind(TRUE,  TRUE,  FALSE, TRUE),
               RunKind(TRUE,  TRUE,  TRUE,  TRUE) >>

(* The options -s, -d, -k and -c after main has read them: -d turns the    *)
(* chunks on, and -c, whatever its value, the full run off.  The full run  *)
(* ignores the others.                                                     *)
Options(synch, direct, chunked, c) ==
  IF c = Unset
  THEN [full |-> TRUE, concurrency |-> 0, kind |-> FullRuns[1]]
  ELSE [full |-> FALSE, concurrency |-> c,
        kind |-> RunKind(TRUE, direct, ~synch, direct \/ chunked)]

VARIABLES
  options, hardware, image,   \* what the program is given
  level,         \* the loop variable, a byte
  test,          \* which of the five runs of the level
  pc,
  serializers,   \* workerSerializers_ is allocated
  descriptors,   \* open descriptors of the output file
  file,          \* the output file: "absent", "empty", "incomplete" or "complete"
  failed,        \* the file, or the ring of the main serializer, failed to open
  refused,       \* in this run the disk failed, or cut short, a request
  tested         \* the runs of the full run that are over

inputs == <<options, hardware, image>>
format == <<serializers, descriptors, file, failed, refused>>

vars == <<inputs, level, test, pc, format, tested>>

Init ==
  /\ \E synch, direct, chunked \in BOOLEAN, c \in Concurrencies \cup {Unset} :
       options = Options(synch, direct, chunked, c)
  /\ hardware \in Machines /\ image \in Images
  /\ level = 2 /\ test = 1
  /\ pc = IF options.full THEN "level" ELSE "format"
  /\ serializers = FALSE /\ descriptors = 0 /\ file = "absent"
  /\ failed = FALSE /\ refused = FALSE /\ tested = {}

Kind == IF options.full THEN FullRuns[test] ELSE options.kind

(* Mutant: -c 0 is taken at its word. *)
ConcurrencyAsGiven == IF options.full THEN level ELSE options.concurrency

(* The parameter concurrency of run: -c 0 stands for all of the machine. *)
Concurrency ==
  IF options.full THEN level
  ELSE IF options.concurrency > 0 THEN options.concurrency ELSE hardware

-----------------------------------------------------------------------------
(* The loop of the full run, with a byte for its variable. *)
TestLevel ==
  /\ pc = "level"
  /\ pc' = IF level <= hardware THEN "format" ELSE "ended"
  /\ UNCHANGED <<inputs, level, test, format, tested>>

(* The TIFFFormat, and with init the strips and, if they are asked for,    *)
(* their chunks.                                                           *)
CreateFormat ==
  /\ pc = "format"
  /\ pc' = IF Kind.chunked /\ "unbuildable" \in image
           THEN "crashed" ELSE "encodeInit"
  /\ refused' = FALSE
  /\ UNCHANGED <<inputs, level, test, serializers, descriptors, file, failed,
                 tested>>

(* A run without a store does not call encodeInit. *)
SkipInit ==
  /\ pc = "encodeInit" /\ ~Kind.store
  /\ pc' = "executor"
  /\ UNCHANGED <<inputs, level, test, format, tested>>

(* The old file is removed, the new one opened; a ring for each worker is  *)
(* tried next, with no regard to the outcome.                              *)
EncodeInit ==
  /\ pc = "encodeInit" /\ Kind.store
  /\ pc' = "executor"
  /\ descriptors' = descriptors + 1 /\ file' = "empty"
  /\ serializers' = TRUE
  /\ UNCHANGED <<inputs, level, test, failed, refused, tested>>

(* open(2) fails, as it may for O_DIRECT; nobody looks at the result. *)
OpenFails ==
  /\ pc = "encodeInit" /\ Kind.store
  /\ pc' = "executor"
  /\ file' = "absent" /\ failed' = TRUE
  /\ UNCHANGED <<inputs, level, test, serializers, descriptors, refused, tested>>

(* The main serializer's ring fails after the file is open: FileIOUnix     *)
(* forgets the descriptor.                                                 *)
RingFails ==
  /\ pc = "encodeInit" /\ Kind.store /\ Kind.asynch
  /\ pc' = "executor"
  /\ descriptors' = descriptors + 1 /\ file' = "empty" /\ failed' = TRUE
  /\ UNCHANGED <<inputs, level, test, serializers, refused, tested>>

(* Mutant: an executor without threads is let through; nothing runs in it. *)
StartExecutorAnyway ==
  /\ pc = "executor"
  /\ pc' = IF Concurrency = 0 THEN "delete" ELSE "tasks"
  /\ UNCHANGED <<inputs, level, test, format, tested>>

(* Executor's constructor throws without threads to create. *)
StartExecutor ==
  /\ pc = "executor"
  /\ pc' = IF Concurrency = 0 THEN "crashed" ELSE "tasks"
  /\ UNCHANGED <<inputs, level, test, format, tested>>

-----------------------------------------------------------------------------
(* The tasks *)

(* To store, each task needs the serializer of its worker; otherwise it    *)
(* keeps its strip on the stack.                                           *)
TasksCrash ==
  /\ pc = "tasks" /\ image # {"empty"}
  /\ IF Kind.store THEN ~serializers ELSE "wide" \in image
  /\ pc' = "crashed"
  /\ UNCHANGED <<inputs, level, test, format, tested>>

(* There is nothing to write: no store, or not a single strip. *)
WriteNothing ==
  /\ pc = "tasks"
  /\ IF Kind.store THEN image = {"empty"} ELSE "wide" \notin image
  /\ pc' = "delete"
  /\ UNCHANGED <<inputs, level, test, format, tested>>

Writing ==
  pc = "tasks" /\ Kind.store /\ serializers /\ image # {"empty"}

Miscounted == Kind.chunked /\ "miscounted" \in image

(* All strips are written, the last write runs encodeFinish, which closes  *)
(* the file.                                                               *)
WriteAll ==
  /\ Writing /\ "huge" \notin image
  /\ pc' = "delete"
  /\ file' = "complete" /\ descriptors' = 0
  /\ UNCHANGED <<inputs, level, test, serializers, failed, refused, tested>>

(* The directory does not fit into the file (LostAtLimitOnly), or its turn *)
(* never comes because the count of writes misses its maximum.  The result *)
(* of encodeFinish is ignored; the file may still be open.                 *)
LoseDirectory ==
  /\ Writing /\ ("huge" \in image \/ Miscounted)
  /\ pc' = "delete"
  /\ file' = "incomplete" /\ descriptors' \in {0, descriptors}
  /\ UNCHANGED <<inputs, level, test, serializers, failed, refused, tested>>

(* The file is closed one write too early: the assertion on that write.    *)
WriteToClosed ==
  /\ Writing /\ Miscounted
  /\ pc' = "crashed" /\ file' = "incomplete"
  /\ UNCHANGED <<inputs, level, test, serializers, descriptors, failed,
                 refused, tested>>

(* The disk fails or cuts short a write, an fsync or the reopening.  What  *)
(* is noticed is asserted: the result of encodePixels, that of fsync.  The *)
(* failure of a request of io_uring, a short write that is taken for       *)
(* complete and what encodeFinish returns are not.                         *)
DiskRefuses ==
  /\ Writing
  /\ refused' = TRUE /\ file' = "incomplete"
  /\ \/ pc' = "crashed" /\ UNCHANGED descriptors
     \/ pc' = "delete" /\ descriptors' \in {0, descriptors}
  /\ UNCHANGED <<inputs, level, test, serializers, failed, tested>>

-----------------------------------------------------------------------------
(* The end of a run *)

(* The loop's increment. *)
NextLevel == (level + 2) % 256

(* Mutant: the fifth run is forgotten. *)
EndRunOneShort ==
  IF options.full
  THEN /\ tested' = tested \cup {<<level, test>>}
       /\ IF test < 4
          THEN pc' = "format" /\ test' = test + 1 /\ UNCHANGED level
          ELSE pc' = "level" /\ test' = 1 /\ level' = NextLevel
  ELSE pc' = "ended" /\ UNCHANGED <<level, test, tested>>

(* What comes after a run: the next one of the level, or the next level. *)
EndRun ==
  IF options.full
  THEN /\ tested' = tested \cup {<<level, test>>}
       /\ IF test < 5
          THEN pc' = "format" /\ test' = test + 1 /\ UNCHANGED level
          ELSE pc' = "level" /\ test' = 1 /\ level' = NextLevel
  ELSE pc' = "ended" /\ UNCHANGED <<level, test, tested>>

(* Mutant: the destructor leaves the file open. *)
DeleteUnclosed ==
  /\ pc = "delete" /\ (Kind.store => serializers)
  /\ serializers' = FALSE
  /\ EndRun
  /\ UNCHANGED <<inputs, descriptors, file, failed, refused>>

(* ~ImageFormat closes the rings of the workers and the file, *)
Delete ==
  /\ pc = "delete" /\ (Kind.store => serializers)
  /\ serializers' = FALSE /\ descriptors' = 0
  /\ EndRun
  /\ UNCHANGED <<inputs, file, failed, refused>>

(* and goes through the workers' serializers although there may be none:   *)
(* concurrency_ is set first of all by encodeInit.                         *)
DeleteCrashes ==
  /\ pc = "delete" /\ Kind.store /\ ~serializers
  /\ pc' = "crashed"
  /\ UNCHANGED <<inputs, level, test, format, tested>>

(* The fsync of a file that encodeFinish did not close: its assertion. *)
DeleteAborts ==
  /\ pc = "delete" /\ serializers /\ descriptors # 0
  /\ pc' = "crashed" /\ refused' = TRUE
  /\ UNCHANGED <<inputs, level, test, serializers, descriptors, file, failed,
                 tested>>

Stopped == pc \in {"ended", "crashed"} /\ UNCHANGED vars

Next ==
  \/ TestLevel
  \/ CreateFormat \/ SkipInit \/ EncodeInit \/ OpenFails \/ RingFails
  \/ StartExecutor
  \/ TasksCrash \/ WriteNothing \/ WriteAll \/ LoseDirectory
  \/ WriteToClosed \/ DiskRefuses
  \/ Delete \/ DeleteCrashes \/ DeleteAborts
  \/ Stopped

(* The main thread keeps running, and the tasks of a run end (Completes in *)
(* ParallelEncode).                                                        *)
Spec == Init /\ [][Next]_vars /\ WF_vars(Next)

-----------------------------------------------------------------------------
(* Properties *)

(* The variables have their types. *)
BenchTypeOK ==
  /\ options \in [full : BOOLEAN, concurrency : Nat,
                  kind : [store : BOOLEAN, direct : BOOLEAN, asynch : BOOLEAN,
                          chunked : BOOLEAN]]
  /\ hardware \in Machines /\ image \in Images
  /\ level \in Byte /\ test \in 1 .. 5
  /\ pc \in {"level", "format", "encodeInit", "executor", "tasks", "delete",
             "ended", "crashed"}
  /\ serializers \in BOOLEAN /\ failed \in BOOLEAN /\ refused \in BOOLEAN
  /\ descriptors \in Nat
  /\ file \in {"absent", "empty", "incomplete", "complete"}
  /\ tested \subseteq Byte \X (1 .. 5)

EvenLevels(n) == { l \in 2 .. n : l % 2 = 0 }

AllTested == tested = EvenLevels(hardware) \X (1 .. 5)

(* A full run that comes to its end has made every one of the five tests   *)
(* at every even level up to the concurrency of the machine, and no other  *)
(* (the loop of main around the static function run).                      *)
EndsAfterAll == pc = "ended" /\ options.full => AllTested

(* Unless the file or its ring did not open, or the disk refused something *)
(* in this very run, the process ends abnormally only for one of these:    *)
(* a strip of the full run's first test does not fit on a thread's stack;  *)
(* the chunks cannot be built, which the full run meets in its fourth      *)
(* test; they are miscounted; the machine does not tell its concurrency;   *)
(* or the loop of the full run comes round to 0, on machines with 254      *)
(* threads or more and after all the others.                               *)
CrashesExplained ==
  pc = "crashed" /\ ~failed /\ ~refused =>
    \/ options.full /\ "wide" \in image /\ tested = {}
    \/ /\ Kind.chunked /\ "unbuildable" \in image
       /\ options.full => tested = {2} \X (1 .. 3)
    \/ Kind.chunked /\ "miscounted" \in image
    \/ ~options.full /\ hardware = 0 /\ options.concurrency = 0
    \/ options.full /\ hardware >= 254 /\ tested = EvenLevels(254) \X (1 .. 5)

(* A process that ends normally has left no descriptor behind in any of    *)
(* its runs, and none of the failures of encodeInit, which run ignores,    *)
(* ends so.  The file is complete if the last run had anything to write,   *)
(* a TIFF can hold it, its writes were counted right and the disk refused  *)
(* none of them: refusals of earlier runs leave no trace.                  *)
NormalExitIsSuccess ==
  /\ pc \in {"level", "ended"} => descriptors = 0
  /\ pc = "ended" =>
       /\ ~failed
       /\ /\ options.full => tested # {}
          /\ image # {"empty"} /\ "huge" \notin image /\ ~refused
          /\ "miscounted" \in image => ~options.full /\ ~options.kind.chunked
          => file = "complete"

(* The loop over the levels ends on every machine, although its variable   *)
(* is a byte that never exceeds a concurrency of 255 or more.              *)
Terminates == <>(pc \in {"ended", "crashed"})

(* README.md:21-23: "If no command line arguments are used, then iobench   *)
(* will cycle through all even concurrency levels from 2 to maximum        *)
(* concurrency and run five tests for each level".                         *)
CyclesThroughAll ==
  /\ options.full /\ pc \in {"ended", "crashed"}
  /\ ~failed /\ ~refused /\ image = {}
  => AllTested
=============================================================================
