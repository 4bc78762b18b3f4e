--------------------------- MODULE ExecutorProofs ---------------------------
(***************************************************************************)
(* The executor, for every number of workers and of tasks and every        *)
(* capacity of the queue.                                                  *)
(*                                                                         *)
(* It runs every task once: it implements TaskPool, and nothing of a run   *)
(* is in use when wait() has returned.  The counters count what their      *)
(* names say: thieves, active workers and runs that are not over.  And the *)
(* worker threads sleep and wake as they should: no wake-up is lost while  *)
(* a task waits, and none is left over when the executor is destroyed.     *)
(***************************************************************************)
EXTENDS Executor, FiniteSetTheorems, TLAPS

-----------------------------------------------------------------------------
(* Slots of a circular array *)

LEMMA DivMod ==
  ASSUME NEW n \in Nat, n > 0, NEW i \in Nat
  PROVE  /\ i = n * (i \div n) + (i % n)
         /\ i % n \in 0 .. n - 1 /\ i \div n \in Int
OBVIOUS

LEMMA NoMultiple ==
  ASSUME NEW n \in Nat, NEW q \in Int, 0 < n * q, n * q < n
  PROVE  FALSE
<1>1. CASE q <= 0
  BY <1>1
<1>2. CASE q >= 1
  BY <1>2
<1> QED
  BY <1>1, <1>2

(* Fewer than n successive indices have different slots among n. *)
LEMMA SlotsDiffer ==
  ASSUME NEW n \in Nat, n > 0, NEW i \in Nat, NEW j \in Nat,
         i < j, j - i < n
  PROVE  i % n # j % n
<1> SUFFICES ASSUME i % n = j % n PROVE FALSE
  OBVIOUS
<1> DEFINE q == (j \div n) - (i \div n)
<1>1. q \in Int /\ n * q = j - i
  <2>1. n * q = n * (j \div n) - n * (i \div n)
    BY DivMod
  <2> QED
    BY <2>1, DivMod
<1> HIDE DEF q
<1> QED
  BY <1>1, NoMultiple

LEMMA SizeIs ==
  ASSUME NEW n \in Nat \ {0}, NEW S, NEW a \in [0 .. n - 1 -> S]
  PROVE  Size(a) = n
<1>1. Cardinality(0 .. n - 1) = n
  BY FS_Interval
<1> QED
  BY <1>1 DEF Size

(* push keeps the items of the queue where thieves find them. *)
LEMMA PushKeeps ==
  ASSUME NEW S, Nil \in S, NEW n \in Nat \ {0}, array \in [0 .. n - 1 -> S],
         top \in Nat, bottom \in Nat, top <= bottom, bottom - top <= n,
         NEW x \in S, PushItem(x)
  PROVE  \E m \in Nat \ {0} :
           /\ array' \in [0 .. m - 1 -> S] /\ bottom - top < m
           /\ \A i \in top .. bottom - 1 : At(array', i) = At(array, i)
           /\ At(array', bottom) = x
<1>1. Size(array) = n
  BY SizeIs
<1>2. CASE ~IsFull
  <2>1. array' = [array EXCEPT ![bottom % n] = x]
    BY <1>1, <1>2 DEF PushItem
  <2>2. bottom - top < n
    BY <1>1, <1>2 DEF IsFull
  <2>3. bottom % n \in 0 .. n - 1
    BY DivMod
  <2>4. array' \in [0 .. n - 1 -> S]
    BY <2>1, <2>3
  <2>5. Size(array') = n
    BY <2>4, SizeIs
  <2>6. At(array', bottom) = x
    BY <2>1, <2>3, <2>5 DEF At
  <2>7. ASSUME NEW i \in top .. bottom - 1
        PROVE  At(array', i) = At(array, i)
    <3>0. i \in Nat /\ i < bottom /\ bottom - i < n /\ n \in Nat /\ n > 0
      BY <2>2
    <3>1. i % n # bottom % n /\ i % n \in 0 .. n - 1
      BY <3>0, SlotsDiffer, DivMod
    <3> QED
      BY <1>1, <2>1, <2>5, <3>0, <3>1 DEF At
  <2> QED
    BY <2>2, <2>4, <2>6, <2>7
<1>3. CASE IsFull
  <2> DEFINE m == 2 * n
             Live(i) == { k \in top .. bottom - 1 : k % m = i }
  <2>0. m \in Nat \ {0} /\ m > 0 /\ bottom - top < m
    OBVIOUS
  <2>1. array' = [Resized EXCEPT ![bottom % Size(Resized)] = x]
    BY <1>3 DEF PushItem
  <2>2. Resized = [i \in 0 .. m - 1 |->
                     IF Live(i) = {} THEN Nil
                     ELSE At(array, CHOOSE k \in Live(i) : TRUE)]
    BY <1>1 DEF Resized
  <2> HIDE DEF m
  <2>3. ASSUME NEW k \in top .. bottom - 1
        PROVE  At(array, k) \in S
    BY <1>1, DivMod DEF At
  <2>4. Resized \in [0 .. m - 1 -> S]
    <3>1. ASSUME NEW i \in 0 .. m - 1, Live(i) # {}
          PROVE  At(array, CHOOSE k \in Live(i) : TRUE) \in S
      <4>1. (CHOOSE k \in Live(i) : TRUE) \in Live(i)
        BY <3>1
      <4> QED
        BY <4>1, <2>3
    <3> QED
      BY <2>2, <3>1
  <2>5. Size(Resized) = m
    BY <2>0, <2>4, SizeIs
  <2>6. bottom % m \in 0 .. m - 1
    BY <2>0, DivMod
  <2>7. array' \in [0 .. m - 1 -> S]
    BY <2>1, <2>4, <2>5, <2>6
  <2>8. Size(array') = m
    BY <2>0, <2>7, SizeIs
  <2>9. At(array', bottom) = x
    BY <2>1, <2>4, <2>5, <2>6, <2>8 DEF At
  <2>10. ASSUME NEW i \in top .. bottom - 1
         PROVE  At(array', i) = At(array, i)
    <3>0. i \in Nat /\ i < bottom /\ bottom - i < m /\ m \in Nat /\ m > 0
      BY <2>0
    <3>1. i % m # bottom % m /\ i % m \in 0 .. m - 1
      BY <3>0, SlotsDiffer, DivMod
    <3>2. Live(i % m) = {i}
      <4>1. ASSUME NEW k \in top .. bottom - 1, k # i
            PROVE  k % m # i % m
        BY <2>0, <3>0, <4>1, SlotsDiffer
      <4> QED
        BY <4>1
    <3>3. Resized[i % m] = At(array, i)
      <4>1. (CHOOSE k \in Live(i % m) : TRUE) = i
        BY <3>2
      <4> QED
        BY <2>2, <3>1, <3>2, <4>1
    <3> QED
      BY <2>1, <2>4, <2>5, <2>8, <3>0, <3>1, <3>3 DEF At
  <2> QED
    BY <2>0, <2>7, <2>9, <2>10
<1> QED
  BY <1>2, <1>3

-----------------------------------------------------------------------------
(* Kinds of steps *)

(* Types of what decides about the tasks. *)
Shape ==
  /\ numTasks \in 0 .. MaxTasks
  /\ pc \in [Threads -> Places]
  /\ top \in Nat /\ bottom \in Nat
  /\ \E n \in Nat \ {0} : array \in [0 .. n - 1 -> Tasks \cup {Nil}]
  /\ seen \in [Workers -> Nat] /\ item \in [Workers -> Tasks \cup {Nil}]
  /\ numTopologies \in Int /\ joinCounter \in Int /\ promise \in BOOLEAN
  /\ runs \in [1 .. MaxTasks -> Nat]

(* Places of a worker without a task, and not in the middle of a steal. *)
AsidePlaces ==
  {"start", "idle", "explore", "explored", "empty", "check", "nonempty",
   "steal again", "done", "leave", "pass on", "exit", "exited", "last",
   "actives", "stay", "commit", "park", "inactive"}

(* A step of a worker that has nothing to do with a task. *)
Aside(w) ==
  /\ pc[w] \in AsidePlaces \cup {"take"}
  /\ \E p \in AsidePlaces : pc' = [pc EXCEPT ![w] = p]
  /\ seen' \in [Workers -> Nat] /\ item' \in [Workers -> Tasks \cup {Nil}]
  /\ \A v \in Workers \ {w} : seen'[v] = seen[v] /\ item'[v] = item[v]
  /\ UNCHANGED <<numTasks, top, bottom, array, topology, runs>>

(* A step on the way from the queue to the task. *)
Hurry(w) ==
  /\ pc[w] \in {"found", "exploit", "thieves"}
  /\ \E p \in {"exploit", "thieves", "invoke"} : pc' = [pc EXCEPT ![w] = p]
  /\ UNCHANGED <<numTasks, queueVars, topology, runs>>

(* A steal that succeeds. *)
Won(w) ==
  /\ pc[w] = "take" /\ item[w] # Nil /\ seen[w] = top
  /\ top' = top + 1
  /\ pc' = [pc EXCEPT ![w] = "found"]
  /\ seen' = [seen EXCEPT ![w] = 0]
  /\ UNCHANGED <<numTasks, bottom, array, item, topology, runs>>

(* A step of the main thread that has nothing to do with tasks. *)
MainAside ==
  /\ \/ pc[Main] = "spawn" /\ pc' = [pc EXCEPT ![Main] = "run"]
     \/ pc[Main] = "notify" /\ pc' = [pc EXCEPT ![Main] = "notify"]
     \/ pc[Main] = "notify" /\ pc' = [pc EXCEPT ![Main] = "wait"]
     \/ pc[Main] = "shutdown" /\ pc' = [pc EXCEPT ![Main] = "notify all"]
     \/ pc[Main] = "notify all" /\ pc' = [pc EXCEPT ![Main] = "join"]
     \/ pc[Main] = "join" /\ pc' = [pc EXCEPT ![Main] = "exited"]
  /\ UNCHANGED <<numTasks, queueVars, topology, runs>>

Still == UNCHANGED <<numTasks, pc, queueVars, topology, runs>>

WorkerKinds(w) ==
  \/ Aside(w) \/ Explore(w) \/ Steal(w) \/ Won(w) \/ Hurry(w)
  \/ Invoke(w) \/ TearDownInvoke(w) \/ SetPromise(w) \/ TearDownTopology(w)

MainKinds ==
  MainAside \/ Run \/ RunNothing \/ Push \/ Pushed \/ Wait

LEMMA AsideStep ==
  ASSUME Shape, NEW w \in Workers, pc[w] \in AsidePlaces,
         NEW p \in AsidePlaces, Goto(w, p),
         UNCHANGED <<queueVars, numTasks, topology, runs>>
  PROVE  Aside(w)
BY DEF Shape, Aside, Goto, queueVars, Tasks

LEMMA AsideLooking ==
  ASSUME Shape, NEW w \in Workers,
         Start(w) \/ BecomeThief(w) \/ GiveUp(w) \/ Prepare(w)
         \/ StealAgain(w) \/ CheckDone(w) \/ Leave(w) \/ PassOn(w)
  PROVE  Aside(w)
<1> USE AsideStep DEF Step, IsAt, AsidePlaces
<1>1. CASE Start(w)
  BY <1>1 DEF Start
<1>2. CASE BecomeThief(w)
  BY <1>2 DEF BecomeThief
<1>3. CASE GiveUp(w)
  BY <1>3 DEF GiveUp
<1>4. CASE Prepare(w)
  BY <1>4 DEF Prepare
<1>5. CASE StealAgain(w)
  BY <1>5 DEF StealAgain
<1>6. CASE CheckDone(w)
  BY <1>6 DEF CheckDone
<1>7. CASE Leave(w)
  BY <1>7 DEF Leave
<1>8. CASE PassOn(w)
  BY <1>8 DEF PassOn
<1> QED
  BY <1>1, <1>2, <1>3, <1>4, <1>5, <1>6, <1>7, <1>8

LEMMA AsideSleeping ==
  ASSUME Shape, NEW w \in Workers,
         Exit(w) \/ LeaveThieves(w) \/ CheckActives(w) \/ StayAwake(w)
         \/ Commit(w) \/ WakeUp(w)
  PROVE  Aside(w)
<1> USE AsideStep DEF Step, IsAt, AsidePlaces
<1>1. CASE Exit(w)
  BY <1>1 DEF Exit
<1>2. CASE LeaveThieves(w)
  BY <1>2 DEF LeaveThieves
<1>3. CASE CheckActives(w)
  BY <1>3 DEF CheckActives
<1>4. CASE StayAwake(w)
  BY <1>4 DEF StayAwake
<1>5. CASE Commit(w)
  BY <1>5 DEF Commit
<1>6. CASE WakeUp(w)
  BY <1>6 DEF WakeUp
<1> QED
  BY <1>1, <1>2, <1>3, <1>4, <1>5, <1>6

LEMMA AsideSeen ==
  ASSUME Shape, NEW w \in Workers,
         LookAtQueue(w) \/ Check(w) \/ NothingToTake(w) \/ BecomeInactive(w)
  PROVE  Aside(w)
<1> USE DEF Step, IsAt, AsidePlaces, Goto, Aside, Shape, Tasks, queueVars,
        Forget, ReadBottom
<1>1. CASE LookAtQueue(w)
  BY <1>1 DEF LookAtQueue
<1>2. CASE Check(w)
  BY <1>2 DEF Check
<1>3. CASE NothingToTake(w)
  BY <1>3 DEF NothingToTake
<1>4. CASE BecomeInactive(w)
  BY <1>4 DEF BecomeInactive
<1> QED
  BY <1>1, <1>2, <1>3, <1>4

LEMMA TakeKinds ==
  ASSUME Shape, NEW w \in Workers, TakeTask(w)
  PROVE  Won(w) \/ Aside(w)
<1>1. CASE seen[w] = top
  <2>1. /\ pc[w] = "take" /\ item[w] # Nil /\ top' = top + 1 /\ item' = item
        /\ seen' = [seen EXCEPT ![w] = 0]
        /\ UNCHANGED <<numTasks, bottom, array, topology, runs>>
    BY <1>1 DEF TakeTask, Take, Forget, IsAt
  <2>2. pc' = [pc EXCEPT ![w] = "found"]
    BY <2>1 DEF TakeTask, Goto
  <2> QED
    BY <1>1, <2>1, <2>2 DEF Won
<1>2. CASE seen[w] # top
  <2>1. /\ pc[w] = "take" /\ top' = top /\ item' = [item EXCEPT ![w] = Nil]
        /\ seen' = [seen EXCEPT ![w] = 0]
        /\ UNCHANGED <<numTasks, bottom, array, topology, runs>>
    BY <1>2 DEF TakeTask, Take, Forget, IsAt
  <2>2. pc' = [pc EXCEPT ![w] = "explored"]
    BY <2>1 DEF TakeTask, Goto, Shape
  <2> QED
    BY <2>1, <2>2 DEF Aside, AsidePlaces, Shape, Tasks
<1> QED
  BY <1>1, <1>2

LEMMA HurryStep ==
  ASSUME NEW w \in Workers, Found(w) \/ Exploit(w) \/ CheckThieves(w)
  PROVE  Hurry(w)
<1> USE DEF Step, IsAt, Goto, Hurry
<1>1. CASE Found(w)
  BY <1>1 DEF Found
<1>2. CASE Exploit(w)
  BY <1>2 DEF Exploit
<1>3. CASE CheckThieves(w)
  BY <1>3 DEF CheckThieves
<1> QED
  BY <1>1, <1>2, <1>3

LEMMA MainAsideStep ==
  ASSUME Spawned \/ Notify \/ Shutdown \/ NotifyDone \/ Join
  PROVE  MainAside
<1> USE DEF Step, IsAt, Goto, MainAside, topology
<1>1. CASE Spawned
  BY <1>1 DEF Spawned
<1>2. CASE Notify
  <2>1. Step(Main, "notify", "notify") \/ Step(Main, "notify", "wait")
    BY <1>2 DEF Notify
  <2>2. UNCHANGED <<numTasks, queueVars, topology, runs>>
    BY <1>2 DEF Notify
  <2> QED
    BY <2>1, <2>2
<1>3. CASE Shutdown
  BY <1>3 DEF Shutdown
<1>4. CASE NotifyDone
  BY <1>4 DEF NotifyDone
<1>5. CASE Join
  BY <1>5 DEF Join
<1> QED
  BY <1>1, <1>2, <1>3, <1>4, <1>5

LEMMA WorkerStepKinds ==
  ASSUME Shape, NEW w \in Workers, Worker(w)
  PROVE  Still \/ WorkerKinds(w)
<1>1. CASE Wake(w)
  BY <1>1 DEF Wake, Still
<1>2. CASE Found(w) \/ Exploit(w) \/ CheckThieves(w)
  BY <1>2, HurryStep DEF WorkerKinds
<1>3. CASE TakeTask(w)
  BY <1>3, TakeKinds DEF WorkerKinds
<1>4. CASE \/ Start(w) \/ BecomeThief(w) \/ GiveUp(w) \/ Prepare(w)
           \/ StealAgain(w) \/ CheckDone(w) \/ Leave(w) \/ PassOn(w)
  BY <1>4, AsideLooking DEF WorkerKinds
<1>5. CASE \/ Exit(w) \/ LeaveThieves(w) \/ CheckActives(w) \/ StayAwake(w)
           \/ Commit(w) \/ WakeUp(w)
  BY <1>5, AsideSleeping DEF WorkerKinds
<1>6. CASE \/ LookAtQueue(w) \/ Check(w) \/ NothingToTake(w)
           \/ BecomeInactive(w)
  BY <1>6, AsideSeen DEF WorkerKinds
<1>7. CASE \/ Explore(w) \/ Steal(w) \/ Invoke(w) \/ TearDownInvoke(w)
           \/ SetPromise(w) \/ TearDownTopology(w)
  BY <1>7 DEF WorkerKinds
<1> QED
  BY <1>1, <1>2, <1>3, <1>4, <1>5, <1>6, <1>7 DEF Worker

(* Every step is one of the kinds. *)
LEMMA StepKinds ==
  ASSUME Shape, [Next]_vars
  PROVE  Still \/ MainKinds \/ \E w \in Workers : WorkerKinds(w)
<1>1. ASSUME NEW w \in Workers, Worker(w)
      PROVE  Still \/ WorkerKinds(w)
  BY <1>1, WorkerStepKinds
<1>2. CASE MainThread
  <2>1. CASE Wake(Main)
    BY <2>1 DEF Wake, Still
  <2>2. CASE ~Wake(Main)
    BY <1>2, <2>2, MainAsideStep DEF MainThread, MainKinds
  <2> QED
    BY <2>1, <2>2
<1>3. CASE Ended \/ UNCHANGED vars
  BY <1>3 DEF Ended, vars, Still, queueVars, topology
<1> QED
  BY <1>1, <1>2, <1>3 DEF Next

-----------------------------------------------------------------------------
(* Types *)

LEMMA ShapeInit == Init => Shape
<1> SUFFICES ASSUME Init PROVE Shape
  OBVIOUS
<1> USE ExecutorAssumption, QueueAssumption DEF Init, QueueInit
<1>1. pc \in [Threads -> Places]
  BY DEF Places, WorkerPlaces, MainPlaces
<1>2. array \in [0 .. Capacity - 1 -> Tasks \cup {Nil}]
  OBVIOUS
<1>3. seen \in [Workers -> Nat] /\ item \in [Workers -> Tasks \cup {Nil}]
  OBVIOUS
<1>4. runs \in [1 .. MaxTasks -> Nat]
  OBVIOUS
<1>5. /\ numTasks \in 0 .. MaxTasks /\ top \in Nat /\ bottom \in Nat
      /\ numTopologies \in Int /\ joinCounter \in Int /\ promise \in BOOLEAN
  <2>1. /\ numTasks \in 0 .. MaxTasks /\ top = 0 /\ bottom = 0
        /\ numTopologies = 0 /\ joinCounter = 0 /\ promise = FALSE
    BY Zenon
  <2> HIDE DEF Init, QueueInit
  <2>2. promise \in BOOLEAN
    BY <2>1
  <2>3. top \in Nat /\ bottom \in Nat
    BY <2>1
  <2>4. numTopologies \in Int /\ joinCounter \in Int
    BY <2>1
  <2> QED
    BY <2>1, <2>2, <2>3, <2>4
<1>6. \E n \in Nat \ {0} : array \in [0 .. n - 1 -> Tasks \cup {Nil}]
  BY <1>2, QueueAssumption
<1> QED
  BY <1>1, <1>3, <1>4, <1>5, <1>6, Zenon DEF Shape

(* A thief reads a task or nothing. *)
LEMMA AtType ==
  ASSUME Shape, NEW i \in Nat
  PROVE  At(array, i) \in Tasks \cup {Nil}
<1>1. PICK n \in Nat \ {0} : array \in [0 .. n - 1 -> Tasks \cup {Nil}]
  BY DEF Shape
<1>2. Size(array) = n /\ i % n \in 0 .. n - 1
  <2>1. n \in Nat /\ n > 0
    OBVIOUS
  <2> QED
    BY <1>1, <2>1, SizeIs, DivMod
<1> QED
  BY <1>1, <1>2 DEF At

(* A worker's step goes to a place, and leaves the others where they are. *)
LEMMA PcOf ==
  ASSUME Shape, NEW t \in Threads, NEW p, pc' = [pc EXCEPT ![t] = p]
  PROVE  pc'[t] = p /\ \A v \in Threads \ {t} : pc'[v] = pc[v]
BY DEF Shape

LEMMA ShapeSame ==
  ASSUME Shape, NEW t \in Threads, NEW p \in Places,
         pc' = [pc EXCEPT ![t] = p], UNCHANGED <<numTasks, array>>,
         top' \in Nat, bottom' \in Nat,
         seen' \in [Workers -> Nat], item' \in [Workers -> Tasks \cup {Nil}],
         numTopologies' \in Int, joinCounter' \in Int, promise' \in BOOLEAN,
         runs' \in [1 .. MaxTasks -> Nat]
  PROVE  Shape'
<1>1. pc' \in [Threads -> Places]
  BY DEF Shape
<1>2. Tasks' = Tasks
  BY DEF Tasks
<1>3. \E n \in Nat \ {0} : array' \in [0 .. n - 1 -> Tasks \cup {Nil}]
  BY DEF Shape
<1>4. numTasks' \in 0 .. MaxTasks
  BY DEF Shape
<1> QED
  BY <1>1, <1>2, <1>3, <1>4, Zenon DEF Shape

LEMMA ShapeWorker ==
  ASSUME Shape, NEW w \in Workers, WorkerKinds(w)
  PROVE  Shape'
<1> USE DEF Step, IsAt, Goto, topology, queueVars, counters
<1>0. w \in Threads
  BY ExecutorAssumption
<1>t. /\ top \in Nat /\ bottom \in Nat /\ seen \in [Workers -> Nat]
      /\ item \in [Workers -> Tasks \cup {Nil}] /\ numTopologies \in Int
      /\ joinCounter \in Int /\ promise \in BOOLEAN
      /\ runs \in [1 .. MaxTasks -> Nat]
  BY DEF Shape
<1>p. \A p \in {"steal", "take", "found", "exploit", "thieves", "invoke",
                "tear down", "promise", "topology", "inactive"} : p \in Places
  BY DEF Places, WorkerPlaces
<1>1. CASE Aside(w)
  <2>1. PICK p \in AsidePlaces : pc' = [pc EXCEPT ![w] = p]
    BY <1>1 DEF Aside
  <2>2. p \in Places
    BY DEF AsidePlaces, Places, WorkerPlaces
  <2> QED
    BY <1>0, <1>t, <1>1, <2>1, <2>2, ShapeSame DEF Aside
<1>2. CASE Explore(w)
  <2>1. seen' \in [Workers -> Nat]
    BY <1>t, <1>2 DEF Explore, ReadTop
  <2> QED
    BY <1>0, <1>t, <1>p, <1>2, <2>1, ShapeSame DEF Explore, ReadTop
<1>3. CASE Steal(w)
  <2>1. item' = [item EXCEPT ![w] =
                   IF seen[w] < bottom THEN At(array, seen[w]) ELSE Nil]
    BY <1>3 DEF Steal, ReadItem
  <2>2. item' \in [Workers -> Tasks \cup {Nil}]
    BY <1>t, <2>1, AtType
  <2> QED
    BY <1>0, <1>t, <1>p, <1>3, <2>2, ShapeSame DEF Steal, ReadItem
<1>4. CASE Won(w)
  <2>1. seen' \in [Workers -> Nat] /\ top' \in Nat
    BY <1>t, <1>4 DEF Won
  <2> QED
    BY <1>0, <1>t, <1>p, <1>4, <2>1, ShapeSame DEF Won
<1>5. CASE Hurry(w)
  BY <1>0, <1>t, <1>p, <1>5, ShapeSame DEF Hurry
<1>6. CASE Invoke(w)
  <2>1. runs' = [runs EXCEPT ![item[w]] = runs[item[w]] + 1]
    BY <1>6 DEF Invoke
  <2>2. runs' \in [1 .. MaxTasks -> Nat]
    <3>1. CASE item[w] \in 1 .. MaxTasks
      <4>1. runs[item[w]] + 1 \in Nat
        BY <1>t, <3>1
      <4> QED
        BY <1>t, <2>1, <4>1
    <3>2. CASE item[w] \notin 1 .. MaxTasks
      BY <1>t, <2>1, <3>2
    <3> QED
      BY <3>1, <3>2
  <2> QED
    BY <1>0, <1>t, <1>p, <1>6, <2>2, ShapeSame DEF Invoke
<1>7. CASE TearDownInvoke(w)
  <2>0. joinCounter' = joinCounter - 1
    BY <1>7 DEF TearDownInvoke
  <2>1. joinCounter' \in Int
    BY <1>t, <2>0
  <2> QED
    BY <1>0, <1>t, <1>p, <1>7, <2>1, ShapeSame DEF TearDownInvoke
<1>8. CASE SetPromise(w)
  BY <1>0, <1>t, <1>p, <1>8, ShapeSame DEF SetPromise
<1>9. CASE TearDownTopology(w)
  <2>1. numTopologies' \in Int
    BY <1>t, <1>9 DEF TearDownTopology
  <2> QED
    BY <1>0, <1>t, <1>p, <1>9, <2>1, ShapeSame DEF TearDownTopology
<1> QED
  BY <1>1, <1>2, <1>3, <1>4, <1>5, <1>6, <1>7, <1>8, <1>9 DEF WorkerKinds

-----------------------------------------------------------------------------
(* The queue *)

(* The items are the tasks in order, each in its slot; the one that the    *)
(* main thread is pushing is not yet visible.  A thief's compare-and-      *)
(* exchange succeeds only when nobody has taken the item it has read.      *)
QueueInv ==
  /\ top <= bottom /\ bottom <= numTasks /\ bottom - top <= Size(array)
  /\ \A i \in top .. bottom - 1 : At(array, i) = i + 1
  /\ pc[Main] \in MainPlaces
  /\ pc[Main] = "pushed" =>
       At(array, bottom) = bottom + 1 /\ bottom - top < Size(array)
  /\ pc[Main] \in {"push", "pushed"} => bottom < numTasks
  /\ pc[Main] \in {"spawn", "run"} => bottom = 0
  /\ pc[Main] = "nothing" => numTasks = 0
  /\ pc[Main] \in MainPlaces \ {"spawn", "run", "push", "pushed"} =>
       bottom = numTasks
  /\ \A w \in Workers :
       /\ pc[w] \in {"steal", "take"} => seen[w] <= top
       /\ pc[w] = "take" /\ item[w] # Nil /\ seen[w] = top =>
            item[w] = top + 1 /\ top < bottom

LEMMA QueueInvInit == Init => QueueInv
<1> SUFFICES ASSUME Init PROVE QueueInv
  OBVIOUS
<1> USE ExecutorAssumption, QueueAssumption DEF Init, QueueInit
<1>1. /\ top = 0 /\ bottom = 0 /\ pc[Main] = "spawn" /\ numTasks \in Nat
      /\ \A w \in Workers : pc[w] = "start"
  OBVIOUS
<1>2. Size(array) \in Nat
  <2>1. array \in [0 .. Capacity - 1 -> {Nil}]
    OBVIOUS
  <2> QED
    BY <2>1, SizeIs
<1> QED
  BY <1>1, <1>2 DEF QueueInv, MainPlaces

LEMMA SizeType ==
  ASSUME Shape
  PROVE  Size(array) \in Nat \ {0}
BY SizeIs DEF Shape

(* Steps of a worker that leave the queue, and thieves at their steal.     *)
LEMMA QueueInvOther ==
  ASSUME Shape, QueueInv, NEW w \in Workers,
         UNCHANGED <<numTasks, top, bottom, array>>,
         NEW p, p \notin {"steal", "take"}, pc' = [pc EXCEPT ![w] = p],
         \A v \in Workers \ {w} : seen'[v] = seen[v] /\ item'[v] = item[v]
  PROVE  QueueInv'
<1>1. w \in Threads /\ Main \in Threads /\ Main # w /\ Workers \subseteq Threads
  BY ExecutorAssumption
<1>2. pc'[w] = p /\ pc'[Main] = pc[Main]
      /\ \A v \in Workers \ {w} : pc'[v] = pc[v]
  BY <1>1, PcOf
<1>3. \A i : At(array', i) = At(array, i)
  OBVIOUS
<1> QED
  BY <1>2, <1>3 DEF QueueInv, Shape

LEMMA QueueInvWorker ==
  ASSUME Shape, QueueInv, NEW w \in Workers, WorkerKinds(w)
  PROVE  QueueInv'
<1> USE DEF Step, IsAt, Goto, topology, queueVars, counters
<1>0. w \in Threads /\ Main \in Threads /\ Main # w /\ Workers \subseteq Threads
  BY ExecutorAssumption
<1>1. CASE Aside(w)
  BY <1>1, QueueInvOther DEF Aside, AsidePlaces
<1>2. CASE Explore(w)
  <2>1. /\ pc' = [pc EXCEPT ![w] = "steal"] /\ seen' = [seen EXCEPT ![w] = top]
        /\ UNCHANGED <<numTasks, top, bottom, array, item>>
    BY <1>2 DEF Explore, ReadTop
  <2>2. pc'[w] = "steal" /\ pc'[Main] = pc[Main]
        /\ \A v \in Workers \ {w} : pc'[v] = pc[v] /\ seen'[v] = seen[v]
    BY <1>0, <2>1, PcOf DEF Shape
  <2>3. seen'[w] = top
    BY <2>1 DEF Shape
  <2> QED
    BY <2>1, <2>2, <2>3 DEF QueueInv, Shape
<1>3. CASE Steal(w)
  <2>1. /\ pc' = [pc EXCEPT ![w] = "take"] /\ pc[w] = "steal"
        /\ item' = [item EXCEPT ![w] =
                      IF seen[w] < bottom THEN At(array, seen[w]) ELSE Nil]
        /\ UNCHANGED <<numTasks, top, bottom, array, seen>>
    BY <1>3 DEF Steal, ReadItem
  <2>2. pc'[w] = "take" /\ pc'[Main] = pc[Main]
        /\ \A v \in Workers \ {w} : pc'[v] = pc[v] /\ item'[v] = item[v]
    BY <1>0, <2>1, PcOf DEF Shape
  <2>3. item'[w] = IF seen[w] < bottom THEN At(array, seen[w]) ELSE Nil
    BY <2>1 DEF Shape
  <2>4. seen[w] <= top
    BY <2>1 DEF QueueInv
  <2>5. item'[w] # Nil /\ seen[w] = top => item'[w] = top + 1 /\ top < bottom
    BY <2>3 DEF QueueInv, Shape
  <2> QED
    BY <2>1, <2>2, <2>4, <2>5 DEF QueueInv, Shape
<1>4. CASE Won(w)
  <2>1. /\ pc[w] = "take" /\ item[w] # Nil /\ seen[w] = top /\ top' = top + 1
        /\ pc' = [pc EXCEPT ![w] = "found"]
        /\ seen' = [seen EXCEPT ![w] = 0]
        /\ UNCHANGED <<numTasks, bottom, array, item>>
    BY <1>4 DEF Won
  <2>2. pc'[w] = "found" /\ pc'[Main] = pc[Main]
        /\ \A v \in Workers \ {w} : pc'[v] = pc[v] /\ seen'[v] = seen[v]
    BY <1>0, <2>1, PcOf DEF Shape
  <2>3. top < bottom
    BY <2>1 DEF QueueInv
  <2>4. Size(array) \in Nat
    BY SizeType
  <2>5. /\ top' <= bottom' /\ bottom' - top' <= Size(array')
        /\ \A i \in top' .. bottom' - 1 : i \in top .. bottom - 1
    BY <2>1, <2>3, <2>4 DEF Shape, QueueInv
  <2>6. \A v \in Workers \ {w} :
          pc[v] \in {"steal", "take"} => seen[v] <= top /\ seen[v] # top'
    BY <2>1 DEF QueueInv, Shape
  <2>7. pc'[Main] = "pushed" => bottom' - top' < Size(array')
    BY <2>1, <2>2, <2>3, <2>4 DEF QueueInv, Shape
  <2> QED
    BY <2>1, <2>2, <2>5, <2>6, <2>7 DEF QueueInv, Shape
<1>5. CASE Hurry(w)
  BY <1>5, QueueInvOther DEF Hurry
<1>6. CASE Invoke(w)
  BY <1>6, QueueInvOther DEF Invoke
<1>7. CASE TearDownInvoke(w)
  BY <1>7, QueueInvOther DEF TearDownInvoke
<1>8. CASE SetPromise(w)
  BY <1>8, QueueInvOther DEF SetPromise
<1>9. CASE TearDownTopology(w)
  BY <1>9, QueueInvOther DEF TearDownTopology
<1> QED
  BY <1>1, <1>2, <1>3, <1>4, <1>5, <1>6, <1>7, <1>8, <1>9 DEF WorkerKinds

(* The main thread pushes the tasks in order. *)
LEMMA PushStep ==
  ASSUME Shape, QueueInv, Push
  PROVE  /\ \E n \in Nat \ {0} : array' \in [0 .. n - 1 -> Tasks \cup {Nil}]
         /\ bottom - top < Size(array')
         /\ \A i \in top .. bottom - 1 : At(array', i) = i + 1
         /\ At(array', bottom) = bottom + 1
<1>1. PushItem(bottom + 1)
  BY DEF Push
<1>2. bottom < numTasks /\ numTasks \in Nat /\ bottom \in Nat /\ top \in Nat
      /\ top <= bottom /\ bottom - top <= Size(array)
  BY ExecutorAssumption DEF Push, Step, IsAt, QueueInv, Shape
<1>3. bottom + 1 \in Tasks \cup {Nil}
  BY <1>2 DEF Tasks
<1>4. PICK n \in Nat \ {0} : array \in [0 .. n - 1 -> Tasks \cup {Nil}]
  BY DEF Shape
<1>5. bottom - top <= n
  BY <1>2, <1>4, SizeIs
<1>6. PICK m \in Nat \ {0} :
        /\ array' \in [0 .. m - 1 -> Tasks \cup {Nil}] /\ bottom - top < m
        /\ \A i \in top .. bottom - 1 : At(array', i) = At(array, i)
        /\ At(array', bottom) = bottom + 1
  BY <1>1, <1>2, <1>3, <1>4, <1>5, PushKeeps
<1>7. Size(array') = m
  BY <1>6, SizeIs
<1>8. \A i \in top .. bottom - 1 : At(array, i) = i + 1
  BY DEF QueueInv
<1> QED
  BY <1>6, <1>7, <1>8

LEMMA ShapeMain ==
  ASSUME Shape, QueueInv, MainKinds
  PROVE  Shape'
<1> USE DEF Step, IsAt, Goto, topology, queueVars, counters
<1>0. Main \in Threads
  BY ExecutorAssumption
<1>t. /\ top \in Nat /\ bottom \in Nat /\ seen \in [Workers -> Nat]
      /\ item \in [Workers -> Tasks \cup {Nil}] /\ numTopologies \in Int
      /\ joinCounter \in Int /\ promise \in BOOLEAN
      /\ runs \in [1 .. MaxTasks -> Nat] /\ numTasks \in Int
  BY DEF Shape
<1>p. \A p \in MainPlaces : p \in Places
  BY DEF Places
<1>1. CASE MainAside
  <2>1. PICK p \in MainPlaces : pc' = [pc EXCEPT ![Main] = p]
    BY <1>1 DEF MainAside, MainPlaces
  <2> QED
    BY <1>0, <1>t, <1>p, <1>1, <2>1, ShapeSame DEF MainAside
<1>2. CASE Run
  <2>1. PICK p \in MainPlaces : pc' = [pc EXCEPT ![Main] = p]
    BY <1>2 DEF Run, MainPlaces
  <2>2. numTopologies' \in Int /\ joinCounter' \in Int
    <3>1. numTopologies' = numTopologies + 1 /\ joinCounter' = numTasks
      BY <1>2 DEF Run
    <3> QED
      BY <1>t, <3>1
  <2> QED
    BY <1>0, <1>t, <1>p, <1>2, <2>1, <2>2, ShapeSame DEF Run
<1>3. CASE RunNothing
  <2>1. PICK p \in MainPlaces : pc' = [pc EXCEPT ![Main] = p]
    BY <1>3 DEF RunNothing, MainPlaces
  <2>2. numTopologies' \in Int
    <3>1. numTopologies' = numTopologies - 1
      BY <1>3 DEF RunNothing
    <3> QED
      BY <1>t, <3>1
  <2>3. promise' \in BOOLEAN
    BY <1>3 DEF RunNothing
  <2> QED
    BY <1>0, <1>t, <1>p, <1>3, <2>1, <2>2, <2>3, ShapeSame DEF RunNothing
<1>4. CASE Push
  <2>1. PICK p \in MainPlaces : pc' = [pc EXCEPT ![Main] = p]
    BY <1>4 DEF Push, MainPlaces
  <2>2. pc' \in [Threads -> Places]
    BY <1>0, <1>p, <2>1 DEF Shape
  <2>3. Tasks' = Tasks
        /\ UNCHANGED <<numTasks, top, bottom, seen, item, topology, runs>>
    BY <1>4 DEF Push, PushItem, Tasks
  <2>4. \E n \in Nat \ {0} : array' \in [0 .. n - 1 -> Tasks \cup {Nil}]
    BY <1>4, PushStep
  <2>5. numTasks' \in 0 .. MaxTasks
    BY <2>3 DEF Shape
  <2> QED
    BY <1>t, <2>2, <2>3, <2>4, <2>5, Zenon DEF Shape
<1>5. CASE Pushed
  <2>1. PICK p \in MainPlaces : pc' = [pc EXCEPT ![Main] = p]
    BY <1>5 DEF Pushed, MainPlaces
  <2>2. bottom' \in Nat
    BY <1>t, <1>5 DEF Pushed, PushBottom
  <2> QED
    BY <1>0, <1>t, <1>p, <1>5, <2>1, <2>2, ShapeSame DEF Pushed, PushBottom
<1>6. CASE Wait
  <2>1. pc' = [pc EXCEPT ![Main] = "shutdown"] /\ "shutdown" \in MainPlaces
    BY <1>6 DEF Wait, MainPlaces
  <2> QED
    BY <1>0, <1>t, <1>p, <1>6, <2>1, ShapeSame DEF Wait
<1> QED
  BY <1>1, <1>2, <1>3, <1>4, <1>5, <1>6 DEF MainKinds

LEMMA QueueInvMain ==
  ASSUME Shape, QueueInv, MainKinds
  PROVE  QueueInv'
<1> USE DEF Step, IsAt, Goto, topology, queueVars, counters
<1>0. Main \in Threads /\ Main \notin Workers /\ Workers \subseteq Threads
  BY ExecutorAssumption
<1>t. top \in Nat /\ bottom \in Nat /\ numTasks \in Nat
  BY ExecutorAssumption DEF Shape
<1>1. CASE UNCHANGED <<numTasks, top, bottom, array, seen, item>>
           /\ (MainAside \/ Run \/ RunNothing \/ Wait)
  <2>1. PICK p \in MainPlaces :
          /\ pc' = [pc EXCEPT ![Main] = p] /\ p \notin {"spawn", "pushed"}
          /\ p = "run" => pc[Main] = "spawn"
          /\ p = "nothing" => pc[Main] = "run" /\ numTasks = 0
          /\ p = "push" => pc[Main] = "run" /\ numTasks # 0
          /\ p \notin {"run", "nothing", "push"} =>
               pc[Main] \in MainPlaces \ {"spawn", "run", "push", "pushed"}
    BY <1>1 DEF MainAside, Run, RunNothing, Wait, MainPlaces
  <2>2. pc'[Main] = p /\ \A w \in Workers : pc'[w] = pc[w]
    BY <1>0, <2>1, PcOf
  <2>3. pc[Main] = "run" => bottom = 0
    BY DEF QueueInv
  <2>4. /\ p \in {"push"} => bottom < numTasks
        /\ p \in {"run"} => bottom = 0
        /\ p = "nothing" => numTasks = 0
        /\ p \in MainPlaces \ {"spawn", "run", "push", "pushed"} =>
             bottom = numTasks
    BY <1>t, <2>1, <2>3 DEF QueueInv
  <2> QED
    BY <1>1, <2>1, <2>2, <2>4 DEF QueueInv
<1>2. CASE Push
  <2>1. /\ pc[Main] = "push" /\ pc' = [pc EXCEPT ![Main] = "pushed"]
        /\ UNCHANGED <<numTasks, top, bottom, seen, item>>
    BY <1>2 DEF Push, PushItem
  <2>2. pc'[Main] = "pushed" /\ \A w \in Workers : pc'[w] = pc[w]
    BY <1>0, <2>1, PcOf
  <2>3. /\ Size(array') \in Nat /\ bottom - top < Size(array')
        /\ \A i \in top .. bottom - 1 : At(array', i) = i + 1
        /\ At(array', bottom) = bottom + 1
    <3>1. PICK n \in Nat \ {0} : array' \in [0 .. n - 1 -> Tasks \cup {Nil}]
      BY <1>2, PushStep
    <3>2. Size(array') \in Nat
      BY <3>1, SizeIs
    <3> QED
      BY <1>2, <3>2, PushStep
  <2>4. bottom < numTasks
    BY <2>1 DEF QueueInv
  <2>5. \A w \in Workers :
          /\ pc'[w] \in {"steal", "take"} => seen'[w] <= top'
          /\ pc'[w] = "take" /\ item'[w] # Nil /\ seen'[w] = top' =>
               item'[w] = top' + 1 /\ top' < bottom'
    BY <2>1, <2>2 DEF QueueInv
  <2>6. /\ top' <= bottom' /\ bottom' <= numTasks' /\ bottom' < numTasks'
        /\ bottom' - top' < Size(array') /\ bottom' - top' <= Size(array')
    BY <1>t, <2>1, <2>3, <2>4 DEF QueueInv
  <2>7. /\ \A i \in top' .. bottom' - 1 : At(array', i) = i + 1
        /\ At(array', bottom') = bottom' + 1
    BY <2>1, <2>3
  <2>8. pc'[Main] = "pushed" /\ "pushed" \in MainPlaces
    BY <2>2 DEF MainPlaces
  <2> QED
    BY <2>5, <2>6, <2>7, <2>8 DEF QueueInv
<1>3. CASE Pushed
  <2>1. /\ pc[Main] = "pushed" /\ bottom' = bottom + 1
        /\ pc' = [pc EXCEPT ![Main] =
                    IF bottom + 1 = numTasks THEN "notify" ELSE "push"]
        /\ UNCHANGED <<numTasks, top, array, seen, item>>
    BY <1>3 DEF Pushed, PushBottom
  <2>2. pc'[Main] = (IF bottom + 1 = numTasks THEN "notify" ELSE "push")
        /\ \A w \in Workers : pc'[w] = pc[w]
    BY <1>0, <2>1, PcOf
  <2>3. /\ bottom < numTasks /\ bottom - top < Size(array)
        /\ At(array, bottom) = bottom + 1
    BY <2>1 DEF QueueInv
  <2>4. Size(array) \in Nat
    BY SizeType
  <2>5. \A i \in top' .. bottom' - 1 : At(array', i) = i + 1
    <3>1. \A i \in top' .. bottom' - 1 : i \in top .. bottom - 1 \/ i = bottom
      BY <1>t, <2>1
    <3> QED
      BY <2>1, <2>3, <3>1 DEF QueueInv
  <2>6. \A w \in Workers :
          /\ pc'[w] \in {"steal", "take"} => seen'[w] <= top'
          /\ pc'[w] = "take" /\ item'[w] # Nil /\ seen'[w] = top' =>
               item'[w] = top' + 1 /\ top' < bottom'
    BY <1>t, <2>1, <2>2 DEF QueueInv
  <2>7. /\ top' <= bottom' /\ bottom' <= numTasks'
        /\ bottom' - top' <= Size(array')
    BY <1>t, <2>1, <2>3, <2>4 DEF QueueInv
  <2>8. CASE bottom + 1 = numTasks
    <3>1. pc'[Main] = "notify" /\ "notify" \in MainPlaces
      BY <2>2, <2>8 DEF MainPlaces
    <3>2. bottom' = numTasks'
      BY <2>1, <2>8
    <3> QED
      BY <2>5, <2>6, <2>7, <3>1, <3>2 DEF QueueInv
  <2>9. CASE bottom + 1 # numTasks
    <3>1. pc'[Main] = "push" /\ "push" \in MainPlaces
      BY <2>2, <2>9 DEF MainPlaces
    <3>2. bottom' < numTasks'
      BY <1>t, <2>1, <2>3, <2>9
    <3> QED
      BY <2>5, <2>6, <2>7, <3>1, <3>2 DEF QueueInv
  <2> QED
    BY <2>8, <2>9
<1> QED
  BY <1>1, <1>2, <1>3 DEF MainKinds, MainAside, Run, RunNothing, Wait

-----------------------------------------------------------------------------
(* Tasks in hand *)

(* The tasks taken from the queue are 1 .. top.  Those that have not run   *)
(* are each in the hands of one worker, which has them run only once.      *)
HandInv ==
  /\ \A w \in Workers :
       /\ InHand(w) => item[w] \in 1 .. top
       /\ InHand(w) /\ pc[w] # "tear down" => runs[item[w]] = 0
       /\ pc[w] = "tear down" => runs[item[w]] = 1
  /\ \A v, w \in Workers : InHand(v) /\ InHand(w) /\ item[v] = item[w] => v = w
  /\ \A k \in Tasks : k > top => runs[k] = 0
  /\ \A k \in 1 .. top : runs[k] = 0 =>
       \E w \in Workers : InHand(w) /\ item[w] = k

LEMMA HandInvInit == Init => HandInv
<1> SUFFICES ASSUME Init PROVE HandInv
  OBVIOUS
<1>1. /\ top = 0 /\ numTasks \in 0 .. MaxTasks
      /\ runs = [k \in 1 .. MaxTasks |-> 0]
  BY DEF Init, QueueInit
<1>2. \A w \in Workers : ~InHand(w) /\ pc[w] # "tear down"
  BY ExecutorAssumption DEF Init, InHand
<1>3. \A k \in Tasks : runs[k] = 0
  BY <1>1, ExecutorAssumption DEF Tasks
<1>4. 1 .. top = {}
  BY <1>1
<1> QED
  BY <1>2, <1>3, <1>4 DEF HandInv

(* A worker without a task, one that has just put it down for instance,    *)
(* and the others as before.                                               *)
LEMMA HandInvRest ==
  ASSUME HandInv, NEW w \in Workers, InHand(w) => runs[item[w]] # 0,
         ~InHand(w)', pc'[w] # "tear down",
         \A v \in Workers \ {w} :
           (InHand(v)' <=> InHand(v)) /\ pc'[v] = pc[v] /\ item'[v] = item[v],
         Tasks' = Tasks, UNCHANGED <<numTasks, top, runs>>
  PROVE  HandInv'
<1>1. ASSUME NEW v \in Workers
      PROVE  /\ InHand(v)' => item'[v] \in 1 .. top'
             /\ InHand(v)' /\ pc'[v] # "tear down" => runs'[item'[v]] = 0
             /\ pc'[v] = "tear down" => runs'[item'[v]] = 1
  <2>1. /\ InHand(v) => item[v] \in 1 .. top
        /\ InHand(v) /\ pc[v] # "tear down" => runs[item[v]] = 0
        /\ pc[v] = "tear down" => runs[item[v]] = 1
    BY DEF HandInv
  <2>2. CASE v = w
    BY <2>2
  <2>3. CASE v # w
    BY <2>1, <2>3
  <2> QED
    BY <2>2, <2>3
<1>2. ASSUME NEW u \in Workers, NEW v \in Workers,
             InHand(u)', InHand(v)', item'[u] = item'[v]
      PROVE  u = v
  <2>1. u # w /\ v # w
    BY <1>2
  <2>2. InHand(u) /\ InHand(v) /\ item[u] = item[v]
    BY <1>2, <2>1
  <2> QED
    BY <2>2 DEF HandInv
<1>3. \A k \in Tasks' : k > top' => runs'[k] = 0
  BY DEF HandInv
<1>4. ASSUME NEW k \in 1 .. top, runs[k] = 0
      PROVE  \E v \in Workers : InHand(v)' /\ item'[v] = k
  <2>1. PICK v \in Workers : InHand(v) /\ item[v] = k
    BY <1>4 DEF HandInv
  <2>2. v # w
    BY <1>4, <2>1
  <2> QED
    BY <2>1, <2>2
<1> QED
  BY <1>1, <1>2, <1>3, <1>4 DEF HandInv

(* Steps of a worker that has no task, before or after. *)
LEMMA HandInvOther ==
  ASSUME Shape, HandInv, NEW w \in Workers, ~InHand(w),
         NEW p, p \notin {"found", "exploit", "thieves", "invoke", "tear down"},
         pc' = [pc EXCEPT ![w] = p],
         \A v \in Workers \ {w} : item'[v] = item[v],
         UNCHANGED <<numTasks, top, runs>>
  PROVE  HandInv'
<1>1. w \in Threads /\ Workers \subseteq Threads
  BY ExecutorAssumption
<1>2. ~InHand(w)' /\ pc'[w] # "tear down"
  BY <1>1, PcOf DEF InHand
<1>3. \A v \in Workers \ {w} : (InHand(v)' <=> InHand(v)) /\ pc'[v] = pc[v]
  BY <1>1, PcOf DEF InHand
<1>4. Tasks' = Tasks
  BY DEF Tasks
<1> QED
  BY <1>2, <1>3, <1>4, HandInvRest

LEMMA HandInvTask ==
  ASSUME Shape, QueueInv, HandInv, NEW w \in Workers,
         Won(w) \/ Hurry(w) \/ Invoke(w) \/ TearDownInvoke(w)
  PROVE  HandInv'
<1> USE DEF Step, IsAt, Goto, topology, queueVars
<1>0. w \in Threads /\ Workers \subseteq Threads
  BY ExecutorAssumption
<1>t. top \in Nat /\ bottom \in Nat /\ numTasks \in Nat
      /\ numTasks \in 0 .. MaxTasks /\ runs \in [1 .. MaxTasks -> Nat]
      /\ top <= bottom /\ bottom <= numTasks
  BY ExecutorAssumption DEF Shape, QueueInv
<1>1. CASE Won(w)
  <2>1. /\ pc[w] = "take" /\ item[w] # Nil /\ seen[w] = top /\ top' = top + 1
        /\ pc' = [pc EXCEPT ![w] = "found"]
        /\ UNCHANGED <<numTasks, item, runs>>
    BY <1>1 DEF Won
  <2>2. ~InHand(w) /\ InHand(w)' /\ pc'[w] = "found"
        /\ \A v \in Workers \ {w} : (InHand(v)' <=> InHand(v)) /\ pc'[v] = pc[v]
    BY <1>0, <2>1, PcOf DEF InHand
  <2>3. item[w] = top + 1 /\ top < bottom
    BY <2>1 DEF QueueInv
  <2>4. runs[top + 1] = 0
    <3>1. top + 1 \in Tasks /\ top + 1 > top
      BY <1>t, <2>3 DEF Tasks
    <3> QED
      BY <3>1 DEF HandInv
  <2>5. \A v \in Workers :
          /\ InHand(v)' => item'[v] \in 1 .. top'
          /\ InHand(v)' /\ pc'[v] # "tear down" => runs'[item'[v]] = 0
          /\ pc'[v] = "tear down" => runs'[item'[v]] = 1
    <3>1. ASSUME NEW v \in Workers, v # w
          PROVE  /\ InHand(v)' => item'[v] \in 1 .. top
                 /\ InHand(v)' /\ pc'[v] # "tear down" => runs'[item'[v]] = 0
                 /\ pc'[v] = "tear down" => runs'[item'[v]] = 1
      <4>1. /\ InHand(v) => item[v] \in 1 .. top
            /\ InHand(v) /\ pc[v] # "tear down" => runs[item[v]] = 0
            /\ pc[v] = "tear down" => runs[item[v]] = 1
        BY DEF HandInv
      <4> QED
        BY <2>1, <2>2, <3>1, <4>1
    <3>2. item'[w] \in 1 .. top' /\ 1 .. top \subseteq 1 .. top'
      BY <1>t, <2>1, <2>3
    <3> QED
      BY <2>1, <2>2, <2>3, <2>4, <3>1, <3>2
  <2>6. \A v \in Workers \ {w} : InHand(v) => item[v] # item[w]
    <3>1. item[w] \notin 1 .. top
      BY <1>t, <2>3
    <3>2. \A v \in Workers : InHand(v) => item[v] \in 1 .. top
      BY DEF HandInv
    <3> QED
      BY <3>1, <3>2
  <2>7. \A u, v \in Workers :
          InHand(u)' /\ InHand(v)' /\ item'[u] = item'[v] => u = v
    BY <2>1, <2>2, <2>6 DEF HandInv
  <2>8. \A k \in Tasks' : k > top' => runs'[k] = 0
    <3>1. \A k \in Tasks : k > top' => k > top
      BY <1>t, <2>1 DEF Tasks
    <3>2. Tasks' = Tasks
      BY <2>1 DEF Tasks
    <3> QED
      BY <2>1, <3>1, <3>2 DEF HandInv
  <2>9. \A k \in 1 .. top' : runs'[k] = 0 =>
          \E v \in Workers : InHand(v)' /\ item'[v] = k
    <3>1. \A k \in 1 .. top' : k \in 1 .. top \/ k = item[w]
      BY <1>t, <2>1, <2>3
    <3> QED
      BY <2>1, <2>2, <3>1 DEF HandInv
  <2> QED
    BY <2>5, <2>7, <2>8, <2>9 DEF HandInv
<1>2. CASE Hurry(w)
  <2>1. PICK p \in {"exploit", "thieves", "invoke"} : pc' = [pc EXCEPT ![w] = p]
    BY <1>2 DEF Hurry
  <2>2. /\ pc[w] \in {"found", "exploit", "thieves"}
        /\ UNCHANGED <<numTasks, top, item, runs>>
    BY <1>2 DEF Hurry
  <2>3. /\ pc'[w] = p
        /\ \A v \in Workers : (InHand(v)' <=> InHand(v))
        /\ \A v \in Workers :
             pc'[v] = "tear down" <=> pc[v] = "tear down"
    BY <1>0, <2>1, <2>2, PcOf DEF InHand
  <2>4. Tasks' = Tasks
    BY <2>2 DEF Tasks
  <2> QED
    BY <2>2, <2>3, <2>4 DEF HandInv
<1>3. CASE Invoke(w)
  <2>1. /\ pc[w] = "invoke" /\ pc' = [pc EXCEPT ![w] = "tear down"]
        /\ runs' = [runs EXCEPT ![item[w]] = @ + 1]
        /\ UNCHANGED <<numTasks, top, item>>
    BY <1>3 DEF Invoke
  <2>2. /\ InHand(w) /\ InHand(w)' /\ pc'[w] = "tear down"
        /\ \A v \in Workers \ {w} : (InHand(v)' <=> InHand(v)) /\ pc'[v] = pc[v]
    BY <1>0, <2>1, PcOf DEF InHand
  <2>3. item[w] \in 1 .. top /\ runs[item[w]] = 0 /\ item[w] \in 1 .. MaxTasks
    <3>1. item[w] \in 1 .. top /\ runs[item[w]] = 0
      BY <2>1, <2>2 DEF HandInv
    <3> QED
      BY <1>t, <3>1, ExecutorAssumption
  <2>4. runs'[item[w]] = 1
        /\ \A k \in 1 .. MaxTasks : k # item[w] => runs'[k] = runs[k]
    <3>1. runs[item[w]] + 1 = 1
      BY <2>3
    <3>2. runs' = [runs EXCEPT ![item[w]] = runs[item[w]] + 1]
      BY <2>1
    <3> QED
      BY <1>t, <2>3, <3>1, <3>2
  <2>5. \A v \in Workers \ {w} : InHand(v) => item[v] # item[w]
    BY <2>2 DEF HandInv
  <2>6. \A k \in 1 .. top : k \in 1 .. MaxTasks
    BY <1>t, ExecutorAssumption
  <2>7. \A v \in Workers :
          /\ InHand(v)' => item'[v] \in 1 .. top'
          /\ InHand(v)' /\ pc'[v] # "tear down" => runs'[item'[v]] = 0
          /\ pc'[v] = "tear down" => runs'[item'[v]] = 1
    <3>1. ASSUME NEW v \in Workers, v # w
          PROVE  /\ InHand(v)' => item'[v] \in 1 .. top'
                 /\ InHand(v)' /\ pc'[v] # "tear down" => runs'[item'[v]] = 0
                 /\ pc'[v] = "tear down" => runs'[item'[v]] = 1
      <4>1. /\ InHand(v) => item[v] \in 1 .. top
            /\ InHand(v) /\ pc[v] # "tear down" => runs[item[v]] = 0
            /\ pc[v] = "tear down" => runs[item[v]] = 1
        BY DEF HandInv
      <4>2. InHand(v) => runs'[item[v]] = runs[item[v]]
        BY <2>4, <2>5, <2>6, <3>1, <4>1
      <4>3. pc'[v] = "tear down" => InHand(v)'
        BY DEF InHand
      <4>4. (InHand(v)' <=> InHand(v)) /\ pc'[v] = pc[v]
        BY <2>2, <3>1
      <4> QED
        BY <2>1, <4>1, <4>2, <4>3, <4>4
    <3> QED
      BY <2>1, <2>2, <2>3, <2>4, <3>1
  <2>8. \A u, v \in Workers :
          InHand(u)' /\ InHand(v)' /\ item'[u] = item'[v] => u = v
    BY <2>1, <2>2 DEF HandInv
  <2>9. \A k \in Tasks' : k > top' => runs'[k] = 0
    <3>1. \A k \in Tasks : k > top => k # item[w] /\ k \in 1 .. MaxTasks
      BY <1>t, <2>3, ExecutorAssumption DEF Tasks
    <3>2. Tasks' = Tasks
      BY <2>1 DEF Tasks
    <3> QED
      BY <2>1, <2>4, <3>1, <3>2 DEF HandInv
  <2>10. \A k \in 1 .. top' : runs'[k] = 0 =>
           \E v \in Workers : InHand(v)' /\ item'[v] = k
    <3>1. ASSUME NEW k \in 1 .. top, runs'[k] = 0
          PROVE  \E v \in Workers : InHand(v)' /\ item[v] = k
      <4>1. runs[k] = 0 /\ k # item[w]
        BY <2>4, <2>6, <3>1
      <4> QED
        BY <2>2, <4>1 DEF HandInv
    <3> QED
      BY <2>1, <3>1
  <2> QED
    BY <2>7, <2>8, <2>9, <2>10 DEF HandInv
<1>4. CASE TearDownInvoke(w)
  <2>1. PICK p \in {"promise", "inactive"} : pc' = [pc EXCEPT ![w] = p]
    BY <1>4 DEF TearDownInvoke
  <2>2. pc[w] = "tear down" /\ UNCHANGED <<numTasks, top, item, runs>>
    BY <1>4 DEF TearDownInvoke
  <2>3. /\ InHand(w) /\ ~InHand(w)' /\ pc'[w] # "tear down"
        /\ \A v \in Workers \ {w} : (InHand(v)' <=> InHand(v)) /\ pc'[v] = pc[v]
    BY <1>0, <2>1, <2>2, PcOf DEF InHand
  <2>4. runs[item[w]] = 1
    BY <2>2, <2>3 DEF HandInv
  <2>5. Tasks' = Tasks
    BY <2>2 DEF Tasks
  <2> QED
    <3>1. runs[item[w]] # 0
      BY <2>4
    <3>2. \A v \in Workers \ {w} :
            (InHand(v)' <=> InHand(v)) /\ pc'[v] = pc[v] /\ item'[v] = item[v]
      BY <2>2, <2>3
    <3> QED
      BY <2>2, <2>3, <2>5, <3>1, <3>2, HandInvRest
<1> QED
  BY <1>1, <1>2, <1>3, <1>4

LEMMA HandInvWorker ==
  ASSUME Shape, QueueInv, HandInv, NEW w \in Workers, WorkerKinds(w)
  PROVE  HandInv'
<1> USE DEF Step, IsAt, Goto, topology, queueVars, InHand
<1>1. CASE Aside(w)
  <2>1. PICK p \in AsidePlaces : pc' = [pc EXCEPT ![w] = p]
    BY <1>1 DEF Aside
  <2>2. /\ pc[w] \in AsidePlaces \cup {"take"}
        /\ \A v \in Workers \ {w} : item'[v] = item[v]
        /\ UNCHANGED <<numTasks, top, runs>>
    BY <1>1 DEF Aside
  <2> QED
    BY <2>1, <2>2, HandInvOther DEF AsidePlaces
<1>2. CASE Explore(w)
  BY <1>2, HandInvOther DEF Explore, ReadTop
<1>3. CASE Steal(w)
  <2>1. \A v \in Workers \ {w} : item'[v] = item[v]
    BY <1>3 DEF Steal, ReadItem, Shape
  <2> QED
    BY <1>3, <2>1, HandInvOther DEF Steal, ReadItem
<1>4. CASE SetPromise(w) \/ TearDownTopology(w)
  BY <1>4, HandInvOther DEF SetPromise, TearDownTopology
<1> QED
  BY <1>1, <1>2, <1>3, <1>4, HandInvTask DEF WorkerKinds

(* Steps of the main thread leave the workers where they are. *)
LEMMA MainStep ==
  ASSUME Shape, MainKinds
  PROVE  /\ \A w \in Workers : pc'[w] = pc[w]
         /\ UNCHANGED <<numTasks, top, item, runs>>
<1> USE DEF Step, IsAt, Goto, topology, queueVars
<1>0. Main \in Threads /\ Workers \subseteq Threads \ {Main}
  BY ExecutorAssumption
<1>1. \E p : pc' = [pc EXCEPT ![Main] = p]
  BY DEF MainKinds, MainAside, Run, RunNothing, Push, Pushed, Wait
<1>2. UNCHANGED <<numTasks, top, item, runs>>
  BY DEF MainKinds, MainAside, Run, RunNothing, Push, PushItem, Pushed,
         PushBottom, Wait
<1> QED
  BY <1>0, <1>1, <1>2, PcOf

LEMMA HandInvMain ==
  ASSUME Shape, HandInv, MainKinds
  PROVE  HandInv'
<1>1. \A w \in Workers : (InHand(w)' <=> InHand(w)) /\ pc'[w] = pc[w]
  BY MainStep DEF InHand
<1>2. Tasks' = Tasks /\ UNCHANGED <<top, item, runs>>
  BY MainStep DEF Tasks
<1>3. ASSUME NEW w \in Workers
      PROVE  /\ InHand(w)' => item'[w] \in 1 .. top'
             /\ InHand(w)' /\ pc'[w] # "tear down" => runs'[item'[w]] = 0
             /\ pc'[w] = "tear down" => runs'[item'[w]] = 1
  <2>1. /\ InHand(w) => item[w] \in 1 .. top
        /\ InHand(w) /\ pc[w] # "tear down" => runs[item[w]] = 0
        /\ pc[w] = "tear down" => runs[item[w]] = 1
    BY DEF HandInv
  <2> QED
    BY <1>1, <1>2, <2>1
<1>4. \A v, w \in Workers :
        InHand(v)' /\ InHand(w)' /\ item'[v] = item'[w] => v = w
  BY <1>1, <1>2 DEF HandInv
<1>5. \A k \in Tasks' : k > top' => runs'[k] = 0
  BY <1>2 DEF HandInv
<1>6. \A k \in 1 .. top' : runs'[k] = 0 =>
        \E w \in Workers : InHand(w)' /\ item'[w] = k
  BY <1>1, <1>2 DEF HandInv
<1> QED
  BY <1>3, <1>4, <1>5, <1>6 DEF HandInv

-----------------------------------------------------------------------------
(* The topology's counter *)

LEMMA InHandIs ==
  ASSUME NEW k
  PROVE  k \in TasksInHand <=> \E w \in Workers : InHand(w) /\ item[w] = k
BY DEF TasksInHand

(* Tasks still waiting are those the top of the queue has not passed. *)
LEMMA WaitingIs ==
  ASSUME Shape, HandInv
  PROVE  { k \in Tasks : runs[k] = 0 /\ k \notin TasksInHand }
           = top + 1 .. numTasks
<1>t. top \in Nat /\ numTasks \in Nat
  BY ExecutorAssumption DEF Shape
<1>1. ASSUME NEW k \in Tasks, runs[k] = 0, k \notin TasksInHand
      PROVE  k \in top + 1 .. numTasks
  <2>1. k \notin 1 .. top
    BY <1>1, InHandIs DEF HandInv
  <2> QED
    BY <1>t, <2>1 DEF Tasks
<1>2. ASSUME NEW k \in top + 1 .. numTasks
      PROVE  k \in Tasks /\ runs[k] = 0 /\ k \notin TasksInHand
  <2>1. k \in Tasks /\ k > top /\ k \notin 1 .. top
    BY <1>t DEF Tasks
  <2>2. k \notin TasksInHand
    <3>1. \A v \in Workers : InHand(v) => item[v] \in 1 .. top
      BY DEF HandInv
    <3> QED
      BY <2>1, <3>1, InHandIs
  <2> QED
    BY <2>1, <2>2 DEF HandInv
<1> QED
  BY <1>1, <1>2

(* The tasks that are not over. *)
Open == (top + 1 .. numTasks) \cup TasksInHand

LEMMA OpenFinite ==
  ASSUME Shape, QueueInv, HandInv
  PROVE  Open \subseteq 1 .. numTasks /\ IsFiniteSet(Open)
         /\ Cardinality(Open) \in Nat
<1>t. top \in Nat /\ numTasks \in Nat /\ bottom \in Nat /\ top <= bottom
      /\ bottom <= numTasks
  BY ExecutorAssumption DEF Shape, QueueInv
<1>1. Open \subseteq 1 .. numTasks
  <2>1. TasksInHand \subseteq 1 .. top
    <3>1. \A v \in Workers : InHand(v) => item[v] \in 1 .. top
      BY DEF HandInv
    <3> QED
      BY <3>1, InHandIs
  <2> QED
    BY <1>t, <2>1 DEF Open
<1>2. IsFiniteSet(1 .. numTasks)
  BY <1>t, FS_Interval
<1> QED
  BY <1>1, <1>2, FS_Subset, FS_CardinalityType

(* What becomes of the tasks in hand when a worker steps. *)
LEMMA HandStep ==
  ASSUME Shape, QueueInv, HandInv, NEW w \in Workers, WorkerKinds(w)
  PROVE  \/ /\ Won(w) /\ ~InHand(w) /\ InHand(w)' /\ item'[w] = top + 1
            /\ TasksInHand' = TasksInHand \cup {top + 1}
         \/ /\ TearDownInvoke(w) /\ InHand(w) /\ ~InHand(w)'
            /\ TasksInHand' = TasksInHand \ {item[w]}
         \/ /\ ~Won(w) /\ ~TearDownInvoke(w)
            /\ (InHand(w)' <=> InHand(w)) /\ TasksInHand' = TasksInHand
            /\ InHand(w) => item'[w] = item[w]
            /\ UNCHANGED <<top, joinCounter>>
<1> USE DEF Step, IsAt, Goto, topology, queueVars
<1>0. w \in Threads /\ Workers \subseteq Threads
  BY ExecutorAssumption
<1>1. \E p : pc' = [pc EXCEPT ![w] = p]
  BY DEF WorkerKinds, Aside, Explore, Steal, Won, Hurry, Invoke,
         TearDownInvoke, SetPromise, TearDownTopology
<1>2. \A v \in Workers \ {w} : item'[v] = item[v]
  BY DEF Shape, WorkerKinds, Aside, Explore, ReadTop, Steal, ReadItem, Won,
         Hurry, Invoke, TearDownInvoke, SetPromise, TearDownTopology
<1>3. \A v \in Workers \ {w} : (InHand(v)' <=> InHand(v)) /\ item'[v] = item[v]
  BY <1>0, <1>1, <1>2, PcOf DEF InHand
<1>4. CASE Won(w)
  <2>1. ~InHand(w) /\ InHand(w)' /\ item'[w] = item[w]
    BY <1>0, <1>4, PcOf DEF InHand, Won
  <2>2. item[w] = top + 1
    BY <1>4 DEF Won, QueueInv
  <2>3. \A k : k \in TasksInHand' <=>
          \E v \in Workers : InHand(v)' /\ item'[v] = k
    BY DEF TasksInHand
  <2>4. TasksInHand' = TasksInHand \cup {top + 1}
    BY <1>3, <2>1, <2>2, <2>3, InHandIs
  <2> QED
    BY <1>4, <2>1, <2>2, <2>4
<1>5. CASE TearDownInvoke(w)
  <2>1. InHand(w) /\ ~InHand(w)'
    <3>1. PICK p \in {"promise", "inactive"} : pc' = [pc EXCEPT ![w] = p]
      BY <1>5 DEF TearDownInvoke
    <3>2. pc[w] = "tear down" /\ pc'[w] = p
      BY <1>0, <1>5, <3>1, PcOf DEF TearDownInvoke
    <3> QED
      BY <3>1, <3>2 DEF InHand
  <2>2. \A v \in Workers \ {w} : InHand(v) => item[v] # item[w]
    BY <2>1 DEF HandInv
  <2>3. \A k : k \in TasksInHand' <=>
          \E v \in Workers : InHand(v)' /\ item'[v] = k
    BY DEF TasksInHand
  <2>4. TasksInHand' = TasksInHand \ {item[w]}
    BY <1>3, <2>1, <2>2, <2>3, InHandIs
  <2> QED
    BY <1>5, <2>1, <2>4
<1>6. CASE ~Won(w) /\ ~TearDownInvoke(w)
  <2>1. (InHand(w)' <=> InHand(w)) /\ (InHand(w) => item'[w] = item[w])
        /\ UNCHANGED <<top, joinCounter>>
    <3>1. CASE Aside(w)
      <4>1. PICK p \in AsidePlaces : pc' = [pc EXCEPT ![w] = p]
        BY <3>1 DEF Aside
      <4>2. pc[w] \in AsidePlaces \cup {"take"} /\ UNCHANGED <<top, joinCounter>>
        BY <3>1 DEF Aside
      <4>3. pc'[w] = p
        BY <1>0, <4>1, PcOf
      <4> QED
        BY <4>2, <4>3 DEF AsidePlaces, InHand
    <3>2. CASE Explore(w)
      <4>1. /\ pc[w] \in {"explore", "steal again"}
            /\ pc' = [pc EXCEPT ![w] = "steal"]
            /\ UNCHANGED <<top, item, joinCounter>>
        BY <3>2 DEF Explore, ReadTop
      <4>2. pc'[w] = "steal"
        BY <1>0, <4>1, PcOf
      <4> QED
        BY <4>1, <4>2 DEF InHand
    <3>5. CASE Steal(w)
      <4>1. /\ pc[w] = "steal" /\ pc' = [pc EXCEPT ![w] = "take"]
            /\ UNCHANGED <<top, joinCounter>>
        BY <3>5 DEF Steal, ReadItem
      <4>2. pc'[w] = "take"
        BY <1>0, <4>1, PcOf
      <4> QED
        BY <4>1, <4>2 DEF InHand
    <3>3. CASE Hurry(w) \/ Invoke(w)
      BY <1>0, <3>3, PcOf DEF Hurry, Invoke, InHand
    <3>4. CASE SetPromise(w) \/ TearDownTopology(w)
      <4>1. /\ pc[w] \in {"promise", "topology"}
            /\ \E p \in {"topology", "inactive"} : pc' = [pc EXCEPT ![w] = p]
            /\ UNCHANGED <<top, item, joinCounter>>
        BY <3>4 DEF SetPromise, TearDownTopology
      <4>2. pc'[w] \in {"topology", "inactive"}
        BY <1>0, <4>1, PcOf
      <4> QED
        BY <4>1, <4>2 DEF InHand
    <3> QED
      BY <1>6, <3>1, <3>2, <3>3, <3>4, <3>5 DEF WorkerKinds
  <2>2. \A k : k \in TasksInHand' <=>
          \E v \in Workers : InHand(v)' /\ item'[v] = k
    BY DEF TasksInHand
  <2>3. TasksInHand' = TasksInHand
    BY <1>3, <2>1, <2>2, InHandIs
  <2> QED
    BY <1>6, <2>1, <2>3
<1> QED
  BY <1>4, <1>5, <1>6

(* The counter counts the open tasks from the moment the run is submitted. *)
(* Whoever takes off the last one is alone with the promise.               *)
JoinInv ==
  /\ pc[Main] \in {"spawn", "run"} =>
       joinCounter = 0 /\ ~promise /\ \A w \in Workers : pc[w] # "promise"
  /\ pc[Main] \notin {"spawn", "run"} => joinCounter = Cardinality(Open)
  /\ \A w \in Workers :
       pc[w] = "promise" => joinCounter = 0 /\ ~promise /\ numTasks > 0
  /\ \A v, w \in Workers : pc[v] = "promise" /\ pc[w] = "promise" => v = w
  /\ promise => joinCounter = 0
  /\ pc[Main] \in {"shutdown", "notify all", "join", "exited"} => promise

LEMMA JoinInvInit == Init => JoinInv
<1> SUFFICES ASSUME Init PROVE JoinInv
  OBVIOUS
<1>1. promise = FALSE /\ joinCounter = 0 /\ pc[Main] = "spawn"
      /\ \A w \in Workers : pc[w] = "start"
  BY ExecutorAssumption DEF Init
<1> QED
  BY <1>1 DEF JoinInv

LEMMA JoinInvWorker ==
  ASSUME Shape, QueueInv, HandInv, JoinInv, NEW w \in Workers, WorkerKinds(w)
  PROVE  JoinInv'
<1> USE DEF Step, IsAt, Goto, topology, queueVars
<1>0. w \in Threads /\ Workers \subseteq Threads /\ Main \in Threads \ {w}
  BY ExecutorAssumption
<1>t. top \in Nat /\ numTasks \in Nat /\ bottom \in Nat /\ top <= bottom
      /\ bottom <= numTasks /\ joinCounter \in Int
  BY ExecutorAssumption DEF Shape, QueueInv
<1>1. PICK p : pc' = [pc EXCEPT ![w] = p]
  BY DEF WorkerKinds, Aside, Explore, Steal, Won, Hurry, Invoke,
         TearDownInvoke, SetPromise, TearDownTopology
<1>2. /\ pc'[w] = p /\ pc'[Main] = pc[Main]
      /\ \A v \in Workers \ {w} : pc'[v] = pc[v]
  BY <1>0, <1>1, PcOf
<1>3. numTasks' = numTasks
  BY DEF WorkerKinds, Aside, Explore, Steal, Won, Hurry, Invoke,
         TearDownInvoke, SetPromise, TearDownTopology
<1>4. CASE TearDownInvoke(w)
  <2>1. /\ InHand(w) /\ joinCounter' = joinCounter - 1
        /\ pc' = [pc EXCEPT ![w] =
                    IF joinCounter = 1 THEN "promise" ELSE "inactive"]
        /\ UNCHANGED <<top, promise>>
    BY <1>4 DEF TearDownInvoke, InHand
  <2>2. pc'[w] = IF joinCounter = 1 THEN "promise" ELSE "inactive"
    BY <1>0, <2>1, PcOf
  <2>3. item[w] \in 1 .. top
    BY <2>1 DEF HandInv
  <2>4. top > 0 /\ bottom # 0 /\ numTasks > 0
    BY <1>t, <2>3
  <2>5. pc[Main] \notin {"spawn", "run"}
    BY <2>4 DEF QueueInv
  <2>6. item[w] \in Open
    BY <2>1, InHandIs DEF Open
  <2>7. /\ IsFiniteSet(Open) /\ Cardinality(Open) \in Nat
        /\ joinCounter = Cardinality(Open)
    BY <2>5, OpenFinite DEF JoinInv
  <2>8. Open' = Open \ {item[w]}
    <3>1. TasksInHand' = TasksInHand \ {item[w]}
      BY <1>4, <2>1, HandStep DEF Won
    <3>2. item[w] \notin top + 1 .. numTasks
      BY <1>t, <2>3
    <3> QED
      BY <1>3, <2>1, <3>1, <3>2 DEF Open
  <2>9. Cardinality(Open') = Cardinality(Open) - 1
    BY <2>6, <2>7, <2>8, FS_RemoveElement
  <2>10. Cardinality(Open) # 0
    BY <2>6, <2>7, FS_EmptySet
  <2>11. ~promise /\ \A v \in Workers : pc[v] # "promise"
    BY <2>7, <2>10 DEF JoinInv
  <2>12. pc'[Main] \notin {"spawn", "run"} /\ joinCounter' = Cardinality(Open')
    BY <1>2, <2>1, <2>5, <2>7, <2>9
  <2>13. \A v \in Workers : pc'[v] = "promise" =>
           v = w /\ joinCounter' = 0
    BY <1>2, <2>1, <2>2, <2>11
  <2>14. ~promise'
    BY <2>1, <2>11
  <2>15. pc'[Main] \notin {"shutdown", "notify all", "join", "exited"}
    BY <1>2, <2>11 DEF JoinInv
  <2> QED
    BY <1>3, <2>4, <2>12, <2>13, <2>14, <2>15 DEF JoinInv
<1>5. CASE ~TearDownInvoke(w)
  <2>1. Open' = Open /\ joinCounter' = joinCounter
    <3>1. CASE Won(w)
      <4>1. TasksInHand' = TasksInHand \cup {top + 1} /\ top' = top + 1
            /\ joinCounter' = joinCounter
        BY <1>5, <3>1, HandStep DEF Won
      <4>2. top < bottom
        BY <3>1 DEF Won, QueueInv
      <4>3. top + 1 .. numTasks = {top + 1} \cup (top + 1 + 1 .. numTasks)
        BY <1>t, <4>2
      <4> QED
        BY <1>3, <4>1, <4>3 DEF Open
    <3>2. CASE ~Won(w)
      BY <1>3, <1>5, <3>2, HandStep DEF Open
    <3> QED
      BY <3>1, <3>2
  <2>2. CASE SetPromise(w)
    <3>1. /\ pc[w] = "promise" /\ promise' = TRUE
          /\ pc' = [pc EXCEPT ![w] = "topology"]
      BY <2>2 DEF SetPromise
    <3>2. pc'[w] = "topology"
      BY <1>0, <3>1, PcOf
    <3>3. joinCounter = 0 /\ pc[Main] \notin {"spawn", "run"}
          /\ \A v \in Workers : pc[v] = "promise" => v = w
      BY <3>1 DEF JoinInv
    <3>4. \A v \in Workers : pc'[v] # "promise"
      BY <1>2, <3>2, <3>3
    <3> QED
      BY <1>2, <2>1, <3>1, <3>3, <3>4 DEF JoinInv
  <2>3. CASE ~SetPromise(w)
    <3>1. promise' = promise
      BY <1>5, <2>3 DEF WorkerKinds, Aside, Explore, Steal, Won, Hurry, Invoke,
                        TearDownTopology
    <3>2. \E q : pc' = [pc EXCEPT ![w] = q] /\ q # "promise"
      BY <1>5, <2>3 DEF WorkerKinds, Aside, AsidePlaces, Explore, Steal, Won,
                        Hurry, Invoke, TearDownTopology
    <3>3. pc'[w] # "promise"
      BY <1>0, <3>2, PcOf
    <3> QED
      BY <1>2, <1>3, <2>1, <3>1, <3>3 DEF JoinInv
  <2> QED
    BY <2>2, <2>3
<1> QED
  BY <1>4, <1>5

LEMMA JoinInvMain ==
  ASSUME Shape, QueueInv, HandInv, JoinInv, MainKinds
  PROVE  JoinInv'
<1> USE DEF Step, IsAt, Goto, topology, queueVars
<1>0. Main \in Threads
  BY ExecutorAssumption
<1>t. top \in Nat /\ numTasks \in Nat /\ bottom \in Nat /\ top <= bottom
      /\ bottom <= numTasks /\ joinCounter \in Int
  BY ExecutorAssumption DEF Shape, QueueInv
<1>1. numTasks' = numTasks /\ \A w \in Workers : pc'[w] = pc[w]
  BY MainStep
<1>2. Open' = Open
  <2>1. TasksInHand' = TasksInHand
    <3>1. \A w \in Workers : (InHand(w)' <=> InHand(w)) /\ item'[w] = item[w]
      BY MainStep DEF InHand
    <3>2. \A k : k \in TasksInHand' <=>
            \E v \in Workers : InHand(v)' /\ item'[v] = k
      BY DEF TasksInHand
    <3> QED
      BY <3>1, <3>2, InHandIs
  <2> QED
    BY <2>1, MainStep DEF Open
<1>3. CASE Run
  <2>1. /\ pc[Main] = "run" /\ joinCounter' = numTasks /\ promise' = promise
        /\ \E p \in {"nothing", "push"} : pc' = [pc EXCEPT ![Main] = p]
    BY <1>3 DEF Run
  <2>2. pc'[Main] \in {"nothing", "push"}
    BY <1>0, <2>1, PcOf
  <2>3. top = 0
    BY <1>t, <2>1 DEF QueueInv
  <2>4. Open = 1 .. numTasks
    BY <1>t, <2>3, OpenFinite DEF Open
  <2>5. joinCounter' = Cardinality(Open')
    BY <1>t, <1>2, <2>1, <2>4, FS_Interval
  <2>6. ~promise' /\ \A w \in Workers : pc'[w] # "promise"
    BY <1>1, <2>1 DEF JoinInv
  <2> QED
    BY <2>2, <2>5, <2>6 DEF JoinInv
<1>4. CASE RunNothing
  <2>1. /\ pc[Main] = "nothing" /\ joinCounter' = joinCounter /\ promise' = TRUE
        /\ pc' = [pc EXCEPT ![Main] = "wait"]
    BY <1>4 DEF RunNothing
  <2>2. pc'[Main] = "wait"
    BY <1>0, <2>1, PcOf
  <2>3. numTasks = 0
    BY <2>1 DEF QueueInv
  <2>4. joinCounter = Cardinality(Open) /\ \A w \in Workers : pc[w] # "promise"
    BY <1>t, <2>1, <2>3 DEF JoinInv
  <2>5. joinCounter = 0
    <3>1. Open = {}
      BY <2>3, OpenFinite
    <3> QED
      BY <2>4, <3>1, FS_EmptySet
  <2> QED
    BY <1>1, <1>2, <2>1, <2>2, <2>4, <2>5 DEF JoinInv
<1>5. CASE Wait
  <2>1. /\ pc[Main] = "wait" /\ promise /\ UNCHANGED <<joinCounter, promise>>
        /\ pc' = [pc EXCEPT ![Main] = "shutdown"]
    BY <1>5 DEF Wait
  <2>2. pc'[Main] = "shutdown"
    BY <1>0, <2>1, PcOf
  <2> QED
    BY <1>1, <1>2, <2>1, <2>2 DEF JoinInv
<1>6. CASE MainAside \/ Push \/ Pushed
  <2>1. /\ UNCHANGED <<joinCounter, promise>>
        /\ \E p : /\ pc' = [pc EXCEPT ![Main] = p]
                  /\ p \in {"spawn", "run"} => pc[Main] \in {"spawn", "run"}
                  /\ pc[Main] \in {"spawn", "run"} => p \in {"spawn", "run"}
                  /\ p \in {"shutdown", "notify all", "join", "exited"} =>
                       pc[Main] \in {"shutdown", "notify all", "join", "exited"}
    BY <1>6 DEF MainAside, Push, Pushed
  <2>2. /\ pc'[Main] \in {"spawn", "run"} <=> pc[Main] \in {"spawn", "run"}
        /\ pc'[Main] \in {"shutdown", "notify all", "join", "exited"} =>
             pc[Main] \in {"shutdown", "notify all", "join", "exited"}
    BY <1>0, <2>1, PcOf
  <2> QED
    BY <1>1, <1>2, <2>1, <2>2 DEF JoinInv
<1> QED
  BY <1>3, <1>4, <1>5, <1>6 DEF MainKinds

-----------------------------------------------------------------------------
(* The invariant *)

IInv == Shape /\ QueueInv /\ HandInv /\ JoinInv

LEMMA IInvStill ==
  ASSUME IInv, Still
  PROVE  IInv'
<1>1. Tasks' = Tasks /\ TasksInHand' = TasksInHand /\ Open' = Open
  BY DEF Still, Tasks, TasksInHand, InHand, Open, queueVars
<1>2. \A w \in Workers : InHand(w)' <=> InHand(w)
  BY DEF Still, InHand
<1>3. \A i : At(array', i) = At(array, i)
  BY DEF Still, queueVars
<1>4. Shape'
  BY <1>1, Zenon DEF IInv, Shape, Still, queueVars, topology
<1>5. QueueInv'
  BY <1>3, Zenon DEF IInv, QueueInv, Still, queueVars
<1>6. HandInv'
  BY <1>1, <1>2, Zenon DEF IInv, HandInv, Still, queueVars
<1>7. JoinInv'
  BY <1>1, Zenon DEF IInv, JoinInv, Still, topology
<1> QED
  BY <1>4, <1>5, <1>6, <1>7 DEF IInv

LEMMA IInvStep == IInv /\ [Next]_vars => IInv'
<1> SUFFICES ASSUME IInv, [Next]_vars PROVE IInv'
  OBVIOUS
<1> USE DEF IInv
<1>1. CASE Still
  BY <1>1, IInvStill
<1>2. CASE MainKinds
  BY <1>2, ShapeMain, QueueInvMain, HandInvMain, JoinInvMain
<1>3. ASSUME NEW w \in Workers, WorkerKinds(w)
      PROVE  IInv'
  BY <1>3, ShapeWorker, QueueInvWorker, HandInvWorker, JoinInvWorker
<1> QED
  BY <1>1, <1>2, <1>3, StepKinds

LEMMA IInvAlways == Spec => []IInv
<1>1. Init => IInv
  BY ShapeInit, QueueInvInit, HandInvInit, JoinInvInit DEF IInv
<1> QED
  BY <1>1, IInvStep, PTL DEF Spec

(* Once wait() has returned no worker is where it touches a task or the    *)
(* topology, which the main thread destroys.                               *)
THEOREM NothingUsed == Spec => []NothingUsedAfterWait
<1>1. IInv => NothingUsedAfterWait
  <2> SUFFICES ASSUME IInv,
                      MainIsAt({"shutdown", "notify all", "join", "exited"}),
                      NEW w \in Workers
               PROVE  ~InHand(w) /\ pc[w] # "promise"
    BY DEF NothingUsedAfterWait, InHand
  <2>1. promise /\ joinCounter = 0 /\ joinCounter = Cardinality(Open)
        /\ pc[w] # "promise"
    BY DEF IInv, JoinInv, MainIsAt
  <2>2. Open = {}
    BY <2>1, OpenFinite, FS_EmptySet DEF IInv
  <2>3. ~InHand(w)
    BY <2>2, InHandIs DEF Open
  <2> QED
    BY <2>1, <2>3
<1> QED
  BY <1>1, IInvAlways, PTL

-----------------------------------------------------------------------------
(* The refinement *)

PoolWaiting == { k \in Tasks : runs[k] = 0 /\ k \notin TasksInHand }
PoolRunning == [w \in Workers |-> IF InHand(w) THEN item[w] ELSE Nil]
PoolReturned == MainIsAt({"shutdown", "notify all", "join", "exited"})

LEMMA PoolInit == Init => Pool!Init
<1> SUFFICES ASSUME Init PROVE Pool!Init
  OBVIOUS
<1>1. PoolWaiting \in SUBSET (1 .. MaxTasks)
  BY ExecutorAssumption DEF PoolWaiting, Tasks, Init
<1>2. \A w \in Workers : ~InHand(w)
  BY ExecutorAssumption DEF Init, InHand
<1>3. PoolRunning = [w \in Workers |-> Nil]
  BY <1>2 DEF PoolRunning
<1>4. PoolReturned = FALSE
  BY ExecutorAssumption DEF Init, PoolReturned, MainIsAt
<1> QED
  BY <1>1, <1>3, <1>4 DEF Pool!Init, PoolWaiting, PoolRunning, PoolReturned

(* A worker's task is not Nil. *)
LEMMA TaskIsOne ==
  ASSUME IInv, NEW w \in Workers, InHand(w)
  PROVE  item[w] # Nil
<1>1. item[w] \in 1 .. top
  BY DEF IInv, HandInv
<1>2. item[w] \in 1 .. MaxTasks
  BY <1>1, ExecutorAssumption DEF IInv, QueueInv, Shape
<1> QED
  BY <1>2, ExecutorAssumption

LEMMA PoolWaitingIs == IInv => PoolWaiting = top + 1 .. numTasks
BY WaitingIs DEF IInv, PoolWaiting

LEMMA PoolWorker ==
  ASSUME IInv, IInv', NEW w \in Workers, WorkerKinds(w)
  PROVE  [Pool!Next]_(Pool!vars)
<1> USE DEF Step, IsAt, Goto, topology, queueVars
<1>0. w \in Threads /\ Workers \subseteq Threads /\ Main \in Threads \ {w}
  BY ExecutorAssumption
<1>t. top \in Nat /\ numTasks \in Nat /\ bottom \in Nat /\ top <= bottom
      /\ bottom <= numTasks
  BY ExecutorAssumption DEF IInv, Shape, QueueInv
<1>1. PICK p : pc' = [pc EXCEPT ![w] = p]
  BY DEF WorkerKinds, Aside, Explore, Steal, Won, Hurry, Invoke,
         TearDownInvoke, SetPromise, TearDownTopology
<1>2. pc'[Main] = pc[Main] /\ \A v \in Workers \ {w} : pc'[v] = pc[v]
  BY <1>0, <1>1, PcOf DEF IInv
<1>3. \A v \in Workers \ {w} : item'[v] = item[v]
  BY DEF IInv, Shape, WorkerKinds, Aside, Explore, ReadTop, Steal, ReadItem,
         Won, Hurry, Invoke, TearDownInvoke, SetPromise, TearDownTopology
<1>4. numTasks' = numTasks
  BY DEF WorkerKinds, Aside, Explore, Steal, Won, Hurry, Invoke,
         TearDownInvoke, SetPromise, TearDownTopology
<1>5. PoolReturned' = PoolReturned
  BY <1>2 DEF PoolReturned, MainIsAt
<1>6. PoolWaiting = top + 1 .. numTasks /\ PoolWaiting' = top' + 1 .. numTasks
  <2>1. PoolWaiting = top + 1 .. numTasks
    BY WaitingIs DEF IInv, PoolWaiting
  <2>2. (PoolWaiting = top + 1 .. numTasks)'
    BY PoolWaitingIs, PTL
  <2> QED
    BY <1>4, <2>1, <2>2
<1>7. \A v \in Workers \ {w} : PoolRunning'[v] = PoolRunning[v]
  BY <1>2, <1>3 DEF PoolRunning, InHand
<1>8. CASE Won(w)
  <2>1. ~InHand(w) /\ InHand(w)' /\ item'[w] = top + 1 /\ top' = top + 1
    BY <1>8, HandStep DEF IInv, Won, TearDownInvoke
  <2>2. top < bottom
    BY <1>8 DEF Won, IInv, QueueInv
  <2>3. top + 1 \in PoolWaiting /\ PoolWaiting' = PoolWaiting \ {top + 1}
    BY <1>t, <1>6, <2>1, <2>2
  <2>4. PoolRunning[w] = Nil /\ PoolRunning'[w] = top + 1
    BY <2>1 DEF PoolRunning
  <2>5. PoolRunning' = [PoolRunning EXCEPT ![w] = top + 1]
    BY <1>7, <2>4 DEF PoolRunning
  <2>6. Pool!Begin(w)
    BY <1>5, <2>3, <2>4, <2>5
    DEF Pool!Begin, PoolWaiting, PoolRunning, PoolReturned
  <2> QED
    BY <2>6 DEF Pool!Next
<1>9. CASE TearDownInvoke(w)
  <2>1. InHand(w) /\ ~InHand(w)' /\ top' = top
    BY <1>9, HandStep DEF IInv, Won, TearDownInvoke
  <2>2. PoolWaiting' = PoolWaiting
    BY <1>6, <2>1
  <2>3. PoolRunning[w] # Nil /\ PoolRunning'[w] = Nil
    BY <2>1, TaskIsOne DEF PoolRunning
  <2>4. PoolRunning' = [PoolRunning EXCEPT ![w] = Nil]
    BY <1>7, <2>3 DEF PoolRunning
  <2>5. Pool!End(w)
    BY <1>5, <2>2, <2>3, <2>4
    DEF Pool!End, PoolWaiting, PoolRunning, PoolReturned
  <2> QED
    BY <2>5 DEF Pool!Next
<1>10. CASE ~Won(w) /\ ~TearDownInvoke(w)
  <2>1. (InHand(w)' <=> InHand(w)) /\ (InHand(w) => item'[w] = item[w])
        /\ top' = top
    BY <1>10, HandStep DEF IInv
  <2>2. PoolWaiting' = PoolWaiting
    BY <1>6, <2>1
  <2>3. PoolRunning'[w] = PoolRunning[w]
    BY <2>1 DEF PoolRunning
  <2>4. PoolRunning' = PoolRunning
    BY <1>7, <2>3 DEF PoolRunning
  <2> QED
    BY <1>5, <2>2, <2>4
    DEF Pool!vars, PoolWaiting, PoolRunning, PoolReturned
<1> QED
  BY <1>8, <1>9, <1>10

LEMMA PoolMain ==
  ASSUME IInv, MainKinds
  PROVE  [Pool!Next]_(Pool!vars)
<1> USE DEF Step, IsAt, Goto, topology, queueVars
<1>0. Main \in Threads
  BY ExecutorAssumption
<1>1. \A w \in Workers : (InHand(w)' <=> InHand(w)) /\ item'[w] = item[w]
  BY MainStep DEF IInv, InHand
<1>2. Tasks' = Tasks /\ runs' = runs
  BY MainStep DEF IInv, Tasks
<1>3. TasksInHand' = TasksInHand
  <2>1. \A k : k \in TasksInHand' <=>
          \E w \in Workers : InHand(w)' /\ item'[w] = k
    BY DEF TasksInHand
  <2> QED
    BY <1>1, <2>1, InHandIs
<1>4. PoolWaiting' = PoolWaiting
  BY <1>2, <1>3 DEF PoolWaiting
<1>5. PoolRunning' = PoolRunning
  BY <1>1 DEF PoolRunning
<1>6. CASE Wait
  <2>1. pc[Main] = "wait" /\ promise /\ pc' = [pc EXCEPT ![Main] = "shutdown"]
    BY <1>6 DEF Wait
  <2>2. PoolReturned' = TRUE
    <3>1. pc'[Main] = "shutdown"
      BY <1>0, <2>1, PcOf DEF IInv
    <3> QED
      BY <3>1 DEF PoolReturned, MainIsAt
  <2>3. joinCounter = 0 /\ joinCounter = Cardinality(Open)
    BY <2>1 DEF IInv, JoinInv
  <2>4. Open = {}
    BY <2>3, OpenFinite, FS_EmptySet DEF IInv
  <2>5. PoolWaiting = {} /\ \A w \in Workers : ~InHand(w)
    BY <2>4, WaitingIs, InHandIs DEF Open, PoolWaiting, IInv
  <2>6. \A w \in Workers : PoolRunning[w] = Nil
    BY <2>5 DEF PoolRunning
  <2>7. Pool!Return
    BY <1>4, <1>5, <2>2, <2>5, <2>6
    DEF Pool!Return, PoolWaiting, PoolRunning, PoolReturned
  <2> QED
    BY <2>7 DEF Pool!Next
<1>7. CASE MainAside \/ Run \/ RunNothing \/ Push \/ Pushed
  <2>1. \E p : /\ pc' = [pc EXCEPT ![Main] = p]
               /\ p \in {"shutdown", "notify all", "join", "exited"} <=>
                    pc[Main] \in {"shutdown", "notify all", "join", "exited"}
    BY <1>7 DEF MainAside, Run, RunNothing, Push, Pushed
  <2>2. PoolReturned' = PoolReturned
    <3>1. pc'[Main] \in {"shutdown", "notify all", "join", "exited"} <=>
            pc[Main] \in {"shutdown", "notify all", "join", "exited"}
      BY <1>0, <2>1, PcOf DEF IInv
    <3>2. PoolReturned' <=> PoolReturned
      BY <3>1 DEF PoolReturned, MainIsAt
    <3>3. PoolReturned \in BOOLEAN /\ PoolReturned' \in BOOLEAN
      BY DEF PoolReturned, MainIsAt
    <3> QED
      BY <3>2, <3>3, Zenon
  <2> QED
    BY <1>4, <1>5, <2>2
    DEF Pool!vars, PoolWaiting, PoolRunning, PoolReturned
<1> QED
  BY <1>6, <1>7 DEF MainKinds

LEMMA PoolStill ==
  ASSUME Still
  PROVE  UNCHANGED Pool!vars
BY DEF Still, Pool!vars, Tasks, TasksInHand, InHand, MainIsAt, queueVars

(* The executor implements the pool of tasks that ParallelEncode is built  *)
(* on, for every number of workers, every graph and every capacity of the  *)
(* queue: no task is lost or run twice, and wait() returns after the last. *)
THEOREM ExecutorIsPool == Spec => ImplementsPool
<1>1. ASSUME IInv, IInv', [Next]_vars
      PROVE  [Pool!Next]_(Pool!vars)
  BY <1>1, StepKinds, PoolStill, PoolMain, PoolWorker DEF IInv
<1> QED
  BY <1>1, PoolInit, IInvAlways, PTL DEF Spec, ImplementsPool, Pool!Spec

-----------------------------------------------------------------------------
(* Runs *)

(* A run is counted from its submission until the worker of its last task, *)
(* which alone is at that place, has gone on.                              *)
RunInv ==
  /\ numTopologies \in {0, 1}
  /\ pc[Main] \in {"spawn", "run"} => numTopologies = 0
  /\ pc[Main] \notin {"spawn", "run"} /\ ~promise => numTopologies = 1
  /\ pc[Main] = "nothing" => ~promise
  /\ \A w \in Workers : pc[w] = "topology" => promise /\ numTopologies = 1
  /\ \A v, w \in Workers : pc[v] = "topology" /\ pc[w] = "topology" => v = w

LEMMA RunInvInit == Init => RunInv
<1> SUFFICES ASSUME Init PROVE RunInv
  OBVIOUS
<1>1. promise = FALSE /\ numTopologies = 0 /\ pc[Main] = "spawn"
      /\ \A w \in Workers : pc[w] = "start"
  BY ExecutorAssumption DEF Init
<1> QED
  BY <1>1 DEF RunInv

LEMMA RunInvWorker ==
  ASSUME IInv, RunInv, NEW w \in Workers, WorkerKinds(w)
  PROVE  RunInv'
<1> USE DEF Step, IsAt, Goto, topology, queueVars
<1>0. w \in Threads /\ Workers \subseteq Threads /\ Main \in Threads \ {w}
  BY ExecutorAssumption
<1>1. PICK p : pc' = [pc EXCEPT ![w] = p]
  BY DEF WorkerKinds, Aside, Explore, Steal, Won, Hurry, Invoke,
         TearDownInvoke, SetPromise, TearDownTopology
<1>2. /\ pc'[w] = p /\ pc'[Main] = pc[Main]
      /\ \A v \in Workers \ {w} : pc'[v] = pc[v]
  BY <1>0, <1>1, PcOf DEF IInv
<1>3. CASE SetPromise(w)
  <2>1. pc[w] = "promise" /\ promise' = TRUE /\ numTopologies' = numTopologies
        /\ pc' = [pc EXCEPT ![w] = "topology"]
    BY <1>3 DEF SetPromise
  <2>2. pc'[w] = "topology"
    BY <1>0, <2>1, PcOf DEF IInv
  <2>3. ~promise /\ pc[Main] \notin {"spawn", "run"} /\ numTasks > 0
    BY <2>1 DEF IInv, JoinInv
  <2>4. pc[Main] # "nothing"
    BY <2>3 DEF IInv, QueueInv
  <2>5. numTopologies = 1 /\ \A v \in Workers : pc[v] # "topology"
    BY <2>3 DEF RunInv
  <2> QED
    BY <1>2, <2>1, <2>3, <2>4, <2>5 DEF RunInv
<1>4. CASE TearDownTopology(w)
  <2>1. pc[w] = "topology" /\ promise' = promise
        /\ numTopologies' = numTopologies - 1
        /\ pc' = [pc EXCEPT ![w] = "inactive"]
    BY <1>4 DEF TearDownTopology
  <2>2. pc'[w] = "inactive"
    BY <1>0, <2>1, PcOf DEF IInv
  <2>3. numTopologies = 1 /\ promise
        /\ \A v \in Workers : pc[v] = "topology" => v = w
    BY <2>1 DEF RunInv
  <2>4. numTopologies' = 0
    BY <2>1, <2>3
  <2>5. pc[Main] # "nothing"
    BY <2>3 DEF RunInv
  <2> QED
    BY <1>2, <2>1, <2>2, <2>3, <2>4, <2>5 DEF RunInv
<1>5. CASE ~SetPromise(w) /\ ~TearDownTopology(w)
  <2>1. UNCHANGED <<promise, numTopologies>>
    BY <1>5 DEF WorkerKinds, Aside, Explore, Steal, Won, Hurry, Invoke,
                TearDownInvoke
  <2>2. \E q : pc' = [pc EXCEPT ![w] = q] /\ q # "topology"
    BY <1>5 DEF WorkerKinds, Aside, AsidePlaces, Explore, Steal, Won, Hurry,
                Invoke, TearDownInvoke
  <2>3. pc'[w] # "topology"
    BY <1>0, <2>2, PcOf DEF IInv
  <2> QED
    BY <1>2, <2>1, <2>3 DEF RunInv
<1> QED
  BY <1>3, <1>4, <1>5

LEMMA RunInvMain ==
  ASSUME IInv, RunInv, MainKinds
  PROVE  RunInv'
<1> USE DEF Step, IsAt, Goto, topology, queueVars
<1>0. Main \in Threads
  BY ExecutorAssumption
<1>1. \A w \in Workers : pc'[w] = pc[w]
  BY MainStep DEF IInv
<1>2. CASE Run
  <2>1. /\ pc[Main] = "run" /\ promise' = promise
        /\ numTopologies' = numTopologies + 1
        /\ \E p \in {"nothing", "push"} : pc' = [pc EXCEPT ![Main] = p]
    BY <1>2 DEF Run
  <2>2. pc'[Main] \in {"nothing", "push"}
    BY <1>0, <2>1, PcOf DEF IInv
  <2>3. numTopologies' = 1 /\ ~promise
    BY <2>1 DEF RunInv, IInv, JoinInv
  <2> QED
    BY <1>1, <2>1, <2>2, <2>3 DEF RunInv
<1>3. CASE RunNothing
  <2>1. /\ pc[Main] = "nothing" /\ promise' = TRUE
        /\ numTopologies' = numTopologies - 1
        /\ pc' = [pc EXCEPT ![Main] = "wait"]
    BY <1>3 DEF RunNothing
  <2>2. pc'[Main] = "wait"
    BY <1>0, <2>1, PcOf DEF IInv
  <2>3. numTopologies' = 0 /\ \A w \in Workers : pc[w] # "topology"
    BY <2>1 DEF RunInv
  <2> QED
    BY <1>1, <2>1, <2>2, <2>3 DEF RunInv
<1>4. CASE MainAside \/ Push \/ Pushed \/ Wait
  <2>1. /\ UNCHANGED <<promise, numTopologies>>
        /\ \E p : /\ pc' = [pc EXCEPT ![Main] = p] /\ p # "nothing"
                  /\ p \in {"spawn", "run"} <=> pc[Main] \in {"spawn", "run"}
    BY <1>4 DEF MainAside, Push, Pushed, Wait
  <2>2. /\ pc'[Main] \in {"spawn", "run"} <=> pc[Main] \in {"spawn", "run"}
        /\ pc'[Main] # "nothing"
    BY <1>0, <2>1, PcOf DEF IInv
  <2> QED
    BY <1>1, <2>1, <2>2 DEF RunInv
<1> QED
  BY <1>2, <1>3, <1>4 DEF MainKinds

LEMMA RunInvStep == IInv /\ RunInv /\ [Next]_vars => RunInv'
<1> SUFFICES ASSUME IInv, RunInv, [Next]_vars PROVE RunInv'
  OBVIOUS
<1>1. CASE Still
  BY <1>1, Zenon DEF Still, RunInv, topology
<1> QED
  BY <1>1, RunInvMain, RunInvWorker, StepKinds DEF IInv

-----------------------------------------------------------------------------
(* Thieves and active workers *)

ThiefPlaces ==
  {"explore", "steal", "take", "explored", "found", "empty", "check",
   "nonempty", "steal again", "done", "leave", "pass on", "exit", "last"}

ActivePlaces ==
  {"thieves", "invoke", "tear down", "promise", "topology", "inactive"}

AtPlaces(S) == { w \in Workers : pc[w] \in S }

CountInv ==
  /\ numThieves = Cardinality(AtPlaces(ThiefPlaces))
  /\ numActives = Cardinality(AtPlaces(ActivePlaces))

LEMMA AtFinite ==
  ASSUME NEW S
  PROVE  /\ IsFiniteSet(AtPlaces(S))
         /\ Cardinality(AtPlaces(S)) \in 0 .. Cardinality(Workers)
<1>1. AtPlaces(S) \subseteq Workers /\ IsFiniteSet(Workers)
  BY ExecutorAssumption DEF AtPlaces
<1>2. /\ IsFiniteSet(AtPlaces(S))
      /\ Cardinality(AtPlaces(S)) <= Cardinality(Workers)
  BY <1>1, FS_Subset
<1>3. Cardinality(AtPlaces(S)) \in Nat /\ Cardinality(Workers) \in Nat
  BY <1>1, <1>2, FS_CardinalityType
<1> QED
  BY <1>2, <1>3

(* What a step of one worker does to the number at some places. *)
LEMMA AtPlacesNext ==
  ASSUME Shape, NEW w \in Workers, NEW p, pc' = [pc EXCEPT ![w] = p], NEW S
  PROVE  /\ \A v : v \in AtPlaces(S)' <=>
              v \in Workers /\ IF v = w THEN p \in S ELSE pc[v] \in S
         /\ \A v : v \in AtPlaces(S) <=> v \in Workers /\ pc[v] \in S
<1>1. pc'[w] = p /\ \A v \in Workers \ {w} : pc'[v] = pc[v]
  BY PcOf, ExecutorAssumption
<1> QED
  BY <1>1 DEF AtPlaces

LEMMA CountSame ==
  ASSUME Shape, NEW w \in Workers, NEW p, pc' = [pc EXCEPT ![w] = p], NEW S,
         pc[w] \in S <=> p \in S
  PROVE  Cardinality(AtPlaces(S)') = Cardinality(AtPlaces(S))
<1>1. \A v : v \in AtPlaces(S)' <=>
              v \in Workers /\ IF v = w THEN p \in S ELSE pc[v] \in S
  BY AtPlacesNext
<1>2. \A v : v \in AtPlaces(S) <=> v \in Workers /\ pc[v] \in S
  BY AtPlacesNext
<1>3. ASSUME NEW v
      PROVE  v \in AtPlaces(S)' <=> v \in AtPlaces(S)
  <2>1. CASE v = w
    BY <1>1, <1>2, <2>1
  <2>2. CASE v # w
    BY <1>1, <1>2, <2>2
  <2> QED
    BY <2>1, <2>2
<1>4. AtPlaces(S)' = AtPlaces(S)
  BY <1>3 DEF AtPlaces
<1> QED
  BY <1>4

LEMMA CountIn ==
  ASSUME Shape, NEW w \in Workers, NEW p, pc' = [pc EXCEPT ![w] = p], NEW S,
         pc[w] \notin S, p \in S
  PROVE  Cardinality(AtPlaces(S)') = Cardinality(AtPlaces(S)) + 1
<1>1. w \notin AtPlaces(S) /\ AtPlaces(S)' = AtPlaces(S) \cup {w}
  BY AtPlacesNext
<1> QED
  BY <1>1, AtFinite, FS_AddElement

LEMMA CountOut ==
  ASSUME Shape, NEW w \in Workers, NEW p, pc' = [pc EXCEPT ![w] = p], NEW S,
         pc[w] \in S, p \notin S
  PROVE  Cardinality(AtPlaces(S)') = Cardinality(AtPlaces(S)) - 1
<1>1. w \in AtPlaces(S) /\ AtPlaces(S)' = AtPlaces(S) \ {w}
  BY AtPlacesNext
<1> QED
  BY <1>1, AtFinite, FS_RemoveElement

LEMMA CountWorker ==
  ASSUME Shape, CountInv, NEW w \in Workers, Worker(w)
  PROVE  CountInv'
<1> USE DEF Step, IsAt, Goto, counters
<1>n. /\ numThieves = Cardinality(AtPlaces(ThiefPlaces))
      /\ numActives = Cardinality(AtPlaces(ActivePlaces))
      /\ numThieves \in Int /\ numActives \in Int
  BY AtFinite DEF CountInv
<1> DEFINE
      In(S, p) == pc[w] \notin S /\ p \in S
      Out(S, p) == pc[w] \in S /\ p \notin S
      Same(S, p) == pc[w] \in S <=> p \in S
<1>1. CASE Wake(w)
  BY <1>1 DEF Wake, CountInv, AtPlaces
<1>2. CASE BecomeThief(w)
  <2>1. /\ pc[w] = "idle" /\ pc' = [pc EXCEPT ![w] = "explore"]
        /\ numThieves' = numThieves + 1 /\ numActives' = numActives
    BY <1>2 DEF BecomeThief
  <2>2. In(ThiefPlaces, "explore") /\ Same(ActivePlaces, "explore")
    BY <2>1 DEF ThiefPlaces, ActivePlaces
  <2>4. Cardinality(AtPlaces(ThiefPlaces)') = numThieves + 1
    BY <1>n, <2>1, <2>2, CountIn
  <2>5. Cardinality(AtPlaces(ActivePlaces)') = numActives
    BY <1>n, <2>1, <2>2, CountSame
  <2> QED
    BY <2>1, <2>4, <2>5 DEF CountInv
<1>3. CASE Found(w) \/ Exit(w) \/ LeaveThieves(w)
  <2>1. \E p : /\ pc' = [pc EXCEPT ![w] = p]
               /\ Out(ThiefPlaces, p) /\ Same(ActivePlaces, p)
    <3>1. CASE Found(w) \/ Exit(w)
      <4>1. \/ pc[w] = "found" /\ pc' = [pc EXCEPT ![w] = "exploit"]
            \/ pc[w] = "exit" /\ pc' = [pc EXCEPT ![w] = "exited"]
        BY <3>1 DEF Found, Exit
      <4>2. /\ {"found", "exit"} \subseteq ThiefPlaces \ ActivePlaces
            /\ {"exploit", "exited"} \cap (ThiefPlaces \cup ActivePlaces) = {}
        BY DEF ThiefPlaces, ActivePlaces
      <4> QED
        BY <4>1, <4>2
    <3>2. CASE LeaveThieves(w)
      <4>1. PICK p \in {"actives", "commit"} : pc' = [pc EXCEPT ![w] = p]
        BY <3>2 DEF LeaveThieves
      <4>2. pc[w] = "last"
        BY <3>2 DEF LeaveThieves
      <4>3. Out(ThiefPlaces, p) /\ Same(ActivePlaces, p)
        BY <4>2 DEF ThiefPlaces, ActivePlaces
      <4> QED
        BY <4>1, <4>3
    <3> QED
      BY <1>3, <3>1, <3>2
  <2>2. numThieves' = numThieves - 1 /\ numActives' = numActives
    BY <1>3 DEF Found, Exit, LeaveThieves
  <2>3. PICK p : /\ pc' = [pc EXCEPT ![w] = p]
                 /\ Out(ThiefPlaces, p) /\ Same(ActivePlaces, p)
    BY <2>1
  <2>4. Cardinality(AtPlaces(ThiefPlaces)') = numThieves - 1
    BY <1>n, <2>3, CountOut
  <2>5. Cardinality(AtPlaces(ActivePlaces)') = numActives
    BY <1>n, <2>3, CountSame
  <2> QED
    BY <2>2, <2>4, <2>5 DEF CountInv
<1>4. CASE Exploit(w)
  <2>1. \E p : /\ pc' = [pc EXCEPT ![w] = p]
               /\ Same(ThiefPlaces, p) /\ In(ActivePlaces, p)
    BY <1>4 DEF Exploit, ThiefPlaces, ActivePlaces
  <2>2. numThieves' = numThieves /\ numActives' = numActives + 1
    BY <1>4 DEF Exploit
  <2>3. PICK p : /\ pc' = [pc EXCEPT ![w] = p]
                 /\ Same(ThiefPlaces, p) /\ In(ActivePlaces, p)
    BY <2>1
  <2>4. Cardinality(AtPlaces(ThiefPlaces)') = numThieves
    BY <1>n, <2>3, CountSame
  <2>5. Cardinality(AtPlaces(ActivePlaces)') = numActives + 1
    BY <1>n, <2>3, CountIn
  <2> QED
    BY <2>2, <2>4, <2>5 DEF CountInv
<1>5. CASE BecomeInactive(w)
  <2>1. /\ pc[w] = "inactive" /\ pc' = [pc EXCEPT ![w] = "idle"]
        /\ numThieves' = numThieves /\ numActives' = numActives - 1
    BY <1>5 DEF BecomeInactive
  <2>2. Same(ThiefPlaces, "idle") /\ Out(ActivePlaces, "idle")
    BY <2>1 DEF ThiefPlaces, ActivePlaces
  <2>4. Cardinality(AtPlaces(ThiefPlaces)') = numThieves
    BY <1>n, <2>1, <2>2, CountSame
  <2>5. Cardinality(AtPlaces(ActivePlaces)') = numActives - 1
    BY <1>n, <2>1, <2>2, CountOut
  <2> QED
    BY <2>1, <2>4, <2>5 DEF CountInv
<1>6. CASE \/ Start(w) \/ Explore(w) \/ Steal(w) \/ TakeTask(w)
           \/ NothingToTake(w) \/ GiveUp(w) \/ Prepare(w) \/ LookAtQueue(w)
           \/ Check(w) \/ StealAgain(w) \/ CheckDone(w) \/ Leave(w)
           \/ PassOn(w)
  <2>1. \E p : /\ pc' = [pc EXCEPT ![w] = p]
               /\ Same(ThiefPlaces, p) /\ Same(ActivePlaces, p)
    BY <1>6 DEF Start, Explore, Steal, TakeTask, NothingToTake, GiveUp,
                Prepare, LookAtQueue, Check, StealAgain, CheckDone, Leave,
                PassOn, ThiefPlaces, ActivePlaces
  <2>2. numThieves' = numThieves /\ numActives' = numActives
    BY <1>6 DEF Start, Explore, Steal, TakeTask, NothingToTake, GiveUp,
                Prepare, LookAtQueue, Check, StealAgain, CheckDone, Leave,
                PassOn
  <2>3. PICK p : /\ pc' = [pc EXCEPT ![w] = p]
                 /\ Same(ThiefPlaces, p) /\ Same(ActivePlaces, p)
    BY <2>1
  <2>4. Cardinality(AtPlaces(ThiefPlaces)') = numThieves
    BY <1>n, <2>3, CountSame
  <2>5. Cardinality(AtPlaces(ActivePlaces)') = numActives
    BY <1>n, <2>3, CountSame
  <2> QED
    BY <2>2, <2>4, <2>5 DEF CountInv
<1>7. CASE \/ CheckActives(w) \/ StayAwake(w) \/ Commit(w) \/ WakeUp(w)
           \/ CheckThieves(w) \/ Invoke(w) \/ TearDownInvoke(w)
           \/ SetPromise(w) \/ TearDownTopology(w)
  <2>1. \E p : /\ pc' = [pc EXCEPT ![w] = p]
               /\ Same(ThiefPlaces, p) /\ Same(ActivePlaces, p)
    BY <1>7 DEF CheckActives, StayAwake, Commit, WakeUp, CheckThieves, Invoke,
                TearDownInvoke, SetPromise, TearDownTopology, ThiefPlaces,
                ActivePlaces
  <2>2. numThieves' = numThieves /\ numActives' = numActives
    BY <1>7 DEF CheckActives, StayAwake, Commit, WakeUp, CheckThieves, Invoke,
                TearDownInvoke, SetPromise, TearDownTopology
  <2>3. PICK p : /\ pc' = [pc EXCEPT ![w] = p]
                 /\ Same(ThiefPlaces, p) /\ Same(ActivePlaces, p)
    BY <2>1
  <2>4. Cardinality(AtPlaces(ThiefPlaces)') = numThieves
    BY <1>n, <2>3, CountSame
  <2>5. Cardinality(AtPlaces(ActivePlaces)') = numActives
    BY <1>n, <2>3, CountSame
  <2> QED
    BY <2>2, <2>4, <2>5 DEF CountInv
<1> QED
  BY <1>1, <1>2, <1>3, <1>4, <1>5, <1>6, <1>7 DEF Worker

LEMMA CountMain ==
  ASSUME Shape, CountInv, MainThread
  PROVE  CountInv'
<1>1. numThieves' = numThieves /\ numActives' = numActives
  BY DEF MainThread, Spawned, Run, RunNothing, Push, Pushed, Notify, Wait,
         Shutdown, NotifyDone, Join, Wake, counters
<1>2. \A w \in Workers : pc'[w] = pc[w]
  <2>1. CASE Wake(Main)
    BY <2>1 DEF Wake
  <2>2. CASE ~Wake(Main)
    BY <2>2, MainStep, MainAsideStep DEF MainThread, MainKinds
  <2> QED
    BY <2>1, <2>2
<1>3. \A S : AtPlaces(S)' = AtPlaces(S)
  BY <1>2 DEF AtPlaces
<1> QED
  BY <1>1, <1>3 DEF CountInv

LEMMA CountInvStep == Shape /\ CountInv /\ [Next]_vars => CountInv'
<1> SUFFICES ASSUME Shape, CountInv, [Next]_vars PROVE CountInv'
  OBVIOUS
<1>1. CASE UNCHANGED vars
  BY <1>1 DEF vars, counters, CountInv, AtPlaces
<1> QED
  BY <1>1, CountWorker, CountMain DEF Next, Ended

LEMMA CountInvInit == Init => CountInv
<1> SUFFICES ASSUME Init PROVE CountInv
  OBVIOUS
<1>1. numThieves = 0 /\ numActives = 0 /\ \A w \in Workers : pc[w] = "start"
  BY ExecutorAssumption DEF Init
<1>2. AtPlaces(ThiefPlaces) = {} /\ AtPlaces(ActivePlaces) = {}
  BY <1>1 DEF AtPlaces, ThiefPlaces, ActivePlaces
<1> QED
  BY <1>1, <1>2, FS_EmptySet DEF CountInv

-----------------------------------------------------------------------------
(* The rest of the types *)

RestInv ==
  registered \subseteq Workers /\ done \in BOOLEAN /\ notified \in 0 .. MaxTasks

LEMMA RestWorker ==
  ASSUME NEW w \in Workers, Worker(w)
  PROVE  /\ UNCHANGED <<done, notified>>
         /\ registered' \subseteq registered \cup {w}
<1>1. CASE \/ Start(w) \/ BecomeThief(w)
           \/ Explore(w) \/ Steal(w) \/ TakeTask(w) \/ NothingToTake(w)
           \/ GiveUp(w) \/ Found(w) \/ Prepare(w) \/ LookAtQueue(w)
           \/ Check(w) \/ StealAgain(w) \/ CheckDone(w) \/ Leave(w)
           \/ PassOn(w) \/ Exit(w)
  BY <1>1 DEF Start, BecomeThief, Explore, Steal, TakeTask, NothingToTake,
              GiveUp, Found, Prepare, LookAtQueue, Check, StealAgain,
              CheckDone, Leave, PassOn, Exit
<1>2. CASE \/ LeaveThieves(w) \/ CheckActives(w) \/ StayAwake(w)
           \/ Commit(w) \/ WakeUp(w)
           \/ Exploit(w) \/ CheckThieves(w) \/ Invoke(w)
           \/ TearDownInvoke(w) \/ SetPromise(w) \/ TearDownTopology(w)
           \/ BecomeInactive(w) \/ Wake(w)
  BY <1>2 DEF LeaveThieves, CheckActives, StayAwake, Commit, WakeUp, Exploit,
              CheckThieves, Invoke, TearDownInvoke, SetPromise,
              TearDownTopology, BecomeInactive, Wake
<1> QED
  BY <1>1, <1>2 DEF Worker

LEMMA RestInvStep == Shape /\ RestInv /\ [Next]_vars => RestInv'
<1> SUFFICES ASSUME Shape, RestInv, [Next]_vars PROVE RestInv'
  OBVIOUS
<1>1. ASSUME NEW w \in Workers, Worker(w)
      PROVE  RestInv'
  BY <1>1, RestWorker DEF RestInv
<1>2. CASE Notify
  <2>1. registered' = registered /\ done' = done
        /\ \/ notified' = notified
           \/ notified < numTasks /\ notified' = notified + 1
    BY <1>2 DEF Notify
  <2> QED
    BY <2>1, ExecutorAssumption DEF RestInv, Shape
<1>3. CASE Shutdown
  BY <1>3 DEF Shutdown, RestInv
<1>4. CASE \/ Spawned \/ Run \/ RunNothing \/ Push \/ Pushed
           \/ Wait \/ NotifyDone \/ Join \/ Wake(Main)
  BY <1>4 DEF RestInv, Spawned, Run, RunNothing, Push, Pushed, Wait,
              NotifyDone, Join, Wake
<1>5. CASE UNCHANGED vars
  BY <1>5 DEF vars, RestInv
<1> QED
  BY <1>1, <1>2, <1>3, <1>4, <1>5 DEF Next, MainThread, Ended

LEMMA RestInvInit == Init => RestInv
<1> SUFFICES ASSUME Init PROVE RestInv
  OBVIOUS
<1>1. registered = {} /\ done = FALSE /\ notified = 0
  BY DEF Init
<1>2. done \in BOOLEAN
  BY <1>1
<1> QED
  BY <1>1, <1>2, ExecutorAssumption DEF RestInv

-----------------------------------------------------------------------------
(* The executor's variables have their types; no counter is ever negative, *)
(* nor are more workers counted than there are, or more than one run.      *)
THEOREM ExecutorTypeCorrect == Spec => []ExecutorTypeOK
<1>1. Init => RunInv /\ CountInv /\ RestInv
  BY RunInvInit, CountInvInit, RestInvInit
<1>2. IInv /\ (RunInv /\ CountInv /\ RestInv) /\ [Next]_vars
        => (RunInv /\ CountInv /\ RestInv)'
  BY RunInvStep, CountInvStep, RestInvStep DEF IInv
<1>3. ASSUME IInv, RunInv /\ CountInv /\ RestInv
      PROVE  ExecutorTypeOK
  <2>1. /\ numThieves \in 0 .. Cardinality(Workers)
        /\ numActives \in 0 .. Cardinality(Workers)
    BY <1>3, AtFinite DEF CountInv
  <2>2. joinCounter \in Nat
    <3>1. joinCounter = 0 \/ joinCounter = Cardinality(Open)
      BY <1>3 DEF IInv, JoinInv
    <3> QED
      BY <1>3, <3>1, OpenFinite DEF IInv
  <2> QED
    BY <1>3, <2>1, <2>2, Zenon DEF ExecutorTypeOK, IInv, Shape, RunInv, RestInv
<1> QED
  BY <1>1, <1>2, <1>3, IInvAlways, PTL DEF Spec

-----------------------------------------------------------------------------
(* Lists of threads *)

NoneTwice(s) == \A i, j \in 1 .. Len(s) : s[i] = s[j] => i = j

ListOf(S, s) == s \in Seq(S) /\ NoneTwice(s)

LEMMA ListEmpty ==
  ASSUME NEW S
  PROVE  ListOf(S, <<>>) /\ \A x : ~Contains(<<>>, x)
BY DEF ListOf, NoneTwice, Contains

LEMMA ListMember ==
  ASSUME NEW S, NEW s, ListOf(S, s), s # <<>>
  PROVE  \E x \in S : Contains(s, x)
<1>1. Len(s) \in Nat /\ Len(s) > 0 /\ s[1] \in S
  BY DEF ListOf
<1> QED
  BY <1>1 DEF Contains

LEMMA ListAppend ==
  ASSUME NEW S, NEW s, ListOf(S, s), NEW x \in S, ~Contains(s, x)
  PROVE  /\ ListOf(S, Append(s, x))
         /\ \A y : Contains(Append(s, x), y) <=> y = x \/ Contains(s, y)
<1> DEFINE t == Append(s, x)
<1>1. /\ Len(s) \in Nat /\ t \in Seq(S) /\ Len(t) = Len(s) + 1
      /\ \A i \in 1 .. Len(s) : t[i] = s[i]
      /\ t[Len(s) + 1] = x
  BY DEF ListOf
<1>2. \A i \in 1 .. Len(s) : s[i] # x
  BY DEF Contains
<1> HIDE DEF t
<1>3. NoneTwice(t)
  BY <1>1, <1>2 DEF NoneTwice, ListOf
<1>4. ASSUME NEW y
      PROVE  Contains(t, y) <=> y = x \/ Contains(s, y)
  <2>1. Contains(t, y) => y = x \/ Contains(s, y)
    BY <1>1 DEF Contains
  <2>2. Contains(t, x)
    BY <1>1 DEF Contains
  <2>3. Contains(s, y) => Contains(t, y)
    BY <1>1 DEF Contains
  <2> QED
    BY <2>1, <2>2, <2>3
<1> QED
  BY <1>1, <1>3, <1>4 DEF t, ListOf

LEMMA ListTail ==
  ASSUME NEW S, NEW s, ListOf(S, s), s # <<>>
  PROVE  /\ Head(s) \in S /\ Contains(s, Head(s))
         /\ ListOf(S, Tail(s))
         /\ \A y : Contains(Tail(s), y) <=> y # Head(s) /\ Contains(s, y)
<1> DEFINE t == Tail(s)
           h == Head(s)
<1>1. /\ Len(s) \in Nat /\ Len(s) > 0 /\ t \in Seq(S) /\ Len(t) = Len(s) - 1
      /\ \A i \in 1 .. Len(s) - 1 : t[i] = s[i + 1]
      /\ h = s[1] /\ h \in S
  BY DEF ListOf
<1>2. \A i, j \in 1 .. Len(s) : s[i] = s[j] => i = j
  BY DEF ListOf, NoneTwice
<1> HIDE DEF t, h
<1>3. NoneTwice(t)
  BY <1>1, <1>2 DEF NoneTwice
<1>4. ASSUME NEW y
      PROVE  Contains(t, y) <=> y # h /\ Contains(s, y)
  <2>1. ASSUME Contains(t, y)
        PROVE  y # h /\ Contains(s, y)
    <3>1. PICK i \in 1 .. Len(t) : t[i] = y
      BY <2>1 DEF Contains
    <3>2. i + 1 \in 1 .. Len(s) /\ s[i + 1] = y /\ i + 1 # 1
      BY <1>1, <3>1
    <3>3. 1 \in 1 .. Len(s)
      BY <1>1
    <3> QED
      BY <1>1, <1>2, <3>2, <3>3 DEF Contains
  <2>2. ASSUME y # h, Contains(s, y)
        PROVE  Contains(t, y)
    <3>1. PICK i \in 1 .. Len(s) : s[i] = y
      BY <2>2 DEF Contains
    <3>2. i - 1 \in 1 .. Len(t) /\ t[i - 1] = y
      BY <1>1, <2>2, <3>1
    <3> QED
      BY <3>2 DEF Contains
  <2> QED
    BY <2>1, <2>2
<1>5. Contains(s, h)
  BY <1>1 DEF Contains
<1> QED
  BY <1>1, <1>3, <1>4, <1>5 DEF t, h, ListOf

LEMMA ListPush ==
  ASSUME NEW S, NEW s, ListOf(S, s), NEW x \in S, ~Contains(s, x)
  PROVE  /\ ListOf(S, <<x>> \o s)
         /\ \A y : Contains(<<x>> \o s, y) <=> y = x \/ Contains(s, y)
<1> DEFINE t == <<x>> \o s
<1>1. /\ Len(s) \in Nat /\ t \in Seq(S) /\ Len(t) = Len(s) + 1
      /\ \A i \in 1 .. Len(s) : t[i + 1] = s[i]
      /\ t[1] = x
  BY DEF ListOf
<1>2. \A i \in 1 .. Len(s) : s[i] # x
  BY DEF Contains
<1>0. \A i \in 1 .. Len(t) : i = 1 \/ (i - 1 \in 1 .. Len(s) /\ t[i] = s[i - 1])
  BY <1>1
<1> HIDE DEF t
<1>3. NoneTwice(t)
  <2> SUFFICES ASSUME NEW i \in 1 .. Len(t), NEW j \in 1 .. Len(t),
                      t[i] = t[j]
               PROVE  i = j
    BY DEF NoneTwice
  <2>1. CASE i = 1 \/ j = 1
    BY <1>0, <1>1, <1>2, <2>1
  <2>2. CASE i # 1 /\ j # 1
    <3>1. /\ i - 1 \in 1 .. Len(s) /\ t[i] = s[i - 1]
          /\ j - 1 \in 1 .. Len(s) /\ t[j] = s[j - 1]
      BY <1>0, <2>2
    <3>2. i - 1 = j - 1
      BY <3>1 DEF ListOf, NoneTwice
    <3> QED
      BY <3>2
  <2> QED
    BY <2>1, <2>2
<1>4. ASSUME NEW y
      PROVE  Contains(t, y) <=> y = x \/ Contains(s, y)
  <2>1. Contains(t, y) => y = x \/ Contains(s, y)
    BY <1>0, <1>1 DEF Contains
  <2>2. Contains(t, x)
    BY <1>1 DEF Contains
  <2>3. ASSUME Contains(s, y) PROVE Contains(t, y)
    <3>1. PICK i \in 1 .. Len(s) : s[i] = y
      BY <2>3 DEF Contains
    <3>2. i + 1 \in 1 .. Len(t) /\ t[i + 1] = y
      BY <1>1, <3>1
    <3> QED
      BY <3>2 DEF Contains
  <2> QED
    BY <2>1, <2>2, <2>3
<1> QED
  BY <1>1, <1>3, <1>4 DEF t, ListOf

LEMMA ListOne ==
  ASSUME NEW S, NEW x \in S
  PROVE  ListOf(S, <<x>>) /\ \A y : Contains(<<x>>, y) <=> y = x
BY DEF ListOf, NoneTwice, Contains

-----------------------------------------------------------------------------
(* Who sleeps, and who wakes them *)

(* Places of a worker between prepare_wait and its decision. *)
AnnouncedPlaces ==
  {"empty", "check", "nonempty", "done", "leave", "last", "actives", "stay",
   "commit"}

Asleep(w) == pc[w] = "park" /\ ~signaled[w]

(* A worker that sleeps is on the stack, or one thread is about to wake    *)
(* it; nobody else is in either place, or in one of them twice.            *)
SleepInv ==
  /\ ListOf(Workers, announced) /\ ListOf(Workers, sleepers)
  /\ waking \in [Threads -> Seq(Workers)]
  /\ \A t \in Threads : ListOf(Workers, waking[t])
  /\ signaled \in [Workers -> BOOLEAN]
  /\ \A w \in Workers : Contains(announced, w) => pc[w] \in AnnouncedPlaces
  /\ \A w \in Workers : Contains(sleepers, w) => Asleep(w)
  /\ \A t \in Threads, w \in Workers : Contains(waking[t], w) =>
       Asleep(w) /\ ~Contains(sleepers, w)
  /\ \A t, u \in Threads, w \in Workers :
       Contains(waking[t], w) /\ Contains(waking[u], w) => t = u
  /\ \A w \in Workers : Asleep(w) =>
       Contains(sleepers, w) \/ \E t \in Threads : Contains(waking[t], w)
  /\ \A w \in Workers : waking[w] # <<>> =>
       pc[w] \in {"exploit", "invoke", "exit"}

(* What moves of a thread leave to show, whatever it does to the notifier. *)
LEMMA AsleepMoves ==
  ASSUME Shape, NEW t \in Threads, NEW p, pc' = [pc EXCEPT ![t] = p]
  PROVE  \A w \in Workers \ {t} : pc'[w] = pc[w]
BY ExecutorAssumption, PcOf

(* A step that leaves the notifier alone. *)
LEMMA SleepQuiet ==
  ASSUME Shape, SleepInv, NEW t \in Threads, NEW p, pc' = [pc EXCEPT ![t] = p],
         waking[t] = <<>>, UNCHANGED notifierVars, p # "park",
         Contains(announced, t) => p \in AnnouncedPlaces, ~Asleep(t)
  PROVE  SleepInv'
<1>1. pc'[t] = p /\ \A w \in Workers \ {t} : pc'[w] = pc[w]
  BY AsleepMoves, PcOf
<1>2. UNCHANGED <<announced, sleepers, signaled, waking>>
  BY DEF notifierVars
<1>3. \A w \in Workers : Asleep(w)' <=> Asleep(w)
  BY <1>1, <1>2 DEF Asleep
<1>4. \A w \in Workers : Contains(announced, w) => pc'[w] \in AnnouncedPlaces
  BY <1>1 DEF SleepInv
<1>5. \A w \in Workers : waking[w] # <<>> =>
        pc'[w] \in {"exploit", "invoke", "exit"}
  BY <1>1 DEF SleepInv
<1> QED
  BY <1>2, <1>3, <1>4, <1>5 DEF SleepInv

(* prepare_wait *)
LEMMA SleepPrepare ==
  ASSUME Shape, SleepInv, NEW w \in Workers, waking[w] = <<>>,
         pc[w] = "explored", pc' = [pc EXCEPT ![w] = "empty"], PrepareWait(w)
  PROVE  SleepInv'
<1>0. w \in Threads
  BY ExecutorAssumption
<1>1. pc'[w] = "empty" /\ \A v \in Workers \ {w} : pc'[v] = pc[v]
  BY <1>0, AsleepMoves, PcOf
<1>2. announced' = Append(announced, w) /\ UNCHANGED <<sleepers, signaled, waking>>
  BY DEF PrepareWait
<1>3. \A v \in Workers : Asleep(v)' <=> Asleep(v)
  BY <1>1, <1>2 DEF Asleep
<1>4. ~Contains(announced, w)
  BY DEF SleepInv, AnnouncedPlaces
<1>5. /\ ListOf(Workers, announced')
      /\ \A v : Contains(announced', v) <=> v = w \/ Contains(announced, v)
  BY <1>2, <1>4, ListAppend DEF SleepInv
<1>6. \A v \in Workers : Contains(announced', v) => pc'[v] \in AnnouncedPlaces
  BY <1>1, <1>5 DEF SleepInv, AnnouncedPlaces
<1>7. \A v \in Workers : waking[v] # <<>> =>
        pc'[v] \in {"exploit", "invoke", "exit"}
  BY <1>1 DEF SleepInv
<1> QED
  BY <1>2, <1>3, <1>5, <1>6, <1>7 DEF SleepInv

(* cancel_wait *)
LEMMA SleepCancel ==
  ASSUME Shape, SleepInv, NEW w \in Workers, waking[w] = <<>>,
         pc[w] \in AnnouncedPlaces, NEW p, pc' = [pc EXCEPT ![w] = p],
         p # "park", CancelWait(w)
  PROVE  SleepInv'
<1>0. w \in Threads
  BY ExecutorAssumption
<1>1. pc'[w] = p /\ \A v \in Workers \ {w} : pc'[v] = pc[v]
  BY <1>0, AsleepMoves, PcOf
<1>2. UNCHANGED <<sleepers, signaled, waking>>
  BY DEF CancelWait
<1>3. \A v \in Workers : Asleep(v)' <=> Asleep(v)
  BY <1>1, <1>2 DEF Asleep, AnnouncedPlaces
<1>4. /\ ListOf(Workers, announced')
      /\ \A v : Contains(announced', v) <=> v # w /\ Contains(announced, v)
  <2>1. CASE announced # <<>> /\ Head(announced) = w /\ announced' = Tail(announced)
    BY <2>1, ListTail DEF SleepInv
  <2>2. CASE ~Contains(announced, w) /\ announced' = announced
    BY <2>2 DEF SleepInv
  <2> QED
    BY <2>1, <2>2 DEF CancelWait, IsTurn, Released
<1>6. \A v \in Workers : Contains(announced', v) => pc'[v] \in AnnouncedPlaces
  BY <1>1, <1>4 DEF SleepInv
<1>7. \A v \in Workers : waking[v] # <<>> =>
        pc'[v] \in {"exploit", "invoke", "exit"}
  BY <1>1 DEF SleepInv
<1> QED
  BY <1>2, <1>3, <1>4, <1>6, <1>7 DEF SleepInv

(* commit_wait of a thread whose turn it is *)
LEMMA SleepCommit ==
  ASSUME Shape, SleepInv, NEW w \in Workers, waking[w] = <<>>,
         pc[w] = "commit", pc' = [pc EXCEPT ![w] = "park"], CommitWait(w)
  PROVE  SleepInv'
<1>0. w \in Threads
  BY ExecutorAssumption
<1>1. pc'[w] = "park" /\ \A v \in Workers \ {w} : pc'[v] = pc[v]
  BY <1>0, AsleepMoves, PcOf
<1>2. /\ announced # <<>> /\ Head(announced) = w
      /\ announced' = Tail(announced) /\ sleepers' = <<w>> \o sleepers
      /\ signaled' = [signaled EXCEPT ![w] = FALSE] /\ waking' = waking
  BY DEF CommitWait, IsTurn
<1>3. /\ signaled' \in [Workers -> BOOLEAN] /\ ~signaled'[w]
      /\ \A v \in Workers \ {w} : signaled'[v] = signaled[v]
  BY <1>2 DEF SleepInv
<1>4. /\ Asleep(w)' /\ ~Asleep(w)
      /\ \A v \in Workers \ {w} : Asleep(v)' <=> Asleep(v)
  BY <1>1, <1>3 DEF Asleep
<1>5. /\ ~Contains(sleepers, w) /\ \A t \in Threads : ~Contains(waking[t], w)
  BY <1>4 DEF SleepInv
<1>6. /\ ListOf(Workers, announced')
      /\ \A v : Contains(announced', v) <=> v # w /\ Contains(announced, v)
  BY <1>2, ListTail DEF SleepInv
<1>7. /\ ListOf(Workers, sleepers')
      /\ \A v : Contains(sleepers', v) <=> v = w \/ Contains(sleepers, v)
  BY <1>2, <1>5, ListPush DEF SleepInv
<1>8. \A v \in Workers : Contains(announced', v) => pc'[v] \in AnnouncedPlaces
  BY <1>1, <1>6 DEF SleepInv
<1>9. \A v \in Workers : waking[v] # <<>> =>
        pc'[v] \in {"exploit", "invoke", "exit"}
  BY <1>1 DEF SleepInv
<1> HIDE DEF Asleep
<1>10. \A v \in Workers : Contains(sleepers', v) => Asleep(v)'
  BY <1>4, <1>7 DEF SleepInv
<1>11. \A t \in Threads, v \in Workers : Contains(waking[t], v) =>
         Asleep(v)' /\ ~Contains(sleepers', v)
  BY <1>4, <1>5, <1>7 DEF SleepInv
<1>12. \A v \in Workers : Asleep(v)' =>
         Contains(sleepers', v) \/ \E t \in Threads : Contains(waking[t], v)
  BY <1>4, <1>7 DEF SleepInv
<1> QED
  BY <1>2, <1>3, <1>6, <1>7, <1>8, <1>9, <1>10, <1>11, <1>12 DEF SleepInv

(* notify *)
Notification(t) == NotifyAll(t) \/ NotifyOne(t) \/ UNCHANGED notifierVars

LEMMA SleepNotify ==
  ASSUME Shape, SleepInv, NEW t \in Threads, NEW p, pc' = [pc EXCEPT ![t] = p],
         waking[t] = <<>>, Notification(t), ~Asleep(t), p # "park",
         ~Contains(announced, t),
         t \in Workers => p \in {"exploit", "invoke", "exit"}
  PROVE  SleepInv'
<1>1. pc'[t] = p /\ \A w \in Workers \ {t} : pc'[w] = pc[w]
  BY AsleepMoves, PcOf
<1>2. \A v : ~Contains(waking[t], v)
  BY ListEmpty
<1>3. \E s : /\ waking' = [waking EXCEPT ![t] = s] /\ ListOf(Workers, s)
             /\ ListOf(Workers, sleepers')
             /\ \A v \in Workers : Contains(sleepers, v) <=>
                  Contains(sleepers', v) \/ Contains(s, v)
             /\ \A v \in Workers : ~(Contains(sleepers', v) /\ Contains(s, v))
  <2>0. waking = [waking EXCEPT ![t] = <<>>]
    BY DEF SleepInv
  <2>1. CASE NotifyAll(t)
    BY <2>1, ListEmpty DEF NotifyAll, SleepInv
  <2>2. CASE waking' = waking /\ sleepers' = sleepers
    BY <2>0, <2>2, ListEmpty DEF SleepInv
  <2>3. CASE /\ sleepers # <<>> /\ sleepers' = Tail(sleepers)
             /\ waking' = [waking EXCEPT ![t] = <<Head(sleepers)>>]
    <3>1. /\ Head(sleepers) \in Workers /\ ListOf(Workers, sleepers')
          /\ \A v : Contains(sleepers', v) <=>
               v # Head(sleepers) /\ Contains(sleepers, v)
          /\ Contains(sleepers, Head(sleepers))
      BY <2>3, ListTail DEF SleepInv
    <3>2. /\ ListOf(Workers, <<Head(sleepers)>>)
          /\ \A v : Contains(<<Head(sleepers)>>, v) <=> v = Head(sleepers)
      BY <3>1, ListOne
    <3> QED
      BY <2>3, <3>1, <3>2
  <2> QED
    BY <2>1, <2>2, <2>3 DEF Notification, NotifyOne, notifierVars
<1>4. PICK s : /\ waking' = [waking EXCEPT ![t] = s] /\ ListOf(Workers, s)
               /\ ListOf(Workers, sleepers')
               /\ \A v \in Workers : Contains(sleepers, v) <=>
                    Contains(sleepers', v) \/ Contains(s, v)
               /\ \A v \in Workers : ~(Contains(sleepers', v) /\ Contains(s, v))
  BY <1>3
<1>5. /\ ListOf(Workers, announced')
      /\ \A v \in Workers : Contains(announced', v) => Contains(announced, v)
  <2>1. CASE announced' = <<>>
    BY <2>1, ListEmpty
  <2>2. CASE announced # <<>> /\ announced' = Tail(announced)
    BY <2>2, ListTail DEF SleepInv
  <2>3. CASE announced' = announced
    BY <2>3 DEF SleepInv
  <2> QED
    BY <2>1, <2>2, <2>3 DEF Notification, NotifyAll, NotifyOne, notifierVars
<1>6. signaled' = signaled
  BY DEF Notification, NotifyAll, NotifyOne, notifierVars
<1>7. \A w \in Workers : Asleep(w)' <=> Asleep(w)
  BY <1>1, <1>6 DEF Asleep
<1>8. /\ waking'[t] = s /\ \A u \in Threads \ {t} : waking'[u] = waking[u]
      /\ waking' \in [Threads -> Seq(Workers)]
  BY <1>4 DEF SleepInv, ListOf
<1>9. \A u \in Threads : ListOf(Workers, waking'[u])
  BY <1>4, <1>8 DEF SleepInv
<1>10. \A v \in Workers : Contains(announced', v) => pc'[v] \in AnnouncedPlaces
  BY <1>1, <1>5 DEF SleepInv
<1>11. \A v \in Workers : waking'[v] # <<>> =>
         pc'[v] \in {"exploit", "invoke", "exit"}
  BY <1>1, <1>8, ExecutorAssumption DEF SleepInv
<1>12. \A v \in Workers : Contains(sleepers', v) => Asleep(v)
  BY <1>4 DEF SleepInv
<1>13. \A u \in Threads, v \in Workers : Contains(waking'[u], v) =>
         Asleep(v) /\ ~Contains(sleepers', v)
  BY <1>4, <1>8 DEF SleepInv
<1>14. \A u, x \in Threads, v \in Workers :
         Contains(waking'[u], v) /\ Contains(waking'[x], v) => u = x
  BY <1>4, <1>8 DEF SleepInv
<1>15. \A v \in Workers : Asleep(v) =>
         Contains(sleepers', v) \/ \E u \in Threads : Contains(waking'[u], v)
  <2> SUFFICES ASSUME NEW v \in Workers, Asleep(v)
               PROVE  \/ Contains(sleepers', v)
                      \/ \E u \in Threads : Contains(waking'[u], v)
    OBVIOUS
  <2>1. CASE Contains(sleepers, v)
    BY <1>4, <1>8, <2>1
  <2>2. CASE ~Contains(sleepers, v)
    <3>1. PICK u \in Threads : Contains(waking[u], v)
      BY <2>2 DEF SleepInv
    <3> QED
      BY <1>2, <1>8, <3>1
  <2> QED
    BY <2>1, <2>2
<1> QED
  BY <1>5, <1>4, <1>6, <1>7, <1>8, <1>9, <1>10, <1>11, <1>12, <1>13, <1>14,
     <1>15 DEF SleepInv

(* _unpark *)
LEMMA SleepUnpark ==
  ASSUME Shape, SleepInv, NEW t \in Threads, Unpark(t), pc' = pc
  PROVE  SleepInv'
<1>0. waking[t] # <<>> /\ Head(waking[t]) \in Workers
  BY ListTail DEF Unpark, SleepInv
<1> PICK w \in Workers : w = Head(waking[t])
  BY <1>0
<1>1. /\ waking[t] # <<>> /\ UNCHANGED <<announced, sleepers>>
      /\ signaled' = [signaled EXCEPT ![w] = TRUE]
      /\ waking' = [waking EXCEPT ![t] = Tail(waking[t])]
  BY DEF Unpark
<1>2. /\ w \in Workers /\ Contains(waking[t], w)
      /\ ListOf(Workers, Tail(waking[t]))
      /\ \A v : Contains(Tail(waking[t]), v) <=> v # w /\ Contains(waking[t], v)
  BY <1>1, ListTail DEF SleepInv
<1>3. /\ signaled' \in [Workers -> BOOLEAN] /\ signaled'[w]
      /\ \A v \in Workers \ {w} : signaled'[v] = signaled[v]
  BY <1>1, <1>2 DEF SleepInv
<1>4. ~Asleep(w)' /\ \A v \in Workers \ {w} : Asleep(v)' <=> Asleep(v)
  <2>1. ~Asleep(w)'
    BY <1>3 DEF Asleep
  <2>2. \A v \in Workers \ {w} : Asleep(v)' <=> Asleep(v)
    BY <1>3 DEF Asleep
  <2> QED
    BY <2>1, <2>2
<1>5. /\ waking'[t] = Tail(waking[t])
      /\ \A u \in Threads \ {t} : waking'[u] = waking[u]
      /\ waking' \in [Threads -> Seq(Workers)]
  BY <1>1, <1>2 DEF SleepInv, ListOf
<1>6. \A u \in Threads : ListOf(Workers, waking'[u])
  BY <1>2, <1>5 DEF SleepInv
<1>7. \A u \in Threads, v \in Workers :
        Contains(waking'[u], v) <=> v # w /\ Contains(waking[u], v)
  <2> SUFFICES ASSUME NEW u \in Threads, NEW v \in Workers
               PROVE  Contains(waking'[u], v) <=> v # w /\ Contains(waking[u], v)
    OBVIOUS
  <2>1. CASE u = t
    BY <1>2, <1>5, <2>1
  <2>2. CASE u # t
    BY <1>2, <1>5, <2>2 DEF SleepInv
  <2> QED
    BY <2>1, <2>2
<1>8. ~Contains(sleepers, w)
  BY <1>2 DEF SleepInv
<1>9. \A v \in Workers : waking'[v] # <<>> => waking[v] # <<>>
  BY <1>1, <1>5, ExecutorAssumption
<1>10. \A v \in Workers : waking'[v] # <<>> =>
         pc[v] \in {"exploit", "invoke", "exit"}
  BY <1>9 DEF SleepInv
<1>11. \A v \in Workers : Contains(sleepers, v) => Asleep(v)'
  BY <1>4, <1>8 DEF SleepInv
<1>12. \A u \in Threads, v \in Workers : Contains(waking'[u], v) =>
         Asleep(v)' /\ ~Contains(sleepers, v)
  BY <1>4, <1>7 DEF SleepInv
<1>13. \A u, x \in Threads, v \in Workers :
         Contains(waking'[u], v) /\ Contains(waking'[x], v) => u = x
  BY <1>7 DEF SleepInv
<1>14. \A v \in Workers : Asleep(v)' =>
         Contains(sleepers, v) \/ \E u \in Threads : Contains(waking'[u], v)
  <2> SUFFICES ASSUME NEW v \in Workers, Asleep(v)', ~Contains(sleepers, v)
               PROVE  \E u \in Threads : Contains(waking'[u], v)
    OBVIOUS
  <2>1. v # w /\ Asleep(v)
    BY <1>4
  <2>2. PICK u \in Threads : Contains(waking[u], v)
    BY <2>1 DEF SleepInv
  <2> QED
    BY <1>7, <2>1, <2>2
<1>15. \A v \in Workers : Contains(announced, v) => pc[v] \in AnnouncedPlaces
  BY DEF SleepInv
<1>16. ListOf(Workers, announced) /\ ListOf(Workers, sleepers)
  BY DEF SleepInv
<1> QED
  BY <1>1, <1>3, <1>5, <1>6, <1>10, <1>11, <1>12, <1>13, <1>14, <1>15, <1>16
  DEF SleepInv

LEMMA SleepWorkerQuiet ==
  ASSUME Shape, SleepInv, NEW w \in Workers,
         \/ Start(w) \/ BecomeThief(w) \/ Explore(w) \/ Steal(w) \/ TakeTask(w)
         \/ NothingToTake(w) \/ GiveUp(w) \/ LookAtQueue(w) \/ Check(w)
         \/ CheckDone(w) \/ Exit(w) \/ LeaveThieves(w) \/ CheckActives(w)
         \/ Exploit(w) \/ Invoke(w) \/ TearDownInvoke(w) \/ SetPromise(w)
         \/ TearDownTopology(w) \/ BecomeInactive(w) \/ WakeUp(w)
  PROVE  SleepInv'
<1> USE DEF Step, IsAt, Goto
<1> DEFINE Moves(p) == /\ pc' = [pc EXCEPT ![w] = p] /\ p # "park"
                       /\ pc[w] \in AnnouncedPlaces => p \in AnnouncedPlaces
                       /\ waking[w] = <<>> /\ UNCHANGED notifierVars
                       /\ ~Asleep(w)
<1>1. CASE \/ Start(w) \/ BecomeThief(w) \/ Explore(w) \/ Steal(w)
           \/ TakeTask(w) \/ NothingToTake(w) \/ GiveUp(w)
  <2>1. \E p : Moves(p)
    BY <1>1 DEF Start, BecomeThief, Explore, Steal, TakeTask, NothingToTake,
                GiveUp, AnnouncedPlaces, Asleep
  <2> QED
    BY <2>1, SleepQuiet, ExecutorAssumption DEF SleepInv
<1>2. CASE \/ LookAtQueue(w) \/ Check(w) \/ CheckDone(w) \/ Exit(w)
           \/ LeaveThieves(w) \/ CheckActives(w)
  <2>1. \E p : Moves(p)
    BY <1>2 DEF LookAtQueue, Check, CheckDone, Exit, LeaveThieves,
                CheckActives, AnnouncedPlaces, Asleep
  <2> QED
    BY <2>1, SleepQuiet, ExecutorAssumption DEF SleepInv
<1>3. CASE \/ Exploit(w) \/ Invoke(w) \/ TearDownInvoke(w) \/ SetPromise(w)
           \/ TearDownTopology(w) \/ BecomeInactive(w) \/ WakeUp(w)
  <2>1. \E p : Moves(p)
    BY <1>3 DEF Exploit, Invoke, TearDownInvoke, SetPromise, TearDownTopology,
                BecomeInactive, WakeUp, AnnouncedPlaces, Asleep
  <2> QED
    BY <2>1, SleepQuiet, ExecutorAssumption DEF SleepInv
<1> QED
  BY <1>1, <1>2, <1>3

LEMMA SleepWorker ==
  ASSUME Shape, SleepInv, NEW w \in Workers, Worker(w)
  PROVE  SleepInv'
<1> USE DEF Step, IsAt, Goto
<1>0. w \in Threads
  BY ExecutorAssumption
<1>1. CASE Prepare(w)
  BY <1>1, SleepPrepare DEF Prepare
<1>2. CASE StealAgain(w)
  BY <1>2, SleepCancel DEF StealAgain, AnnouncedPlaces
<1>3. CASE Leave(w)
  BY <1>3, SleepCancel DEF Leave, AnnouncedPlaces
<1>4. CASE StayAwake(w)
  BY <1>4, SleepCancel DEF StayAwake, AnnouncedPlaces
<1>5. CASE Commit(w)
  <2>1. CASE CommitWait(w) /\ Goto(w, "park")
    BY <1>5, <2>1, SleepCommit DEF Commit
  <2>2. CASE CommitReleased(w) /\ Goto(w, "idle")
    <3>1. ~Contains(announced, w) /\ ~Asleep(w) /\ UNCHANGED notifierVars
      BY <1>5, <2>2 DEF Commit, CommitReleased, Released, Asleep
    <3> QED
      BY <1>0, <1>5, <2>2, <3>1, SleepQuiet DEF Commit
  <2> QED
    BY <1>5, <2>1, <2>2 DEF Commit
<1>6. CASE Found(w) \/ CheckThieves(w) \/ PassOn(w)
  <2>1. pc[w] \in {"found", "thieves", "pass on"} /\ waking[w] = <<>>
    BY <1>6 DEF Found, CheckThieves, PassOn
  <2>2. Notification(w)
    BY <1>6 DEF Found, CheckThieves, PassOn, Notification
  <2>3. \E p \in {"exploit", "invoke", "exit"} : pc' = [pc EXCEPT ![w] = p]
    BY <1>6 DEF Found, CheckThieves, PassOn
  <2>4. ~Contains(announced, w) /\ ~Asleep(w)
    BY <2>1 DEF SleepInv, AnnouncedPlaces, Asleep
  <2> QED
    BY <1>0, <2>1, <2>2, <2>3, <2>4, SleepNotify
<1>7. CASE Wake(w)
  BY <1>0, <1>7, SleepUnpark DEF Wake
<1> QED
  BY <1>1, <1>2, <1>3, <1>4, <1>5, <1>6, <1>7, SleepWorkerQuiet DEF Worker

LEMMA SleepMain ==
  ASSUME Shape, SleepInv, MainThread
  PROVE  SleepInv'
<1> USE DEF Step, IsAt, Goto
<1>0. Main \in Threads /\ Main \notin Workers
  BY ExecutorAssumption
<1>1. CASE Wake(Main)
  BY <1>0, <1>1, SleepUnpark DEF Wake
<1>2. CASE ~Wake(Main)
  <2>1. \E p \in MainPlaces : pc' = [pc EXCEPT ![Main] = p]
    BY <1>2 DEF MainThread, Spawned, Run, RunNothing, Push, Pushed, Notify,
                Wait, Shutdown, NotifyDone, Join, MainPlaces
  <2>2. pc[Main] \in MainPlaces /\ waking[Main] = <<>> /\ Notification(Main)
    BY <1>2 DEF MainThread, Spawned, Run, RunNothing, Push, Pushed, Notify,
                Wait, Shutdown, NotifyDone, Join, Notification, MainPlaces
  <2>3. "park" \notin MainPlaces
    BY DEF MainPlaces
  <2>4. ~Asleep(Main)
    BY <2>2, <2>3 DEF Asleep
  <2>5. ~Contains(announced, Main)
    <3>1. \A i \in 1 .. Len(announced) : announced[i] \in Workers
      BY DEF SleepInv, ListOf
    <3> QED
      BY <1>0, <3>1 DEF Contains
  <2> QED
    BY <1>0, <2>1, <2>2, <2>3, <2>4, <2>5, SleepNotify
<1> QED
  BY <1>1, <1>2

LEMMA SleepInvStep == Shape /\ SleepInv /\ [Next]_vars => SleepInv'
<1> SUFFICES ASSUME Shape, SleepInv, [Next]_vars PROVE SleepInv'
  OBVIOUS
<1>1. CASE UNCHANGED vars
  BY <1>1 DEF vars, notifierVars, SleepInv, Asleep
<1> QED
  BY <1>1, SleepWorker, SleepMain DEF Next, Ended

LEMMA SleepInvInit == Init => SleepInv
<1> SUFFICES ASSUME Init PROVE SleepInv
  OBVIOUS
<1>1. /\ announced = <<>> /\ sleepers = <<>>
      /\ signaled = [w \in Workers |-> FALSE]
      /\ waking = [t \in Threads |-> <<>>]
  BY ExecutorAssumption DEF Init, NotifierInit
<1>2. \A w \in Workers : pc[w] = "start" /\ w \in Threads
  BY ExecutorAssumption DEF Init
<1>3. signaled \in [Workers -> BOOLEAN]
  BY <1>1
<1>4. waking \in [Threads -> Seq(Workers)] /\ \A t \in Threads : waking[t] = <<>>
  BY <1>1
<1>5. \A w \in Workers : ~Asleep(w)
  BY <1>2 DEF Asleep
<1> QED
  BY <1>1, <1>2, <1>3, <1>4, <1>5, ListEmpty DEF SleepInv

-----------------------------------------------------------------------------
(* The end *)

(* The workers stay where they have been joined. *)
JoinedInv ==
  pc[Main] = "exited" => \A w \in Workers : pc[w] = "exited"

LEMMA JoinedWorker ==
  ASSUME Shape, NEW w \in Workers, Worker(w)
  PROVE  pc' = pc \/ pc[w] # "exited"
<1> USE DEF Step, IsAt, Goto
<1>1. CASE \/ Start(w) \/ BecomeThief(w)
           \/ Explore(w) \/ Steal(w) \/ TakeTask(w) \/ NothingToTake(w)
           \/ GiveUp(w) \/ Found(w) \/ Prepare(w) \/ LookAtQueue(w)
           \/ Check(w) \/ StealAgain(w) \/ CheckDone(w) \/ Leave(w)
           \/ PassOn(w) \/ Exit(w)
  BY <1>1 DEF Start, BecomeThief, Explore, Steal, TakeTask, NothingToTake,
              GiveUp, Found, Prepare, LookAtQueue, Check, StealAgain,
              CheckDone, Leave, PassOn, Exit
<1>2. CASE \/ LeaveThieves(w) \/ CheckActives(w) \/ StayAwake(w)
           \/ Commit(w) \/ WakeUp(w)
           \/ Exploit(w) \/ CheckThieves(w) \/ Invoke(w)
           \/ TearDownInvoke(w) \/ SetPromise(w) \/ TearDownTopology(w)
           \/ BecomeInactive(w) \/ Wake(w)
  BY <1>2 DEF LeaveThieves, CheckActives, StayAwake, Commit, WakeUp, Exploit,
              CheckThieves, Invoke, TearDownInvoke, SetPromise,
              TearDownTopology, BecomeInactive, Wake
<1> QED
  BY <1>1, <1>2 DEF Worker

(* What a worker does leaves the main thread where it is. *)
LEMMA MainStays ==
  ASSUME Shape, NEW w \in Workers, Worker(w)
  PROVE  /\ pc'[Main] = pc[Main] /\ notified' = notified /\ bottom' = bottom
         /\ \A v \in Workers \ {w} : pc'[v] = pc[v]
<1>0. Main \in Threads \ {w} /\ w \in Threads /\ Workers \subseteq Threads
  BY ExecutorAssumption
<1>1. pc' = pc \/ \E p : pc' = [pc EXCEPT ![w] = p]
  BY WorkerStepKinds
  DEF Still, WorkerKinds, Aside, Explore, Steal, Won, Hurry, Invoke,
      TearDownInvoke, SetPromise, TearDownTopology, Step, Goto
<1>2. bottom' = bottom
  BY WorkerStepKinds
  DEF Still, WorkerKinds, Aside, Explore, ReadTop, Steal, ReadItem, Won, Hurry,
      Invoke, TearDownInvoke, SetPromise, TearDownTopology, queueVars
<1>3. notified' = notified
  BY RestWorker
<1> QED
  BY <1>0, <1>1, <1>2, <1>3, PcOf

LEMMA JoinedInvStep == Shape /\ JoinedInv /\ [Next]_vars => JoinedInv'
<1> SUFFICES ASSUME Shape, JoinedInv, [Next]_vars PROVE JoinedInv'
  OBVIOUS
<1>1. ASSUME NEW w \in Workers, Worker(w)
      PROVE  JoinedInv'
  BY <1>1, JoinedWorker, MainStays DEF JoinedInv
<1>2. CASE MainThread
  <2>0. Main \in Threads /\ Main \notin Workers
    BY ExecutorAssumption
  <2>1. CASE Join
    <3>1. \A w \in Workers : pc[w] = "exited" /\ pc'[w] = pc[w]
      BY <2>0, <2>1 DEF Join, IsAt, Step, Goto, Shape
    <3> QED
      BY <3>1 DEF JoinedInv
  <2>2. CASE Wake(Main)
    BY <2>2 DEF Wake, JoinedInv
  <2>3. CASE ~Join /\ ~Wake(Main)
    <3>1. \E p \in MainPlaces \ {"exited"} : pc' = [pc EXCEPT ![Main] = p]
      BY <1>2, <2>3 DEF MainThread, Spawned, Run, RunNothing, Push, Pushed,
                    Notify, Wait, Shutdown, NotifyDone, Step, Goto, MainPlaces
    <3>2. pc'[Main] # "exited"
      BY <2>0, <3>1, PcOf
    <3> QED
      BY <3>2 DEF JoinedInv
  <2> QED
    BY <2>1, <2>2, <2>3
<1>3. CASE UNCHANGED vars
  BY <1>3 DEF vars, JoinedInv
<1> QED
  BY <1>1, <1>2, <1>3 DEF Next, Ended

(* When the executor is destroyed no thread waits, and none is counted as  *)
(* a thief or as active: what ~Notifier asserts (notifier.hpp:90-93).      *)
THEOREM QuietWhenDestroyed == Spec => []QuietAtEnd
<1>1. Init => CountInv /\ SleepInv /\ JoinedInv
  <2>1. ASSUME Init PROVE JoinedInv
    <3>1. pc[Main] = "spawn"
      BY <2>1, ExecutorAssumption DEF Init
    <3> QED
      BY <3>1 DEF JoinedInv
  <2> QED
    BY <2>1, CountInvInit, SleepInvInit
<1>2. IInv /\ (CountInv /\ SleepInv /\ JoinedInv) /\ [Next]_vars
        => (CountInv /\ SleepInv /\ JoinedInv)'
  BY CountInvStep, SleepInvStep, JoinedInvStep DEF IInv
<1>3. CountInv /\ SleepInv /\ JoinedInv => QuietAtEnd
  <2> SUFFICES ASSUME CountInv, SleepInv, \A w \in Workers : pc[w] = "exited"
               PROVE  /\ announced = <<>> /\ sleepers = <<>>
                      /\ numThieves = 0 /\ numActives = 0
    BY DEF JoinedInv, QuietAtEnd
  <2>1. AtPlaces(ThiefPlaces) = {} /\ AtPlaces(ActivePlaces) = {}
    BY DEF AtPlaces, ThiefPlaces, ActivePlaces
  <2>2. numThieves = 0 /\ numActives = 0
    BY <2>1, FS_EmptySet DEF CountInv
  <2>3. \A w \in Workers : ~Contains(announced, w) /\ ~Contains(sleepers, w)
    BY DEF SleepInv, AnnouncedPlaces, Asleep
  <2>4. announced = <<>> /\ sleepers = <<>>
    BY <2>3, ListMember DEF SleepInv
  <2> QED
    BY <2>2, <2>4
<1> QED
  BY <1>1, <1>2, <1>3, IInvAlways, PTL DEF Spec

-----------------------------------------------------------------------------
(* No lost wake-up *)

Awake(w) == IF pc[w] = "park" THEN signaled[w] ELSE ~AboutToSleep(w)

(* The main thread has notified at least once, and the queue has a task. *)
Busy ==
  /\ top < bottom
  /\ \/ pc[Main] \in {"wait", "shutdown"}
     \/ pc[Main] = "notify" /\ notified # 0

AwakeInv ==
  /\ Busy => waking[Main] # <<>> \/ \E w \in Workers : Awake(w)
  /\ pc[Main] \in {"spawn", "run", "push", "pushed"} => notified = 0

(* Where a worker is not about to sleep, whatever it has seen. *)
SafePlaces ==
  WorkerPlaces \ {"park", "check", "done", "last", "actives", "commit"}

LEMMA AwakeAt ==
  ASSUME NEW w \in Workers
  PROVE  /\ pc[w] \in SafePlaces => Awake(w)
         /\ pc'[w] \in SafePlaces => Awake(w)'
BY DEF Awake, AboutToSleep, SafePlaces

(* A worker does not fall asleep while it can see a task. *)
LEMMA AwakeSelf ==
  ASSUME IInv, SleepInv, NEW w \in Workers, Worker(w), Awake(w),
         top < bottom, top' < bottom'
  PROVE  Awake(w)'
<1> USE DEF Step, IsAt, Goto
<1>0. w \in Threads /\ Shape
  BY ExecutorAssumption DEF IInv
<1>p. \A p : pc' = [pc EXCEPT ![w] = p] => pc'[w] = p
  BY <1>0, PcOf
<1>1. CASE \/ Start(w) \/ BecomeThief(w) \/ Explore(w) \/ Steal(w) \/ TakeTask(w)
           \/ NothingToTake(w) \/ GiveUp(w) \/ Found(w) \/ Prepare(w)
           \/ StealAgain(w) \/ Leave(w) \/ PassOn(w) \/ Exit(w)
  <2>1. \E p \in SafePlaces : pc' = [pc EXCEPT ![w] = p]
    BY <1>1 DEF Start, BecomeThief, Explore, Steal, TakeTask, NothingToTake,
                GiveUp, Found, Prepare, StealAgain, Leave, PassOn, Exit,
                SafePlaces, WorkerPlaces
  <2> QED
    BY <1>p, <2>1, AwakeAt
<1>2. CASE \/ StayAwake(w) \/ WakeUp(w) \/ Exploit(w) \/ CheckThieves(w)
           \/ Invoke(w) \/ TearDownInvoke(w) \/ SetPromise(w)
           \/ TearDownTopology(w) \/ BecomeInactive(w)
  <2>1. \E p \in SafePlaces : pc' = [pc EXCEPT ![w] = p]
    BY <1>2 DEF StayAwake, WakeUp, Exploit, CheckThieves, Invoke,
                TearDownInvoke, SetPromise, TearDownTopology, BecomeInactive,
                SafePlaces, WorkerPlaces
  <2> QED
    BY <1>p, <2>1, AwakeAt
<1>3. CASE LookAtQueue(w)
  <2>1. /\ pc' = [pc EXCEPT ![w] = "check"] /\ top' = top /\ bottom' = bottom
        /\ seen' = [seen EXCEPT ![w] = bottom]
    BY <1>3 DEF LookAtQueue, ReadBottom
  <2>2. pc'[w] = "check" /\ seen'[w] = bottom
    BY <1>0, <1>p, <2>1 DEF Shape
  <2>3. ~FoundEmpty(w)'
    BY <1>0, <2>1, <2>2 DEF FoundEmpty, Shape
  <2> QED
    BY <2>2, <2>3 DEF Awake, AboutToSleep
<1>4. CASE Check(w)
  <2>1. pc[w] = "check" /\ announced' = announced
        /\ pc' = [pc EXCEPT ![w] = IF FoundEmpty(w) THEN "done" ELSE "nonempty"]
    BY <1>4 DEF Check, notifierVars
  <2>2. CASE ~FoundEmpty(w)
    <3>1. pc'[w] \in SafePlaces
      BY <1>p, <2>1, <2>2 DEF SafePlaces, WorkerPlaces
    <3> QED
      BY <3>1, AwakeAt
  <2>3. CASE FoundEmpty(w)
    <3>1. ~Contains(announced', w)
      BY <2>1, <2>3 DEF Awake, AboutToSleep
    <3>2. pc'[w] = "done"
      BY <1>p, <2>1, <2>3
    <3> QED
      BY <3>1, <3>2 DEF Awake, AboutToSleep
  <2> QED
    BY <2>2, <2>3
<1>5. CASE CheckDone(w) \/ LeaveThieves(w) \/ CheckActives(w)
  <2>1. pc[w] \in {"done", "last", "actives"} /\ announced' = announced
        /\ \E p \in WorkerPlaces \ {"park"} : pc' = [pc EXCEPT ![w] = p]
    BY <1>5 DEF CheckDone, LeaveThieves, CheckActives, notifierVars,
                WorkerPlaces
  <2>2. pc'[w] # "park"
    BY <1>p, <2>1
  <2>3. ~Contains(announced', w)
    BY <2>1 DEF Awake, AboutToSleep
  <2> QED
    BY <2>2, <2>3 DEF Awake, AboutToSleep
<1>6. CASE Commit(w)
  <2>1. pc[w] = "commit"
    BY <1>6 DEF Commit
  <2>2. ~Contains(announced, w)
    BY <2>1 DEF Awake, AboutToSleep
  <2>3. ~CommitWait(w)
    BY <2>2, ListTail DEF SleepInv, CommitWait, IsTurn
  <2>4. pc' = [pc EXCEPT ![w] = "idle"]
    BY <1>6, <2>3 DEF Commit
  <2>5. pc'[w] \in SafePlaces
    BY <1>p, <2>4 DEF SafePlaces, WorkerPlaces
  <2> QED
    BY <2>5, AwakeAt
<1>7. CASE Wake(w)
  <2>1. pc' = pc /\ waking[w] # <<>>
    BY <1>7 DEF Wake, Unpark
  <2>2. pc[w] \in SafePlaces
    BY <2>1 DEF SleepInv, SafePlaces, WorkerPlaces
  <2> QED
    BY <2>1, <2>2, AwakeAt
<1> QED
  BY <1>1, <1>2, <1>3, <1>4, <1>5, <1>6, <1>7 DEF Worker

(* What a worker does to the notifier, whatever it does it for. *)
LEMMA NotifierKinds ==
  ASSUME NEW w \in Workers, Worker(w)
  PROVE  \/ Notification(w) \/ PrepareWait(w) \/ CancelWait(w) \/ CommitWait(w)
         \/ Unpark(w)
<1>1. CASE \/ Start(w) \/ BecomeThief(w)
           \/ Explore(w) \/ Steal(w) \/ TakeTask(w) \/ NothingToTake(w)
           \/ GiveUp(w) \/ Found(w) \/ Prepare(w) \/ LookAtQueue(w)
           \/ Check(w) \/ StealAgain(w) \/ CheckDone(w) \/ Leave(w)
           \/ PassOn(w) \/ Exit(w)
  BY <1>1 DEF Start, BecomeThief, Explore, Steal, TakeTask, NothingToTake,
              GiveUp, Found, Prepare, LookAtQueue, Check, StealAgain,
              CheckDone, Leave, PassOn, Exit, Notification
<1>2. CASE \/ LeaveThieves(w) \/ CheckActives(w) \/ StayAwake(w)
           \/ Commit(w) \/ WakeUp(w)
           \/ Exploit(w) \/ CheckThieves(w) \/ Invoke(w)
           \/ TearDownInvoke(w) \/ SetPromise(w) \/ TearDownTopology(w)
           \/ BecomeInactive(w) \/ Wake(w)
  BY <1>2 DEF LeaveThieves, CheckActives, StayAwake, Commit, CommitReleased,
              WakeUp, Exploit, CheckThieves, Invoke, TearDownInvoke,
              SetPromise, TearDownTopology, BecomeInactive, Wake, Notification
<1> QED
  BY <1>1, <1>2 DEF Worker

(* For the others that means at most that they are released. *)
LEMMA NotifierOthers ==
  ASSUME SleepInv, NEW w \in Workers, Worker(w), NEW v \in Workers \ {w}
  PROVE  /\ Contains(announced', v) => Contains(announced, v)
         /\ signaled[v] => signaled'[v]
         /\ waking'[Main] = waking[Main]
<1>0. /\ Main # w /\ Main \in Threads /\ waking \in [Threads -> Seq(Workers)]
      /\ signaled \in [Workers -> BOOLEAN]
      /\ ListOf(Workers, announced)
  BY ExecutorAssumption DEF SleepInv
<1>1. CASE Notification(w)
  <2>1. waking'[Main] = waking[Main] /\ signaled' = signaled
    BY <1>0, <1>1 DEF Notification, NotifyAll, NotifyOne, notifierVars
  <2>2. \/ announced' = announced \/ announced' = <<>>
        \/ announced # <<>> /\ announced' = Tail(announced)
    BY <1>1 DEF Notification, NotifyAll, NotifyOne, notifierVars
  <2> QED
    BY <1>0, <2>1, <2>2, ListEmpty, ListTail
<1>2. CASE PrepareWait(w)
  <2>1. /\ announced' = Append(announced, w)
        /\ UNCHANGED <<sleepers, signaled, waking>>
    BY <1>2 DEF PrepareWait
  <2>2. Contains(announced', v) => Contains(announced, v)
    <3>1. announced \in Seq(Workers) /\ v # w
      BY <1>0 DEF ListOf
    <3> QED
      BY <2>1, <3>1 DEF Contains
  <2> QED
    BY <2>1, <2>2
<1>3. CASE CancelWait(w)
  <2>1. UNCHANGED <<sleepers, signaled, waking>>
    BY <1>3 DEF CancelWait
  <2>2. \/ announced' = announced
        \/ announced # <<>> /\ announced' = Tail(announced)
    BY <1>3 DEF CancelWait, IsTurn
  <2> QED
    BY <1>0, <2>1, <2>2, ListTail
<1>4. CASE CommitWait(w)
  <2>1. /\ announced # <<>> /\ announced' = Tail(announced) /\ waking' = waking
        /\ signaled' = [signaled EXCEPT ![w] = FALSE]
    BY <1>4 DEF CommitWait, IsTurn
  <2>2. signaled'[v] = signaled[v]
    BY <1>0, <2>1
  <2> QED
    BY <1>0, <2>1, <2>2, ListTail
<1>5. CASE Unpark(w)
  <2>1. /\ announced' = announced
        /\ waking' = [waking EXCEPT ![w] = Tail(waking[w])]
        /\ signaled' = [signaled EXCEPT ![Head(waking[w])] = TRUE]
    BY <1>5 DEF Unpark
  <2>2. waking'[Main] = waking[Main]
    BY <1>0, <2>1
  <2>3. signaled[v] => signaled'[v]
    BY <1>0, <2>1
  <2> QED
    BY <2>1, <2>2, <2>3
<1> QED
  BY <1>1, <1>2, <1>3, <1>4, <1>5, NotifierKinds

(* Another worker that takes the task one had seen is awake itself. *)
LEMMA AwakeOther ==
  ASSUME IInv, SleepInv, NEW w \in Workers, Worker(w),
         NEW v \in Workers \ {w}, Awake(v)
  PROVE  Awake(v)' \/ Awake(w)'
<1>0. /\ w \in Threads /\ v \in Threads \ {w} /\ Shape
  BY ExecutorAssumption DEF IInv
<1>1. pc'[v] = pc[v]
  BY <1>0, MainStays
<1>2. CASE Won(w)
  <2>1. pc'[w] = "found"
    BY <1>0, <1>2, PcOf DEF Won
  <2> QED
    BY <2>1, AwakeAt DEF SafePlaces, WorkerPlaces
<1>3. CASE ~Won(w)
  <2>1. top' = top /\ seen'[v] = seen[v]
    <3>1. seen \in [Workers -> Nat]
      BY <1>0 DEF Shape
    <3> QED
      BY <1>0, <1>3, <3>1, WorkerStepKinds
      DEF Still, WorkerKinds, Aside, Explore, ReadTop, Steal, ReadItem, Hurry,
          Invoke, TearDownInvoke, SetPromise, TearDownTopology, queueVars
  <2>2. FoundEmpty(v)' <=> FoundEmpty(v)
    BY <2>1 DEF FoundEmpty
  <2>3. /\ Contains(announced', v) => Contains(announced, v)
        /\ signaled[v] => signaled'[v]
    BY NotifierOthers
  <2>4. CASE pc[v] = "park"
    BY <1>1, <2>3, <2>4 DEF Awake
  <2>5. CASE pc[v] # "park"
    BY <1>1, <2>2, <2>3, <2>5 DEF Awake, AboutToSleep
  <2> QED
    BY <2>4, <2>5
<1> QED
  BY <1>2, <1>3

LEMMA AwakeInvWorker ==
  ASSUME IInv, SleepInv, AwakeInv, NEW w \in Workers, Worker(w)
  PROVE  AwakeInv'
<1>0. Shape
  BY DEF IInv
<1>1. /\ pc'[Main] = pc[Main] /\ notified' = notified /\ bottom' = bottom
  BY <1>0, MainStays
<1> SUFFICES ASSUME Busy', waking'[Main] = <<>>
             PROVE  \E v \in Workers : Awake(v)'
  BY <1>1 DEF AwakeInv
<1>2. top <= top' /\ top \in Nat /\ bottom \in Nat /\ top' \in Nat
  <2>1. top' = top \/ top' = top + 1
    BY <1>0, WorkerStepKinds
    DEF Still, WorkerKinds, Aside, Explore, ReadTop, Steal, ReadItem, Hurry,
        Won, Invoke, TearDownInvoke, SetPromise, TearDownTopology, queueVars
  <2>2. top \in Nat /\ bottom \in Nat
    BY <1>0 DEF Shape
  <2> QED
    BY <2>1, <2>2
<1>3. Busy
  BY <1>1, <1>2 DEF Busy
<1>4. waking[Main] = <<>>
  <2>1. w \in Threads /\ Main \in Threads \ {w}
    BY ExecutorAssumption
  <2>2. waking' = waking \/ \E s : waking' = [waking EXCEPT ![w] = s]
    BY NotifierKinds DEF Notification, NotifyAll, NotifyOne, PrepareWait,
       CancelWait, CommitWait, Unpark, notifierVars
  <2> QED
    BY <2>1, <2>2 DEF SleepInv
<1>5. PICK v \in Workers : Awake(v)
  BY <1>3, <1>4 DEF AwakeInv
<1>6. CASE v = w
  BY <1>3, <1>5, <1>6, AwakeSelf DEF Busy
<1>7. CASE v # w
  BY <1>5, <1>7, AwakeOther
<1> QED
  BY <1>6, <1>7

(* When nobody is announced or asleep, somebody is awake. *)
LEMMA SomebodyAwake ==
  ASSUME SleepInv, SleepInv', announced' = <<>>, sleepers' = <<>>,
         waking'[Main] = <<>>
  PROVE  \E w \in Workers : Awake(w)'
<1>1. PICK w \in Workers : TRUE
  BY ExecutorAssumption
<1>2. CASE pc'[w] = "park" /\ ~signaled'[w]
  <2>1. PICK t \in Threads : Contains(waking'[t], w)
    BY <1>2, ListEmpty DEF SleepInv, Asleep
  <2>2. waking'[t] # <<>>
    BY <2>1, ListEmpty
  <2>3. t \in Workers
    BY <2>2, ExecutorAssumption
  <2>4. pc'[t] \in {"exploit", "invoke", "exit"}
    BY <2>2, <2>3 DEF SleepInv
  <2> QED
    BY <2>3, <2>4, AwakeAt DEF SafePlaces, WorkerPlaces
<1>3. CASE pc'[w] = "park" /\ signaled'[w]
  BY <1>3 DEF Awake
<1>4. CASE pc'[w] # "park"
  <2>1. ~Contains(announced', w)
    BY ListEmpty
  <2> QED
    BY <1>4, <2>1 DEF Awake, AboutToSleep
<1> QED
  BY <1>2, <1>3, <1>4

LEMMA AwakeSame ==
  ASSUME \A w \in Workers : pc'[w] = pc[w],
         UNCHANGED <<top, seen, announced, signaled>>,
         NEW w \in Workers, Awake(w)
  PROVE  Awake(w)'
BY DEF Awake, AboutToSleep, FoundEmpty

LEMMA AwakeNotify ==
  ASSUME IInv, SleepInv, SleepInv', AwakeInv, RestInv, Notify, top' < bottom',
         waking'[Main] = <<>>
  PROVE  \E w \in Workers : Awake(w)'
<1> USE DEF Step, IsAt, Goto
<1>0. /\ Main \in Threads /\ Main \notin Workers /\ Shape
  BY ExecutorAssumption DEF IInv
<1>1. /\ pc[Main] = "notify" /\ waking[Main] = <<>>
      /\ UNCHANGED <<top, bottom, seen>>
      /\ \A w \in Workers : pc'[w] = pc[w]
  <2>1. /\ pc[Main] = "notify" /\ waking[Main] = <<>>
        /\ UNCHANGED <<top, bottom, seen>>
        /\ \E p : pc' = [pc EXCEPT ![Main] = p]
    BY DEF Notify, queueVars
  <2> QED
    BY <1>0, <2>1, PcOf, ExecutorAssumption
<1>2. CASE NotifyAll(Main)
  <2>1. /\ announced' = <<>> /\ sleepers' = <<>>
    BY <1>2 DEF NotifyAll
  <2> QED
    BY <2>1, SomebodyAwake
<1>3. CASE NotifyOne(Main)
  <2>1. CASE announced # <<>>
    <3>1. /\ announced' = Tail(announced) /\ ListOf(Workers, announced)
      BY <1>3, <2>1 DEF NotifyOne, SleepInv
    <3>2. PICK w \in Workers : w = Head(announced)
      BY <2>1, <3>1, ListTail
    <3>3. Contains(announced, w) /\ ~Contains(announced', w)
      BY <2>1, <3>1, <3>2, ListTail
    <3>4. pc[w] # "park"
      BY <3>3 DEF SleepInv, AnnouncedPlaces
    <3> QED
      BY <1>1, <3>3, <3>4 DEF Awake, AboutToSleep
  <2>2. CASE announced = <<>> /\ sleepers # <<>>
    <3>1. waking' = [waking EXCEPT ![Main] = <<Head(sleepers)>>]
      BY <1>3, <2>2 DEF NotifyOne
    <3>2. waking'[Main] # <<>>
      BY <1>0, <3>1 DEF SleepInv
    <3> QED
      BY <3>2
  <2>3. CASE announced = <<>> /\ sleepers = <<>>
    <3>1. announced' = <<>> /\ sleepers' = <<>>
      BY <1>3, <2>3 DEF NotifyOne, notifierVars
    <3> QED
      BY <3>1, SomebodyAwake
  <2> QED
    BY <2>1, <2>2, <2>3
<1>4. CASE notified = numTasks /\ UNCHANGED notifierVars
  <2>1. bottom = numTasks /\ top \in Nat /\ bottom \in Nat
    BY <1>0, <1>1 DEF IInv, QueueInv, MainPlaces, Shape
  <2>2. Busy
    BY <1>1, <1>4, <2>1 DEF Busy
  <2>3. PICK w \in Workers : Awake(w)
    BY <1>1, <2>2 DEF AwakeInv
  <2> QED
    BY <1>1, <1>4, <2>3, AwakeSame DEF notifierVars
<1> QED
  BY <1>2, <1>3, <1>4 DEF Notify

LEMMA AwakeInvMain ==
  ASSUME IInv, SleepInv, AwakeInv, RestInv, MainThread
  PROVE  AwakeInv'
<1> USE DEF Step, IsAt, Goto
<1>0. /\ Shape /\ QueueInv /\ SleepInv' /\ Main \in Threads
      /\ Main \notin Workers
  BY SleepMain, ExecutorAssumption DEF IInv
<1>p. \A p : pc' = [pc EXCEPT ![Main] = p] =>
        pc'[Main] = p /\ \A w \in Workers : pc'[w] = pc[w]
  BY <1>0, PcOf, ExecutorAssumption
<1>1. CASE Spawned \/ Run \/ Push \/ Pushed
  <2>1. /\ pc[Main] \in {"spawn", "run", "push", "pushed"}
        /\ notified' = notified
        /\ \E p \in {"run", "nothing", "push", "pushed", "notify"} :
             pc' = [pc EXCEPT ![Main] = p]
    BY <1>1 DEF Spawned, Run, Push, Pushed
  <2>2. notified' = 0
    BY <2>1 DEF AwakeInv
  <2>3. pc'[Main] \in {"run", "nothing", "push", "pushed", "notify"}
    BY <1>p, <2>1
  <2> QED
    BY <2>2, <2>3 DEF AwakeInv, Busy
<1>2. CASE Shutdown \/ NotifyDone \/ Join
  <2>1. \E p \in {"notify all", "join", "exited"} : pc' = [pc EXCEPT ![Main] = p]
    BY <1>2 DEF Shutdown, NotifyDone, Join
  <2>2. pc'[Main] \in {"notify all", "join", "exited"}
    BY <1>p, <2>1
  <2> QED
    BY <2>2 DEF AwakeInv, Busy
<1>3. CASE RunNothing
  <2>1. /\ pc[Main] = "nothing" /\ pc' = [pc EXCEPT ![Main] = "wait"]
        /\ UNCHANGED <<top, bottom>>
    BY <1>3 DEF RunNothing, queueVars
  <2>2. bottom = 0 /\ top \in Nat
    BY <1>0, <2>1 DEF QueueInv, MainPlaces, Shape
  <2>3. ~Busy'
    BY <2>1, <2>2 DEF Busy
  <2>4. pc'[Main] = "wait"
    BY <1>p, <2>1
  <2> QED
    BY <2>3, <2>4 DEF AwakeInv
<1>4. CASE Notify
  <2>1. \E p \in {"notify", "wait"} : pc' = [pc EXCEPT ![Main] = p]
    BY <1>4 DEF Notify
  <2>2. pc'[Main] \in {"notify", "wait"}
    BY <1>p, <2>1
  <2>3. Busy' => top' < bottom'
    BY DEF Busy
  <2> QED
    BY <1>0, <1>4, <2>2, <2>3, AwakeNotify DEF AwakeInv
<1>5. CASE Wait
  <2>1. /\ pc[Main] = "wait" /\ pc' = [pc EXCEPT ![Main] = "shutdown"]
        /\ UNCHANGED <<top, bottom, seen, announced, signaled, waking>>
    BY <1>5 DEF Wait, queueVars, notifierVars
  <2>2. pc'[Main] = "shutdown" /\ \A w \in Workers : pc'[w] = pc[w]
    BY <1>p, <2>1
  <2>3. Busy' => Busy
    BY <2>1 DEF Busy
  <2>4. \A w \in Workers : Awake(w) => Awake(w)'
    BY <2>1, <2>2, AwakeSame
  <2> QED
    BY <2>1, <2>2, <2>3, <2>4 DEF AwakeInv
<1>6. CASE Wake(Main)
  <2>1. /\ UNCHANGED <<pc, notified, top, bottom>> /\ waking[Main] # <<>>
        /\ signaled' = [signaled EXCEPT ![Head(waking[Main])] = TRUE]
    BY <1>6 DEF Wake, Unpark, queueVars
  <2>2. PICK w \in Workers : w = Head(waking[Main]) /\ Contains(waking[Main], w)
    BY <1>0, <2>1, ListTail DEF SleepInv
  <2>3. signaled'[w]
    BY <2>1, <2>2 DEF SleepInv
  <2>4. pc'[w] = "park"
    BY <1>0, <2>1, <2>2 DEF SleepInv, Asleep
  <2>5. Awake(w)'
    BY <2>3, <2>4 DEF Awake
  <2> QED
    BY <2>1, <2>5 DEF AwakeInv
<1> QED
  BY <1>1, <1>2, <1>3, <1>4, <1>5, <1>6 DEF MainThread

LEMMA AwakeInvStep ==
  IInv /\ SleepInv /\ RestInv /\ AwakeInv /\ [Next]_vars => AwakeInv'
<1> SUFFICES ASSUME IInv, SleepInv, RestInv, AwakeInv, [Next]_vars
             PROVE  AwakeInv'
  OBVIOUS
<1>1. CASE UNCHANGED vars
  <2>1. /\ UNCHANGED <<top, bottom, seen, announced, signaled, waking, pc,
                       notified>>
    BY <1>1 DEF vars, queueVars, notifierVars
  <2>2. \A w \in Workers : Awake(w) => Awake(w)'
    BY <2>1, AwakeSame
  <2> QED
    BY <2>1, <2>2 DEF AwakeInv, Busy
<1> QED
  BY <1>1, AwakeInvWorker, AwakeInvMain DEF Next, Ended

(* No task ever waits for workers that all sleep, or are about to: the     *)
(* look at the queue between prepare_wait and commit_wait, and the order   *)
(* in which a thief and the main thread announce and notify, leave no gap  *)
(* for any number of workers and tasks.                                    *)
THEOREM NoWakeUpLost == Spec => []NoLostWakeUp
<1>1. Init => SleepInv /\ RestInv /\ AwakeInv
  <2>1. ASSUME Init PROVE AwakeInv
    <3>1. pc[Main] = "spawn" /\ notified = 0
      BY <2>1, ExecutorAssumption DEF Init
    <3> QED
      BY <3>1 DEF AwakeInv, Busy
  <2> QED
    BY <2>1, SleepInvInit, RestInvInit
<1>2. IInv /\ (SleepInv /\ RestInv /\ AwakeInv) /\ [Next]_vars
        => (SleepInv /\ RestInv /\ AwakeInv)'
  BY SleepInvStep, RestInvStep, AwakeInvStep DEF IInv
<1>3. AwakeInv => NoLostWakeUp
  BY DEF AwakeInv, Busy, Awake, NoLostWakeUp, MainIsAt
<1> QED
  BY <1>1, <1>2, <1>3, IInvAlways, PTL DEF Spec

=============================================================================
