------------------------------ MODULE Executor ------------------------------
(***************************************************************************)
(* The executor that runs the strips' tasks (taskflow/core/executor.hpp),  *)
(* as iobench uses it: the main thread creates it, submits one graph of    *)
(* tasks without dependencies, waits for its future, and destroys it.      *)
(* Such tasks have no successors, so the queues of the workers themselves  *)
(* stay empty: everything goes through the shared queue.                   *)
(*                                                                         *)
(* A worker without a task is a thief.  It looks for a task a number of    *)
(* times, then announces that it may sleep, looks at the shared queue      *)
(* again, and sleeps unless it is the last thief while others are active.  *)
(* A step is what lies between two operations on shared state.  Failed     *)
(* looks at empty queues change nothing and are left out, but for the last.*)
(***************************************************************************)
EXTENDS TaskQueue, Notifier

CONSTANTS
  Workers,     \* the threads of the executor
  Main,        \* the thread that creates it
  MaxTasks     \* the largest graph submitted

ASSUME ExecutorAssumption ==
  /\ IsFiniteSet(Workers) /\ Workers # {} /\ Main \notin Workers
  /\ Thieves = Workers /\ Waiters = Workers /\ Threads = Workers \cup {Main}
  /\ MaxTasks \in Nat /\ Nil \notin 1 .. MaxTasks

VARIABLES
  numTasks,        \* tasks of the graph: 1 .. numTasks
  pc,              \* of every thread
  registered,      \* workers that have started (the counter n of _spawn)
  numThieves, numActives,   \* _num_thieves, _num_actives
  numTopologies, joinCounter,
  promise,         \* the future of the run is ready
  done,            \* _done
  notified,        \* calls of notify(false) that notify_n has made
  runs             \* per task: how often it has run

counters == <<numThieves, numActives>>
topology == <<numTopologies, joinCounter, promise>>

vars == <<queueVars, notifierVars, numTasks, pc, registered, counters,
          topology, done, notified, runs>>

Tasks == 1 .. numTasks

(* Where a thread can be. *)
WorkerPlaces ==
  {"start", "idle", "explore", "steal", "take", "explored", "found", "empty",
   "check", "nonempty", "steal again", "done", "leave", "pass on", "exit",
   "exited", "last", "actives", "stay", "commit", "park", "exploit",
   "thieves", "invoke", "tear down", "promise", "topology", "inactive"}

MainPlaces ==
  {"spawn", "run", "nothing", "push", "pushed", "notify", "wait", "shutdown",
   "notify all", "join", "exited"}

Places == WorkerPlaces \cup MainPlaces

Init ==
  /\ QueueInit /\ NotifierInit
  /\ numTasks \in 0 .. MaxTasks
  /\ pc = [t \in Threads |-> IF t = Main THEN "spawn" ELSE "start"]
  /\ registered = {}
  /\ numThieves = 0 /\ numActives = 0
  /\ numTopologies = 0 /\ joinCounter = 0 /\ promise = FALSE
  /\ done = FALSE /\ notified = 0
  /\ runs = [k \in 1 .. MaxTasks |-> 0]

(* A thread that is to wake others does so before anything else. *)
IsAt(t, place) == pc[t] = place /\ waking[t] = <<>>

Goto(t, place) == pc' = [pc EXCEPT ![t] = place]

Step(t, here, there) == IsAt(t, here) /\ Goto(t, there)

-----------------------------------------------------------------------------
(* Workers: looking for a task *)

(* A thread enters the map from threads to workers, under a lock. *)
Start(w) ==
  /\ Step(w, "start", "idle")
  /\ registered' = registered \cup {w}
  /\ UNCHANGED <<queueVars, notifierVars, numTasks, counters, topology, done,
                 notified, runs>>

BecomeThief(w) ==
  /\ Step(w, "idle", "explore")
  /\ numThieves' = numThieves + 1
  /\ UNCHANGED <<queueVars, notifierVars, numTasks, registered, numActives,
                 topology, done, notified, runs>>

(* _explore_task: try the shared queue, *)
Explore(w) ==
  /\ Step(w, "explore", "steal") \/ Step(w, "steal again", "steal")
  /\ ReadTop(w)
  /\ UNCHANGED <<notifierVars, numTasks, registered, counters, topology, done,
                 notified, runs>>

Steal(w) ==
  /\ Step(w, "steal", "take")
  /\ ReadItem(w)
  /\ UNCHANGED <<notifierVars, numTasks, registered, counters, topology, done,
                 notified, runs>>

TakeTask(w) ==
  /\ IsAt(w, "take") /\ item[w] # Nil
  /\ Take(w)
  /\ Goto(w, IF item'[w] # Nil THEN "found" ELSE "explored")
  /\ UNCHANGED <<notifierVars, numTasks, registered, counters, topology, done,
                 notified, runs>>

NothingToTake(w) ==
  /\ Step(w, "take", "explored") /\ item[w] = Nil
  /\ Forget(w)
  /\ UNCHANGED <<top, bottom, array, item, notifierVars, numTasks, registered, counters,
                 topology, done, notified, runs>>

(* or the empty queues of the workers only.                                *)
GiveUp(w) ==
  /\ Step(w, "explore", "explored")
  /\ UNCHANGED <<queueVars, notifierVars, numTasks, registered, counters,
                 topology, done, notified, runs>>

(* The last thief to find a task wakes another in its place. *)
Found(w) ==
  /\ Step(w, "found", "exploit")
  /\ numThieves' = numThieves - 1
  /\ IF numThieves = 1 THEN NotifyOne(w) ELSE UNCHANGED notifierVars
  /\ UNCHANGED <<queueVars, numTasks, registered, numActives, topology, done,
                 notified, runs>>

-----------------------------------------------------------------------------
(* Workers: going to sleep *)

Prepare(w) ==
  /\ Step(w, "explored", "empty")
  /\ PrepareWait(w)
  /\ UNCHANGED <<queueVars, numTasks, registered, counters, topology, done,
                 notified, runs>>

LookAtQueue(w) ==
  /\ Step(w, "empty", "check")
  /\ ReadBottom(w)
  /\ UNCHANGED <<notifierVars, numTasks, registered, counters, topology, done,
                 notified, runs>>

(* Mutant: nobody looks at the queue again. *)
CheckNot(w) ==
  /\ Step(w, "check", "done")
  /\ Forget(w)
  /\ UNCHANGED <<top, bottom, array, item, notifierVars, numTasks, registered, counters,
                 topology, done, notified, runs>>

Check(w) ==
  /\ Step(w, "check", IF FoundEmpty(w) THEN "done" ELSE "nonempty")
  /\ Forget(w)
  /\ UNCHANGED <<top, bottom, array, item, notifierVars, numTasks, registered, counters,
                 topology, done, notified, runs>>

(* Mutant: the worker explores as before, elsewhere perhaps. *)
StealAgainLater(w) ==
  /\ Step(w, "nonempty", "explore")
  /\ CancelWait(w)
  /\ UNCHANGED <<queueVars, numTasks, registered, counters, topology, done,
                 notified, runs>>

(* There was a task: this time the worker has to try the shared queue. *)
StealAgain(w) ==
  /\ Step(w, "nonempty", "steal again")
  /\ CancelWait(w)
  /\ UNCHANGED <<queueVars, numTasks, registered, counters, topology, done,
                 notified, runs>>

CheckDone(w) ==
  /\ Step(w, "done", IF done THEN "leave" ELSE "last")
  /\ UNCHANGED <<queueVars, notifierVars, numTasks, registered, counters,
                 topology, done, notified, runs>>

(* The end of the executor is passed on to all others. *)
Leave(w) ==
  /\ Step(w, "leave", "pass on")
  /\ CancelWait(w)
  /\ UNCHANGED <<queueVars, numTasks, registered, counters, topology, done,
                 notified, runs>>

PassOn(w) ==
  /\ Step(w, "pass on", "exit")
  /\ NotifyAll(w)
  /\ UNCHANGED <<queueVars, numTasks, registered, counters, topology, done,
                 notified, runs>>

Exit(w) ==
  /\ Step(w, "exit", "exited")
  /\ numThieves' = numThieves - 1
  /\ UNCHANGED <<queueVars, notifierVars, numTasks, registered, numActives,
                 topology, done, notified, runs>>

LeaveThieves(w) ==
  /\ Step(w, "last", IF numThieves = 1 THEN "actives" ELSE "commit")
  /\ numThieves' = numThieves - 1
  /\ UNCHANGED <<queueVars, notifierVars, numTasks, registered, numActives,
                 topology, done, notified, runs>>

(* The last thief does not sleep while somebody works. *)
CheckActives(w) ==
  /\ Step(w, "actives", IF numActives > 0 THEN "stay" ELSE "commit")
  /\ UNCHANGED <<queueVars, notifierVars, numTasks, registered, counters,
                 topology, done, notified, runs>>

StayAwake(w) ==
  /\ Step(w, "stay", "idle")
  /\ CancelWait(w)
  /\ UNCHANGED <<queueVars, numTasks, registered, counters, topology, done,
                 notified, runs>>

Commit(w) ==
  /\ IsAt(w, "commit")
  /\ \/ CommitWait(w) /\ Goto(w, "park")
     \/ CommitReleased(w) /\ Goto(w, "idle")
  /\ UNCHANGED <<queueVars, numTasks, registered, counters, topology, done,
                 notified, runs>>

WakeUp(w) ==
  /\ Step(w, "park", "idle") /\ signaled[w]
  /\ UNCHANGED <<queueVars, notifierVars, numTasks, registered, counters,
                 topology, done, notified, runs>>

-----------------------------------------------------------------------------
(* Workers: running a task *)

Exploit(w) ==
  /\ Step(w, "exploit", IF numActives = 0 THEN "thieves" ELSE "invoke")
  /\ numActives' = numActives + 1
  /\ UNCHANGED <<queueVars, notifierVars, numTasks, registered, numThieves,
                 topology, done, notified, runs>>

(* The first to be active makes sure that there is a thief. *)
CheckThieves(w) ==
  /\ Step(w, "thieves", "invoke")
  /\ IF numThieves = 0 THEN NotifyOne(w) ELSE UNCHANGED notifierVars
  /\ UNCHANGED <<queueVars, numTasks, registered, counters, topology, done,
                 notified, runs>>

Invoke(w) ==
  /\ Step(w, "invoke", "tear down")
  /\ runs' = [runs EXCEPT ![item[w]] = @ + 1]
  /\ UNCHANGED <<queueVars, notifierVars, numTasks, registered, counters,
                 topology, done, notified>>

(* Mutant: the counter is read, and decremented, one too late. *)
TearDownInvokeEarly(w) ==
  /\ Step(w, "tear down", IF joinCounter <= 2 THEN "promise" ELSE "inactive")
  /\ joinCounter' = joinCounter - 1
  /\ UNCHANGED <<queueVars, notifierVars, numTasks, registered, counters,
                 numTopologies, promise, done, notified, runs>>

TearDownInvoke(w) ==
  /\ Step(w, "tear down", IF joinCounter = 1 THEN "promise" ELSE "inactive")
  /\ joinCounter' = joinCounter - 1
  /\ UNCHANGED <<queueVars, notifierVars, numTasks, registered, counters,
                 numTopologies, promise, done, notified, runs>>

(* The worker of the last task makes the future ready, *)
SetPromise(w) ==
  /\ Step(w, "promise", "topology")
  /\ promise' = TRUE
  /\ UNCHANGED <<queueVars, notifierVars, numTasks, registered, counters,
                 numTopologies, joinCounter, done, notified, runs>>

(* and ends the run, under the lock of wait_for_all. *)
TearDownTopology(w) ==
  /\ Step(w, "topology", "inactive")
  /\ numTopologies' = numTopologies - 1
  /\ UNCHANGED <<queueVars, notifierVars, numTasks, registered, counters,
                 joinCounter, promise, done, notified, runs>>

(* Mutant: the worker stays counted as active. *)
BecomeInactiveNot(w) ==
  /\ Step(w, "inactive", "idle")
  /\ item' = [item EXCEPT ![w] = Nil]
  /\ UNCHANGED <<top, bottom, array, seen, notifierVars, numTasks, registered,
                 counters, topology, done, notified, runs>>

(* The worker's own queue has no other task for it. *)
BecomeInactive(w) ==
  /\ Step(w, "inactive", "idle")
  /\ numActives' = numActives - 1
  /\ item' = [item EXCEPT ![w] = Nil]
  /\ UNCHANGED <<top, bottom, array, seen, notifierVars, numTasks, registered, numThieves,
                 topology, done, notified, runs>>

-----------------------------------------------------------------------------
(* The main thread *)

Spawned ==
  /\ Step(Main, "spawn", "run") /\ registered = Workers
  /\ UNCHANGED <<queueVars, notifierVars, numTasks, registered, counters,
                 topology, done, notified, runs>>

Run ==
  /\ Step(Main, "run", IF numTasks = 0 THEN "nothing" ELSE "push")
  /\ numTopologies' = numTopologies + 1
  /\ joinCounter' = numTasks
  /\ UNCHANGED <<queueVars, notifierVars, numTasks, registered, counters,
                 promise, done, notified, runs>>

(* An empty graph has run at once. *)
RunNothing ==
  /\ Step(Main, "nothing", "wait")
  /\ promise' = TRUE /\ numTopologies' = numTopologies - 1
  /\ UNCHANGED <<queueVars, notifierVars, numTasks, registered, counters,
                 joinCounter, done, notified, runs>>

Push ==
  /\ Step(Main, "push", "pushed")
  /\ PushItem(bottom + 1)
  /\ UNCHANGED <<notifierVars, numTasks, registered, counters, topology, done,
                 notified, runs>>

Pushed ==
  /\ Step(Main, "pushed", IF bottom + 1 = numTasks THEN "notify" ELSE "push")
  /\ PushBottom
  /\ UNCHANGED <<notifierVars, numTasks, registered, counters, topology, done,
                 notified, runs>>

(* notify_n: all the workers, or as many as there are tasks. *)
Notify ==
  /\ \/ /\ numTasks >= Cardinality(Workers) /\ Step(Main, "notify", "wait")
        /\ NotifyAll(Main) /\ UNCHANGED notified
     \/ /\ numTasks < Cardinality(Workers) /\ notified < numTasks
        /\ Step(Main, "notify", "notify")
        /\ NotifyOne(Main) /\ notified' = notified + 1
     \/ /\ numTasks < Cardinality(Workers) /\ notified = numTasks
        /\ Step(Main, "notify", "wait")
        /\ UNCHANGED <<notifierVars, notified>>
  /\ UNCHANGED <<queueVars, numTasks, registered, counters, topology, done,
                 runs>>

(* The future is ready: the encoder, the tasks and the graph are deleted. *)
Wait ==
  /\ Step(Main, "wait", "shutdown") /\ promise
  /\ UNCHANGED <<queueVars, notifierVars, numTasks, registered, counters,
                 topology, done, notified, runs>>

(* ~Executor waits for all runs, tells the workers to end, *)
Shutdown ==
  /\ Step(Main, "shutdown", "notify all") /\ numTopologies = 0
  /\ done' = TRUE
  /\ UNCHANGED <<queueVars, notifierVars, numTasks, registered, counters,
                 topology, notified, runs>>

NotifyDone ==
  /\ Step(Main, "notify all", "join")
  /\ NotifyAll(Main)
  /\ UNCHANGED <<queueVars, numTasks, registered, counters, topology, done,
                 notified, runs>>

(* and joins them.                                                         *)
Join ==
  /\ Step(Main, "join", "exited") /\ \A w \in Workers : IsAt(w, "exited")
  /\ UNCHANGED <<queueVars, notifierVars, numTasks, registered, counters,
                 topology, done, notified, runs>>

-----------------------------------------------------------------------------
Wake(t) ==
  /\ Unpark(t)
  /\ UNCHANGED <<queueVars, numTasks, pc, registered, counters, topology,
                 done, notified, runs>>

Worker(w) ==
  \/ Start(w) \/ BecomeThief(w)
  \/ Explore(w) \/ Steal(w) \/ TakeTask(w) \/ NothingToTake(w) \/ GiveUp(w)
  \/ Found(w)
  \/ Prepare(w) \/ LookAtQueue(w) \/ Check(w) \/ StealAgain(w)
  \/ CheckDone(w) \/ Leave(w) \/ PassOn(w) \/ Exit(w)
  \/ LeaveThieves(w) \/ CheckActives(w) \/ StayAwake(w)
  \/ Commit(w) \/ WakeUp(w)
  \/ Exploit(w) \/ CheckThieves(w) \/ Invoke(w) \/ TearDownInvoke(w)
  \/ SetPromise(w) \/ TearDownTopology(w) \/ BecomeInactive(w)
  \/ Wake(w)

MainThread ==
  \/ Spawned \/ Run \/ RunNothing \/ Push \/ Pushed \/ Notify
  \/ Wait \/ Shutdown \/ NotifyDone \/ Join
  \/ Wake(Main)

Ended == pc[Main] = "exited" /\ UNCHANGED vars

Next == (\E w \in Workers : Worker(w)) \/ MainThread \/ Ended

(* Every thread keeps running. *)
Spec ==
  /\ Init /\ [][Next]_vars
  /\ \A w \in Workers : WF_vars(Worker(w))
  /\ WF_vars(MainThread)

-----------------------------------------------------------------------------
(* Properties *)

(* The variables have their types, and no more workers are counted as      *)
(* thieves or as active than there are.                                    *)
ExecutorTypeOK ==
  /\ numTasks \in 0 .. MaxTasks
  /\ pc \in [Threads -> Places]
  /\ top \in Nat /\ bottom \in Nat
  /\ \E n \in Nat \ {0} : array \in [0 .. n - 1 -> Tasks \cup {Nil}]
  /\ seen \in [Workers -> Nat] /\ item \in [Workers -> Tasks \cup {Nil}]
  /\ registered \subseteq Workers
  /\ numThieves \in 0 .. Cardinality(Workers)
  /\ numActives \in 0 .. Cardinality(Workers)
  /\ numTopologies \in {0, 1} /\ joinCounter \in Nat
  /\ promise \in BOOLEAN /\ done \in BOOLEAN
  /\ notified \in 0 .. MaxTasks
  /\ runs \in [1 .. MaxTasks -> Nat]

MainIsAt(places) == pc[Main] \in places

(* The tasks the workers are at, from the moment one has taken it from the *)
(* queue until it has taken it off the topology's counter.                 *)
InHand(w) == pc[w] \in {"found", "exploit", "thieves", "invoke", "tear down"}

TasksInHand == { item[w] : w \in { v \in Workers : InHand(v) } }

(* The abstract pool: a task waits until a worker has taken it. *)
Pool == INSTANCE TaskPool WITH
  Tasks <- 1 .. MaxTasks,
  NoTask <- Nil,
  waiting <- { k \in Tasks : runs[k] = 0 /\ k \notin TasksInHand },
  running <- [w \in Workers |-> IF InHand(w) THEN item[w] ELSE Nil],
  returned <- MainIsAt({"shutdown", "notify all", "join", "exited"})

(* The executor implements TaskPool: however the thieves race for the items*)
(* of a queue whose array is being replaced, no task is lost or run twice, *)
(* and wait() returns only when all have run.                              *)
ImplementsPool == Pool!Spec

(* After wait() the main thread destroys the graph and the encoder, while  *)
(* the worker of the last task is still on its way: no worker is where it  *)
(* touches a task or the topology any more.                                *)
NothingUsedAfterWait ==
  MainIsAt({"shutdown", "notify all", "join", "exited"}) =>
    \A w \in Workers :
      pc[w] \notin {"found", "exploit", "thieves", "invoke", "tear down",
                    "promise"}

(* A worker that has found the queue empty and will sleep, unless somebody *)
(* releases it first.                                                      *)
AboutToSleep(w) ==
  /\ Contains(announced, w)
  /\ \/ pc[w] = "check" /\ FoundEmpty(w)
     \/ pc[w] \in {"done", "last", "actives", "commit"}

(* Tasks never wait for workers that all sleep: once the main thread has   *)
(* notified, and while the queue holds a task, some worker is neither      *)
(* asleep nor on its way there, or is being woken.                         *)
NoLostWakeUp ==
  top < bottom /\ MainIsAt({"wait", "shutdown"}) =>
    \/ waking[Main] # <<>>
    \/ \E w \in Workers :
         IF pc[w] = "park" THEN signaled[w] ELSE ~AboutToSleep(w)

(* notifier.hpp:90-93: when the executor is destroyed there are no waiters,*)
(* and no thief and no active worker is counted.                           *)
QuietAtEnd ==
  pc[Main] = "exited" =>
    /\ announced = <<>> /\ sleepers = <<>>
    /\ numThieves = 0 /\ numActives = 0

(* The run comes to an end: no notification is lost on the way, neither    *)
(* that there are tasks nor that there will be none.                       *)
AllJoined == <>(pc[Main] = "exited")

=============================================================================
