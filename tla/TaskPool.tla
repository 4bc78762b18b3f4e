------------------------------ MODULE TaskPool ------------------------------
(***************************************************************************)
(* What iobench expects of the executor (src/src/iobench.cpp, run): every  *)
(* task it submits is run by some worker, one at a time for each worker,   *)
(* never twice and in no particular order, and wait() returns when all of  *)
(* them are over.  Executor implements it; ParallelEncode is built on it   *)
(* (TakeStrip, EndTask and MainDrain).                                     *)
(***************************************************************************)
CONSTANTS
  Workers,
  Tasks,       \* the tasks that may be submitted
  NoTask       \* not one of them

VARIABLES
  waiting,     \* tasks that have not begun
  running,     \* per worker: its task
  returned     \* wait() has returned

vars == <<waiting, running, returned>>

Init ==
  /\ waiting \in SUBSET Tasks
  /\ running = [w \in Workers |-> NoTask]
  /\ returned = FALSE

Begin(w) ==
  /\ running[w] = NoTask
  /\ \E t \in waiting : /\ waiting' = waiting \ {t}
                        /\ running' = [running EXCEPT ![w] = t]
  /\ UNCHANGED returned

End(w) ==
  /\ running[w] # NoTask
  /\ running' = [running EXCEPT ![w] = NoTask]
  /\ UNCHANGED <<waiting, returned>>

Return ==
  /\ waiting = {} /\ \A w \in Workers : running[w] = NoTask
  /\ returned' = TRUE
  /\ UNCHANGED <<waiting, running>>

Next == (\E w \in Workers : Begin(w) \/ End(w)) \/ Return

Spec == Init /\ [][Next]_vars

=============================================================================
