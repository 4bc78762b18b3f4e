------------------------------ MODULE Notifier ------------------------------
(***************************************************************************)
(* The event count that idle threads of the executor sleep on              *)
(* (taskflow/core/notifier.hpp).  A thread announces that it may go to     *)
(* sleep, looks once more for a reason not to, and then either cancels or  *)
(* commits.  The announced threads decide one after the other, in the      *)
(* order of their announcements, except those a notification releases.     *)
(*                                                                         *)
(* The code packs all this into one word: a stack of sleepers, the number  *)
(* of announced threads and an epoch, which every decision increments; a   *)
(* thread draws the epoch of its turn.  Here the announced threads are a   *)
(* sequence: it is the thread's turn when it is the first, and the thread  *)
(* has been released when it is no longer there.  (The epoch's 32 bits do  *)
(* not wrap.)  Each change of the word is a compare-and-exchange and one   *)
(* step here; waking the threads it removed takes a step for each.         *)
(***************************************************************************)
EXTENDS Sequences, SequencesExt

CONSTANTS
  Waiters,     \* threads that may sleep
  Threads      \* threads that may notify

VARIABLES
  announced,   \* threads between prepare_wait and their decision, in order
  sleepers,    \* the stack of threads that have committed
  signaled,    \* per waiter: its state is kSignaled
  waking       \* per thread: sleepers it has removed and is still to wake

notifierVars == <<announced, sleepers, signaled, waking>>

NotifierInit ==
  /\ announced = <<>> /\ sleepers = <<>>
  /\ signaled = [w \in Waiters |-> FALSE]
  /\ waking = [t \in Threads |-> <<>>]

PrepareWait(w) ==
  /\ announced' = Append(announced, w)
  /\ UNCHANGED <<sleepers, signaled, waking>>

Released(w) == ~Contains(announced, w)

IsTurn(w) == announced # <<>> /\ Head(announced) = w

CancelWait(w) ==
  /\ \/ IsTurn(w) /\ announced' = Tail(announced)
     \/ Released(w) /\ UNCHANGED announced
  /\ UNCHANGED <<sleepers, signaled, waking>>

(* commit_wait of a thread that a notification has released returns. *)
CommitReleased(w) == Released(w) /\ UNCHANGED notifierVars

CommitWait(w) ==
  /\ IsTurn(w)
  /\ announced' = Tail(announced)
  /\ sleepers' = <<w>> \o sleepers
  /\ signaled' = [signaled EXCEPT ![w] = FALSE]
  /\ UNCHANGED waking

(* notify(true) *)
NotifyAll(t) ==
  /\ announced' = <<>> /\ sleepers' = <<>>
  /\ waking' = [waking EXCEPT ![t] = sleepers]
  /\ UNCHANGED signaled

(* notify(false): an announced thread first, then a sleeper. *)
NotifyOne(t) ==
  IF announced # <<>>
  THEN /\ announced' = Tail(announced)
       /\ UNCHANGED <<sleepers, signaled, waking>>
  ELSE IF sleepers # <<>>
  THEN /\ sleepers' = Tail(sleepers)
       /\ waking' = [waking EXCEPT ![t] = <<Head(sleepers)>>]
       /\ UNCHANGED <<announced, signaled>>
  ELSE UNCHANGED notifierVars

(* _unpark *)
Unpark(t) ==
  /\ waking[t] # <<>>
  /\ signaled' = [signaled EXCEPT ![Head(waking[t])] = TRUE]
  /\ waking' = [waking EXCEPT ![t] = Tail(@)]
  /\ UNCHANGED <<announced, sleepers>>

=============================================================================
