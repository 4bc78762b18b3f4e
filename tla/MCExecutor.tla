----------------------------- MODULE MCExecutor -----------------------------
(***************************************************************************)
(* Executor with a queue that has to grow.                                 *)
(***************************************************************************)
EXTENDS Executor

MCThreads == Workers \cup {Main}

=============================================================================
