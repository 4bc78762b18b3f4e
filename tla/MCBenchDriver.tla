--------------------------- MODULE MCBenchDriver ---------------------------
(***************************************************************************)
(* BenchDriver on machines with few threads, with as many as a byte can    *)
(* count, and with more.                                                   *)
(***************************************************************************)
EXTENDS BenchDriver

MCMachines == {0, 1, 2, 7, 253, 254, 255, 300}

MCConcurrencies == {0, 1, 300}

=============================================================================
