--------------------------- MODULE MCOrderMonitor ---------------------------
(* TLC instance of OrderMonitor: interchangeable runs. *)
EXTENDS OrderMonitor, TLC

RunSymmetry == Permutations(Runs)
=============================================================================
