------------------------- MODULE MCApprovalService -------------------------
(* TLC instance of ApprovalService: interchangeable requests. *)
EXTENDS ApprovalService, TLC

RequestSymmetry == Permutations(Requests)
=============================================================================
