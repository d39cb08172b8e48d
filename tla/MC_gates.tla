------------------------------ MODULE MC_gates ------------------------------
(* Requests are interchangeable, and so are runs of bootstrap. *)
EXTENDS Approvals, TLC

Interchangeable == Permutations(Requests) \union Permutations(Bootstraps)
=============================================================================
