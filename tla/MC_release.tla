----------------------------- MODULE MC_release -----------------------------
(* Two policies that can fail; evaluators are interchangeable. *)
EXTENDS PolicyGate, TLC

TwoPolicies == <<"change-control", "dependency-secret-scan">>

Interchangeable == Permutations(Evaluators)
=============================================================================
