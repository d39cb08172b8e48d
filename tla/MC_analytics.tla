---------------------------- MODULE MC_analytics ----------------------------
(* Small instances of Analytics: all redirects ask for one short code.       *)
EXTENDS Analytics, TLC

CONSTANT code

OneCode == [e \in Events |-> code]

\* Requests for the same code are interchangeable.
RequestSymmetry == Permutations(Events)
=============================================================================
