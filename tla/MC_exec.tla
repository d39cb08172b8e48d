------------------------------ MODULE MC_exec ------------------------------
(* Small instances of StageExecution: a chain of two stages, or one stage.  *)
EXTENDS StageExecution, TLC

CONSTANTS first, second

\* second depends on first; if it is given up, first is run again.
ChainStages   == {first, second}
ChainDeps     == [s \in ChainStages |-> IF s = second THEN {first} ELSE {}]
ChainFallback == [s \in ChainStages |-> IF s = second THEN first ELSE Null]

OneStage   == {first}
NoDeps     == [s \in OneStage |-> {}]
NoFallback == [s \in OneStage |-> Null]

\* Operators are interchangeable; workers are not, as they may differ in their
\* transactions. Used by runs of safety properties only.
OperatorSymmetry == Permutations(Operators)
=============================================================================
