---------------------------- MODULE MC_promotion ----------------------------
(* Circumstances in which Promotion is checked. *)
EXTENDS Promotion

CONSTANTS s1, s2, c1, c2, a1

BothStages == {s1, s2}
BothCalls  == {c1, c2}
OneDecision == {a1}

\* Two calls for the execution of one stage, with a sweep, statements that raise and
\* a crash.
Duplicates ==
  [stages |-> {s1}, calls |-> {c1, c2}, approvals |-> {}, claims |-> 1, replans |-> 0,
   crashes |-> 1, operators |-> 0, parts |-> {"sweep", "raise"}]

\* A call that comes late, when its stage is executed again.
Late ==
  [Duplicates EXCEPT !.calls = {c1}, !.claims = 2, !.operators = 1, !.crashes = 0]

\* The same across a crash, which leaves rows claimed that nobody works on.
Restarted == [Late EXCEPT !.crashes = 1, !.parts = {}]

\* Executions that are completed without a promotion, by a worker or an operator.
Bypassed == [Late EXCEPT !.parts = {"complete", "raise"}]

\* The worktree is removed while a call works in it.
Removed == [Duplicates EXCEPT !.parts = {"sweep", "remove", "raise"}, !.crashes = 0]

\* A replan while executions of its stage are under way.
Replanned == [Late EXCEPT !.replans = 1, !.operators = 0, !.parts = {"raise"}]

\* Two replans of two stages while a decision is recorded, with a crash.
Revoked ==
  [Duplicates EXCEPT !.stages = {s1, s2}, !.calls = {}, !.approvals = {a1},
                     !.claims = 0, !.replans = 2]

\* Two stages promote into the main tree at the same time.
Neighbours ==
  [Duplicates EXCEPT !.stages = {s1, s2}, !.claims = 2, !.crashes = 0, !.parts = {}]

AllLimits ==
  {Duplicates, Late, Restarted, Bypassed, Removed, Replanned, Revoked, Neighbours}
=============================================================================
