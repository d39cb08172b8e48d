----------------------------- MODULE Promotion ------------------------------
(***************************************************************************)
(* Promotion of an execution's worktree into the main tree, and the        *)
(* replanning that supersedes it: orchestration/workspace.py,              *)
(* orchestration/validators.py, orchestration/replanning.py.               *)
(*                                                                         *)
(* promote_or_reject reads the row and the revision, validates for as long *)
(* as it takes, and then writes, in statements that commit one by one.     *)
(* Meanwhile a lease may expire, another call may promote or complete the  *)
(* same execution, its worktree may be removed, an operator may reconcile  *)
(* or retry the stage, and a replan may reset it to a new revision.        *)
(*                                                                         *)
(* Any statement may raise: what is written stays, and the rest of the     *)
(* call is not done.  The counting of attempts is in StageExecution.       *)
(***************************************************************************)
EXTENDS Integers, FiniteSets

CONSTANTS
  Stages,
  Files,       \* names of files, in a worktree and in the main tree
  Tracked,     \* those in HEAD, which every new worktree contains
  Artifact,    \* the file that the validators look at
  Calls,       \* callers of promote_or_reject
  Approvals,   \* approval decisions that may be recorded
  NoFile,      \* content of a file that does not exist
  Head,        \* content of a tracked file as committed
  Torn,        \* content of a file whose copying was broken off
  MaxClaims,   \* bound: executions of all stages
  MaxReplans,  \* bound: calls of invalidate_downstream
  MaxCrashes,  \* bound: crashes of the process
  Limits       \* the combinations of lower bounds to consider

Executions == Stages \X (1..MaxClaims)

ASSUME PromotionAssumption ==
  /\ Tracked \subseteq Files
  /\ Artifact \in Files
  /\ NoFile # Head /\ NoFile # Torn
  /\ {NoFile, Head, Torn} \intersect Executions = {}
  /\ MaxClaims \in Nat
  /\ MaxReplans \in Nat
  /\ MaxCrashes \in Nat
  /\ Limits \subseteq [stages : SUBSET Stages, calls : SUBSET Calls,
                       approvals : SUBSET Approvals, claims : 0..MaxClaims,
                       replans : 0..MaxReplans,
                       crashes : 0..MaxCrashes, operators : Nat,
                       parts : SUBSET {"sweep", "complete", "remove", "raise"}]

Revisions == 1..(MaxReplans + 1)  \* 1 is "v1"
Contents  == {NoFile, Head, Torn} \union Executions  \* or the execution that wrote it

VARIABLES
  status,    \* orchestration_workflow_stage.status
  rev,       \* orchestration_workflow_stage.artifact_revision
  claiming,  \* executions between the two statements of claim_stage
  row,       \* orchestration_stage_execution.status, "none" before INSERT
  space,     \* the worktree of each execution
  main,      \* the files of the main tree
  approval,  \* orchestration_approval_decision: none, valid, or invalidated
  acked,     \* executions between the two statements of complete_stage
  call,      \* the statement each promotion is at, and its local variables
  sweep,     \* the same for the sweep of expired leases
  operator,  \* what reconcile_stage and issue_retry_or_exhaust are about to write
  replan,    \* and for the replan
  limit,     \* the bounds of this behavior
  up,        \* the process is running
  crashes,   \* number of crashes so far
  replans,   \* number of replans so far
  won,       \* history: how often the promotion of each execution was decided
  whole,     \* history: executions whose promotion ended with a success
  cut,       \* history: those whose worktree began to vanish before that
  bypassed,  \* history: stages that succeeded last without a promotion
  dropped,   \* history: stages left by a client that raised since their claim
  due,       \* history: approvals that the replan in hand has to invalidate
  belated    \* history: promotions that began when their stage had been replanned

stageVars == <<status, rev, claiming>>
dbVars    == <<stageVars, row, approval>>
fileVars  == <<space, main>>
others    == <<acked, sweep, operator, replan>>  \* all clients but the calls
clients   == <<call, others>>
envVars   == <<limit, up, crashes, replans>>
outVars   == <<won, whole, cut, due, belated>>
histVars  == <<outVars, bypassed, dropped>>
vars == <<dbVars, fileVars, clients, envVars, histVars>>

CallPc == {"idle", "revision", "validate", "decide", "demote", "list", "copy"}
NoRow  == <<>>

CallState ==
  [pc     : CallPc,
   row    : Executions \union {NoRow},
   fenced : BOOLEAN,          \* fenced_ok
   match  : BOOLEAN,          \* revision_ok
   passed : BOOLEAN,          \* validator_result.passed
   todo   : SUBSET Files]     \* files left to copy

IdleCall == [pc |-> "idle", row |-> NoRow, fenced |-> FALSE, match |-> FALSE,
             passed |-> FALSE, todo |-> {}]

SweepState == [pc : {"idle", "abandon", "move", "ended"}, row : Executions \union {NoRow}]
IdleSweep  == [pc |-> "idle", row |-> NoRow]

ReplanState ==
  [pc     : {"idle", "reset", "approvals", "invalidate", "worktrees", "abandon"},
   stages : SUBSET Stages,     \* affected_stage_ids left to reset
   trees  : SUBSET Stages,     \* stages left for invalidate_worktree
   found  : SUBSET Approvals,  \* approvals selected for the stage in hand
   row    : Executions \union {NoRow}]

IdleReplan == [pc |-> "idle", stages |-> {}, trees |-> {}, found |-> {}, row |-> NoRow]

OperatorWrites ==
  Stages \X {"failed_transient", "succeeded", "ready", "failed_permanent"}

NoSpace == [state |-> "none", expected |-> 1, written |-> {}, gone |-> {}]

Init ==
  /\ limit \in Limits
  /\ status = [s \in Stages |-> "pending"]
  /\ rev = [s \in Stages |-> 1]
  /\ claiming = {}
  /\ row = [x \in Executions |-> "none"]
  /\ space = [x \in Executions |-> NoSpace]
  /\ main = [f \in Files |-> IF f \in Tracked THEN Head ELSE NoFile]
  /\ approval = [a \in Approvals |-> "none"]
  /\ acked = {}
  /\ call = [c \in Calls |-> IdleCall]
  /\ sweep = IdleSweep
  /\ operator = {}
  /\ replan = IdleReplan
  /\ up = TRUE
  /\ crashes = 0
  /\ replans = 0
  /\ won = [x \in Executions |-> 0]
  /\ whole = {}
  /\ cut = {}
  /\ bypassed = {}
  /\ dropped = {}
  /\ due = {}
  /\ belated = {}

Live(x) == row[x] = "claimed"
At(c, pc) == up /\ call[c].pc = pc
Return(c) == call' = [call EXCEPT ![c] = IdleCall]

-----------------------------------------------------------------------------
(* A stage is made ready, claimed, and executed in a worktree of its own *)

\* compute_ready_stages and mark_ready: which stages depend on it does not matter.
MarkReady(s) ==
  /\ up
  /\ s \in limit.stages
  /\ status[s] = "pending"
  /\ status' = [status EXCEPT ![s] = "ready"]
  /\ UNCHANGED <<rev, claiming, row, approval, fileVars, clients, envVars, histVars>>

Used == {x \in Executions : row[x] # "none"} \union claiming

ClaimSwap(x) ==
  /\ up
  /\ status[x[1]] = "ready"
  /\ x[2] = 1 \/ <<x[1], x[2] - 1>> \in Used
  /\ \A y \in Used : y[1] = x[1] => y[2] < x[2]
  /\ Cardinality(Used) < limit.claims
  /\ status' = [status EXCEPT ![x[1]] = "running"]
  /\ claiming' = claiming \union {x}
  /\ dropped' = dropped \ {x[1]}
  /\ UNCHANGED <<rev, row, approval, fileVars, clients, envVars, outVars, bypassed>>

ClaimInsert(x) ==
  /\ up
  /\ x \in claiming
  /\ row[x] = "none"  \* the id is a new uuid
  /\ row' = [row EXCEPT ![x] = "claimed"]
  /\ claiming' = claiming \ {x}
  /\ UNCHANGED <<status, rev, approval, fileVars, clients, envVars, histVars>>

\* The INSERT raises, and the stage is running without a row.
ClaimRaises(x) ==
  /\ up
  /\ "raise" \in limit.parts
  /\ x \in claiming
  /\ claiming' = claiming \ {x}
  /\ dropped' = dropped \union {x[1]}
  /\ UNCHANGED <<status, rev, row, approval, fileVars, clients, envVars, outVars,
                 bypassed>>

\* create_worktree; the worker notes the revision it works for, and writes any of
\* the files.
CreateWorktree(x) ==
  /\ up
  /\ row[x] # "none"
  /\ space[x].state = "none"
  /\ \E fs \in SUBSET Files :
       space' = [space EXCEPT ![x] = [state |-> "worked", expected |-> rev[x[1]],
                                      written |-> fs, gone |-> {}]]
  /\ UNCHANGED <<dbVars, main, clients, envVars, histVars>>

Content(x, f) ==
  CASE f \in space[x].gone -> NoFile
    [] f \notin space[x].gone /\ f \in space[x].written -> x
    [] f \notin space[x].gone /\ f \notin space[x].written ->
         IF f \in Tracked THEN Head ELSE NoFile

Present(x) == {f \in Files : Content(x, f) # NoFile}

\* Files vanish one by one while the worktree is removed, whatever else is going on
\* in it, ...
RemoveFile(x) ==
  /\ up
  /\ "remove" \in limit.parts
  /\ space[x].state = "worked"
  /\ \E f \in Present(x) : space' = [space EXCEPT ![x].gone = @ \union {f}]
  /\ cut' = IF x \in whole THEN cut ELSE cut \union {x}
  /\ UNCHANGED <<dbVars, main, clients, envVars, won, whole, due, belated, bypassed,
                 dropped>>

\* ... and then the directory.  A removal that is broken off goes no further.
RemoveWorktree(x) ==
  /\ up
  /\ "remove" \in limit.parts
  /\ space[x].state = "worked"
  /\ Present(x) = {}
  /\ space' = [space EXCEPT ![x].state = "removed"]
  /\ cut' = IF x \in whole THEN cut ELSE cut \union {x}
  /\ UNCHANGED <<dbVars, main, clients, envVars, won, whole, due, belated, bypassed,
                 dropped>>

-----------------------------------------------------------------------------
(* complete_stage, for a worker that is not promoted: no validation *)

CompleteRow(x) ==
  /\ up
  /\ "complete" \in limit.parts
  /\ Live(x)
  /\ row' = [row EXCEPT ![x] = "completed"]
  /\ acked' = acked \union {x}
  /\ UNCHANGED <<stageVars, approval, fileVars, call, sweep, operator, replan, envVars,
                 histVars>>

CompleteStage(x) ==
  /\ up
  /\ x \in acked
  /\ status' = [status EXCEPT ![x[1]] = "succeeded"]
  /\ acked' = acked \ {x}
  /\ bypassed' = bypassed \union {x[1]}
  /\ UNCHANGED <<rev, claiming, row, approval, fileVars, call, sweep, operator, replan,
                 envVars, outVars, dropped>>

CompleteRaises(x) ==
  /\ up
  /\ "raise" \in limit.parts
  /\ x \in acked
  /\ acked' = acked \ {x}
  /\ dropped' = dropped \union {x[1]}
  /\ UNCHANGED <<dbVars, fileVars, call, sweep, operator, replan, envVars, outVars,
                 bypassed>>

-----------------------------------------------------------------------------
(* reconcile_stage and issue_retry_or_exhaust: a SELECT, and an UPDATE that does *)
(* not look at the status again                                                  *)

OperatorReads(s, outcomes) ==
  /\ up
  /\ Cardinality(operator) < limit.operators
  /\ \E to \in outcomes : operator' = operator \union {<<s, to>>}
  /\ UNCHANGED <<dbVars, fileVars, call, acked, sweep, replan, envVars, histVars>>

\* What the probe of an uncertain stage says is up to the environment.
Reconcile(s) ==
  /\ status[s] \in {"running", "awaiting_reconciliation"}
  /\ OperatorReads(s, {"failed_transient", "succeeded"})

\* Whether the attempts are spent is left open here.
Retry(s) ==
  /\ status[s] = "failed_transient"
  /\ OperatorReads(s, {"ready", "failed_permanent"})

OperatorWrite(s, to) ==
  /\ up
  /\ <<s, to>> \in operator
  /\ status' = [status EXCEPT ![s] = to]
  /\ operator' = operator \ {<<s, to>>}
  /\ bypassed' = IF to = "succeeded" THEN bypassed \union {s} ELSE bypassed
  /\ UNCHANGED <<rev, claiming, row, approval, fileVars, call, acked, sweep, replan,
                 envVars, outVars, dropped>>

OperatorRaises(s, to) ==
  /\ up
  /\ "raise" \in limit.parts
  /\ <<s, to>> \in operator
  /\ operator' = operator \ {<<s, to>>}
  /\ UNCHANGED <<dbVars, fileVars, call, acked, sweep, replan, envVars, histVars>>

-----------------------------------------------------------------------------
(* promote_or_reject *)

Superseded(x) == rev[x[1]] # space[x].expected

RevisionNotNewer(x) == rev[x[1]] >= space[x].expected  \* mutant

RevisionMatches(x) == ~Superseded(x)

SelectRow(c, x) ==
  /\ At(c, "idle")
  /\ c \in limit.calls
  /\ space[x].state \in {"worked", "removed"}
  /\ call' = [call EXCEPT ![c] = [IdleCall EXCEPT !.pc = "revision", !.row = x,
                                                  !.fenced = Live(x)]]
  /\ belated' = IF Superseded(x) THEN belated \union {c} ELSE belated \ {c}
  /\ UNCHANGED <<dbVars, fileVars, others, envVars, won, whole, cut, due, bypassed,
                 dropped>>

SelectRevision(c) ==
  /\ At(c, "revision")
  /\ call' = [call EXCEPT ![c].pc = "validate", ![c].match = RevisionMatches(call[c].row)]
  /\ UNCHANGED <<dbVars, fileVars, others, envVars, histVars>>

\* run_builtin_validator.  content_equals fails a file with other content than
\* the worker was to write; that no validator ran is a failure.
ValidatorPasses(name, x) ==
  \/ name = "file_exists" /\ Content(x, Artifact) # NoFile
  \/ name = "content_equals" /\ Content(x, Artifact) = x

Validate(c) ==
  /\ At(c, "validate")
  /\ \E name \in {"file_exists", "content_equals", "no_validator_ran"} :
       call' = [call EXCEPT ![c].pc = "decide",
                            ![c].passed = ValidatorPasses(name, call[c].row)]
  /\ UNCHANGED <<dbVars, fileVars, others, envVars, histVars>>

\* The row was not claimed when it was read; it may be completed by now.
RejectFenced(c) ==
  /\ At(c, "decide")
  /\ ~call[c].fenced
  /\ row' = [row EXCEPT ![call[c].row] = "abandoned"]
  /\ Return(c)
  /\ UNCHANGED <<stageVars, approval, fileVars, others, envVars, histVars>>

RejectRevision(c) ==
  /\ At(c, "decide")
  /\ call[c].fenced
  /\ ~call[c].match
  /\ row' = [row EXCEPT ![call[c].row] = "failed"]
  /\ Return(c)
  /\ UNCHANGED <<stageVars, approval, fileVars, others, envVars, histVars>>

PassedAtAll(c) == TRUE  \* mutant

Passed(c) == call[c].passed

RejectInvalid(c) ==
  /\ At(c, "decide")
  /\ call[c].fenced
  /\ call[c].match
  /\ ~Passed(c)
  /\ row' = [row EXCEPT ![call[c].row] = "failed"]
  /\ call' = [call EXCEPT ![c].pc = "demote"]
  /\ UNCHANGED <<stageVars, approval, fileVars, others, envVars, histVars>>

\* UPDATE of the stage, whatever has become of it.
Demote(c) ==
  /\ At(c, "demote")
  /\ status' = [status EXCEPT ![call[c].row[1]] = "failed_transient"]
  /\ Return(c)
  /\ UNCHANGED <<rev, claiming, row, approval, fileVars, others, envVars, histVars>>

Promotable(c) == At(c, "decide") /\ call[c].fenced /\ call[c].match /\ Passed(c)

AlwaysLive(x) == TRUE  \* mutant

StillLive(x) == Live(x)

\* The compare-and-swap, "a late/duplicate call affects 0 rows".
Complete(c) ==
  LET x == call[c].row IN
  /\ Promotable(c)
  /\ StillLive(x)
  /\ row' = [row EXCEPT ![x] = "completed"]
  /\ won' = [won EXCEPT ![x] = @ + 1]
  /\ call' = [call EXCEPT ![c].pc = "list"]
  /\ UNCHANGED <<stageVars, approval, fileVars, others, envVars, whole, cut, due,
                 belated, bypassed, dropped>>

TooLate(c) ==
  /\ Promotable(c)
  /\ ~StillLive(call[c].row)
  /\ Return(c)
  /\ UNCHANGED <<dbVars, fileVars, others, envVars, histVars>>

\* iterdir reads the directory at once, without a directory it raises.  Also the
\* files the worker has not touched are copied.
ListFiles(c) ==
  /\ At(c, "list")
  /\ space[call[c].row].state = "worked"
  /\ call' = [call EXCEPT ![c].pc = "copy", ![c].todo = Present(call[c].row)]
  /\ UNCHANGED <<dbVars, fileVars, others, envVars, histVars>>

CopyFile(c) ==
  /\ At(c, "copy")
  /\ \E f \in call[c].todo \intersect Present(call[c].row) :
       /\ main' = [main EXCEPT ![f] = Content(call[c].row, f)]
       /\ call' = [call EXCEPT ![c].todo = @ \ {f}]
  /\ UNCHANGED <<dbVars, space, others, envVars, histVars>>

MayBeCopying(c) == TRUE  \* mutant

Copied(c) == call[c].todo = {}

Succeed(c) ==
  /\ At(c, "copy")
  /\ Copied(c)
  /\ status' = [status EXCEPT ![call[c].row[1]] = "succeeded"]
  /\ whole' = whole \union {call[c].row}
  /\ bypassed' = bypassed \ {call[c].row[1]}
  /\ Return(c)
  /\ UNCHANGED <<rev, claiming, row, approval, fileVars, others, envVars, won, cut, due,
                 belated, dropped>>

\* What has to be listed or copied is not there any more.
Missing(c) ==
  \/ call[c].pc = "list" /\ space[call[c].row].state = "removed"
  \/ call[c].pc = "copy" /\ ~(call[c].todo \subseteq Present(call[c].row))

\* Calls that have written the row, and not yet the stage.
MovingOn == {"demote", "list", "copy"}

Drop(c) ==
  dropped' = IF call[c].pc \in MovingOn THEN dropped \union {call[c].row[1]} ELSE dropped

\* The statement, the validator or the copy that a call has come to raises.
Raises(c) ==
  /\ up
  /\ call[c].pc # "idle"
  /\ "raise" \in limit.parts \/ Missing(c)
  /\ Return(c)
  /\ Drop(c)
  /\ UNCHANGED <<dbVars, fileVars, others, envVars, outVars, bypassed>>

\* A copy raises when it has written a part of the file.
CopyBreaksOff(c) ==
  /\ At(c, "copy")
  /\ "raise" \in limit.parts
  /\ \E f \in call[c].todo : main' = [main EXCEPT ![f] = Torn]
  /\ Return(c)
  /\ Drop(c)
  /\ UNCHANGED <<dbVars, space, others, envVars, outVars, bypassed>>

-----------------------------------------------------------------------------
(* sweep_stale_leases *)

SweepSelect(x) ==
  /\ up
  /\ "sweep" \in limit.parts
  /\ sweep.pc = "idle"
  /\ Live(x)
  /\ sweep' = [pc |-> "abandon", row |-> x]
  /\ UNCHANGED <<dbVars, fileVars, call, acked, operator, replan, envVars, histVars>>

SweepAbandon ==
  /\ up
  /\ sweep.pc = "abandon"
  /\ row' = [row EXCEPT ![sweep.row] = "abandoned"]
  /\ sweep' = [sweep EXCEPT !.pc = "move"]
  /\ UNCHANGED <<stageVars, approval, fileVars, call, acked, operator, replan, envVars,
                 histVars>>

SweepMove ==
  /\ up
  /\ sweep.pc = "move"
  /\ status' = [status EXCEPT ![sweep.row[1]] =
                  IF @ = "running" THEN "awaiting_reconciliation" ELSE @]
  /\ sweep' = IdleSweep
  /\ UNCHANGED <<rev, claiming, row, approval, fileVars, call, acked, operator, replan,
                 envVars, histVars>>

\* The loop around the sweep does not come back before the next start.
SweepRaises ==
  /\ up
  /\ "raise" \in limit.parts
  /\ sweep.pc \in {"abandon", "move"}
  /\ sweep' = [pc |-> "ended", row |-> NoRow]
  /\ dropped' = IF sweep.pc = "move" THEN dropped \union {sweep.row[1]} ELSE dropped
  /\ UNCHANGED <<dbVars, fileVars, call, acked, operator, replan, envVars, outVars,
                 bypassed>>

-----------------------------------------------------------------------------
(* approve_gate, invalidate_downstream, and then invalidate_worktree for each *)
(* stage                                                                      *)

\* The revision that every decision is bound to, "v1" (_current_artifact_revision).
Bound == 1

Approve(a) ==
  /\ up
  /\ a \in limit.approvals
  /\ approval[a] = "none"
  /\ approval' = [approval EXCEPT ![a] = "valid"]
  /\ UNCHANGED <<stageVars, row, fileVars, clients, envVars, histVars>>

ReplanBegin ==
  /\ up
  /\ replan.pc = "idle"
  /\ replans < limit.replans
  /\ \E affected \in (SUBSET limit.stages) \ {{}} :
       /\ replan' = [IdleReplan EXCEPT !.pc = "reset", !.stages = affected,
                                       !.trees = affected]
       /\ due' = {a \in Approvals :
                    approval[a] = "valid" /\ \E s \in affected : rev[s] = Bound}
  /\ replans' = replans + 1
  /\ UNCHANGED <<dbVars, fileVars, call, acked, sweep, operator, limit, up, crashes, won,
                 whole, cut, belated, bypassed, dropped>>

\* Whatever the stage is doing, it goes back to pending, with the new revision.
ResetStage ==
  /\ up
  /\ replan.pc = "reset"
  /\ \E s \in replan.stages :
       /\ status' = [status EXCEPT ![s] = "pending"]
       /\ rev' = [rev EXCEPT ![s] = replans + 1]
       /\ replan' = [replan EXCEPT !.pc = "approvals", !.stages = @ \ {s}]
  /\ UNCHANGED <<claiming, row, approval, fileVars, call, acked, sweep, operator, envVars,
                 histVars>>

BoundToNew(a) == approval[a] = "valid" /\ Bound = replans + 1  \* mutant

\* artifact_revision != ? AND invalidated_at IS NULL: a decision of any stage, bound
\* to any revision but the new one.
BoundToOld(a) == approval[a] = "valid" /\ Bound # replans + 1

SelectApprovals ==
  /\ up
  /\ replan.pc = "approvals"
  /\ replan' = [replan EXCEPT !.pc = "invalidate",
                              !.found = {a \in Approvals : BoundToOld(a)}]
  /\ UNCHANGED <<dbVars, fileVars, call, acked, sweep, operator, envVars, histVars>>

InvalidateApproval ==
  /\ up
  /\ replan.pc = "invalidate"
  /\ \E a \in replan.found :
       /\ approval' = [approval EXCEPT ![a] = "invalidated"]
       /\ replan' = [replan EXCEPT !.found = @ \ {a}]
  /\ UNCHANGED <<stageVars, row, fileVars, call, acked, sweep, operator, envVars,
                 histVars>>

NextStage ==
  /\ up
  /\ replan.pc = "invalidate"
  /\ replan.found = {}
  /\ replan' = [replan EXCEPT !.pc = IF replan.stages = {} THEN "worktrees" ELSE "reset"]
  /\ UNCHANGED <<dbVars, fileVars, call, acked, sweep, operator, envVars, histVars>>

\* The approvals a replan leaves invalidated when it goes away now.
DueWithoutReplan == IF replan.pc \in {"idle", "worktrees", "abandon"} THEN due ELSE {}

\* invalidate_worktree: the latest execution of the stage that is still live.
SelectLatest ==
  /\ up
  /\ replan.pc = "worktrees"
  /\ \E s \in replan.trees :
       LET lives == {k \in 1..MaxClaims : Live(<<s, k>>)} IN
       \/ /\ lives = {}
          /\ replan' = [replan EXCEPT !.trees = @ \ {s}]
       \/ \E k \in lives :
            /\ \A j \in lives : j <= k
            /\ replan' = [replan EXCEPT !.pc = "abandon", !.trees = @ \ {s},
                                        !.row = <<s, k>>]
  /\ UNCHANGED <<dbVars, fileVars, call, acked, sweep, operator, envVars, histVars>>

AbandonLatest ==
  /\ up
  /\ replan.pc = "abandon"
  /\ row' = [row EXCEPT ![replan.row] = "abandoned"]
  /\ replan' = [replan EXCEPT !.pc = "worktrees", !.row = NoRow]
  /\ UNCHANGED <<stageVars, approval, fileVars, call, acked, sweep, operator, envVars,
                 histVars>>

ReplanEnd ==
  /\ up
  /\ replan.pc = "worktrees"
  /\ replan.trees = {}
  /\ replan' = IdleReplan
  /\ UNCHANGED <<dbVars, fileVars, call, acked, sweep, operator, envVars, histVars>>

\* A statement of invalidate_downstream or invalidate_worktree raises.
ReplanRaises ==
  /\ up
  /\ "raise" \in limit.parts
  /\ replan.pc # "idle"
  /\ replan' = IdleReplan
  /\ due' = DueWithoutReplan
  /\ UNCHANGED <<dbVars, fileVars, call, acked, sweep, operator, envVars, won, whole, cut,
                 belated, bypassed, dropped>>

-----------------------------------------------------------------------------
(* Crash, and recover_on_startup *)

Crash ==
  /\ up
  /\ crashes < limit.crashes
  /\ up' = FALSE
  /\ crashes' = crashes + 1
  /\ claiming' = {}
  /\ acked' = {}
  /\ call' = [c \in Calls |-> IdleCall]
  /\ sweep' = IdleSweep
  /\ operator' = {}
  /\ replan' = IdleReplan
  /\ due' = DueWithoutReplan
  /\ UNCHANGED <<status, rev, row, approval, fileVars, limit, replans, won, whole, cut,
                 belated, bypassed, dropped>>

KeptStatus(s) == status[s]  \* mutant

RowStatus(s) == IF status[s] = "running" THEN "failed" ELSE status[s]  \* mutant

RecoveredStatus(s) == IF status[s] = "running" THEN "failed_transient" ELSE status[s]

Restart ==
  /\ ~up
  /\ up' = TRUE
  /\ status' = [s \in Stages |-> RecoveredStatus(s)]
  /\ dropped' = {}
  /\ UNCHANGED <<rev, claiming, row, approval, fileVars, clients, limit, crashes, replans,
                 outVars, bypassed>>

-----------------------------------------------------------------------------
PromoteStep(c) ==
  \/ SelectRevision(c) \/ Validate(c) \/ RejectFenced(c) \/ RejectRevision(c)
  \/ RejectInvalid(c) \/ Demote(c) \/ Complete(c) \/ TooLate(c) \/ ListFiles(c)
  \/ CopyFile(c) \/ Succeed(c) \/ Raises(c) \/ CopyBreaksOff(c)

ClaimStep(x) == ClaimSwap(x) \/ ClaimInsert(x) \/ ClaimRaises(x)

CompleteStep(x) == CompleteRow(x) \/ CompleteStage(x) \/ CompleteRaises(x)

SpaceStep(x) == CreateWorktree(x) \/ RemoveFile(x) \/ RemoveWorktree(x)

SweepStep ==
  \/ SweepAbandon \/ SweepMove \/ SweepRaises
  \/ \E x \in Executions : SweepSelect(x)

OperatorStep ==
  \/ \E s \in Stages : Reconcile(s) \/ Retry(s)
  \/ \E w \in OperatorWrites : OperatorWrite(w[1], w[2]) \/ OperatorRaises(w[1], w[2])

ReplanStep ==
  \/ ReplanBegin \/ ResetStage \/ SelectApprovals \/ InvalidateApproval \/ NextStage
  \/ SelectLatest \/ AbandonLatest \/ ReplanEnd \/ ReplanRaises

Next ==
  \/ \E s \in Stages : MarkReady(s)
  \/ \E x \in Executions : ClaimStep(x) \/ CompleteStep(x) \/ SpaceStep(x)
  \/ \E c \in Calls : PromoteStep(c) \/ \E x \in Executions : SelectRow(c, x)
  \/ SweepStep
  \/ OperatorStep
  \/ \E a \in Approvals : Approve(a)
  \/ ReplanStep
  \/ Crash
  \/ Restart

Spec == Init /\ [][Next]_vars

-----------------------------------------------------------------------------
(* Properties *)

StageStatus == {"pending", "ready", "running", "succeeded", "failed_transient",
                "failed_permanent", "awaiting_reconciliation"}

SpaceState == [state : {"none", "worked", "removed"}, expected : Revisions,
               written : SUBSET Files, gone : SUBSET Files]

\* Every variable has its type.
TypeOK ==
  /\ status \in [Stages -> StageStatus]
  /\ rev \in [Stages -> Revisions]
  /\ claiming \in SUBSET Executions
  /\ row \in [Executions -> {"none", "claimed", "completed", "failed", "abandoned"}]
  /\ space \in [Executions -> SpaceState]
  /\ main \in [Files -> Contents]
  /\ approval \in [Approvals -> {"none", "valid", "invalidated"}]
  /\ acked \in SUBSET Executions
  /\ call \in [Calls -> CallState]
  /\ sweep \in SweepState
  /\ operator \in SUBSET OperatorWrites
  /\ replan \in ReplanState
  /\ limit \in Limits
  /\ up \in BOOLEAN
  /\ crashes \in 0..MaxCrashes
  /\ replans \in 0..MaxReplans
  /\ won \in [Executions -> Nat]
  /\ whole \in SUBSET Executions
  /\ cut \in SUBSET Executions
  /\ bypassed \in SUBSET Stages
  /\ dropped \in SUBSET Stages
  /\ due \in SUBSET Approvals
  /\ belated \in SUBSET Calls

\* "a late/duplicate call affects 0 rows" (workspace.py): an execution that was
\* rejected, swept or invalidated is never completed afterwards, whichever calls
\* have read it before.
RejectedIsFinal ==
  [][\A x \in Executions :
       row[x] \in {"failed", "abandoned"} => row'[x] # "completed"]_vars

\* However many calls promote one execution, one of them at most decides so, and
\* the main tree contains files of HEAD and of executions decided upon only.
PromotedOnce ==
  /\ \A x \in Executions : won[x] <= 1
  /\ \A f \in Files : main[f] \in Executions => won[main[f]] = 1

\* A stage that succeeded by a promotion, whoever else wrote its status before, has
\* an execution that was promoted to the end, and the artifact that its validator
\* looked at is in the main tree: it was not lost between validation and copy, unless
\* the worktree was being removed at that time.
PromotedHasArtifact ==
  \A s \in Stages : status[s] = "succeeded" /\ s \notin bypassed =>
    \E x \in whole : x[1] = s /\ (x \in cut \/ main[Artifact] # NoFile)

\* A promotion that ends with a success has copied all the worker wrote, whatever
\* failed or raced with it; only another promotion can have replaced it.  (A removal
\* of the worktree that begins before the end can leave out what is gone by then.)
PromotionIsWhole ==
  \A x \in whole \ cut : (\A y \in Executions : y # x => won[y] = 0) =>
    \A f \in space[x].written : main[f] = x

\* A promotion that begins when its stage has been replanned already promotes
\* nothing.  (One that has read the revision by then does.)
SupersededNotPromoted ==
  \A c \in belated : call[c].pc \notin MovingOn

\* A running stage has a live execution, or someone who is about to move it on.
RunningHeld(s) ==
  \/ \E x \in claiming \union acked : x[1] = s
  \/ \E x \in Executions : x[1] = s /\ Live(x)
  \/ \E c \in Calls : call[c].pc \in MovingOn /\ call[c].row[1] = s
  \/ sweep.pc = "move" /\ sweep.row[1] = s

\* However claims, completions, promotions, the sweep and operators race each other,
\* a stage is left running with nobody in charge only by a client that raised between
\* its two writes, and no longer than until the next claim or start.  (A replan
\* leaves one, too: it may abandon the execution that was claimed after the reset.)
RunningHeldUntilReplan ==
  up /\ replans = 0 =>
    \A s \in Stages : status[s] = "running" => RunningHeld(s) \/ s \in dropped

\* invalidate_downstream: once it has gone through its stages, no approval that was
\* on record when it began, bound to a revision that it replaces, is valid.
ApprovalsInvalidated ==
  replan.pc \in {"idle", "worktrees", "abandon"} =>
    \A a \in due : approval[a] = "invalidated"
=============================================================================
