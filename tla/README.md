# A formal model of the governed URL shortener

TLA+ models of the parts of this repository that keep state and can be
interleaved, interrupted or restarted; TLC runs that check them on small
instances; and TLAPS proofs of what matters most for every instance.

    tlc -workers 2 -config exec_chain.cfg MC_exec.tla    # one run, 1.5 minutes
    tlapm StageExecution_proofs.tla                      # one module of proofs

## 1. The system

One process serves HTTP (FastAPI), runs a background scheduler, and keeps all
of its durable state in one SQLite database and two files of credentials.
Request handlers run in threads; the scheduler loop runs in the event loop, one
tick after the other. Worktrees, promotions, replans and the release check are
functions that whoever drives a workflow calls, in any order and from any
thread. Two facts decide how everything below is modelled:

* `persistence/db.py:15-24` opens connections with `isolation_level=None`.
  Each SQL statement commits by itself and every `conn.commit()` in the code
  does nothing. **A function with two statements is two actions**, and anybody
  may run, or the process may die, between them. Only the connections that
  `dispatch_ready_stages_parallel` opens itself (`scheduler.py:120`) use
  implicit transactions.
* Nothing is kept in memory across a crash but what is lost by it: the rate
  limiter's buckets and the local variables of the calls in progress.

| Component | Source (`src/` of the repository) | State | Operations | Correct when |
|---|---|---|---|---|
| Stage execution | `orchestration/scheduler.py`, `reaper.py`, `retry_policy.py` | stage status and attempt count, execution rows with lease | compute and mark ready, claim, complete, sweep, reconcile, retry, fall back, recover | a stage is claimed once for each time it was made ready, only after its dependencies, is left `running` with nobody in charge only by a client that raised between its two writes, and an abandoned row is fenced off |
| Live scheduler | `orchestration/live_scheduler.py`, `branching.py`, `models.py` | workflow status, branch decisions | tick: sweep, gate, drive, decide branches, finish; safe-stop and resume | no stage runs twice or too early, one branch is taken, `completed` means done, every workflow settles |
| Workflow creation | `api/routers/workflows.py` | stages, edges and conditions of a pipeline | seed | a half-seeded workflow is harmless |
| Policies and release | `policy/*.py`, `config/policies.yaml` | one evaluation for each policy and revision, exceptions | evaluate, except, block, release check | a FAIL blocks; one outcome for each revision; a release has evaluations and exceptions behind it |
| Redirects, analytics | `api/routers/redirect.py`, `domain/analytics.py` | outbox, applied events, counts | resolve, enqueue after the response, drain | no redirect is counted twice or before it was sent; a loss is disclosed |
| System status, lifespan | `observability/system_status.py`, `api/main.py` | shutdown state, degraded flag | start, clean stop, acknowledge | an unclean stop is remembered until acknowledged |
| Short links, idempotency | `api/routers/short_links.py`, `domain/short_link.py`, `idempotency.py`, `validation.py` | links, summaries, idempotency records | create, replay, delete | answers under one key agree; codes are never reused |
| Rate limiter | `api/middleware/rate_limit.py` | a bucket for each client, in memory | dispatch | never more than the limit in any window, never a refusal below it |
| Promotion, validators | `orchestration/workspace.py`, `validators.py` | execution rows, worktrees, the main tree | promote or reject | an execution is promoted once, whole, and never after it was rejected; a promoted stage has the artifact that was validated |
| Replanning | `orchestration/replanning.py` | revision, stage statuses, approvals | reset, invalidate | nothing that begins after a replan promotes a superseded result; no approval on record for a replaced revision survives |
| Approvals, auth, credentials | `api/routers/approvals.py`, `api/auth.py`, `credentials.py`, `scripts/bootstrap_credentials.py`, `scripts/approve.py` | decisions, audit log, two files of tokens | approve, reject, bootstrap | gates are decided by the role they require, void tokens stay void, answers are audited |
| Lineage, audit, evidence | `orchestration/lineage.py`, `observability/audit.py`, `api/routers/workflow_evidence.py` | append-only tables | append, read | audit events as the approvals write them; the rest only grows and is read by people |
| Metrics, health, schemas, demonstration scripts, `compensation.py`, `adapters/`, `persistence/retry.py` | | none, or not called | | out of scope, see the end |

How they interact: the live scheduler calls the functions of stage execution
and of the branch evaluator from inside a tick, and the policy checks before the
first stage; the request handler that creates a workflow writes the tables the
ticks read; the lifespan runs `recover_on_startup` before the first tick and
`on_startup` before the first request; a redirect's background task drains the
outbox for all redirects; deletion of a link is visible to resolution and to
replays of its idempotency key, but to nothing that was already answered. A
promotion writes the execution rows the sweep looks at and the stage status a
replan resets, and so do `complete_stage` and `reconcile_stage`, which validate
nothing; a replan invalidates the decisions the approvals API records; the
approvals API trusts a file that a script may be rewriting; the release check
reads evaluations, exceptions and a revision that others write.

### What is hard here

The list of hazards, each at its line and with the properties aimed at it, is
in `PROJECT.json`. In short: reads and writes in separate statements (claims,
eligibility, branch decisions, retry budget, outbox drain, idempotency lookup,
release check), a long validation between reading and writing, a worker that
answers after its lease (fencing), a crash or an exception between any two
statements, a scheduler loop that an exception ends for good, a second process,
request or script that does the same thing at the same time, and promises that need time (a stage leaves `running`, a workflow
ends, an event is drained).

## 2. Modules

| Module | Models | Composes / refines |
|---|---|---|
| `StageExecution` | the claim, lease and fencing protocol, for any stages, dependency graph, fallbacks, workers, sweepers and operators | |
| `WorkflowLifecycle` | abstract: the life of one workflow and its stages | |
| `LiveScheduler` | ticks, seeding, policy gate, branch decisions, exceptions, safe-stop, crash and restart, for the demo pipeline | composes scheduler, reaper, branching, policy gate and workflow creation; implements `WorkflowLifecycle` |
| `Promotion` | worktrees, `promote_or_reject`, the ways to `succeeded` that go past it, the sweep, replanning and the approvals it invalidates | composes workspace, scheduler, reaper, replanning and decisions |
| `Approvals` | decisions on gates, audit, and the credentials behind them | composes the API, `bootstrap` and the command line client |
| `PolicyGate` | evaluations, exceptions and the release check, for any manifest | |
| `RedirectCounter` | abstract: a counter that is never ahead of what was answered | |
| `Analytics` | redirects, outbox, overlapping drains, lifespan and degraded flag | implements `RedirectCounter` |
| `ShortLinks` | creation with idempotency keys, and deletion | |
| `RateLimit` | the sliding window | |
| `StageExecution_proofs`, `Promotion_proofs`, `Approvals_proofs`, `PolicyGate_proofs`, `Analytics_proofs`, `ShortLinks_proofs`, `RateLimit_proofs`, `LiveScheduler_proofs` | their theorems | each extends its module |
| `MC_exec`, `MC_live`, `MC_promotion`, `MC_gates`, `MC_release`, `MC_analytics`, `MC_links` | small instances for TLC | each extends its module |

Names are those of the code. Three conventions run through all modules:

* A client in the middle of a function is a record with a field `pc`, the
  statement it is at, and the function's local variables that outlive a
  statement (`worker`, `sweep`, `operator`, `tick`, `call`, `replan`, `boot`,
  `eval`, `check`, `req`).
* Timestamps, uuids and wording are left out. A row that the code names with a
  fresh uuid is named by what created it: an execution row is `<<stage, k>>`,
  inserted by the k-th claim of the stage; a token by the run of bootstrap that
  made it.
* Definitions that end in the comment `mutant` are wrong versions of the
  definition that follows, the way a plausible bug would make it; nothing uses
  them. They show that the properties notice.

Where a module is to be looked at in several circumstances, these are a constant
(`Settings`, `Limits`), a set of records of bounds and switches; `Init` picks
one and keeps it in a variable that nothing writes. A run then answers its
question for each of them.

### StageExecution

| Action | Code |
|---|---|
| `ComputeReady`, `MarkReady` | `compute_ready_stages` remembers a stage whose dependencies succeeded; `mark_ready` writes it later, `AND status='pending'` |
| `ClaimSelect`, `ClaimSwap` or `ClaimLost`, `ClaimInsert` | the three statements of `claim_stage` |
| `DoWork` | the caller's `execute_fn` |
| `WorkerFails` | `execute_fn`, or any statement of `claim_stage` and `complete_stage`, raises (`database is locked`) while the process stays up; `run_one` closes its connection and does nothing for the stage. `InGap` tells whether that was between two writes |
| `CompleteRow`, `CompleteStage`, `CompleteFenced` | `complete_stage` in autocommit: row, then stage; or no row affected |
| `CompleteInTransaction` | the same, for a worker of `dispatch_ready_stages_parallel` |
| `LeaseExpires` | the clock (external) |
| `SweepSelect`, `SweepAbandon`, `SweepMove` | `sweep_stale_leases`: one SELECT, then for each row the UPDATE of the row and that of the stage |
| `SweepRaises` | a statement of the sweep or of the tick around it raises: `scheduler_loop` catches only `CancelledError`, so that sweeper is `ended` until the next start |
| `ReconcileProbe`, `ReconcileWrite` | `reconcile_stage` |
| `RetrySelect`, `RetryWrite`, `ExhaustWrite` | `issue_retry_or_exhaust` |
| `OperatorRaises` | the write an operator has come to raises |
| `ApplyFallback` | `apply_fallback_or_safe_stop` for a stage that has a fallback; without one it stops the workflow, which `LiveScheduler!SafeStop` models |
| `Crash`, `Restart` | all calls end; `recover_on_startup` |

Operators may call `reconcile_stage` at any time for a stage that is running or
awaiting reconciliation: the function has no guard of its own, and no caller in
the repository outside of tests. That is the most general caller. A fallback is
applied by whoever was told `exhausted`. The history variables (`licences`,
`everDone`, `dropped`) are read by no guard. `dropped` is the set of stages that a
client left in a gap: a worker between swap and INSERT or between the two UPDATEs
of `complete_stage`, a sweep between the UPDATE of the row and that of the stage.
A stage leaves the set when it is claimed again or when the process starts. The
probe of an uncertain stage asks the world whether the effect happened (`effects`)
and gets the true answer.

### LiveScheduler

`tick[t]` is one call of `tick()`: `TickStart`, `SweepAbandon`, `SweepMove`,
`ListRunning`, then `_drive_workflow`: `Gate`, `EvaluatePolicy` for each policy,
`Block`; `SelectPending`, `CheckEligible`, `MarkReady`, `SelectReady`; for each
stage `Claim`, `InsertRow`, `Execute`, `CompleteRow`, `CompleteStage`,
`SelectDependents`, `ReadChild`, `DecideChild`, `NextStage`; and
`CountUnfinished`, `Finish`. `Seed` executes the next statement of
`_seed_auto_execute_pipeline`. `TickRaises` is any statement that raises, such as
`database is locked`: `scheduler_loop` catches only `CancelledError`, so the
process goes on without ticking. `SafeStop` and `Resume` are the calls from
outside. The claim protocol is the one of `StageExecution` in fewer words.

A setting says which processes tick, whether the first tick finds the pipeline
seeded (`seedFirst`), whether a lease (30 s) may be outlived by the tick that
holds it (`stalls`; rows left by a dead process expire in any case), and how
many claims, crashes, raised ticks, stops and resumes there are. Neither switch
is an assumption the code makes: they separate one hazard from another.

### Promotion

| Action | Code |
|---|---|
| `MarkReady` | `compute_ready_stages` and `mark_ready`, in one action |
| `ClaimSwap`, `ClaimInsert` or `ClaimRaises` | `claim_stage` |
| `CreateWorktree`, `RemoveFile`, `RemoveWorktree` | the worktree, with the files its worker wrote and the revision it worked for; `remove_worktree` looks at nothing, so files may vanish while a call validates or copies them |
| `CompleteRow`, `CompleteStage` or `CompleteRaises` | `complete_stage`, by a worker that is not promoted: `succeeded` without a validation |
| `Reconcile`, `Retry`, then `OperatorWrite` or `OperatorRaises` | `reconcile_stage` (to `failed_transient`, or to `succeeded` without a validation) and `issue_retry_or_exhaust`: a SELECT, then an UPDATE of whatever is there by then |
| `SelectRow`, `SelectRevision`, `Validate` | the reads of `promote_or_reject`, and the validator |
| `RejectFenced`, `RejectRevision`, `RejectInvalid` then `Demote` | its three rejections |
| `Complete` or `TooLate`, `ListFiles`, `CopyFile`, `Succeed` | the compare-and-swap, `iterdir` and the copy file by file, the stage |
| `Raises`, `CopyBreaksOff` | any statement, the validator or the copy raises; what was written stays, the file in hand may be `Torn`. A file or directory that has vanished makes it raise in any case |
| `SweepSelect`, `SweepAbandon`, `SweepMove`, `SweepRaises` | `sweep_stale_leases`, a row at a time |
| `Approve` | a decision, always bound to `v1` (`Bound`) |
| `ReplanBegin`, `ResetStage`, `SelectApprovals`, `InvalidateApproval`, `NextStage` | `invalidate_downstream`, for each stage the reset and the decisions found |
| `SelectLatest`, `AbandonLatest`, `ReplanEnd` | `invalidate_worktree` for each of the stages |
| `ReplanRaises` | a statement of either raises |
| `Crash`, `Restart` | as above |

Which clients there are and whether anything raises is part of the limit
(`parts`), see the bounds. History variables, read by no guard: `won` and `whole`
(how often an execution was decided upon, which promotions ended with a success),
`cut` (whose worktree began to vanish before that), `bypassed` (stages that
succeeded last by other means than a promotion), `dropped` (as in
`StageExecution`, for calls too), `due` (the approvals a replan has to
invalidate), `belated` (calls that began after the reset).

A file's content is the execution that wrote it, `Head` for a file as committed,
or `NoFile`; a new worktree contains the tracked files. `file_exists` and
`content_equals` are the built-in validators, on the file `Artifact`; an
unknown name raises (`Raises`); external commands are blocked in the code and reach no
promotion.

### Approvals

`BeginBootstrap`, `TruncateRaw`, `WriteRaw`, `TruncateHashed`, `WriteHashed` are
one run of `bootstrap`: it looks for a config, and opens and writes two files one
after the other. `BootstrapDies` ends it anywhere. `Present` is a client that
sends a decision, with a token it may hold: from the raw file, from a printout,
or none. `Authorize`, `AuditRefusal`, `LookUpWorkflow`, `InsertDecision` and
`AuditDecision` are the statements of the handlers, which are the same for
approval and rejection; `RequestFails` and `Crash` cut a request off. The file
the server reads is read once for each request, when `Authorize` is executed.

### PolicyGate

`BeginEvaluation` and `EvaluatePolicy` are `run_mandatory_policy_checks` with its
`INSERT OR IGNORE`; `CreateException`, `Replan` and `TimePasses` change what the
release check reads. `BeginCheck`, `SelectFails`, `CheckFail`, `FailsDone` and
`CheckLatest` are the statements of `is_release_ready` and of
`has_unresolved_fail`, which it calls: the clock, the failures of any revision, an
exception for each, the latest evaluation of each policy. The check writes
nothing, so that one check at a time is enough. What a check function sees (files,
the lineage table) is free; it returns one of its `Verdicts`.

### Analytics

`Resolve` reads link and clock and decides the answer; `Send` sends it; a
redirect goes on to its background task: `Enqueue`, `SelectPending`, and for
each row `NextRow` (the lookup in `applied_events`), `ApplyRow` (the INSERT,
which fails if another task came first and aborts the whole drain), `Increment`,
`MarkApplied`; `Drained` ends it. `StatementFails` is a statement that raises.
`DetectUnclean` and `MarkRunning` are the two UPDATEs of `on_startup`. A clean
shutdown waits for the requests and background tasks in progress, as the server
does. `mark_incomplete` has no caller in the repository and is no action.

### ShortLinks

`BeginCreate` or `Replay` is `check_replay`; `Invalid` is either validation,
whose result also depends on the clock and on name resolution; `InsertLink` and
`Collide` are one turn of the loop in `create_short_link`; then `InsertSummary`,
`InsertRecord` (which raises if the key is taken by now) and `AnswerCreated`.
`Delete` changes the status and keeps the row.

### RateLimit

`dispatch` has no `await` between reading the clock and appending to the
bucket, so it is one step: `Admit` or `Refuse`. The loop that drops old entries
is modelled by what it does: the k entries it drops.

## 3. What the runs check

Runs that must pass:

| Run | Instance | Shows |
|---|---|---|
| `exec_race` | one stage, 2 workers of which one with transactions, a sweeper, 2 operators, 4 claims, ceiling 2, any statement may raise | `ClaimsAreLicensed`: one claim for each time the stage was made ready; `AttemptNumberNeverAhead`; `AbandonedIsFinal`: the fence; `RetryBudget`: the exact overshoot of the retry ceiling |
| `exec_chain` | two stages in a chain, the second uncertain and with the first as its fallback, 2 workers of which one with transactions, a sweeper, an operator, 2 claims, ceiling 1, a crash, any statement may raise | `RunsAfterDependencies`; `RunningHasHolder`: no running stage without a live row or a client in charge, but where a client raised between its two writes; under fairness `RunningResolves`: a stage leaves `running`, but where a client raised between its two writes or every sweep loop has ended |
| `live` | four settings: `Faulty` (one process, 2 crashes, a raised tick, a resume), `Seeding` (ticks during the seeding, a crash, a resume), `Racing` (two processes, a crash, no stalls), `Stopped` (a crash, a safe-stop from outside, a resume) | `ExecutedOnce`, `OneBranchUntilCrash`, `FailBlocksUntilCrash`, `RunsAfterParent`, `DecisionIsFinal`; under fairness `Settles`; the scheduler implements `WorkflowLifecycle` (`LifecycleSpec`: among others that nothing moves once a workflow is completed, and none is completed with a stage pending, ready or running); `TypeOK` |
| `promote` | eight limits: `Duplicates` (two calls for one execution, a sweep, a crash), `Late` (a call that comes when the stage is executed again), `Restarted` (the same across a crash), `Bypassed` (executions completed without a promotion), `Removed` (the worktree is removed under a call), `Replanned` (a replan during executions), `Revoked` (two replans of two stages while a decision is recorded, a crash), `Neighbours` (two stages promote into one tree); statements raise in all but `Restarted` and `Neighbours` | `RejectedIsFinal`, `PromotedOnce`, `PromotedHasArtifact`, `PromotionIsWhole`, `SupersededNotPromoted`, `RunningHeldUntilReplan`, `ApprovalsInvalidated`, `TypeOK` |
| `gates` | 2 requests, a gate of each role, 2 scripts and 3 runs of bootstrap, one fault | `DecidedByRole`, `RevokedStaysRevoked`, `FilesAgree`, `UnforcedKeepsTokens`, `AuditTrail` |
| `release` | 2 policies that can fail, 2 evaluators, 2 revisions, an exception, a clock of 2 instants | `OneOutcome`, `ReadyIsSound`, `RefusedForAReason` |
| `count_once` | 3 redirects, 2 crashes, a failing statement | `CountedOnce`, `AppliedIsCountedUntilFault`, `LossDisclosed`; `Analytics` implements `RedirectCounter` (`CounterSpec`) |
| `links_keys` | 4 requests, 3 with one key, one of these with another payload; deletions, a crash | `AnswersAgree`, `RecordedLinkExists`, `CodesAreForever`: a code keeps its first maker, deleted or not |
| `rate_limit` | 2 clients, limit 2, window 2 | `NeverOverLimit`, `NeverRefusedEarly` |

`TypeOK` is checked in `live` and `promote`, the instances with the most states;
elsewhere its proof covers the instance too.

Runs that must find a counterexample. Each checks what a comment or a document
of the repository says; the quotation is in `PROJECT.json` under `findings`.

| Run | What the code does instead |
|---|---|
| `live_branch_crash` | a crash between completing `classify` and deciding its branches: both exclusive branches run |
| `live_fail_ignored` | a crash between recording a FAIL and stopping the workflow: the next tick sees an evaluation on record and executes the stages |
| `links_two` | two requests with one key, at the same time, create two links |

### What the properties do not promise, and why

Several properties name the circumstance under which they hold. Each time the
circumstance is there because the code breaks the plain statement without it.

Stages and workflows:

| Property | Holds | Otherwise |
|---|---|---|
| `OneBranchUntilCrash`, `FailBlocksUntilCrash` | until a crash, in one process; also if a tick raises | `live_branch_crash`, `live_fail_ignored`. A raised tick does no harm of that kind because no tick follows it |
| `LifecycleSpec` | for one process that begins with a seeded pipeline and is not stopped from outside | a tick between the INSERT of the workflow and that of its first stage completes it; a safe-stop does not stop the tick in hand, which executes its ready stages and may complete the workflow |
| `Settles` | without a crash or a raised tick | a stage that a crash has set to `failed_transient` is retried by nothing: those behind it stay pending for ever, and if there are none the workflow completes without it. After an exception nothing ticks any more |
| `ExecutedOnce`, `DecisionIsFinal` | one process | a branch decision has no condition on the status it overwrites: a branch that another tick has executed in the meantime is made ready and executed again |
| `RunsAfterParent` | seeded pipeline, no stalls | a tick between the INSERTs of a stage and of its edge runs it without its parent; a tick that was fenced off does not look at the result of `complete_stage` and decides the branches of a stage that has not succeeded |
| `RunningHasHolder` | unless a client raised between the two writes it makes for the stage, since the claim | a raise at the INSERT of `claim_stage`, at the second UPDATE of `complete_stage` or of the sweep leaves a stage `running` with no live row. No sweep finds it; `recover_on_startup` does, or an operator who thinks of `reconcile_stage` |
| `RunningResolves` | as before, and as long as some sweep loop lives | the first tick that raises ends `scheduler_loop` for the life of the process: nothing sweeps any more, and a stage whose worker has died stays `running` until the next start |
| `RetryBudget` | for each operator but the first, one claim more; not for fallbacks | `issue_retry_or_exhaust` reads the count one statement before it writes `ready`; `apply_fallback_or_safe_stop` makes the fallback ready whatever its count |
| `RunsAfterDependencies` | for stages that are nobody's fallback | a fallback is made ready whatever its dependencies and its status, also if it has succeeded or is running. And a fallback without edges is, like any stage without them, found ready by `compute_ready_stages` from the start |
| `AbandonedIsFinal` | for rows the sweep has abandoned | `reconcile_stage` leaves the row claimed: the late worker's UPDATE matches and turns `failed_transient` into `succeeded`, although the docstring of `complete_stage` promises fencing. And the sweep, which does not repeat its condition, can turn `completed` into `abandoned` |

No property is stated of how often an uncertain effect happens:
`issue_retry_or_exhaust` says that such a stage becomes `failed_transient` only
by a reconciliation that asked, but `recover_on_startup` sets every running stage
so without asking, and the effect can happen twice. Nor does anything move a
stage whose dependency was skipped: `compute_ready_stages` waits for `succeeded`.

Promotion and replanning:

| Property | Holds | Otherwise |
|---|---|---|
| `RunningHeldUntilReplan` | until the first replan, and unless a client raised between its two writes | the replan resets the stage to `pending` while its execution is live; it is claimed again, and `invalidate_worktree`, which abandons the latest live row only, takes the new one: the stage stays `running` and no sweep will find a row of it. A copy or an UPDATE that raises after the row was written leaves the row `completed` or `failed` and the stage `running` |
| `PromotedHasArtifact` | for stages that succeeded by a promotion, whose worktree was not being removed | `complete_stage` and `reconcile_stage` write `succeeded` and ask no validator, although `validators.py:86-88` speaks of a proof that "no path to `succeeded` bypasses validation". A removal between validation and copy leaves the artifact out |
| `SupersededNotPromoted` | for promotions that begin after the reset | `replanning.py:67-70` says that an execution of an invalidated stage "must never be promoted"; a call that has read the revision before the reset promotes |
| `PromotionIsWhole` | for a promotion that ends with a success, unless its worktree began to vanish before that or another promotion wrote the same file | what is gone when `iterdir` is called is not copied, and nothing notices; a file that vanishes later makes the copy raise, with some files copied. A worktree contains every tracked file, and a promotion copies them all: it puts back the committed version of files that an earlier promotion had changed |
| `RejectedIsFinal` | one way only | a completed row can become abandoned, by the sweep or by a second call that found it completed; the stage can be `succeeded` while another execution of it is live |
| `ApprovalsInvalidated` | for decisions on record when the replan began that are bound to a revision it replaces | one recorded between its SELECTs may survive, although the docstring says "never silently carried forward". And more are invalidated than its "EXACTLY the affected stages and their approvals": every decision, of any stage, that is not bound to the new revision, so that a second replan, which replaces `v2`, takes those bound to `v1` |

Policies:

| Property | Holds | Otherwise |
|---|---|---|
| `ReadyIsSound` | for what was on record when the check began | a FAIL recorded while the check is at work may be missed, and an exception may expire between the reading of the clock and the answer |
| `RefusedForAReason` | it promises a reason, not that it can be removed | an evaluation of an older revision that is recorded late has the highest id and makes the latest one stale for ever, since the current revision has its row; a FAIL of any old revision blocks until somebody makes an exception |

Approvals:

| Property | Holds | Otherwise |
|---|---|---|
| `FilesAgree`, `UnforcedKeepsTokens` | unless two runs of bootstrap overlapped or one died | two unforced runs that both find no config leave the raw tokens of one and the hashes of the other |
| `DecidedByRole` and the rest | also then | a run that dies after truncating the config makes every request that carries a token fail, and an unforced run refuses to repair it |
| `AuditTrail` | who was answered is in the log | a crash between the decision and its event leaves a decision nobody can audit; a client that gave up after its ten seconds and asks again leaves two decisions |

Links and counts:

| Property | Holds | Otherwise |
|---|---|---|
| `AppliedIsCountedUntilFault` | until a crash or failure | the three statements that apply an event are not one transaction: an event can be on record as applied and never be counted |
| `LossDisclosed` | for losses by crashes | a failed statement loses a redirect, and nothing calls `mark_incomplete` |
| `RecordedLinkExists` | for links with an idempotency record | a crash between link and summary leaves a link without one, whose analytics then say `complete` and 0 whatever happens |

No liveness is stated for the outbox: a drain that loses a race ends with an
IntegrityError and other events pending, and only another redirect drains them.
An `expires_at` without a time zone is accepted at creation and makes each
resolution raise; the model's expiry is the comparison as it is for the others.

### Bounds

* `MaxClaims`, `claims` cap the claims of a stage. 4 is two more than the ceiling
  of `exec_race`, so it is the code that stops the retries, not the cap; in
  `exec_chain` 2 lets the fallback be claimed again. In `live` 2 is enough to see
  a second execution; `Racing`, where progress is at stake, has 4, more claims
  than two ticks can make. In `promote` 2 is an execution and the one after.
* Crashes: one shows what a cut leaves behind, the second a cut while that is
  being repaired. `exec_race` has none: a crash makes no claim, retry or row, and
  `exec_chain` has it. Raised ticks, failing statements, faults
  of `gates`, stops and resumes: 1, each is a cause of its own; in `exec_*` and
  `promote` statements raise without a bound. Replans: 2 in `Revoked`, one for
  each stage, 1 elsewhere, and 2 revisions in `release`.
* `MaxStageAttempts` is 2 and 1 (3 in the code), `MaxTries` 2 (5 in the code):
  enough for a retry that succeeds and one that is refused. `Limit` and `Window`
  are 2 and `MaxTime` 5: two full windows. In `release` the clock has an instant
  before and one at the expiry.
* 3 runs of bootstrap: one that creates, and two that overlap or follow. 3
  redirects: three drains, so that one loses twice. Two files: one tracked and
  one that only a worker writes.
* The limits of `promote` separate what has to be combined: two calls or two
  executions of one stage, with a sweep, an operator, a worker that is not
  promoted, a removal, a crash, or a replan. All bounds at once are out of TLC's
  reach; the proofs have none of them.
* Symmetry is used for operators (`exec_race`), redirects of one
  code (`count_once`), short codes (`links_*`), requests and runs of bootstrap
  (`gates`) and evaluators (`release`), in runs without liveness only.

Deadlock is not checked: every instance stops when its requests are answered,
its claims or crashes used up.

### Fairness

* `StageExecution!Fairness`: a client inside `claim_stage` or `complete_stage`
  goes on (weak fairness of `ClaimInsert`, `CompleteStage`), the clock moves
  (`LeaseExpires`), a sweep loop that has not ended sweeps at each tick
  (`SweepSelect`, `SweepAbandon`, `SweepMove`), a crashed process is started
  again. No statement is assumed to succeed: `WorkerFails` and `SweepRaises` are
  enabled wherever these are, and once either has happened the condition asks for
  nothing more; nor does it ask for a raise. What that leaves behind is in the
  property: a stage `dropped` in a gap, or no loop left to sweep. Nothing is
  assumed of the stage's work, which may hang for ever, nor of operators.
* `LiveScheduler!Fairness`: each `scheduler_loop` goes on ticking, the request
  that seeds runs to its end, a crashed process is started again. Ticks that
  raise are steps of their own, after which the process ticks no more; no
  fairness is assumed of stops and resumes.

The other modules have no scheduler of their own that would justify fairness.

## 4. What is proved

For every value of the constants that satisfies the named assumption of the
module; the conjuncts of an assumption say that sets are of the right kind and
that bounds are numbers, nothing about the code. In most modules the invariants
are kept in lemmas, one for each group of clients, and rest on `WellTyped`: the
types, and that a client in the middle of a call knows what it is working on.

`StageExecution_proofs` (`StagesAssumption`, `ClientsAssumption`,
`BoundsAssumption`), for any stages, dependency graph, fallbacks and clients:

| Theorem | Statement | Argument |
|---|---|---|
| `TypeCorrect` | `Spec => []TypeOK` | `WellTyped` is inductive |
| `RunningAlwaysHeld` | `Spec => []RunningHasHolder` | a step either leaves the holders of a stage alone (`HeldUnchanged`) or passes the stage on: swap to INSERT to row, row to sweep, row to `acked` worker, and each of these to `dropped` when it raises. The one action that makes a stage running also makes a holder; a crash takes the worker but `up` is false until `Restart` has released every running stage |
| `ClaimsAlwaysLicensed` | `Spec => []ClaimsAreLicensed` | the swap trades a `ready` for a claim; `MarkReady`, `RetryWrite` and `ApplyFallback` make `ready`, each adding a licence |
| `FenceHolds` | `Spec => AbandonedIsFinal` | the only action that could undo `abandoned` is `ClaimInsert`; `FreshRows` (inductive) says that the row it writes has never been written: claims of one stage are numbered apart, and no worker holds a claim beyond `attempts` |
| `AttemptNumbersNeverAhead` | `Spec => []AttemptNumberNeverAhead` | `NumbersFollow`: what a worker read before its swap is below the claim it won, because `attempts` only grows; with `FreshRows` |
| `RunsAfterAllDependencies` | `Spec => []RunsAfterDependencies` | `DependenciesHeld`: no stage goes back to `pending`, so whoever is inside a call is at a stage that has begun, and one that begins by `ComputeReady` has its dependencies in `everDone`, which only grows |
| `RetryBudgetKept` | finitely many operators, at least one: `Spec => []RetryBudget` | `BudgetHeld` counts the claims a stage has had, its `ready` and the operators between the two statements (`Retriers`): a retry trades the third for the second, the swap the second for the first, and a new retrier has read a count below the ceiling |

`LiveScheduler_proofs` (`SchedulerAssumption`), for any number of processes and
any settings. Its first part says of each statement of a tick which fields it
writes (`TickStartDoes` to `FinishDoes`); the invariants use these lemmas and not
the actions. The theorems about one process have the process in the property
(`OneProcess`, `Alone`), not in an assumption.

| Theorem | Statement | Argument |
|---|---|---|
| `TypeCorrect` | `Spec => []TypeOK` | with `Pointed`: a tick at a stage knows its claim, and decides only branches that hang on that stage |
| `StagesAreExecutedOnce` | `Spec => []ExecutedOnce` | `Solo`: what the one tick has read is still so when it writes, so `mark_ready` and the branch decision find their stage pending; a stage that was claimed is running, done or interrupted, and the sweep never gets one back, because the tick that would sweep is the tick at work |
| `DecisionsAreFinal` | `Spec => DecisionIsFinal` | `SoloMoves`: every step moves at most one stage, by one of the five steps of its life (`LifeSteps`), none of which leaves `skipped` |
| `FailuresBlock` | `Spec => []FailBlocksUntilCrash` | `FailStops`: nothing is claimed before the first evaluation is on record; the tick that records a FAIL remembers it until `Block`; any later tick finds the workflow stopped |
| `ParentsRunFirst` | `Spec => []RunsAfterParent` | for any number of ticks. `RowsApart`: no two ticks hold one claim, and the rows a sweep has listed belong to no tick, since claims of a stage are numbered apart; so `complete_stage` finds its row. `ParentsFirst`: whoever decides the branches of a stage has completed it, and a parent that has succeeded stays so (`ParentsStay`) |
| `BranchesExclude` | `Spec => []OneBranchUntilCrash` | `Straight`: once `classify` has succeeded, a branch still pending is in the hands of the tick that completed it, so `mark_ready`, which would make it ready without its condition, never finds one |
| `ImplementsLifecycle` | `Spec => LifecycleSpec` | `Quiet`: the workflow is running whenever a tick is past the listing or a stage is running, `Block` finds all stages pending and `Finish` finds none left; with `SoloMoves` each step is one of `WorkflowLifecycle` or a stutter |

`Promotion_proofs` (`PromotionAssumption`), for any stages, files, calls,
decisions, replans and crashes. One idea runs through it: a row that has left
`claimed` never comes back to it, so the call that moves it to `completed` is
the only one that copies.

| Theorem | Statement | Argument |
|---|---|---|
| `TypeCorrect` | `Spec => []TypeOK` | with `Pointed` |
| `RejectionsAreFinal` | `Spec => RejectedIsFinal` | the compare-and-swap asks for `claimed` |
| `PromotionsHappenOnce` | `Spec => []PromotedOnce` | `Once`: an execution that was decided has `won` 1 and has left `claimed`; only those are copied |
| `PromotedStagesHaveArtifacts` | `Spec => []PromotedHasArtifact` | `Backed`: the artifact that passed is in the worktree, or among the files left to copy, or in the main tree, unless the execution is in `cut`; nothing takes a file out of the main tree. Whoever else writes `succeeded` adds the stage to `bypassed` |
| `PromotionsAreWhole` | `Spec => []PromotionIsWhole` | `Backed` again: what the worker wrote is still to copy, or copied, or another execution has won. No guard protects the worktree: a file that vanishes puts the execution in `cut`, and a copy that breaks off never gets to `whole` |
| `SupersededIsNotPromoted` | `Spec => []SupersededNotPromoted` | `Forward`: revisions only grow, so a superseded execution stays superseded and its call finds no match |
| `ApprovalsAreInvalidated` | `Spec => []ApprovalsInvalidated` | `Swept`: the first SELECT that follows the beginning of a replan finds all of them, since decisions are bound to `v1`, which no replan introduces |
| `RunningStagesAreHeld` | `Spec => []RunningHeldUntilReplan` | a running stage has someone in charge: its live row passes it to the sweep, to the worker that has completed it or to the call that has decided, and each of these passes it on or drops it; without a replan there are no others |

`Approvals_proofs` (`ApprovalsAssumption`), for any gates, requests, runs and
faults:

| Theorem | Statement | Argument |
|---|---|---|
| `TypeCorrect` | `Spec => []TypeOK` | with `Known`: no token is of a run to come |
| `DecisionsAreCleared`, `RevocationHolds`, `AnswersAreAudited` | `DecidedByRole`, `RevokedStaysRevoked`, `AuditTrail` | one invariant, `RequestInv`: a request past the check was cleared for its gate and had a token of a run; a void token stays void, since runs that are not under way write nothing and new ones make other tokens; and the log contains who was answered |
| `FilesStayTogether`, `TokensAreKept` | `FilesAgree`, `UnforcedKeepsTokens` | `FilesInv`: while no two runs have met, the files are as the one run under way has left them |

`PolicyGate_proofs` (`PolicyAssumption`), for any manifest, evaluators,
revisions, exceptions and clock:

| Theorem | Statement | Argument |
|---|---|---|
| `TypeCorrect` | `Spec => []TypeOK` | |
| `OutcomeIsUnique` | `Spec => []OneOutcome` | evaluations are only appended, the UNIQUE constraint keeps a second one out |
| `ReadyReleasesAreSound`, `RefusalsHaveReasons` | `ReadyIsSound`, `RefusedForAReason` | `CheckInv` says what each statement of the check has established; `Grows` and `FoundStays` that the steps of the others do not take it back. A policy that was found stale stays a reason: if it is evaluated later, it was not when the check began |

`Analytics_proofs` (`AnalyticsAssumption`), for any redirects, any map from
redirects to codes and any number of crashes and failing statements:

| Theorem | Statement | Argument |
|---|---|---|
| `TypeCorrect` | `Spec => []TypeOK` | with `KnowsRow` |
| `NeverCountedTwice` | `Spec => []CountedOnce` | `OneBump`: at most one task is about to count an event, it is on record as applied and not counted yet; the primary key of `applied_events` keeps out a second one. `OnlyAnswered`: whatever is in the outbox, in a drain's list or in its hands was sent before |
| `AppliedRowsAreCounted` | `Spec => []AppliedIsCountedUntilFault` | without a fault, only the task that inserted the row leaves `bump`, and it does so by the increment; `OneBump` says that no other step touches the event meanwhile |
| `LossesAreDisclosed` | `Spec => []LossDisclosed` | `Orderly`: nothing is applied before it is in the outbox, nothing in the outbox was unsent, and only a serving process has tasks, so a running task loses nothing. `Disclosed`: a loss not covered is announced by the flag, or will be by the next start, which finds the status of a process that did not stop |
| `ImplementsCounter` | `Spec => CounterSpec` | `Tally`: the count of a code is the number of its events that were counted. With it each step is a step of `RedirectCounter` or a stutter |

`ShortLinks_proofs` (`ShortLinksAssumption`), for any requests, keys, payloads
and codes:

| Theorem | Statement | Argument |
|---|---|---|
| `TypeCorrect` | `Spec => []TypeOK` | with `KnowsCode` and `HasKey` |
| `AnswersAlwaysAgree` | `Spec => []AnswersAgree` | `AnswersMatchRecord`: every success under a key, sent or about to be, equals the row of the key; `RecordStays`: the row is written once. Two answers that equal one row agree |
| `CodesAreNeverReused` | `Spec => CodesAreForever` | the maker of a code never changes once there is one. The INSERT asks only whether there is a row, so it rests on an invariant: a code with a maker has a row for ever, as deletion keeps it |
| `RecordedLinksExist` | `Spec => []RecordedLinkExists` | a request that is about to record a key has its link and its summary, and no step takes either away |

`RateLimit_proofs` (`RateLimitAssumption`), for any clients, limit, window and
clock:

| Theorem | Statement | Argument |
|---|---|---|
| `TypeCorrect` | `Spec => []TypeOK` | part of `Inductive` |
| `LimitHolds` | `Spec => []NeverOverLimit` | the property is about the whole history, the code sees its bucket only. `BucketIsSuffix`: the bucket is the end of the sorted history, and what it has forgotten is out of the window; so the entry `Limit` places before a new one is forgotten (`Spaced`) |
| `RefusalsAreDue` | `Spec => []NeverRefusedEarly` | `FullWhenRefused`: the bucket of a client refused at this instant is full of recent entries, and each is an entry of the history |

Only model-checked: liveness (`RunningResolves`, `Settles`), which is out of
reach of the prover: it needs ENABLED and the fairness conditions. All other
properties the passing runs check are theorems. The three runs that end in a
violation show what cannot be proved.

## 5. What is left

An abstract specification of `ShortLinks` (under each key the first link that
was recorded is the answer) and one of `StageExecution` (a stage is executed once
for each time it is made ready), with the two refinements proved. Several
workflows driven by one tick, and pipelines other than the demo's, would be the
next things to model.

### Not modelled

* Several workflows at once, and pipelines other than the one the service seeds:
  a tick drives workflows one by one, and they share no row. General dependency
  graphs are in `StageExecution`.
* The back-off times of `retry_policy.py`, `outcome_detail`, leases as times:
  they change no state a property is about.
* `persistence/retry.py`, `mark_incomplete`: nothing in the service calls them.
  `compensation.py` is a lookup table, the adapter of `launcher.py` refuses to
  run, external validators are blocked.
* Lineage and the evidence endpoints, metrics, health, the analytics endpoint:
  append-only or read-only, with no decision of the code behind them but the
  change-control check, whose verdict is free.
* Request and response schemas, the creation of the tables, the demonstration
  scripts, which call the modelled functions in sequence.
* Identities that tests register in memory, and `is_agent`, which is set for
  those only.
