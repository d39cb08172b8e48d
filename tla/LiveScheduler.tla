--------------------------- MODULE LiveScheduler ----------------------------
(***************************************************************************)
(* The background scheduler at work on one workflow of the demo pipeline:  *)
(* orchestration/live_scheduler.py, orchestration/branching.py, the seeding *)
(* of the pipeline by POST /workflows, and the mandatory policy checks.    *)
(*                                                                         *)
(* Every statement commits by itself (persistence/db.py), and the request  *)
(* handler that seeds the pipeline runs in a thread of its own: a tick may *)
(* come between any two of its INSERTs.  The process may crash between any *)
(* two statements; a restart runs recover_on_startup and ticks again.      *)
(*                                                                         *)
(* StageExecution models the claim protocol to the last detail, for any    *)
(* clients; here a claim is its compare-and-swap and its INSERT.           *)
(***************************************************************************)
EXTENDS Integers, Sequences

CONSTANTS
  Tickers,  \* callers of tick(): one scheduler_loop for each process
  Settings  \* the circumstances to consider, one of which is chosen at the start

ASSUME SchedulerAssumption ==
  Settings \subseteq
    [tickers   : SUBSET Tickers,  \* processes that run a scheduler_loop
     seedFirst : BOOLEAN,  \* the first tick comes after create_workflow has returned
     stalls    : BOOLEAN,  \* a tick may be held up for longer than a lease (30 s)
     claims    : Nat,      \* bound: claims of one stage
     crashes   : Nat,      \* bound: crashes of the process
     raises    : Nat,      \* bound: ticks that raise
     stops     : Nat,      \* bound: calls of apply_fallback_or_safe_stop
     resumes   : Nat]      \* bound: calls of resume_from_safe_stop

Stages == {"intake", "classify", "proceed_path", "hold_path"}

\* The statements of _seed_auto_execute_pipeline, in order: each stage, its
\* dependency edge, and for a conditional branch its preconditions.
Script ==
  << <<"stage", "intake">>,
     <<"stage", "classify">>,     <<"edge", "classify">>,
     <<"stage", "proceed_path">>, <<"edge", "proceed_path">>, <<"cond", "proceed_path">>,
     <<"stage", "hold_path">>,    <<"edge", "hold_path">>,    <<"cond", "hold_path">> >>

\* The other end of each edge, and the decision each branch waits for.
Parent == [classify |-> "intake", proceed_path |-> "classify", hold_path |-> "classify"]
Wants  == [proceed_path |-> "proceed", hold_path |-> "hold"]

\* config/policies.yaml, and what the check of each policy can return.
Manifest == <<"dependency-secret-scan", "change-control", "release-readiness">>
Policies == {Manifest[i] : i \in 1..Len(Manifest)}
Outcomes == {"PASS", "FAIL", "NOT-APPLICABLE"}
Verdicts(p) == CASE p = "dependency-secret-scan" -> Outcomes
                 [] p = "change-control"         -> {"PASS", "FAIL"}
                 [] p = "release-readiness"      -> {"NOT-APPLICABLE"}

VARIABLES
  wf,        \* orchestration_workflow_instance.status
  seeded,    \* statements of Script that have been executed
  seeding,   \* the request that executes them is still running
  status,    \* orchestration_workflow_stage.status
  attempts,  \* orchestration_workflow_stage.attempt_count
  outcome,   \* postconditions of classify: its decision, or "none"
  live,      \* execution rows <<stage, claim>> in status 'claimed'
  checks,    \* policy_evaluation.outcome of each policy, "none" before INSERT
  tick,      \* the statement each tick is at, and its local variables
  up,        \* the process is running
  faults,    \* crashes, raised ticks, safe-stops and resumes so far
  setting    \* the circumstances of this behavior

envVars == <<up, faults, setting>>
vars == <<wf, seeded, seeding, status, attempts, outcome, live, checks, tick, envVars>>

TickPc == {"idle", "sweep", "gate", "check", "block", "compute", "eligible", "claim",
           "won", "work", "worked", "acked", "branch", "judge", "decide", "finish",
           "dead"}

TickState ==
  [pc     : TickPc,
   rows   : SUBSET (Stages \X (1..setting.claims)),  \* stale rows left to sweep
   moving : SUBSET Stages,                      \* stage of the row just swept
   policy : 1..Len(Manifest),                   \* policy to evaluate
   failed : BOOLEAN,                            \* "FAIL" in outcomes.values()
   todo   : SUBSET Stages,                      \* rows of the query in hand
   found  : SUBSET Stages,                      \* newly_eligible
   stage  : Stages \union {"none"},             \* stage being executed
   claim  : 0..setting.claims,                       \* and which claim of it
   kids   : SUBSET Stages,                      \* dependents left to judge
   child  : Stages \union {"none"}]             \* dependent found pending

Idle == [pc |-> "idle", rows |-> {}, moving |-> {}, policy |-> 1, failed |-> FALSE,
         todo |-> {}, found |-> {}, stage |-> "none", claim |-> 0, kids |-> {},
         child |-> "none"]

Init ==
  /\ setting \in Settings
  /\ wf = "running"
  /\ seeded = IF setting.seedFirst THEN Len(Script) ELSE 0
  /\ seeding = ~setting.seedFirst
  /\ status = [s \in Stages |-> "pending"]
  /\ attempts = [s \in Stages |-> 0]
  /\ outcome = "none"
  /\ live = {}
  /\ checks = [p \in Policies |-> "none"]
  /\ tick = [t \in Tickers |-> Idle]
  /\ up = TRUE
  /\ faults = [crashes |-> 0, raises |-> 0, stops |-> 0, resumes |-> 0]

Executed(kind, s) == \E i \in 1..seeded : Script[i] = <<kind, s>>
Inserted  == {s \in Stages : Executed("stage", s)}
InStatus(set) == {s \in Inserted : status[s] \in set}
Conditional(s) == Executed("cond", s)

At(t, pc) == up /\ t \in setting.tickers /\ tick[t].pc = pc

-----------------------------------------------------------------------------
(* create_workflow: the workflow is 'running' before it has a stage *)

Seed ==
  /\ up
  /\ seeding
  /\ seeded < Len(Script)
  /\ seeded' = seeded + 1
  /\ seeding' = (seeded' < Len(Script))
  /\ UNCHANGED <<wf, status, attempts, outcome, live, checks, tick, envVars>>

-----------------------------------------------------------------------------
(* tick: sweep_stale_leases, then the list of running workflows *)

\* Rows whose lease may have expired: those a dead process left, and the row a
\* tick is working on only if ticks stall.
MayExpire ==
  {r \in live : setting.stalls \/ \A t \in Tickers : r # <<tick[t].stage, tick[t].claim>>}

\* SELECT of the rows whose lease has expired.
TickStart(t) ==
  /\ At(t, "idle")
  /\ \E stale \in SUBSET MayExpire :
       tick' = [tick EXCEPT ![t] = [Idle EXCEPT !.pc = "sweep", !.rows = stale]]
  /\ UNCHANGED <<wf, seeded, seeding, status, attempts, outcome, live, checks, envVars>>

SweepAbandon(t) ==
  /\ At(t, "sweep")
  /\ tick[t].moving = {}
  /\ \E r \in tick[t].rows :
       /\ live' = live \ {r}
       /\ tick' = [tick EXCEPT ![t].rows = @ \ {r}, ![t].moving = {r[1]}]
  /\ UNCHANGED <<wf, seeded, seeding, status, attempts, outcome, checks, envVars>>

SweepMove(t) ==
  /\ At(t, "sweep")
  /\ \E s \in tick[t].moving :
       status' = [status EXCEPT ![s] =
                    IF @ = "running" THEN "awaiting_reconciliation" ELSE @]
  /\ tick' = [tick EXCEPT ![t].moving = {}]
  /\ UNCHANGED <<wf, seeded, seeding, attempts, outcome, live, checks, envVars>>

\* Only a workflow that is running now is driven.
ListRunning(t) ==
  /\ At(t, "sweep")
  /\ tick[t].rows = {}
  /\ tick[t].moving = {}
  /\ tick' = [tick EXCEPT ![t].pc = IF wf = "running" THEN "gate" ELSE "idle"]
  /\ UNCHANGED <<wf, seeded, seeding, status, attempts, outcome, live, checks, envVars>>

-----------------------------------------------------------------------------
(* _drive_workflow, first part: the mandatory policies *)

\* The policies are evaluated if there is no evaluation on record at all.
Gate(t) ==
  /\ At(t, "gate")
  /\ tick' = [tick EXCEPT ![t].pc =
                IF \A p \in Policies : checks[p] = "none" THEN "check" ELSE "compute"]
  /\ UNCHANGED <<wf, seeded, seeding, status, attempts, outcome, live, checks, envVars>>

LastOutcomeFails(t, verdict) == verdict = "FAIL"  \* mutant

AnyOutcomeFails(t, verdict) == tick[t].failed \/ verdict = "FAIL"

\* The next policy, if there is one, or the end of the loop.
AfterPolicy(i, failed) ==
  CASE i < Len(Manifest) -> "check"
    [] i = Len(Manifest) /\ failed -> "block"
    [] i = Len(Manifest) /\ ~failed -> "compute"

\* One policy: its check, and INSERT OR IGNORE of the result.  What the tick
\* remembers is what it computed, whichever row the INSERT has left in place.
EvaluatePolicy(t) ==
  LET i == tick[t].policy
      p == Manifest[i] IN
  /\ At(t, "check")
  /\ \E verdict \in Verdicts(p) :
       LET failed == AnyOutcomeFails(t, verdict) IN
       /\ checks' = [checks EXCEPT ![p] = IF @ = "none" THEN verdict ELSE @]
       /\ tick' = [tick EXCEPT
            ![t].failed = failed,
            ![t].policy = IF i < Len(Manifest) THEN i + 1 ELSE i,
            ![t].pc = AfterPolicy(i, failed)]
  /\ UNCHANGED <<wf, seeded, seeding, status, attempts, outcome, live, envVars>>

\* UPDATE ... SET status='safe_stopped', whatever the status is by now.
Block(t) ==
  /\ At(t, "block")
  /\ wf' = "safe_stopped"
  /\ tick' = [tick EXCEPT ![t] = Idle]
  /\ UNCHANGED <<seeded, seeding, status, attempts, outcome, live, checks, envVars>>

-----------------------------------------------------------------------------
(* _drive_workflow, second part: compute_ready_stages, mark_ready *)

SelectPending(t) ==
  /\ At(t, "compute")
  /\ tick' = [tick EXCEPT ![t].pc = "eligible", ![t].todo = InStatus({"pending"})]
  /\ UNCHANGED <<wf, seeded, seeding, status, attempts, outcome, live, checks, envVars>>

ParentStarted(s) == Executed("edge", s) => status[Parent[s]] # "pending"  \* mutant

\* No edge on record, or the count of succeeded dependencies equals that of the
\* edges (a stage has at most one).
ParentSucceeded(s) == Executed("edge", s) => status[Parent[s]] = "succeeded"

CheckEligible(t) ==
  /\ At(t, "eligible")
  /\ \E s \in tick[t].todo :
       tick' = [tick EXCEPT ![t].todo = @ \ {s},
                            ![t].found = IF ParentSucceeded(s) THEN @ \union {s} ELSE @]
  /\ UNCHANGED <<wf, seeded, seeding, status, attempts, outcome, live, checks, envVars>>

MarkReady(t) ==
  /\ At(t, "eligible")
  /\ tick[t].todo = {}
  /\ \E s \in tick[t].found :
       /\ status' = [status EXCEPT ![s] = IF @ = "pending" THEN "ready" ELSE @]
       /\ tick' = [tick EXCEPT ![t].found = @ \ {s}]
  /\ UNCHANGED <<wf, seeded, seeding, attempts, outcome, live, checks, envVars>>

NewlyEligibleOnly == {s \in InStatus({"ready"}) : ~Conditional(s)}  \* mutant

\* Every stage in 'ready', also one that a branch decision put there.
ReadyStages == InStatus({"ready"})

SelectReady(t) ==
  /\ At(t, "eligible")
  /\ tick[t].todo = {}
  /\ tick[t].found = {}
  /\ tick' = [tick EXCEPT ![t].pc = "claim", ![t].todo = ReadyStages]
  /\ UNCHANGED <<wf, seeded, seeding, status, attempts, outcome, live, checks, envVars>>

-----------------------------------------------------------------------------
(* _drive_workflow, third part: claim, execute, complete, decide branches *)

Claim(t) ==
  /\ At(t, "claim")
  /\ \E s \in tick[t].todo :
       \/ /\ status[s] = "ready"
          /\ attempts[s] < setting.claims
          /\ status' = [status EXCEPT ![s] = "running"]
          /\ attempts' = [attempts EXCEPT ![s] = @ + 1]
          /\ tick' = [tick EXCEPT ![t].pc = "won", ![t].todo = @ \ {s},
                                  ![t].stage = s, ![t].claim = attempts[s] + 1]
       \/ /\ status[s] # "ready"
          /\ tick' = [tick EXCEPT ![t].todo = @ \ {s}]
          /\ UNCHANGED <<status, attempts>>
  /\ UNCHANGED <<wf, seeded, seeding, outcome, live, checks, envVars>>

InsertRow(t) ==
  /\ At(t, "won")
  /\ live' = live \union {<<tick[t].stage, tick[t].claim>>}
  /\ tick' = [tick EXCEPT ![t].pc = "work"]
  /\ UNCHANGED <<wf, seeded, seeding, status, attempts, outcome, checks, envVars>>

\* _execute_stage_safely
Execute(t) ==
  /\ At(t, "work")
  /\ outcome' = IF tick[t].stage = "classify" THEN "proceed" ELSE outcome
  /\ tick' = [tick EXCEPT ![t].pc = "worked"]
  /\ UNCHANGED <<wf, seeded, seeding, status, attempts, live, checks, envVars>>

\* complete_stage, first statement.  When it is fenced off nothing else is
\* written, but the tick does not look at the result and goes on.
CompleteRow(t) ==
  LET row == <<tick[t].stage, tick[t].claim>> IN
  /\ At(t, "worked")
  /\ live' = live \ {row}
  /\ tick' = [tick EXCEPT ![t].pc = IF row \in live THEN "acked" ELSE "branch"]
  /\ UNCHANGED <<wf, seeded, seeding, status, attempts, outcome, checks, envVars>>

CompleteStage(t) ==
  /\ At(t, "acked")
  /\ status' = [status EXCEPT ![tick[t].stage] = "succeeded"]
  /\ tick' = [tick EXCEPT ![t].pc = "branch"]
  /\ UNCHANGED <<wf, seeded, seeding, attempts, outcome, live, checks, envVars>>

\* evaluate_branch_conditions: the dependents of the stage that was executed.
SelectDependents(t) ==
  /\ At(t, "branch")
  /\ tick' = [tick EXCEPT ![t].pc = "judge",
       ![t].kids = {s \in DOMAIN Parent :
                      Executed("edge", s) /\ Parent[s] = tick[t].stage}]
  /\ UNCHANGED <<wf, seeded, seeding, status, attempts, outcome, live, checks, envVars>>

ConditionalAtAll(s) == Conditional(s)  \* mutant

\* A dependent that is no longer pending, or has no condition, is left alone.
Undecided(s) == status[s] = "pending" /\ Conditional(s)

ReadChild(t) ==
  /\ At(t, "judge")
  /\ \E c \in tick[t].kids :
       tick' = [tick EXCEPT ![t].kids = @ \ {c},
                            ![t].pc = IF Undecided(c) THEN "decide" ELSE @,
                            ![t].child = IF Undecided(c) THEN c ELSE @]
  /\ UNCHANGED <<wf, seeded, seeding, status, attempts, outcome, live, checks, envVars>>

BranchLabel(c) == IF outcome = Wants[c] THEN "selected" ELSE "skipped"  \* mutant

SelectAnyOutcome(c) == IF outcome # "none" THEN "ready" ELSE "skipped"  \* mutant

\* A condition that is false, or has no outcome to look at, skips the branch.
BranchStatus(c) == IF outcome = Wants[c] THEN "ready" ELSE "skipped"

\* The UPDATE does not repeat the check that the dependent is pending.
DecideChild(t) ==
  /\ At(t, "decide")
  /\ status' = [status EXCEPT ![tick[t].child] = BranchStatus(tick[t].child)]
  /\ tick' = [tick EXCEPT ![t].pc = "judge", ![t].child = "none"]
  /\ UNCHANGED <<wf, seeded, seeding, attempts, outcome, live, checks, envVars>>

NextStage(t) ==
  /\ At(t, "judge")
  /\ tick[t].kids = {}
  /\ tick' = [tick EXCEPT ![t].pc = "claim", ![t].stage = "none", ![t].claim = 0]
  /\ UNCHANGED <<wf, seeded, seeding, status, attempts, outcome, live, checks, envVars>>

-----------------------------------------------------------------------------
(* _drive_workflow, last part: is anything left to do? *)

Unfinished == {"pending", "ready", "running", "awaiting_reconciliation"}

CountUnfinished(t) ==
  /\ At(t, "claim")
  /\ tick[t].todo = {}
  /\ tick' = [tick EXCEPT ![t] =
       [Idle EXCEPT !.pc = IF InStatus(Unfinished) = {} THEN "finish" ELSE "idle"]]
  /\ UNCHANGED <<wf, seeded, seeding, status, attempts, outcome, live, checks, envVars>>

Finish(t) ==
  /\ At(t, "finish")
  /\ wf' = IF wf = "running" THEN "completed" ELSE wf
  /\ tick' = [tick EXCEPT ![t] = Idle]
  /\ UNCHANGED <<seeded, seeding, status, attempts, outcome, live, checks, envVars>>

-----------------------------------------------------------------------------
(* apply_fallback_or_safe_stop, resume_from_safe_stop, crash, and the lifespan *)
(* of the next process                                                        *)

\* Whoever gives up a stage without a fallback (one with a fallback is modelled
\* in StageExecution) stops the workflow, whatever its status; a tick that is
\* driving it does not look.
SafeStop ==
  /\ up
  /\ faults.stops < setting.stops
  /\ wf' = "safe_stopped"
  /\ faults' = [faults EXCEPT !.stops = @ + 1]
  /\ UNCHANGED <<seeded, seeding, status, attempts, outcome, live, checks, tick,
                 up, setting>>

Resume ==
  /\ up
  /\ faults.resumes < setting.resumes
  /\ wf = "safe_stopped"
  /\ wf' = "running"
  /\ faults' = [faults EXCEPT !.resumes = @ + 1]
  /\ UNCHANGED <<seeded, seeding, status, attempts, outcome, live, checks, tick,
                 up, setting>>

\* A statement of a tick raises ('database is locked', once the busy timeout is
\* over).  scheduler_loop catches cancellation only: it ends, and the process
\* serves requests without a scheduler until it is started again.
TickRaises(t) ==
  /\ up
  /\ t \in setting.tickers
  /\ tick[t].pc # "dead"
  /\ faults.raises < setting.raises
  /\ faults' = [faults EXCEPT !.raises = @ + 1]
  /\ tick' = [tick EXCEPT ![t] = [Idle EXCEPT !.pc = "dead"]]
  /\ UNCHANGED <<wf, seeded, seeding, status, attempts, outcome, live, checks,
                 up, setting>>

Crash ==
  /\ up
  /\ faults.crashes < setting.crashes
  /\ up' = FALSE
  /\ faults' = [faults EXCEPT !.crashes = @ + 1]
  /\ seeding' = FALSE
  /\ tick' = [t \in Tickers |-> Idle]
  /\ UNCHANGED <<wf, seeded, status, attempts, outcome, live, checks, setting>>

RecoverUnsucceeded(s) ==  \* mutant
  IF status[s] # "succeeded" THEN "failed_transient" ELSE status[s]

RecoverToReady(s) == IF status[s] = "running" THEN "ready" ELSE status[s]  \* mutant

\* recover_on_startup
RecoveredStatus(s) == IF status[s] = "running" THEN "failed_transient" ELSE status[s]

Restart ==
  /\ ~up
  /\ up' = TRUE
  /\ status' = [s \in Stages |-> RecoveredStatus(s)]
  /\ UNCHANGED <<wf, seeded, seeding, attempts, outcome, live, checks, tick,
                 faults, setting>>

-----------------------------------------------------------------------------
TickStep(t) ==
  \/ TickStart(t) \/ SweepAbandon(t) \/ SweepMove(t) \/ ListRunning(t)
  \/ Gate(t) \/ EvaluatePolicy(t) \/ Block(t)
  \/ SelectPending(t) \/ CheckEligible(t) \/ MarkReady(t) \/ SelectReady(t)
  \/ Claim(t) \/ InsertRow(t) \/ Execute(t) \/ CompleteRow(t) \/ CompleteStage(t)
  \/ SelectDependents(t) \/ ReadChild(t) \/ DecideChild(t) \/ NextStage(t)
  \/ CountUnfinished(t) \/ Finish(t)

Next ==
  \/ Seed
  \/ \E t \in Tickers : TickStep(t) \/ TickRaises(t)
  \/ SafeStop
  \/ Resume
  \/ Crash
  \/ Restart

Spec == Init /\ [][Next]_vars

\* scheduler_loop ticks for as long as the process runs, a tick has nothing to
\* wait for but the database, and a request handler runs to its end.
Fairness ==
  /\ WF_vars(Seed)
  /\ WF_vars(Restart)
  /\ \A t \in Tickers : WF_vars(TickStep(t))

FairSpec == Spec /\ Fairness

-----------------------------------------------------------------------------
(* Properties *)

StageStatus == {"pending", "ready", "running", "succeeded", "skipped",
                "failed_transient", "awaiting_reconciliation"}

\* Every variable has its type.
TypeOK ==
  /\ wf \in {"running", "safe_stopped", "completed"}
  /\ seeded \in 0..Len(Script)
  /\ seeding \in BOOLEAN
  /\ status \in [Stages -> StageStatus]
  /\ attempts \in [Stages -> 0..setting.claims]
  /\ outcome \in {"none", "proceed"}
  /\ live \in SUBSET (Stages \X (1..setting.claims))
  /\ checks \in [Policies -> Outcomes \union {"none"}]
  /\ tick \in [Tickers -> TickState]
  /\ up \in BOOLEAN
  /\ setting \in Settings
  /\ faults \in [crashes : 0..setting.crashes, raises : 0..setting.raises,
                 stops : 0..setting.stops, resumes : 0..setting.resumes]

\* One process ticks, and starts with the pipeline on record or with none of it.
OneProcess == \E t \in Tickers : setting.tickers = {t}
Alone == OneProcess /\ setting.seedFirst

\* _drive_workflow promises "no duplicate work" (live_scheduler.py): in one
\* process no stage is executed twice, though it can be made ready by mark_ready
\* and by a branch decision, and a crash or an exception can interrupt the tick
\* or the seeding anywhere.
ExecutedOnce == OneProcess => \A s \in Stages : attempts[s] <= 1

\* evaluate_branch_conditions: in one process a branch that was skipped is never
\* decided again, by a later tick or after a restart.
DecisionIsFinal ==
  [][OneProcess =>
       \A s \in Stages : status[s] = "skipped" => status'[s] = "skipped"]_vars

Taken == {"ready", "running", "succeeded", "failed_transient"}

\* add_conditional_branch: of the branches of one group at most one is taken,
\* and a completed workflow has taken one.
ExactlyOneBranch ==
  /\ ~(status["proceed_path"] \in Taken /\ status["hold_path"] \in Taken)
  /\ wf = "completed" =>
       status["proceed_path"] \in Taken \/ status["hold_path"] \in Taken

\* The branch decision comes after the statement that completes the stage: it is
\* exclusive as long as no crash and no other process comes between the two, even
\* if a tick raises there.
OneBranchUntilCrash == Alone /\ faults.crashes = 0 => ExactlyOneBranch

\* FR-304: once a mandatory policy has FAIL on record no stage is claimed,
\* until the workflow is resumed on purpose.
FailBlocks ==
  faults.resumes = 0 /\ (\E p \in Policies : checks[p] = "FAIL") =>
    \A s \in Stages : attempts[s] = 0

\* The FAIL is recorded before the workflow is stopped: it blocks every stage as
\* long as no crash and no other process comes between the two.
FailBlocksUntilCrash == OneProcess /\ faults.crashes = 0 => FailBlocks

\* compute_ready_stages: a stage is claimed only after its parent has succeeded,
\* however many ticks run at once and whichever of them decides the branches.
RunsAfterParent ==
  setting.seedFirst /\ ~setting.stalls =>
    \A s \in DOMAIN Parent : attempts[s] > 0 => status[Parent[s]] = "succeeded"

\* Unless the process crashes or a tick raises, every workflow reaches 'completed'
\* or is safe-stopped for good, also one that ticks began to drive before it was
\* fully seeded or that was stopped in the middle of a tick and resumed, and
\* however often two ticks take claims from each other.
Settles ==
  <>(faults.crashes + faults.raises > 0) \/ <>[](wf # "running")

\* The scheduler of one process implements WorkflowLifecycle, the abstract life
\* of a workflow and its stages, unless it is stopped from outside: the tick in
\* hand goes on then.  Nothing is claimed of such settings: there the abstract
\* workflow is one that never moves.
Undisturbed == Alone /\ setting.stops = 0

Lifecycle == INSTANCE WorkflowLifecycle WITH
  Stages <- Stages,
  wf     <- IF Undisturbed THEN wf ELSE "running",
  status <- IF Undisturbed THEN status ELSE [s \in Stages |-> "pending"]
LifecycleSpec == Lifecycle!Spec
=============================================================================
