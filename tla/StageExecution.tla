--------------------------- MODULE StageExecution ---------------------------
(***************************************************************************)
(* The claim / lease / fencing protocol of workflow stages:                *)
(* orchestration/scheduler.py and orchestration/reaper.py.                 *)
(*                                                                         *)
(* Workers, sweepers and operators are clients of one SQLite database.     *)
(* persistence/db.py opens every connection with isolation_level=None, so  *)
(* each SQL statement commits by itself and conn.commit() does nothing: a  *)
(* function of the code with two statements is two actions here, and any   *)
(* other client may run between them.  Only the connections opened by      *)
(* dispatch_ready_stages_parallel use implicit transactions; the workers   *)
(* in DispatchWorkers have those.                                          *)
(*                                                                         *)
(* An execution row is named <<s, k>>: it was inserted by the k-th claim   *)
(* of stage s (the code's uuid, which is fresh for every claim).           *)
(***************************************************************************)
EXTENDS Integers, FiniteSets

CONSTANTS
  Stages,            \* stages of one workflow instance
  DependsOn,         \* DependsOn[s]: the stages s has a dependency edge to
  FallbackOf,        \* FallbackOf[s]: what is run when s is given up, or Null
  Uncertain,         \* stages of effect class externally_observable_uncertain
  Workers,           \* clients that claim and execute stages
  DispatchWorkers,   \* those of them with implicit transactions
  Sweepers,          \* clients that run sweep_stale_leases
  Operators,         \* clients that reconcile, retry and give up stages
  MaxStageAttempts,  \* MAX_STAGE_ATTEMPTS
  MaxClaims,         \* bound: claims of one stage
  MaxCrashes,        \* bound: crashes of the process
  Null               \* "no stage"

ASSUME StagesAssumption ==
  /\ DependsOn \in [Stages -> SUBSET Stages]
  /\ FallbackOf \in [Stages -> Stages \union {Null}]
  /\ Uncertain \subseteq Stages
  /\ Null \notin Stages

ASSUME ClientsAssumption == DispatchWorkers \subseteq Workers

ASSUME BoundsAssumption ==
  /\ MaxStageAttempts \in Nat \ {0}
  /\ MaxClaims \in Nat
  /\ MaxCrashes \in Nat

VARIABLES
  status,     \* orchestration_workflow_stage.status
  attempts,   \* orchestration_workflow_stage.attempt_count
  exec,       \* orchestration_stage_execution.status, "none" before INSERT
  number,     \* orchestration_stage_execution.attempt_number
  expired,    \* rows whose lease_expires_at has passed
  eligible,   \* what compute_ready_stages returned and mark_ready has not written
  worker,     \* the statement each worker is at, and its local variables
  sweep,      \* the rows each sweeper has SELECTed, and the one in hand
  operator,   \* the call each operator is in
  up,         \* the process is running
  crashes,    \* number of crashes so far
  ended,      \* sweepers whose loop a raised statement has ended
  dropped,    \* history: stages dropped by a client that raised, since their claim
  licences,   \* history: how often a stage was made ready
  everDone,   \* history: stages that have been 'succeeded'
  effects     \* the rows of uncertain stages whose worker produced its effect

dbVars     == <<status, attempts, exec, number, expired>>
clientVars == <<eligible, worker, sweep, operator>>
envVars    == <<up, crashes, ended, dropped>>
histVars   == <<licences, everDone, effects>>
vars       == <<dbVars, clientVars, envVars, histVars>>

Claims == 1..MaxClaims
Rows   == Stages \X Claims

StageStatus == {"pending", "ready", "running", "succeeded", "failed_transient",
                "failed_permanent", "awaiting_reconciliation"}
RowStatus   == {"none", "claimed", "completed", "abandoned"}
LiveStatus  == {"claimed"}  \* IN ('claimed','running'): nothing writes 'running'

WorkerPc   == {"idle", "selected", "won", "working", "worked", "acked"}
OperatorPc == {"idle", "retry", "exhaust", "exhausted", "not_completed",
               "already_completed"}

WorkerState   == [pc : WorkerPc, stage : Stages \union {Null}, seen : Nat, claim : Nat]
SweepState    == [rows : SUBSET Rows, moving : SUBSET Rows]
OperatorState == [pc : OperatorPc, stage : Stages \union {Null}]

IdleWorker   == [pc |-> "idle", stage |-> Null, seen |-> 0, claim |-> 0]
IdleSweep    == [rows |-> {}, moving |-> {}]
IdleOperator == [pc |-> "idle", stage |-> Null]

Init ==
  /\ status   = [s \in Stages |-> "pending"]
  /\ attempts = [s \in Stages |-> 0]
  /\ exec     = [s \in Stages |-> [k \in Claims |-> "none"]]
  /\ number   = [s \in Stages |-> [k \in Claims |-> 0]]
  /\ expired  = {}
  /\ eligible = {}
  /\ worker   = [w \in Workers |-> IdleWorker]
  /\ sweep    = [z \in Sweepers |-> IdleSweep]
  /\ operator = [o \in Operators |-> IdleOperator]
  /\ up       = TRUE
  /\ crashes  = 0
  /\ ended    = {}
  /\ dropped  = {}
  /\ licences = [s \in Stages |-> 0]
  /\ everDone = {}
  /\ effects  = {}

-----------------------------------------------------------------------------
(* compute_ready_stages and mark_ready *)

DepsNotPending(s) == \A d \in DependsOn[s] : status[d] # "pending"  \* mutant

DepsSucceeded(s) == \A d \in DependsOn[s] : status[d] = "succeeded"

\* compute_ready_stages: a pending stage all of whose dependencies succeeded.
ComputeReady(s) ==
  /\ up
  /\ s \notin eligible
  /\ status[s] = "pending"
  /\ DepsSucceeded(s)
  /\ eligible' = eligible \union {s}
  /\ UNCHANGED <<dbVars, worker, sweep, operator, envVars, histVars>>

\* mark_ready, guarded by AND status='pending'.
MarkReady(s) ==
  /\ up
  /\ s \in eligible
  /\ eligible' = eligible \ {s}
  /\ \/ /\ status[s] = "pending"
        /\ status' = [status EXCEPT ![s] = "ready"]
        /\ licences' = [licences EXCEPT ![s] = @ + 1]
     \/ /\ status[s] # "pending"
        /\ UNCHANGED <<status, licences>>
  /\ UNCHANGED <<attempts, exec, number, expired, worker, sweep, operator,
                 envVars, everDone, effects>>

-----------------------------------------------------------------------------
(* claim_stage: SELECT, then the compare-and-swap, then the INSERT *)

ClaimSelect(w, s) ==
  /\ up
  /\ worker[w].pc = "idle"
  /\ status[s] = "ready"  \* callers claim stages they have seen ready
  /\ worker' = [worker EXCEPT ![w] = [pc |-> "selected", stage |-> s,
                                      seen |-> attempts[s], claim |-> 0]]
  /\ UNCHANGED <<dbVars, eligible, sweep, operator, envVars, histVars>>

ClaimableOrRunning(s) == status[s] \in {"ready", "running"}  \* mutant

\* The WHERE clause of the compare-and-swap.
Claimable(s) == status[s] = "ready"

\* UPDATE ... SET status='running', attempt_count=attempt_count+1.
ClaimSwap(w) ==
  LET s == worker[w].stage IN
  /\ up
  /\ worker[w].pc = "selected"
  /\ Claimable(s)
  /\ attempts[s] < MaxClaims
  /\ status' = [status EXCEPT ![s] = "running"]
  /\ attempts' = [attempts EXCEPT ![s] = @ + 1]
  /\ worker' = [worker EXCEPT ![w] = [@ EXCEPT !.pc = "won",
                                               !.claim = attempts[s] + 1]]
  /\ dropped' = dropped \ {s}
  /\ UNCHANGED <<exec, number, expired, eligible, sweep, operator, up, crashes,
                 ended, histVars>>

\* The compare-and-swap affected no row: claim_stage returns None.
ClaimLost(w) ==
  /\ up
  /\ worker[w].pc = "selected"
  /\ ~Claimable(worker[w].stage)
  /\ worker' = [worker EXCEPT ![w] = IdleWorker]
  /\ UNCHANGED <<dbVars, eligible, sweep, operator, envVars, histVars>>

NumberAfterSwap(w) == attempts[worker[w].stage] + 1  \* mutant

\* The row's attempt_number comes from the SELECT, not from the swap.
AttemptNumber(w) == worker[w].seen + 1

ClaimInsert(w) ==
  LET s == worker[w].stage
      k == worker[w].claim IN
  /\ up
  /\ worker[w].pc = "won"
  /\ exec' = [exec EXCEPT ![s] = [@ EXCEPT ![k] = "claimed"]]
  /\ number' = [number EXCEPT ![s] = [@ EXCEPT ![k] = AttemptNumber(w)]]
  /\ worker' = [worker EXCEPT ![w] = [@ EXCEPT !.pc = "working"]]
  /\ UNCHANGED <<status, attempts, expired, eligible, sweep, operator, envVars, histVars>>

-----------------------------------------------------------------------------
(* Executing the stage, and complete_stage *)

\* The stage's work: what an uncertain stage changes outside the database.
DoWork(w) ==
  LET s == worker[w].stage
      k == worker[w].claim IN
  /\ up
  /\ worker[w].pc = "working"
  /\ worker' = [worker EXCEPT ![w] = [@ EXCEPT !.pc = "worked"]]
  /\ effects' = IF s \in Uncertain THEN effects \union {<<s, k>>} ELSE effects
  /\ UNCHANGED <<dbVars, eligible, sweep, operator, envVars, licences, everDone>>

\* A worker between the two writes of claim_stage or of complete_stage: if it
\* goes away now, its stage is running and no live row tells of it.
InGap(w) == worker[w].pc \in {"won", "acked"}

\* execute_fn or the next statement raises ("database is locked"), or the task
\* is cancelled: what is written stays, and nobody does the rest.
WorkerFails(w) ==
  /\ up
  /\ worker[w].pc # "idle"
  /\ worker' = [worker EXCEPT ![w] = IdleWorker]
  /\ dropped' = IF InGap(w) THEN dropped \union {worker[w].stage} ELSE dropped
  /\ UNCHANGED <<dbVars, eligible, sweep, operator, up, crashes, ended, histVars>>

FencedIfCompleted(s, k) == exec[s][k] = "completed"  \* mutant

\* Fencing: the row must still be claimed or running.
IsFencedOff(s, k) == exec[s][k] \notin LiveStatus

\* complete_stage, first UPDATE: the execution row.
CompleteRow(w) ==
  LET s == worker[w].stage
      k == worker[w].claim IN
  /\ up
  /\ worker[w].pc = "worked"
  /\ w \notin DispatchWorkers
  /\ ~IsFencedOff(s, k)
  /\ exec' = [exec EXCEPT ![s] = [@ EXCEPT ![k] = "completed"]]
  /\ worker' = [worker EXCEPT ![w] = [@ EXCEPT !.pc = "acked"]]
  /\ UNCHANGED <<status, attempts, number, expired, eligible, sweep, operator,
                 envVars, histVars>>

\* complete_stage, second UPDATE: the stage, whatever its status is by now.
CompleteStage(w) ==
  LET s == worker[w].stage IN
  /\ up
  /\ worker[w].pc = "acked"
  /\ status' = [status EXCEPT ![s] = "succeeded"]
  /\ everDone' = everDone \union {s}
  /\ worker' = [worker EXCEPT ![w] = IdleWorker]
  /\ UNCHANGED <<attempts, exec, number, expired, eligible, sweep, operator,
                 envVars, licences, effects>>

\* complete_stage on a connection with implicit transactions: both at once.
CompleteInTransaction(w) ==
  LET s == worker[w].stage
      k == worker[w].claim IN
  /\ up
  /\ worker[w].pc = "worked"
  /\ w \in DispatchWorkers
  /\ ~IsFencedOff(s, k)
  /\ exec' = [exec EXCEPT ![s] = [@ EXCEPT ![k] = "completed"]]
  /\ status' = [status EXCEPT ![s] = "succeeded"]
  /\ everDone' = everDone \union {s}
  /\ worker' = [worker EXCEPT ![w] = IdleWorker]
  /\ UNCHANGED <<attempts, number, expired, eligible, sweep, operator, envVars,
                 licences, effects>>

\* complete_stage affected no row and returns False.
CompleteFenced(w) ==
  /\ up
  /\ worker[w].pc = "worked"
  /\ IsFencedOff(worker[w].stage, worker[w].claim)
  /\ worker' = [worker EXCEPT ![w] = IdleWorker]
  /\ UNCHANGED <<dbVars, eligible, sweep, operator, envVars, histVars>>

-----------------------------------------------------------------------------
(* sweep_stale_leases: one SELECT, then two UPDATEs for every row found *)

\* The clock passes lease_expires_at of a claimed row.
LeaseExpires(s, k) ==
  /\ exec[s][k] \in LiveStatus
  /\ <<s, k>> \notin expired
  /\ expired' = expired \union {<<s, k>>}
  /\ UNCHANGED <<status, attempts, exec, number, clientVars, envVars, histVars>>

StaleRunningRows == {r \in expired : exec[r[1]][r[2]] = "running"}  \* mutant

\* WHERE status IN ('claimed','running') AND lease_expires_at < now.
StaleRows == {r \in expired : exec[r[1]][r[2]] \in LiveStatus}

SweepSelect(z) ==
  /\ up
  /\ z \notin ended
  /\ sweep[z] = IdleSweep
  /\ StaleRows # {}
  /\ sweep' = [sweep EXCEPT ![z] = [rows |-> StaleRows, moving |-> {}]]
  /\ UNCHANGED <<dbVars, eligible, worker, operator, envVars, histVars>>

\* UPDATE ... SET status='abandoned' WHERE id=?: no check of the row's status.
SweepAbandon(z) ==
  /\ up
  /\ sweep[z].moving = {}
  /\ \E r \in sweep[z].rows :
       /\ exec' = [exec EXCEPT ![r[1]] = [@ EXCEPT ![r[2]] = "abandoned"]]
       /\ sweep' = [sweep EXCEPT ![z] = [rows |-> sweep[z].rows \ {r}, moving |-> {r}]]
  /\ UNCHANGED <<status, attempts, number, expired, eligible, worker, operator,
                 envVars, histVars>>

\* The owning stage, if it is running, whichever claim it is running for.
SweepMove(z) ==
  /\ up
  /\ \E r \in sweep[z].moving :
       /\ status' = [status EXCEPT ![r[1]] =
                       IF @ = "running" THEN "awaiting_reconciliation" ELSE @]
       /\ sweep' = [sweep EXCEPT ![z] = [rows |-> sweep[z].rows,
                                        moving |-> sweep[z].moving \ {r}]]
  /\ UNCHANGED <<attempts, exec, number, expired, eligible, worker, operator,
                 envVars, histVars>>

\* A statement of the sweep, or of the tick around it, raises: scheduler_loop
\* catches only CancelledError and does not come back before the next start.
SweepRaises(z) ==
  /\ up
  /\ z \notin ended
  /\ ended' = ended \union {z}
  /\ dropped' = dropped \union {r[1] : r \in sweep[z].moving}
  /\ sweep' = [sweep EXCEPT ![z] = IdleSweep]
  /\ UNCHANGED <<dbVars, eligible, worker, operator, up, crashes, histVars>>

-----------------------------------------------------------------------------
(* reconcile_stage, issue_retry_or_exhaust and apply_fallback_or_safe_stop *)

EffectHappened(s) == \E k \in Claims : <<s, k>> \in effects

\* Called after an exception, a timeout or a stale lease.  The probe of an
\* uncertain stage tells the truth at the moment it is made.
ReconcileProbe(o, s) ==
  /\ up
  /\ operator[o].pc = "idle"
  /\ status[s] \in {"running", "awaiting_reconciliation"}
  /\ operator' = [operator EXCEPT ![o] =
       [pc |-> IF s \in Uncertain /\ EffectHappened(s)
                 THEN "already_completed" ELSE "not_completed",
        stage |-> s]]
  /\ UNCHANGED <<dbVars, eligible, worker, sweep, envVars, histVars>>

\* The UPDATE of the stage carries no condition on its status, and the
\* execution row keeps the status it has.
ReconcileWrite(o) ==
  LET s == operator[o].stage
      done == operator[o].pc = "already_completed" IN
  /\ up
  /\ operator[o].pc \in {"not_completed", "already_completed"}
  /\ status' = [status EXCEPT ![s] = IF done THEN "succeeded" ELSE "failed_transient"]
  /\ everDone' = IF done THEN everDone \union {s} ELSE everDone
  /\ operator' = [operator EXCEPT ![o] = IdleOperator]
  /\ UNCHANGED <<attempts, exec, number, expired, eligible, worker, sweep,
                 envVars, licences, effects>>

BeyondBudget(s) == attempts[s] > MaxStageAttempts  \* mutant

BudgetSpent(s) == attempts[s] >= MaxStageAttempts

\* issue_retry_or_exhaust raises ValueError unless the stage is failed_transient.
RetrySelect(o, s) ==
  /\ up
  /\ operator[o].pc = "idle"
  /\ status[s] = "failed_transient"
  /\ operator' = [operator EXCEPT ![o] =
       [pc |-> IF BudgetSpent(s) THEN "exhaust" ELSE "retry",
        stage |-> s]]
  /\ UNCHANGED <<dbVars, eligible, worker, sweep, envVars, histVars>>

RetryWrite(o) ==
  LET s == operator[o].stage IN
  /\ up
  /\ operator[o].pc = "retry"
  /\ status' = [status EXCEPT ![s] = "ready"]
  /\ licences' = [licences EXCEPT ![s] = @ + 1]
  /\ operator' = [operator EXCEPT ![o] = IdleOperator]
  /\ UNCHANGED <<attempts, exec, number, expired, eligible, worker, sweep,
                 envVars, everDone, effects>>

ExhaustedStatus == "failed_permanent"

ExhaustWrite(o) ==
  LET s == operator[o].stage IN
  /\ up
  /\ operator[o].pc = "exhaust"
  /\ status' = [status EXCEPT ![s] = ExhaustedStatus]
  /\ operator' = [operator EXCEPT ![o] =
       IF FallbackOf[s] = Null THEN IdleOperator ELSE [pc |-> "exhausted", stage |-> s]]
  /\ UNCHANGED <<attempts, exec, number, expired, eligible, worker, sweep,
                 envVars, histVars>>

\* apply_fallback_or_safe_stop, for a stage with a fallback: whatever the fallback
\* stage is doing, and whether or not its dependencies have succeeded.
ApplyFallback(o) ==
  LET f == FallbackOf[operator[o].stage] IN
  /\ up
  /\ operator[o].pc = "exhausted"
  /\ status' = [status EXCEPT ![f] = "ready"]
  /\ licences' = [licences EXCEPT ![f] = @ + 1]
  /\ operator' = [operator EXCEPT ![o] = IdleOperator]
  /\ UNCHANGED <<attempts, exec, number, expired, eligible, worker, sweep,
                 envVars, everDone, effects>>

\* The write that a call has come to raises.
OperatorRaises(o) ==
  /\ up
  /\ operator[o].pc # "idle"
  /\ operator' = [operator EXCEPT ![o] = IdleOperator]
  /\ UNCHANGED <<dbVars, eligible, worker, sweep, envVars, histVars>>

-----------------------------------------------------------------------------
(* Crash of the process, and recover_on_startup at the next start *)

Crash ==
  /\ up
  /\ crashes < MaxCrashes
  /\ up' = FALSE
  /\ crashes' = crashes + 1
  /\ eligible' = {}
  /\ worker'   = [w \in Workers |-> IdleWorker]
  /\ sweep'    = [z \in Sweepers |-> IdleSweep]
  /\ operator' = [o \in Operators |-> IdleOperator]
  /\ UNCHANGED <<dbVars, ended, dropped, histVars>>

KeepStatus(s) == status[s]  \* mutant

\* recover_on_startup: a stage found running is forced to failed_transient.
RecoveredStatus(s) == IF status[s] = "running" THEN "failed_transient" ELSE status[s]

Restart ==
  /\ ~up
  /\ up' = TRUE
  /\ status' = [s \in Stages |-> RecoveredStatus(s)]
  /\ ended' = {}
  /\ dropped' = {}
  /\ UNCHANGED <<attempts, exec, number, expired, clientVars, crashes, histVars>>

-----------------------------------------------------------------------------
WorkerStep(w) ==
  \/ \E s \in Stages : ClaimSelect(w, s)
  \/ ClaimSwap(w)
  \/ ClaimLost(w)
  \/ ClaimInsert(w)
  \/ DoWork(w)
  \/ WorkerFails(w)
  \/ CompleteRow(w)
  \/ CompleteStage(w)
  \/ CompleteInTransaction(w)
  \/ CompleteFenced(w)

SweepStep(z) == SweepSelect(z) \/ SweepAbandon(z) \/ SweepMove(z) \/ SweepRaises(z)

OperatorStep(o) ==
  \/ \E s \in Stages : ReconcileProbe(o, s) \/ RetrySelect(o, s)
  \/ ReconcileWrite(o)
  \/ RetryWrite(o)
  \/ ExhaustWrite(o)
  \/ ApplyFallback(o)
  \/ OperatorRaises(o)

Next ==
  \/ \E s \in Stages : ComputeReady(s) \/ MarkReady(s)
  \/ \E w \in Workers : WorkerStep(w)
  \/ \E s \in Stages, k \in Claims : LeaseExpires(s, k)
  \/ \E z \in Sweepers : SweepStep(z)
  \/ \E o \in Operators : OperatorStep(o)
  \/ Crash
  \/ Restart

Spec == Init /\ [][Next]_vars

\* A client inside a function comes to its next statement, which may raise
\* instead; the clock moves; a sweeper whose loop has not ended sweeps again; a
\* crashed process is started again.  Nothing is assumed of the stage's own work
\* (it may hang), of the claiming of further stages or of operators beginning calls,
\* and no statement is assumed to succeed.
Fairness ==
  /\ \A w \in Workers : WF_vars(ClaimInsert(w)) /\ WF_vars(CompleteStage(w))
  /\ \A s \in Stages, k \in Claims : WF_vars(LeaseExpires(s, k))
  /\ \A z \in Sweepers : WF_vars(SweepSelect(z) \/ SweepAbandon(z) \/ SweepMove(z))
  /\ WF_vars(Restart)

FairSpec == Spec /\ Fairness

-----------------------------------------------------------------------------
(* Properties *)

\* Every variable has its type.
TypeOK ==
  /\ status \in [Stages -> StageStatus]
  /\ attempts \in [Stages -> 0..MaxClaims]
  /\ exec \in [Stages -> [Claims -> RowStatus]]
  /\ number \in [Stages -> [Claims -> Nat]]
  /\ expired \in SUBSET Rows
  /\ eligible \in SUBSET Stages
  /\ worker \in [Workers -> WorkerState]
  /\ sweep \in [Sweepers -> SweepState]
  /\ operator \in [Operators -> OperatorState]
  /\ up \in BOOLEAN
  /\ crashes \in 0..MaxCrashes
  /\ ended \in SUBSET Sweepers
  /\ dropped \in SUBSET Stages
  /\ licences \in [Stages -> Nat]
  /\ everDone \in SUBSET Stages
  /\ effects \in SUBSET Rows

\* s is held by a worker between its compare-and-swap and its last statement,
\* by a live execution row the sweep can find, or by a sweep about to move it.
HeldByWorker(s) == \E w \in Workers : worker[w].stage = s /\ InGap(w)
HeldByRow(s)    == \E k \in Claims : exec[s][k] \in LiveStatus
HeldBySweep(s)  == \E z \in Sweepers, k \in Claims : <<s, k>> \in sweep[z].moving

\* While the process is up, a running stage has someone who will move it on,
\* unless a client has raised between two writes for this very stage since it was
\* claimed.  claim_stage, complete_stage and sweep_stale_leases each write the stage
\* and the execution row in separate statements; no interleaving of these, of
\* the unguarded writes of reconcile and retry and of a crash leaves a stage
\* 'running' with no live row and nobody in charge.  A raise in a gap does.
RunningHasHolder ==
  up => \A s \in Stages : status[s] = "running" =>
          HeldByWorker(s) \/ HeldByRow(s) \/ HeldBySweep(s) \/ s \in dropped

\* Each time a stage is made ready (mark_ready, a retry, a fallback) licenses at most one
\* claim: two workers never win on the same 'ready'.
ClaimsAreLicensed ==
  \A s \in Stages :
    attempts[s] + (IF status[s] = "ready" THEN 1 ELSE 0) <= licences[s]

\* attempt_number is computed from a value read before the compare-and-swap:
\* it may lag behind the claim that inserted the row, but it never runs ahead
\* of it, and the stage's attempt_count is never behind any row.
AttemptNumberNeverAhead ==
  \A s \in Stages, k \in Claims : exec[s][k] # "none" =>
    /\ number[s][k] \in 1..k
    /\ k <= attempts[s]

\* Stages that are run instead of others.
Fallbacks == {FallbackOf[s] : s \in Stages}

\* issue_retry_or_exhaust reads the attempt count and writes 'ready' in two
\* statements.  Concurrent callers overshoot MAX_STAGE_ATTEMPTS by at most one
\* claim for every caller but the first; a single caller never does.  (Only a
\* fallback is made ready without regard to its count.)
RetryBudget ==
  \A s \in Stages \ Fallbacks : attempts[s] <= MaxStageAttempts + Cardinality(Operators) - 1

\* A stage is claimed only if every stage it depends on has succeeded before
\* (compute_ready_stages), however the reading of the dependencies, the
\* marking and the claim interleave with the other clients.  (Nor does a fallback
\* wait for its dependencies.)
RunsAfterDependencies ==
  \A s \in Stages \ Fallbacks : attempts[s] > 0 => DependsOn[s] \subseteq everDone

\* Fencing: a row that the sweep abandoned stays abandoned, so the worker
\* that comes late with its result cannot complete it.
AbandonedIsFinal ==
  [][\A s \in Stages, k \in Claims :
        exec[s][k] = "abandoned" => exec'[s][k] = "abandoned"]_vars

\* A stage does not stay 'running' forever, even if the worker hangs, dies or
\* raises, the lease has to run out first or the process crashes on the way; unless
\* a client raised between two writes for this stage, or a raise has ended the
\* loop of every sweeper: then it stays until the next start.
RunningResolves ==
  \A s \in Stages :
    (status[s] = "running")
      ~> (status[s] # "running" \/ s \in dropped \/ Sweepers \subseteq ended)
=============================================================================
