----------------------------- MODULE PolicyGate -----------------------------
(***************************************************************************)
(* The mandatory policies of one workflow and its release: policy/live.py, *)
(* policy/evaluator.py, policy/exception.py.                               *)
(*                                                                         *)
(* Callers evaluate for the revision they began with, however late they    *)
(* are; is_release_ready reads the clock, the failures, an exception for   *)
(* each, and the latest evaluation of each policy in statements of their   *)
(* own.  The verdict of a check depends on files and on the history of the *)
(* workflow, and is free here.                                             *)
(***************************************************************************)
EXTENDS Integers, Sequences, FiniteSets

CONSTANTS
  Manifest,       \* the policies of config/policies.yaml, in order
  Evaluators,     \* callers of run_mandatory_policy_checks
  MaxRevisions,   \* bound: artifact revisions
  MaxExceptions,  \* bound: calls of create_exception
  MaxTime         \* bound: the clock

ASSUME PolicyAssumption ==
  /\ Manifest \in Seq(STRING) /\ Manifest # <<>>
  /\ MaxRevisions \in Nat \ {0}
  /\ MaxExceptions \in Nat
  /\ MaxTime \in Nat

Policies == {Manifest[i] : i \in 1..Len(Manifest)}
Outcomes == {"PASS", "FAIL", "NOT-APPLICABLE"}

\* What the check function of a policy can return; one without a function of its
\* own is not applicable, as release-readiness is.
Verdicts(p) == CASE p = "dependency-secret-scan" -> Outcomes
                 [] p = "change-control"         -> {"PASS", "FAIL"}
                 [] OTHER                        -> {"NOT-APPLICABLE"}

Revisions   == 1..MaxRevisions
Evaluations == [policy : Policies, rev : Revisions, outcome : Outcomes]

VARIABLES
  evals,       \* the rows of policy_evaluation, in order of their ids
  exceptions,  \* policy_exception: evaluation id and expires_at
  current,     \* the artifact revision
  eval,        \* the statement each evaluator is at, and its local variables
  check,       \* the same for is_release_ready
  clock,
  before       \* history: number of evals, and exceptions, when the check began

world == <<current, clock>>
vars  == <<evals, exceptions, world, eval, check, before>>

EvalState ==
  [pc : {"idle", "check"}, rev : Revisions, at : 1..Len(Manifest)]

IdleEval == [pc |-> "idle", rev |-> 1, at |-> 1]

IdleCheck == [pc |-> "idle", rev |-> 1, now |-> 0, fails |-> {}, at |-> 1, ok |-> TRUE]

Init ==
  /\ evals = <<>>
  /\ exceptions = {}
  /\ current = 1
  /\ eval = [e \in Evaluators |-> IdleEval]
  /\ check = IdleCheck
  /\ clock = 0
  /\ before = [evals |-> 0, exceptions |-> {}]

Ids == 1..Len(evals)

-----------------------------------------------------------------------------
(* Time, replanning, exceptions *)

TimePasses ==
  /\ clock < MaxTime
  /\ clock' = clock + 1
  /\ UNCHANGED <<evals, exceptions, current, eval, check, before>>

Replan ==
  /\ current < MaxRevisions
  /\ current' = current + 1
  /\ UNCHANGED <<evals, exceptions, clock, eval, check, before>>

\* create_exception, by whoever has authorized it.
CreateException ==
  /\ Cardinality(exceptions) < MaxExceptions
  /\ \E i \in Ids, t \in 1..MaxTime :
       exceptions' = exceptions \union {[of |-> i, until |-> t]}
  /\ UNCHANGED <<evals, world, eval, check, before>>

-----------------------------------------------------------------------------
(* run_mandatory_policy_checks *)

Policy(e) == Manifest[eval[e].at]

BeginEvaluation(e) ==
  /\ eval[e].pc = "idle"
  /\ eval' = [eval EXCEPT ![e] = [IdleEval EXCEPT !.pc = "check", !.rev = current]]
  /\ UNCHANGED <<evals, exceptions, world, check, before>>

NeverOnRecord(p, r) == FALSE  \* mutant

\* UNIQUE (workflow_instance_id, policy_id, artifact_revision)
OnRecord(p, r) == \E i \in Ids : evals[i].policy = p /\ evals[i].rev = r

\* evaluate_policy: the check, INSERT OR IGNORE, and the next of the manifest.
EvaluatePolicy(e) ==
  /\ eval[e].pc = "check"
  /\ \E verdict \in Verdicts(Policy(e)) :
       evals' = IF OnRecord(Policy(e), eval[e].rev) THEN evals
                ELSE Append(evals, [policy |-> Policy(e), rev |-> eval[e].rev,
                                    outcome |-> verdict])
  /\ eval' = [eval EXCEPT ![e] =
                IF eval[e].at < Len(Manifest)
                  THEN [eval[e] EXCEPT !.at = @ + 1] ELSE IdleEval]
  /\ UNCHANGED <<exceptions, world, check, before>>

-----------------------------------------------------------------------------
(* is_release_ready *)

\* One check: it writes nothing, so that another one finds what this one might.
BeginCheck ==
  /\ check.pc = "idle"
  /\ check' = [IdleCheck EXCEPT !.pc = "fails", !.rev = current, !.now = clock]
  /\ before' = [evals |-> Len(evals), exceptions |-> exceptions]
  /\ UNCHANGED <<evals, exceptions, world, eval>>

\* has_unresolved_fail looks at failures of any revision.
Fails == {i \in Ids : evals[i].outcome = "FAIL"}

SelectFails ==
  /\ check.pc = "fails"
  /\ check' = [check EXCEPT !.pc = "cover", !.fails = Fails]
  /\ UNCHANGED <<evals, exceptions, world, eval, before>>

ExpiredLater(x, t) == x.until < t  \* mutant

\* is_expired
Expired(x, t) == x.until <= t

CoveredByExpired(i) ==  \* mutant
  \E x \in exceptions : x.of = i /\ Expired(x, check.now)

Covered(i) == \E x \in exceptions : x.of = i /\ ~Expired(x, check.now)

\* One failure after the other; the first without a valid exception decides.
CheckFail ==
  /\ check.pc = "cover"
  /\ \E i \in check.fails :
       /\ \A j \in check.fails : i <= j
       /\ check' = IF Covered(i)
                     THEN [check EXCEPT !.fails = @ \ {i}]
                     ELSE [check EXCEPT !.fails = {}, !.ok = FALSE]
  /\ UNCHANGED <<evals, exceptions, world, eval, before>>

FailsDone ==
  /\ check.pc = "cover"
  /\ check.fails = {}
  /\ check' = [check EXCEPT !.pc = "latest"]
  /\ UNCHANGED <<evals, exceptions, world, eval, before>>

\* ORDER BY id DESC LIMIT 1
LatestIs(p, r) ==
  \E i \in Ids : /\ evals[i].policy = p /\ evals[i].rev = r
                 /\ \A j \in Ids : evals[j].policy = p => j <= i

CheckLatest ==
  LET ok == check.ok /\ LatestIs(Manifest[check.at], check.rev) IN
  /\ check.pc = "latest"
  /\ check' = IF check.at < Len(Manifest)
                THEN [check EXCEPT !.ok = ok, !.at = @ + 1]
                ELSE [check EXCEPT !.ok = ok, !.pc = IF ok THEN "ready" ELSE "refused"]
  /\ UNCHANGED <<evals, exceptions, world, eval, before>>

-----------------------------------------------------------------------------
CheckStep == BeginCheck \/ SelectFails \/ CheckFail \/ FailsDone \/ CheckLatest

Next ==
  \/ TimePasses \/ Replan \/ CreateException
  \/ \E e \in Evaluators : BeginEvaluation(e) \/ EvaluatePolicy(e)
  \/ CheckStep

Spec == Init /\ [][Next]_vars

-----------------------------------------------------------------------------
(* Properties *)

CheckState ==
  [pc : {"idle", "fails", "cover", "latest", "ready", "refused"}, rev : Revisions,
   now : 0..MaxTime, fails : SUBSET Nat, at : 1..Len(Manifest), ok : BOOLEAN]

\* Every variable has its type.
TypeOK ==
  /\ evals \in Seq(Evaluations)
  /\ exceptions \in SUBSET [of : Ids, until : 1..MaxTime]
  /\ current \in Revisions
  /\ eval \in [Evaluators -> EvalState]
  /\ check \in CheckState
  /\ clock \in 0..MaxTime
  /\ before.evals \in 0..Len(evals)
  /\ before.exceptions \subseteq exceptions

\* evaluate_policy: "only the first insert for a given triple ever lands".
\* However many callers evaluate, with different verdicts and late, a policy has
\* one outcome for each revision.
OneOutcome ==
  \A i, j \in Ids :
    evals[i].policy = evals[j].policy /\ evals[i].rev = evals[j].rev => i = j

\* is_release_ready, "no": a release that is refused has a failure, on record by
\* now, that no exception covered when the check began, or a policy whose latest
\* evaluation was, or by now is, not of this revision.
RefusedForAReason ==
  check.pc = "refused" =>
    \/ \E i \in Fails : ~\E x \in before.exceptions : x.of = i /\ ~Expired(x, check.now)
    \/ \E p \in Policies :
         \/ ~LatestIs(p, check.rev)
         \/ ~\E i \in 1..before.evals : evals[i].policy = p /\ evals[i].rev = check.rev

\* is_release_ready, "yes": each policy has been evaluated for the revision that
\* is released, and each failure of whatever revision that was on record when the
\* check began has an exception that had not expired by then.  (A failure that is
\* recorded while the check is at work may be missed.)
ReadyIsSound ==
  check.pc = "ready" =>
    /\ \A p \in Policies : OnRecord(p, check.rev)
    /\ \A i \in 1..before.evals : evals[i].outcome = "FAIL" =>
         \E x \in exceptions : x.of = i /\ check.now < x.until
=============================================================================
