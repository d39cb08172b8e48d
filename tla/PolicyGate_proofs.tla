-------------------------- MODULE PolicyGate_proofs --------------------------
(***************************************************************************)
(* Proofs about PolicyGate, for any manifest, evaluators, revisions,        *)
(* exceptions and clock.                                                    *)
(*                                                                         *)
(* Evaluations are only ever appended, and the UNIQUE constraint keeps a    *)
(* second one of a policy and revision out.  What the release check has     *)
(* found in one statement therefore stays true, or leaves a reason behind,  *)
(* while the others are executed.                                           *)
(***************************************************************************)
EXTENDS PolicyGate, TLAPS

LEMMA ManifestFacts ==
  /\ Len(Manifest) \in Nat \ {0}
  /\ 1 \in Revisions
  /\ \A k \in 1..Len(Manifest) : Manifest[k] \in Policies
<1>1. Len(Manifest) \in Nat \ {0}
  BY PolicyAssumption
<1>2. QED
  BY <1>1, PolicyAssumption DEF Revisions, Policies

LEMMA VerdictsAreOutcomes == \A p : Verdicts(p) \subseteq Outcomes
  BY DEF Verdicts, Outcomes

\* evals is appended to, if anything.
Grows ==
  /\ Len(evals) <= Len(evals')
  /\ \A i \in Ids : evals'[i] = evals[i]

LEMMA AppendGrows ==
  ASSUME NEW S, NEW s \in Seq(S), NEW x \in S
  PROVE  /\ Append(s, x) \in Seq(S)
         /\ Len(Append(s, x)) = Len(s) + 1
         /\ Len(s) \in Nat
         /\ \A i \in 1..Len(s) : Append(s, x)[i] = s[i]
         /\ Append(s, x)[Len(s) + 1] = x
  OBVIOUS

\* What a step of an evaluator does to the evaluations.
LEMMA EvaluationAppends ==
  ASSUME TypeOK, NEW e \in Evaluators, EvaluatePolicy(e)
  PROVE  \/ UNCHANGED evals
         \/ \E x \in Evaluations :
              /\ ~OnRecord(x.policy, x.rev)
              /\ evals' = Append(evals, x)
<1>1. PICK verdict \in Verdicts(Policy(e)) :
         evals' = IF OnRecord(Policy(e), eval[e].rev) THEN evals
                  ELSE Append(evals, [policy |-> Policy(e), rev |-> eval[e].rev,
                                      outcome |-> verdict])
  BY DEF EvaluatePolicy
<1> DEFINE x == [policy |-> Policy(e), rev |-> eval[e].rev, outcome |-> verdict]
<1>2. eval[e].at \in 1..Len(Manifest) /\ eval[e].rev \in Revisions
  BY DEF TypeOK, EvalState
<1>3. Policy(e) \in Policies /\ verdict \in Outcomes
  BY <1>2, ManifestFacts, VerdictsAreOutcomes DEF Policy
<1>4. x \in Evaluations /\ x.policy = Policy(e) /\ x.rev = eval[e].rev
  BY <1>2, <1>3 DEF Evaluations
<1>5. QED
  BY <1>1, <1>4

LEMMA Growth ==
  ASSUME TypeOK, [Next]_vars
  PROVE  /\ Grows
         /\ exceptions \subseteq exceptions'
         /\ evals' \in Seq(Evaluations)
         /\ \/ UNCHANGED evals
            \/ \E x \in Evaluations :
                 /\ ~OnRecord(x.policy, x.rev)
                 /\ evals' = Append(evals, x)
<1>0. evals \in Seq(Evaluations)
  BY DEF TypeOK
<1>1. ASSUME NEW e \in Evaluators, EvaluatePolicy(e)
      PROVE  exceptions \subseteq exceptions'
  BY <1>1 DEF EvaluatePolicy
<1>2. ASSUME NEW e \in Evaluators, BeginEvaluation(e)
      PROVE  UNCHANGED <<evals, exceptions>>
  BY <1>2 DEF BeginEvaluation
<1>3. ASSUME TimePasses \/ Replan \/ CheckStep \/ UNCHANGED vars
      PROVE  UNCHANGED <<evals, exceptions>>
  BY <1>3 DEF TimePasses, Replan, CheckStep, BeginCheck, SelectFails, CheckFail, FailsDone,
     CheckLatest, vars
<1>4. ASSUME CreateException PROVE UNCHANGED evals /\ exceptions \subseteq exceptions'
  BY <1>4 DEF CreateException
<1>5. /\ exceptions \subseteq exceptions'
      /\ \/ UNCHANGED evals
         \/ \E x \in Evaluations :
              /\ ~OnRecord(x.policy, x.rev)
              /\ evals' = Append(evals, x)
  BY <1>1, <1>2, <1>3, <1>4, EvaluationAppends DEF Next
<1>6. CASE UNCHANGED evals
  BY <1>0, <1>5, <1>6 DEF Grows, Ids
<1>7. ASSUME NEW x \in Evaluations, ~OnRecord(x.policy, x.rev), evals' = Append(evals, x)
      PROVE  Grows /\ evals' \in Seq(Evaluations)
  BY <1>0, <1>7, AppendGrows DEF Grows, Ids
<1>8. QED
  BY <1>5, <1>6, <1>7

-----------------------------------------------------------------------------
(* Types *)

LEMMA TypeInit == Init => TypeOK
<1> SUFFICES ASSUME Init PROVE TypeOK
  OBVIOUS
<1>1. check \in CheckState
  BY ManifestFacts, PolicyAssumption DEF Init, IdleCheck, CheckState
<1>2. eval \in [Evaluators -> EvalState]
  BY ManifestFacts DEF Init, IdleEval, EvalState
<1>3. QED
  BY <1>1, <1>2, ManifestFacts, PolicyAssumption DEF Init, TypeOK, Ids

LEMMA TypeNext == TypeOK /\ [Next]_vars => TypeOK'
<1> SUFFICES ASSUME TypeOK, [Next]_vars PROVE TypeOK'
  OBVIOUS
<1>1. evals' \in Seq(Evaluations) /\ Len(evals) \in Nat /\ Len(evals') \in Nat
      /\ Len(evals) <= Len(evals') /\ exceptions \subseteq exceptions'
  BY Growth DEF TypeOK, Grows
<1>2. exceptions \in SUBSET [of : Ids', until : 1..MaxTime]
  BY <1>1 DEF TypeOK, Ids
\* A step that leaves the exceptions, the evaluators and the check alone.
<1>3. ASSUME TimePasses \/ Replan \/ UNCHANGED vars PROVE TypeOK'
  BY <1>1, <1>2, <1>3, PolicyAssumption
  DEF TypeOK, TimePasses, Replan, vars, world, Revisions, CheckState
<1>4. ASSUME CreateException PROVE TypeOK'
  <2>1. PICK i \in Ids, t \in 1..MaxTime :
           exceptions' = exceptions \union {[of |-> i, until |-> t]}
    BY <1>4 DEF CreateException
  <2>2. exceptions' \in SUBSET [of : Ids', until : 1..MaxTime]
    BY <1>1, <1>2, <2>1 DEF Ids
  <2>3. QED
    BY <1>1, <1>4, <2>2 DEF TypeOK, CreateException, world
<1>5. ASSUME NEW e \in Evaluators, BeginEvaluation(e) PROVE TypeOK'
  <2> DEFINE r == [IdleEval EXCEPT !.pc = "check", !.rev = current]
  <2>1. r \in EvalState
    <3>1. IdleEval \in EvalState
      BY ManifestFacts DEF IdleEval, EvalState
    <3>2. current \in Revisions
      BY DEF TypeOK
    <3>3. QED
      BY <3>1, <3>2 DEF EvalState
  <2>2. eval' = [eval EXCEPT ![e] = r]
    BY <1>5 DEF BeginEvaluation
  <2> HIDE DEF r
  <2>3. eval' \in [Evaluators -> EvalState]
    BY <2>1, <2>2 DEF TypeOK
  <2>4. QED
    BY <1>1, <1>2, <1>5, <2>3 DEF TypeOK, BeginEvaluation, world
<1>6. ASSUME NEW e \in Evaluators, EvaluatePolicy(e) PROVE TypeOK'
  <2> DEFINE r == IF eval[e].at < Len(Manifest)
                    THEN [eval[e] EXCEPT !.at = eval[e].at + 1]
                    ELSE IdleEval
  <2>1. r \in EvalState
    <3>1. eval[e] \in EvalState
      BY DEF TypeOK
    <3>2. IdleEval \in EvalState
      BY ManifestFacts DEF IdleEval, EvalState
    <3>3. eval[e].at < Len(Manifest) => eval[e].at + 1 \in 1..Len(Manifest)
      BY <3>1, ManifestFacts DEF EvalState
    <3>4. QED
      BY <3>1, <3>2, <3>3 DEF EvalState
  <2>2. eval' = [eval EXCEPT ![e] = r]
    BY <1>6 DEF EvaluatePolicy
  <2> HIDE DEF r
  <2>3. eval' \in [Evaluators -> EvalState]
    BY <2>1, <2>2 DEF TypeOK
  <2>4. QED
    BY <1>1, <1>2, <1>6, <2>3 DEF TypeOK, EvaluatePolicy, world
<1>7. ASSUME CheckStep PROVE TypeOK'
  <2>1. check' \in CheckState
    <3>1. check \in CheckState
      BY DEF TypeOK
    <3>2. CASE BeginCheck
      <4>1. IdleCheck \in CheckState
        BY ManifestFacts, PolicyAssumption DEF IdleCheck, CheckState
      <4>2. current \in Revisions /\ clock \in 0..MaxTime
        BY DEF TypeOK
      <4>3. QED
        BY <3>2, <4>1, <4>2 DEF BeginCheck, CheckState
    <3>3. CASE SelectFails
      <4>1. Fails \in SUBSET Nat
        BY DEF Fails, Ids
      <4>2. QED
        BY <3>1, <3>3, <4>1 DEF SelectFails, CheckState
    <3>4. CASE CheckFail
      BY <3>1, <3>4 DEF CheckFail, CheckState
    <3>5. CASE FailsDone
      BY <3>1, <3>5 DEF FailsDone, CheckState
    <3>6. CASE CheckLatest
      <4> DEFINE ok == check.ok /\ LatestIs(Manifest[check.at], check.rev)
      <4>1. ok \in BOOLEAN
        BY <3>1 DEF CheckState, LatestIs
      <4>2. check' = IF check.at < Len(Manifest)
                       THEN [check EXCEPT !.ok = ok, !.at = check.at + 1]
                       ELSE [check EXCEPT !.ok = ok, !.pc = IF ok THEN "ready" ELSE "refused"]
        BY <3>6 DEF CheckLatest
      <4> HIDE DEF ok
      <4>3. check.at < Len(Manifest) => check.at + 1 \in 1..Len(Manifest)
        BY <3>1, ManifestFacts DEF CheckState
      <4>4. QED
        BY <3>1, <4>1, <4>2, <4>3 DEF CheckState
    <3>7. QED
      BY <1>7, <3>2, <3>3, <3>4, <3>5, <3>6 DEF CheckStep
  <2>2. /\ UNCHANGED <<evals, exceptions, current, clock, eval>>
        /\ before' = [evals |-> Len(evals), exceptions |-> exceptions] \/ UNCHANGED before
    BY <1>7 DEF CheckStep, BeginCheck, SelectFails, CheckFail, FailsDone, CheckLatest, world
  <2>3. QED
    BY <1>1, <1>2, <2>1, <2>2 DEF TypeOK, Ids
<1>8. QED
  BY <1>3, <1>4, <1>5, <1>6, <1>7 DEF Next

\* Every variable keeps its type.
THEOREM TypeCorrect == Spec => []TypeOK
  BY TypeInit, TypeNext, PTL DEF Spec

-----------------------------------------------------------------------------
(* One outcome for each policy and revision *)

LEMMA OneOutcomeNext == TypeOK /\ OneOutcome /\ [Next]_vars => OneOutcome'
<1> SUFFICES ASSUME TypeOK, OneOutcome, [Next]_vars PROVE OneOutcome'
  OBVIOUS
<1>1. CASE UNCHANGED evals
  BY <1>1 DEF OneOutcome, Ids
<1>2. ASSUME NEW x \in Evaluations, ~OnRecord(x.policy, x.rev), evals' = Append(evals, x)
      PROVE  OneOutcome'
  <2>1. evals \in Seq(Evaluations)
    BY DEF TypeOK
  <2>2. /\ Len(evals') = Len(evals) + 1
        /\ Len(evals) \in Nat
        /\ \A i \in 1..Len(evals) : evals'[i] = evals[i]
        /\ evals'[Len(evals) + 1] = x
    BY <1>2, <2>1, AppendGrows
  <2>3. \A i \in 1..Len(evals) : ~(evals[i].policy = x.policy /\ evals[i].rev = x.rev)
    BY <1>2 DEF OnRecord, Ids
  <2>4. \A i \in 1..Len(evals') : i \in 1..Len(evals) \/ i = Len(evals) + 1
    BY <2>2
  <2>5. QED
    BY <2>2, <2>3, <2>4 DEF OneOutcome, Ids
<1>3. QED
  BY <1>1, <1>2, Growth

\* evaluate_policy: of all who evaluate a policy for a revision, with whatever
\* verdicts and however late, one puts an outcome on record.
THEOREM OutcomeIsUnique == Spec => []OneOutcome
<1>1. Init => OneOutcome
  BY DEF Init, OneOutcome, Ids
<1>2. QED
  BY <1>1, TypeInit, TypeNext, OneOutcomeNext, PTL DEF Spec

-----------------------------------------------------------------------------
(* The release check *)

\* An exception for evaluation i had not expired when the check read the clock.
Excused(i) == \E x \in exceptions : x.of = i /\ check.now < x.until

Uncovered(i) == ~\E x \in before.exceptions : x.of = i /\ ~Expired(x, check.now)

\* Policy p was not evaluated for the revision of the check when it began, or its
\* latest evaluation is of another one.
Stale(p) ==
  \/ ~LatestIs(p, check.rev)
  \/ ~\E i \in 1..before.evals : evals[i].policy = p /\ evals[i].rev = check.rev

Reason == (\E i \in Fails : Uncovered(i)) \/ (\E p \in Policies : Stale(p))

\* The failures that were on record when the check began are excused, or among
\* those in S.
OldFailsIn(S) ==
  \A i \in 1..before.evals : evals[i].outcome = "FAIL" => i \in S \/ Excused(i)

\* The first n policies of the manifest have been evaluated.
Recorded(n) == \A k \in 1..n : OnRecord(Manifest[k], check.rev)

\* What the check has established by each of its statements.
CheckInv ==
  /\ check.pc \in {"fails", "cover"} => check.at = 1
  /\ check.pc = "fails" => check.ok
  /\ check.pc = "cover" => check.fails \subseteq Fails
  /\ check.pc = "cover" /\ check.ok => OldFailsIn(check.fails)
  /\ check.pc \in {"latest", "ready"} /\ check.ok => OldFailsIn({})
  /\ check.pc = "latest" /\ check.ok => Recorded(check.at - 1)
  /\ check.pc = "ready" => check.ok /\ Recorded(Len(Manifest))
  /\ check.pc = "refused" => ~check.ok
  /\ ~check.ok => Reason

\* Other steps do not take back what the check has established.
LEMMA FoundStays ==
  ASSUME TypeOK, [Next]_vars, UNCHANGED <<check, before>>
  PROVE  /\ \A S : OldFailsIn(S) => OldFailsIn(S)'
         /\ \A n : Recorded(n) => Recorded(n)'
         /\ Reason => Reason'
         /\ Fails \subseteq Fails'
<1>1. /\ Len(evals) \in Nat /\ Len(evals') \in Nat /\ Len(evals) <= Len(evals')
      /\ \A i \in Ids : i \in Ids' /\ evals'[i] = evals[i]
      /\ exceptions \subseteq exceptions'
  BY Growth DEF TypeOK, Grows, Ids
<1>2. before.evals \in 0..Len(evals) /\ \A i \in 1..before.evals : i \in Ids
  BY <1>1 DEF TypeOK, Ids
<1>3. ASSUME NEW S, OldFailsIn(S) PROVE OldFailsIn(S)'
  BY <1>1, <1>2, <1>3 DEF OldFailsIn, Excused
<1>4. ASSUME NEW n, Recorded(n) PROVE Recorded(n)'
  BY <1>1, <1>4 DEF Recorded, OnRecord
<1>5. ASSUME NEW i \in Fails, Uncovered(i) PROVE i \in Fails' /\ Uncovered(i)'
  BY <1>1, <1>5 DEF Fails, Uncovered, Expired
<1>6. ASSUME NEW p \in Policies, Stale(p) PROVE Stale(p)'
  <2>1. CASE ~\E i \in 1..before.evals : evals[i].policy = p /\ evals[i].rev = check.rev
    BY <1>1, <1>2, <2>1 DEF Stale
  <2>2. CASE /\ ~LatestIs(p, check.rev)
             /\ \E i \in 1..before.evals : evals[i].policy = p /\ evals[i].rev = check.rev
    <3>1. OnRecord(p, check.rev)
      BY <1>2, <2>2 DEF OnRecord
    <3>2. CASE UNCHANGED evals
      BY <2>2, <3>2 DEF Stale, LatestIs, Ids
    <3>3. ASSUME NEW x \in Evaluations, ~OnRecord(x.policy, x.rev),
                 evals' = Append(evals, x)
          PROVE  ~LatestIs(p, check.rev)'
      <4>1. /\ Len(evals') = Len(evals) + 1
            /\ evals'[Len(evals) + 1] = x
        BY <3>3, AppendGrows DEF TypeOK
      <4>2. ~(x.policy = p /\ x.rev = check.rev)
        BY <3>1, <3>3
      <4>3. SUFFICES ASSUME NEW i \in Ids', evals'[i].policy = p, evals'[i].rev = check.rev,
                            \A j \in Ids' : evals'[j].policy = p => j <= i
                     PROVE  FALSE
        BY DEF LatestIs
      <4>4. i \in Ids
        BY <1>1, <4>1, <4>2, <4>3 DEF Ids
      <4>5. \A j \in Ids : evals[j].policy = p => j <= i
        BY <1>1, <4>3
      <4>6. QED
        BY <1>1, <2>2, <4>3, <4>4, <4>5 DEF LatestIs
    <3>4. QED
      BY <3>2, <3>3, Growth DEF Stale
  <2>3. QED
    BY <1>6, <2>1, <2>2 DEF Stale
<1>7. QED
  BY <1>1, <1>3, <1>4, <1>5, <1>6 DEF Reason, Fails

LEMMA CheckInvNext == TypeOK /\ CheckInv /\ [Next]_vars => CheckInv'
<1> SUFFICES ASSUME TypeOK, CheckInv, [Next]_vars PROVE CheckInv'
  OBVIOUS
<1>1. CASE UNCHANGED <<check, before>>
  <2>1. /\ \A S : OldFailsIn(S) => OldFailsIn(S)'
        /\ \A n : Recorded(n) => Recorded(n)'
        /\ Reason => Reason'
        /\ Fails \subseteq Fails'
    BY <1>1, FoundStays
  <2>2. QED
    BY <1>1, <2>1 DEF CheckInv
<1>2. CASE BeginCheck
  BY <1>2 DEF BeginCheck, IdleCheck, CheckInv
<1>3. ASSUME ~BeginCheck, CheckStep PROVE UNCHANGED <<evals, exceptions, before>>
  BY <1>3 DEF CheckStep, SelectFails, CheckFail, FailsDone, CheckLatest
<1>4. check \in CheckState
  BY DEF TypeOK
\* The steps of the check change neither the clock it has read nor its revision.
<1>5. ASSUME UNCHANGED <<evals, exceptions, before>>, check'.now = check.now,
             check'.rev = check.rev
      PROVE  /\ \A S : OldFailsIn(S)' <=> OldFailsIn(S)
             /\ \A n : Recorded(n)' <=> Recorded(n)
             /\ Reason' <=> Reason
             /\ Fails' = Fails
  BY <1>5 DEF OldFailsIn, Excused, Recorded, OnRecord, Reason, Uncovered, Stale, Fails,
     LatestIs, Ids, Expired
<1>6. CASE SelectFails
  <2>1. /\ check'.pc = "cover" /\ check'.fails = Fails /\ check'.ok = check.ok
        /\ check'.at = check.at /\ check'.now = check.now /\ check'.rev = check.rev
        /\ UNCHANGED <<evals, exceptions, before>>
    BY <1>4, <1>6 DEF SelectFails, CheckState
  <2>2. OldFailsIn(Fails)
    BY DEF OldFailsIn, Fails, Ids, TypeOK
  <2>3. QED
    BY <1>5, <1>6, <2>1, <2>2 DEF CheckInv, SelectFails
<1>7. CASE CheckFail
  <2>1. PICK i \in check.fails :
          check' = IF Covered(i) THEN [check EXCEPT !.fails = check.fails \ {i}]
                                 ELSE [check EXCEPT !.fails = {}, !.ok = FALSE]
    BY <1>7 DEF CheckFail
  <2>2. /\ check'.pc = "cover" /\ check.pc = "cover" /\ check'.at = check.at
        /\ check'.now = check.now /\ check'.rev = check.rev
        /\ UNCHANGED <<evals, exceptions, before>>
    BY <1>4, <1>7, <2>1 DEF CheckFail, CheckState
  <2>3. CASE Covered(i)
    <3>1. check'.fails = check.fails \ {i} /\ check'.ok = check.ok
      BY <1>4, <2>1, <2>3 DEF CheckState
    <3>2. Excused(i)
      <4>1. PICK x \in exceptions : x.of = i /\ ~(x.until <= check.now)
        BY <2>3 DEF Covered, Expired
      <4>2. x.until \in Int /\ check.now \in Int
        BY <1>4, PolicyAssumption DEF TypeOK, CheckState
      <4>3. QED
        BY <4>1, <4>2 DEF Excused
    <3>3. OldFailsIn(check.fails) => OldFailsIn(check.fails \ {i})
      BY <3>2 DEF OldFailsIn
    <3>4. QED
      BY <1>5, <2>2, <3>1, <3>3 DEF CheckInv
  <2>4. CASE ~Covered(i)
    <3>1. ~check'.ok
      BY <1>4, <2>1, <2>4 DEF CheckState
    <3>2. check'.fails = {}
      BY <1>4, <2>1, <2>4 DEF CheckState
    <3>3. i \in Fails /\ Uncovered(i)
      BY <2>2, <2>4 DEF CheckInv, TypeOK, Covered, Uncovered
    <3>4. Reason
      BY <3>3 DEF Reason
    <3>5. QED
      BY <1>5, <2>2, <3>1, <3>2, <3>4 DEF CheckInv
  <2>5. QED
    BY <2>3, <2>4
<1>8. CASE FailsDone
  <2>1. /\ check'.pc = "latest" /\ check'.at = check.at /\ check'.ok = check.ok
        /\ check'.now = check.now /\ check'.rev = check.rev
        /\ check.pc = "cover" /\ check.fails = {}
        /\ UNCHANGED <<evals, exceptions, before>>
    BY <1>4, <1>8 DEF FailsDone, CheckState
  <2>2. Recorded(0)
    BY DEF Recorded
  <2>3. QED
    BY <1>5, <2>1, <2>2 DEF CheckInv
<1>9. CASE CheckLatest
  <2> DEFINE p == Manifest[check.at]
             ok == check.ok /\ LatestIs(p, check.rev)
  <2>1. check' = IF check.at < Len(Manifest)
                   THEN [check EXCEPT !.ok = ok, !.at = check.at + 1]
                   ELSE [check EXCEPT !.ok = ok, !.pc = IF ok THEN "ready" ELSE "refused"]
    BY <1>9 DEF CheckLatest
  <2>2. check.pc = "latest" /\ UNCHANGED <<evals, exceptions, before>>
    BY <1>9 DEF CheckLatest
  <2>3. p \in Policies /\ check.at \in 1..Len(Manifest)
    BY <1>4, ManifestFacts DEF CheckState
  <2>4. ok => check.ok /\ OnRecord(p, check.rev)
    BY DEF LatestIs, OnRecord
  <2>5. ~ok => Reason
    BY <2>3 DEF CheckInv, Reason, Stale
  <2>6. ok => Recorded(check.at)
    BY <2>2, <2>3, <2>4, ManifestFacts DEF CheckInv, Recorded
  <2> HIDE DEF ok, p
  <2>7. /\ check'.ok = ok /\ check'.now = check.now /\ check'.rev = check.rev
        /\ \/ check'.pc = "latest" /\ check'.at = check.at + 1
           \/ check'.pc = "ready" /\ ok /\ check.at = Len(Manifest)
           \/ check'.pc = "refused" /\ ~ok
    BY <1>4, <2>1, <2>2, <2>3, ManifestFacts DEF CheckState
  <2>8. /\ \A S : OldFailsIn(S)' <=> OldFailsIn(S)
        /\ \A n : Recorded(n)' <=> Recorded(n)
        /\ Reason' <=> Reason
    BY <1>5, <2>2, <2>7
  <2>9. ok => OldFailsIn({})
    BY <2>2, <2>4 DEF CheckInv
  <2>10. CASE check'.pc = "latest" /\ check'.at = check.at + 1
    <3>1. check'.at - 1 = check.at
      BY <2>3, <2>10, ManifestFacts
    <3>2. check'.ok => Recorded(check.at - 1)'
      BY <2>6, <2>7, <2>8, <3>1 DEF Recorded
    <3>3. QED
      BY <2>5, <2>7, <2>8, <2>9, <2>10, <3>2 DEF CheckInv
  <2>11. CASE check'.pc = "ready" /\ ok /\ check.at = Len(Manifest)
    <3>1. Recorded(Len(Manifest))'
      BY <2>6, <2>8, <2>11
    <3>2. QED
      BY <2>5, <2>7, <2>8, <2>9, <2>11, <3>1 DEF CheckInv
  <2>12. CASE check'.pc = "refused" /\ ~ok
    BY <2>5, <2>7, <2>8, <2>12 DEF CheckInv
  <2>13. QED
    BY <2>7, <2>10, <2>11, <2>12
<1>10. ASSUME \/ TimePasses \/ Replan \/ CreateException \/ UNCHANGED vars
              \/ \E e \in Evaluators : BeginEvaluation(e) \/ EvaluatePolicy(e)
       PROVE  UNCHANGED <<check, before>>
  BY <1>10 DEF TimePasses, Replan, CreateException, BeginEvaluation, EvaluatePolicy, vars
<1>11. QED
  BY <1>1, <1>2, <1>6, <1>7, <1>8, <1>9, <1>10 DEF Next, CheckStep

LEMMA CheckInvAlways == Spec => [](TypeOK /\ CheckInv)
<1>1. Init => CheckInv
  BY DEF Init, IdleCheck, CheckInv
<1>2. QED
  BY <1>1, TypeInit, TypeNext, CheckInvNext, PTL DEF Spec

\* is_release_ready, "yes": whatever is recorded, granted or replanned between its
\* statements, each policy has been evaluated for the revision to be released, and
\* each failure on record when the check began had an exception that was valid.
THEOREM ReadyReleasesAreSound == Spec => []ReadyIsSound
<1>1. TypeOK /\ CheckInv => ReadyIsSound
  <2> SUFFICES ASSUME TypeOK, CheckInv, check.pc = "ready" PROVE ReadyIsSound
    BY DEF ReadyIsSound
  <2>1. OldFailsIn({}) /\ Recorded(Len(Manifest))
    BY DEF CheckInv
  <2>2. \A p \in Policies : OnRecord(p, check.rev)
    BY <2>1 DEF Policies, Recorded
  <2>3. QED
    BY <2>1, <2>2 DEF ReadyIsSound, OldFailsIn, Excused
<1>2. QED
  BY <1>1, CheckInvAlways, PTL

\* is_release_ready, "no": there was an uncovered failure, or a policy without a
\* current evaluation.
THEOREM RefusalsHaveReasons == Spec => []RefusedForAReason
<1>1. CheckInv => RefusedForAReason
  BY DEF CheckInv, RefusedForAReason, Reason, Uncovered, Stale
<1>2. QED
  BY <1>1, CheckInvAlways, PTL
=============================================================================
