-------------------------- MODULE Promotion_proofs ---------------------------
(***************************************************************************)
(* Proofs about Promotion, for any stages, files, calls and decisions, and  *)
(* any number of replans, crashes and statements that raise.                *)
(*                                                                         *)
(* The argument has one idea: a row that has left "claimed" never comes     *)
(* back to it, so the call that moves it to "completed" is the only one     *)
(* that copies, and the worktree it copies from cannot change under it      *)
(* unless somebody removes it.                                              *)
(***************************************************************************)
EXTENDS Promotion, TLAPS

-----------------------------------------------------------------------------
(* Who writes what *)

Writes ==
  /\ UNCHANGED <<space, cut>> \/ \E x \in Executions : SpaceStep(x)
  /\ UNCHANGED call \/ Crash \/ \E c \in Calls :
       PromoteStep(c) \/ \E x \in Executions : SelectRow(c, x)
  /\ \/ UNCHANGED row \/ SweepAbandon \/ AbandonLatest
     \/ \E x \in Executions : ClaimInsert(x) \/ CompleteRow(x)
     \/ \E c \in Calls : PromoteStep(c)
  /\ UNCHANGED <<main, won, whole>> \/ \E c \in Calls : PromoteStep(c)
  /\ UNCHANGED rev \/ ResetStage
  /\ UNCHANGED replans \/ ReplanBegin
  /\ UNCHANGED replan \/ ReplanStep \/ Crash
  /\ UNCHANGED due \/ ReplanStep \/ Crash
  /\ UNCHANGED approval \/ InvalidateApproval \/ \E a \in Approvals : Approve(a)
  /\ UNCHANGED belated \/ \E c \in Calls, x \in Executions : SelectRow(c, x)

LEMMA WhoWrites == [Next]_vars => Writes
<1>1. CASE UNCHANGED vars
  BY <1>1 DEF Writes, vars, dbVars, stageVars, fileVars, clients, others, envVars, outVars,
              histVars
<1>2. ASSUME NEW s \in Stages, MarkReady(s) PROVE Writes
  BY <1>2 DEF Writes, MarkReady, vars, dbVars, stageVars, fileVars, clients, others,
              envVars, outVars, histVars
<1>3. ASSUME NEW x \in Executions, ClaimStep(x) PROVE Writes
  BY <1>3 DEF Writes, ClaimStep, ClaimSwap, ClaimInsert, ClaimRaises, dbVars, stageVars,
              fileVars, clients, others, envVars, outVars, histVars
<1>4. ASSUME NEW x \in Executions, CompleteStep(x) PROVE Writes
  BY <1>4 DEF Writes, CompleteStep, CompleteRow, CompleteStage, CompleteRaises, dbVars,
              stageVars, fileVars, clients, others, envVars, outVars, histVars
<1>5. ASSUME NEW x \in Executions, SpaceStep(x) PROVE Writes
  BY <1>5 DEF Writes, SpaceStep, CreateWorktree, RemoveFile, RemoveWorktree, dbVars,
              stageVars, fileVars, clients, others, envVars, outVars, histVars
<1>6. ASSUME NEW c \in Calls, PromoteStep(c) PROVE Writes
  BY <1>6 DEF Writes, PromoteStep, SelectRevision, Validate, RejectFenced, RejectRevision,
              RejectInvalid, Demote, Complete, TooLate, ListFiles, CopyFile, Succeed,
              Raises, CopyBreaksOff, dbVars, stageVars, fileVars, clients, others, envVars,
              outVars, histVars
<1>7. ASSUME NEW c \in Calls, NEW x \in Executions, SelectRow(c, x) PROVE Writes
  BY <1>7 DEF Writes, SelectRow, dbVars, stageVars, fileVars, clients, others, envVars,
              outVars, histVars
<1>8. CASE SweepStep
  BY <1>8 DEF Writes, SweepStep, SweepSelect, SweepAbandon, SweepMove, SweepRaises, dbVars,
              stageVars, fileVars, clients, others, envVars, outVars, histVars
<1>9. CASE OperatorStep
  BY <1>9 DEF Writes, OperatorStep, Reconcile, Retry, OperatorReads, OperatorWrite,
              OperatorRaises, dbVars, stageVars, fileVars, clients, others, envVars,
              outVars, histVars
<1>10. ASSUME NEW a \in Approvals, Approve(a) PROVE Writes
  BY <1>10 DEF Writes, Approve, dbVars, stageVars, fileVars, clients, others, envVars,
               outVars, histVars
<1>11. CASE ReplanStep
  BY <1>11 DEF Writes, ReplanStep, ReplanBegin, ResetStage, SelectApprovals,
               InvalidateApproval, NextStage, SelectLatest, AbandonLatest, ReplanEnd,
               ReplanRaises, dbVars, stageVars, fileVars, clients, others, envVars, outVars,
               histVars
<1>12. CASE Crash \/ Restart
  BY <1>12 DEF Writes, Crash, Restart, dbVars, stageVars, fileVars, clients, others,
               envVars, outVars, histVars
<1>13. QED
  BY <1>1, <1>2, <1>3, <1>4, <1>5, <1>6, <1>7, <1>8, <1>9, <1>10, <1>11, <1>12 DEF Next

-----------------------------------------------------------------------------
(* Types, and that whoever is at work has an execution to work for *)

Pointed ==
  /\ \A c \in Calls : call[c].pc # "idle" => call[c].row \in Executions
  /\ sweep.pc \in {"abandon", "move"} => sweep.row \in Executions
  /\ replan.pc = "abandon" => replan.row \in Executions

WellTyped == TypeOK /\ Pointed

LEMMA IdleStates ==
  /\ IdleCall \in CallState /\ IdleCall.pc = "idle"
  /\ IdleSweep \in SweepState /\ IdleSweep.pc = "idle"
  /\ IdleReplan \in ReplanState /\ IdleReplan.pc = "idle"
  BY DEF IdleCall, CallState, CallPc, NoRow, IdleSweep, SweepState, IdleReplan, ReplanState

LEMMA WellTypedInit == Init => WellTyped
<1> SUFFICES ASSUME Init PROVE WellTyped
  OBVIOUS
<1>1. /\ MaxReplans \in Nat /\ MaxCrashes \in Nat
      /\ 1 \in Revisions /\ 0 \in 0..MaxReplans /\ 0 \in 0..MaxCrashes
  BY PromotionAssumption DEF Revisions
<1>2. space \in [Executions -> SpaceState]
  BY <1>1 DEF Init, NoSpace, SpaceState
<1>3. /\ call \in [Calls -> CallState] /\ sweep \in SweepState /\ replan \in ReplanState
      /\ acked \in SUBSET Executions /\ operator \in SUBSET OperatorWrites /\ Pointed
  BY IdleStates DEF Init, Pointed
<1>4. /\ status \in [Stages -> StageStatus] /\ rev \in [Stages -> Revisions]
      /\ claiming \in SUBSET Executions
      /\ row \in [Executions -> {"none", "claimed", "completed", "failed", "abandoned"}]
      /\ main \in [Files -> Contents]
      /\ approval \in [Approvals -> {"none", "valid", "invalidated"}]
  BY <1>1 DEF Init, StageStatus, Contents
<1>5. /\ limit \in Limits /\ up \in BOOLEAN /\ crashes \in 0..MaxCrashes
      /\ replans \in 0..MaxReplans /\ won \in [Executions -> Nat]
      /\ whole \in SUBSET Executions /\ cut \in SUBSET Executions
      /\ bypassed \in SUBSET Stages /\ dropped \in SUBSET Stages
      /\ due \in SUBSET Approvals /\ belated \in SUBSET Calls
  BY <1>1 DEF Init
<1>6. QED
  BY <1>2, <1>3, <1>4, <1>5 DEF WellTyped, TypeOK

\* What a statement of a promotion does to the calls.
LEMMA CallMoves ==
  ASSUME WellTyped, NEW c \in Calls, PromoteStep(c)
  PROVE  /\ call[c].pc # "idle" /\ call[c].row \in Executions
         /\ call' \in [Calls -> CallState]
         /\ \A d \in Calls : d # c => call'[d] = call[d]
         /\ call'[c].pc = "idle" \/ (/\ call'[c].row = call[c].row
                                     /\ call'[c].fenced = call[c].fenced)
<1> USE DEF WellTyped
<1>1. /\ call \in [Calls -> CallState] /\ call[c] \in CallState
      /\ call[c].pc # "idle" => call[c].row \in Executions
  BY DEF TypeOK, Pointed
<1>2. ASSUME Return(c)
      PROVE  /\ call' \in [Calls -> CallState] /\ call'[c].pc = "idle"
             /\ \A d \in Calls : d # c => call'[d] = call[d]
  BY <1>1, <1>2, IdleStates DEF Return
<1>3. CASE RejectFenced(c) \/ RejectRevision(c) \/ Demote(c) \/ TooLate(c) \/ Succeed(c)
           \/ Raises(c) \/ CopyBreaksOff(c)
  BY <1>1, <1>2, <1>3
     DEF RejectFenced, RejectRevision, Demote, TooLate, Succeed, Raises, CopyBreaksOff, At,
         Promotable
<1>4. CASE SelectRevision(c)
  BY <1>1, <1>4 DEF SelectRevision, At, CallState, CallPc, RevisionMatches, Superseded
<1>5. CASE Validate(c)
  <2>1. PICK name \in {"file_exists", "content_equals", "no_validator_ran"} :
          call' = [call EXCEPT ![c].pc = "decide",
                               ![c].passed = ValidatorPasses(name, call[c].row)]
    BY <1>5 DEF Validate
  <2>2. ValidatorPasses(name, call[c].row) \in BOOLEAN
    BY DEF ValidatorPasses
  <2>3. QED
    BY <1>1, <1>5, <2>1, <2>2 DEF Validate, At, CallState, CallPc
<1>6. CASE RejectInvalid(c)
  BY <1>1, <1>6 DEF RejectInvalid, At, CallState, CallPc
<1>7. CASE Complete(c)
  BY <1>1, <1>7 DEF Complete, Promotable, At, CallState, CallPc
<1>8. CASE ListFiles(c)
  <2> DEFINE files == Present(call[c].row)
  <2>1. /\ call' = [call EXCEPT ![c].pc = "copy", ![c].todo = files]
        /\ call[c].pc = "list"
    BY <1>8 DEF ListFiles, At
  <2>2. files \subseteq Files
    BY DEF Present
  <2> HIDE DEF files
  <2>3. QED
    BY <1>1, <2>1, <2>2 DEF CallState, CallPc
<1>9. CASE CopyFile(c)
  BY <1>1, <1>9 DEF CopyFile, At, CallState, CallPc
<1>10. QED
  BY <1>3, <1>4, <1>5, <1>6, <1>7, <1>8, <1>9 DEF PromoteStep

\* Where a call goes: forward, one statement at a time, or to the end.
LEMMA CallForward ==
  ASSUME WellTyped, NEW c \in Calls, PromoteStep(c)
  PROVE  \/ call'[c].pc = "idle"
         \/ SelectRevision(c) /\ call[c].pc = "revision" /\ call'[c].pc = "validate"
         \/ Validate(c) /\ call[c].pc = "validate" /\ call'[c].pc = "decide"
         \/ RejectInvalid(c) /\ call[c].pc = "decide" /\ call'[c].pc = "demote"
         \/ Complete(c) /\ call[c].pc = "decide" /\ call'[c].pc = "list"
         \/ ListFiles(c) /\ call[c].pc = "list" /\ call'[c].pc = "copy"
         \/ CopyFile(c) /\ call[c].pc = "copy" /\ call'[c].pc = "copy"
<1>1. call \in [Calls -> CallState] /\ call[c] \in CallState
  BY DEF WellTyped, TypeOK
<1>2. CASE SelectRevision(c)
  BY <1>1, <1>2 DEF SelectRevision, At, CallState
<1>3. CASE Validate(c)
  BY <1>1, <1>3 DEF Validate, At, CallState
<1>4. CASE RejectInvalid(c)
  BY <1>1, <1>4 DEF RejectInvalid, At, CallState
<1>5. CASE Complete(c)
  BY <1>1, <1>5 DEF Complete, Promotable, At, CallState
<1>6. CASE ListFiles(c)
  <2> DEFINE files == Present(call[c].row)
  <2>1. call' = [call EXCEPT ![c].pc = "copy", ![c].todo = files] /\ call[c].pc = "list"
    BY <1>6 DEF ListFiles, At
  <2> HIDE DEF files
  <2>2. QED
    BY <1>1, <1>6, <2>1 DEF CallState
<1>7. CASE CopyFile(c)
  BY <1>1, <1>7 DEF CopyFile, At, CallState
<1>8. ASSUME Return(c) PROVE call'[c].pc = "idle"
  BY <1>1, <1>8, IdleStates DEF Return
<1>9. QED
  BY <1>2, <1>3, <1>4, <1>5, <1>6, <1>7, <1>8
     DEF PromoteStep, RejectFenced, RejectRevision, Demote, TooLate, Succeed, Raises,
         CopyBreaksOff

\* Everything but the clients.
Rest ==
  /\ status \in [Stages -> StageStatus]
  /\ rev \in [Stages -> Revisions]
  /\ claiming \in SUBSET Executions
  /\ row \in [Executions -> {"none", "claimed", "completed", "failed", "abandoned"}]
  /\ space \in [Executions -> SpaceState]
  /\ main \in [Files -> Contents]
  /\ approval \in [Approvals -> {"none", "valid", "invalidated"}]
  /\ limit \in Limits
  /\ up \in BOOLEAN
  /\ crashes \in 0..MaxCrashes
  /\ replans \in 0..MaxReplans
  /\ won \in [Executions -> Nat]
  /\ whole \in SUBSET Executions
  /\ cut \in SUBSET Executions
  /\ bypassed \in SUBSET Stages
  /\ dropped \in SUBSET Stages
  /\ due \in SUBSET Approvals
  /\ belated \in SUBSET Calls

Clients ==
  /\ acked \in SUBSET Executions
  /\ call \in [Calls -> CallState]
  /\ sweep \in SweepState
  /\ operator \in SUBSET OperatorWrites
  /\ replan \in ReplanState
  /\ Pointed

LEMMA Parts == WellTyped <=> Rest /\ Clients
  BY DEF WellTyped, TypeOK, Rest, Clients

LEMMA Contained ==
  ASSUME Rest, NEW x \in Executions, NEW f \in Files PROVE Content(x, f) \in Contents
  BY DEF Rest, Content, Contents

LEMMA RestOfPromotion ==
  ASSUME WellTyped, NEW c \in Calls, PromoteStep(c) PROVE Rest'
<1>1. /\ Rest /\ call[c].row \in Executions /\ call[c].row[1] \in Stages
      /\ call[c] \in CallState
  BY CallMoves, Parts DEF Executions, Clients
<1> USE DEF Rest, dbVars, stageVars, fileVars, envVars, histVars, outVars
<1>2. CASE SelectRevision(c) \/ Validate(c) \/ TooLate(c) \/ ListFiles(c)
  BY <1>1, <1>2 DEF SelectRevision, Validate, TooLate, ListFiles
<1>3. CASE RejectFenced(c) \/ RejectRevision(c) \/ RejectInvalid(c)
  BY <1>1, <1>3 DEF RejectFenced, RejectRevision, RejectInvalid
<1>4. CASE Demote(c)
  BY <1>1, <1>4 DEF Demote, StageStatus
<1>5. CASE Complete(c)
  BY <1>1, <1>5 DEF Complete
<1>6. CASE CopyFile(c)
  <2>1. PICK f \in call[c].todo \intersect Present(call[c].row) :
          main' = [main EXCEPT ![f] = Content(call[c].row, f)]
    BY <1>6 DEF CopyFile
  <2>2. f \in Files /\ Content(call[c].row, f) \in Contents
    BY <1>1, <2>1, Contained DEF CallState
  <2>3. QED
    BY <1>1, <1>6, <2>1, <2>2 DEF CopyFile
<1>7. CASE Succeed(c)
  BY <1>1, <1>7 DEF Succeed, StageStatus
<1>8. CASE Raises(c)
  BY <1>1, <1>8 DEF Raises, Drop
<1>9. CASE CopyBreaksOff(c)
  <2>1. main' \in [Files -> Contents]
    BY <1>1, <1>9 DEF CopyBreaksOff, CallState, Contents
  <2>2. dropped' \in SUBSET Stages
    BY <1>1, <1>9 DEF CopyBreaksOff, Drop
  <2>3. QED
    BY <1>1, <1>9, <2>1, <2>2 DEF CopyBreaksOff
<1>10. QED
  BY <1>2, <1>3, <1>4, <1>5, <1>6, <1>7, <1>8, <1>9 DEF PromoteStep

LEMMA WellTypedPromotion ==
  ASSUME WellTyped, NEW c \in Calls,
         PromoteStep(c) \/ \E x \in Executions : SelectRow(c, x)
  PROVE  WellTyped'
<1>1. Rest /\ Clients
  BY Parts
<1>2. CASE PromoteStep(c)
  <2>1. UNCHANGED <<acked, sweep, operator, replan>>
    BY <1>2 DEF PromoteStep, SelectRevision, Validate, RejectFenced, RejectRevision,
                RejectInvalid, Demote, Complete, TooLate, ListFiles, CopyFile, Succeed,
                Raises, CopyBreaksOff, others
  <2>2. Clients'
    BY <1>1, <1>2, <2>1, CallMoves DEF Clients, Pointed
  <2>3. QED
    BY <1>2, <2>2, RestOfPromotion, Parts DEF Rest, Clients, WellTyped, TypeOK
<1>3. ASSUME NEW x \in Executions, SelectRow(c, x) PROVE WellTyped'
  <2> DEFINE r == [IdleCall EXCEPT !.pc = "revision", !.row = x, !.fenced = Live(x)]
  <2>1. r \in CallState /\ r.row = x
    BY IdleStates DEF CallState, CallPc, Live, IdleCall
  <2>2. call' = [call EXCEPT ![c] = r]
    BY <1>3 DEF SelectRow
  <2> HIDE DEF r
  <2>3. Clients'
    BY <1>1, <1>3, <2>1, <2>2 DEF SelectRow, Clients, Pointed, others
  <2>4. Rest'
    BY <1>1, <1>3 DEF SelectRow, Rest, dbVars, stageVars, fileVars, envVars
  <2>5. QED
    BY <2>3, <2>4 DEF Rest, Clients, WellTyped, TypeOK
<1>4. QED
  BY <1>2, <1>3

LEMMA WellTypedStage ==
  ASSUME WellTyped,
         \/ \E s \in Stages : MarkReady(s)
         \/ \E x \in Executions : ClaimStep(x) \/ SpaceStep(x)
         \/ \E a \in Approvals : Approve(a)
  PROVE  WellTyped'
<1>1. Rest /\ Clients
  BY Parts
<1>2. Clients'
  BY <1>1 DEF MarkReady, ClaimStep, ClaimSwap, ClaimInsert, ClaimRaises, SpaceStep,
              CreateWorktree, RemoveFile, RemoveWorktree, Approve, clients, others, Clients,
              Pointed
<1>3. Rest'
  <2> USE <1>1 DEF Rest, dbVars, stageVars, fileVars, envVars, histVars, outVars
  <2>1. ASSUME NEW s \in Stages, MarkReady(s) PROVE Rest'
    BY <2>1 DEF MarkReady, StageStatus
  <2>2. ASSUME NEW x \in Executions, ClaimStep(x) PROVE Rest'
    <3>1. x[1] \in Stages
      BY DEF Executions
    <3>2. CASE ClaimSwap(x)
      BY <3>1, <3>2 DEF ClaimSwap, StageStatus
    <3>3. CASE ClaimInsert(x)
      BY <3>3 DEF ClaimInsert
    <3>4. CASE ClaimRaises(x)
      BY <3>1, <3>4 DEF ClaimRaises
    <3>5. QED
      BY <2>2, <3>2, <3>3, <3>4 DEF ClaimStep
  <2>3. ASSUME NEW x \in Executions, CreateWorktree(x) PROVE Rest'
    <3>1. PICK fs \in SUBSET Files :
            space' = [space EXCEPT ![x] = [state |-> "worked", expected |-> rev[x[1]],
                                           written |-> fs, gone |-> {}]]
      BY <2>3 DEF CreateWorktree
    <3>2. rev[x[1]] \in Revisions
      BY DEF Executions
    <3>3. [state |-> "worked", expected |-> rev[x[1]], written |-> fs, gone |-> {}]
            \in SpaceState
      BY <3>2 DEF SpaceState
    <3>4. QED
      BY <2>3, <3>1, <3>3 DEF CreateWorktree
  <2>4. ASSUME NEW x \in Executions, RemoveFile(x) PROVE Rest'
    <3>1. PICK f \in Files : space' = [space EXCEPT ![x].gone = @ \union {f}]
      BY <2>4 DEF RemoveFile, Present
    <3>2. space' \in [Executions -> SpaceState]
      BY <3>1 DEF SpaceState
    <3>3. QED
      BY <2>4, <3>2 DEF RemoveFile
  <2>5. ASSUME NEW x \in Executions, RemoveWorktree(x) PROVE Rest'
    <3>1. space' \in [Executions -> SpaceState]
      BY <2>5 DEF RemoveWorktree, SpaceState
    <3>2. QED
      BY <2>5, <3>1 DEF RemoveWorktree
  <2>6. ASSUME NEW a \in Approvals, Approve(a) PROVE Rest'
    BY <2>6 DEF Approve
  <2>7. QED
    BY <2>1, <2>2, <2>3, <2>4, <2>5, <2>6 DEF SpaceStep
<1>4. QED
  BY <1>2, <1>3 DEF Rest, Clients, WellTyped, TypeOK

LEMMA WellTypedSweep ==
  ASSUME WellTyped, SweepStep
  PROVE  WellTyped'
<1>1. Rest /\ Clients
  BY Parts
<1>2. Rest'
  BY <1>1 DEF SweepStep, SweepSelect, SweepAbandon, SweepMove, SweepRaises, Rest, Clients,
              Pointed, dbVars, stageVars, fileVars, envVars, histVars, outVars, StageStatus,
              Executions
<1>3. Clients'
  <2>1. UNCHANGED <<acked, call, operator, replan>>
    BY DEF SweepStep, SweepSelect, SweepAbandon, SweepMove, SweepRaises
  <2>2. /\ sweep' \in SweepState
        /\ sweep'.pc \in {"abandon", "move"} => sweep'.row \in Executions
    BY <1>1, IdleStates DEF SweepStep, SweepSelect, SweepAbandon, SweepMove, SweepRaises,
                            Clients, Pointed, SweepState
  <2>3. QED
    BY <1>1, <2>1, <2>2 DEF Clients, Pointed
<1>4. QED
  BY <1>2, <1>3 DEF Rest, Clients, WellTyped, TypeOK

LEMMA WellTypedCompletion ==
  ASSUME WellTyped, OperatorStep \/ \E x \in Executions : CompleteStep(x)
  PROVE  WellTyped'
<1>1. Rest /\ Clients
  BY Parts
<1> USE <1>1 DEF dbVars, stageVars, fileVars, envVars, histVars, outVars, Rest, Clients,
                 Pointed
<1>2. ASSUME NEW x \in Executions, CompleteStep(x) PROVE Rest' /\ Clients'
  <2>1. x[1] \in Stages
    BY DEF Executions
  <2>2. CASE CompleteRow(x)
    BY <2>2 DEF CompleteRow
  <2>3. CASE CompleteStage(x)
    BY <2>1, <2>3 DEF CompleteStage, StageStatus
  <2>4. CASE CompleteRaises(x)
    BY <2>1, <2>4 DEF CompleteRaises
  <2>5. QED
    BY <1>2, <2>2, <2>3, <2>4 DEF CompleteStep
<1>3. ASSUME NEW s \in Stages, Reconcile(s) \/ Retry(s) PROVE Rest' /\ Clients'
  <2>1. PICK to \in {"failed_transient", "succeeded", "ready", "failed_permanent"} :
          operator' = operator \union {<<s, to>>}
    BY <1>3 DEF Reconcile, Retry, OperatorReads
  <2>2. <<s, to>> \in OperatorWrites
    BY DEF OperatorWrites
  <2>3. operator' \in SUBSET OperatorWrites
    BY <2>1, <2>2
  <2>4. QED
    BY <1>3, <2>3 DEF Reconcile, Retry, OperatorReads
<1>4. ASSUME NEW w \in OperatorWrites, OperatorWrite(w[1], w[2]) PROVE Rest' /\ Clients'
  <2>1. w[1] \in Stages /\ w[2] \in StageStatus
    BY DEF OperatorWrites, StageStatus
  <2>2. QED
    BY <1>4, <2>1 DEF OperatorWrite
<1>5. ASSUME NEW w \in OperatorWrites, OperatorRaises(w[1], w[2]) PROVE Rest' /\ Clients'
  BY <1>5 DEF OperatorRaises
<1>6. Rest' /\ Clients'
  BY <1>2, <1>3, <1>4, <1>5 DEF OperatorStep
<1>7. QED
  BY <1>6 DEF WellTyped, TypeOK

LEMMA LimitTypes ==
  ASSUME Rest PROVE
  /\ MaxReplans \in Nat /\ MaxCrashes \in Nat
  /\ replans \in 0..MaxReplans /\ crashes \in 0..MaxCrashes
  /\ limit.replans \in 0..MaxReplans /\ limit.crashes \in 0..MaxCrashes
  /\ limit.stages \subseteq Stages
  BY PromotionAssumption DEF Rest

LEMMA WellTypedReplan ==
  ASSUME WellTyped, ReplanStep
  PROVE  WellTyped'
<1>1. Rest /\ Clients /\ replan \in ReplanState
  BY Parts DEF Clients
<1>2. UNCHANGED <<acked, call, sweep, operator>>
  BY DEF ReplanStep, ReplanBegin, ResetStage, SelectApprovals, InvalidateApproval,
         NextStage, SelectLatest, AbandonLatest, ReplanEnd, ReplanRaises
\* The record of the replan stays well-typed, and with it everything else.
<1>3. ASSUME replan' \in ReplanState, replan'.pc = "abandon" => replan'.row \in Executions,
             Rest'
      PROVE  WellTyped'
  BY <1>1, <1>2, <1>3 DEF Clients, Pointed, Rest, WellTyped, TypeOK
<1> USE DEF dbVars, stageVars, fileVars, envVars, histVars, outVars
<1>4. CASE ReplanBegin
  <2>1. PICK affected \in SUBSET limit.stages :
          replan' = [IdleReplan EXCEPT !.pc = "reset", !.stages = affected, !.trees = affected]
    BY <1>4 DEF ReplanBegin
  <2>2. affected \subseteq Stages /\ replans' \in 0..MaxReplans
    BY <1>1, <1>4, <2>1, LimitTypes DEF ReplanBegin
  <2>3. replan' \in ReplanState /\ replan'.pc = "reset"
    BY <2>1, <2>2 DEF IdleReplan, ReplanState, NoRow
  <2>4. Rest'
    <3>1. due' \in SUBSET Approvals
      BY <1>4 DEF ReplanBegin
    <3>2. QED
      BY <1>1, <1>4, <2>2, <3>1 DEF ReplanBegin, Rest
  <2>5. QED
    BY <1>3, <2>3, <2>4
<1>5. CASE ResetStage
  <2>1. PICK s \in replan.stages :
          /\ status' = [status EXCEPT ![s] = "pending"]
          /\ rev' = [rev EXCEPT ![s] = replans + 1]
          /\ replan' = [replan EXCEPT !.pc = "approvals", !.stages = @ \ {s}]
    BY <1>5 DEF ResetStage
  <2>2. replans + 1 \in Revisions
    BY <1>1, LimitTypes DEF Revisions
  <2>3. replan' \in ReplanState /\ replan'.pc = "approvals"
    BY <1>1, <2>1 DEF ReplanState
  <2>4. Rest'
    BY <1>1, <1>5, <2>1, <2>2 DEF ResetStage, Rest, StageStatus
  <2>5. QED
    BY <1>3, <2>3, <2>4
<1>6. CASE SelectApprovals
  <2> DEFINE found == {a \in Approvals : BoundToOld(a)}
  <2>1. found \subseteq Approvals /\ replan' = [replan EXCEPT !.pc = "invalidate", !.found = found]
    BY <1>6 DEF SelectApprovals
  <2> HIDE DEF found
  <2>2. replan' \in ReplanState /\ replan'.pc = "invalidate"
    BY <1>1, <2>1 DEF ReplanState
  <2>3. Rest'
    BY <1>1, <1>6 DEF SelectApprovals, Rest
  <2>4. QED
    BY <1>3, <2>2, <2>3
<1>7. CASE InvalidateApproval
  <2>1. replan' \in ReplanState /\ replan'.pc = "invalidate"
    BY <1>1, <1>7 DEF InvalidateApproval, ReplanState
  <2>2. Rest'
    BY <1>1, <1>7 DEF InvalidateApproval, Rest
  <2>3. QED
    BY <1>3, <2>1, <2>2
<1>8. CASE NextStage
  <2>1. replan' \in ReplanState /\ replan'.pc # "abandon"
    BY <1>1, <1>8 DEF NextStage, ReplanState
  <2>2. Rest'
    BY <1>1, <1>8 DEF NextStage, Rest
  <2>3. QED
    BY <1>3, <2>1, <2>2
<1>9. CASE SelectLatest
  <2>1. PICK s \in replan.trees :
          \/ replan' = [replan EXCEPT !.trees = @ \ {s}]
          \/ \E k \in 1..MaxClaims :
               replan' = [replan EXCEPT !.pc = "abandon", !.trees = @ \ {s}, !.row = <<s, k>>]
    BY <1>9 DEF SelectLatest
  <2>2. s \in Stages /\ replan.pc = "worktrees"
    BY <1>1, <1>9, <2>1 DEF ReplanState, SelectLatest
  <2>3. Rest'
    BY <1>1, <1>9 DEF SelectLatest, Rest
  <2>4. CASE replan' = [replan EXCEPT !.trees = @ \ {s}]
    <3>1. replan' \in ReplanState /\ replan'.pc # "abandon"
      BY <1>1, <2>2, <2>4 DEF ReplanState
    <3>2. QED
      BY <1>3, <2>3, <3>1
  <2>5. ASSUME NEW k \in 1..MaxClaims,
               replan' = [replan EXCEPT !.pc = "abandon", !.trees = @ \ {s}, !.row = <<s, k>>]
        PROVE  WellTyped'
    <3>1. <<s, k>> \in Executions
      BY <2>2 DEF Executions
    <3>2. replan' \in ReplanState /\ replan'.row \in Executions
      BY <1>1, <2>5, <3>1 DEF ReplanState
    <3>3. QED
      BY <1>3, <2>3, <3>2
  <2>6. QED
    BY <2>1, <2>4, <2>5
<1>10. CASE AbandonLatest
  <2>1. replan' \in ReplanState /\ replan'.pc = "worktrees"
    BY <1>1, <1>10 DEF AbandonLatest, ReplanState, NoRow
  <2>2. Rest'
    BY <1>1, <1>10 DEF AbandonLatest, Rest, Clients, Pointed
  <2>3. QED
    BY <1>3, <2>1, <2>2
<1>11. CASE ReplanEnd
  <2>1. Rest'
    BY <1>1, <1>11 DEF ReplanEnd, Rest
  <2>2. QED
    BY <1>3, <1>11, <2>1, IdleStates DEF ReplanEnd
<1>12. CASE ReplanRaises
  <2>1. Rest'
    BY <1>1, <1>12 DEF ReplanRaises, DueWithoutReplan, Rest
  <2>2. QED
    BY <1>3, <1>12, <2>1, IdleStates DEF ReplanRaises
<1>13. QED
  BY <1>4, <1>5, <1>6, <1>7, <1>8, <1>9, <1>10, <1>11, <1>12 DEF ReplanStep

LEMMA WellTypedCrash ==
  ASSUME WellTyped, Crash \/ Restart PROVE WellTyped'
<1>1. Rest /\ Clients
  BY Parts
<1>2. CASE Crash
  <2>1. Clients'
    BY <1>2, IdleStates DEF Crash, Clients, Pointed
  <2>2. crashes' \in 0..MaxCrashes
    BY <1>1, <1>2, LimitTypes DEF Crash
  <2>3. Rest'
    BY <1>1, <1>2, <2>2 DEF Crash, DueWithoutReplan, Rest, dbVars, stageVars, fileVars,
                            envVars, histVars, outVars
  <2>4. QED
    BY <2>1, <2>3 DEF Rest, Clients, WellTyped, TypeOK
<1>3. CASE Restart
  <2>1. status' \in [Stages -> StageStatus]
    BY <1>1, <1>3 DEF Restart, RecoveredStatus, Rest, StageStatus
  <2>2. Clients'
    BY <1>1, <1>3 DEF Restart, clients, others, Clients, Pointed
  <2>3. Rest'
    BY <1>1, <1>3, <2>1 DEF Restart, Rest, fileVars, outVars
  <2>4. QED
    BY <2>2, <2>3 DEF Rest, Clients, WellTyped, TypeOK
<1>4. QED
  BY <1>2, <1>3

LEMMA WellTypedNext == WellTyped /\ [Next]_vars => WellTyped'
<1> SUFFICES ASSUME WellTyped, [Next]_vars PROVE WellTyped'
  OBVIOUS
<1>1. CASE UNCHANGED vars
  BY <1>1 DEF vars, dbVars, stageVars, fileVars, clients, others, envVars, outVars,
              histVars, WellTyped, TypeOK, Pointed
<1>2. CASE Next
  BY <1>2, WellTypedStage, WellTypedPromotion, WellTypedSweep, WellTypedCompletion,
     WellTypedReplan, WellTypedCrash DEF Next
<1>3. QED
  BY <1>1, <1>2

LEMMA AlwaysWellTyped == Spec => []WellTyped
  BY WellTypedInit, WellTypedNext, PTL DEF Spec

\* Every variable of promotion and replanning has its type, whatever the limits.
THEOREM TypeCorrect == Spec => []TypeOK
<1>1. WellTyped => TypeOK
  BY DEF WellTyped
<1>2. QED
  BY <1>1, AlwaysWellTyped, PTL

-----------------------------------------------------------------------------
(* The steps of everybody but promote_or_reject *)

Elsewhere == [Next]_vars /\ ~\E c \in Calls : PromoteStep(c)

\* They leave the calls alone, except that one begins or all are lost.
LEMMA CallsKept ==
  ASSUME WellTyped, Elsewhere
  PROVE  \A c \in Calls :
           \/ call'[c] = call[c]
           \/ call'[c].pc = "idle"
           \/ /\ call'[c].pc = "revision"
              /\ space[call'[c].row].state # "none" /\ space' = space
<1>1. call \in [Calls -> CallState]
  BY DEF WellTyped, TypeOK
<1>2. CASE UNCHANGED call
  BY <1>2
<1>3. ASSUME NEW c \in Calls, NEW x \in Executions, SelectRow(c, x)
      PROVE  /\ call'[c].pc = "revision" /\ space[call'[c].row].state # "none"
             /\ space' = space
             /\ \A d \in Calls : d # c => call'[d] = call[d]
  <2> DEFINE r == [IdleCall EXCEPT !.pc = "revision", !.row = x, !.fenced = Live(x)]
  <2>1. r.pc = "revision" /\ r.row = x
    BY DEF IdleCall
  <2>2. call' = [call EXCEPT ![c] = r]
    BY <1>3 DEF SelectRow
  <2> HIDE DEF r
  <2>3. QED
    BY <1>1, <1>3, <2>1, <2>2 DEF SelectRow, fileVars
<1>4. CASE Crash
  BY <1>4, IdleStates DEF Crash
<1>5. QED
  BY <1>2, <1>3, <1>4, WhoWrites DEF Elsewhere, Writes

\* A worktree that is there keeps what was written in it, and nothing vanishes from
\* it before the end of its promotion without a trace in cut.
LEMMA WorktreesKept ==
  ASSUME WellTyped, [Next]_vars, NEW x \in Executions, space[x].state # "none"
  PROVE  /\ space'[x].state # "none"
         /\ space'[x].written = space[x].written /\ space'[x].expected = space[x].expected
         /\ x \notin cut' \union whole => x \notin cut /\ space'[x] = space[x]
         /\ x \in whole => (x \in cut' <=> x \in cut)
<1>1. space \in [Executions -> SpaceState]
  BY DEF WellTyped, TypeOK
<1>2. CASE UNCHANGED <<space, cut>>
  BY <1>2
<1>3. ASSUME NEW y \in Executions, CreateWorktree(y) PROVE space'[x] = space[x] /\ cut' = cut
  BY <1>1, <1>3 DEF CreateWorktree, histVars, outVars
<1>4. ASSUME NEW y \in Executions, RemoveFile(y) \/ RemoveWorktree(y)
      PROVE  /\ space'[x].state # "none" /\ space'[x].written = space[x].written
             /\ space'[x].expected = space[x].expected
             /\ y # x => space'[x] = space[x]
             /\ cut' = IF y \in whole THEN cut ELSE cut \union {y}
  <2>1. CASE RemoveFile(y)
    <3>1. PICK f \in Files : space' = [space EXCEPT ![y].gone = @ \union {f}]
      BY <2>1 DEF RemoveFile, Present
    <3>2. QED
      BY <1>1, <2>1, <3>1 DEF SpaceState, RemoveFile
  <2>2. CASE RemoveWorktree(y)
    BY <1>1, <2>2 DEF SpaceState, RemoveWorktree
  <2>3. QED
    BY <1>4, <2>1, <2>2
<1>5. ASSUME NEW y \in Executions, SpaceStep(y)
      PROVE  /\ space'[x].state # "none" /\ space'[x].written = space[x].written
             /\ space'[x].expected = space[x].expected
             /\ x \notin cut' \union whole => x \notin cut /\ space'[x] = space[x]
             /\ x \in whole => (x \in cut' <=> x \in cut)
  BY <1>3, <1>4, <1>5 DEF SpaceStep
<1>6. QED
  BY <1>2, <1>5, WhoWrites DEF Writes

\* What the others write into a row.
LEMMA RowsKept ==
  ASSUME WellTyped, Elsewhere, NEW x \in Executions
  PROVE  \/ row'[x] = row[x]
         \/ row'[x] = "abandoned"
         \/ row[x] = "none" /\ row'[x] = "claimed"
         \/ row[x] = "claimed" /\ row'[x] = "completed"
<1>1. row \in [Executions -> {"none", "claimed", "completed", "failed", "abandoned"}]
  BY DEF WellTyped, TypeOK
<1>2. CASE UNCHANGED row
  BY <1>2
<1>3. CASE SweepAbandon \/ AbandonLatest
  BY <1>1, <1>3 DEF SweepAbandon, AbandonLatest, WellTyped, Pointed
<1>4. ASSUME NEW y \in Executions, ClaimInsert(y)
      PROVE  row'[x] = row[x] \/ (row[x] = "none" /\ row'[x] = "claimed")
  BY <1>1, <1>4 DEF ClaimInsert
<1>5. ASSUME NEW y \in Executions, CompleteRow(y)
      PROVE  row'[x] = row[x] \/ (row[x] = "claimed" /\ row'[x] = "completed")
  BY <1>1, <1>5 DEF CompleteRow, Live
<1>6. QED
  BY <1>2, <1>3, <1>4, <1>5, WhoWrites DEF Elsewhere, Writes

-----------------------------------------------------------------------------
(* A row that has left "claimed" is not completed any more *)

\* What a statement of a promotion does to the rows.
LEMMA RowMoves ==
  ASSUME WellTyped, NEW c \in Calls, PromoteStep(c), NEW x \in Executions
  PROVE  \/ row'[x] = row[x]
         \/ row'[x] \in {"abandoned", "failed"}
         \/ /\ Complete(c) /\ call[c].row = x
            /\ row[x] = "claimed" /\ row'[x] = "completed"
<1>1. /\ row \in [Executions -> {"none", "claimed", "completed", "failed", "abandoned"}]
      /\ call[c].row \in Executions
  BY CallMoves DEF WellTyped, TypeOK
<1>2. CASE RejectFenced(c) \/ RejectRevision(c) \/ RejectInvalid(c)
  BY <1>1, <1>2 DEF RejectFenced, RejectRevision, RejectInvalid
<1>3. CASE Complete(c)
  BY <1>1, <1>3 DEF Complete, StillLive, Live
<1>4. QED
  BY <1>2, <1>3 DEF PromoteStep, SelectRevision, Validate, Demote, TooLate, ListFiles,
                    CopyFile, Succeed, Raises, CopyBreaksOff, dbVars

\* promote_or_reject's compare-and-swap: however many calls have read an execution,
\* none completes it once it was rejected, swept or invalidated.
THEOREM RejectionsAreFinal == Spec => RejectedIsFinal
<1>1. ASSUME WellTyped, [Next]_vars, NEW x \in Executions, row[x] \in {"failed", "abandoned"}
      PROVE  row'[x] # "completed"
  BY <1>1, RowsKept, RowMoves DEF Elsewhere
<1>2. WellTyped /\ [Next]_vars =>
        [\A x \in Executions :
           row[x] \in {"failed", "abandoned"} => row'[x] # "completed"]_vars
  BY <1>1
<1>3. QED
  BY <1>2, AlwaysWellTyped, PTL DEF Spec, RejectedIsFinal

-----------------------------------------------------------------------------
(* One promotion of an execution, from one worktree *)

Decided(x) == won[x] = 1 /\ row[x] \notin {"none", "claimed"}

Promoting(c) == call[c].pc \in {"list", "copy"}

Once ==
  /\ \A x \in Executions : won[x] = 0 \/ Decided(x)
  /\ \A c \in Calls : Promoting(c) => Decided(call[c].row) /\ call[c].row \notin whole
  /\ \A c, d \in Calls : Promoting(c) /\ Promoting(d) /\ call[c].row = call[d].row => c = d
  /\ \A x \in whole : Decided(x)
  /\ \A f \in Files : main[f] \in Executions => Decided(main[f])

LEMMA OnceInit == Init => Once
  BY IdleStates, PromotionAssumption DEF Init, Once, Promoting

\* Nothing undoes a decision.
LEMMA DecidedStays ==
  ASSUME WellTyped, [Next]_vars, Once, NEW x \in Executions, Decided(x)
  PROVE  won'[x] = 1 /\ row'[x] \notin {"none", "claimed"}
<1>1. won \in [Executions -> Nat]
  BY DEF WellTyped, TypeOK
<1>2. CASE Elsewhere
  BY <1>2, WhoWrites, RowsKept DEF Decided, Elsewhere, Writes
<1>3. ASSUME NEW c \in Calls, PromoteStep(c)
      PROVE  won'[x] = 1 /\ row'[x] \notin {"none", "claimed"}
  <2>1. row'[x] \notin {"none", "claimed"}
    BY <1>3, RowMoves DEF Decided
  <2>2. CASE Complete(c)
    BY <1>1, <2>1, <2>2 DEF Complete, StillLive, Live, Decided
  <2>3. CASE ~Complete(c)
    <3>1. won' = won
      BY <1>3, <2>3 DEF PromoteStep, SelectRevision, Validate, RejectFenced, RejectRevision,
                        RejectInvalid, Demote, Complete, TooLate, ListFiles, CopyFile,
                        Succeed, Raises, CopyBreaksOff, histVars, outVars
    <3>2. QED
      BY <2>1, <3>1 DEF Decided
  <2>4. QED
    BY <2>2, <2>3
<1>4. QED
  BY <1>2, <1>3 DEF Elsewhere

LEMMA OnceNext == WellTyped /\ Once /\ [Next]_vars => Once'
<1> SUFFICES ASSUME WellTyped, Once, [Next]_vars PROVE Once'
  OBVIOUS
<1>1. /\ won \in [Executions -> Nat] /\ main \in [Files -> Contents]
      /\ call \in [Calls -> CallState] /\ whole \subseteq Executions
      /\ row \in [Executions -> {"none", "claimed", "completed", "failed", "abandoned"}]
  BY DEF WellTyped, TypeOK
<1> DEFINE Later(y) == won'[y] = 1 /\ row'[y] \notin {"none", "claimed"}
           Copies(d) == call'[d].pc \in {"list", "copy"}
<1>2. \A y \in Executions : Decided(y) => Later(y)
  BY DecidedStays
<1>3. \A d \in Calls : Promoting(d) =>
        call[d].row \in Executions /\ Later(call[d].row) /\ call[d].row \notin whole
  BY <1>2 DEF Once, WellTyped, Pointed, Promoting
<1>4. /\ \A f \in Files : main[f] \in Executions => Later(main[f])
      /\ \A x \in whole : Later(x)
  BY <1>1, <1>2 DEF Once
<1>5. ASSUME \A y \in Executions : won'[y] = 0 \/ Later(y),
             \A d \in Calls : Copies(d) => Later(call'[d].row) /\ call'[d].row \notin whole',
             \A d, e \in Calls : Copies(d) /\ Copies(e) /\ call'[d].row = call'[e].row => d = e,
             \A x \in whole' : Later(x),
             \A f \in Files : main'[f] \in Executions => Later(main'[f])
      PROVE  Once'
  BY <1>5 DEF Once, Decided, Promoting
<1> HIDE DEF Later
<1>6. CASE Elsewhere
  <2>1. UNCHANGED <<main, won, whole>>
    BY <1>6, WhoWrites DEF Elsewhere, Writes
  <2>2. \A y \in Executions : won'[y] = 0 \/ Later(y)
    BY <1>2, <2>1 DEF Once
  <2>3. \A d \in Calls : Copies(d) => call'[d] = call[d] /\ Promoting(d)
    BY <1>6, CallsKept DEF Promoting
  <2>4. \A d, e \in Calls : Copies(d) /\ Copies(e) /\ call'[d].row = call'[e].row => d = e
    BY <2>3 DEF Once
  <2> HIDE DEF Copies
  <2>5. QED
    BY <1>3, <1>4, <1>5, <2>1, <2>2, <2>3, <2>4
<1>7. ASSUME NEW c \in Calls, PromoteStep(c) PROVE Once'
  <2>1. PICK x \in Executions : x = call[c].row
    BY <1>7, CallMoves
  <2>2. /\ \A d \in Calls : d # c => call'[d] = call[d]
        /\ call'[c].pc = "idle" \/ call'[c].row = x
    BY <1>7, <2>1, CallMoves
  <2>3. \A d \in Calls : d # c => (Copies(d) <=> Promoting(d)) /\ call'[d].row = call[d].row
    BY <2>2 DEF Promoting
  <2>4. CASE Complete(c)
    <3>1. /\ won' = [won EXCEPT ![x] = @ + 1] /\ row' = [row EXCEPT ![x] = "completed"]
          /\ UNCHANGED <<main, whole>> /\ row[x] = "claimed"
      BY <2>1, <2>4 DEF Complete, StillLive, Live, fileVars
    <3>2. ~Decided(x)
      BY <3>1 DEF Decided
    <3>3. Later(x)
      BY <1>1, <3>1, <3>2 DEF Once, Later
    <3>4. \A y \in Executions : won'[y] = 0 \/ Later(y)
      <4>1. \A y \in Executions : y # x => won'[y] = won[y]
        BY <1>1, <3>1
      <4>2. QED
        BY <1>2, <3>3, <4>1 DEF Once
    <3>5. x \notin whole /\ \A d \in Calls : Promoting(d) => call[d].row # x
      BY <3>2 DEF Once
    <3>6. call'[c].row = x
      BY <2>2, <2>4, CallForward DEF PromoteStep, Complete, Promotable, At
    <3>7. \A d \in Calls : Copies(d) => Later(call'[d].row) /\ call'[d].row \notin whole'
      BY <1>3, <2>3, <3>1, <3>3, <3>5, <3>6
    <3>8. \A d, e \in Calls : Copies(d) /\ Copies(e) /\ call'[d].row = call'[e].row => d = e
      BY <2>3, <3>5, <3>6 DEF Once
    <3> HIDE DEF Copies
    <3>9. QED
      BY <1>4, <1>5, <3>1, <3>4, <3>7, <3>8
  <2>5. CASE ~Complete(c)
    <3>1. won' = won
      BY <1>7, <2>5 DEF PromoteStep, SelectRevision, Validate, RejectFenced, RejectRevision,
                        RejectInvalid, Demote, Complete, TooLate, ListFiles, CopyFile,
                        Succeed, Raises, CopyBreaksOff, histVars, outVars
    <3>2. Copies(c) => Promoting(c) /\ call'[c].row = x
      BY <1>7, <2>2, <2>5, CallForward DEF Promoting
    <3>3. \A y \in Executions : won'[y] = 0 \/ Later(y)
      BY <1>2, <3>1 DEF Once
    <3>4. \A d, e \in Calls : Copies(d) /\ Copies(e) /\ call'[d].row = call'[e].row => d = e
      BY <2>1, <2>3, <3>2 DEF Once
    <3>5. whole' = whole \/ (/\ whole' = whole \union {x} /\ Promoting(c)
                             /\ call'[c].pc = "idle")
      <4>1. CASE Succeed(c)
        BY <1>1, <2>1, <4>1, IdleStates DEF Succeed, Return, At, Promoting
      <4>2. CASE ~Succeed(c)
        BY <1>7, <2>5, <4>2 DEF PromoteStep, SelectRevision, Validate, RejectFenced,
                                RejectRevision, RejectInvalid, Demote, Complete, TooLate,
                                ListFiles, CopyFile, Succeed, Raises, CopyBreaksOff,
                                histVars, outVars
      <4>3. QED
        BY <4>1, <4>2
    <3>6. \A d \in Calls : Copies(d) => Later(call'[d].row) /\ call'[d].row \notin whole'
      <4>1. ASSUME NEW d \in Calls, Copies(d)
            PROVE  Promoting(d) /\ call'[d].row = call[d].row
        BY <2>1, <2>3, <3>2, <4>1
      <4>2. ASSUME NEW d \in Calls, Copies(d) PROVE call'[d].row \notin whole'
        <5>1. CASE whole' = whole
          BY <1>3, <4>1, <4>2, <5>1
        <5>2. CASE /\ whole' = whole \union {x} /\ Promoting(c) /\ call'[c].pc = "idle"
          BY <1>3, <2>1, <4>1, <4>2, <5>2 DEF Once
        <5>3. QED
          BY <3>5, <5>1, <5>2
      <4> HIDE DEF Copies
      <4>3. QED
        BY <1>3, <4>1, <4>2
    <3>7. \A y \in whole' : Later(y)
      BY <1>3, <1>4, <2>1, <3>5
    <3>8. \A f \in Files : \/ main'[f] = main[f]
                           \/ main'[f] \in {NoFile, Head, Torn}
                           \/ main'[f] = x /\ Promoting(c)
      <4>1. CASE CopyFile(c)
        BY <1>1, <2>1, <4>1 DEF CopyFile, Content, At, Promoting
      <4>2. CASE CopyBreaksOff(c)
        BY <1>1, <4>2 DEF CopyBreaksOff
      <4>3. CASE ~CopyFile(c) /\ ~CopyBreaksOff(c)
        BY <1>7, <4>3 DEF PromoteStep, SelectRevision, Validate, RejectFenced,
                          RejectRevision, RejectInvalid, Demote, Complete, TooLate,
                          ListFiles, CopyFile, Succeed, Raises, CopyBreaksOff, fileVars
      <4>4. QED
        BY <4>1, <4>2, <4>3
    <3>9. \A f \in Files : main'[f] \in Executions => Later(main'[f])
      BY <1>3, <1>4, <2>1, <3>8, PromotionAssumption
    <3> HIDE DEF Copies
    <3>10. QED
      BY <1>5, <3>3, <3>4, <3>6, <3>7, <3>9
  <2>6. QED
    BY <2>4, <2>5
<1>8. QED
  BY <1>6, <1>7 DEF Elsewhere

LEMMA AlwaysOnce == Spec => []Once
  BY AlwaysWellTyped, OnceInit, OnceNext, PTL DEF Spec

\* However many calls promote an execution, one of them decides so, and the main tree
\* has files of HEAD and of executions decided upon only.
THEOREM PromotionsHappenOnce == Spec => []PromotedOnce
<1>1. Once => PromotedOnce
  BY DEF Once, Decided, PromotedOnce
<1>2. QED
  BY <1>1, AlwaysOnce, PTL

-----------------------------------------------------------------------------
(* What a promotion copies, and what a success stands for *)

OthersWon(x) == \E y \in Executions : y # x /\ won[y] # 0

\* All that the worker of x wrote is in the main tree, except what is still to copy
\* and what another promotion may have replaced.
Arrived(x, todo) ==
  \A f \in space[x].written : f \in todo \/ main[f] = x \/ OthersWon(x)

Copying(x, todo) ==
  /\ Artifact \in todo \/ main[Artifact] # NoFile
  /\ Arrived(x, todo)

\* Not yet promoted to the end, and nobody has begun to remove the worktree.
Untouched(x) == x \notin cut \union whole

Backed ==
  /\ \A x \in Executions :
       Untouched(x) => space[x].gone = {} /\ space[x].state # "removed"
  /\ \A c \in Calls : call[c].pc # "idle" => space[call[c].row].state # "none"
  /\ \A c \in Calls :
         ((call[c].pc = "decide" /\ call[c].passed) \/ call[c].pc = "list")
         /\ Untouched(call[c].row) =>
         Content(call[c].row, Artifact) # NoFile
  /\ \A c \in Calls : call[c].pc = "copy" /\ Untouched(call[c].row) =>
         Copying(call[c].row, call[c].todo)
  /\ \A x \in whole : /\ space[x].state # "none"
                      /\ x \notin cut => Copying(x, {})
  /\ \A s \in Stages : status[s] = "succeeded" /\ s \notin bypassed =>
       \E x \in whole : x[1] = s

LEMMA BackedInit == Init => Backed
  BY IdleStates DEF Init, Backed, NoSpace

\* Only the end of a promotion makes a stage succeed without bypassing it.
LEMMA SuccessKept ==
  ASSUME WellTyped, [Next]_vars, ~\E c \in Calls : Succeed(c),
         NEW t \in Stages, status'[t] = "succeeded", t \notin bypassed'
  PROVE  status[t] = "succeeded" /\ t \notin bypassed
<1>1. /\ status \in [Stages -> StageStatus]
      /\ \A c \in Calls : call[c].pc # "idle" => call[c].row \in Executions
      /\ sweep.pc \in {"abandon", "move"} => sweep.row \in Executions
  BY DEF WellTyped, TypeOK, Pointed
<1> USE DEF dbVars, stageVars, histVars
<1>2. CASE UNCHANGED vars
  BY <1>2 DEF vars
<1>3. ASSUME NEW s \in Stages, MarkReady(s) PROVE status[t] = "succeeded" /\ t \notin bypassed
  BY <1>1, <1>3 DEF MarkReady
<1>4. ASSUME NEW x \in Executions, ClaimStep(x) \/ CompleteStep(x) \/ SpaceStep(x)
      PROVE  status[t] = "succeeded" /\ t \notin bypassed
  <2>1. x[1] \in Stages
    BY DEF Executions
  <2>2. CASE ClaimStep(x)
    BY <1>1, <2>1, <2>2 DEF ClaimStep, ClaimSwap, ClaimInsert, ClaimRaises
  <2>3. CASE CompleteStep(x)
    BY <1>1, <2>1, <2>3 DEF CompleteStep, CompleteRow, CompleteStage, CompleteRaises
  <2>4. CASE SpaceStep(x)
    BY <2>4 DEF SpaceStep, CreateWorktree, RemoveFile, RemoveWorktree
  <2>5. QED
    BY <1>4, <2>2, <2>3, <2>4
<1>5. ASSUME NEW c \in Calls, PromoteStep(c)
      PROVE  status[t] = "succeeded" /\ t \notin bypassed
  <2>1. call[c].row[1] \in Stages
    BY <1>5, CallMoves DEF Executions
  <2>2. CASE Demote(c)
    BY <1>1, <2>1, <2>2 DEF Demote
  <2>3. CASE ~Demote(c)
    BY <1>5, <2>3 DEF PromoteStep, SelectRevision, Validate, RejectFenced, RejectRevision,
                      RejectInvalid, Demote, Complete, TooLate, ListFiles, CopyFile,
                      Succeed, Raises, CopyBreaksOff
  <2>4. QED
    BY <2>2, <2>3
<1>6. ASSUME NEW c \in Calls, NEW x \in Executions, SelectRow(c, x)
      PROVE  status[t] = "succeeded" /\ t \notin bypassed
  BY <1>6 DEF SelectRow
<1>7. CASE SweepStep
  BY <1>1, <1>7 DEF SweepStep, SweepSelect, SweepAbandon, SweepMove, SweepRaises, Executions
<1>8. ASSUME NEW s \in Stages, Reconcile(s) \/ Retry(s)
      PROVE  status[t] = "succeeded" /\ t \notin bypassed
  BY <1>8 DEF Reconcile, Retry, OperatorReads
<1>9. ASSUME NEW w \in OperatorWrites, OperatorWrite(w[1], w[2]) \/ OperatorRaises(w[1], w[2])
      PROVE  status[t] = "succeeded" /\ t \notin bypassed
  <2>1. w[1] \in Stages
    BY DEF OperatorWrites
  <2>2. QED
    BY <1>1, <1>9, <2>1 DEF OperatorWrite, OperatorRaises
<1>10. CASE ReplanStep
  BY <1>1, <1>10 DEF ReplanStep, ReplanBegin, ResetStage, SelectApprovals,
                     InvalidateApproval, NextStage, SelectLatest, AbandonLatest, ReplanEnd,
                     ReplanRaises
<1>11. CASE Crash \/ Restart
  BY <1>1, <1>11 DEF Crash, Restart, RecoveredStatus
<1>12. ASSUME NEW a \in Approvals, Approve(a)
       PROVE  status[t] = "succeeded" /\ t \notin bypassed
  BY <1>12 DEF Approve
<1>13. QED
  BY <1>2, <1>3, <1>4, <1>5, <1>6, <1>7, <1>8, <1>9, <1>10, <1>11, <1>12
     DEF Next, OperatorStep

\* A worktree is created whole, with all the files of HEAD.
LEMMA NewWorktrees ==
  ASSUME WellTyped, [Next]_vars, NEW x \in Executions, space[x].state = "none",
         space[x].gone = {}
  PROVE  /\ cut \subseteq cut'
         /\ space'[x].gone = {} /\ space'[x].state # "removed"
<1>1. space \in [Executions -> SpaceState]
  BY DEF WellTyped, TypeOK
<1>2. ASSUME NEW y \in Executions, CreateWorktree(y)
      PROVE  cut \subseteq cut' /\ space'[x].gone = {} /\ space'[x].state # "removed"
  BY <1>1, <1>2 DEF CreateWorktree, histVars, outVars
<1>3. ASSUME NEW y \in Executions, RemoveFile(y) \/ RemoveWorktree(y)
      PROVE  cut \subseteq cut' /\ space'[x] = space[x]
  BY <1>1, <1>3 DEF RemoveFile, RemoveWorktree
<1>4. QED
  BY <1>1, <1>2, <1>3, WhoWrites DEF Writes, SpaceStep

LEMMA BackedElsewhere ==
  ASSUME WellTyped, Backed, Elsewhere PROVE Backed'
<1>1. UNCHANGED <<main, won, whole>> /\ [Next]_vars
  BY WhoWrites DEF Elsewhere, Writes
<1>2. /\ call \in [Calls -> CallState] /\ whole \subseteq Executions
      /\ \A c \in Calls : call[c].pc # "idle" => call[c].row \in Executions
  BY DEF WellTyped, TypeOK, Pointed
<1>3. ASSUME NEW x \in Executions, Untouched(x)'
      PROVE  space'[x].gone = {} /\ space'[x].state # "removed"
  <2>1. CASE space[x].state # "none"
    BY <1>1, <1>3, <2>1, WorktreesKept DEF Untouched, Backed
  <2>2. CASE space[x].state = "none"
    <3>1. cut \subseteq cut'
      <4>1. ASSUME NEW y \in Executions, SpaceStep(y) PROVE cut \subseteq cut'
        BY <4>1 DEF SpaceStep, CreateWorktree, RemoveFile, RemoveWorktree, histVars, outVars
      <4>2. QED
        BY <1>1, <4>1, WhoWrites DEF Writes
    <3>2. space[x].gone = {}
      BY <1>1, <1>3, <3>1 DEF Untouched, Backed
    <3>3. QED
      BY <1>1, <2>2, <3>2, NewWorktrees
  <2>3. QED
    BY <2>1, <2>2
<1>4. ASSUME NEW c \in Calls, call'[c].pc # "idle"
      PROVE  space'[call'[c].row].state # "none"
  <2>1. CASE call'[c] = call[c]
    BY <1>1, <1>2, <1>4, <2>1, WorktreesKept DEF Backed
  <2>2. CASE call'[c] # call[c]
    BY <1>4, <2>2, CallsKept
  <2>3. QED
    BY <2>1, <2>2
\* A call that is past its validation has not moved, nor has its worktree.
<1>5. ASSUME NEW c \in Calls, call'[c].pc \in {"decide", "list", "copy"},
             Untouched(call[c].row)'
      PROVE  /\ call'[c] = call[c] /\ call[c].row \in Executions
             /\ Untouched(call[c].row) /\ space'[call[c].row] = space[call[c].row]
  <2>1. call'[c] = call[c] /\ call[c].pc # "idle"
    BY <1>5, CallsKept
  <2>2. call[c].row \in Executions /\ space[call[c].row].state # "none"
    BY <1>2, <2>1 DEF Backed
  <2>3. QED
    BY <1>1, <1>5, <2>1, <2>2, WorktreesKept DEF Untouched
<1>6. ASSUME NEW c \in Calls, (call'[c].pc = "decide" /\ call'[c].passed) \/ call'[c].pc = "list",
             Untouched(call[c].row)'
      PROVE  Content(call[c].row, Artifact)' # NoFile
  <2>1. call'[c] = call[c] /\ Untouched(call[c].row) /\ space'[call[c].row] = space[call[c].row]
    BY <1>5, <1>6
  <2>2. Content(call[c].row, Artifact) # NoFile
    BY <1>6, <2>1 DEF Backed
  <2>3. QED
    BY <2>1, <2>2 DEF Content
<1>7. ASSUME NEW c \in Calls, call'[c].pc = "copy", Untouched(call[c].row)'
      PROVE  Copying(call[c].row, call[c].todo)'
  <2>1. call'[c] = call[c] /\ Untouched(call[c].row) /\ space'[call[c].row] = space[call[c].row]
    BY <1>5, <1>7
  <2>2. Copying(call[c].row, call[c].todo)
    BY <1>7, <2>1 DEF Backed
  <2>3. QED
    BY <1>1, <2>1, <2>2 DEF Copying, Arrived, OthersWon
<1>8. ASSUME NEW x \in whole'
      PROVE  space'[x].state # "none" /\ (x \notin cut' => Copying(x, {})')
  <2>1. x \in Executions /\ x \in whole /\ space[x].state # "none"
    BY <1>1, <1>2, <1>8 DEF Backed
  <2>2. /\ space'[x].state # "none" /\ space'[x].written = space[x].written
        /\ x \notin cut' => x \notin cut
    BY <1>1, <2>1, WorktreesKept
  <2>3. QED
    BY <1>1, <2>1, <2>2 DEF Backed, Copying, Arrived, OthersWon
<1>9. \A t \in Stages : status'[t] = "succeeded" /\ t \notin bypassed' =>
        \E x \in whole' : x[1] = t
  BY <1>1, SuccessKept DEF Backed, Elsewhere, PromoteStep
<1>10. QED
  BY <1>3, <1>4, <1>6, <1>7, <1>8, <1>9 DEF Backed

\* The steps of a promotion that copy nothing.
LEMMA BackedQuiet ==
  ASSUME WellTyped, Backed, [Next]_vars, NEW c \in Calls,
         \/ SelectRevision(c) \/ Validate(c) \/ RejectFenced(c) \/ RejectRevision(c)
         \/ RejectInvalid(c) \/ Demote(c) \/ TooLate(c) \/ Complete(c) \/ ListFiles(c)
         \/ Raises(c),
         ~\E d \in Calls : Succeed(d)
  PROVE  Backed'
<1>1. /\ call \in [Calls -> CallState] /\ won \in [Executions -> Nat]
      /\ space \in [Executions -> SpaceState]
      /\ \A d \in Calls : call[d].pc # "idle" => call[d].row \in Executions
      /\ call[c] \in CallState
  BY DEF WellTyped, TypeOK, Pointed
<1>2. PICK x \in Executions : x = call[c].row
  BY CallMoves DEF PromoteStep
<1>3. /\ call[c].pc # "idle" /\ space[x].state # "none"
      /\ \A d \in Calls : d # c => call'[d] = call[d]
      /\ call'[c].pc = "idle" \/ call'[c].row = x
  BY <1>2, CallMoves DEF PromoteStep, Backed
<1>4. UNCHANGED <<space, main, whole, cut>>
  BY DEF SelectRevision, Validate, RejectFenced, RejectRevision, RejectInvalid, Demote,
         TooLate, Complete, ListFiles, Raises, fileVars, histVars, outVars
<1>5. \A y \in Executions : won[y] # 0 => won'[y] # 0
  <2>1. CASE Complete(c)
    BY <1>1, <1>2, <2>1 DEF Complete
  <2>2. CASE ~Complete(c)
    BY <2>2 DEF SelectRevision, Validate, RejectFenced, RejectRevision, RejectInvalid,
                Demote, TooLate, ListFiles, Raises, histVars, outVars
  <2>3. QED
    BY <2>1, <2>2
<1>6. /\ \A y : Untouched(y)' <=> Untouched(y)
      /\ \A y, f : Content(y, f)' = Content(y, f)
  BY <1>4 DEF Untouched, Content
<1>7. ASSUME NEW y, NEW todo, Copying(y, todo) PROVE Copying(y, todo)'
  BY <1>4, <1>5, <1>7 DEF Copying, Arrived, OthersWon
<1>8. ASSUME (call'[c].pc = "decide" /\ call'[c].passed) \/ call'[c].pc = "list", Untouched(x)
      PROVE  Content(x, Artifact) # NoFile
  <2>1. CASE call'[c].pc = "decide"
    <3>1. Validate(c)
      BY <2>1, CallForward DEF PromoteStep
    <3>2. PICK name \in {"file_exists", "content_equals", "no_validator_ran"} :
            call' = [call EXCEPT ![c].pc = "decide", ![c].passed = ValidatorPasses(name, x)]
      BY <1>2, <3>1 DEF Validate
    <3>3. call'[c].passed = ValidatorPasses(name, x)
      BY <1>1, <3>2 DEF CallState
    <3>4. ValidatorPasses(name, x) => Content(x, Artifact) # NoFile
      BY PromotionAssumption DEF ValidatorPasses
    <3>5. QED
      BY <1>8, <2>1, <3>3, <3>4
  <2>2. CASE call'[c].pc = "list"
    <3>1. Complete(c)
      BY <2>2, CallForward DEF PromoteStep
    <3>2. QED
      BY <1>2, <1>8, <3>1 DEF Complete, Promotable, At, Passed, Backed
  <2>3. QED
    BY <1>8, <2>1, <2>2
<1>9. ASSUME call'[c].pc = "copy", Untouched(x) PROVE Copying(x, call[c].todo)'
  <2> DEFINE files == Present(x)
  <2>1. ListFiles(c)
    <3>1. ~Raises(c)
      BY <1>1, <1>9, IdleStates DEF Raises, Return
    <3>2. call[c].pc # "copy"
      BY <3>1 DEF SelectRevision, Validate, RejectFenced, RejectRevision, RejectInvalid,
                  Demote, TooLate, Complete, ListFiles, At, Promotable
    <3>3. QED
      BY <1>9, <3>2, CallForward DEF PromoteStep
  <2>2. call' = [call EXCEPT ![c].pc = "copy", ![c].todo = files] /\ call[c].pc = "list"
    BY <1>2, <2>1 DEF ListFiles, At
  <2>3. Content(x, Artifact) # NoFile /\ space[x].gone = {}
    BY <1>2, <1>9, <2>2 DEF Backed
  <2>4. \A f \in space[x].written : Content(x, f) = x /\ f \in Files
    BY <1>1, <2>3 DEF Content, SpaceState
  <2>5. Artifact \in files /\ \A f \in space[x].written : f \in files
    BY <2>3, <2>4, PromotionAssumption DEF Present
  <2> HIDE DEF files
  <2>6. call'[c].todo = files
    BY <1>1, <2>2 DEF CallState
  <2>7. QED
    BY <1>4, <2>5, <2>6 DEF Copying, Arrived
<1>10. \A y \in Executions :
         Untouched(y)' => space'[y].gone = {} /\ space'[y].state # "removed"
  BY <1>4, <1>6 DEF Backed
<1>11. \A d \in Calls : call'[d].pc # "idle" => space'[call'[d].row].state # "none"
  BY <1>3, <1>4 DEF Backed
<1>12. ASSUME NEW d \in Calls,
              (call'[d].pc = "decide" /\ call'[d].passed) \/ call'[d].pc = "list",
              Untouched(call[d].row)'
       PROVE  Content(call'[d].row, Artifact) # NoFile
  BY <1>3, <1>6, <1>8, <1>12 DEF Backed
<1>13. ASSUME NEW d \in Calls, call'[d].pc = "copy", Untouched(call[d].row)'
       PROVE  Copying(call[d].row, call[d].todo)'
  <2>1. CASE d = c
    <3>1. call'[c].row = x /\ Untouched(x)
      BY <1>3, <1>6, <1>13, <2>1
    <3>2. Copying(x, call[c].todo)'
      BY <1>9, <1>13, <2>1, <3>1
    <3>3. QED
      BY <2>1, <3>1, <3>2 DEF Copying, Arrived, OthersWon
  <2>2. CASE d # c
    <3>1. call'[d] = call[d] /\ Untouched(call[d].row)
      BY <1>3, <1>6, <1>13, <2>2
    <3>2. Copying(call[d].row, call[d].todo)
      BY <1>13, <3>1 DEF Backed
    <3>3. QED
      BY <1>4, <1>5, <3>1, <3>2 DEF Copying, Arrived, OthersWon
  <2>3. QED
    BY <2>1, <2>2
<1>14. \A y \in whole' : /\ space'[y].state # "none"
                         /\ y \notin cut' => Copying(y, {})'
  BY <1>4, <1>7 DEF Backed
<1>15. \A t \in Stages : status'[t] = "succeeded" /\ t \notin bypassed' =>
         \E y \in whole' : y[1] = t
  BY <1>4, SuccessKept DEF Backed
<1>16. \A d \in Calls :
         ((call'[d].pc = "decide" /\ call'[d].passed) \/ call'[d].pc = "list")
         /\ Untouched(call[d].row)' =>
           Content(call[d].row, Artifact)' # NoFile
  BY <1>4, <1>12 DEF Content, Untouched
<1>17. \A d \in Calls : call'[d].pc = "copy" /\ Untouched(call[d].row)' =>
           Copying(call[d].row, call[d].todo)'
  BY <1>13 DEF Untouched
<1>18. QED
  BY <1>10, <1>11, <1>14, <1>15, <1>16, <1>17 DEF Backed

LEMMA BackedSucceed ==
  ASSUME WellTyped, Backed, NEW c \in Calls, Succeed(c) PROVE Backed'
<1>1. /\ call \in [Calls -> CallState] /\ status \in [Stages -> StageStatus]
      /\ \A d \in Calls : call[d].pc # "idle" => call[d].row \in Executions
      /\ whole \subseteq Executions
  BY DEF WellTyped, TypeOK, Pointed
<1>2. PICK x \in Executions : x = call[c].row
  BY CallMoves DEF PromoteStep
<1>3. /\ UNCHANGED <<space, main, won, cut>> /\ whole' = whole \union {x}
      /\ status' = [status EXCEPT ![x[1]] = "succeeded"]
      /\ bypassed' = bypassed \ {x[1]}
      /\ call[c].pc = "copy" /\ call[c].todo = {}
  BY <1>2 DEF Succeed, At, Copied, fileVars
<1>4. /\ \A d \in Calls : d # c => call'[d] = call[d]
      /\ call'[c].pc = "idle"
  BY <1>1, IdleStates DEF Succeed, Return
<1>5. /\ \A y : Untouched(y)' => Untouched(y)
      /\ \A y, f : Content(y, f)' = Content(y, f)
  BY <1>3 DEF Untouched, Content
<1>6. x \notin cut => Copying(x, {})
  BY <1>2, <1>3 DEF Backed, Untouched
<1>7. space[x].state # "none"
  BY <1>2, <1>3 DEF Backed
<1>8. \A y \in Executions :
         Untouched(y)' => space'[y].gone = {} /\ space'[y].state # "removed"
  BY <1>3, <1>5 DEF Backed
<1>9. \A d \in Calls : call'[d].pc # "idle" => space'[call'[d].row].state # "none"
  BY <1>3, <1>4 DEF Backed
<1>10. \A d \in Calls :
         ((call'[d].pc = "decide" /\ call'[d].passed) \/ call'[d].pc = "list")
         /\ Untouched(call[d].row)' =>
           Content(call[d].row, Artifact)' # NoFile
  BY <1>3, <1>4 DEF Backed, Content, Untouched
<1>11. \A d \in Calls : call'[d].pc = "copy" /\ Untouched(call[d].row)' =>
           Copying(call[d].row, call[d].todo)'
  BY <1>3, <1>4 DEF Backed, Copying, Untouched, Arrived, OthersWon
<1>12. \A y \in whole' : /\ space'[y].state # "none"
                         /\ y \notin cut' => Copying(y, {})'
  BY <1>3, <1>6, <1>7 DEF Backed, Copying, Arrived, OthersWon
<1>13. \A t \in Stages : status'[t] = "succeeded" /\ t \notin bypassed' =>
         \E y \in whole' : y[1] = t
  BY <1>1, <1>2, <1>3 DEF Backed
<1>14. QED
  BY <1>8, <1>9, <1>10, <1>11, <1>12, <1>13 DEF Backed

\* A file of x reaches the main tree, or a part of it.
LEMMA BackedCopy ==
  ASSUME WellTyped, Backed, Once, [Next]_vars, NEW c \in Calls,
         CopyFile(c) \/ CopyBreaksOff(c), ~\E d \in Calls : Succeed(d)
  PROVE  Backed'
<1>1. /\ call \in [Calls -> CallState] /\ main \in [Files -> Contents]
      /\ \A d \in Calls : call[d].pc # "idle" => call[d].row \in Executions
      /\ call[c] \in CallState /\ whole \subseteq Executions
      /\ space \in [Executions -> SpaceState]
  BY DEF WellTyped, TypeOK, Pointed
<1>2. PICK x \in Executions : x = call[c].row
  BY CallMoves DEF PromoteStep
<1>3. UNCHANGED <<space, won, whole, cut>> /\ call[c].pc = "copy"
  BY DEF CopyFile, CopyBreaksOff, histVars, outVars, At
<1>4. /\ \A d \in Calls : d # c => call'[d] = call[d]
      /\ call'[c].pc = "idle" \/ call'[c].row = x
  BY <1>2, CallMoves DEF PromoteStep
<1>5. PICK f \in Files :
        /\ main'[f] # NoFile /\ \A g \in Files : g # f => main'[g] = main[g]
        /\ call'[c].pc # "idle" =>
             /\ call'[c].pc = "copy" /\ call'[c].todo = call[c].todo \ {f}
             /\ f \in space[x].written => main'[f] = x
  <2>1. CASE CopyFile(c)
    <3>1. PICK f \in call[c].todo \intersect Present(x) :
            /\ main' = [main EXCEPT ![f] = Content(x, f)]
            /\ call' = [call EXCEPT ![c].todo = @ \ {f}]
      BY <1>2, <2>1 DEF CopyFile
    <3>2. f \in Files /\ Content(x, f) # NoFile
      BY <3>1 DEF Present
    <3>3. main'[f] = Content(x, f) /\ \A g \in Files : g # f => main'[g] = main[g]
      BY <1>1, <3>1, <3>2
    <3>4. call'[c].pc = "copy" /\ call'[c].todo = call[c].todo \ {f}
      BY <1>1, <1>3, <3>1 DEF CallState
    <3>5. f \in space[x].written => Content(x, f) = x
      BY <3>2 DEF Content
    <3>6. QED
      BY <3>2, <3>3, <3>4, <3>5
  <2>2. CASE CopyBreaksOff(c)
    <3>1. PICK f \in call[c].todo : main' = [main EXCEPT ![f] = Torn]
      BY <2>2 DEF CopyBreaksOff
    <3>2. call'[c].pc = "idle"
      BY <1>1, <2>2, IdleStates DEF CopyBreaksOff, Return
    <3>3. QED
      BY <1>1, <3>1, <3>2, PromotionAssumption DEF CallState
  <2>3. QED
    BY <2>1, <2>2
<1>6. won[x] = 1 /\ x \notin whole /\ Promoting(c)
  BY <1>2, <1>3 DEF Once, Decided, Promoting
<1>7. /\ \A y : Untouched(y)' <=> Untouched(y)
      /\ \A y, g : Content(y, g)' = Content(y, g)
  BY <1>3 DEF Untouched, Content
\* Another execution may lose the file to x.
<1>8. ASSUME NEW y \in Executions, NEW todo, Copying(y, todo), y # x PROVE Copying(y, todo)'
  <2>1. \E z \in Executions : z # y /\ won'[z] # 0
    BY <1>3, <1>6, <1>8
  <2>2. Artifact \in todo \/ main'[Artifact] # NoFile
    BY <1>5, <1>8, PromotionAssumption DEF Copying
  <2>3. QED
    BY <2>1, <2>2 DEF Copying, Arrived, OthersWon
<1>9. ASSUME call'[c].pc # "idle", Copying(x, call[c].todo) PROVE Copying(x, call[c].todo)'
  <2>1. space[x].written \subseteq Files
    BY <1>1 DEF SpaceState
  <2>2. /\ call'[c].todo = call[c].todo \ {f}
        /\ f \in space[x].written => main'[f] = x
    BY <1>5, <1>9
  <2>3. ASSUME NEW g \in space[x].written
        PROVE  g \in call'[c].todo \/ main'[g] = x \/ OthersWon(x)
    <3>1. g \in call[c].todo \/ main[g] = x \/ OthersWon(x)
      BY <1>9 DEF Copying, Arrived
    <3>2. CASE g = f
      BY <2>2, <3>2
    <3>3. CASE g # f
      BY <1>5, <2>1, <2>2, <3>1, <3>3
    <3>4. QED
      BY <3>2, <3>3
  <2>4. Artifact \in call'[c].todo \/ main'[Artifact] # NoFile
    BY <1>5, <1>9, PromotionAssumption DEF Copying
  <2>5. QED
    BY <1>3, <2>3, <2>4 DEF Copying, Arrived, OthersWon
<1>10. \A y \in Executions :
         Untouched(y)' => space'[y].gone = {} /\ space'[y].state # "removed"
  BY <1>3, <1>7 DEF Backed
<1>11. \A d \in Calls : call'[d].pc # "idle" => space'[call'[d].row].state # "none"
  BY <1>2, <1>3, <1>4 DEF Backed
<1>12. \A d \in Calls :
         ((call'[d].pc = "decide" /\ call'[d].passed) \/ call'[d].pc = "list")
         /\ Untouched(call[d].row)' =>
           Content(call[d].row, Artifact)' # NoFile
  BY <1>3, <1>4, <1>5 DEF Backed, Content, Untouched
<1>13. ASSUME NEW d \in Calls, call'[d].pc = "copy", Untouched(call[d].row)'
       PROVE  Copying(call[d].row, call[d].todo)'
  <2>1. CASE d = c
    <3>1. call'[c].row = x /\ Untouched(x)
      BY <1>4, <1>7, <1>13, <2>1
    <3>2. Copying(x, call[c].todo)'
      BY <1>2, <1>3, <1>9, <1>13, <2>1, <3>1 DEF Backed
    <3>3. QED
      BY <2>1, <3>1, <3>2 DEF Copying, Arrived, OthersWon
  <2>2. CASE d # c
    <3>1. call'[d] = call[d] /\ Untouched(call[d].row) /\ call[d].row \in Executions
      BY <1>1, <1>4, <1>7, <1>13, <2>2
    <3>2. call[d].row # x
      BY <1>2, <1>6, <1>13, <2>2, <3>1 DEF Once, Promoting
    <3>3. Copying(call[d].row, call[d].todo)
      BY <1>13, <3>1 DEF Backed
    <3>4. PICK y \in Executions, todo \in SUBSET Files :
            y = call[d].row /\ todo = call[d].todo
      BY <1>1, <3>1 DEF CallState
    <3>5. Copying(y, todo)'
      BY <1>8, <3>2, <3>3, <3>4
    <3>6. QED
      BY <3>1, <3>4, <3>5 DEF Copying, Arrived, OthersWon
  <2>3. QED
    BY <2>1, <2>2
<1>14. \A y \in whole' : /\ space'[y].state # "none"
                         /\ y \notin cut' => Copying(y, {})'
  BY <1>1, <1>3, <1>6, <1>8 DEF Backed
<1>15. \A t \in Stages : status'[t] = "succeeded" /\ t \notin bypassed' =>
         \E y \in whole' : y[1] = t
  BY <1>3, SuccessKept DEF Backed
<1>16. \A d \in Calls : call'[d].pc = "copy" /\ Untouched(call[d].row)' =>
           Copying(call[d].row, call[d].todo)'
  BY <1>13 DEF Untouched
<1>17. QED
  BY <1>10, <1>11, <1>12, <1>14, <1>15, <1>16 DEF Backed

LEMMA BackedNext == WellTyped /\ Once /\ Backed /\ [Next]_vars => Backed'
<1> SUFFICES ASSUME WellTyped, Once, Backed, [Next]_vars PROVE Backed'
  OBVIOUS
<1>1. CASE \E c \in Calls : Succeed(c)
  BY <1>1, BackedSucceed
<1>2. CASE ~\E c \in Calls : Succeed(c)
  <2>1. CASE Elsewhere
    BY <2>1, BackedElsewhere
  <2>2. ASSUME NEW c \in Calls, PromoteStep(c) PROVE Backed'
    BY <1>2, <2>2, BackedQuiet, BackedCopy DEF PromoteStep
  <2>3. QED
    BY <2>1, <2>2 DEF Elsewhere
<1>3. QED
  BY <1>1, <1>2

LEMMA AlwaysBacked == Spec => []Backed
  BY AlwaysWellTyped, AlwaysOnce, BackedInit, BackedNext, PTL DEF Spec

\* Whoever else writes the status of stages: one that succeeded by a promotion has an
\* execution that was promoted to the end, and the artifact that its validator looked
\* at in the main tree, unless the worktree was removed at that time.
THEOREM PromotedStagesHaveArtifacts == Spec => []PromotedHasArtifact
<1>1. Backed => PromotedHasArtifact
  BY DEF Backed, Copying, PromotedHasArtifact
<1>2. QED
  BY <1>1, AlwaysBacked, PTL

\* A promotion that ended with a success has copied all its worker wrote, whatever
\* failed, raced with it or was removed afterwards.
THEOREM PromotionsAreWhole == Spec => []PromotionIsWhole
<1>1. Backed => PromotionIsWhole
  BY DEF Backed, Copying, PromotionIsWhole, Arrived, OthersWon
<1>2. QED
  BY <1>1, AlwaysBacked, PTL


-----------------------------------------------------------------------------
(* Revisions only grow, so that a superseded execution stays so *)

Forward ==
  /\ \A s \in Stages : rev[s] <= replans + 1
  /\ \A x \in Executions : space[x].expected <= rev[x[1]]
  /\ \A c \in belated : call[c].pc # "idle" =>
       /\ space[call[c].row].expected < rev[call[c].row[1]]
       /\ call[c].pc \in {"validate", "decide"} => ~call[c].match
       /\ call[c].pc \in {"revision", "validate", "decide"}

LEMMA ForwardInit == Init => Forward
  BY IdleStates DEF Init, Forward, NoSpace, Executions

\* The revision of a stage does not go back, nor do the replans.
LEMMA RevisionsGrow ==
  ASSUME WellTyped, Forward, [Next]_vars
  PROVE  /\ \A s \in Stages : rev[s] <= rev'[s] /\ rev'[s] <= replans' + 1
         /\ rev' \in [Stages -> Int]
<1>1. /\ rev \in [Stages -> Int] /\ replans \in Int
      /\ \A s \in Stages : rev[s] <= replans + 1
  BY PromotionAssumption DEF WellTyped, TypeOK, Forward, Revisions
<1>2. CASE UNCHANGED rev /\ (UNCHANGED replans \/ replans' = replans + 1)
  BY <1>1, <1>2
<1>3. CASE ResetStage
  <2>1. PICK s \in replan.stages : rev' = [rev EXCEPT ![s] = replans + 1]
    BY <1>3 DEF ResetStage
  <2>2. replans' = replans
    BY <1>3 DEF ResetStage, envVars
  <2>3. \A t \in Stages : rev'[t] = rev[t] \/ rev'[t] = replans + 1
    BY <1>1, <2>1
  <2>4. rev' \in [Stages -> Int]
    <3>1. replans + 1 \in Int
      BY <1>1
    <3> DEFINE n == replans + 1
    <3>2. n \in Int /\ rev' = [rev EXCEPT ![s] = n]
      BY <2>1, <3>1
    <3> HIDE DEF n
    <3>3. QED
      BY <1>1, <3>2
  <2>5. ASSUME NEW t \in Stages PROVE rev[t] <= rev'[t] /\ rev'[t] <= replans' + 1
    <3>1. /\ rev[t] \in Int /\ replans \in Int /\ rev[t] <= replans + 1
          /\ rev'[t] = rev[t] \/ rev'[t] = replans + 1
      BY <1>1, <2>3
    <3>2. QED
      BY <2>2, <3>1
  <2>6. QED
    BY <2>4, <2>5
<1>4. \/ ResetStage
      \/ UNCHANGED rev /\ (UNCHANGED replans \/ replans' = replans + 1)
  BY WhoWrites DEF Writes, ReplanBegin
<1>5. QED
  BY <1>2, <1>3, <1>4

\* The revision noted in a worktree: that of the stage, when it is created.
LEMMA NotedRevisions ==
  ASSUME WellTyped, Forward, [Next]_vars, NEW x \in Executions
  PROVE  space'[x].expected <= rev'[x[1]] /\ space'[x].expected \in Int
<1>1. /\ space \in [Executions -> SpaceState]
      /\ \A s \in Revisions : s \in Int /\ rev \in [Stages -> Revisions]
      /\ x[1] \in Stages /\ space[x].expected <= rev[x[1]] /\ space[x].expected \in Int
  BY PromotionAssumption DEF WellTyped, TypeOK, Forward, Executions, Revisions, SpaceState
<1>2. /\ rev[x[1]] \in Int /\ rev'[x[1]] \in Int /\ rev[x[1]] <= rev'[x[1]]
  BY <1>1, RevisionsGrow, PromotionAssumption DEF Revisions, WellTyped, TypeOK
<1>3. ASSUME NEW y \in Executions, CreateWorktree(y)
      PROVE  space'[x] = space[x] \/ space'[x].expected = rev[x[1]]
  <2>1. PICK fs \in SUBSET Files :
          space' = [space EXCEPT ![y] = [state |-> "worked", expected |-> rev[y[1]],
                                         written |-> fs, gone |-> {}]]
    BY <1>3 DEF CreateWorktree
  <2> DEFINE r == [state |-> "worked", expected |-> rev[y[1]], written |-> fs, gone |-> {}]
  <2>2. space' = [space EXCEPT ![y] = r] /\ r.expected = rev[y[1]]
    BY <2>1
  <2> HIDE DEF r
  <2>3. QED
    BY <1>1, <2>2
<1>4. space[x].state # "none" => space'[x].expected = space[x].expected
  BY WorktreesKept
<1>5. ASSUME NEW y \in Executions, RemoveFile(y) \/ RemoveWorktree(y)
      PROVE  space'[x].expected = space[x].expected
  <2>1. space[x].state = "none" => space'[x] = space[x]
    BY <1>1, <1>5 DEF RemoveFile, RemoveWorktree
  <2>2. QED
    BY <1>4, <2>1
<1>6. QED
  BY <1>1, <1>2, <1>3, <1>5, WhoWrites DEF Writes, SpaceStep

\* A call that works for a superseded execution goes on doing so.
LEMMA StaysSuperseded ==
  ASSUME WellTyped, Forward, [Next]_vars, NEW x \in Executions, space[x].state # "none",
         space[x].expected < rev[x[1]]
  PROVE  space'[x].expected < rev'[x[1]]
<1>1. x[1] \in Stages /\ rev[x[1]] \in Int /\ rev'[x[1]] \in Int /\ rev[x[1]] <= rev'[x[1]]
  BY RevisionsGrow, PromotionAssumption DEF Executions, WellTyped, TypeOK, Revisions
<1>2. space'[x].expected = space[x].expected /\ space'[x].expected \in Int
  BY NotedRevisions, WorktreesKept
<1>3. QED
  BY <1>1, <1>2

LEMMA ForwardNext == WellTyped /\ Backed /\ Forward /\ [Next]_vars => Forward'
<1> SUFFICES ASSUME WellTyped, Backed, Forward, [Next]_vars PROVE Forward'
  OBVIOUS
<1>1. /\ call \in [Calls -> CallState] /\ belated \subseteq Calls
      /\ \A c \in Calls : call[c].pc # "idle" =>
           call[c].row \in Executions /\ space[call[c].row].state # "none"
  BY DEF WellTyped, TypeOK, Pointed, Backed
<1>2. /\ \A s \in Stages : rev'[s] <= replans' + 1
      /\ \A x \in Executions : space'[x].expected <= rev'[x[1]]
  BY RevisionsGrow, NotedRevisions
\* It is enough to look at the calls.
<1>3. ASSUME \A c \in belated' : call'[c].pc # "idle" =>
               /\ space'[call'[c].row].expected < rev'[call'[c].row[1]]
               /\ call'[c].pc \in {"validate", "decide"} => ~call'[c].match
               /\ call'[c].pc \in {"revision", "validate", "decide"}
      PROVE  Forward'
  BY <1>2, <1>3 DEF Forward
<1>4. \A c \in belated : call[c].pc # "idle" =>
        space'[call[c].row].expected < rev'[call[c].row[1]]
  BY <1>1, StaysSuperseded DEF Forward
<1>5. ASSUME NEW c \in Calls, NEW x \in Executions, SelectRow(c, x) PROVE Forward'
  <2> DEFINE r == [IdleCall EXCEPT !.pc = "revision", !.row = x, !.fenced = Live(x)]
  <2>1. r.pc = "revision" /\ r.row = x
    BY DEF IdleCall
  <2>2. call' = [call EXCEPT ![c] = r] /\ space' = space /\ rev' = rev
    BY <1>5 DEF SelectRow, dbVars, stageVars, fileVars
  <2>3. \A d \in Calls : d # c => call'[d] = call[d]
    BY <1>1, <2>2
  <2>4. call'[c].pc = "revision" /\ call'[c].row = x
    BY <1>1, <2>1, <2>2
  <2>5. \A d \in belated' : d # c => d \in belated
    BY <1>5 DEF SelectRow
  <2>6. c \in belated' => space[x].expected < rev[x[1]]
    <3>1. c \in belated' => Superseded(x)
      BY <1>5 DEF SelectRow
    <3>2. space[x].expected <= rev[x[1]] /\ space[x].expected \in Int /\ rev[x[1]] \in Int
      BY PromotionAssumption DEF Forward, WellTyped, TypeOK, Executions, Revisions,
                                 SpaceState
    <3>3. QED
      BY <3>1, <3>2 DEF Superseded
  <2>7. belated' \subseteq Calls
    BY <1>1, <1>5 DEF SelectRow
  <2> HIDE DEF r
  <2>8. ASSUME NEW d \in belated', call'[d].pc # "idle"
        PROVE  /\ space'[call'[d].row].expected < rev'[call'[d].row[1]]
               /\ call'[d].pc \in {"validate", "decide"} => ~call'[d].match
               /\ call'[d].pc \in {"revision", "validate", "decide"}
    <3>1. CASE d = c
      BY <2>2, <2>4, <2>6, <3>1
    <3>2. CASE d # c
      BY <1>4, <2>3, <2>5, <2>7, <2>8, <3>2 DEF Forward
    <3>3. QED
      BY <3>1, <3>2
  <2>9. QED
    BY <1>3, <2>8
<1>6. CASE Elsewhere /\ ~\E c \in Calls, x \in Executions : SelectRow(c, x)
  <2>1. belated' = belated /\ (UNCHANGED call \/ Crash)
    BY <1>6, WhoWrites DEF Elsewhere, Writes
  <2>2. \A c \in Calls : call'[c] = call[c] \/ call'[c].pc = "idle"
    BY <2>1, IdleStates DEF Crash
  <2>3. QED
    BY <1>1, <1>3, <1>4, <2>1, <2>2 DEF Forward
<1>7. ASSUME NEW c \in Calls, PromoteStep(c) PROVE Forward'
  <2>1. belated' = belated
    BY <1>7 DEF PromoteStep, SelectRevision, Validate, RejectFenced, RejectRevision,
                RejectInvalid, Demote, Complete, TooLate, ListFiles, CopyFile, Succeed,
                Raises, CopyBreaksOff, histVars, outVars
  <2>2. /\ \A d \in Calls : d # c => call'[d] = call[d]
        /\ call'[c].pc = "idle" \/ call'[c].row = call[c].row
        /\ call[c].pc # "idle" /\ call[c] \in CallState
    BY <1>1, <1>7, CallMoves
  <2>3. ASSUME c \in belated, call'[c].pc # "idle"
        PROVE  call'[c].pc \in {"validate", "decide"} /\ ~call'[c].match
    <3>1. /\ call[c].pc \in {"revision", "validate", "decide"}
          /\ call[c].pc \in {"validate", "decide"} => ~call[c].match
          /\ space[call[c].row].expected < rev[call[c].row[1]]
      BY <2>2, <2>3 DEF Forward
    <3>2. Superseded(call[c].row)
      <4>1. space[call[c].row].expected \in Int /\ rev[call[c].row[1]] \in Int
        BY <1>1, <2>2, PromotionAssumption DEF WellTyped, TypeOK, Executions, Revisions,
                                               SpaceState
      <4>2. QED
        BY <3>1, <4>1 DEF Superseded
    <3>3. CASE SelectRevision(c)
      BY <1>1, <2>2, <3>2, <3>3 DEF SelectRevision, CallState, RevisionMatches
    <3>4. CASE Validate(c)
      BY <1>1, <2>2, <3>1, <3>4 DEF Validate, CallState, At
    <3>5. QED
      BY <1>7, <2>3, <3>1, <3>3, <3>4, CallForward
         DEF RejectInvalid, Complete, Promotable
  <2>4. QED
    BY <1>1, <1>3, <1>4, <2>1, <2>2, <2>3 DEF Forward
<1>8. QED
  BY <1>5, <1>6, <1>7 DEF Elsewhere

LEMMA AlwaysForward == Spec => []Forward
  BY AlwaysWellTyped, AlwaysBacked, ForwardInit, ForwardNext, PTL DEF Spec

\* A promotion that begins when its stage has been replanned already promotes nothing.
THEOREM SupersededIsNotPromoted == Spec => []SupersededNotPromoted
<1>1. Forward => SupersededNotPromoted
  BY DEF Forward, SupersededNotPromoted, MovingOn
<1>2. QED
  BY <1>1, AlwaysForward, PTL

-----------------------------------------------------------------------------
(* What a replan leaves of the approvals it finds *)

Swept ==
  /\ \A a \in due : approval[a] # "none"
  /\ replan.pc # "idle" => replans > 0
  /\ replan.pc = "invalidate" =>
       \A a \in due : approval[a] = "invalidated" \/ a \in replan.found
  /\ replan.pc \in {"idle", "worktrees", "abandon"} =>
       \A a \in due : approval[a] = "invalidated"

LEMMA SweptInit == Init => Swept
  BY IdleStates DEF Init, Swept

LEMMA SweptNext == WellTyped /\ Swept /\ [Next]_vars => Swept'
<1> SUFFICES ASSUME WellTyped, Swept, [Next]_vars PROVE Swept'
  OBVIOUS
<1>1. /\ approval \in [Approvals -> {"none", "valid", "invalidated"}]
      /\ replan \in ReplanState /\ due \subseteq Approvals
      /\ replans \in Nat
  BY PromotionAssumption DEF WellTyped, TypeOK
<1>2. replans' \in Nat /\ replans' >= replans /\ (replans' = replans \/ ReplanBegin)
  <2>1. ReplanBegin => replans' = replans + 1
    BY DEF ReplanBegin
  <2>2. replans' = replans \/ ReplanBegin
    BY WhoWrites DEF Writes
  <2>3. QED
    BY <1>1, <2>1, <2>2
<1>3. CASE UNCHANGED <<approval, replan, due>>
  BY <1>1, <1>2, <1>3 DEF Swept
<1>4. ASSUME NEW a \in Approvals, Approve(a) PROVE Swept'
  BY <1>1, <1>2, <1>4 DEF Approve, clients, others, histVars, outVars, Swept
<1>5. CASE ReplanBegin
  <2>1. replan'.pc = "reset" /\ approval' = approval /\ replans' = replans + 1
    BY <1>5 DEF ReplanBegin, IdleReplan, dbVars
  <2>2. \A a \in due' : approval[a] = "valid"
    BY <1>5 DEF ReplanBegin
  <2>3. QED
    BY <1>1, <2>1, <2>2 DEF Swept
<1>6. CASE ResetStage
  <2>1. /\ replan.pc = "reset" /\ replan'.pc = "approvals"
        /\ UNCHANGED <<approval, due, replans>>
    BY <1>1, <1>6 DEF ResetStage, ReplanState, histVars, outVars, envVars
  <2>2. QED
    BY <2>1 DEF Swept
<1>7. CASE SelectApprovals
  <2> DEFINE found == {a \in Approvals : BoundToOld(a)}
  <2>1. /\ replan' = [replan EXCEPT !.pc = "invalidate", !.found = found]
        /\ UNCHANGED <<approval, due, replans>> /\ replan.pc = "approvals"
    BY <1>7 DEF SelectApprovals, dbVars, histVars, outVars, envVars
  <2>2. Bound # replans + 1
    BY <1>1, <2>1 DEF Swept, Bound
  <2>3. \A a \in due : approval[a] = "invalidated" \/ a \in found
    BY <1>1, <2>2 DEF Swept, BoundToOld
  <2> HIDE DEF found
  <2>4. replan'.pc = "invalidate" /\ replan'.found = found
    BY <1>1, <2>1 DEF ReplanState
  <2>5. QED
    BY <2>1, <2>3, <2>4 DEF Swept
<1>8. CASE InvalidateApproval
  <2>1. PICK a \in replan.found :
          /\ approval' = [approval EXCEPT ![a] = "invalidated"]
          /\ replan' = [replan EXCEPT !.found = @ \ {a}]
    BY <1>8 DEF InvalidateApproval
  <2>2. /\ replan'.pc = "invalidate" /\ replan'.found = replan.found \ {a}
        /\ UNCHANGED <<due, replans>> /\ replan.pc = "invalidate"
    BY <1>1, <1>8, <2>1 DEF InvalidateApproval, ReplanState, histVars, outVars, envVars
  <2>3. QED
    BY <1>1, <2>1, <2>2 DEF Swept
<1>9. CASE NextStage
  <2>1. /\ replan.pc = "invalidate" /\ replan.found = {}
        /\ UNCHANGED <<approval, due, replans>>
        /\ replan'.pc \in {"worktrees", "reset"}
    BY <1>1, <1>9 DEF NextStage, ReplanState, dbVars, histVars, outVars, envVars
  <2>2. QED
    BY <2>1 DEF Swept
<1>10. CASE SelectLatest \/ AbandonLatest \/ ReplanEnd
  <2>1. /\ replan.pc \in {"worktrees", "abandon"} /\ UNCHANGED <<approval, due, replans>>
        /\ replan'.pc # "invalidate"
    BY <1>1, <1>10, IdleStates
       DEF SelectLatest, AbandonLatest, ReplanEnd, ReplanState, dbVars, histVars, outVars,
           envVars
  <2>2. QED
    BY <2>1 DEF Swept
<1>11. CASE ReplanRaises \/ Crash
  <2>1. replan'.pc = "idle" /\ approval' = approval /\ due' = DueWithoutReplan
    BY <1>11, IdleStates DEF ReplanRaises, Crash, dbVars
  <2>2. QED
    BY <2>1 DEF Swept, DueWithoutReplan
<1>12. UNCHANGED <<approval, replan, due>> \/ ReplanStep \/ Crash
       \/ \E a \in Approvals : Approve(a)
  BY WhoWrites DEF Writes, ReplanStep
<1>13. QED
  BY <1>3, <1>4, <1>5, <1>6, <1>7, <1>8, <1>9, <1>10, <1>11, <1>12 DEF ReplanStep

\* invalidate_downstream: no approval on record when it began, bound to a revision
\* that it replaces, is "silently carried forward".
THEOREM ApprovalsAreInvalidated == Spec => []ApprovalsInvalidated
<1>1. Swept => ApprovalsInvalidated
  BY DEF Swept, ApprovalsInvalidated
<1>2. QED
  BY <1>1, AlwaysWellTyped, SweptInit, SweptNext, PTL DEF Spec

-----------------------------------------------------------------------------
(* Until a replan, who is in charge of a running stage *)

InCharge(s) ==
  \/ \E x \in claiming \union acked : x[1] = s
  \/ \E x \in Executions : x[1] = s /\ row[x] = "claimed"
  \/ \E c \in Calls : call[c].pc \in MovingOn /\ call[c].row[1] = s
  \/ sweep.pc = "move" /\ sweep.row[1] = s
  \/ s \in dropped

Attended ==
  /\ \A x \in Executions : space[x].state # "none" => row[x] # "none"
  /\ \A c \in Calls : call[c].pc # "idle" /\ ~call[c].fenced => row[call[c].row] # "claimed"
  /\ replans = 0 => replan.pc = "idle"
  /\ replans = 0 => \A c \in Calls : call[c].pc \in {"validate", "decide"} => call[c].match
  /\ up /\ replans = 0 => \A s \in Stages : status[s] = "running" => InCharge(s)

LEMMA AttendedInit == Init => Attended
  BY IdleStates DEF Init, Attended, NoSpace

LEMMA ReplansGrow ==
  ASSUME WellTyped, [Next]_vars
  PROVE  /\ replans' = 0 => replans = 0
         /\ replans' = 0 => ~ReplanBegin
         /\ replans = 0 /\ replan.pc = "idle" /\ ~ReplanBegin => replan'.pc = "idle"
<1>1. replans \in Nat /\ replan \in ReplanState
  BY PromotionAssumption DEF WellTyped, TypeOK
<1>2. replans' = replans \/ (ReplanBegin /\ replans' = replans + 1)
  <2>1. ReplanBegin => replans' = replans + 1
    BY DEF ReplanBegin
  <2>2. QED
    BY <2>1, WhoWrites DEF Writes
<1>3. replan.pc = "idle" => ReplanBegin \/ replan' = replan \/ replan' = IdleReplan
  <2>1. replan.pc = "idle" => (ReplanStep => ReplanBegin)
    BY DEF ReplanStep, ResetStage, SelectApprovals, InvalidateApproval, NextStage,
           SelectLatest, AbandonLatest, ReplanEnd, ReplanRaises
  <2>2. Crash => replan' = IdleReplan
    BY DEF Crash
  <2>3. QED
    BY <2>1, <2>2, WhoWrites DEF Writes
<1>4. ReplanBegin => replans' # 0
  BY <1>1 DEF ReplanBegin
<1>5. replans' = 0 => replans = 0 /\ ~ReplanBegin
  BY <1>2, <1>4
<1>6. QED
  BY <1>3, <1>5, IdleStates

LEMMA RowExists ==
  ASSUME WellTyped, Attended, [Next]_vars, NEW x \in Executions, space'[x].state # "none"
  PROVE  row'[x] # "none"
<1>1. /\ row \in [Executions -> {"none", "claimed", "completed", "failed", "abandoned"}]
      /\ space \in [Executions -> SpaceState]
  BY DEF WellTyped, TypeOK
<1>2. row[x] # "none" => row'[x] # "none"
  BY RowsKept, RowMoves DEF Elsewhere
<1>3. ASSUME NEW y \in Executions, SpaceStep(y)
      PROVE  space'[x] = space[x] \/ row[x] # "none" \/ space[x].state # "none"
  BY <1>1, <1>3 DEF SpaceStep, CreateWorktree, RemoveFile, RemoveWorktree
<1>4. QED
  BY <1>2, <1>3, WhoWrites DEF Attended, Writes

\* A promotion that read a row not live will not see it live, and without a replan
\* none finds another revision.
LEMMA CallsAttended ==
  ASSUME WellTyped, Backed, Forward, Attended, [Next]_vars
  PROVE  /\ \A c \in Calls : call'[c].pc # "idle" /\ ~call'[c].fenced =>
              row'[call'[c].row] # "claimed"
         /\ replans' = 0 => \A c \in Calls :
              call'[c].pc \in {"validate", "decide"} => call'[c].match
<1>1. /\ call \in [Calls -> CallState] /\ replans \in Nat
      /\ \A c \in Calls : call[c].pc # "idle" =>
           call[c].row \in Executions /\ space[call[c].row].state # "none"
  BY PromotionAssumption DEF WellTyped, TypeOK, Pointed, Backed
<1>2. \A x \in Executions : row[x] \notin {"none", "claimed"} => row'[x] # "claimed"
  BY RowsKept, RowMoves DEF Elsewhere
<1>3. \A c \in Calls : call[c].pc # "idle" /\ ~call[c].fenced =>
        row'[call[c].row] # "claimed"
  BY <1>1, <1>2 DEF Attended
<1>4. replans' = 0 => \A c \in Calls : call[c].pc \in {"validate", "decide"} => call[c].match
  BY ReplansGrow DEF Attended
<1>5. ASSUME NEW c \in Calls, NEW x \in Executions, SelectRow(c, x)
      PROVE  /\ \A d \in Calls : d # c => call'[d] = call[d]
             /\ call'[c].pc = "revision" /\ call'[c].row = x
             /\ ~call'[c].fenced => row'[x] # "claimed"
  <2> DEFINE r == [IdleCall EXCEPT !.pc = "revision", !.row = x, !.fenced = Live(x)]
  <2>1. r.pc = "revision" /\ r.row = x /\ r.fenced = Live(x)
    BY DEF IdleCall
  <2>2. call' = [call EXCEPT ![c] = r] /\ row' = row
    BY <1>5 DEF SelectRow, dbVars
  <2> HIDE DEF r
  <2>3. QED
    BY <1>1, <2>1, <2>2 DEF Live
<1>6. CASE \E c \in Calls, x \in Executions : SelectRow(c, x)
  BY <1>3, <1>4, <1>5, <1>6
<1>7. CASE Elsewhere /\ ~\E c \in Calls, x \in Executions : SelectRow(c, x)
  <2>1. UNCHANGED call \/ Crash
    BY <1>7, WhoWrites DEF Elsewhere, Writes
  <2>2. \A c \in Calls : call'[c] = call[c] \/ call'[c].pc = "idle"
    BY <2>1, IdleStates DEF Crash
  <2>3. QED
    BY <1>3, <1>4, <2>2
<1>8. ASSUME NEW c \in Calls, PromoteStep(c)
      PROVE  /\ \A d \in Calls : d # c => call'[d] = call[d]
             /\ call'[c].pc = "idle" \/ (/\ call'[c].row = call[c].row
                                         /\ call'[c].fenced = call[c].fenced)
             /\ call[c].pc # "idle"
             /\ replans' = 0 /\ call'[c].pc \in {"validate", "decide"} => call'[c].match
  <2>1. /\ \A d \in Calls : d # c => call'[d] = call[d]
        /\ call'[c].pc = "idle" \/ (/\ call'[c].row = call[c].row
                                    /\ call'[c].fenced = call[c].fenced)
        /\ call[c].pc # "idle" /\ call[c] \in CallState
    BY <1>1, <1>8, CallMoves
  <2>2. ASSUME replans' = 0, SelectRevision(c) PROVE call'[c].match
    <3>1. replans = 0
      BY <2>2, ReplansGrow
    <3>2. PICK x \in Executions : x = call[c].row
      BY <1>1, <2>1
    <3>3. /\ rev[x[1]] \in 1..(MaxReplans + 1) /\ space[x].expected \in 1..(MaxReplans + 1)
          /\ rev[x[1]] <= 1 /\ space[x].expected <= rev[x[1]] /\ MaxReplans \in Nat
      BY <3>1, PromotionAssumption DEF Forward, WellTyped, TypeOK, Executions, Revisions,
                                       SpaceState
    <3>4. RevisionMatches(x)
      BY <3>3 DEF RevisionMatches, Superseded
    <3>5. QED
      BY <1>1, <2>1, <2>2, <3>2, <3>4 DEF SelectRevision, CallState
  <2>3. ASSUME replans' = 0, Validate(c) PROVE call'[c].match
    <3>1. call[c].match
      BY <1>4, <2>3 DEF Validate, At
    <3>2. QED
      BY <1>1, <2>1, <2>3, <3>1 DEF Validate, CallState
  <2>4. QED
    BY <1>8, <2>1, <2>2, <2>3, CallForward
<1>9. CASE \E c \in Calls : PromoteStep(c)
  BY <1>3, <1>4, <1>8, <1>9
<1>10. QED
  BY <1>6, <1>7, <1>9 DEF Elsewhere

\* Claims, completions, and operators.
LEMMA HeldByClaims ==
  ASSUME WellTyped, Attended, replans = 0, NEW s \in Stages, status'[s] = "running",
         \/ \E t \in Stages : MarkReady(t)
         \/ \E y \in Executions : ClaimStep(y) \/ CompleteStep(y)
         \/ OperatorStep
  PROVE  InCharge(s)'
<1>1. /\ status \in [Stages -> StageStatus] /\ acked \subseteq Executions
      /\ row \in [Executions -> {"none", "claimed", "completed", "failed", "abandoned"}]
      /\ claiming \subseteq Executions
  BY DEF WellTyped, TypeOK
<1>2. up /\ status[s] = "running" => InCharge(s)
  BY DEF Attended
<1> USE DEF dbVars, stageVars, clients, others, histVars, outVars, envVars
<1>3. ASSUME NEW t \in Stages, MarkReady(t) PROVE InCharge(s)'
  <2>1. up /\ status[s] = "running" /\ UNCHANGED <<claiming, acked, row, call, sweep, dropped>>
    BY <1>1, <1>3 DEF MarkReady
  <2>2. QED
    BY <1>2, <2>1 DEF InCharge
<1>4. ASSUME NEW y \in Executions, ClaimSwap(y) PROVE InCharge(s)'
  <2>1. /\ up /\ claiming' = claiming \union {y} /\ UNCHANGED <<acked, row, call, sweep>>
        /\ status' = [status EXCEPT ![y[1]] = "running"]
        /\ dropped' = dropped \ {y[1]}
    BY <1>4 DEF ClaimSwap
  <2>2. CASE s = y[1]
    BY <2>1, <2>2 DEF InCharge
  <2>3. CASE s # y[1]
    BY <1>1, <1>2, <2>1, <2>3 DEF InCharge
  <2>4. QED
    BY <2>2, <2>3
<1>5. ASSUME NEW y \in Executions, ClaimInsert(y) PROVE InCharge(s)'
  <2>1. /\ up /\ status[s] = "running" /\ claiming' = claiming \ {y}
        /\ row' = [row EXCEPT ![y] = "claimed"] /\ UNCHANGED <<acked, call, sweep, dropped>>
    BY <1>5 DEF ClaimInsert
  <2>2. row'[y] = "claimed" /\ \A x \in Executions : row[x] = "claimed" => row'[x] = "claimed"
    BY <1>1, <2>1
  <2>3. QED
    BY <1>2, <2>1, <2>2 DEF InCharge
<1>6. ASSUME NEW y \in Executions, ClaimRaises(y) PROVE InCharge(s)'
  <2>1. /\ up /\ status[s] = "running" /\ claiming' = claiming \ {y}
        /\ dropped' = dropped \union {y[1]} /\ UNCHANGED <<acked, row, call, sweep>>
    BY <1>6 DEF ClaimRaises
  <2>2. QED
    BY <1>2, <2>1 DEF InCharge
<1>7. ASSUME NEW y \in Executions, CompleteRow(y) PROVE InCharge(s)'
  <2>1. /\ up /\ status[s] = "running" /\ acked' = acked \union {y}
        /\ row' = [row EXCEPT ![y] = "completed"]
        /\ UNCHANGED <<claiming, call, sweep, dropped>>
    BY <1>7 DEF CompleteRow
  <2>2. \A x \in Executions : row'[x] = row[x] \/ x = y
    BY <1>1, <2>1
  <2>3. QED
    BY <1>2, <2>1, <2>2 DEF InCharge
<1>8. ASSUME NEW y \in Executions, CompleteStage(y) PROVE InCharge(s)'
  <2>1. /\ up /\ acked' = acked \ {y} /\ status' = [status EXCEPT ![y[1]] = "succeeded"]
        /\ UNCHANGED <<claiming, row, call, sweep, dropped>> /\ y[1] \in Stages
    BY <1>8 DEF CompleteStage, Executions
  <2>2. status[s] = "running" /\ s # y[1]
    BY <1>1, <2>1
  <2>3. QED
    BY <1>2, <2>1, <2>2 DEF InCharge
<1>9. ASSUME NEW y \in Executions, CompleteRaises(y) PROVE InCharge(s)'
  <2>1. /\ up /\ status[s] = "running" /\ acked' = acked \ {y}
        /\ dropped' = dropped \union {y[1]} /\ UNCHANGED <<claiming, row, call, sweep>>
    BY <1>9 DEF CompleteRaises
  <2>2. QED
    BY <1>2, <2>1 DEF InCharge
<1>10. ASSUME NEW t \in Stages, Reconcile(t) \/ Retry(t) PROVE InCharge(s)'
  <2>1. up /\ status[s] = "running" /\ UNCHANGED <<claiming, acked, row, call, sweep, dropped>>
    BY <1>10 DEF Reconcile, Retry, OperatorReads
  <2>2. QED
    BY <1>2, <2>1 DEF InCharge
<1>11. ASSUME NEW w \in OperatorWrites, OperatorWrite(w[1], w[2]) \/ OperatorRaises(w[1], w[2])
       PROVE  InCharge(s)'
  <2>1. w[2] # "running"
    BY DEF OperatorWrites
  <2>2. up /\ status[s] = "running" /\ UNCHANGED <<claiming, acked, row, call, sweep, dropped>>
    BY <1>1, <1>11, <2>1 DEF OperatorWrite, OperatorRaises
  <2>3. QED
    BY <1>2, <2>2 DEF InCharge
<1>12. QED
  BY <1>3, <1>4, <1>5, <1>6, <1>7, <1>8, <1>9, <1>10, <1>11
     DEF ClaimStep, CompleteStep, OperatorStep

\* Everybody but promote_or_reject.
LEMMA HeldElsewhere ==
  ASSUME WellTyped, Attended, Elsewhere, up', replans' = 0,
         NEW s \in Stages, status'[s] = "running"
  PROVE  InCharge(s)'
<1>1. /\ call \in [Calls -> CallState] /\ status \in [Stages -> StageStatus]
      /\ row \in [Executions -> {"none", "claimed", "completed", "failed", "abandoned"}]
      /\ sweep \in SweepState
      /\ (sweep.pc \in {"abandon", "move"} => sweep.row \in Executions)
  BY DEF WellTyped, TypeOK, Pointed
<1>2. replans = 0 /\ replan.pc = "idle" /\ ~ReplanBegin /\ [Next]_vars
  BY ReplansGrow DEF Attended, Elsewhere
<1>3. up /\ status[s] = "running" => InCharge(s)
  BY <1>2 DEF Attended
<1> USE DEF dbVars, stageVars, clients, others, histVars, outVars, envVars
<1>4. ASSUME UNCHANGED <<status, claiming, acked, row, call, sweep, dropped, up>>
      PROVE  InCharge(s)'
  BY <1>3, <1>4 DEF InCharge
<1>5. ASSUME NEW c \in Calls, NEW x \in Executions, SelectRow(c, x) PROVE InCharge(s)'
  <2>1. /\ up /\ status[s] = "running" /\ UNCHANGED <<claiming, acked, row, sweep, dropped>>
        /\ call[c].pc = "idle"
    BY <1>5 DEF SelectRow, At
  <2>2. \A d \in Calls : d # c => call'[d] = call[d]
    <3> DEFINE r == [IdleCall EXCEPT !.pc = "revision", !.row = x, !.fenced = Live(x)]
    <3>1. call' = [call EXCEPT ![c] = r]
      BY <1>5 DEF SelectRow
    <3> HIDE DEF r
    <3>2. QED
      BY <1>1, <3>1
  <2>3. QED
    BY <1>3, <2>1, <2>2 DEF InCharge, MovingOn
<1>6. ASSUME NEW x \in Executions, SweepSelect(x) PROVE InCharge(s)'
  <2>1. /\ up /\ status[s] = "running" /\ UNCHANGED <<claiming, acked, row, call, dropped>>
        /\ sweep.pc = "idle"
    BY <1>6 DEF SweepSelect
  <2>2. QED
    BY <1>3, <2>1 DEF InCharge
<1>7. CASE SweepAbandon
  <2>1. /\ up /\ status[s] = "running" /\ UNCHANGED <<claiming, acked, call, dropped>>
        /\ sweep.pc = "abandon" /\ sweep'.pc = "move" /\ sweep'.row = sweep.row
        /\ row' = [row EXCEPT ![sweep.row] = "abandoned"]
    BY <1>1, <1>7 DEF SweepAbandon, SweepState
  <2>2. \A x \in Executions : row'[x] = row[x] \/ x = sweep.row
    BY <1>1, <2>1
  <2>3. QED
    BY <1>3, <2>1, <2>2 DEF InCharge
<1>8. CASE SweepMove
  <2>1. /\ up /\ UNCHANGED <<claiming, acked, row, call, dropped>> /\ sweep.pc = "move"
        /\ sweep.row \in Executions
        /\ status' = [status EXCEPT ![sweep.row[1]] =
                        IF @ = "running" THEN "awaiting_reconciliation" ELSE @]
    BY <1>1, <1>8 DEF SweepMove
  <2>2. status[s] = "running" /\ sweep.row[1] # s
    BY <1>1, <2>1 DEF Executions
  <2>3. QED
    BY <1>3, <2>1, <2>2 DEF InCharge
<1>9. CASE SweepRaises
  <2>1. /\ up /\ status[s] = "running" /\ UNCHANGED <<claiming, acked, row, call>>
        /\ dropped' = IF sweep.pc = "move" THEN dropped \union {sweep.row[1]} ELSE dropped
    BY <1>9 DEF SweepRaises
  <2>2. QED
    BY <1>3, <2>1 DEF InCharge
<1>10. CASE Restart
  BY <1>1, <1>10 DEF Restart, RecoveredStatus
<1>11. ~Crash /\ ~ReplanStep
  BY <1>2 DEF Crash, ReplanStep, ResetStage, SelectApprovals, InvalidateApproval, NextStage,
              SelectLatest, AbandonLatest, ReplanEnd, ReplanRaises
<1>12. ASSUME \/ UNCHANGED vars
              \/ \E x \in Executions : SpaceStep(x)
              \/ \E a \in Approvals : Approve(a)
       PROVE  UNCHANGED <<status, claiming, acked, row, call, sweep, dropped, up>>
  BY <1>12 DEF SpaceStep, CreateWorktree, RemoveFile, RemoveWorktree, Approve, vars
<1>13. QED
  BY <1>2, <1>4, <1>5, <1>6, <1>7, <1>8, <1>9, <1>10, <1>11, <1>12, HeldByClaims
     DEF Elsewhere, Next, SweepStep

LEMMA HeldInPromotion ==
  ASSUME WellTyped, Attended, NEW c \in Calls, PromoteStep(c), replans = 0,
         NEW s \in Stages, status'[s] = "running"
  PROVE  InCharge(s)'
<1>1. /\ call \in [Calls -> CallState] /\ status \in [Stages -> StageStatus]
      /\ row \in [Executions -> {"none", "claimed", "completed", "failed", "abandoned"}]
      /\ call[c] \in CallState
  BY DEF WellTyped, TypeOK
<1>2. PICK x \in Executions : x = call[c].row
  BY CallMoves
<1>3. /\ \A d \in Calls : d # c => call'[d] = call[d]
      /\ call'[c].pc = "idle" \/ call'[c].row = x
      /\ call[c].pc # "idle" /\ x[1] \in Stages
  BY <1>2, CallMoves DEF Executions
<1>4. up /\ UNCHANGED <<claiming, acked, sweep>>
  BY DEF PromoteStep, SelectRevision, Validate, RejectFenced, RejectRevision, RejectInvalid,
         Demote, Complete, TooLate, ListFiles, CopyFile, Succeed, Raises, CopyBreaksOff,
         dbVars, stageVars, others, At, Promotable
<1>5. dropped \subseteq dropped'
  BY DEF PromoteStep, SelectRevision, Validate, RejectFenced, RejectRevision, RejectInvalid,
         Demote, Complete, TooLate, ListFiles, CopyFile, Succeed, Raises, CopyBreaksOff,
         histVars, Drop
<1>6. ~RejectRevision(c)
  BY DEF Attended, RejectRevision, At
<1>7. CASE Demote(c) \/ Succeed(c)
  <2>1. /\ \/ status' = [status EXCEPT ![x[1]] = "failed_transient"]
           \/ status' = [status EXCEPT ![x[1]] = "succeeded"]
        /\ row' = row
    BY <1>2, <1>7 DEF Demote, Succeed
  <2>2. s # x[1] /\ status[s] = "running"
    BY <1>1, <1>3, <2>1
  <2>3. InCharge(s)
    BY <1>4, <2>2 DEF Attended
  <2>4. QED
    BY <1>2, <1>3, <1>4, <1>5, <2>1, <2>2, <2>3 DEF InCharge
<1>8. ASSUME ~Demote(c), ~Succeed(c) PROVE InCharge(s)'
  <2>1. status' = status
    BY <1>8 DEF PromoteStep, SelectRevision, Validate, RejectFenced, RejectRevision,
                RejectInvalid, Demote, Complete, TooLate, ListFiles, CopyFile, Succeed,
                Raises, CopyBreaksOff, dbVars, stageVars
  <2>2. InCharge(s)
    BY <1>4, <2>1 DEF Attended
  <2>3. CASE RejectFenced(c)
    <3>1. /\ row[x] # "claimed" /\ row' = [row EXCEPT ![x] = "abandoned"]
          /\ call[c].pc = "decide"
      BY <1>2, <1>3, <2>3 DEF Attended, RejectFenced, At
    <3>2. QED
      BY <1>1, <1>2, <1>3, <1>4, <1>5, <2>2, <3>1 DEF InCharge, MovingOn
  <2>4. CASE RejectInvalid(c) \/ Complete(c)
    <3>1. call'[c].pc \in MovingOn /\ call'[c].row = x
      BY <1>1, <1>2, <2>4 DEF RejectInvalid, Complete, CallState, MovingOn
    <3>2. \A y \in Executions : y # x => row'[y] = row[y]
      BY <1>1, <1>2, <2>4 DEF RejectInvalid, Complete
    <3>3. call[c].pc \notin MovingOn
      BY <2>4 DEF RejectInvalid, Complete, Promotable, At, MovingOn
    <3>4. QED
      BY <1>3, <1>4, <1>5, <2>2, <3>1, <3>2, <3>3 DEF InCharge
\* A call that is to write the stage still is.
  <2>5. CASE ListFiles(c) \/ CopyFile(c)
    <3>1. call'[c].pc = "copy" /\ row' = row
      <4>1. CASE ListFiles(c)
        <5> DEFINE files == Present(call[c].row)
        <5>1. call' = [call EXCEPT ![c].pc = "copy", ![c].todo = files]
          BY <4>1 DEF ListFiles
        <5> HIDE DEF files
        <5>2. QED
          BY <1>1, <4>1, <5>1 DEF ListFiles, CallState, dbVars
      <4>2. CASE CopyFile(c)
        BY <1>1, <4>2 DEF CopyFile, CallState, At, dbVars
      <4>3. QED
        BY <2>5, <4>1, <4>2
    <3>2. call'[c].row = x
      BY <1>3, <3>1
    <3>3. QED
      BY <1>2, <1>3, <1>4, <1>5, <2>2, <3>1, <3>2 DEF InCharge, MovingOn
\* One that raises is remembered.
  <2>6. CASE Raises(c) \/ CopyBreaksOff(c)
    <3>1. row' = row /\ (call[c].pc \in MovingOn => x[1] \in dropped')
      BY <1>2, <2>6 DEF Raises, CopyBreaksOff, Drop, dbVars
    <3>2. QED
      BY <1>2, <1>3, <1>4, <1>5, <2>2, <3>1 DEF InCharge
  <2>7. CASE SelectRevision(c) \/ Validate(c) \/ TooLate(c)
    <3>1. call[c].pc \notin MovingOn /\ row' = row
      BY <2>7 DEF SelectRevision, Validate, TooLate, Promotable, At, MovingOn, dbVars
    <3>2. QED
      BY <1>3, <1>4, <1>5, <2>2, <3>1 DEF InCharge
  <2>8. QED
    BY <1>6, <1>8, <2>3, <2>4, <2>5, <2>6, <2>7 DEF PromoteStep
<1>9. QED
  BY <1>7, <1>8

LEMMA AttendedNext ==
  WellTyped /\ Backed /\ Forward /\ Attended /\ [Next]_vars => Attended'
<1> SUFFICES ASSUME WellTyped, Backed, Forward, Attended, [Next]_vars PROVE Attended'
  OBVIOUS
<1>1. \A x \in Executions : space'[x].state # "none" => row'[x] # "none"
  BY RowExists
<1>2. /\ \A c \in Calls : call'[c].pc # "idle" /\ ~call'[c].fenced =>
           row'[call'[c].row] # "claimed"
      /\ replans' = 0 => \A c \in Calls : call'[c].pc \in {"validate", "decide"} => call'[c].match
  BY CallsAttended
<1>3. replans' = 0 => replans = 0 /\ replan'.pc = "idle"
  BY ReplansGrow DEF Attended
<1>4. ASSUME up', replans' = 0, NEW s \in Stages, status'[s] = "running"
      PROVE  InCharge(s)'
  BY <1>3, <1>4, HeldElsewhere, HeldInPromotion DEF Elsewhere
<1>5. QED
  BY <1>1, <1>2, <1>3, <1>4 DEF Attended

\* However claims, completions, promotions, the sweep and operators race each other, a
\* stage is left running with nobody in charge only by a client that raised between its
\* two writes, or by a replan.
THEOREM RunningStagesAreHeld == Spec => []RunningHeldUntilReplan
<1>1. Attended => RunningHeldUntilReplan
  BY DEF Attended, RunningHeldUntilReplan, RunningHeld, InCharge, Live
<1>2. QED
  BY <1>1, AlwaysWellTyped, AlwaysBacked, AlwaysForward, AttendedInit, AttendedNext, PTL
     DEF Spec
=============================================================================
