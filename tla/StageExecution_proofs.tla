------------------------ MODULE StageExecution_proofs ------------------------
(***************************************************************************)
(* Proofs about StageExecution, for every set of stages, dependency graph, *)
(* set of clients and bound.                                               *)
(*                                                                         *)
(* Each invariant below is inductive together with WellTyped (the types,   *)
(* and that a client inside a call knows its stage and claim).             *)
(***************************************************************************)
EXTENDS StageExecution, FiniteSetTheorems, TLAPS

\* A worker past its SELECT knows its stage, one past its compare-and-swap
\* also its claim; so does an operator inside a call, and one that has exhausted a
\* stage knows its fallback.
CallsWellFormed ==
  /\ \A w \in Workers :
       /\ worker[w].pc # "idle" => worker[w].stage \in Stages
       /\ worker[w].pc \in {"won", "working", "worked", "acked"}
            => worker[w].claim \in Claims
  /\ \A o \in Operators :
       /\ operator[o].pc # "idle" => operator[o].stage \in Stages
       /\ operator[o].pc = "exhausted" => FallbackOf[operator[o].stage] \in Stages

WellTyped == TypeOK /\ CallsWellFormed

LEMMA IdleStates ==
  /\ IdleWorker \in WorkerState
  /\ IdleSweep \in SweepState
  /\ IdleOperator \in OperatorState
  BY DEF IdleWorker, IdleSweep, IdleOperator, WorkerState, SweepState,
     OperatorState, WorkerPc, OperatorPc

LEMMA IdlePcs == IdleWorker.pc = "idle" /\ IdleOperator.pc = "idle"
  BY DEF IdleWorker, IdleOperator

LEMMA WellTypedInit == Init => WellTyped
<1> SUFFICES ASSUME Init PROVE WellTyped
  OBVIOUS
<1>1. TypeOK
  BY IdleStates, BoundsAssumption DEF Init, TypeOK, StageStatus, RowStatus
<1>2. CallsWellFormed
  BY IdlePcs DEF Init, CallsWellFormed
<1>3. QED
  BY <1>1, <1>2 DEF WellTyped

LEMMA WorkerWellTyped ==
  ASSUME WellTyped, NEW w \in Workers, WorkerStep(w)
  PROVE  WellTyped'
<1> DEFINE s == worker[w].stage
           k == worker[w].claim
<1>1. /\ worker[w] \in WorkerState
      /\ worker[w].pc # "idle" => s \in Stages
      /\ worker[w].pc \in {"won", "working", "worked", "acked"} => k \in Claims
  BY DEF WellTyped, TypeOK, CallsWellFormed
<1>2. ASSUME NEW t \in Stages, ClaimSelect(w, t) PROVE WellTyped'
  <2> DEFINE r == [pc |-> "selected", stage |-> t, seen |-> attempts[t], claim |-> 0]
  <2>1. attempts[t] \in Nat
    BY BoundsAssumption DEF WellTyped, TypeOK
  <2>2. r \in WorkerState /\ r.pc = "selected" /\ r.stage = t
    BY <2>1 DEF WorkerState, WorkerPc
  <2>3. worker' = [worker EXCEPT ![w] = r]
    BY <1>2 DEF ClaimSelect
  <2> HIDE DEF r
  <2>4. TypeOK'
    BY <1>2, <2>2, <2>3
    DEF ClaimSelect, WellTyped, TypeOK, dbVars, envVars, histVars
  <2>5. CallsWellFormed'
    BY <1>2, <2>2, <2>3 DEF ClaimSelect, WellTyped, TypeOK, CallsWellFormed
  <2>6. QED
    BY <2>4, <2>5 DEF WellTyped
<1>3. CASE ClaimSwap(w)
  <2> DEFINE r == [worker[w] EXCEPT !.pc = "won", !.claim = attempts[s] + 1]
  <2>1. /\ s \in Stages
        /\ attempts[s] + 1 \in 0..MaxClaims
        /\ attempts[s] + 1 \in Nat
        /\ attempts[s] + 1 \in Claims
    BY <1>1, <1>3, BoundsAssumption DEF ClaimSwap, WellTyped, TypeOK, Claims
  <2>2. r \in WorkerState /\ r.stage = s /\ r.claim = attempts[s] + 1
    BY <1>1, <2>1 DEF WorkerState, WorkerPc
  <2>3. worker' = [worker EXCEPT ![w] = r]
    BY <1>3 DEF ClaimSwap
  <2> HIDE DEF r
  <2>4. TypeOK'
    BY <1>3, <2>1, <2>2, <2>3
    DEF ClaimSwap, WellTyped, TypeOK, StageStatus, histVars
  <2>5. CallsWellFormed'
    BY <1>3, <2>1, <2>2, <2>3 DEF ClaimSwap, WellTyped, TypeOK, CallsWellFormed
  <2>6. QED
    BY <2>4, <2>5 DEF WellTyped
<1>4. CASE ClaimLost(w) \/ WorkerFails(w) \/ CompleteFenced(w)
  <2>1. /\ worker' = [worker EXCEPT ![w] = IdleWorker]
        /\ UNCHANGED <<dbVars, eligible, sweep, operator, up, crashes, ended, histVars>>
        /\ dropped' \in SUBSET Stages
    BY <1>1, <1>4
    DEF ClaimLost, WorkerFails, InGap, CompleteFenced, envVars, WellTyped, TypeOK
  <2>2. TypeOK'
    BY <2>1, IdleStates DEF WellTyped, TypeOK, dbVars, histVars
  <2>3. CallsWellFormed'
    BY <2>1, IdlePcs DEF WellTyped, TypeOK, CallsWellFormed
  <2>4. QED
    BY <2>2, <2>3 DEF WellTyped
<1>5. CASE ClaimInsert(w)
  <2> DEFINE r == [worker[w] EXCEPT !.pc = "working"]
  <2>1. s \in Stages /\ k \in Claims /\ AttemptNumber(w) \in Nat
    BY <1>1, <1>5 DEF ClaimInsert, AttemptNumber, WorkerState
  <2>2. r \in WorkerState /\ r.stage = s /\ r.claim = k
    BY <1>1 DEF WorkerState, WorkerPc
  <2>3. worker' = [worker EXCEPT ![w] = r]
    BY <1>5 DEF ClaimInsert
  <2> HIDE DEF r
  <2>4. exec' \in [Stages -> [Claims -> RowStatus]]
    BY <1>5, <2>1 DEF ClaimInsert, WellTyped, TypeOK, RowStatus
  <2>5. number' \in [Stages -> [Claims -> Nat]]
    BY <1>5, <2>1 DEF ClaimInsert, WellTyped, TypeOK
  <2>6. TypeOK'
    <3>1. worker' \in [Workers -> WorkerState]
      BY <2>2, <2>3 DEF WellTyped, TypeOK
    <3>2. UNCHANGED <<status, attempts, expired, eligible, sweep, operator, envVars, histVars>>
      BY <1>5 DEF ClaimInsert
    <3>3. QED
      BY <3>1, <3>2, <2>4, <2>5 DEF WellTyped, TypeOK, envVars, histVars
  <2>7. CallsWellFormed'
    BY <1>5, <2>1, <2>2, <2>3 DEF ClaimInsert, WellTyped, TypeOK, CallsWellFormed
  <2>8. QED
    BY <2>6, <2>7 DEF WellTyped
<1>6. CASE DoWork(w)
  <2> DEFINE r == [worker[w] EXCEPT !.pc = "worked"]
  <2>1. s \in Stages /\ k \in Claims
    BY <1>1, <1>6 DEF DoWork
  <2>2. r \in WorkerState /\ r.stage = s /\ r.claim = k
    BY <1>1 DEF WorkerState, WorkerPc
  <2>3. worker' = [worker EXCEPT ![w] = r]
    BY <1>6 DEF DoWork
  <2> HIDE DEF r
  <2>4. effects' \in SUBSET Rows
    BY <1>6, <2>1 DEF DoWork, WellTyped, TypeOK, Rows
  <2>5. TypeOK'
    BY <1>6, <2>2, <2>3, <2>4 DEF DoWork, WellTyped, TypeOK, dbVars, envVars
  <2>6. CallsWellFormed'
    BY <1>6, <2>1, <2>2, <2>3 DEF DoWork, WellTyped, TypeOK, CallsWellFormed
  <2>7. QED
    BY <2>5, <2>6 DEF WellTyped
<1>7. CASE CompleteRow(w)
  <2> DEFINE r == [worker[w] EXCEPT !.pc = "acked"]
  <2>1. s \in Stages /\ k \in Claims
    BY <1>1, <1>7 DEF CompleteRow
  <2>2. r \in WorkerState /\ r.stage = s /\ r.claim = k
    BY <1>1 DEF WorkerState, WorkerPc
  <2>3. worker' = [worker EXCEPT ![w] = r]
    BY <1>7 DEF CompleteRow
  <2> HIDE DEF r
  <2>4. exec' \in [Stages -> [Claims -> RowStatus]]
    BY <1>7, <2>1 DEF CompleteRow, WellTyped, TypeOK, RowStatus
  <2>5. TypeOK'
    <3>1. worker' \in [Workers -> WorkerState]
      BY <2>2, <2>3 DEF WellTyped, TypeOK
    <3>2. UNCHANGED <<status, attempts, number, expired, eligible, sweep, operator,
                         envVars, histVars>>
      BY <1>7 DEF CompleteRow
    <3>3. QED
      BY <3>1, <3>2, <2>4 DEF WellTyped, TypeOK, envVars, histVars
  <2>6. CallsWellFormed'
    BY <1>7, <2>1, <2>2, <2>3 DEF CompleteRow, WellTyped, TypeOK, CallsWellFormed
  <2>7. QED
    BY <2>5, <2>6 DEF WellTyped
<1>8. CASE CompleteStage(w) \/ CompleteInTransaction(w)
  <2>1. s \in Stages /\ k \in Claims
    BY <1>1, <1>8 DEF CompleteStage, CompleteInTransaction
  <2>2. /\ worker' = [worker EXCEPT ![w] = IdleWorker]
        /\ status' = [status EXCEPT ![s] = "succeeded"]
        /\ everDone' = everDone \union {s}
        /\ UNCHANGED <<attempts, number, expired, eligible, sweep, operator,
                       envVars, licences, effects>>
    BY <1>8 DEF CompleteStage, CompleteInTransaction
  <2>3. exec' \in [Stages -> [Claims -> RowStatus]]
    <3>1. CASE CompleteStage(w)
      BY <3>1 DEF CompleteStage, WellTyped, TypeOK
    <3>2. CASE CompleteInTransaction(w)
      BY <3>2, <2>1 DEF CompleteInTransaction, WellTyped, TypeOK, RowStatus
    <3>3. QED
      BY <1>8, <3>1, <3>2
  <2>4. status' \in [Stages -> StageStatus]
    BY <2>1, <2>2 DEF WellTyped, TypeOK, StageStatus
  <2>5. /\ worker' \in [Workers -> WorkerState]
        /\ everDone' \in SUBSET Stages
    BY <2>1, <2>2, IdleStates DEF WellTyped, TypeOK
  <2>6. TypeOK'
    BY <2>2, <2>3, <2>4, <2>5 DEF WellTyped, TypeOK, envVars
  <2>7. CallsWellFormed'
    BY <2>2, IdlePcs DEF WellTyped, TypeOK, CallsWellFormed
  <2>8. QED
    BY <2>6, <2>7 DEF WellTyped
<1>9. QED
  BY <1>2, <1>3, <1>4, <1>5, <1>6, <1>7, <1>8 DEF WorkerStep

LEMMA SweepWellTyped ==
  ASSUME WellTyped, NEW z \in Sweepers, SweepStep(z)
  PROVE  WellTyped'
<1>1. /\ sweep[z] \in SweepState
      /\ sweep[z].rows \subseteq Rows
      /\ sweep[z].moving \subseteq Rows
  BY DEF WellTyped, TypeOK, SweepState
<1>2. UNCHANGED <<worker, operator>>
  BY DEF SweepStep, SweepSelect, SweepAbandon, SweepMove, SweepRaises
<1>3. CallsWellFormed'
  BY <1>2 DEF WellTyped, CallsWellFormed
<1>4. CASE SweepSelect(z)
  <2> DEFINE r == [rows |-> StaleRows, moving |-> {}]
  <2>1. r \in SweepState
    BY DEF StaleRows, WellTyped, TypeOK, SweepState
  <2>2. sweep' = [sweep EXCEPT ![z] = r]
    BY <1>4 DEF SweepSelect
  <2> HIDE DEF r
  <2>3. TypeOK'
    BY <1>4, <2>1, <2>2
    DEF SweepSelect, WellTyped, TypeOK, dbVars, envVars, histVars
  <2>4. QED
    BY <1>3, <2>3 DEF WellTyped
<1>5. CASE SweepAbandon(z)
  <2>1. PICK r \in sweep[z].rows :
          /\ exec' = [exec EXCEPT ![r[1]] = [@ EXCEPT ![r[2]] = "abandoned"]]
          /\ sweep' = [sweep EXCEPT ![z] = [rows |-> sweep[z].rows \ {r},
                                           moving |-> {r}]]
    BY <1>5 DEF SweepAbandon
  <2>2. r[1] \in Stages /\ r[2] \in Claims /\ r \in Rows
    BY <1>1, <2>1 DEF Rows
  <2>3. [rows |-> sweep[z].rows \ {r}, moving |-> {r}] \in SweepState
    BY <1>1, <2>2 DEF SweepState
  <2>4. sweep' \in [Sweepers -> SweepState]
    BY <2>1, <2>3 DEF WellTyped, TypeOK
  <2>5. exec' \in [Stages -> [Claims -> RowStatus]]
    BY <2>1, <2>2 DEF WellTyped, TypeOK, RowStatus
  <2>6. TypeOK'
    BY <1>5, <2>4, <2>5 DEF SweepAbandon, WellTyped, TypeOK, envVars, histVars
  <2>7. QED
    BY <1>3, <2>6 DEF WellTyped
<1>6. CASE SweepMove(z)
  <2>1. PICK r \in sweep[z].moving :
          /\ status' = [status EXCEPT ![r[1]] =
                          IF @ = "running" THEN "awaiting_reconciliation" ELSE @]
          /\ sweep' = [sweep EXCEPT ![z] = [rows |-> sweep[z].rows,
                                           moving |-> sweep[z].moving \ {r}]]
    BY <1>6 DEF SweepMove
  <2>2. [rows |-> sweep[z].rows, moving |-> sweep[z].moving \ {r}] \in SweepState
    BY <1>1 DEF SweepState
  <2>3. sweep' \in [Sweepers -> SweepState]
    BY <2>1, <2>2 DEF WellTyped, TypeOK
  <2>4. status' \in [Stages -> StageStatus]
    BY <2>1 DEF WellTyped, TypeOK, StageStatus
  <2>5. TypeOK'
    BY <1>6, <2>3, <2>4 DEF SweepMove, WellTyped, TypeOK, envVars, histVars
  <2>6. QED
    BY <1>3, <2>5 DEF WellTyped
<1>7. CASE SweepRaises(z)
  <2>1. sweep' \in [Sweepers -> SweepState]
    BY <1>7, IdleStates DEF SweepRaises, WellTyped, TypeOK
  <2>2. dropped' \in SUBSET Stages /\ ended' \in SUBSET Sweepers
    BY <1>1, <1>7 DEF SweepRaises, WellTyped, TypeOK, Rows
  <2>3. TypeOK'
    BY <1>7, <2>1, <2>2 DEF SweepRaises, WellTyped, TypeOK, dbVars, histVars
  <2>4. QED
    BY <1>3, <2>3 DEF WellTyped
<1>8. QED
  BY <1>4, <1>5, <1>6, <1>7 DEF SweepStep

LEMMA OperatorWellTyped ==
  ASSUME WellTyped, NEW o \in Operators, OperatorStep(o)
  PROVE  WellTyped'
<1> DEFINE s == operator[o].stage
<1>1. operator[o] \in OperatorState /\ (operator[o].pc # "idle" => s \in Stages)
  BY DEF WellTyped, TypeOK, CallsWellFormed
<1>2. ASSUME NEW t \in Stages, ReconcileProbe(o, t) \/ RetrySelect(o, t)
      PROVE  WellTyped'
  <2>1. PICK p \in OperatorPc \ {"exhausted"} :
          operator' = [operator EXCEPT ![o] = [pc |-> p, stage |-> t]]
    BY <1>2, SMTT(30) DEF ReconcileProbe, RetrySelect, OperatorPc
  <2>2. UNCHANGED <<dbVars, eligible, worker, sweep, envVars, histVars>>
    BY <1>2 DEF ReconcileProbe, RetrySelect
  <2>3. [pc |-> p, stage |-> t] \in OperatorState
    BY DEF OperatorState
  <2>4. TypeOK'
    BY <2>1, <2>2, <2>3 DEF WellTyped, TypeOK, dbVars, envVars, histVars
  <2>5. CallsWellFormed'
    BY <2>1, <2>2 DEF WellTyped, TypeOK, CallsWellFormed
  <2>6. QED
    BY <2>4, <2>5 DEF WellTyped
<1>3. CASE ReconcileWrite(o)
  <2>1. s \in Stages
    BY <1>1, <1>3 DEF ReconcileWrite
  <2>2. /\ operator' = [operator EXCEPT ![o] = IdleOperator]
        /\ UNCHANGED <<attempts, exec, number, expired, eligible, worker, sweep,
                       envVars, licences, effects>>
    BY <1>3 DEF ReconcileWrite
  <2>3. status' \in [Stages -> StageStatus]
    BY <1>3, <2>1 DEF ReconcileWrite, WellTyped, TypeOK, StageStatus
  <2>4. everDone' \in SUBSET Stages
    BY <1>3, <2>1 DEF ReconcileWrite, WellTyped, TypeOK
  <2>5. TypeOK'
    BY <2>2, <2>3, <2>4, IdleStates DEF WellTyped, TypeOK, envVars
  <2>6. CallsWellFormed'
    BY <2>2, IdlePcs DEF WellTyped, TypeOK, CallsWellFormed
  <2>7. QED
    BY <2>5, <2>6 DEF WellTyped
<1>4. CASE ExhaustWrite(o)
  <2>1. s \in Stages
    BY <1>1, <1>4 DEF ExhaustWrite
  <2>2. PICK r \in OperatorState :
          /\ r.pc = "idle" \/ (r.stage = s /\ FallbackOf[s] \in Stages)
          /\ operator' = [operator EXCEPT ![o] = r]
    <3>1. CASE FallbackOf[s] = Null
      BY <1>4, <3>1, IdleStates, IdlePcs DEF ExhaustWrite
    <3>2. CASE FallbackOf[s] # Null
      <4>1. FallbackOf[s] \in Stages
        BY <2>1, <3>2, StagesAssumption
      <4>2. [pc |-> "exhausted", stage |-> s] \in OperatorState
        BY <2>1 DEF OperatorState, OperatorPc
      <4>3. operator' = [operator EXCEPT ![o] = [pc |-> "exhausted", stage |-> s]]
        BY <1>4, <3>2 DEF ExhaustWrite
      <4>4. QED
        BY <4>1, <4>2, <4>3
    <3>3. QED
      BY <3>1, <3>2
  <2>3. status' \in [Stages -> StageStatus]
    BY <1>4, <2>1 DEF ExhaustWrite, ExhaustedStatus, WellTyped, TypeOK, StageStatus
  <2>4. TypeOK'
    BY <1>4, <2>2, <2>3 DEF ExhaustWrite, WellTyped, TypeOK, envVars, histVars
  <2>5. CallsWellFormed'
    BY <1>4, <2>1, <2>2 DEF ExhaustWrite, WellTyped, TypeOK, CallsWellFormed
  <2>6. QED
    BY <2>4, <2>5 DEF WellTyped
<1>5. ASSUME NEW t \in Stages,
             operator' = [operator EXCEPT ![o] = IdleOperator],
             status' = [status EXCEPT ![t] = "ready"],
             licences' = [licences EXCEPT ![t] = @ + 1],
             UNCHANGED <<attempts, exec, number, expired, eligible, worker, sweep,
                         envVars, everDone, effects>>
      PROVE  WellTyped'
  <2>1. status' \in [Stages -> StageStatus]
    BY <1>5 DEF WellTyped, TypeOK, StageStatus
  <2>2. licences' \in [Stages -> Nat]
    BY <1>5 DEF WellTyped, TypeOK
  <2>3. TypeOK'
    BY <1>5, <2>1, <2>2, IdleStates DEF WellTyped, TypeOK, envVars
  <2>4. CallsWellFormed'
    BY <1>5, IdlePcs DEF WellTyped, TypeOK, CallsWellFormed
  <2>5. QED
    BY <2>3, <2>4 DEF WellTyped
<1>6. CASE RetryWrite(o)
  BY <1>1, <1>5, <1>6 DEF RetryWrite
<1>7. CASE ApplyFallback(o)
  <2>1. FallbackOf[s] \in Stages
    BY <1>7 DEF ApplyFallback, WellTyped, CallsWellFormed
  <2>2. QED
    BY <1>5, <1>7, <2>1 DEF ApplyFallback
<1>8. CASE OperatorRaises(o)
  <2>1. TypeOK'
    BY <1>8, IdleStates DEF OperatorRaises, WellTyped, TypeOK, dbVars, envVars, histVars
  <2>2. CallsWellFormed'
    BY <1>8, IdlePcs DEF OperatorRaises, WellTyped, TypeOK, CallsWellFormed
  <2>3. QED
    BY <2>1, <2>2 DEF WellTyped
<1>9. QED
  BY <1>2, <1>3, <1>4, <1>6, <1>7, <1>8 DEF OperatorStep

LEMMA WellTypedNext == WellTyped /\ [Next]_vars => WellTyped'
<1> SUFFICES ASSUME WellTyped, [Next]_vars PROVE WellTyped'
  OBVIOUS
<1>1. ASSUME NEW s \in Stages, ComputeReady(s) \/ MarkReady(s) PROVE WellTyped'
  <2>1. eligible' \in SUBSET Stages
    BY <1>1 DEF ComputeReady, MarkReady, WellTyped, TypeOK
  <2>2. status' \in [Stages -> StageStatus]
    BY <1>1 DEF ComputeReady, MarkReady, WellTyped, TypeOK, StageStatus, dbVars
  <2>3. licences' \in [Stages -> Nat]
    BY <1>1 DEF ComputeReady, MarkReady, WellTyped, TypeOK, histVars
  <2>4. UNCHANGED <<attempts, exec, number, expired, worker, sweep, operator,
                    envVars, everDone, effects>>
    BY <1>1 DEF ComputeReady, MarkReady, dbVars, histVars
  <2>5. QED
    BY <2>1, <2>2, <2>3, <2>4 DEF WellTyped, TypeOK, CallsWellFormed, envVars
<1>2. ASSUME NEW s \in Stages, NEW k \in Claims, LeaseExpires(s, k) PROVE WellTyped'
  <2>1. expired' \in SUBSET Rows
    BY <1>2 DEF LeaseExpires, WellTyped, TypeOK, Rows
  <2>2. QED
    BY <1>2, <2>1 DEF LeaseExpires, WellTyped, TypeOK, CallsWellFormed,
       clientVars, envVars, histVars
<1>3. CASE Crash
  <2>1. TypeOK'
    <3>1. /\ worker' \in [Workers -> WorkerState]
          /\ sweep' \in [Sweepers -> SweepState]
          /\ operator' \in [Operators -> OperatorState]
      BY <1>3, IdleStates DEF Crash
    <3>2. crashes' \in 0..MaxCrashes
      <4>1. crashes \in 0..MaxCrashes /\ crashes < MaxCrashes /\ crashes' = crashes + 1
        BY <1>3 DEF Crash, WellTyped, TypeOK
      <4>2. QED
        BY <4>1, BoundsAssumption
    <3>3. up' = FALSE /\ eligible' = {} /\ UNCHANGED <<dbVars, ended, dropped, histVars>>
      BY <1>3 DEF Crash
    <3>4. QED
      BY <3>1, <3>2, <3>3 DEF WellTyped, TypeOK, dbVars, histVars
  <2>2. CallsWellFormed'
    BY <1>3, IdlePcs DEF Crash, CallsWellFormed
  <2>3. QED
    BY <2>1, <2>2 DEF WellTyped
<1>4. CASE Restart
  <2>1. status' \in [Stages -> StageStatus]
    BY <1>4 DEF Restart, RecoveredStatus, WellTyped, TypeOK, StageStatus
  <2>2. QED
    BY <1>4, <2>1 DEF Restart, WellTyped, TypeOK, CallsWellFormed, clientVars, histVars
<1>5. CASE UNCHANGED vars
  BY <1>5 DEF vars, dbVars, clientVars, envVars, histVars, WellTyped, TypeOK,
     CallsWellFormed
<1>6. QED
  BY <1>1, <1>2, <1>3, <1>4, <1>5, WorkerWellTyped, SweepWellTyped,
     OperatorWellTyped DEF Next

LEMMA WellTypedAlways == Spec => []WellTyped
  BY WellTypedInit, WellTypedNext, PTL DEF Spec

\* Every variable of the protocol has its type in every reachable state.
THEOREM TypeCorrect == Spec => []TypeOK
<1>1. WellTyped => TypeOK
  BY DEF WellTyped
<1>2. QED
  BY <1>1, WellTypedAlways, PTL

-----------------------------------------------------------------------------
(* A running stage has a holder *)

HeldOrDropped(s) ==
  HeldByWorker(s) \/ HeldByRow(s) \/ HeldBySweep(s) \/ s \in dropped

\* The holders of s are read off worker, exec and sweep.
LEMMA HeldUnchanged ==
  ASSUME NEW s \in Stages, HeldOrDropped(s), UNCHANGED <<worker, exec, sweep, dropped>>
  PROVE  HeldOrDropped(s)'
  BY DEF HeldOrDropped, HeldByWorker, InGap, HeldByRow, HeldBySweep

\* A worker step keeps s held, moves it out of 'running' itself, or
\* drops it by raising in the gap.
LEMMA WorkerKeepsHeld ==
  ASSUME WellTyped, NEW s \in Stages, NEW w \in Workers, WorkerStep(w),
         status'[s] = "running", status[s] = "running" => HeldOrDropped(s)
  PROVE  HeldOrDropped(s)'
<1> DEFINE t == worker[w].stage
           k == worker[w].claim
<1>1. sweep' = sweep
  BY DEF WorkerStep, ClaimSelect, ClaimSwap, ClaimLost, ClaimInsert, DoWork,
     WorkerFails, CompleteRow, CompleteStage, CompleteInTransaction, CompleteFenced
<1>2. worker \in [Workers -> WorkerState] /\ status \in [Stages -> StageStatus]
      /\ exec \in [Stages -> [Claims -> RowStatus]]
  BY DEF WellTyped, TypeOK
<1>3. /\ worker[w].pc # "idle" => t \in Stages
      /\ worker[w].pc \in {"won", "working", "worked", "acked"} => k \in Claims
  BY DEF WellTyped, CallsWellFormed
<1>5. ASSUME UNCHANGED <<exec, status, dropped>>, ~InGap(w),
             \A v \in Workers \ {w} : worker'[v] = worker[v]
      PROVE  HeldOrDropped(s)'
  BY <1>1, <1>5 DEF HeldOrDropped, HeldByWorker, InGap, HeldByRow, HeldBySweep
<1>6. CASE ClaimSwap(w)
  <2>1. t \in Stages /\ status' = [status EXCEPT ![t] = "running"]
        /\ exec' = exec /\ worker[w].pc = "selected"
    BY <1>3, <1>6 DEF ClaimSwap
  <2>2. worker'[w].pc = "won" /\ worker'[w].stage = t
        /\ \A v \in Workers \ {w} : worker'[v] = worker[v]
    BY <1>2, <1>6 DEF ClaimSwap, WorkerState
  <2>3. CASE t = s
    BY <2>2, <2>3 DEF HeldOrDropped, HeldByWorker, InGap
  <2>4. CASE t # s
    <3>1. HeldOrDropped(s)
      BY <1>2, <2>1, <2>4
    <3>2. QED
      BY <1>6, <2>1, <2>2, <2>4, <3>1
      DEF ClaimSwap, HeldOrDropped, HeldByWorker, InGap, HeldByRow, HeldBySweep
  <2>5. QED
    BY <2>3, <2>4
<1>7. CASE ClaimInsert(w)
  <2>1. t \in Stages /\ k \in Claims /\ status' = status
        /\ exec' = [exec EXCEPT ![t] = [@ EXCEPT ![k] = "claimed"]]
    BY <1>3, <1>7 DEF ClaimInsert
  <2>2. \A v \in Workers \ {w} : worker'[v] = worker[v]
    BY <1>2, <1>7 DEF ClaimInsert
  <2>3. CASE t = s
    <3>1. exec'[s][k] = "claimed"
      BY <1>2, <2>1, <2>3
    <3>2. QED
      BY <2>1, <3>1 DEF HeldOrDropped, HeldByRow, LiveStatus
  <2>4. CASE t # s
    <3>1. exec'[s] = exec[s]
      BY <1>2, <2>1, <2>4
    <3>2. QED
      BY <1>1, <1>7, <2>1, <2>2, <2>4, <3>1
      DEF ClaimInsert, envVars, HeldOrDropped, HeldByWorker, InGap, HeldByRow, HeldBySweep
  <2>5. QED
    BY <2>3, <2>4
<1>8. CASE CompleteRow(w)
  <2>1. t \in Stages /\ k \in Claims /\ status' = status /\ worker[w].pc = "worked"
        /\ exec' = [exec EXCEPT ![t] = [@ EXCEPT ![k] = "completed"]]
    BY <1>3, <1>8 DEF CompleteRow
  <2>2. worker'[w].pc = "acked" /\ worker'[w].stage = t
        /\ \A v \in Workers \ {w} : worker'[v] = worker[v]
    BY <1>2, <1>8 DEF CompleteRow, WorkerState
  <2>3. CASE t = s
    BY <2>2, <2>3 DEF HeldOrDropped, HeldByWorker, InGap
  <2>4. CASE t # s
    <3>1. exec'[s] = exec[s]
      BY <1>2, <2>1, <2>4
    <3>2. QED
      BY <1>1, <1>8, <2>1, <2>2, <2>4, <3>1
      DEF CompleteRow, envVars, HeldOrDropped, HeldByWorker, InGap, HeldByRow, HeldBySweep
  <2>5. QED
    BY <2>3, <2>4
<1>9. CASE CompleteStage(w) \/ CompleteInTransaction(w)
  <2>1. t \in Stages /\ status' = [status EXCEPT ![t] = "succeeded"]
        /\ worker[w].pc \in {"worked", "acked"}
    BY <1>3, <1>9 DEF CompleteStage, CompleteInTransaction
  <2>2. t # s /\ HeldOrDropped(s)
    BY <1>2, <2>1
  <2>3. \A v \in Workers \ {w} : worker'[v] = worker[v]
    BY <1>2, <1>9 DEF CompleteStage, CompleteInTransaction
  <2>4. exec'[s] = exec[s]
    BY <1>2, <1>9, <2>2 DEF CompleteStage, CompleteInTransaction
  <2>5. QED
    BY <1>1, <1>9, <2>2, <2>3, <2>4
    DEF CompleteStage, CompleteInTransaction, envVars, HeldOrDropped, HeldByWorker,
        InGap, HeldByRow, HeldBySweep
<1>10. CASE \/ \E u \in Stages : ClaimSelect(w, u)
            \/ ClaimLost(w) \/ DoWork(w) \/ CompleteFenced(w)
  <2>1. /\ UNCHANGED <<exec, status, dropped>> /\ ~InGap(w)
        /\ \A v \in Workers \ {w} : worker'[v] = worker[v]
    BY <1>2, <1>10
    DEF ClaimSelect, ClaimLost, DoWork, CompleteFenced, InGap, dbVars, envVars
  <2>2. QED
    BY <1>5, <2>1
<1>11. CASE WorkerFails(w)
  <2>1. /\ UNCHANGED <<exec, status>> /\ dropped \subseteq dropped'
        /\ InGap(w) => t \in dropped'
        /\ \A v \in Workers \ {w} : worker'[v] = worker[v]
    BY <1>2, <1>11 DEF WorkerFails, dbVars
  <2>2. QED
    BY <1>1, <2>1 DEF HeldOrDropped, HeldByWorker, InGap, HeldByRow, HeldBySweep
<1>12. QED
  BY <1>6, <1>7, <1>8, <1>9, <1>10, <1>11 DEF WorkerStep

\* So does a sweep step: the row it abandons is the row it is about to move, and the
\* row it has in hand when it raises is dropped.
LEMMA SweepKeepsHeld ==
  ASSUME WellTyped, NEW s \in Stages, NEW z \in Sweepers, SweepStep(z),
         status'[s] = "running", status[s] = "running" => HeldOrDropped(s)
  PROVE  HeldOrDropped(s)'
<1>1. worker' = worker /\ dropped \subseteq dropped'
  BY DEF SweepStep, SweepSelect, SweepAbandon, SweepMove, SweepRaises, envVars
<1>2. /\ sweep \in [Sweepers -> SweepState]
      /\ status \in [Stages -> StageStatus]
      /\ exec \in [Stages -> [Claims -> RowStatus]]
      /\ sweep[z].rows \subseteq Rows /\ sweep[z].moving \subseteq Rows
  BY DEF WellTyped, TypeOK, SweepState
<1>3. CASE SweepSelect(z)
  <2>1. /\ exec' = exec /\ status' = status /\ sweep[z].moving = {}
        /\ \A y \in Sweepers \ {z} : sweep'[y] = sweep[y]
    BY <1>2, <1>3 DEF SweepSelect, IdleSweep, dbVars
  <2>2. QED
    BY <1>1, <2>1 DEF HeldOrDropped, HeldByWorker, InGap, HeldByRow, HeldBySweep
<1>4. CASE SweepAbandon(z)
  <2>1. PICK r \in sweep[z].rows :
          /\ exec' = [exec EXCEPT ![r[1]] = [@ EXCEPT ![r[2]] = "abandoned"]]
          /\ sweep' = [sweep EXCEPT ![z] = [rows |-> sweep[z].rows \ {r},
                                           moving |-> {r}]]
    BY <1>4 DEF SweepAbandon
  <2>2. /\ r[1] \in Stages /\ r[2] \in Claims /\ r = <<r[1], r[2]>>
        /\ status' = status /\ sweep[z].moving = {}
    BY <1>2, <1>4, <2>1 DEF SweepAbandon, Rows
  <2>3. /\ sweep'[z].moving = {r}
        /\ \A y \in Sweepers \ {z} : sweep'[y] = sweep[y]
    BY <1>2, <2>1
  <2>4. CASE r[1] = s
    BY <2>2, <2>3, <2>4 DEF HeldOrDropped, HeldBySweep
  <2>5. CASE r[1] # s
    <3>1. exec'[s] = exec[s]
      BY <1>2, <2>1, <2>2, <2>5
    <3>2. QED
      BY <1>1, <2>2, <2>3, <3>1 DEF HeldOrDropped, HeldByWorker, InGap, HeldByRow, HeldBySweep
  <2>6. QED
    BY <2>4, <2>5
<1>5. CASE SweepMove(z)
  <2>1. PICK r \in sweep[z].moving :
          /\ status' = [status EXCEPT ![r[1]] =
                          IF @ = "running" THEN "awaiting_reconciliation" ELSE @]
          /\ sweep' = [sweep EXCEPT ![z] = [rows |-> sweep[z].rows,
                                           moving |-> sweep[z].moving \ {r}]]
    BY <1>5 DEF SweepMove
  <2>2. r[1] \in Stages /\ exec' = exec
    BY <1>2, <1>5, <2>1 DEF SweepMove, Rows
  <2>3. r[1] # s /\ HeldOrDropped(s)
    BY <1>2, <2>1, <2>2
  <2>4. \A y \in Sweepers, k \in Claims :
          <<s, k>> \in sweep[y].moving => <<s, k>> \in sweep'[y].moving
    BY <1>2, <2>1, <2>3
  <2>5. QED
    BY <1>1, <2>2, <2>3, <2>4 DEF HeldOrDropped, HeldByWorker, InGap, HeldByRow, HeldBySweep
<1>6. CASE SweepRaises(z)
  <2>1. /\ UNCHANGED <<exec, status>>
        /\ \A r \in sweep[z].moving : r[1] \in dropped'
        /\ \A y \in Sweepers \ {z} : sweep'[y] = sweep[y]
    BY <1>2, <1>6 DEF SweepRaises, dbVars
  <2>2. ASSUME NEW k \in Claims, <<s, k>> \in sweep[z].moving PROVE s \in dropped'
    BY <2>1, <2>2
  <2>3. QED
    BY <1>1, <2>1, <2>2 DEF HeldOrDropped, HeldByWorker, InGap, HeldByRow, HeldBySweep
<1>7. QED
  BY <1>3, <1>4, <1>5, <1>6 DEF SweepStep

LEMMA RunningHasHolderNext ==
  WellTyped /\ RunningHasHolder /\ [Next]_vars => RunningHasHolder'
<1> SUFFICES ASSUME WellTyped, RunningHasHolder, [Next]_vars,
                    up', NEW s \in Stages, status'[s] = "running"
             PROVE  HeldOrDropped(s)'
  BY DEF RunningHasHolder, HeldOrDropped
<1>1. up /\ status[s] = "running" => HeldOrDropped(s)
  BY DEF RunningHasHolder, HeldOrDropped
<1>2. ASSUME UNCHANGED <<up, worker, exec, sweep, dropped>>, status[s] = "running"
      PROVE  HeldOrDropped(s)'
  BY <1>1, <1>2, HeldUnchanged
<1>3. ASSUME NEW t \in Stages, ComputeReady(t) \/ MarkReady(t) PROVE HeldOrDropped(s)'
  <2>1. UNCHANGED <<up, worker, exec, sweep, dropped>>
    BY <1>3 DEF ComputeReady, MarkReady, dbVars, envVars
  <2>2. status[s] = "running"
    BY <1>3 DEF ComputeReady, MarkReady, dbVars, WellTyped, TypeOK
  <2>3. QED
    BY <1>2, <2>1, <2>2
<1>4. ASSUME NEW w \in Workers, WorkerStep(w) PROVE HeldOrDropped(s)'
  <2>1. up
    BY <1>4 DEF WorkerStep, ClaimSelect, ClaimSwap, ClaimLost, ClaimInsert, DoWork,
       WorkerFails, CompleteRow, CompleteStage, CompleteInTransaction, CompleteFenced
  <2>2. QED
    BY <1>1, <1>4, <2>1, WorkerKeepsHeld
<1>5. ASSUME NEW t \in Stages, NEW k \in Claims, LeaseExpires(t, k) PROVE HeldOrDropped(s)'
  <2>1. UNCHANGED <<up, worker, exec, sweep, dropped, status>>
    BY <1>5 DEF LeaseExpires, clientVars, envVars
  <2>2. QED
    BY <1>2, <2>1
<1>6. ASSUME NEW z \in Sweepers, SweepStep(z) PROVE HeldOrDropped(s)'
  <2>1. up
    BY <1>6 DEF SweepStep, SweepSelect, SweepAbandon, SweepMove, SweepRaises
  <2>2. QED
    BY <1>1, <1>6, <2>1, SweepKeepsHeld
<1>7. ASSUME NEW o \in Operators, OperatorStep(o) PROVE HeldOrDropped(s)'
  <2>1. UNCHANGED <<up, worker, exec, sweep, dropped>>
    BY <1>7 DEF OperatorStep, ReconcileProbe, ReconcileWrite, RetrySelect,
       RetryWrite, ExhaustWrite, ApplyFallback, OperatorRaises, dbVars, envVars
  <2>2. status[s] = "running"
    BY <1>7 DEF OperatorStep, ReconcileProbe, ReconcileWrite, RetrySelect,
       RetryWrite, ExhaustWrite, ApplyFallback, OperatorRaises, ExhaustedStatus, dbVars, WellTyped,
       TypeOK
  <2>3. QED
    BY <1>2, <2>1, <2>2
<1>8. CASE Crash
  BY <1>8 DEF Crash
<1>9. CASE Restart
  BY <1>9 DEF Restart, RecoveredStatus
<1>10. CASE UNCHANGED vars
  BY <1>2, <1>10 DEF vars, dbVars, clientVars, envVars
<1>11. QED
  BY <1>3, <1>4, <1>5, <1>6, <1>7, <1>8, <1>9, <1>10 DEF Next

\* While the process is up, a running stage always has a client or a live row
\* that will move it on, or was dropped by a client that raised between two writes:
\* no interleaving of claim, completion, sweep, reconciliation, retry, failures
\* elsewhere, crash and restart leaves it stuck.
THEOREM RunningAlwaysHeld == Spec => []RunningHasHolder
<1>1. Init => RunningHasHolder
  BY DEF Init, RunningHasHolder
<1>2. QED
  BY <1>1, RunningHasHolderNext, WellTypedAlways, PTL DEF Spec

-----------------------------------------------------------------------------
(* Each 'ready' licenses one claim *)

LEMMA LicensedNext ==
  WellTyped /\ ClaimsAreLicensed /\ [Next]_vars => ClaimsAreLicensed'
<1> SUFFICES ASSUME WellTyped, ClaimsAreLicensed, [Next]_vars, NEW s \in Stages
             PROVE  attempts'[s] + (IF status'[s] = "ready" THEN 1 ELSE 0)
                      <= licences'[s]
  BY DEF ClaimsAreLicensed
<1>1. attempts[s] + (IF status[s] = "ready" THEN 1 ELSE 0) <= licences[s]
  BY DEF ClaimsAreLicensed
<1>2. /\ attempts \in [Stages -> 0..MaxClaims]
      /\ licences \in [Stages -> Nat]
      /\ status \in [Stages -> StageStatus]
      /\ attempts[s] \in Nat /\ licences[s] \in Nat
  BY BoundsAssumption DEF WellTyped, TypeOK
<1>3. ASSUME attempts'[s] = attempts[s], licences'[s] = licences[s],
             status'[s] = "ready" => status[s] = "ready"
      PROVE  attempts'[s] + (IF status'[s] = "ready" THEN 1 ELSE 0) <= licences'[s]
  BY <1>1, <1>2, <1>3
<1>4. ASSUME attempts'[s] = attempts[s], licences'[s] = licences[s] + 1
      PROVE  attempts'[s] + (IF status'[s] = "ready" THEN 1 ELSE 0) <= licences'[s]
  BY <1>1, <1>2, <1>4
<1>5. ASSUME NEW t \in Stages, ComputeReady(t) \/ MarkReady(t)
      PROVE  attempts'[s] + (IF status'[s] = "ready" THEN 1 ELSE 0) <= licences'[s]
  <2>1. attempts' = attempts
    BY <1>5 DEF ComputeReady, MarkReady, dbVars
  <2>2. \/ licences'[s] = licences[s] + 1
        \/ licences'[s] = licences[s] /\ (status'[s] = "ready" => status[s] = "ready")
    BY <1>2, <1>5 DEF ComputeReady, MarkReady, dbVars, histVars
  <2>3. QED
    BY <1>3, <1>4, <2>1, <2>2
<1>6. ASSUME NEW w \in Workers, WorkerStep(w)
      PROVE  attempts'[s] + (IF status'[s] = "ready" THEN 1 ELSE 0) <= licences'[s]
  <2>1. licences' = licences
    BY <1>6 DEF WorkerStep, ClaimSelect, ClaimSwap, ClaimLost, ClaimInsert, DoWork,
       WorkerFails, CompleteRow, CompleteStage, CompleteInTransaction,
       CompleteFenced, histVars
  <2>2. CASE ClaimSwap(w)
    <3> DEFINE t == worker[w].stage
    <3>1. /\ t \in Stages /\ status[t] = "ready"
          /\ status' = [status EXCEPT ![t] = "running"]
          /\ attempts' = [attempts EXCEPT ![t] = @ + 1]
      BY <2>2 DEF ClaimSwap, Claimable, WellTyped, CallsWellFormed
    <3>2. CASE t = s
      <4>1. status[s] = "ready" /\ status'[s] = "running"
            /\ attempts'[s] = attempts[s] + 1
        BY <1>2, <3>1, <3>2
      <4>2. QED
        BY <1>1, <1>2, <2>1, <4>1
    <3>3. CASE t # s
      BY <1>2, <1>3, <2>1, <3>1, <3>3
    <3>4. QED
      BY <3>2, <3>3
  <2>3. CASE ~ClaimSwap(w)
    <3>1. attempts' = attempts
      BY <1>6, <2>3 DEF WorkerStep, ClaimSelect, ClaimLost, ClaimInsert, DoWork,
         WorkerFails, CompleteRow, CompleteStage, CompleteInTransaction,
         CompleteFenced, dbVars
    <3>2. status'[s] = "ready" => status[s] = "ready"
      BY <1>2, <1>6, <2>3 DEF WorkerStep, ClaimSelect, ClaimLost, ClaimInsert, DoWork,
         WorkerFails, CompleteRow, CompleteStage, CompleteInTransaction,
         CompleteFenced, dbVars
    <3>3. QED
      BY <1>3, <2>1, <3>1, <3>2
  <2>4. QED
    BY <2>2, <2>3
<1>7. ASSUME NEW t \in Stages, NEW k \in Claims, LeaseExpires(t, k)
      PROVE  attempts'[s] + (IF status'[s] = "ready" THEN 1 ELSE 0) <= licences'[s]
  BY <1>3, <1>7 DEF LeaseExpires, histVars
<1>8. ASSUME NEW z \in Sweepers, SweepStep(z)
      PROVE  attempts'[s] + (IF status'[s] = "ready" THEN 1 ELSE 0) <= licences'[s]
  <2>1. UNCHANGED <<attempts, licences>>
    BY <1>8 DEF SweepStep, SweepSelect, SweepAbandon, SweepMove, SweepRaises, dbVars, histVars
  <2>2. status'[s] = "ready" => status[s] = "ready"
    BY <1>2, <1>8 DEF SweepStep, SweepSelect, SweepAbandon, SweepMove, SweepRaises, dbVars
  <2>3. QED
    BY <1>3, <2>1, <2>2
<1>9. ASSUME NEW o \in Operators, OperatorStep(o)
      PROVE  attempts'[s] + (IF status'[s] = "ready" THEN 1 ELSE 0) <= licences'[s]
  <2>1. attempts' = attempts
    BY <1>9 DEF OperatorStep, ReconcileProbe, ReconcileWrite, RetrySelect,
       RetryWrite, ExhaustWrite, ApplyFallback, OperatorRaises, dbVars
  <2>2. \/ licences'[s] = licences[s] + 1
        \/ licences'[s] = licences[s] /\ (status'[s] = "ready" => status[s] = "ready")
    BY <1>2, <1>9 DEF OperatorStep, ReconcileProbe, ReconcileWrite, RetrySelect,
       RetryWrite, ExhaustWrite, ApplyFallback, OperatorRaises, ExhaustedStatus, dbVars, histVars
  <2>3. QED
    BY <1>3, <1>4, <2>1, <2>2
<1>10. CASE Crash
  BY <1>3, <1>10 DEF Crash, dbVars, histVars
<1>11. CASE Restart
  BY <1>3, <1>11 DEF Restart, RecoveredStatus, histVars
<1>12. CASE UNCHANGED vars
  BY <1>3, <1>12 DEF vars, dbVars, histVars
<1>13. QED
  BY <1>5, <1>6, <1>7, <1>8, <1>9, <1>10, <1>11, <1>12 DEF Next

\* However many workers race for a stage and however often it is retried, it
\* is claimed at most once for each time it was made ready.
THEOREM ClaimsAlwaysLicensed == Spec => []ClaimsAreLicensed
<1>1. Init => ClaimsAreLicensed
  BY DEF Init, ClaimsAreLicensed
<1>2. QED
  BY <1>1, LicensedNext, WellTypedAlways, PTL DEF Spec

-----------------------------------------------------------------------------
(* Fencing *)

\* Every claim has an execution row of its own: no row exists beyond the
\* stage's attempt count, and the row a worker is about to insert is new and
\* is no other worker's.  A sweep only holds rows that exist.
FreshRows ==
  /\ \A s \in Stages, k \in Claims : k > attempts[s] => exec[s][k] = "none"
  /\ \A w \in Workers : worker[w].pc = "won" =>
       /\ worker[w].claim <= attempts[worker[w].stage]
       /\ exec[worker[w].stage][worker[w].claim] = "none"
  /\ \A v, w \in Workers :
       /\ v # w
       /\ worker[v].pc = "won"
       /\ worker[w].pc = "won"
       /\ worker[v].stage = worker[w].stage
       => worker[v].claim # worker[w].claim
  /\ \A z \in Sweepers, s \in Stages, k \in Claims :
       <<s, k>> \in sweep[z].rows => exec[s][k] # "none"

\* What a step that claims nothing must respect to keep rows fresh: it writes
\* only rows that exist, and a sweep picks up only rows that exist.
LEMMA FreshFrame ==
  ASSUME FreshRows, attempts' = attempts,
         \A w \in Workers : worker'[w].pc = "won" => worker'[w] = worker[w],
         \A s \in Stages, k \in Claims :
           (exec[s][k] = "none") <=> (exec'[s][k] = "none"),
         \A z \in Sweepers, s \in Stages, k \in Claims :
           <<s, k>> \in sweep'[z].rows => <<s, k>> \in sweep[z].rows \/ exec[s][k] # "none",
         CallsWellFormed
  PROVE  FreshRows'
<1>1. \A s \in Stages, k \in Claims : k > attempts'[s] => exec'[s][k] = "none"
  BY DEF FreshRows
<1>2. \A w \in Workers : worker'[w].pc = "won" =>
        /\ worker'[w].claim <= attempts'[worker'[w].stage]
        /\ exec'[worker'[w].stage][worker'[w].claim] = "none"
  BY DEF FreshRows, CallsWellFormed
<1>3. \A v, w \in Workers :
        /\ v # w
        /\ worker'[v].pc = "won"
        /\ worker'[w].pc = "won"
        /\ worker'[v].stage = worker'[w].stage
        => worker'[v].claim # worker'[w].claim
  BY DEF FreshRows
<1>4. \A z \in Sweepers, s \in Stages, k \in Claims :
        <<s, k>> \in sweep'[z].rows => exec'[s][k] # "none"
  BY DEF FreshRows
<1>5. QED
  BY <1>1, <1>2, <1>3, <1>4 DEF FreshRows

LEMMA FreshSwap ==
  ASSUME WellTyped, FreshRows, NEW w \in Workers, ClaimSwap(w)
  PROVE  FreshRows'
<1> DEFINE t == worker[w].stage
<1>1. /\ worker \in [Workers -> WorkerState] /\ attempts \in [Stages -> 0..MaxClaims]
      /\ t \in Stages /\ attempts[t] < MaxClaims /\ attempts[t] \in Nat
      /\ attempts' = [attempts EXCEPT ![t] = @ + 1]
      /\ exec' = exec /\ sweep' = sweep
  BY BoundsAssumption DEF ClaimSwap, WellTyped, TypeOK, CallsWellFormed
<1>2. /\ worker'[w].stage = t /\ worker'[w].claim = attempts[t] + 1
      /\ \A v \in Workers \ {w} : worker'[v] = worker[v]
  BY <1>1 DEF ClaimSwap, WorkerState
<1>3. attempts[t] + 1 \in Claims
  BY <1>1, BoundsAssumption DEF Claims
<1>4. \A s \in Stages : attempts[s] \in Nat /\ attempts'[s] \in Nat
                          /\ attempts[s] <= attempts'[s]
  BY <1>1, BoundsAssumption
<1>5. \A s \in Stages, k \in Claims : k > attempts'[s] => exec'[s][k] = "none"
  BY <1>1, <1>4 DEF FreshRows, Claims
<1>6. attempts'[t] = attempts[t] + 1 /\ exec[t][attempts[t] + 1] = "none"
  BY <1>1, <1>3 DEF FreshRows
<1>7. \A v \in Workers : worker[v].pc = "won" =>
        worker[v].stage \in Stages /\ worker[v].claim \in Claims
  BY DEF WellTyped, CallsWellFormed
<1>8. \A v \in Workers : worker'[v].pc = "won" =>
        /\ worker'[v].claim <= attempts'[worker'[v].stage]
        /\ exec'[worker'[v].stage][worker'[v].claim] = "none"
  <2> SUFFICES ASSUME NEW v \in Workers, worker'[v].pc = "won"
               PROVE  /\ worker'[v].claim <= attempts'[worker'[v].stage]
                      /\ exec'[worker'[v].stage][worker'[v].claim] = "none"
    OBVIOUS
  <2>1. CASE v = w
    BY <1>1, <1>2, <1>4, <1>6, <2>1
  <2>2. CASE v # w
    BY <1>1, <1>2, <1>4, <1>7, <2>2 DEF FreshRows, Claims
  <2>3. QED
    BY <2>1, <2>2
<1>9. \A v \in Workers \ {w} : worker[v].pc = "won" /\ worker[v].stage = t
                                  => worker[v].claim # attempts[t] + 1
  BY <1>1, <1>7 DEF FreshRows, Claims
<1>10. \A u, v \in Workers :
         /\ u # v
         /\ worker'[u].pc = "won"
         /\ worker'[v].pc = "won"
         /\ worker'[u].stage = worker'[v].stage
         => worker'[u].claim # worker'[v].claim
  BY <1>2, <1>9 DEF FreshRows
<1>11. \A z \in Sweepers, s \in Stages, k \in Claims :
         <<s, k>> \in sweep'[z].rows => exec'[s][k] # "none"
  BY <1>1 DEF FreshRows
<1>12. QED
  BY <1>5, <1>8, <1>10, <1>11 DEF FreshRows

LEMMA FreshInsert ==
  ASSUME WellTyped, FreshRows, NEW w \in Workers, ClaimInsert(w)
  PROVE  FreshRows'
<1> DEFINE t == worker[w].stage
           c == worker[w].claim
<1>1. /\ worker \in [Workers -> WorkerState] /\ attempts \in [Stages -> 0..MaxClaims]
      /\ exec \in [Stages -> [Claims -> RowStatus]]
      /\ t \in Stages /\ c \in Claims /\ worker[w].pc = "won"
      /\ attempts' = attempts /\ sweep' = sweep
      /\ exec' = [exec EXCEPT ![t] = [@ EXCEPT ![c] = "claimed"]]
  BY DEF ClaimInsert, WellTyped, TypeOK, CallsWellFormed
<1>2. /\ worker'[w].pc = "working"
      /\ \A v \in Workers \ {w} : worker'[v] = worker[v]
  BY <1>1 DEF ClaimInsert, WorkerState
<1>3. \A s \in Stages, k \in Claims :
        exec'[s][k] = IF s = t /\ k = c THEN "claimed" ELSE exec[s][k]
  BY <1>1
<1>4. c <= attempts[t]
  BY <1>1 DEF FreshRows
<1>5. attempts[t] \in Nat /\ c \in Nat
  BY <1>1, BoundsAssumption DEF Claims
<1>6. \A s \in Stages, k \in Claims : k > attempts'[s] => exec'[s][k] = "none"
  <2> SUFFICES ASSUME NEW s \in Stages, NEW k \in Claims, k > attempts[s]
               PROVE  exec'[s][k] = "none"
    BY <1>1
  <2>1. ~(s = t /\ k = c)
    BY <1>4, <1>5
  <2>2. QED
    BY <1>3, <2>1 DEF FreshRows
<1>7. \A v \in Workers : worker'[v].pc = "won" =>
        /\ worker'[v].claim <= attempts'[worker'[v].stage]
        /\ exec'[worker'[v].stage][worker'[v].claim] = "none"
  <2> SUFFICES ASSUME NEW v \in Workers, worker'[v].pc = "won"
               PROVE  /\ worker'[v].claim <= attempts'[worker'[v].stage]
                      /\ exec'[worker'[v].stage][worker'[v].claim] = "none"
    OBVIOUS
  <2>1. v # w /\ worker'[v] = worker[v]
    BY <1>2
  <2>2. worker[v].stage \in Stages /\ worker[v].claim \in Claims
    BY <2>1 DEF WellTyped, CallsWellFormed
  <2>3. ~(worker[v].stage = t /\ worker[v].claim = c)
    BY <1>1, <2>1 DEF FreshRows
  <2>4. QED
    BY <1>1, <1>3, <2>1, <2>2, <2>3 DEF FreshRows
<1>8. \A u, v \in Workers :
        /\ u # v
        /\ worker'[u].pc = "won"
        /\ worker'[v].pc = "won"
        /\ worker'[u].stage = worker'[v].stage
        => worker'[u].claim # worker'[v].claim
  BY <1>2 DEF FreshRows
<1>9. \A z \in Sweepers, s \in Stages, k \in Claims :
        <<s, k>> \in sweep'[z].rows => exec'[s][k] # "none"
  BY <1>1, <1>3 DEF FreshRows
<1>10. QED
  BY <1>6, <1>7, <1>8, <1>9 DEF FreshRows

\* complete_stage writes a row that is live, hence exists.
LEMMA FreshWorker ==
  ASSUME WellTyped, FreshRows, NEW w \in Workers, WorkerStep(w)
  PROVE  FreshRows'
<1>1. worker \in [Workers -> WorkerState] /\ exec \in [Stages -> [Claims -> RowStatus]]
      /\ CallsWellFormed
  BY DEF WellTyped, TypeOK
<1>2. CASE CompleteRow(w) \/ CompleteInTransaction(w)
  <2> DEFINE t == worker[w].stage
             c == worker[w].claim
  <2>1. /\ t \in Stages /\ c \in Claims /\ exec[t][c] = "claimed"
        /\ exec' = [exec EXCEPT ![t] = [@ EXCEPT ![c] = "completed"]]
        /\ attempts' = attempts /\ sweep' = sweep
    BY <1>1, <1>2 DEF CompleteRow, CompleteInTransaction, IsFencedOff, LiveStatus,
       CallsWellFormed
  <2>2. \A s \in Stages, k \in Claims :
          (exec[s][k] = "none") <=> (exec'[s][k] = "none")
    BY <1>1, <2>1
  <2>3. worker'[w].pc # "won" /\ \A v \in Workers \ {w} : worker'[v] = worker[v]
    BY <1>1, <1>2 DEF CompleteRow, CompleteInTransaction, IdleWorker, WorkerState
  <2>4. QED
    BY <1>1, <2>1, <2>2, <2>3, FreshFrame
<1>3. CASE \/ \E u \in Stages : ClaimSelect(w, u)
           \/ ClaimLost(w) \/ DoWork(w) \/ WorkerFails(w)
           \/ CompleteStage(w) \/ CompleteFenced(w)
  <2>1. exec' = exec /\ attempts' = attempts /\ sweep' = sweep
    BY <1>3 DEF ClaimSelect, ClaimLost, DoWork, WorkerFails, CompleteStage,
       CompleteFenced, dbVars
  <2>2. worker'[w].pc # "won" /\ \A v \in Workers \ {w} : worker'[v] = worker[v]
    BY <1>1, <1>3 DEF ClaimSelect, ClaimLost, DoWork, WorkerFails, CompleteStage,
       CompleteFenced, IdleWorker, WorkerState
  <2>3. QED
    BY <1>1, <2>1, <2>2, FreshFrame
<1>4. QED
  BY <1>2, <1>3, FreshSwap, FreshInsert DEF WorkerStep

LEMMA FreshSweep ==
  ASSUME WellTyped, FreshRows, NEW z \in Sweepers, SweepStep(z)
  PROVE  FreshRows'
<1>1. /\ sweep \in [Sweepers -> SweepState]
      /\ exec \in [Stages -> [Claims -> RowStatus]]
      /\ sweep[z].rows \subseteq Rows
      /\ CallsWellFormed /\ worker' = worker /\ attempts' = attempts
  BY DEF WellTyped, TypeOK, SweepState, SweepStep, SweepSelect, SweepAbandon,
     SweepMove, SweepRaises, dbVars
<1>2. CASE SweepSelect(z)
  <2>1. /\ exec' = exec /\ sweep'[z].rows = StaleRows
        /\ \A y \in Sweepers \ {z} : sweep'[y] = sweep[y]
    BY <1>1, <1>2 DEF SweepSelect, dbVars
  <2>2. \A s \in Stages, k \in Claims : <<s, k>> \in StaleRows => exec[s][k] # "none"
    BY DEF StaleRows, LiveStatus
  <2>3. QED
    BY <1>1, <2>1, <2>2, FreshFrame
<1>3. CASE SweepAbandon(z)
  <2>1. PICK r \in sweep[z].rows :
          /\ exec' = [exec EXCEPT ![r[1]] = [@ EXCEPT ![r[2]] = "abandoned"]]
          /\ sweep' = [sweep EXCEPT ![z] = [rows |-> sweep[z].rows \ {r},
                                           moving |-> {r}]]
    BY <1>3 DEF SweepAbandon
  <2>2. r[1] \in Stages /\ r[2] \in Claims /\ r = <<r[1], r[2]>>
    BY <1>1, <2>1 DEF Rows
  <2>3. exec[r[1]][r[2]] # "none"
    BY <2>1, <2>2 DEF FreshRows
  <2>4. \A s \in Stages, k \in Claims :
          (exec[s][k] = "none") <=> (exec'[s][k] = "none")
    BY <1>1, <2>1, <2>2, <2>3
  <2>5. \A y \in Sweepers, s \in Stages, k \in Claims :
          <<s, k>> \in sweep'[y].rows => <<s, k>> \in sweep[y].rows
    BY <1>1, <2>1
  <2>6. QED
    BY <1>1, <2>4, <2>5, FreshFrame
<1>4. CASE SweepMove(z) \/ SweepRaises(z)
  <2>1. exec' = exec
    BY <1>4 DEF SweepMove, SweepRaises, dbVars
  <2>2. \A y \in Sweepers : sweep'[y].rows \subseteq sweep[y].rows
    BY <1>1, <1>4 DEF SweepMove, SweepRaises, IdleSweep
  <2>3. QED
    BY <1>1, <2>1, <2>2, FreshFrame
<1>5. QED
  BY <1>2, <1>3, <1>4 DEF SweepStep

LEMMA FreshNext == WellTyped /\ FreshRows /\ [Next]_vars => FreshRows'
<1> SUFFICES ASSUME WellTyped, FreshRows, [Next]_vars PROVE FreshRows'
  OBVIOUS
<1>1. CallsWellFormed
  BY DEF WellTyped
<1>2. ASSUME UNCHANGED <<attempts, exec, worker, sweep>> PROVE FreshRows'
  BY <1>1, <1>2, FreshFrame
<1>3. ASSUME NEW s \in Stages, ComputeReady(s) \/ MarkReady(s) PROVE FreshRows'
  BY <1>2, <1>3 DEF ComputeReady, MarkReady, dbVars
<1>4. ASSUME NEW s \in Stages, NEW k \in Claims, LeaseExpires(s, k) PROVE FreshRows'
  BY <1>2, <1>4 DEF LeaseExpires, clientVars
<1>5. ASSUME NEW o \in Operators, OperatorStep(o) PROVE FreshRows'
  BY <1>2, <1>5 DEF OperatorStep, ReconcileProbe, ReconcileWrite, RetrySelect,
     RetryWrite, ExhaustWrite, ApplyFallback, OperatorRaises, dbVars
<1>6. CASE Crash
  <2>1. exec' = exec /\ attempts' = attempts
    BY <1>6 DEF Crash, dbVars
  <2>2. /\ \A w \in Workers : worker'[w].pc # "won"
        /\ \A z \in Sweepers : sweep'[z].rows = {}
    BY <1>6 DEF Crash, IdleWorker, IdleSweep
  <2>3. QED
    BY <1>1, <2>1, <2>2, FreshFrame
<1>7. CASE Restart
  BY <1>2, <1>7 DEF Restart, clientVars
<1>8. CASE UNCHANGED vars
  BY <1>2, <1>8 DEF vars, dbVars, clientVars
<1>9. QED
  BY <1>3, <1>4, <1>5, <1>6, <1>7, <1>8, FreshWorker, FreshSweep DEF Next

LEMMA FreshAlways == Spec => [](WellTyped /\ FreshRows)
<1>1. Init => FreshRows
  BY DEF Init, FreshRows, IdleWorker, IdleSweep
<1>2. QED
  BY <1>1, FreshNext, WellTypedAlways, PTL DEF Spec

\* No step takes a row out of 'abandoned'.
LEMMA AbandonedStep ==
  ASSUME WellTyped, FreshRows, [Next]_vars, NEW s \in Stages, NEW k \in Claims,
         exec[s][k] = "abandoned"
  PROVE  exec'[s][k] = "abandoned"
<1>1. exec \in [Stages -> [Claims -> RowStatus]] /\ CallsWellFormed
  BY DEF WellTyped, TypeOK
<1>2. ASSUME NEW w \in Workers, WorkerStep(w) PROVE exec'[s][k] = "abandoned"
  <2> DEFINE t == worker[w].stage
             c == worker[w].claim
  <2>1. CASE ClaimInsert(w)
    <3>1. t \in Stages /\ c \in Claims /\ exec[t][c] = "none"
      BY <1>1, <2>1 DEF ClaimInsert, CallsWellFormed, FreshRows
    <3>2. QED
      BY <1>1, <2>1, <3>1 DEF ClaimInsert
  <2>2. CASE CompleteRow(w) \/ CompleteInTransaction(w)
    <3>1. t \in Stages /\ c \in Claims /\ exec[t][c] = "claimed"
          /\ exec' = [exec EXCEPT ![t] = [@ EXCEPT ![c] = "completed"]]
      BY <1>1, <2>2 DEF CompleteRow, CompleteInTransaction, CallsWellFormed,
         IsFencedOff, LiveStatus
    <3>2. QED
      BY <1>1, <3>1
  <2>3. CASE ~(ClaimInsert(w) \/ CompleteRow(w) \/ CompleteInTransaction(w))
    BY <1>2, <2>3 DEF WorkerStep, ClaimSelect, ClaimSwap, ClaimLost, DoWork,
       WorkerFails, CompleteStage, CompleteFenced, dbVars
  <2>4. QED
    BY <2>1, <2>2, <2>3
<1>3. ASSUME NEW z \in Sweepers, SweepStep(z) PROVE exec'[s][k] = "abandoned"
  <2>1. CASE SweepAbandon(z)
    <3>1. PICK r \in sweep[z].rows :
            exec' = [exec EXCEPT ![r[1]] = [@ EXCEPT ![r[2]] = "abandoned"]]
      BY <2>1 DEF SweepAbandon
    <3>2. QED
      BY <1>1, <3>1
  <2>2. CASE SweepSelect(z) \/ SweepMove(z) \/ SweepRaises(z)
    BY <2>2 DEF SweepSelect, SweepMove, SweepRaises, dbVars
  <2>3. QED
    BY <1>3, <2>1, <2>2 DEF SweepStep
<1>4. CASE \/ \E t \in Stages : ComputeReady(t) \/ MarkReady(t)
           \/ \E t \in Stages, c \in Claims : LeaseExpires(t, c)
           \/ \E o \in Operators : OperatorStep(o)
           \/ Crash \/ Restart \/ UNCHANGED vars
  BY <1>4 DEF ComputeReady, MarkReady, LeaseExpires, OperatorStep, ReconcileProbe,
     ReconcileWrite, RetrySelect, RetryWrite, ExhaustWrite, ApplyFallback, OperatorRaises, Crash,
     Restart, vars, dbVars
<1>5. QED
  BY <1>2, <1>3, <1>4 DEF Next

\* The fence holds: once the sweep has abandoned an execution, no late
\* completion, no new claim and no crash brings its row back.
THEOREM FenceHolds == Spec => AbandonedIsFinal
<1>1. WellTyped /\ FreshRows /\ [Next]_vars =>
        [\A s \in Stages, k \in Claims :
           exec[s][k] = "abandoned" => exec'[s][k] = "abandoned"]_vars
  BY AbandonedStep
<1>2. QED
  BY <1>1, FreshAlways, PTL DEF Spec, AbandonedIsFinal

-----------------------------------------------------------------------------
(* The number a row carries *)

\* What a worker read before its compare-and-swap is not ahead of what the
\* swap then made of it, nor of the stage's count.
NumbersFollow ==
  /\ AttemptNumberNeverAhead
  /\ \A w \in Workers :
       /\ worker[w].pc = "selected" => worker[w].seen <= attempts[worker[w].stage]
       /\ worker[w].pc = "won" => /\ worker[w].seen < worker[w].claim
                                  /\ worker[w].claim <= attempts[worker[w].stage]

\* Steps that insert no row and swap no claim.
LEMMA NumbersFrame ==
  ASSUME NumbersFollow, number' = number, attempts' = attempts,
         \A s \in Stages, k \in Claims :
           (exec[s][k] = "none") <=> (exec'[s][k] = "none"),
         \A w \in Workers : \/ worker'[w] = worker[w]
                            \/ worker'[w].pc \notin {"selected", "won"}
                            \/ /\ worker'[w].pc = "selected"
                               /\ worker'[w].seen <= attempts[worker'[w].stage]
  PROVE  NumbersFollow'
<1>1. AttemptNumberNeverAhead'
  BY DEF NumbersFollow, AttemptNumberNeverAhead
<1>2. \A w \in Workers :
        /\ worker'[w].pc = "selected" => worker'[w].seen <= attempts'[worker'[w].stage]
        /\ worker'[w].pc = "won" => /\ worker'[w].seen < worker'[w].claim
                                    /\ worker'[w].claim <= attempts'[worker'[w].stage]
  BY DEF NumbersFollow
<1>3. QED
  BY <1>1, <1>2 DEF NumbersFollow

LEMMA NumbersSwap ==
  ASSUME WellTyped, NumbersFollow, NEW w \in Workers, ClaimSwap(w)
  PROVE  NumbersFollow'
<1> DEFINE t == worker[w].stage
<1>1. /\ worker \in [Workers -> WorkerState] /\ attempts \in [Stages -> 0..MaxClaims]
      /\ t \in Stages /\ worker[w].seen \in Nat /\ worker[w].seen <= attempts[t]
      /\ attempts' = [attempts EXCEPT ![t] = @ + 1]
      /\ exec' = exec /\ number' = number
  BY DEF ClaimSwap, WellTyped, TypeOK, CallsWellFormed, WorkerState, NumbersFollow
<1>2. \A s \in Stages : attempts[s] \in Nat /\ attempts'[s] \in Nat
                          /\ attempts[s] <= attempts'[s]
  BY <1>1, BoundsAssumption
<1>3. /\ worker'[w].pc = "won" /\ worker'[w].stage = t
      /\ worker'[w].seen = worker[w].seen /\ worker'[w].claim = attempts[t] + 1
      /\ \A v \in Workers \ {w} : worker'[v] = worker[v]
  BY <1>1 DEF ClaimSwap, WorkerState
<1>4. AttemptNumberNeverAhead'
  BY <1>1, <1>2 DEF NumbersFollow, AttemptNumberNeverAhead, Claims
<1>5. ASSUME NEW v \in Workers
      PROVE  /\ worker'[v].pc = "selected" => worker'[v].seen <= attempts'[worker'[v].stage]
             /\ worker'[v].pc = "won" => /\ worker'[v].seen < worker'[v].claim
                                         /\ worker'[v].claim <= attempts'[worker'[v].stage]
  <2>1. CASE v = w
    <3>1. attempts'[t] = attempts[t] + 1
      BY <1>1
    <3>2. QED
      BY <1>1, <1>2, <1>3, <2>1, <3>1
  <2>2. CASE v # w
    <3>1. worker[v].pc \in {"selected", "won"} => worker[v].stage \in Stages
      BY DEF WellTyped, CallsWellFormed
    <3>2. worker[v] \in WorkerState
      BY <1>1
    <3>3. worker[v].seen \in Nat /\ worker[v].claim \in Nat
      BY <3>2 DEF WorkerState
    <3>4. QED
      BY <1>2, <1>3, <2>2, <3>1, <3>3 DEF NumbersFollow
  <2>3. QED
    BY <2>1, <2>2
<1>6. QED
  BY <1>4, <1>5 DEF NumbersFollow

LEMMA NumbersInsert ==
  ASSUME WellTyped, NumbersFollow, NEW w \in Workers, ClaimInsert(w)
  PROVE  NumbersFollow'
<1> DEFINE t == worker[w].stage
           c == worker[w].claim
<1>1. /\ worker \in [Workers -> WorkerState]
      /\ exec \in [Stages -> [Claims -> RowStatus]]
      /\ number \in [Stages -> [Claims -> Nat]]
      /\ t \in Stages /\ c \in Claims /\ worker[w].seen \in Nat
      /\ worker[w].seen < c /\ c <= attempts[t]
      /\ attempts' = attempts
      /\ exec' = [exec EXCEPT ![t] = [@ EXCEPT ![c] = "claimed"]]
      /\ number' = [number EXCEPT ![t] = [@ EXCEPT ![c] = worker[w].seen + 1]]
  BY DEF ClaimInsert, AttemptNumber, WellTyped, TypeOK, CallsWellFormed, WorkerState,
     NumbersFollow
<1>2. /\ worker'[w].pc = "working"
      /\ \A v \in Workers \ {w} : worker'[v] = worker[v]
  BY <1>1 DEF ClaimInsert, WorkerState
<1>3. \A s \in Stages, k \in Claims :
        /\ exec'[s][k] = IF s = t /\ k = c THEN "claimed" ELSE exec[s][k]
        /\ number'[s][k] = IF s = t /\ k = c THEN worker[w].seen + 1 ELSE number[s][k]
  BY <1>1
<1>4. worker[w].seen + 1 \in 1..c
  BY <1>1 DEF Claims
<1>5. AttemptNumberNeverAhead'
  BY <1>1, <1>3, <1>4 DEF NumbersFollow, AttemptNumberNeverAhead
<1>6. \A v \in Workers :
        /\ worker'[v].pc = "selected" => worker'[v].seen <= attempts'[worker'[v].stage]
        /\ worker'[v].pc = "won" => /\ worker'[v].seen < worker'[v].claim
                                    /\ worker'[v].claim <= attempts'[worker'[v].stage]
  BY <1>1, <1>2 DEF NumbersFollow
<1>7. QED
  BY <1>5, <1>6 DEF NumbersFollow

LEMMA NumbersWorker ==
  ASSUME WellTyped, NumbersFollow, NEW w \in Workers, WorkerStep(w)
  PROVE  NumbersFollow'
<1>1. /\ worker \in [Workers -> WorkerState]
      /\ exec \in [Stages -> [Claims -> RowStatus]]
      /\ CallsWellFormed
  BY DEF WellTyped, TypeOK
<1>2. CASE CompleteRow(w) \/ CompleteInTransaction(w)
  <2> DEFINE t == worker[w].stage
             c == worker[w].claim
  <2>1. /\ t \in Stages /\ c \in Claims /\ exec[t][c] = "claimed"
        /\ exec' = [exec EXCEPT ![t] = [@ EXCEPT ![c] = "completed"]]
        /\ attempts' = attempts /\ number' = number
    BY <1>1, <1>2 DEF CompleteRow, CompleteInTransaction, IsFencedOff, LiveStatus,
       CallsWellFormed
  <2>2. \A s \in Stages, k \in Claims :
          (exec[s][k] = "none") <=> (exec'[s][k] = "none")
    BY <1>1, <2>1
  <2>3. /\ worker'[w].pc \notin {"selected", "won"}
        /\ \A v \in Workers \ {w} : worker'[v] = worker[v]
    BY <1>1, <1>2 DEF CompleteRow, CompleteInTransaction, IdleWorker, WorkerState
  <2>4. QED
    BY <2>1, <2>2, <2>3, NumbersFrame
<1>3. ASSUME NEW u \in Stages, ClaimSelect(w, u) PROVE NumbersFollow'
  <2>1. /\ exec' = exec /\ attempts' = attempts /\ number' = number
        /\ worker'[w].pc = "selected" /\ worker'[w].seen = attempts[worker'[w].stage]
        /\ \A v \in Workers \ {w} : worker'[v] = worker[v]
    BY <1>1, <1>3 DEF ClaimSelect, dbVars
  <2>2. attempts[u] \in Nat /\ worker'[w].stage = u
    BY <1>1, <1>3, BoundsAssumption DEF ClaimSelect, WellTyped, TypeOK
  <2>3. QED
    BY <2>1, <2>2, NumbersFrame
<1>4. CASE \/ ClaimLost(w) \/ DoWork(w) \/ WorkerFails(w)
           \/ CompleteStage(w) \/ CompleteFenced(w)
  <2>1. exec' = exec /\ attempts' = attempts /\ number' = number
    BY <1>4 DEF ClaimLost, DoWork, WorkerFails, CompleteStage, CompleteFenced, dbVars
  <2>2. /\ worker'[w].pc \notin {"selected", "won"}
        /\ \A v \in Workers \ {w} : worker'[v] = worker[v]
    BY <1>1, <1>4 DEF ClaimLost, DoWork, WorkerFails, CompleteStage, CompleteFenced,
       IdleWorker, WorkerState
  <2>3. QED
    BY <2>1, <2>2, NumbersFrame
<1>5. QED
  BY <1>2, <1>3, <1>4, NumbersSwap, NumbersInsert DEF WorkerStep

LEMMA NumbersNext == WellTyped /\ FreshRows /\ NumbersFollow /\ [Next]_vars => NumbersFollow'
<1> SUFFICES ASSUME WellTyped, FreshRows, NumbersFollow, [Next]_vars PROVE NumbersFollow'
  OBVIOUS
<1>1. /\ exec \in [Stages -> [Claims -> RowStatus]]
      /\ sweep \in [Sweepers -> SweepState]
      /\ \A z \in Sweepers : sweep[z].rows \subseteq Rows
  BY DEF WellTyped, TypeOK, SweepState
<1>2. ASSUME UNCHANGED <<attempts, exec, number, worker>> PROVE NumbersFollow'
  BY <1>2, NumbersFrame
<1>3. ASSUME NEW z \in Sweepers, SweepAbandon(z) PROVE NumbersFollow'
  <2>1. PICK r \in sweep[z].rows :
          exec' = [exec EXCEPT ![r[1]] = [@ EXCEPT ![r[2]] = "abandoned"]]
    BY <1>3 DEF SweepAbandon
  <2>2. r[1] \in Stages /\ r[2] \in Claims /\ r = <<r[1], r[2]>>
    BY <1>1, <2>1 DEF Rows
  <2>3. exec[r[1]][r[2]] # "none"
    BY <2>1, <2>2 DEF FreshRows
  <2>4. \A s \in Stages, k \in Claims :
          (exec[s][k] = "none") <=> (exec'[s][k] = "none")
    BY <1>1, <2>1, <2>2, <2>3
  <2>5. UNCHANGED <<attempts, number, worker>>
    BY <1>3 DEF SweepAbandon
  <2>6. QED
    BY <2>4, <2>5, NumbersFrame
<1>4. CASE \/ \E s \in Stages : ComputeReady(s) \/ MarkReady(s)
           \/ \E s \in Stages, k \in Claims : LeaseExpires(s, k)
           \/ \E z \in Sweepers : SweepSelect(z) \/ SweepMove(z) \/ SweepRaises(z)
           \/ \E o \in Operators : OperatorStep(o)
           \/ Restart \/ UNCHANGED vars
  <2>1. UNCHANGED <<attempts, exec, number, worker>>
    BY <1>4 DEF ComputeReady, MarkReady, LeaseExpires, SweepSelect, SweepMove,
       SweepRaises, OperatorStep, ReconcileProbe, ReconcileWrite, RetrySelect, RetryWrite,
       ExhaustWrite, ApplyFallback, OperatorRaises, Restart, vars, dbVars, clientVars
  <2>2. QED
    BY <1>2, <2>1
<1>5. CASE Crash
  <2>1. exec' = exec /\ attempts' = attempts /\ number' = number
    BY <1>5 DEF Crash, dbVars
  <2>2. \A w \in Workers : worker'[w].pc \notin {"selected", "won"}
    BY <1>5 DEF Crash, IdleWorker
  <2>3. QED
    BY <2>1, <2>2, NumbersFrame
<1>6. QED
  BY <1>3, <1>4, <1>5, NumbersWorker DEF Next, SweepStep

\* attempt_number, computed from the value read before the compare-and-swap,
\* never runs ahead of the claim that inserted the row, and no row is ahead of
\* the stage's attempt_count: for any number of workers racing for the stage.
THEOREM AttemptNumbersNeverAhead == Spec => []AttemptNumberNeverAhead
<1>1. Init => NumbersFollow
  BY DEF Init, NumbersFollow, AttemptNumberNeverAhead, IdleWorker
<1>2. NumbersFollow => AttemptNumberNeverAhead
  BY DEF NumbersFollow
<1>3. QED
  BY <1>1, <1>2, NumbersNext, FreshAlways, PTL DEF Spec

-----------------------------------------------------------------------------
(* Dependencies *)

\* A stage on its way to being claimed, or past it.
Begun(s) == s \in eligible \/ status[s] # "pending" \/ attempts[s] > 0

\* No stage goes back to 'pending', so the clients inside a call are at stages
\* that have begun, and everDone remembers every stage found 'succeeded'.
DependenciesHeld ==
  /\ \A s \in Stages \ Fallbacks : Begun(s) => DependsOn[s] \subseteq everDone
  /\ \A s \in Stages : status[s] = "succeeded" => s \in everDone
  /\ \A w \in Workers : worker[w].pc # "idle" => status[worker[w].stage] # "pending"
  /\ \A o \in Operators : operator[o].pc # "idle" => status[operator[o].stage] # "pending"

LEMMA DependenciesFrame ==
  ASSUME DependenciesHeld, everDone \subseteq everDone',
         \A s \in Stages \ Fallbacks :
           Begun(s)' => Begun(s) \/ DependsOn[s] \subseteq everDone,
         \A s \in Stages : status'[s] = "succeeded" =>
           status[s] = "succeeded" \/ s \in everDone',
         \A s \in Stages : status[s] # "pending" => status'[s] # "pending",
         \A w \in Workers : worker'[w].pc # "idle" =>
           worker'[w].stage \in Stages /\ status[worker'[w].stage] # "pending",
         \A o \in Operators : operator'[o].pc # "idle" =>
           operator'[o].stage \in Stages /\ status[operator'[o].stage] # "pending"
  PROVE  DependenciesHeld'
<1>1. \A s \in Stages \ Fallbacks : Begun(s)' => DependsOn[s] \subseteq everDone'
  BY DEF DependenciesHeld
<1>2. \A s \in Stages : status'[s] = "succeeded" => s \in everDone'
  BY DEF DependenciesHeld
<1>3. /\ \A w \in Workers : worker'[w].pc # "idle" => status'[worker'[w].stage] # "pending"
      /\ \A o \in Operators :
           operator'[o].pc # "idle" => status'[operator'[o].stage] # "pending"
  OBVIOUS
<1>4. QED
  BY <1>1, <1>2, <1>3 DEF DependenciesHeld

LEMMA DependenciesWorker ==
  ASSUME WellTyped, DependenciesHeld, NEW w \in Workers, WorkerStep(w)
  PROVE  DependenciesHeld'
<1> DEFINE t == worker[w].stage
<1>1. /\ worker \in [Workers -> WorkerState]
      /\ attempts \in [Stages -> 0..MaxClaims]
      /\ status \in [Stages -> StageStatus]
      /\ operator' = operator /\ eligible' = eligible
      /\ DependsOn' = DependsOn
  BY StagesAssumption DEF WellTyped, TypeOK, WorkerStep, ClaimSelect, ClaimSwap,
     ClaimLost, ClaimInsert, DoWork, WorkerFails, CompleteRow, CompleteStage,
     CompleteInTransaction, CompleteFenced
<1>2. /\ \A v \in Workers : worker[v].pc # "idle" =>
           worker[v].stage \in Stages /\ status[worker[v].stage] # "pending"
      /\ \A o \in Operators : operator[o].pc # "idle" =>
           operator[o].stage \in Stages /\ status[operator[o].stage] # "pending"
  BY DEF WellTyped, CallsWellFormed, DependenciesHeld
<1>3. ASSUME NEW u \in Stages, ClaimSelect(w, u) PROVE DependenciesHeld'
  <2>1. /\ worker' = [worker EXCEPT ![w] = [pc |-> "selected", stage |-> u,
                                            seen |-> attempts[u], claim |-> 0]]
        /\ status[u] = "ready"
        /\ UNCHANGED <<status, attempts, everDone>>
    BY <1>3 DEF ClaimSelect, dbVars, histVars
  <2>2. \A v \in Workers : worker'[v].pc # "idle" =>
          worker'[v].stage \in Stages /\ status[worker'[v].stage] # "pending"
    BY <1>1, <1>2, <2>1
  <2>3. \A s \in Stages : Begun(s)' => Begun(s)
    BY <1>1, <2>1 DEF Begun
  <2>4. QED
    BY <1>1, <1>2, <2>1, <2>2, <2>3, DependenciesFrame
<1>4. CASE ClaimSwap(w)
  <2>1. /\ t \in Stages /\ status[t] = "ready"
        /\ status' = [status EXCEPT ![t] = "running"]
        /\ attempts' = [attempts EXCEPT ![t] = @ + 1]
        /\ everDone' = everDone
    BY <1>2, <1>4 DEF ClaimSwap, Claimable, histVars
  <2>2. \A v \in Workers : worker'[v].pc # "idle" =>
          worker'[v].stage \in Stages /\ status[worker'[v].stage] # "pending"
    <3> SUFFICES ASSUME NEW v \in Workers, worker'[v].pc # "idle"
                 PROVE  worker'[v].stage \in Stages /\ status[worker'[v].stage] # "pending"
      OBVIOUS
    <3>1. CASE v = w
      BY <1>1, <1>4, <2>1, <3>1 DEF ClaimSwap, WorkerState
    <3>2. CASE v # w
      BY <1>1, <1>2, <1>4, <3>2 DEF ClaimSwap
    <3>3. QED
      BY <3>1, <3>2
  <2>3. \A s \in Stages : Begun(s)' => Begun(s)
    <3>1. Begun(t)
      BY <2>1 DEF Begun
    <3>2. ASSUME NEW s \in Stages, s # t PROVE Begun(s)' => Begun(s)
      BY <1>1, <2>1, <3>2 DEF Begun
    <3>3. QED
      BY <3>1, <3>2
  <2>4. /\ \A s \in Stages : status'[s] = "succeeded" => status[s] = "succeeded"
        /\ \A s \in Stages : status[s] # "pending" => status'[s] # "pending"
    BY <1>1, <2>1
  <2>5. QED
    BY <1>1, <1>2, <2>1, <2>2, <2>3, <2>4, DependenciesFrame
<1>5. CASE CompleteStage(w) \/ CompleteInTransaction(w)
  <2>1. /\ t \in Stages /\ status[t] # "pending"
        /\ status' = [status EXCEPT ![t] = "succeeded"]
        /\ everDone' = everDone \union {t}
        /\ attempts' = attempts
        /\ worker' = [worker EXCEPT ![w] = IdleWorker]
    BY <1>2, <1>5 DEF CompleteStage, CompleteInTransaction
  <2>2. \A v \in Workers : worker'[v].pc # "idle" =>
          worker'[v].stage \in Stages /\ status[worker'[v].stage] # "pending"
    BY <1>1, <1>2, <2>1, IdlePcs
  <2>3. \A s \in Stages : Begun(s)' => Begun(s)
    <3>1. Begun(t)
      BY <2>1 DEF Begun
    <3>2. ASSUME NEW s \in Stages, s # t PROVE Begun(s)' => Begun(s)
      BY <1>1, <2>1, <3>2 DEF Begun
    <3>3. QED
      BY <3>1, <3>2
  <2>4. /\ \A s \in Stages : status'[s] = "succeeded" =>
             status[s] = "succeeded" \/ s \in everDone'
        /\ \A s \in Stages : status[s] # "pending" => status'[s] # "pending"
    BY <1>1, <2>1
  <2>5. QED
    BY <1>1, <1>2, <2>1, <2>2, <2>3, <2>4, DependenciesFrame
<1>6. CASE \/ ClaimLost(w) \/ ClaimInsert(w) \/ DoWork(w) \/ WorkerFails(w)
           \/ CompleteRow(w) \/ CompleteFenced(w)
  <2>1. UNCHANGED <<status, attempts, everDone>>
    BY <1>6 DEF ClaimLost, ClaimInsert, DoWork, WorkerFails, CompleteRow,
       CompleteFenced, dbVars, histVars
  <2>2. /\ \A v \in Workers \ {w} : worker'[v] = worker[v]
        /\ \/ worker'[w].pc = "idle"
           \/ worker'[w].stage = t /\ worker[w].pc # "idle"
    BY <1>1, <1>6, IdlePcs DEF ClaimLost, ClaimInsert, DoWork, WorkerFails,
       CompleteRow, CompleteFenced, WorkerState
  <2>3. \A v \in Workers : worker'[v].pc # "idle" =>
          worker'[v].stage \in Stages /\ status[worker'[v].stage] # "pending"
    BY <1>2, <2>2
  <2>4. \A s \in Stages : Begun(s)' => Begun(s)
    BY <1>1, <2>1 DEF Begun
  <2>5. QED
    BY <1>1, <1>2, <2>1, <2>3, <2>4, DependenciesFrame
<1>7. QED
  BY <1>3, <1>4, <1>5, <1>6 DEF WorkerStep

LEMMA DependenciesOperator ==
  ASSUME WellTyped, DependenciesHeld, NEW o \in Operators, OperatorStep(o)
  PROVE  DependenciesHeld'
<1> DEFINE t == operator[o].stage
<1>1. /\ operator \in [Operators -> OperatorState]
      /\ status \in [Stages -> StageStatus]
      /\ UNCHANGED <<worker, eligible, attempts>>
  BY DEF WellTyped, TypeOK, OperatorStep, ReconcileProbe, ReconcileWrite, RetrySelect,
     RetryWrite, ExhaustWrite, ApplyFallback, OperatorRaises, dbVars
<1>2. /\ \A v \in Workers : worker[v].pc # "idle" =>
           worker[v].stage \in Stages /\ status[worker[v].stage] # "pending"
      /\ \A p \in Operators : operator[p].pc # "idle" =>
           operator[p].stage \in Stages /\ status[operator[p].stage] # "pending"
  BY DEF WellTyped, CallsWellFormed, DependenciesHeld
<1>3. ASSUME NEW u \in Stages, ReconcileProbe(o, u) \/ RetrySelect(o, u)
      PROVE  DependenciesHeld'
  <2>1. PICK p \in OperatorPc :
          operator' = [operator EXCEPT ![o] = [pc |-> p, stage |-> u]]
    BY <1>3 DEF ReconcileProbe, RetrySelect, OperatorPc
  <2>2. status[u] # "pending" /\ UNCHANGED <<status, everDone>>
    BY <1>3 DEF ReconcileProbe, RetrySelect, dbVars, histVars
  <2>3. \A q \in Operators : operator'[q].pc # "idle" =>
          operator'[q].stage \in Stages /\ status[operator'[q].stage] # "pending"
    BY <1>1, <1>2, <2>1, <2>2
  <2>4. \A s \in Stages : Begun(s)' => Begun(s)
    BY <1>1, <2>2 DEF Begun
  <2>5. QED
    BY <1>1, <1>2, <2>2, <2>3, <2>4, DependenciesFrame
<1>4. CASE ReconcileWrite(o) \/ RetryWrite(o) \/ ExhaustWrite(o)
  <2>1. /\ t \in Stages /\ status[t] # "pending"
        /\ \A p \in Operators \ {o} : operator'[p] = operator[p]
        /\ operator'[o].pc # "idle" => operator'[o].stage = t
    BY <1>1, <1>2, <1>4, IdlePcs DEF ReconcileWrite, RetryWrite, ExhaustWrite
  <2>2. PICK x \in StageStatus \ {"pending"} :
          /\ status' = [status EXCEPT ![t] = x]
          /\ everDone \subseteq everDone'
          /\ x = "succeeded" => t \in everDone'
    <3>1. CASE ReconcileWrite(o)
      <4>1. CASE operator[o].pc = "already_completed"
        <5>1. /\ status' = [status EXCEPT ![t] = "succeeded"]
              /\ everDone' = everDone \union {t}
          BY <3>1, <4>1 DEF ReconcileWrite
        <5>2. QED
          BY <5>1 DEF StageStatus
      <4>2. CASE operator[o].pc # "already_completed"
        <5>1. status' = [status EXCEPT ![t] = "failed_transient"] /\ everDone' = everDone
          BY <3>1, <4>2 DEF ReconcileWrite
        <5>2. /\ "failed_transient" \in StageStatus \ {"pending"}
              /\ "failed_transient" = "succeeded" => t \in everDone'
          BY DEF StageStatus
        <5>3. QED
          BY <5>1, <5>2, Zenon
      <4>3. QED
        BY <4>1, <4>2
    <3>2. CASE RetryWrite(o) \/ ExhaustWrite(o)
      BY <3>2 DEF RetryWrite, ExhaustWrite, ExhaustedStatus, StageStatus, histVars
    <3>3. QED
      BY <1>4, <3>1, <3>2
  <2>3. \A q \in Operators : operator'[q].pc # "idle" =>
          operator'[q].stage \in Stages /\ status[operator'[q].stage] # "pending"
    BY <1>1, <1>2, <2>1
  <2>4. \A s \in Stages : Begun(s)' => Begun(s)
    <3>1. Begun(t)
      BY <2>1 DEF Begun
    <3>2. ASSUME NEW s \in Stages, s # t PROVE Begun(s)' => Begun(s)
      BY <1>1, <2>2, <3>2 DEF Begun
    <3>3. QED
      BY <3>1, <3>2
  <2>5. /\ \A s \in Stages : status'[s] = "succeeded" =>
             status[s] = "succeeded" \/ s \in everDone'
        /\ \A s \in Stages : status[s] # "pending" => status'[s] # "pending"
    BY <1>1, <2>1, <2>2
  <2>6. QED
    BY <1>1, <1>2, <2>2, <2>3, <2>4, <2>5, DependenciesFrame
<1>5. CASE ApplyFallback(o)
  <2> DEFINE f == FallbackOf[t]
  <2>1. /\ f \in Stages /\ f \in Fallbacks
        /\ status' = [status EXCEPT ![f] = "ready"]
        /\ everDone' = everDone
        /\ operator' = [operator EXCEPT ![o] = IdleOperator]
    BY <1>2, <1>5 DEF ApplyFallback, WellTyped, CallsWellFormed, Fallbacks
  <2>2. \A q \in Operators : operator'[q].pc # "idle" =>
          operator'[q].stage \in Stages /\ status[operator'[q].stage] # "pending"
    BY <1>1, <1>2, <2>1, IdlePcs
  <2>3. \A s \in Stages \ Fallbacks : Begun(s)' => Begun(s)
    BY <1>1, <2>1 DEF Begun
  <2>4. /\ \A s \in Stages : status'[s] = "succeeded" => status[s] = "succeeded"
        /\ \A s \in Stages : status[s] # "pending" => status'[s] # "pending"
    BY <1>1, <2>1
  <2>5. QED
    BY <1>1, <1>2, <2>1, <2>2, <2>3, <2>4, DependenciesFrame
<1>6. CASE OperatorRaises(o)
  <2>1. /\ UNCHANGED <<status, everDone>>
        /\ operator' = [operator EXCEPT ![o] = IdleOperator]
    BY <1>6 DEF OperatorRaises, dbVars, histVars
  <2>2. \A q \in Operators : operator'[q].pc # "idle" =>
          operator'[q].stage \in Stages /\ status[operator'[q].stage] # "pending"
    BY <1>1, <1>2, <2>1, IdlePcs
  <2>3. \A s \in Stages : Begun(s)' => Begun(s)
    BY <1>1, <2>1 DEF Begun
  <2>4. QED
    BY <1>1, <1>2, <2>1, <2>2, <2>3, DependenciesFrame
<1>7. QED
  BY <1>3, <1>4, <1>5, <1>6 DEF OperatorStep

LEMMA DependenciesNext == WellTyped /\ DependenciesHeld /\ [Next]_vars => DependenciesHeld'
<1> SUFFICES ASSUME WellTyped, DependenciesHeld, [Next]_vars PROVE DependenciesHeld'
  OBVIOUS
<1>1. status \in [Stages -> StageStatus]
  BY DEF WellTyped, TypeOK
<1>2. /\ \A v \in Workers : worker[v].pc # "idle" =>
           worker[v].stage \in Stages /\ status[worker[v].stage] # "pending"
      /\ \A p \in Operators : operator[p].pc # "idle" =>
           operator[p].stage \in Stages /\ status[operator[p].stage] # "pending"
  BY DEF WellTyped, CallsWellFormed, DependenciesHeld
<1>3. ASSUME NEW u \in Stages, ComputeReady(u) PROVE DependenciesHeld'
  <2>1. /\ UNCHANGED <<status, attempts, everDone, worker, operator>>
        /\ eligible' = eligible \union {u}
        /\ \A d \in DependsOn[u] : status[d] = "succeeded"
    BY <1>3 DEF ComputeReady, DepsSucceeded, dbVars, histVars
  <2>2. DependsOn[u] \subseteq Stages
    BY StagesAssumption
  <2>3. DependsOn[u] \subseteq everDone
    BY <2>1, <2>2 DEF DependenciesHeld
  <2>4. \A s \in Stages : Begun(s)' => Begun(s) \/ DependsOn[s] \subseteq everDone
    BY <2>1, <2>3 DEF Begun
  <2>5. QED
    BY <1>2, <2>1, <2>4, DependenciesFrame
<1>4. ASSUME NEW u \in Stages, MarkReady(u) PROVE DependenciesHeld'
  <2>1. /\ UNCHANGED <<attempts, everDone, worker, operator>>
        /\ eligible' = eligible \ {u} /\ u \in eligible
        /\ status' = status \/ status' = [status EXCEPT ![u] = "ready"]
    BY <1>4 DEF MarkReady
  <2>2. \A s \in Stages : Begun(s)' => Begun(s)
    <3>1. Begun(u)
      BY <2>1 DEF Begun
    <3>2. ASSUME NEW s \in Stages, s # u PROVE Begun(s)' => Begun(s)
      BY <1>1, <2>1, <3>2 DEF Begun
    <3>3. QED
      BY <3>1, <3>2
  <2>3. /\ \A s \in Stages : status'[s] = "succeeded" => status[s] = "succeeded"
        /\ \A s \in Stages : status[s] # "pending" => status'[s] # "pending"
    BY <1>1, <2>1
  <2>4. QED
    BY <1>2, <2>1, <2>2, <2>3, DependenciesFrame
<1>5. ASSUME NEW z \in Sweepers, SweepMove(z) PROVE DependenciesHeld'
  <2>1. PICK r \in sweep[z].moving :
          status' = [status EXCEPT ![r[1]] =
                       IF @ = "running" THEN "awaiting_reconciliation" ELSE @]
    BY <1>5 DEF SweepMove
  <2>2. UNCHANGED <<attempts, eligible, everDone, worker, operator>>
    BY <1>5 DEF SweepMove, histVars
  <2>3. /\ \A s \in Stages : status'[s] = "succeeded" => status[s] = "succeeded"
        /\ \A s \in Stages : status[s] # "pending" <=> status'[s] # "pending"
    BY <1>1, <2>1
  <2>4. \A s \in Stages : Begun(s)' => Begun(s)
    BY <2>2, <2>3 DEF Begun
  <2>5. QED
    BY <1>2, <2>2, <2>3, <2>4, DependenciesFrame
<1>6. CASE Crash
  <2>1. UNCHANGED <<status, attempts, everDone>> /\ eligible' = {}
    BY <1>6 DEF Crash, dbVars, histVars
  <2>2. /\ \A w \in Workers : worker'[w].pc = "idle"
        /\ \A o \in Operators : operator'[o].pc = "idle"
    BY <1>6, IdlePcs DEF Crash
  <2>3. \A s \in Stages : Begun(s)' => Begun(s)
    BY <2>1 DEF Begun
  <2>4. QED
    BY <2>1, <2>2, <2>3, DependenciesFrame
<1>7. CASE Restart
  <2>1. UNCHANGED <<attempts, eligible, everDone, worker, operator>>
    BY <1>7 DEF Restart, clientVars, histVars
  <2>2. /\ \A s \in Stages : status'[s] = "succeeded" => status[s] = "succeeded"
        /\ \A s \in Stages : status[s] # "pending" <=> status'[s] # "pending"
    BY <1>7 DEF Restart, RecoveredStatus
  <2>3. \A s \in Stages : Begun(s)' => Begun(s)
    BY <2>1, <2>2 DEF Begun
  <2>4. QED
    BY <1>2, <2>1, <2>2, <2>3, DependenciesFrame
<1>8. CASE \/ \E s \in Stages, k \in Claims : LeaseExpires(s, k)
           \/ \E z \in Sweepers : SweepSelect(z) \/ SweepAbandon(z) \/ SweepRaises(z)
           \/ UNCHANGED vars
  <2>1. UNCHANGED <<status, attempts, eligible, everDone, worker, operator>>
    BY <1>8 DEF LeaseExpires, SweepSelect, SweepAbandon, SweepRaises, vars, dbVars,
       clientVars, histVars
  <2>2. \A s \in Stages : Begun(s)' => Begun(s)
    BY <2>1 DEF Begun
  <2>3. QED
    BY <1>2, <2>1, <2>2, DependenciesFrame
<1>9. QED
  BY <1>3, <1>4, <1>5, <1>6, <1>7, <1>8, DependenciesWorker, DependenciesOperator
  DEF Next, SweepStep

LEMMA DependenciesAlways == Spec => [](WellTyped /\ DependenciesHeld)
<1>1. Init => DependenciesHeld
  BY DEF Init, DependenciesHeld, Begun, IdleWorker, IdleOperator
<1>2. QED
  BY <1>1, DependenciesNext, WellTypedAlways, PTL DEF Spec

\* Whatever the dependency graph, and however the reading of the dependencies,
\* mark_ready and the claim interleave with sweeps, retries, reconciliations
\* and crashes, a stage is claimed only after its dependencies have succeeded.
THEOREM RunsAfterAllDependencies == Spec => []RunsAfterDependencies
<1>1. DependenciesHeld => RunsAfterDependencies
  BY DEF DependenciesHeld, RunsAfterDependencies, Begun
<1>2. QED
  BY <1>1, DependenciesAlways, PTL

-----------------------------------------------------------------------------
(* The retry budget *)

\* The operators that have read the count and not yet written 'ready'.
Retriers(s) == {o \in Operators : operator[o].pc = "retry" /\ operator[o].stage = s}

IsReady(s) == IF status[s] = "ready" THEN 1 ELSE 0

\* The claims a stage has had and those that are already bound to be allowed.
BudgetHeld ==
  \A s \in Stages \ Fallbacks :
    /\ status[s] = "pending" => attempts[s] = 0
    /\ attempts[s] + IsReady(s) + Cardinality(Retriers(s))
         <= MaxStageAttempts + Cardinality(Operators) - 1

LEMMA RetriersFinite ==
  ASSUME IsFiniteSet(Operators), NEW s
  PROVE  /\ IsFiniteSet(Retriers(s))
         /\ Cardinality(Retriers(s)) \in Nat
         /\ Cardinality(Operators) \in Nat
         /\ Cardinality(Retriers(s)) <= Cardinality(Operators)
<1>1. Retriers(s) \in SUBSET Operators
  BY DEF Retriers
<1>2. QED
  BY <1>1, FS_Subset, FS_CardinalityType

\* Steps that allow stage s no further claim.
LEMMA BudgetFrame ==
  ASSUME IsFiniteSet(Operators), WellTyped, WellTyped', BudgetHeld,
         NEW s \in Stages \ Fallbacks,
         status'[s] = "pending" => status[s] = "pending" /\ attempts'[s] = attempts[s],
         attempts'[s] + IsReady(s)' <= attempts[s] + IsReady(s),
         Retriers(s)' \subseteq Retriers(s)
  PROVE  /\ status'[s] = "pending" => attempts'[s] = 0
         /\ attempts'[s] + IsReady(s)' + Cardinality(Retriers(s)')
              <= MaxStageAttempts + Cardinality(Operators) - 1
<1>1. /\ attempts[s] \in Nat /\ attempts'[s] \in Nat
      /\ MaxStageAttempts \in Nat
  BY BoundsAssumption DEF WellTyped, TypeOK
<1>2. IsReady(s) \in {0, 1} /\ IsReady(s)' \in {0, 1}
  BY DEF IsReady
<1>3. /\ IsFiniteSet(Retriers(s)) /\ Cardinality(Retriers(s)) \in Nat
      /\ Cardinality(Operators) \in Nat
  BY RetriersFinite
<1>4. /\ Cardinality(Retriers(s)') <= Cardinality(Retriers(s))
      /\ Cardinality(Retriers(s)') \in Nat
  BY <1>3, FS_Subset, FS_CardinalityType
<1>5. attempts[s] + IsReady(s) + Cardinality(Retriers(s))
        <= MaxStageAttempts + Cardinality(Operators) - 1
  BY DEF BudgetHeld
<1>6. status'[s] = "pending" => attempts'[s] = 0
  BY DEF BudgetHeld
<1> HIDE DEF Retriers, IsReady
<1>7. QED
  BY <1>1, <1>2, <1>3, <1>4, <1>5, <1>6

LEMMA BudgetOperator ==
  ASSUME IsFiniteSet(Operators), WellTyped, WellTyped', DependenciesHeld, BudgetHeld,
         NEW o \in Operators, OperatorStep(o), NEW s \in Stages \ Fallbacks
  PROVE  /\ status'[s] = "pending" => attempts'[s] = 0
         /\ attempts'[s] + IsReady(s)' + Cardinality(Retriers(s)')
              <= MaxStageAttempts + Cardinality(Operators) - 1
<1>1. /\ operator \in [Operators -> OperatorState]
      /\ status \in [Stages -> StageStatus]
      /\ attempts \in [Stages -> 0..MaxClaims]
      /\ attempts[s] \in Nat /\ MaxStageAttempts \in Nat
      /\ attempts' = attempts
      /\ \A p \in Operators : operator[p].pc # "idle" =>
           operator[p].stage \in Stages /\ status[operator[p].stage] # "pending"
  BY BoundsAssumption DEF WellTyped, TypeOK, CallsWellFormed, DependenciesHeld,
     OperatorStep, ReconcileProbe, ReconcileWrite, RetrySelect, RetryWrite,
     ExhaustWrite, ApplyFallback, OperatorRaises, dbVars
<1>2. ASSUME NEW u \in Stages, ReconcileProbe(o, u)
      PROVE  /\ status'[s] = "pending" => attempts'[s] = 0
             /\ attempts'[s] + IsReady(s)' + Cardinality(Retriers(s)')
                  <= MaxStageAttempts + Cardinality(Operators) - 1
  <2>1. /\ status' = status
        /\ operator'[o].pc # "retry"
        /\ \A p \in Operators \ {o} : operator'[p] = operator[p]
    BY <1>1, <1>2 DEF ReconcileProbe, dbVars
  <2>2. Retriers(s)' \subseteq Retriers(s)
    BY <2>1 DEF Retriers
  <2>3. IsReady(s)' = IsReady(s) /\ IsReady(s) \in {0, 1}
    BY <2>1 DEF IsReady
  <2>4. attempts'[s] + IsReady(s)' <= attempts[s] + IsReady(s)
    BY <1>1, <2>3
  <2>5. QED
    BY <1>1, <2>1, <2>2, <2>4, BudgetFrame
<1>3. ASSUME NEW u \in Stages, RetrySelect(o, u)
      PROVE  /\ status'[s] = "pending" => attempts'[s] = 0
             /\ attempts'[s] + IsReady(s)' + Cardinality(Retriers(s)')
                  <= MaxStageAttempts + Cardinality(Operators) - 1
  <2>1. /\ status' = status /\ status[u] = "failed_transient"
        /\ operator' = [operator EXCEPT ![o] =
             [pc |-> IF BudgetSpent(u) THEN "exhaust" ELSE "retry", stage |-> u]]
    BY <1>3 DEF RetrySelect, dbVars
  <2>2. CASE s = u /\ ~BudgetSpent(u)
    <3>1. attempts[s] < MaxStageAttempts
      BY <1>1, <2>2 DEF BudgetSpent
    <3>2. IsReady(s)' = 0 /\ status'[s] # "pending"
      BY <2>1, <2>2 DEF IsReady
    <3>3. Retriers(s)' \in SUBSET Operators
      BY DEF Retriers
    <3>4. /\ Cardinality(Retriers(s)') \in Nat /\ Cardinality(Operators) \in Nat
          /\ Cardinality(Retriers(s)') <= Cardinality(Operators)
      BY <3>3, FS_Subset, FS_CardinalityType
    <3>5. QED
      BY <1>1, <3>1, <3>2, <3>4
  <2>3. CASE ~(s = u /\ ~BudgetSpent(u))
    <3>1. Retriers(s)' \subseteq Retriers(s)
      <4>1. ASSUME NEW p \in Operators, operator'[p].pc = "retry", operator'[p].stage = s
            PROVE  operator'[p] = operator[p]
        BY <1>1, <2>1, <2>3, <4>1
      <4>2. QED
        BY <4>1 DEF Retriers
    <3>2. IsReady(s)' = IsReady(s) /\ IsReady(s) \in {0, 1}
      BY <2>1 DEF IsReady
    <3>3. attempts'[s] + IsReady(s)' <= attempts[s] + IsReady(s)
      BY <1>1, <3>2
    <3>4. QED
      BY <1>1, <2>1, <3>1, <3>3, BudgetFrame
  <2>4. QED
    BY <2>2, <2>3
<1>4. CASE RetryWrite(o)
  <2> DEFINE t == operator[o].stage
  <2>1. /\ t \in Stages /\ operator[o].pc = "retry"
        /\ status' = [status EXCEPT ![t] = "ready"]
        /\ operator' = [operator EXCEPT ![o] = IdleOperator]
    BY <1>1, <1>4 DEF RetryWrite
  <2>2. CASE s = t
    <3>1. Retriers(s)' = Retriers(s) \ {o} /\ o \in Retriers(s)
      BY <1>1, <2>1, <2>2, IdlePcs DEF Retriers
    <3>2. /\ IsFiniteSet(Retriers(s)) /\ Cardinality(Retriers(s)) \in Nat
          /\ Cardinality(Operators) \in Nat
      BY RetriersFinite
    <3>3. Cardinality(Retriers(s)') = Cardinality(Retriers(s)) - 1
      BY <3>1, <3>2, FS_RemoveElement
    <3>4. IsReady(s) \in {0, 1} /\ IsReady(s)' \in {0, 1}
      BY DEF IsReady
    <3>5. attempts[s] + IsReady(s) + Cardinality(Retriers(s))
            <= MaxStageAttempts + Cardinality(Operators) - 1
      BY DEF BudgetHeld
    <3>6. status'[s] # "pending"
      BY <1>1, <2>1, <2>2
    <3>7. QED
      BY <1>1, <3>2, <3>3, <3>4, <3>5, <3>6
  <2>3. CASE s # t
    <3>1. Retriers(s)' \subseteq Retriers(s)
      BY <1>1, <2>1, IdlePcs DEF Retriers
    <3>2. status'[s] = status[s]
      BY <1>1, <2>1, <2>3
    <3>3. IsReady(s)' = IsReady(s) /\ IsReady(s) \in {0, 1}
      BY <3>2 DEF IsReady
    <3>4. attempts'[s] + IsReady(s)' <= attempts[s] + IsReady(s)
      BY <1>1, <3>3
    <3>5. QED
      BY <1>1, <3>1, <3>2, <3>4, BudgetFrame
  <2>4. QED
    BY <2>2, <2>3
<1>5. CASE ReconcileWrite(o) \/ ExhaustWrite(o) \/ ApplyFallback(o) \/ OperatorRaises(o)
  <2>1. /\ operator'[o].pc # "retry"
        /\ \A p \in Operators \ {o} : operator'[p] = operator[p]
    BY <1>1, <1>5, IdlePcs
    DEF ReconcileWrite, ExhaustWrite, ApplyFallback, OperatorRaises
  <2>2. Retriers(s)' \subseteq Retriers(s)
    BY <2>1 DEF Retriers
  <2>3. /\ status'[s] = "ready" => status[s] = "ready"
        /\ status'[s] = "pending" => status[s] = "pending"
    <3>1. CASE ReconcileWrite(o) \/ ExhaustWrite(o)
      BY <1>1, <3>1 DEF ReconcileWrite, ExhaustWrite, ExhaustedStatus
    <3>2. CASE ApplyFallback(o)
      <4>1. FallbackOf[operator[o].stage] \in Fallbacks
        BY <1>1, <3>2 DEF ApplyFallback, Fallbacks
      <4>2. QED
        BY <1>1, <3>2, <4>1 DEF ApplyFallback
    <3>3. CASE OperatorRaises(o)
      BY <3>3 DEF OperatorRaises, dbVars
    <3>4. QED
      BY <1>5, <3>1, <3>2, <3>3
  <2>4. IsReady(s)' \in {0, 1} /\ IsReady(s) \in {0, 1} /\ IsReady(s)' <= IsReady(s)
    BY <2>3 DEF IsReady
  <2>5. attempts'[s] + IsReady(s)' <= attempts[s] + IsReady(s)
    BY <1>1, <2>4
  <2>6. QED
    BY <1>1, <2>2, <2>3, <2>5, BudgetFrame
<1>6. QED
  BY <1>2, <1>3, <1>4, <1>5 DEF OperatorStep

LEMMA BudgetNext ==
  ASSUME IsFiniteSet(Operators), Operators # {}
  PROVE  WellTyped /\ DependenciesHeld /\ BudgetHeld /\ [Next]_vars => BudgetHeld'
<1> SUFFICES ASSUME WellTyped, DependenciesHeld, BudgetHeld, [Next]_vars,
                    NEW s \in Stages \ Fallbacks
             PROVE  /\ status'[s] = "pending" => attempts'[s] = 0
                    /\ attempts'[s] + IsReady(s)' + Cardinality(Retriers(s)')
                         <= MaxStageAttempts + Cardinality(Operators) - 1
  BY DEF BudgetHeld
<1>1. /\ WellTyped'
      /\ attempts \in [Stages -> 0..MaxClaims] /\ attempts[s] \in Nat
      /\ status \in [Stages -> StageStatus]
      /\ MaxStageAttempts \in Nat /\ MaxStageAttempts >= 1
  BY WellTypedNext, BoundsAssumption DEF WellTyped, TypeOK
<1>2. ASSUME operator' = operator, attempts' = attempts,
             status'[s] = "ready" => status[s] = "ready",
             status'[s] = "pending" => status[s] = "pending"
      PROVE  /\ status'[s] = "pending" => attempts'[s] = 0
             /\ attempts'[s] + IsReady(s)' + Cardinality(Retriers(s)')
                  <= MaxStageAttempts + Cardinality(Operators) - 1
  <2>1. Retriers(s)' \subseteq Retriers(s)
    BY <1>2 DEF Retriers
  <2>2. IsReady(s)' \in {0, 1} /\ IsReady(s) \in {0, 1} /\ IsReady(s)' <= IsReady(s)
    BY <1>2 DEF IsReady
  <2>3. attempts'[s] + IsReady(s)' <= attempts[s] + IsReady(s)
    BY <1>1, <1>2, <2>2
  <2>4. QED
    BY <1>1, <1>2, <2>1, <2>3, BudgetFrame
<1>3. ASSUME NEW u \in Stages, MarkReady(u), s = u, status[u] = "pending"
      PROVE  /\ status'[s] = "pending" => attempts'[s] = 0
             /\ attempts'[s] + IsReady(s)' + Cardinality(Retriers(s)')
                  <= MaxStageAttempts + Cardinality(Operators) - 1
  <2>1. attempts'[s] = 0 /\ operator' = operator
    BY <1>1, <1>3 DEF MarkReady, BudgetHeld
  <2>2. Retriers(s)' = {}
    BY <1>3, <2>1 DEF Retriers, DependenciesHeld
  <2>3. Cardinality(Retriers(s)') = 0 /\ Cardinality(Operators) \in Nat
        /\ Cardinality(Operators) # 0
    BY <2>2, FS_EmptySet, FS_CardinalityType
  <2>4. IsReady(s)' \in {0, 1}
    BY DEF IsReady
  <2>5. QED
    BY <1>1, <2>1, <2>3, <2>4
<1>4. ASSUME NEW u \in Stages, ComputeReady(u) \/ MarkReady(u),
             ~(MarkReady(u) /\ s = u /\ status[u] = "pending")
      PROVE  /\ status'[s] = "pending" => attempts'[s] = 0
             /\ attempts'[s] + IsReady(s)' + Cardinality(Retriers(s)')
                  <= MaxStageAttempts + Cardinality(Operators) - 1
  <2>1. operator' = operator /\ attempts' = attempts /\ status'[s] = status[s]
    BY <1>1, <1>4 DEF ComputeReady, MarkReady, dbVars
  <2>2. QED
    BY <1>2, <2>1
<1>5. ASSUME NEW w \in Workers, ClaimSwap(w)
      PROVE  /\ status'[s] = "pending" => attempts'[s] = 0
             /\ attempts'[s] + IsReady(s)' + Cardinality(Retriers(s)')
                  <= MaxStageAttempts + Cardinality(Operators) - 1
  <2> DEFINE t == worker[w].stage
  <2>1. /\ t \in Stages /\ status[t] = "ready"
        /\ status' = [status EXCEPT ![t] = "running"]
        /\ attempts' = [attempts EXCEPT ![t] = @ + 1]
        /\ operator' = operator
    BY <1>5 DEF ClaimSwap, Claimable, WellTyped, CallsWellFormed
  <2>2. Retriers(s)' \subseteq Retriers(s)
    BY <2>1 DEF Retriers
  <2>3. CASE s = t
    <3>1. /\ attempts'[s] = attempts[s] + 1 /\ status'[s] = "running"
          /\ status[s] = "ready"
      BY <1>1, <2>1, <2>3
    <3>2. IsReady(s) = 1 /\ IsReady(s)' = 0
      BY <3>1 DEF IsReady
    <3>3. attempts'[s] + IsReady(s)' <= attempts[s] + IsReady(s)
      BY <1>1, <3>1, <3>2
    <3>4. QED
      BY <1>1, <2>2, <3>1, <3>3, BudgetFrame
  <2>4. CASE s # t
    <3>1. attempts'[s] = attempts[s] /\ status'[s] = status[s]
      BY <1>1, <2>1, <2>4
    <3>2. IsReady(s)' = IsReady(s) /\ IsReady(s) \in {0, 1}
      BY <3>1 DEF IsReady
    <3>3. attempts'[s] + IsReady(s)' <= attempts[s] + IsReady(s)
      BY <1>1, <3>1, <3>2
    <3>4. QED
      BY <1>1, <2>2, <3>1, <3>3, BudgetFrame
  <2>5. QED
    BY <2>3, <2>4
<1>6. ASSUME NEW w \in Workers, WorkerStep(w), ~ClaimSwap(w)
      PROVE  /\ status'[s] = "pending" => attempts'[s] = 0
             /\ attempts'[s] + IsReady(s)' + Cardinality(Retriers(s)')
                  <= MaxStageAttempts + Cardinality(Operators) - 1
  <2>1. operator' = operator /\ attempts' = attempts
    BY <1>6 DEF WorkerStep, ClaimSelect, ClaimLost, ClaimInsert, DoWork, WorkerFails,
       CompleteRow, CompleteStage, CompleteInTransaction, CompleteFenced, dbVars
  <2>2. status' = status \/ status' = [status EXCEPT ![worker[w].stage] = "succeeded"]
    BY <1>6 DEF WorkerStep, ClaimSelect, ClaimLost, ClaimInsert, DoWork, WorkerFails,
       CompleteRow, CompleteStage, CompleteInTransaction, CompleteFenced, dbVars
  <2>3. /\ status'[s] = "ready" => status[s] = "ready"
        /\ status'[s] = "pending" => status[s] = "pending"
    BY <1>1, <2>2
  <2>4. QED
    BY <1>2, <2>1, <2>3
<1>7. ASSUME NEW z \in Sweepers, SweepStep(z)
      PROVE  /\ status'[s] = "pending" => attempts'[s] = 0
             /\ attempts'[s] + IsReady(s)' + Cardinality(Retriers(s)')
                  <= MaxStageAttempts + Cardinality(Operators) - 1
  <2>1. operator' = operator /\ attempts' = attempts
    BY <1>7 DEF SweepStep, SweepSelect, SweepAbandon, SweepMove, SweepRaises, dbVars
  <2>2. /\ status'[s] = "ready" => status[s] = "ready"
        /\ status'[s] = "pending" => status[s] = "pending"
    BY <1>1, <1>7 DEF SweepStep, SweepSelect, SweepAbandon, SweepMove, SweepRaises, dbVars
  <2>3. QED
    BY <1>2, <2>1, <2>2
<1>8. CASE Crash
  <2>1. status' = status /\ attempts' = attempts
    BY <1>8 DEF Crash, dbVars
  <2>2. Retriers(s)' \subseteq Retriers(s)
    BY <1>8, IdlePcs DEF Crash, Retriers
  <2>3. IsReady(s)' = IsReady(s) /\ IsReady(s) \in {0, 1}
    BY <2>1 DEF IsReady
  <2>4. attempts'[s] + IsReady(s)' <= attempts[s] + IsReady(s)
    BY <1>1, <2>1, <2>3
  <2>5. QED
    BY <1>1, <2>1, <2>2, <2>4, BudgetFrame
<1>9. CASE \/ \E u \in Stages, k \in Claims : LeaseExpires(u, k)
           \/ Restart \/ UNCHANGED vars
  <2>1. operator' = operator /\ attempts' = attempts
    BY <1>9 DEF LeaseExpires, Restart, vars, dbVars, clientVars
  <2>2. /\ status'[s] = "ready" => status[s] = "ready"
        /\ status'[s] = "pending" => status[s] = "pending"
    BY <1>9 DEF LeaseExpires, Restart, RecoveredStatus, vars, dbVars
  <2>3. QED
    BY <1>2, <2>1, <2>2
<1>10. QED
  BY <1>1, <1>3, <1>4, <1>5, <1>6, <1>7, <1>8, <1>9, BudgetOperator DEF Next

\* Callers of issue_retry_or_exhaust that read the same count overshoot
\* MAX_STAGE_ATTEMPTS by at most one claim for every caller but the first, for
\* any number of callers: with a single one the budget is exact.
THEOREM RetryBudgetKept ==
  ASSUME IsFiniteSet(Operators), Operators # {}
  PROVE  Spec => []RetryBudget
<1>1. Init => BudgetHeld
  <2> SUFFICES ASSUME Init, NEW s \in Stages \ Fallbacks
               PROVE  /\ status[s] = "pending" => attempts[s] = 0
                      /\ attempts[s] + IsReady(s) + Cardinality(Retriers(s))
                           <= MaxStageAttempts + Cardinality(Operators) - 1
    BY DEF BudgetHeld
  <2>1. attempts[s] = 0 /\ IsReady(s) = 0
    BY DEF Init, IsReady
  <2>2. Retriers(s) = {}
    BY IdlePcs DEF Init, Retriers
  <2>3. Cardinality(Retriers(s)) = 0 /\ Cardinality(Operators) \in Nat
    BY <2>2, FS_EmptySet, FS_CardinalityType
  <2>4. MaxStageAttempts \in Nat /\ MaxStageAttempts >= 1
    BY BoundsAssumption
  <2>5. QED
    BY <2>1, <2>3, <2>4
<1>2. WellTyped /\ BudgetHeld => RetryBudget
  <2> SUFFICES ASSUME WellTyped, BudgetHeld, NEW s \in Stages \ Fallbacks
               PROVE  attempts[s] <= MaxStageAttempts + Cardinality(Operators) - 1
    BY DEF RetryBudget
  <2>1. /\ attempts[s] \in Nat /\ IsReady(s) \in {0, 1} /\ MaxStageAttempts \in Nat
    BY BoundsAssumption DEF WellTyped, TypeOK, IsReady
  <2>2. Cardinality(Retriers(s)) \in Nat /\ Cardinality(Operators) \in Nat
    BY RetriersFinite
  <2>3. attempts[s] + IsReady(s) + Cardinality(Retriers(s))
          <= MaxStageAttempts + Cardinality(Operators) - 1
    BY DEF BudgetHeld
  <2>4. QED
    BY <2>1, <2>2, <2>3
<1>3. WellTyped /\ DependenciesHeld /\ BudgetHeld /\ [Next]_vars => BudgetHeld'
  BY BudgetNext
<1>4. QED
  BY <1>1, <1>2, <1>3, DependenciesAlways, PTL DEF Spec
=============================================================================
