------------------------ MODULE LiveScheduler_proofs -------------------------
(***************************************************************************)
(* Proofs about LiveScheduler, for any number of processes and any settings *)
(* of its circumstances.                                                    *)
(*                                                                         *)
(* The first part says what each statement of a tick does, in terms of the *)
(* fields it writes.  The invariants rest on that part alone:              *)
(*   - Solo: in one process nobody else moves a stage between two          *)
(*     statements of the tick (StagesAreExecutedOnce, DecisionsAreFinal);  *)
(*   - FailStops: no tick gets past a recorded FAIL (FailuresBlock);       *)
(*   - RowsApart and ParentsFirst: however many tick, a claim has one      *)
(*     holder, and the sweep takes no row from it (ParentsRunFirst);       *)
(*   - Quiet: a workflow moves only while it runs (ImplementsLifecycle);   *)
(*   - Straight: a branch is pending below classify only in the hands of   *)
(*     the tick that will decide it (BranchesExclude).                     *)
(***************************************************************************)
EXTENDS LiveScheduler, TLAPS

-----------------------------------------------------------------------------
(* The pipeline, its script and its policies *)

Branches == {"proceed_path", "hold_path"}

LEMMA ParentFacts ==
  /\ DOMAIN Parent = {"classify"} \union Branches
  /\ Parent["classify"] = "intake"
  /\ \A c \in Branches : Parent[c] = "classify"
  /\ \A s \in DOMAIN Parent : Parent[s] \in Stages /\ Parent[s] \notin Branches
  BY DEF Parent, Branches, Stages

LEMMA ScriptEntries ==
  /\ Len(Script) = 9
  /\ \A i \in 1..9 : Script[i][1] = "edge" => Script[i][2] \in DOMAIN Parent
  /\ \A i \in 1..9 : Script[i][1] = "cond" => Script[i][2] \in Branches
  /\ \A s \in Stages : \E i \in 1..9 : Script[i] = <<"stage", s>>
  /\ \A s \in DOMAIN Parent : \E i \in 1..9 : Script[i] = <<"edge", s>>
  /\ \A s \in Branches : \E i \in 1..9 : Script[i] = <<"cond", s>>
<1>1. Len(Script) = 9
  BY DEF Script
<1>2. /\ Script[1] = <<"stage", "intake">>
      /\ Script[2] = <<"stage", "classify">>
      /\ Script[3] = <<"edge", "classify">>
      /\ Script[4] = <<"stage", "proceed_path">>
      /\ Script[5] = <<"edge", "proceed_path">>
      /\ Script[6] = <<"cond", "proceed_path">>
      /\ Script[7] = <<"stage", "hold_path">>
      /\ Script[8] = <<"edge", "hold_path">>
      /\ Script[9] = <<"cond", "hold_path">>
  BY DEF Script
<1>3. QED
  BY <1>1, <1>2, ParentFacts DEF Stages, Branches

\* What is on record of the pipeline, while it is seeded and afterwards.
LEMMA OnRecord ==
  ASSUME seeded \in 0..Len(Script)
  PROVE  /\ Inserted \subseteq Stages
         /\ \A s : Executed("edge", s) => s \in DOMAIN Parent
         /\ \A s : Conditional(s) => s \in Branches
         /\ seeded = Len(Script) =>
              /\ Inserted = Stages
              /\ \A s \in DOMAIN Parent : Executed("edge", s)
              /\ \A s \in Branches : Conditional(s)
  BY ScriptEntries DEF Inserted, Executed, Conditional

LEMMA PolicyFacts ==
  /\ Len(Manifest) = 3
  /\ \A i \in 1..3 : Manifest[i] \in Policies
  /\ Policies # {}
  /\ \A p \in Policies : Verdicts(p) \subseteq Outcomes
<1>1. Len(Manifest) = 3
  BY DEF Manifest
<1>2. /\ Manifest[1] = "dependency-secret-scan"
      /\ Manifest[2] = "change-control"
      /\ Manifest[3] = "release-readiness"
  BY DEF Manifest
<1>3. Policies = {"dependency-secret-scan", "change-control", "release-readiness"}
  BY <1>1, <1>2 DEF Policies
<1>4. QED
  BY <1>1, <1>2, <1>3 DEF Verdicts, Outcomes

-----------------------------------------------------------------------------
(* Types, and what a tick knows *)

\* A tick holds a claim that is not completed.
Working == {"won", "work", "worked", "acked"}

\* A tick decides the branches after the stage it has executed.
Branching == {"branch", "judge", "decide"}

AtStage == Working \union Branching

\* A tick past the policies.
Driving == {"compute", "eligible", "claim", "finish"} \union AtStage

Row(t) == <<tick[t].stage, tick[t].claim>>

\* A tick at work on a stage knows its claim, and no other tick has a stage; it
\* decides only branches that depend on that stage.  A process that is down has
\* no tick.
PointedAt(t) ==
  /\ IF tick[t].pc \in AtStage
       THEN tick[t].stage \in Stages /\ tick[t].claim \in 1..setting.claims
       ELSE tick[t].stage = "none"
  /\ tick[t].pc \in {"sweep", "gate", "check", "compute"} => tick[t].found = {}
  /\ tick[t].pc \in {"judge", "decide"} =>
       \A c \in tick[t].kids : c \in DOMAIN Parent /\ Parent[c] = tick[t].stage
  /\ tick[t].pc = "decide" => tick[t].child \in Branches /\ tick[t].stage = "classify"
  /\ ~up => tick[t].pc = "idle"

Pointed == \A t \in Tickers : PointedAt(t)

WellTyped == TypeOK /\ Pointed

LEMMA SettingFacts ==
  ASSUME setting \in Settings
  PROVE  /\ setting.tickers \subseteq Tickers
         /\ setting.seedFirst \in BOOLEAN /\ setting.stalls \in BOOLEAN
         /\ setting.claims \in Nat /\ setting.crashes \in Nat /\ setting.raises \in Nat
         /\ setting.stops \in Nat /\ setting.resumes \in Nat
  BY SchedulerAssumption

\* The records of a tick that has forgotten all it knew.
LEMMA IdleFacts ==
  ASSUME setting \in Settings
  PROVE  /\ Idle \in TickState /\ Idle.pc = "idle" /\ Idle.stage = "none" /\ Idle.found = {}
         /\ \A pc \in TickPc :
              LET r == [Idle EXCEPT !.pc = pc] IN
              r \in TickState /\ r.pc = pc /\ r.stage = "none" /\ r.found = {}
         /\ \A rows \in SUBSET (Stages \X (1..setting.claims)) :
              LET r == [Idle EXCEPT !.pc = "sweep", !.rows = rows] IN
              r \in TickState /\ r.pc = "sweep" /\ r.stage = "none" /\ r.found = {} /\ r.rows = rows
<1>1. 1 \in 1..Len(Manifest) /\ 0 \in 0..setting.claims
  BY PolicyFacts, SettingFacts
<1>2. Idle \in TickState /\ Idle.pc = "idle" /\ Idle.stage = "none" /\ Idle.found = {}
  BY <1>1 DEF Idle, TickState, TickPc
<1>3. QED
  BY <1>2 DEF TickState, TickPc

\* What a step of one tick leaves alone, whichever statement it is.
Local(t) ==
  /\ t \in setting.tickers
  /\ up
  /\ tick' \in [Tickers -> TickState]
  /\ \A u \in Tickers : u # t => tick'[u] = tick[u]
  /\ UNCHANGED <<seeded, seeding, envVars>>

LEMMA Moves ==
  ASSUME TypeOK, NEW t \in Tickers, NEW r \in TickState, tick' = [tick EXCEPT ![t] = r]
  PROVE  /\ tick' \in [Tickers -> TickState]
         /\ tick'[t] = r
         /\ \A u \in Tickers : u # t => tick'[u] = tick[u]
  BY DEF TypeOK

\* A step that writes the position of its tick only.
LEMMA MovesOn ==
  ASSUME TypeOK, NEW t \in Tickers, NEW pc \in TickPc, tick' = [tick EXCEPT ![t].pc = pc]
  PROVE  /\ tick' \in [Tickers -> TickState]
         /\ \A u \in Tickers : u # t => tick'[u] = tick[u]
         /\ tick'[t].pc = pc
         /\ tick'[t].stage = tick[t].stage /\ tick'[t].claim = tick[t].claim
         /\ tick'[t].todo = tick[t].todo /\ tick'[t].found = tick[t].found
         /\ tick'[t].kids = tick[t].kids /\ tick'[t].child = tick[t].child
         /\ tick'[t].failed = tick[t].failed
<1> DEFINE r == [tick[t] EXCEPT !.pc = pc]
<1>1. tick[t] \in TickState
  BY DEF TypeOK
<1>2. /\ r \in TickState /\ r.pc = pc /\ r.stage = tick[t].stage /\ r.claim = tick[t].claim
      /\ r.todo = tick[t].todo /\ r.found = tick[t].found
      /\ r.kids = tick[t].kids /\ r.child = tick[t].child /\ r.failed = tick[t].failed
  BY <1>1 DEF TickState
<1>3. tick' = [tick EXCEPT ![t] = r]
  OBVIOUS
<1> HIDE DEF r
<1>4. QED
  BY <1>2, <1>3, Moves

-----------------------------------------------------------------------------
(* What each statement of a tick does *)

LEMMA TickStartDoes ==
  ASSUME WellTyped, NEW t \in Tickers, TickStart(t)
  PROVE  /\ Local(t)
         /\ tick[t].pc = "idle" /\ tick'[t].pc = "sweep"
         /\ tick'[t].stage = "none" /\ tick'[t].found = {}
         /\ tick'[t].rows \subseteq MayExpire
         /\ UNCHANGED <<wf, status, attempts, outcome, live, checks>>
<1>1. PICK stale \in SUBSET MayExpire :
        tick' = [tick EXCEPT ![t] = [Idle EXCEPT !.pc = "sweep", !.rows = stale]]
  BY DEF TickStart
<1> DEFINE r == [Idle EXCEPT !.pc = "sweep", !.rows = stale]
<1>2. stale \in SUBSET (Stages \X (1..setting.claims))
  BY DEF MayExpire, WellTyped, TypeOK
<1>3. r \in TickState /\ r.pc = "sweep" /\ r.stage = "none" /\ r.found = {} /\ r.rows = stale
  BY <1>2, IdleFacts DEF WellTyped, TypeOK
<1>4. tick' = [tick EXCEPT ![t] = r]
  BY <1>1
<1> HIDE DEF r
<1>5. QED
  BY <1>3, <1>4, Moves DEF TickStart, At, Local, WellTyped

LEMMA SweepAbandonDoes ==
  ASSUME WellTyped, NEW t \in Tickers, SweepAbandon(t)
  PROVE  /\ Local(t)
         /\ tick[t].pc = "sweep" /\ tick'[t].pc = "sweep"
         /\ tick'[t].stage = tick[t].stage /\ tick'[t].found = tick[t].found
         /\ tick'[t].rows \subseteq tick[t].rows
         /\ \E r \in tick[t].rows : live' = live \ {r}
         /\ UNCHANGED <<wf, status, attempts, outcome, checks>>
<1>1. PICK row \in tick[t].rows :
        /\ live' = live \ {row}
        /\ tick' = [tick EXCEPT ![t].rows = @ \ {row}, ![t].moving = {row[1]}]
  BY DEF SweepAbandon
<1> DEFINE r == [tick[t] EXCEPT !.rows = @ \ {row}, !.moving = {row[1]}]
<1>2. tick[t] \in TickState
  BY DEF WellTyped, TypeOK
<1>3. row[1] \in Stages
  BY <1>2 DEF TickState
<1>4. /\ r \in TickState /\ r.pc = tick[t].pc /\ r.stage = tick[t].stage
      /\ r.found = tick[t].found /\ r.rows = tick[t].rows \ {row}
  BY <1>2, <1>3 DEF TickState
<1>5. tick' = [tick EXCEPT ![t] = r]
  BY <1>1
<1> HIDE DEF r
<1>6. QED
  BY <1>1, <1>4, <1>5, Moves DEF SweepAbandon, At, Local, WellTyped

LEMMA SweepMoveDoes ==
  ASSUME WellTyped, NEW t \in Tickers, SweepMove(t)
  PROVE  /\ Local(t)
         /\ tick[t].pc = "sweep" /\ tick'[t].pc = "sweep"
         /\ tick'[t].stage = tick[t].stage /\ tick'[t].found = tick[t].found
         /\ tick'[t].rows = tick[t].rows
         /\ \E s \in Stages : status' = [status EXCEPT ![s] =
              IF status[s] = "running" THEN "awaiting_reconciliation" ELSE status[s]]
         /\ UNCHANGED <<wf, attempts, outcome, live, checks>>
<1>1. tick' = [tick EXCEPT ![t].moving = {}]
  BY DEF SweepMove
<1> DEFINE r == [tick[t] EXCEPT !.moving = {}]
<1>2. tick[t] \in TickState
  BY DEF WellTyped, TypeOK
<1>3. /\ r \in TickState /\ r.pc = tick[t].pc /\ r.stage = tick[t].stage
      /\ r.found = tick[t].found /\ r.rows = tick[t].rows
  BY <1>2 DEF TickState
<1>4. tick' = [tick EXCEPT ![t] = r]
  BY <1>1
<1> HIDE DEF r
<1>5. \E s \in Stages : status' = [status EXCEPT ![s] =
        IF status[s] = "running" THEN "awaiting_reconciliation" ELSE status[s]]
  BY <1>2 DEF SweepMove, TickState
<1>6. QED
  BY <1>3, <1>4, <1>5, Moves DEF SweepMove, At, Local, WellTyped

LEMMA ListRunningDoes ==
  ASSUME WellTyped, NEW t \in Tickers, ListRunning(t)
  PROVE  /\ Local(t)
         /\ tick[t].pc = "sweep"
         /\ tick'[t].pc = IF wf = "running" THEN "gate" ELSE "idle"
         /\ tick'[t].stage = tick[t].stage /\ tick'[t].found = tick[t].found
         /\ UNCHANGED <<wf, status, attempts, outcome, live, checks>>
<1> DEFINE pc == IF wf = "running" THEN "gate" ELSE "idle"
<1>1. pc \in TickPc
  BY DEF TickPc
<1>2. tick' = [tick EXCEPT ![t].pc = pc]
  BY DEF ListRunning
<1> HIDE DEF pc
<1>3. QED
  BY <1>1, <1>2, MovesOn DEF ListRunning, At, Local, WellTyped, pc

\* No policy has been evaluated.
Unchecked == \A p \in Policies : checks[p] = "none"

LEMMA GateDoes ==
  ASSUME WellTyped, NEW t \in Tickers, Gate(t)
  PROVE  /\ Local(t)
         /\ tick[t].pc = "gate"
         /\ tick'[t].pc = IF Unchecked THEN "check" ELSE "compute"
         /\ tick'[t].stage = tick[t].stage /\ tick'[t].found = tick[t].found
         /\ UNCHANGED <<wf, status, attempts, outcome, live, checks>>
<1> DEFINE pc == IF Unchecked THEN "check" ELSE "compute"
<1>1. pc \in TickPc
  BY DEF TickPc
<1>2. tick' = [tick EXCEPT ![t].pc = pc]
  BY DEF Gate, Unchecked
<1> HIDE DEF pc
<1>3. QED
  BY <1>1, <1>2, MovesOn DEF Gate, At, Local, WellTyped, pc

LEMMA EvaluatePolicyDoes ==
  ASSUME WellTyped, NEW t \in Tickers, EvaluatePolicy(t)
  PROVE  /\ Local(t)
         /\ tick[t].pc = "check" /\ tick'[t].pc \in {"check", "block", "compute"}
         /\ tick'[t].pc = "block" => tick'[t].failed
         /\ tick'[t].pc = "compute" => ~tick'[t].failed
         /\ tick'[t].stage = tick[t].stage /\ tick'[t].found = tick[t].found
         /\ \E p \in Policies, verdict \in Outcomes :
              /\ checks' = [checks EXCEPT ![p] =
                              IF checks[p] = "none" THEN verdict ELSE checks[p]]
              /\ tick'[t].failed = (tick[t].failed \/ verdict = "FAIL")
         /\ UNCHANGED <<wf, status, attempts, outcome, live>>
<1> DEFINE i == tick[t].policy
           p == Manifest[i]
<1>1. tick[t] \in TickState
  BY DEF WellTyped, TypeOK
<1>2. i \in 1..3 /\ p \in Policies
  BY <1>1, PolicyFacts DEF TickState
<1>3. PICK verdict \in Verdicts(p) :
        LET failed == AnyOutcomeFails(t, verdict) IN
        /\ checks' = [checks EXCEPT ![p] = IF @ = "none" THEN verdict ELSE @]
        /\ tick' = [tick EXCEPT
             ![t].failed = failed,
             ![t].policy = IF i < Len(Manifest) THEN i + 1 ELSE i,
             ![t].pc = AfterPolicy(i, failed)]
  BY DEF EvaluatePolicy
<1> DEFINE failed == AnyOutcomeFails(t, verdict)
           next == IF i < Len(Manifest) THEN i + 1 ELSE i
           pc == AfterPolicy(i, failed)
           r == [tick[t] EXCEPT !.failed = failed, !.policy = next, !.pc = pc]
<1>4. /\ failed \in BOOLEAN /\ failed = (tick[t].failed \/ verdict = "FAIL")
  BY <1>1 DEF AnyOutcomeFails, TickState
<1>5. tick' = [tick EXCEPT ![t] = r]
  BY <1>3
<1> HIDE DEF failed
<1>6. next \in 1..Len(Manifest)
  BY <1>2, PolicyFacts
<1>7. /\ pc \in {"check", "block", "compute"}
      /\ pc = "block" => failed
      /\ pc = "compute" => ~failed
  BY <1>2, <1>4, PolicyFacts DEF AfterPolicy
<1> HIDE DEF next, pc
<1>8. /\ r \in TickState /\ r.pc = pc /\ r.failed = failed
      /\ r.stage = tick[t].stage /\ r.found = tick[t].found
  BY <1>1, <1>4, <1>6, <1>7 DEF TickState, TickPc
<1> HIDE DEF r
<1>9. tick'[t] = r /\ Local(t)
  BY <1>5, <1>8, Moves DEF EvaluatePolicy, At, Local, WellTyped
<1>10. verdict \in Outcomes
  BY <1>2, PolicyFacts
<1> HIDE DEF p
<1>11. /\ checks' = [checks EXCEPT ![p] = IF checks[p] = "none" THEN verdict ELSE checks[p]]
  BY <1>3
<1>12. tick[t].pc = "check" /\ UNCHANGED <<wf, status, attempts, outcome, live>>
  BY DEF EvaluatePolicy, At
<1>13. QED
  BY <1>2, <1>4, <1>7, <1>8, <1>9, <1>10, <1>11, <1>12

LEMMA BlockDoes ==
  ASSUME WellTyped, NEW t \in Tickers, Block(t)
  PROVE  /\ Local(t)
         /\ tick[t].pc = "block" /\ tick'[t].pc = "idle"
         /\ tick'[t].stage = "none" /\ tick'[t].found = {}
         /\ wf' = "safe_stopped"
         /\ UNCHANGED <<status, attempts, outcome, live, checks>>
<1>1. tick' = [tick EXCEPT ![t] = Idle]
  BY DEF Block
<1>2. Idle \in TickState /\ Idle.pc = "idle" /\ Idle.stage = "none" /\ Idle.found = {}
  BY IdleFacts DEF WellTyped, TypeOK
<1>3. QED
  BY <1>1, <1>2, Moves DEF Block, At, Local, WellTyped

LEMMA SelectPendingDoes ==
  ASSUME WellTyped, NEW t \in Tickers, SelectPending(t)
  PROVE  /\ Local(t)
         /\ tick[t].pc = "compute" /\ tick'[t].pc = "eligible"
         /\ tick'[t].stage = tick[t].stage
         /\ tick'[t].todo = InStatus({"pending"}) /\ tick'[t].found = tick[t].found
         /\ UNCHANGED <<wf, status, attempts, outcome, live, checks>>
<1> DEFINE todo == InStatus({"pending"})
           r == [tick[t] EXCEPT !.pc = "eligible", !.todo = todo]
<1>1. tick[t] \in TickState
  BY DEF WellTyped, TypeOK
<1>2. todo \subseteq Stages
  BY OnRecord DEF InStatus, WellTyped, TypeOK
<1>3. tick' = [tick EXCEPT ![t] = r]
  BY DEF SelectPending
<1> HIDE DEF todo
<1>4. /\ r \in TickState /\ r.pc = "eligible" /\ r.stage = tick[t].stage
      /\ r.todo = todo /\ r.found = tick[t].found
  BY <1>1, <1>2 DEF TickState, TickPc
<1> HIDE DEF r
<1>5. tick'[t] = r /\ Local(t)
  BY <1>3, <1>4, Moves DEF SelectPending, At, Local, WellTyped
<1>6. QED
  BY <1>4, <1>5 DEF SelectPending, At, todo

LEMMA CheckEligibleDoes ==
  ASSUME WellTyped, NEW t \in Tickers, CheckEligible(t)
  PROVE  /\ Local(t)
         /\ tick[t].pc = "eligible" /\ tick'[t].pc = "eligible"
         /\ tick'[t].stage = tick[t].stage
         /\ \E s \in tick[t].todo :
              /\ tick'[t].todo = tick[t].todo \ {s}
              /\ tick'[t].found = IF ParentSucceeded(s) THEN tick[t].found \union {s}
                                                        ELSE tick[t].found
         /\ UNCHANGED <<wf, status, attempts, outcome, live, checks>>
<1>1. PICK s \in tick[t].todo :
        tick' = [tick EXCEPT
          ![t].todo = @ \ {s},
          ![t].found = IF ParentSucceeded(s) THEN @ \union {s} ELSE @]
  BY DEF CheckEligible
<1> DEFINE todo == tick[t].todo \ {s}
           found == IF ParentSucceeded(s) THEN tick[t].found \union {s} ELSE tick[t].found
           r == [tick[t] EXCEPT !.todo = todo, !.found = found]
<1>2. tick[t] \in TickState
  BY DEF WellTyped, TypeOK
<1>3. todo \subseteq Stages /\ found \subseteq Stages
  BY <1>2 DEF TickState
<1>4. tick' = [tick EXCEPT ![t] = r]
  BY <1>1
<1> HIDE DEF todo, found
<1>5. /\ r \in TickState /\ r.pc = tick[t].pc /\ r.stage = tick[t].stage
      /\ r.todo = todo /\ r.found = found
  BY <1>2, <1>3 DEF TickState
<1> HIDE DEF r
<1>6. tick'[t] = r /\ Local(t)
  BY <1>4, <1>5, Moves DEF CheckEligible, At, Local, WellTyped
<1>7. QED
  BY <1>5, <1>6 DEF CheckEligible, At, todo, found

LEMMA MarkReadyDoes ==
  ASSUME WellTyped, NEW t \in Tickers, MarkReady(t)
  PROVE  /\ Local(t)
         /\ tick[t].pc = "eligible" /\ tick'[t].pc = "eligible"
         /\ tick'[t].stage = tick[t].stage
         /\ tick[t].todo = {} /\ tick'[t].todo = {}
         /\ \E s \in tick[t].found :
              /\ tick'[t].found = tick[t].found \ {s}
              /\ s \in Stages
              /\ status' = [status EXCEPT ![s] =
                              IF status[s] = "pending" THEN "ready" ELSE status[s]]
         /\ UNCHANGED <<wf, attempts, outcome, live, checks>>
<1>1. PICK s \in tick[t].found :
        /\ status' = [status EXCEPT ![s] = IF @ = "pending" THEN "ready" ELSE @]
        /\ tick' = [tick EXCEPT ![t].found = @ \ {s}]
  BY DEF MarkReady
<1> DEFINE r == [tick[t] EXCEPT !.found = @ \ {s}]
<1>2. tick[t] \in TickState
  BY DEF WellTyped, TypeOK
<1>3. /\ r \in TickState /\ r.pc = tick[t].pc /\ r.stage = tick[t].stage
      /\ r.todo = tick[t].todo /\ r.found = tick[t].found \ {s} /\ s \in Stages
  BY <1>2 DEF TickState
<1>4. tick' = [tick EXCEPT ![t] = r]
  BY <1>1
<1> HIDE DEF r
<1>5. tick'[t] = r /\ Local(t)
  BY <1>3, <1>4, Moves DEF MarkReady, At, Local, WellTyped
<1>6. QED
  BY <1>1, <1>3, <1>5 DEF MarkReady, At

LEMMA SelectReadyDoes ==
  ASSUME WellTyped, NEW t \in Tickers, SelectReady(t)
  PROVE  /\ Local(t)
         /\ tick[t].pc = "eligible" /\ tick'[t].pc = "claim"
         /\ tick'[t].stage = tick[t].stage
         /\ UNCHANGED <<wf, status, attempts, outcome, live, checks>>
<1> DEFINE todo == ReadyStages
           r == [tick[t] EXCEPT !.pc = "claim", !.todo = todo]
<1>1. tick[t] \in TickState
  BY DEF WellTyped, TypeOK
<1>2. todo \subseteq Stages
  BY OnRecord DEF ReadyStages, InStatus, WellTyped, TypeOK
<1>3. tick' = [tick EXCEPT ![t] = r]
  BY DEF SelectReady
<1> HIDE DEF todo
<1>4. r \in TickState /\ r.pc = "claim" /\ r.stage = tick[t].stage
  BY <1>1, <1>2 DEF TickState, TickPc
<1> HIDE DEF r
<1>5. QED
  BY <1>3, <1>4, Moves DEF SelectReady, At, Local, WellTyped

\* Either the compare-and-swap finds the stage ready, or it leaves it to others.
LEMMA ClaimDoes ==
  ASSUME WellTyped, NEW t \in Tickers, Claim(t)
  PROVE  /\ Local(t)
         /\ tick[t].pc = "claim"
         /\ \/ \E s \in Stages :
                 /\ status[s] = "ready" /\ attempts[s] + 1 \in 1..setting.claims
                 /\ status' = [status EXCEPT ![s] = "running"]
                 /\ attempts' = [attempts EXCEPT ![s] = attempts[s] + 1]
                 /\ tick'[t].pc = "won"
                 /\ tick'[t].stage = s /\ tick'[t].claim = attempts[s] + 1
            \/ /\ tick'[t].pc = "claim" /\ tick'[t].stage = tick[t].stage
               /\ UNCHANGED <<status, attempts>>
         /\ UNCHANGED <<wf, outcome, live, checks>>
<1>1. tick[t] \in TickState /\ TypeOK
  BY DEF WellTyped, TypeOK
<1>2. PICK s \in tick[t].todo :
       \/ /\ status[s] = "ready"
          /\ attempts[s] < setting.claims
          /\ status' = [status EXCEPT ![s] = "running"]
          /\ attempts' = [attempts EXCEPT ![s] = @ + 1]
          /\ tick' = [tick EXCEPT ![t].pc = "won", ![t].todo = @ \ {s},
                                  ![t].stage = s, ![t].claim = attempts[s] + 1]
       \/ /\ status[s] # "ready"
          /\ tick' = [tick EXCEPT ![t].todo = @ \ {s}]
          /\ UNCHANGED <<status, attempts>>
  BY DEF Claim
<1>3. s \in Stages
  BY <1>1 DEF TickState
<1>4. tick[t].pc = "claim" /\ UNCHANGED <<wf, outcome, live, checks>>
  BY DEF Claim, At
<1>5. CASE status[s] = "ready"
  <2> DEFINE k == attempts[s] + 1
             r == [tick[t] EXCEPT !.pc = "won", !.todo = @ \ {s}, !.stage = s, !.claim = k]
  <2>1. k \in 1..setting.claims /\ k \in 0..setting.claims
    BY <1>1, <1>2, <1>3, <1>5, SettingFacts DEF TypeOK
  <2>2. tick' = [tick EXCEPT ![t] = r]
    BY <1>2, <1>5
  <2> HIDE DEF k
  <2>3. r \in TickState /\ r.pc = "won" /\ r.stage = s /\ r.claim = k
    BY <1>1, <1>3, <2>1 DEF TickState, TickPc
  <2> HIDE DEF r
  <2>4. tick'[t] = r /\ Local(t)
    BY <1>1, <2>2, <2>3, Moves DEF Claim, At, Local
  <2>5. /\ attempts[s] + 1 \in 1..setting.claims
        /\ tick'[t].claim = attempts[s] + 1
        /\ attempts' = [attempts EXCEPT ![s] = attempts[s] + 1]
        /\ status' = [status EXCEPT ![s] = "running"]
    BY <1>2, <1>5, <2>1, <2>3, <2>4 DEF k
  <2>6. QED
    BY <1>3, <1>4, <1>5, <2>3, <2>4, <2>5
<1>6. CASE status[s] # "ready"
  <2> DEFINE r == [tick[t] EXCEPT !.todo = @ \ {s}]
  <2>1. r \in TickState /\ r.pc = tick[t].pc /\ r.stage = tick[t].stage
    BY <1>1 DEF TickState
  <2>2. tick' = [tick EXCEPT ![t] = r] /\ UNCHANGED <<status, attempts>>
    BY <1>2, <1>6
  <2> HIDE DEF r
  <2>3. tick'[t] = r /\ Local(t)
    BY <1>1, <2>1, <2>2, Moves DEF Claim, At, Local
  <2>4. QED
    BY <1>4, <2>1, <2>2, <2>3
<1>7. QED
  BY <1>5, <1>6

LEMMA InsertRowDoes ==
  ASSUME WellTyped, NEW t \in Tickers, InsertRow(t)
  PROVE  /\ Local(t)
         /\ tick[t].pc = "won" /\ tick'[t].pc = "work"
         /\ tick'[t].stage = tick[t].stage /\ tick'[t].claim = tick[t].claim
         /\ live' = live \union {Row(t)}
         /\ UNCHANGED <<wf, status, attempts, outcome, checks>>
<1>1. tick' = [tick EXCEPT ![t].pc = "work"] /\ "work" \in TickPc
  BY DEF InsertRow, TickPc
<1>2. QED
  BY <1>1, MovesOn DEF InsertRow, At, Local, WellTyped, Row

LEMMA ExecuteDoes ==
  ASSUME WellTyped, NEW t \in Tickers, Execute(t)
  PROVE  /\ Local(t)
         /\ tick[t].pc = "work" /\ tick'[t].pc = "worked"
         /\ tick'[t].stage = tick[t].stage /\ tick'[t].claim = tick[t].claim
         /\ outcome' = IF tick[t].stage = "classify" THEN "proceed" ELSE outcome
         /\ UNCHANGED <<wf, status, attempts, live, checks>>
<1>1. tick' = [tick EXCEPT ![t].pc = "worked"] /\ "worked" \in TickPc
  BY DEF Execute, TickPc
<1>2. QED
  BY <1>1, MovesOn DEF Execute, At, Local, WellTyped

LEMMA CompleteRowDoes ==
  ASSUME WellTyped, NEW t \in Tickers, CompleteRow(t)
  PROVE  /\ Local(t)
         /\ tick[t].pc = "worked"
         /\ tick'[t].pc = IF Row(t) \in live THEN "acked" ELSE "branch"
         /\ tick'[t].stage = tick[t].stage /\ tick'[t].claim = tick[t].claim
         /\ live' = live \ {Row(t)}
         /\ UNCHANGED <<wf, status, attempts, outcome, checks>>
<1> DEFINE pc == IF Row(t) \in live THEN "acked" ELSE "branch"
<1>1. pc \in TickPc
  BY DEF TickPc
<1>2. tick' = [tick EXCEPT ![t].pc = pc]
  BY DEF CompleteRow, Row
<1> HIDE DEF pc
<1>3. QED
  BY <1>1, <1>2, MovesOn DEF CompleteRow, At, Local, WellTyped, Row, pc

LEMMA CompleteStageDoes ==
  ASSUME WellTyped, NEW t \in Tickers, CompleteStage(t)
  PROVE  /\ Local(t)
         /\ tick[t].pc = "acked" /\ tick'[t].pc = "branch"
         /\ tick'[t].stage = tick[t].stage /\ tick'[t].claim = tick[t].claim
         /\ status' = [status EXCEPT ![tick[t].stage] = "succeeded"]
         /\ UNCHANGED <<wf, attempts, outcome, live, checks>>
<1>1. tick' = [tick EXCEPT ![t].pc = "branch"] /\ "branch" \in TickPc
  BY DEF CompleteStage, TickPc
<1>2. QED
  BY <1>1, MovesOn DEF CompleteStage, At, Local, WellTyped

LEMMA SelectDependentsDoes ==
  ASSUME WellTyped, NEW t \in Tickers, SelectDependents(t)
  PROVE  /\ Local(t)
         /\ tick[t].pc = "branch" /\ tick'[t].pc = "judge"
         /\ tick'[t].stage = tick[t].stage /\ tick'[t].claim = tick[t].claim
         /\ tick'[t].kids = {s \in DOMAIN Parent :
                               Executed("edge", s) /\ Parent[s] = tick[t].stage}
         /\ UNCHANGED <<wf, status, attempts, outcome, live, checks>>
<1> DEFINE kids == {s \in DOMAIN Parent : Executed("edge", s) /\ Parent[s] = tick[t].stage}
           r == [tick[t] EXCEPT !.pc = "judge", !.kids = kids]
<1>1. tick[t] \in TickState
  BY DEF WellTyped, TypeOK
<1>2. kids \subseteq Stages
  BY ParentFacts DEF Stages, Branches
<1>3. tick' = [tick EXCEPT ![t] = r]
  BY DEF SelectDependents
<1> HIDE DEF kids
<1>4. /\ r \in TickState /\ r.pc = "judge" /\ r.kids = kids
      /\ r.stage = tick[t].stage /\ r.claim = tick[t].claim
  BY <1>1, <1>2 DEF TickState, TickPc
<1> HIDE DEF r
<1>5. tick'[t] = r /\ Local(t)
  BY <1>3, <1>4, Moves DEF SelectDependents, At, Local, WellTyped
<1>6. QED
  BY <1>4, <1>5 DEF SelectDependents, At, kids

\* A dependent that is pending and conditional is taken in hand, others are left.
LEMMA ReadChildDoes ==
  ASSUME WellTyped, NEW t \in Tickers, ReadChild(t)
  PROVE  /\ Local(t)
         /\ tick[t].pc = "judge"
         /\ tick'[t].stage = tick[t].stage /\ tick'[t].claim = tick[t].claim
         /\ \E c \in tick[t].kids :
              /\ tick'[t].kids = tick[t].kids \ {c}
              /\ \/ tick'[t].pc = "decide" /\ tick'[t].child = c /\ Undecided(c)
                 \/ tick'[t].pc = "judge" /\ ~Undecided(c)
         /\ UNCHANGED <<wf, status, attempts, outcome, live, checks>>
<1>1. PICK c \in tick[t].kids :
        tick' = [tick EXCEPT ![t].kids = @ \ {c},
                             ![t].pc = IF Undecided(c) THEN "decide" ELSE @,
                             ![t].child = IF Undecided(c) THEN c ELSE @]
  BY DEF ReadChild
<1> DEFINE pc == IF Undecided(c) THEN "decide" ELSE tick[t].pc
           child == IF Undecided(c) THEN c ELSE tick[t].child
           r == [tick[t] EXCEPT !.kids = @ \ {c}, !.pc = pc, !.child = child]
<1>2. tick[t] \in TickState
  BY DEF WellTyped, TypeOK
<1>3. pc \in TickPc /\ child \in Stages \union {"none"}
  BY <1>2 DEF TickState, TickPc
<1>4. tick' = [tick EXCEPT ![t] = r]
  BY <1>1
<1> HIDE DEF pc, child
<1>5. /\ r \in TickState /\ r.pc = pc /\ r.child = child /\ r.kids = tick[t].kids \ {c}
      /\ r.stage = tick[t].stage /\ r.claim = tick[t].claim
  BY <1>2, <1>3 DEF TickState
<1> HIDE DEF r
<1>6. tick'[t] = r /\ Local(t)
  BY <1>4, <1>5, Moves DEF ReadChild, At, Local, WellTyped
<1>7. tick[t].pc = "judge" /\ UNCHANGED <<wf, status, attempts, outcome, live, checks>>
  BY DEF ReadChild, At
<1>8. QED
  BY <1>5, <1>6, <1>7 DEF pc, child

LEMMA DecideChildDoes ==
  ASSUME WellTyped, NEW t \in Tickers, DecideChild(t)
  PROVE  /\ Local(t)
         /\ tick[t].pc = "decide" /\ tick'[t].pc = "judge"
         /\ tick'[t].stage = tick[t].stage /\ tick'[t].claim = tick[t].claim
         /\ tick'[t].kids = tick[t].kids
         /\ tick[t].child \in Branches /\ tick[t].child \in Stages
         /\ status' = [status EXCEPT ![tick[t].child] = BranchStatus(tick[t].child)]
         /\ UNCHANGED <<wf, attempts, outcome, live, checks>>
<1> DEFINE r == [tick[t] EXCEPT !.pc = "judge", !.child = "none"]
<1>1. tick[t] \in TickState
  BY DEF WellTyped, TypeOK
<1>2. /\ r \in TickState /\ r.pc = "judge" /\ r.kids = tick[t].kids
      /\ r.stage = tick[t].stage /\ r.claim = tick[t].claim
  BY <1>1 DEF TickState, TickPc
<1>3. tick' = [tick EXCEPT ![t] = r]
  BY DEF DecideChild
<1> HIDE DEF r
<1>4. tick'[t] = r /\ Local(t)
  BY <1>2, <1>3, Moves DEF DecideChild, At, Local, WellTyped
<1>5. tick[t].child \in Branches /\ tick[t].child \in Stages
  BY DEF DecideChild, At, WellTyped, Pointed, PointedAt, Branches, Stages
<1>6. QED
  BY <1>2, <1>4, <1>5 DEF DecideChild, At

LEMMA NextStageDoes ==
  ASSUME WellTyped, NEW t \in Tickers, NextStage(t)
  PROVE  /\ Local(t)
         /\ tick[t].pc = "judge" /\ tick'[t].pc = "claim" /\ tick'[t].stage = "none"
         /\ tick[t].kids = {}
         /\ UNCHANGED <<wf, status, attempts, outcome, live, checks>>
<1> DEFINE r == [tick[t] EXCEPT !.pc = "claim", !.stage = "none", !.claim = 0]
<1>1. tick[t] \in TickState /\ 0 \in 0..setting.claims
  BY SettingFacts DEF WellTyped, TypeOK
<1>2. r \in TickState /\ r.pc = "claim" /\ r.stage = "none"
  BY <1>1 DEF TickState, TickPc
<1>3. tick' = [tick EXCEPT ![t] = r]
  BY DEF NextStage
<1> HIDE DEF r
<1>4. QED
  BY <1>2, <1>3, Moves DEF NextStage, At, Local, WellTyped

LEMMA CountUnfinishedDoes ==
  ASSUME WellTyped, NEW t \in Tickers, CountUnfinished(t)
  PROVE  /\ Local(t)
         /\ tick[t].pc = "claim"
         /\ tick'[t].pc = IF InStatus(Unfinished) = {} THEN "finish" ELSE "idle"
         /\ tick'[t].stage = "none"
         /\ UNCHANGED <<wf, status, attempts, outcome, live, checks>>
<1> DEFINE pc == IF InStatus(Unfinished) = {} THEN "finish" ELSE "idle"
           r == [Idle EXCEPT !.pc = pc]
<1>1. pc \in TickPc
  BY DEF TickPc
<1>2. tick' = [tick EXCEPT ![t] = r]
  BY DEF CountUnfinished
<1> HIDE DEF pc
<1>3. r \in TickState /\ r.pc = pc /\ r.stage = "none"
  BY <1>1, IdleFacts DEF WellTyped, TypeOK
<1> HIDE DEF r
<1>4. tick'[t] = r /\ Local(t)
  BY <1>2, <1>3, Moves DEF CountUnfinished, At, Local, WellTyped
<1>5. QED
  BY <1>3, <1>4 DEF CountUnfinished, At, pc

LEMMA FinishDoes ==
  ASSUME WellTyped, NEW t \in Tickers, Finish(t)
  PROVE  /\ Local(t)
         /\ tick[t].pc = "finish" /\ tick'[t].pc = "idle"
         /\ tick'[t].stage = "none"
         /\ wf' = IF wf = "running" THEN "completed" ELSE wf
         /\ UNCHANGED <<status, attempts, outcome, live, checks>>
<1>1. tick' = [tick EXCEPT ![t] = Idle]
  BY DEF Finish
<1>2. Idle \in TickState /\ Idle.pc = "idle" /\ Idle.stage = "none"
  BY IdleFacts DEF WellTyped, TypeOK
<1>3. QED
  BY <1>1, <1>2, Moves DEF Finish, At, Local, WellTyped

LEMMA TickRaisesDoes ==
  ASSUME WellTyped, NEW t \in Tickers, TickRaises(t)
  PROVE  /\ t \in setting.tickers /\ up
         /\ tick' \in [Tickers -> TickState]
         /\ \A u \in Tickers : u # t => tick'[u] = tick[u]
         /\ tick'[t].pc = "dead" /\ tick'[t].stage = "none"
         /\ faults' = [faults EXCEPT !.raises = faults.raises + 1]
         /\ faults.raises < setting.raises
         /\ UNCHANGED <<wf, seeded, seeding, status, attempts, outcome, live, checks,
                        up, setting>>
<1>1. tick' = [tick EXCEPT ![t] = [Idle EXCEPT !.pc = "dead"]] /\ "dead" \in TickPc
  BY DEF TickRaises, TickPc
<1> DEFINE r == [Idle EXCEPT !.pc = "dead"]
<1>2. r \in TickState /\ r.pc = "dead" /\ r.stage = "none"
  BY <1>1, IdleFacts DEF WellTyped, TypeOK
<1> HIDE DEF r
<1>3. tick' = [tick EXCEPT ![t] = r]
  BY <1>1 DEF r
<1>4. QED
  BY <1>2, <1>3, Moves DEF TickRaises, WellTyped

-----------------------------------------------------------------------------
(* The types are kept *)

LEMMA WellTypedInit == Init => WellTyped
<1> SUFFICES ASSUME Init PROVE WellTyped
  OBVIOUS
<1>1. setting \in Settings
  BY DEF Init
<1>2. tick \in [Tickers -> TickState]
  BY <1>1, IdleFacts DEF Init
<1>3. seeded \in 0..Len(Script)
  BY ScriptEntries DEF Init
<1>4. seeding \in BOOLEAN
  BY <1>1, SettingFacts DEF Init
<1>5. /\ attempts \in [Stages -> 0..setting.claims]
      /\ faults \in [crashes : 0..setting.crashes, raises : 0..setting.raises,
                     stops : 0..setting.stops, resumes : 0..setting.resumes]
  BY <1>1, SettingFacts DEF Init
<1>6. TypeOK
  BY <1>1, <1>2, <1>3, <1>4, <1>5 DEF Init, TypeOK, StageStatus
<1>7. Pointed
  BY <1>1, IdleFacts DEF Init, Pointed, PointedAt, AtStage, Working, Branching
<1>8. QED
  BY <1>6, <1>7 DEF WellTyped

\* A step of one tick keeps the types if what it writes has its type.
LEMMA LocalTypes ==
  ASSUME WellTyped, NEW t \in Tickers, Local(t),
         wf' \in {"running", "safe_stopped", "completed"},
         status' \in [Stages -> StageStatus],
         attempts' \in [Stages -> 0..setting.claims],
         outcome' \in {"none", "proceed"},
         live' \in SUBSET (Stages \X (1..setting.claims)),
         checks' \in [Policies -> Outcomes \union {"none"}],
         PointedAt(t)'
  PROVE  WellTyped'
<1>1. TickState' = TickState
  BY DEF TickState, Local, envVars
<1>2. TypeOK'
  BY <1>1 DEF WellTyped, TypeOK, Local, envVars
<1>3. ASSUME NEW u \in Tickers PROVE PointedAt(u)'
  <2>1. CASE u = t
    BY <2>1
  <2>2. CASE u # t
    BY <2>2 DEF WellTyped, Pointed, PointedAt, Local, envVars
  <2>3. QED
    BY <2>1, <2>2
<1>4. QED
  BY <1>2, <1>3 DEF WellTyped, Pointed

\* The steps of a tick that write no table, or none of what is typed here.
LEMMA TickKeepsTypes ==
  ASSUME WellTyped, NEW t \in Tickers, TickStep(t) PROVE WellTyped'
<1> USE DEF AtStage, Working, Branching
<1>1. TypeOK /\ PointedAt(t)
  BY DEF WellTyped, Pointed
<1>2. ASSUME Local(t), UNCHANGED <<wf, status, attempts, outcome, live, checks>>, PointedAt(t)'
      PROVE  WellTyped'
  BY <1>1, <1>2, LocalTypes DEF TypeOK
<1>3. CASE TickStart(t)
  BY <1>2, <1>3, TickStartDoes DEF PointedAt, Local, envVars
<1>4. CASE SweepAbandon(t)
  <2>1. live' \in SUBSET (Stages \X (1..setting.claims))
    BY <1>1, <1>4, SweepAbandonDoes DEF TypeOK
  <2>2. PointedAt(t)'
    BY <1>1, <1>4, SweepAbandonDoes DEF PointedAt, Local, envVars
  <2>3. QED
    BY <1>1, <1>4, <2>1, <2>2, SweepAbandonDoes, LocalTypes DEF TypeOK
<1>5. CASE SweepMove(t)
  <2>1. status' \in [Stages -> StageStatus]
    BY <1>1, <1>5, SweepMoveDoes DEF TypeOK, StageStatus
  <2>2. PointedAt(t)'
    BY <1>1, <1>5, SweepMoveDoes DEF PointedAt, Local, envVars
  <2>3. QED
    BY <1>1, <1>5, <2>1, <2>2, SweepMoveDoes, LocalTypes DEF TypeOK
<1>6. CASE ListRunning(t)
  BY <1>1, <1>2, <1>6, ListRunningDoes DEF PointedAt, Local, envVars
<1>7. CASE Gate(t)
  BY <1>1, <1>2, <1>7, GateDoes DEF PointedAt, Local, envVars
<1>8. CASE EvaluatePolicy(t)
  <2>1. checks' \in [Policies -> Outcomes \union {"none"}]
    BY <1>1, <1>8, EvaluatePolicyDoes DEF TypeOK
  <2>2. PointedAt(t)'
    BY <1>1, <1>8, EvaluatePolicyDoes DEF PointedAt, Local, envVars
  <2>3. QED
    BY <1>1, <1>8, <2>1, <2>2, EvaluatePolicyDoes, LocalTypes DEF TypeOK
<1>9. CASE Block(t)
  <2>1. PointedAt(t)'
    BY <1>9, BlockDoes DEF PointedAt, Local, envVars
  <2>2. QED
    BY <1>1, <1>9, <2>1, BlockDoes, LocalTypes DEF TypeOK
<1>10. CASE SelectPending(t)
  BY <1>1, <1>2, <1>10, SelectPendingDoes DEF PointedAt, Local, envVars
<1>11. CASE CheckEligible(t)
  BY <1>1, <1>2, <1>11, CheckEligibleDoes DEF PointedAt, Local, envVars
<1>12. CASE MarkReady(t)
  <2>1. status' \in [Stages -> StageStatus]
    BY <1>1, <1>12, MarkReadyDoes DEF TypeOK, StageStatus
  <2>2. PointedAt(t)'
    BY <1>1, <1>12, MarkReadyDoes DEF PointedAt, Local, envVars
  <2>3. QED
    BY <1>1, <1>12, <2>1, <2>2, MarkReadyDoes, LocalTypes DEF TypeOK
<1>13. CASE SelectReady(t)
  BY <1>1, <1>2, <1>13, SelectReadyDoes DEF PointedAt, Local, envVars
<1>14. CASE Claim(t)
  <2>1. status' \in [Stages -> StageStatus] /\ attempts' \in [Stages -> 0..setting.claims]
    <3>1. CASE UNCHANGED <<status, attempts>>
      BY <1>1, <3>1 DEF TypeOK
    <3>2. CASE \E s \in Stages :
                 /\ attempts[s] + 1 \in 1..setting.claims
                 /\ status' = [status EXCEPT ![s] = "running"]
                 /\ attempts' = [attempts EXCEPT ![s] = attempts[s] + 1]
      <4>1. PICK s \in Stages :
                 /\ attempts[s] + 1 \in 1..setting.claims
                 /\ status' = [status EXCEPT ![s] = "running"]
                 /\ attempts' = [attempts EXCEPT ![s] = attempts[s] + 1]
        BY <3>2
      <4>2. attempts[s] + 1 \in 0..setting.claims
        BY <1>1, <4>1, SettingFacts DEF TypeOK
      <4>3. QED
        BY <1>1, <4>1, <4>2 DEF TypeOK, StageStatus
    <3>3. QED
      BY <1>14, <3>1, <3>2, ClaimDoes
  <2>2. PointedAt(t)'
    BY <1>1, <1>14, ClaimDoes DEF PointedAt, Local, envVars
  <2>3. QED
    BY <1>1, <1>14, <2>1, <2>2, ClaimDoes, LocalTypes DEF TypeOK
<1>15. CASE InsertRow(t)
  <2>1. Row(t) \in Stages \X (1..setting.claims)
    BY <1>1, <1>15, InsertRowDoes DEF PointedAt, Row
  <2>2. live' \in SUBSET (Stages \X (1..setting.claims))
    BY <1>1, <1>15, <2>1, InsertRowDoes DEF TypeOK
  <2>3. PointedAt(t)'
    BY <1>1, <1>15, InsertRowDoes DEF PointedAt, Local, envVars
  <2>4. QED
    BY <1>1, <1>15, <2>2, <2>3, InsertRowDoes, LocalTypes DEF TypeOK
<1>16. CASE Execute(t)
  <2>1. PointedAt(t)'
    BY <1>1, <1>16, ExecuteDoes DEF PointedAt, Local, envVars
  <2>2. QED
    BY <1>1, <1>16, <2>1, ExecuteDoes, LocalTypes DEF TypeOK
<1>17. CASE CompleteRow(t)
  <2>1. live' \in SUBSET (Stages \X (1..setting.claims))
    BY <1>1, <1>17, CompleteRowDoes DEF TypeOK
  <2>2. PointedAt(t)'
    BY <1>1, <1>17, CompleteRowDoes DEF PointedAt, Local, envVars
  <2>3. QED
    BY <1>1, <1>17, <2>1, <2>2, CompleteRowDoes, LocalTypes DEF TypeOK
<1>18. CASE CompleteStage(t)
  <2>1. status' \in [Stages -> StageStatus]
    BY <1>1, <1>18, CompleteStageDoes DEF TypeOK, StageStatus
  <2>2. PointedAt(t)'
    BY <1>1, <1>18, CompleteStageDoes DEF PointedAt, Local, envVars
  <2>3. QED
    BY <1>1, <1>18, <2>1, <2>2, CompleteStageDoes, LocalTypes DEF TypeOK
<1>19. CASE SelectDependents(t)
  BY <1>1, <1>2, <1>19, SelectDependentsDoes DEF PointedAt, Local, envVars
<1>20. CASE ReadChild(t)
  <2>1. PICK c \in tick[t].kids :
          /\ tick'[t].kids = tick[t].kids \ {c}
          /\ \/ tick'[t].pc = "decide" /\ tick'[t].child = c /\ Undecided(c)
             \/ tick'[t].pc = "judge" /\ ~Undecided(c)
    BY <1>20, ReadChildDoes
  <2>2. Undecided(c) => c \in Branches /\ tick[t].stage = "classify"
    BY <1>1, <1>20, ReadChildDoes, OnRecord, ParentFacts DEF PointedAt, Undecided, TypeOK
  <2>3. PointedAt(t)'
    BY <1>1, <1>20, <2>1, <2>2, ReadChildDoes DEF PointedAt, Local, envVars
  <2>4. QED
    BY <1>2, <1>20, <2>3, ReadChildDoes
<1>21. CASE DecideChild(t)
  <2>1. status' \in [Stages -> StageStatus]
    BY <1>1, <1>21, DecideChildDoes DEF TypeOK, StageStatus, BranchStatus
  <2>2. PointedAt(t)'
    BY <1>1, <1>21, DecideChildDoes DEF PointedAt, Local, envVars
  <2>3. QED
    BY <1>1, <1>21, <2>1, <2>2, DecideChildDoes, LocalTypes DEF TypeOK
<1>22. CASE NextStage(t)
  BY <1>1, <1>2, <1>22, NextStageDoes DEF PointedAt, Local, envVars
<1>23. CASE CountUnfinished(t)
  BY <1>1, <1>2, <1>23, CountUnfinishedDoes DEF PointedAt, Local, envVars
<1>24. CASE Finish(t)
  <2>1. PointedAt(t)'
    BY <1>1, <1>24, FinishDoes DEF PointedAt, Local, envVars
  <2>2. QED
    BY <1>1, <1>24, <2>1, FinishDoes, LocalTypes DEF TypeOK
<1>25. QED
  BY <1>3, <1>4, <1>5, <1>6, <1>7, <1>8, <1>9, <1>10, <1>11, <1>12, <1>13, <1>14, <1>15,
     <1>16, <1>17, <1>18, <1>19, <1>20, <1>21, <1>22, <1>23, <1>24 DEF TickStep

LEMMA WellTypedNext == WellTyped /\ [Next]_vars => WellTyped'
<1> SUFFICES ASSUME WellTyped, [Next]_vars PROVE WellTyped'
  OBVIOUS
<1>1. TypeOK /\ setting \in Settings
  BY DEF WellTyped, TypeOK
<1>2. CASE Seed
  <2>1. seeded' \in 0..Len(Script) /\ seeding' \in BOOLEAN
    BY <1>1, <1>2, ScriptEntries DEF Seed, TypeOK
  <2>2. TickState' = TickState
    BY <1>2 DEF Seed, TickState, envVars
  <2>3. QED
    BY <1>2, <2>1, <2>2 DEF Seed, WellTyped, TypeOK, Pointed, PointedAt, envVars
<1>3. ASSUME NEW t \in Tickers, TickStep(t) PROVE WellTyped'
  BY <1>3, TickKeepsTypes
<1>4. ASSUME NEW t \in Tickers, TickRaises(t) PROVE WellTyped'
  <2>1. faults' \in [crashes : 0..setting.crashes, raises : 0..setting.raises,
                     stops : 0..setting.stops, resumes : 0..setting.resumes]
    <3>1. faults.raises + 1 \in 0..setting.raises
      BY <1>1, <1>4, TickRaisesDoes, SettingFacts DEF TypeOK
    <3>2. QED
      BY <1>1, <1>4, <3>1, TickRaisesDoes DEF TypeOK
  <2>2. TickState' = TickState
    BY <1>4 DEF TickRaises, TickState
  <2>3. TypeOK'
    BY <1>1, <1>4, <2>1, <2>2, TickRaisesDoes DEF TypeOK
  <2>4. Pointed'
    BY <1>4, TickRaisesDoes DEF WellTyped, Pointed, PointedAt, AtStage, Working, Branching
  <2>5. QED
    BY <2>3, <2>4 DEF WellTyped
<1>5. CASE SafeStop \/ Resume
  <2>1. faults' \in [crashes : 0..setting.crashes, raises : 0..setting.raises,
                     stops : 0..setting.stops, resumes : 0..setting.resumes]
    <3>1. CASE SafeStop
      <4>1. faults.stops + 1 \in 0..setting.stops
        BY <1>1, <3>1, SettingFacts DEF SafeStop, TypeOK
      <4>2. QED
        BY <1>1, <3>1, <4>1 DEF SafeStop, TypeOK
    <3>2. CASE Resume
      <4>1. faults.resumes + 1 \in 0..setting.resumes
        BY <1>1, <3>2, SettingFacts DEF Resume, TypeOK
      <4>2. QED
        BY <1>1, <3>2, <4>1 DEF Resume, TypeOK
    <3>3. QED
      BY <1>5, <3>1, <3>2
  <2>2. TickState' = TickState
    BY <1>5 DEF SafeStop, Resume, TickState
  <2>3. TypeOK'
    BY <1>1, <1>5, <2>1, <2>2 DEF SafeStop, Resume, TypeOK
  <2>4. Pointed'
    BY <1>5 DEF SafeStop, Resume, WellTyped, Pointed, PointedAt
  <2>5. QED
    BY <2>3, <2>4 DEF WellTyped
<1>6. CASE Crash
  <2>1. faults' \in [crashes : 0..setting.crashes, raises : 0..setting.raises,
                     stops : 0..setting.stops, resumes : 0..setting.resumes]
    <3>1. faults.crashes + 1 \in 0..setting.crashes
      BY <1>1, <1>6, SettingFacts DEF Crash, TypeOK
    <3>2. QED
      BY <1>1, <1>6, <3>1 DEF Crash, TypeOK
  <2>2. TickState' = TickState
    BY <1>6 DEF Crash, TickState
  <2>3. TypeOK'
    BY <1>1, <1>6, <2>1, <2>2, IdleFacts DEF Crash, TypeOK
  <2>4. Pointed'
    BY <1>1, <1>6, IdleFacts DEF Crash, Pointed, PointedAt, AtStage, Working, Branching
  <2>5. QED
    BY <2>3, <2>4 DEF WellTyped
<1>7. CASE Restart
  <2>1. status' \in [Stages -> StageStatus]
    BY <1>1, <1>7 DEF Restart, RecoveredStatus, TypeOK, StageStatus
  <2>2. TickState' = TickState
    BY <1>7 DEF Restart, TickState
  <2>3. TypeOK'
    BY <1>1, <1>7, <2>1, <2>2 DEF Restart, TypeOK
  <2>4. Pointed'
    BY <1>7 DEF Restart, WellTyped, Pointed, PointedAt
  <2>5. QED
    BY <2>3, <2>4 DEF WellTyped
<1>8. CASE UNCHANGED vars
  <2>1. TickState' = TickState
    BY <1>8 DEF vars, envVars, TickState
  <2>2. QED
    BY <1>8, <2>1 DEF vars, envVars, WellTyped, TypeOK, Pointed, PointedAt
<1>9. QED
  BY <1>2, <1>3, <1>4, <1>5, <1>6, <1>7, <1>8 DEF Next

\* The variables keep their types, whatever the circumstances.
THEOREM TypeCorrect == Spec => []TypeOK
<1>1. WellTyped => TypeOK
  BY DEF WellTyped
<1>2. QED
  BY <1>1, WellTypedInit, WellTypedNext, PTL DEF Spec

-----------------------------------------------------------------------------
(* One process: nobody else moves a stage between two statements of its tick *)

Begun == {"running", "succeeded", "failed_transient"}

\* No stage is claimed twice, since one that was claimed is neither pending nor
\* ready again; at most one is running, the one the tick is at, or that the tick
\* was at when it raised or the process crashed.
OnceEach ==
  \A s \in Stages :
    /\ attempts[s] \in {0, 1}
    /\ attempts[s] = 1 => status[s] \in Begun
    /\ status[s] # "awaiting_reconciliation"
    /\ \A r \in Stages : status[s] = "running" /\ status[r] = "running" => r = s

\* What a tick has read is still so when it is written.
SoloAt(t) ==
  /\ OnceEach
  /\ \A s \in Stages : status[s] = "running" =>
       \/ tick[t].pc \in Working /\ tick[t].stage = s
       \/ tick[t].pc = "dead"
       \/ ~up
  /\ tick[t].pc \in Working => status[tick[t].stage] = "running"
  /\ tick[t].pc \in {"work", "worked"} => Row(t) \in live
  /\ tick[t].pc = "decide" => status[tick[t].child] = "pending"
  /\ tick[t].pc = "eligible" =>
       \A s \in tick[t].todo \union tick[t].found : status[s] = "pending"

Solo == \A t \in Tickers : setting.tickers = {t} => SoloAt(t)

LEMMA SoloInit == Init => Solo
<1> SUFFICES ASSUME Init, NEW t \in Tickers PROVE SoloAt(t)
  BY DEF Solo
<1>1. tick[t].pc = "idle"
  BY IdleFacts DEF Init
<1>2. OnceEach /\ \A s \in Stages : status[s] = "pending"
  BY DEF Init, OnceEach
<1>3. QED
  BY <1>1, <1>2 DEF SoloAt, Working

\* A step of the tick that moves no stage.
LEMMA SoloStill ==
  ASSUME WellTyped, NEW t \in Tickers, SoloAt(t), Local(t), UNCHANGED <<status, attempts>>,
         tick'[t].pc \in Working <=> tick[t].pc \in Working,
         tick'[t].pc \in Working => tick'[t].stage = tick[t].stage,
         tick[t].pc # "dead",
         tick'[t].pc \in {"work", "worked"} => Row(t)' \in live',
         tick'[t].pc = "decide" => status[tick'[t].child] = "pending",
         tick'[t].pc = "eligible" =>
           \A s \in tick'[t].todo \union tick'[t].found : status[s] = "pending"
  PROVE  SoloAt(t)'
  BY DEF SoloAt, OnceEach, Local, envVars

LEMMA SoloTick ==
  ASSUME WellTyped, Solo, NEW t \in Tickers, setting.tickers = {t}, TickStep(t)
  PROVE  SoloAt(t)'
<1>1. TypeOK /\ PointedAt(t) /\ SoloAt(t)
  BY DEF WellTyped, Pointed, Solo
<1> USE DEF Working
<1>2. CASE TickStart(t)
  BY <1>1, <1>2, TickStartDoes, SoloStill
<1>3. CASE SweepAbandon(t)
  BY <1>1, <1>3, SweepAbandonDoes, SoloStill
<1>4. CASE SweepMove(t)
  <2>1. UNCHANGED <<status, attempts>>
    <3>1. \A s \in Stages : status[s] # "running"
      BY <1>1, <1>4, SweepMoveDoes DEF SoloAt, Local
    <3>2. QED
      BY <1>1, <1>4, <3>1, SweepMoveDoes DEF TypeOK
  <2>2. QED
    BY <1>1, <1>4, <2>1, SweepMoveDoes, SoloStill
<1>5. CASE ListRunning(t)
  BY <1>1, <1>5, ListRunningDoes, SoloStill
<1>6. CASE Gate(t)
  BY <1>1, <1>6, GateDoes, SoloStill
<1>7. CASE EvaluatePolicy(t)
  <2>1. Local(t) /\ UNCHANGED <<status, attempts>> /\ tick[t].pc = "check"
        /\ tick'[t].pc \in {"check", "block", "compute"}
    BY <1>7, EvaluatePolicyDoes
  <2>2. QED
    BY <1>1, <2>1, SoloStill
<1>8. CASE Block(t)
  BY <1>1, <1>8, BlockDoes, SoloStill
<1>9. CASE SelectPending(t)
  <2>1. \A s \in tick'[t].todo \union tick'[t].found : status[s] = "pending"
    BY <1>1, <1>9, SelectPendingDoes DEF PointedAt, InStatus
  <2>2. QED
    BY <1>1, <1>9, <2>1, SelectPendingDoes, SoloStill
<1>10. CASE CheckEligible(t)
  <2>1. tick'[t].todo \union tick'[t].found \subseteq tick[t].todo \union tick[t].found
    BY <1>10, CheckEligibleDoes
  <2>2. Local(t) /\ UNCHANGED <<status, attempts>>
        /\ tick[t].pc = "eligible" /\ tick'[t].pc = "eligible"
    BY <1>10, CheckEligibleDoes
  <2>3. \A s \in tick'[t].todo \union tick'[t].found : status[s] = "pending"
    BY <1>1, <2>1, <2>2 DEF SoloAt
  <2>4. QED
    BY <1>1, <2>2, <2>3, SoloStill
<1>11. CASE MarkReady(t)
  <2>1. PICK s \in tick[t].found :
          /\ tick'[t].found = tick[t].found \ {s}
          /\ s \in Stages
          /\ status' = [status EXCEPT ![s] =
                          IF status[s] = "pending" THEN "ready" ELSE status[s]]
    BY <1>11, MarkReadyDoes
  <2>2. /\ tick[t].pc = "eligible" /\ tick'[t].pc = "eligible" /\ tick'[t].todo = {}
        /\ UNCHANGED <<attempts, envVars>>
    BY <1>11, MarkReadyDoes DEF Local
  <2>3. status[s] = "pending" /\ attempts[s] = 0
    BY <1>1, <2>1, <2>2 DEF SoloAt, OnceEach, Begun
  <2>4. \A r \in Stages : status'[r] = IF r = s THEN "ready" ELSE status[r]
    BY <1>1, <2>1, <2>3 DEF TypeOK
  <2>5. OnceEach'
    BY <1>1, <2>2, <2>3, <2>4 DEF SoloAt, OnceEach
  <2>6. QED
    BY <1>1, <2>1, <2>2, <2>4, <2>5 DEF SoloAt, envVars, TypeOK, TickState
<1>12. CASE SelectReady(t)
  BY <1>1, <1>12, SelectReadyDoes, SoloStill
<1>13. CASE Claim(t)
  <2>1. tick[t].pc = "claim" /\ Local(t)
    BY <1>13, ClaimDoes
  <2>2. CASE tick'[t].pc = "claim" /\ UNCHANGED <<status, attempts>>
    BY <1>1, <2>1, <2>2, SoloStill
  <2>3. ASSUME NEW s \in Stages,
               status[s] = "ready",
               status' = [status EXCEPT ![s] = "running"],
               attempts' = [attempts EXCEPT ![s] = attempts[s] + 1],
               tick'[t].pc = "won", tick'[t].stage = s
        PROVE  SoloAt(t)'
    <3>1. attempts[s] = 0 /\ \A r \in Stages : status[r] # "running"
      BY <1>1, <2>1, <2>3 DEF SoloAt, OnceEach, Begun, Local
    <3>2. /\ \A r \in Stages : status'[r] = IF r = s THEN "running" ELSE status[r]
          /\ \A r \in Stages : attempts'[r] = IF r = s THEN 1 ELSE attempts[r]
      BY <1>1, <2>3, <3>1 DEF TypeOK
    <3>3. OnceEach'
      BY <1>1, <3>1, <3>2 DEF SoloAt, OnceEach, Begun
    <3>4. QED
      BY <2>1, <2>3, <3>1, <3>2, <3>3 DEF SoloAt
  <2>4. QED
    BY <1>13, <2>2, <2>3, ClaimDoes
<1>14. CASE InsertRow(t)
  BY <1>1, <1>14, InsertRowDoes, SoloStill DEF Row
<1>15. CASE Execute(t)
  BY <1>1, <1>15, ExecuteDoes, SoloStill DEF Row, SoloAt
<1>16. CASE CompleteRow(t)
  <2>1. tick'[t].pc = "acked"
    BY <1>1, <1>16, CompleteRowDoes DEF SoloAt
  <2>2. QED
    BY <1>1, <1>16, <2>1, CompleteRowDoes, SoloStill
<1>17. CASE CompleteStage(t)
  <2> DEFINE s == tick[t].stage
  <2>1. /\ tick[t].pc = "acked" /\ tick'[t].pc = "branch"
        /\ status' = [status EXCEPT ![s] = "succeeded"]
        /\ UNCHANGED attempts
    BY <1>17, CompleteStageDoes
  <2>2. s \in Stages /\ status[s] = "running"
    BY <1>1, <2>1 DEF SoloAt, PointedAt, AtStage
  <2> HIDE DEF s
  <2>3. \A r \in Stages : status'[r] = IF r = s THEN "succeeded" ELSE status[r]
    BY <1>1, <2>1, <2>2 DEF TypeOK
  <2>4. OnceEach' /\ \A r \in Stages : status'[r] # "running"
    BY <1>1, <2>1, <2>2, <2>3 DEF SoloAt, OnceEach, Begun
  <2>5. QED
    BY <2>1, <2>4 DEF SoloAt
<1>18. CASE SelectDependents(t)
  BY <1>1, <1>18, SelectDependentsDoes, SoloStill
<1>19. CASE ReadChild(t)
  <2>1. \/ tick'[t].pc = "decide" /\ status[tick'[t].child] = "pending"
        \/ tick'[t].pc = "judge"
    BY <1>19, ReadChildDoes DEF Undecided
  <2>2. Local(t) /\ UNCHANGED <<status, attempts>> /\ tick[t].pc = "judge"
    BY <1>19, ReadChildDoes
  <2>3. QED
    BY <1>1, <2>1, <2>2, SoloStill
<1>20. CASE DecideChild(t)
  <2> DEFINE c == tick[t].child
             new == BranchStatus(c)
  <2>1. /\ tick[t].pc = "decide" /\ tick'[t].pc = "judge" /\ c \in Stages
        /\ status' = [status EXCEPT ![c] = new] /\ UNCHANGED attempts
        /\ new \in {"ready", "skipped"} /\ UNCHANGED envVars
    BY <1>20, DecideChildDoes DEF BranchStatus, Local
  <2>2. status[c] = "pending" /\ attempts[c] = 0
    BY <1>1, <2>1 DEF SoloAt, OnceEach, Begun
  <2> HIDE DEF c, new
  <2>3. \A r \in Stages : status'[r] = IF r = c THEN new ELSE status[r]
    BY <1>1, <2>1 DEF TypeOK
  <2>4. OnceEach'
    BY <1>1, <2>1, <2>2, <2>3 DEF SoloAt, OnceEach
  <2>5. QED
    BY <1>1, <2>1, <2>3, <2>4 DEF SoloAt, envVars
<1>21. CASE NextStage(t)
  BY <1>1, <1>21, NextStageDoes, SoloStill
<1>22. CASE CountUnfinished(t)
  BY <1>1, <1>22, CountUnfinishedDoes, SoloStill
<1>23. CASE Finish(t)
  BY <1>1, <1>23, FinishDoes, SoloStill
<1>24. QED
  BY <1>2, <1>3, <1>4, <1>5, <1>6, <1>7, <1>8, <1>9, <1>10, <1>11, <1>12, <1>13, <1>14,
     <1>15, <1>16, <1>17, <1>18, <1>19, <1>20, <1>21, <1>22, <1>23 DEF TickStep

LEMMA SettingStays == [Next]_vars => UNCHANGED setting
<1> SUFFICES ASSUME [Next]_vars PROVE UNCHANGED setting
  OBVIOUS
<1>1. ASSUME NEW t \in Tickers, TickStep(t) PROVE UNCHANGED setting
  BY <1>1 DEF TickStep, TickStart, SweepAbandon, SweepMove, ListRunning, Gate,
     EvaluatePolicy, Block, SelectPending, CheckEligible, MarkReady, SelectReady, Claim,
     InsertRow, Execute, CompleteRow, CompleteStage, SelectDependents, ReadChild,
     DecideChild, NextStage, CountUnfinished, Finish, envVars
<1>2. QED
  BY <1>1 DEF Next, Seed, TickRaises, SafeStop, Resume, Crash, Restart, vars, envVars

\* A step of some tick is a step of the only one.
LEMMA OnlyTick ==
  ASSUME WellTyped, NEW t \in Tickers, setting.tickers = {t}, NEW u \in Tickers,
         TickStep(u) \/ TickRaises(u)
  PROVE  u = t
<1>1. u \in setting.tickers
  BY DEF TickStep, TickStart, SweepAbandon, SweepMove, ListRunning, Gate,
     EvaluatePolicy, Block, SelectPending, CheckEligible, MarkReady, SelectReady, Claim,
     InsertRow, Execute, CompleteRow, CompleteStage, SelectDependents, ReadChild,
     DecideChild, NextStage, CountUnfinished, Finish, TickRaises, At
<1>2. QED
  BY <1>1

LEMMA SoloNext == WellTyped /\ Solo /\ [Next]_vars => Solo'
<1> SUFFICES ASSUME WellTyped, Solo, [Next]_vars,
                    NEW t \in Tickers, setting'.tickers = {t}
             PROVE  SoloAt(t)'
  BY DEF Solo
<1>1. setting.tickers = {t} /\ SoloAt(t) /\ TypeOK /\ UNCHANGED setting
  BY SettingStays DEF Solo, WellTyped
<1>2. ASSUME NEW u \in Tickers, TickStep(u) PROVE SoloAt(t)'
  BY <1>1, <1>2, OnlyTick, SoloTick
<1>3. ASSUME NEW u \in Tickers, TickRaises(u) PROVE SoloAt(t)'
  <2>1. u = t
    BY <1>1, <1>3, OnlyTick
  <2>2. tick'[t].pc = "dead" /\ UNCHANGED <<status, attempts>>
    BY <1>3, <2>1, TickRaisesDoes
  <2>3. QED
    BY <1>1, <2>2 DEF SoloAt, OnceEach, Working
<1>4. CASE Seed \/ SafeStop \/ Resume \/ UNCHANGED vars
  <2>1. UNCHANGED <<status, attempts, live, tick, up>>
    BY <1>4 DEF Seed, SafeStop, Resume, vars, envVars
  <2>2. QED
    BY <1>1, <2>1 DEF SoloAt, OnceEach, Row
<1>5. CASE Crash
  <2>1. ~up' /\ tick'[t].pc = "idle" /\ UNCHANGED <<status, attempts>>
    BY <1>1, <1>5, IdleFacts DEF Crash, TypeOK
  <2>2. QED
    BY <1>1, <2>1 DEF SoloAt, OnceEach, Working
<1>6. CASE Restart
  <2>1. tick[t].pc = "idle" /\ tick'[t].pc = "idle" /\ UNCHANGED attempts
    BY <1>6 DEF Restart, WellTyped, Pointed, PointedAt
  <2>2. \A s \in Stages : status'[s] = IF status[s] = "running" THEN "failed_transient"
                                                                ELSE status[s]
    BY <1>6 DEF Restart, RecoveredStatus
  <2>3. OnceEach' /\ \A s \in Stages : status'[s] # "running"
    BY <1>1, <2>1, <2>2 DEF SoloAt, OnceEach, Begun
  <2>4. QED
    BY <2>1, <2>3 DEF SoloAt, Working
<1>7. QED
  BY <1>2, <1>3, <1>4, <1>5, <1>6 DEF Next

\* _drive_workflow promises "no duplicate work": in one process no stage is executed
\* twice, wherever crashes and exceptions interrupt its ticks or the seeding, however
\* often the workflow is stopped and resumed, and though a tick may be held up for
\* longer than a lease.
THEOREM StagesAreExecutedOnce == Spec => []ExecutedOnce
<1>1. WellTyped /\ Solo => ExecutedOnce
  <2> SUFFICES ASSUME WellTyped, Solo, OneProcess, NEW s \in Stages PROVE attempts[s] <= 1
    BY DEF ExecutedOnce
  <2>1. attempts[s] \in {0, 1}
    BY DEF OneProcess, Solo, SoloAt, OnceEach
  <2>2. QED
    BY <2>1
<1>2. QED
  BY <1>1, WellTypedInit, WellTypedNext, SoloInit, SoloNext, PTL DEF Spec

-----------------------------------------------------------------------------
(* DecisionIsFinal *)

\* The life of a stage in one process.
LifeSteps ==
  {<<"pending", "ready">>, <<"pending", "skipped">>, <<"ready", "running">>,
   <<"running", "succeeded">>, <<"running", "failed_transient">>}

\* A step moves one stage at most, by one step of its life, and leaves the workflow
\* alone then.
StageMoves(t) ==
  \/ UNCHANGED status
  \/ /\ UNCHANGED wf
     /\ \E s \in Stages, new \in StageStatus :
          /\ <<status[s], new>> \in LifeSteps
          /\ status' = [status EXCEPT ![s] = new]
          /\ tick[t].pc \in Driving \/ status[s] = "running"

LEMMA SoloTickMoves ==
  ASSUME WellTyped, NEW t \in Tickers, SoloAt(t), TickStep(t)
  PROVE  StageMoves(t)
<1>1. TypeOK /\ PointedAt(t)
  BY DEF WellTyped, Pointed
<1>2. CASE \/ TickStart(t) \/ SweepAbandon(t) \/ ListRunning(t) \/ Gate(t)
           \/ EvaluatePolicy(t) \/ Block(t) \/ SelectPending(t) \/ CheckEligible(t)
           \/ SelectReady(t) \/ InsertRow(t) \/ Execute(t) \/ CompleteRow(t)
           \/ SelectDependents(t) \/ ReadChild(t) \/ NextStage(t) \/ CountUnfinished(t)
           \/ Finish(t)
  BY <1>2 DEF TickStart, SweepAbandon, ListRunning, Gate, EvaluatePolicy, Block,
     SelectPending, CheckEligible, SelectReady, InsertRow, Execute, CompleteRow,
     SelectDependents, ReadChild, NextStage, CountUnfinished, Finish, StageMoves
<1>3. CASE SweepMove(t)
  <2>1. \A s \in Stages : status[s] # "running"
    BY <1>3, SweepMoveDoes DEF SoloAt, Local, Working
  <2>2. QED
    BY <1>1, <1>3, <2>1, SweepMoveDoes DEF TypeOK, StageMoves
<1>4. CASE MarkReady(t)
  <2>1. PICK s \in tick[t].found :
          /\ s \in Stages
          /\ status' = [status EXCEPT ![s] =
                          IF status[s] = "pending" THEN "ready" ELSE status[s]]
    BY <1>4, MarkReadyDoes
  <2>2. tick[t].pc = "eligible" /\ UNCHANGED wf
    BY <1>4, MarkReadyDoes
  <2>3. status[s] = "pending"
    BY <2>1, <2>2 DEF SoloAt
  <2>4. QED
    BY <2>1, <2>2, <2>3 DEF StageMoves, LifeSteps, StageStatus, Driving
<1>5. CASE Claim(t)
  BY <1>5, ClaimDoes DEF StageMoves, LifeSteps, StageStatus, Driving
<1>6. CASE CompleteStage(t)
  <2>1. tick[t].pc = "acked" /\ UNCHANGED wf
        /\ status' = [status EXCEPT ![tick[t].stage] = "succeeded"]
    BY <1>6, CompleteStageDoes
  <2>2. tick[t].stage \in Stages /\ status[tick[t].stage] = "running"
    BY <1>1, <2>1 DEF SoloAt, PointedAt, AtStage, Working
  <2>3. QED
    BY <2>1, <2>2 DEF StageMoves, LifeSteps, StageStatus
<1>7. CASE DecideChild(t)
  <2> DEFINE c == tick[t].child
             new == BranchStatus(c)
  <2>1. /\ tick[t].pc = "decide" /\ UNCHANGED wf /\ c \in Stages
        /\ status' = [status EXCEPT ![c] = new]
        /\ new \in {"ready", "skipped"}
    BY <1>7, DecideChildDoes DEF BranchStatus
  <2>2. status[c] = "pending"
    BY <2>1 DEF SoloAt
  <2> HIDE DEF c, new
  <2>3. QED
    BY <2>1, <2>2 DEF StageMoves, LifeSteps, StageStatus, Driving, AtStage, Branching
<1>8. QED
  BY <1>2, <1>3, <1>4, <1>5, <1>6, <1>7 DEF TickStep

LEMMA SoloMoves ==
  ASSUME WellTyped, Solo, [Next]_vars, NEW t \in Tickers, setting.tickers = {t}
  PROVE  StageMoves(t)
<1>1. SoloAt(t) /\ TypeOK
  BY DEF Solo, WellTyped
<1>2. ASSUME NEW u \in Tickers, TickStep(u) PROVE StageMoves(t)
  BY <1>1, <1>2, OnlyTick, SoloTickMoves
<1>3. ASSUME \/ Seed \/ SafeStop \/ Resume \/ Crash \/ UNCHANGED vars
             \/ \E u \in Tickers : TickRaises(u)
      PROVE  StageMoves(t)
  BY <1>3 DEF Seed, SafeStop, Resume, Crash, TickRaises, vars, StageMoves
<1>4. CASE Restart
  <2>1. /\ status' = [s \in Stages |-> IF status[s] = "running" THEN "failed_transient"
                                                               ELSE status[s]]
        /\ UNCHANGED wf
    BY <1>4 DEF Restart, RecoveredStatus
  <2>2. CASE \A s \in Stages : status[s] # "running"
    <3>1. status' = status
      BY <1>1, <2>1, <2>2 DEF TypeOK
    <3>2. QED
      BY <3>1 DEF StageMoves
  <2>3. ASSUME NEW s \in Stages, status[s] = "running" PROVE StageMoves(t)
    <3>1. \A r \in Stages : status[r] = "running" <=> r = s
      BY <1>1, <2>3 DEF SoloAt, OnceEach
    <3>2. status' = [status EXCEPT ![s] = "failed_transient"]
      BY <1>1, <2>1, <3>1 DEF TypeOK
    <3>3. QED
      BY <2>1, <2>3, <3>2 DEF StageMoves, LifeSteps, StageStatus
  <2>4. QED
    BY <2>2, <2>3
<1>5. QED
  BY <1>2, <1>3, <1>4 DEF Next

\* evaluate_branch_conditions: in one process a branch that was skipped stays so,
\* through later ticks, crashes and restarts: whoever would decide it again has
\* found it pending, and nobody else has decided since.
THEOREM DecisionsAreFinal == Spec => DecisionIsFinal
<1> DEFINE Kept == OneProcess =>
             \A s \in Stages : status[s] = "skipped" => status'[s] = "skipped"
<1>1. WellTyped /\ Solo /\ [Next]_vars => [Kept]_vars
  <2> SUFFICES ASSUME WellTyped, Solo, [Next]_vars,
                      NEW t \in Tickers, setting.tickers = {t}
               PROVE  \A s \in Stages : status[s] = "skipped" => status'[s] = "skipped"
    BY DEF OneProcess
  <2>1. StageMoves(t) /\ TypeOK
    BY SoloMoves DEF WellTyped
  <2>2. QED
    BY <2>1 DEF StageMoves, LifeSteps, TypeOK
<1>2. QED
  BY <1>1, WellTypedInit, WellTypedNext, SoloInit, SoloNext, PTL DEF Spec, DecisionIsFinal

-----------------------------------------------------------------------------
(* FailBlocksUntilCrash *)

FailOnRecord == \E p \in Policies : checks[p] = "FAIL"

NoneClaimed == \A s \in Stages : attempts[s] = 0

\* Stages are claimed by ticks past the policies only; a FAIL is recorded by a tick
\* that will stop the workflow, and once that is done no tick gets past its listing.
FailStopsAt(t) ==
  faults.crashes = 0 /\ faults.resumes = 0 =>
    /\ tick[t].pc \in {"check", "block"} \/ Unchecked => NoneClaimed
    /\ tick[t].pc \in Driving => ~Unchecked
    /\ tick[t].pc = "check" /\ FailOnRecord => tick[t].failed
    /\ FailOnRecord =>
         /\ NoneClaimed
         /\ \/ tick[t].pc \in {"check", "block", "dead"}
            \/ tick[t].pc \in {"idle", "sweep"} /\ wf = "safe_stopped"

FailStops == \A t \in Tickers : setting.tickers = {t} => FailStopsAt(t)

LEMMA FailStopsInit == Init => FailStops
<1> SUFFICES ASSUME Init, NEW t \in Tickers PROVE FailStopsAt(t)
  BY DEF FailStops
<1>1. tick[t].pc = "idle" /\ NoneClaimed /\ Unchecked
  BY IdleFacts DEF Init, NoneClaimed, Unchecked
<1>2. QED
  BY <1>1 DEF FailStopsAt, FailOnRecord, Unchecked, Driving, AtStage, Working, Branching

\* A step of the tick that writes neither evaluations nor claims.
LEMMA FailStopsStill ==
  ASSUME NEW t \in Tickers, FailStopsAt(t), Local(t), UNCHANGED <<attempts, checks>>,
         tick'[t].pc \in {"check", "block"} =>
           (tick[t].pc = "gate" /\ Unchecked) \/ tick[t].pc \in {"check", "block"},
         tick'[t].pc = "check" => tick[t].pc = "gate" /\ Unchecked,
         tick'[t].pc \in Driving => ~Unchecked,
         tick[t].pc = "dead" => tick'[t].pc = "dead",
         FailOnRecord /\ tick[t].pc = "block" => tick'[t].pc = "idle" /\ wf' = "safe_stopped",
         FailOnRecord /\ tick[t].pc \in {"idle", "sweep"} /\ wf = "safe_stopped" =>
           tick'[t].pc \in {"idle", "sweep"} /\ wf' = "safe_stopped",
         tick[t].pc # "check"
  PROVE  FailStopsAt(t)'
  BY DEF FailStopsAt, Local, envVars, FailOnRecord, Unchecked, NoneClaimed

LEMMA FailStopsTick ==
  ASSUME WellTyped, NEW t \in Tickers, FailStopsAt(t), TickStep(t), 
         faults.crashes = 0, faults.resumes = 0
  PROVE  FailStopsAt(t)'
<1>1. TypeOK
  BY DEF WellTyped
<1> USE DEF Driving, AtStage, Working, Branching
<1>2. CASE TickStart(t)
  BY <1>2, TickStartDoes, FailStopsStill
<1>3. CASE SweepAbandon(t)
  BY <1>3, SweepAbandonDoes, FailStopsStill
<1>4. CASE SweepMove(t)
  BY <1>4, SweepMoveDoes, FailStopsStill
<1>5. CASE ListRunning(t)
  BY <1>5, ListRunningDoes, FailStopsStill
<1>6. CASE Gate(t)
  BY <1>6, GateDoes, FailStopsStill
<1>7. CASE EvaluatePolicy(t)
  <2>1. /\ tick[t].pc = "check" /\ tick'[t].pc \in {"check", "block", "compute"}
        /\ tick'[t].pc = "compute" => ~tick'[t].failed
        /\ UNCHANGED <<attempts, faults>>
    BY <1>7, EvaluatePolicyDoes DEF Local, envVars
  <2>2. PICK p \in Policies, verdict \in Outcomes :
          /\ checks' = [checks EXCEPT ![p] =
                          IF checks[p] = "none" THEN verdict ELSE checks[p]]
          /\ tick'[t].failed = (tick[t].failed \/ verdict = "FAIL")
    BY <1>7, EvaluatePolicyDoes
  <2>3. \A q \in Policies : checks'[q] = IF q = p /\ checks[p] = "none" THEN verdict
                                                                       ELSE checks[q]
    BY <1>1, <2>2 DEF TypeOK
  <2>4. ~Unchecked'
    BY <2>2, <2>3 DEF Unchecked, Outcomes
  <2>5. NoneClaimed /\ NoneClaimed'
    BY <2>1 DEF FailStopsAt, NoneClaimed
  <2>6. FailOnRecord' => tick'[t].failed
    BY <2>1, <2>2, <2>3 DEF FailStopsAt, FailOnRecord
  <2>7. QED
    BY <2>1, <2>4, <2>5, <2>6 DEF FailStopsAt
<1>8. CASE Block(t)
  BY <1>8, BlockDoes, FailStopsStill
<1>9. CASE \/ SelectPending(t) \/ CheckEligible(t) \/ MarkReady(t) \/ SelectReady(t)
           \/ InsertRow(t) \/ Execute(t) \/ CompleteRow(t) \/ CompleteStage(t)
           \/ SelectDependents(t) \/ DecideChild(t) \/ NextStage(t) \/ CountUnfinished(t)
  <2>1. /\ Local(t) /\ UNCHANGED <<attempts, checks>>
        /\ tick[t].pc \in Driving /\ tick'[t].pc \in Driving \union {"idle"}
    BY <1>9, SelectPendingDoes, CheckEligibleDoes, MarkReadyDoes, SelectReadyDoes,
       InsertRowDoes, ExecuteDoes, CompleteRowDoes, CompleteStageDoes, SelectDependentsDoes,
       DecideChildDoes, NextStageDoes, CountUnfinishedDoes
  <2>2. QED
    BY <2>1, FailStopsStill DEF FailStopsAt
<1>10. CASE ReadChild(t)
  <2>1. /\ Local(t) /\ UNCHANGED <<attempts, checks>>
        /\ tick[t].pc = "judge" /\ tick'[t].pc \in {"judge", "decide"}
    BY <1>10, ReadChildDoes
  <2>2. QED
    BY <2>1, FailStopsStill DEF FailStopsAt
<1>11. CASE Claim(t)
  <2>1. /\ tick[t].pc = "claim" /\ tick'[t].pc \in {"won", "claim"}
        /\ UNCHANGED <<checks, faults>>
    BY <1>11, ClaimDoes DEF Local, envVars
  <2>2. QED
    BY <2>1 DEF FailStopsAt, FailOnRecord, Unchecked
<1>12. CASE Finish(t)
  <2>1. /\ tick[t].pc = "finish" /\ tick'[t].pc = "idle"
        /\ UNCHANGED <<attempts, checks, faults>>
    BY <1>12, FinishDoes DEF Local, envVars
  <2>2. QED
    BY <2>1 DEF FailStopsAt, FailOnRecord, Unchecked, NoneClaimed
<1>13. QED
  BY <1>2, <1>3, <1>4, <1>5, <1>6, <1>7, <1>8, <1>9, <1>10, <1>11, <1>12 DEF TickStep

LEMMA FailStopsNext == WellTyped /\ FailStops /\ [Next]_vars => FailStops'
<1> SUFFICES ASSUME WellTyped, FailStops, [Next]_vars,
                    NEW t \in Tickers, setting'.tickers = {t},
                    faults'.crashes = 0, faults'.resumes = 0
             PROVE  FailStopsAt(t)'
  BY DEF FailStops, FailStopsAt
<1>1. setting.tickers = {t} /\ FailStopsAt(t) /\ TypeOK
  BY SettingStays DEF FailStops, WellTyped
<1>2. ASSUME NEW u \in Tickers, TickStep(u) PROVE FailStopsAt(t)'
  <2>1. u = t
    BY <1>1, <1>2, OnlyTick
  <2>2. UNCHANGED faults
    BY <1>2 DEF TickStep, TickStart, SweepAbandon, SweepMove, ListRunning, Gate,
       EvaluatePolicy, Block, SelectPending, CheckEligible, MarkReady, SelectReady, Claim,
       InsertRow, Execute, CompleteRow, CompleteStage, SelectDependents, ReadChild,
       DecideChild, NextStage, CountUnfinished, Finish, envVars
  <2>3. QED
    BY <1>1, <1>2, <2>1, <2>2, FailStopsTick
<1>3. ASSUME NEW u \in Tickers, TickRaises(u) PROVE FailStopsAt(t)'
  <2>1. u = t
    BY <1>1, <1>3, OnlyTick
  <2>2. /\ tick'[t].pc = "dead" /\ UNCHANGED <<attempts, checks>>
        /\ faults'.crashes = faults.crashes /\ faults'.resumes = faults.resumes
    BY <1>1, <1>3, <2>1, TickRaisesDoes DEF TypeOK
  <2>3. QED
    BY <1>1, <2>2 DEF FailStopsAt, FailOnRecord, Unchecked, NoneClaimed, Driving, AtStage,
       Working, Branching
<1>4. CASE Seed \/ Restart \/ UNCHANGED vars
  <2>1. UNCHANGED <<attempts, checks, tick, faults, wf>>
    BY <1>4 DEF Seed, Restart, vars, envVars
  <2>2. QED
    BY <1>1, <2>1 DEF FailStopsAt, FailOnRecord, Unchecked, NoneClaimed
<1>5. CASE SafeStop
  <2>1. /\ UNCHANGED <<attempts, checks, tick>> /\ wf' = "safe_stopped"
        /\ faults'.crashes = faults.crashes /\ faults'.resumes = faults.resumes
    BY <1>1, <1>5 DEF SafeStop, TypeOK
  <2>2. QED
    BY <1>1, <2>1 DEF FailStopsAt, FailOnRecord, Unchecked, NoneClaimed
<1>6. ASSUME Resume PROVE FALSE
  <2>1. faults.resumes \in Nat /\ faults'.resumes = faults.resumes + 1
    BY <1>1, <1>6, SettingFacts DEF Resume, TypeOK
  <2>2. QED
    BY <2>1
<1>7. ASSUME Crash PROVE FALSE
  <2>1. faults.crashes \in Nat /\ faults'.crashes = faults.crashes + 1
    BY <1>1, <1>7, SettingFacts DEF Crash, TypeOK
  <2>2. QED
    BY <2>1
<1>8. QED
  BY <1>2, <1>3, <1>4, <1>5, <1>6, <1>7 DEF Next

\* FR-304: in one process, once a mandatory policy has FAIL on record no stage is
\* claimed until the workflow is resumed, as long as no crash comes between the
\* recording and the stop; also if a tick raises there, or while the pipeline is
\* still being seeded.
THEOREM FailuresBlock == Spec => []FailBlocksUntilCrash
<1>1. FailStops => FailBlocksUntilCrash
  BY DEF FailStops, FailStopsAt, FailBlocksUntilCrash, FailBlocks, OneProcess,
     FailOnRecord, NoneClaimed
<1>2. QED
  BY <1>1, WellTypedInit, WellTypedNext, FailStopsInit, FailStopsNext, PTL DEF Spec

-----------------------------------------------------------------------------
(* RunsAfterParent, for any number of ticks *)

\* A claim has one holder, and a sweep takes the row of none: the rows left to a
\* sweep are those of claims that nobody holds, and no claim is made twice.
RowsApartAt(t) ==
  /\ tick[t].pc \in AtStage =>
       /\ tick[t].claim <= attempts[tick[t].stage]
       /\ \A u \in Tickers : u # t => Row(u) # Row(t)
  /\ tick[t].pc = "sweep" =>
       \A r \in tick[t].rows : r[2] <= attempts[r[1]] /\ \A u \in Tickers : Row(u) # r
  /\ tick[t].pc \in {"work", "worked"} => Row(t) \in live

RowsApart ==
  /\ \A r \in live : r[2] <= attempts[r[1]]
  /\ \A t \in Tickers : RowsApartAt(t)

LEMMA RowsApartInit == Init => RowsApart
<1> SUFFICES ASSUME Init, NEW t \in Tickers PROVE RowsApartAt(t)
  BY DEF RowsApart, Init
<1>1. tick[t].pc = "idle"
  BY IdleFacts DEF Init
<1>2. QED
  BY <1>1 DEF RowsApartAt, AtStage, Working, Branching

\* A step of one tick that makes no claim.
LEMMA RowsStill ==
  ASSUME WellTyped, WellTyped', RowsApart, NEW t \in Tickers,
         \A u \in Tickers : u # t => tick'[u] = tick[u],
         UNCHANGED attempts,
         \A r \in live' : r \in live \/ (r = Row(t) /\ tick[t].pc \in AtStage),
         \A u \in Tickers : tick'[u].pc \in {"work", "worked"} => Row(u)' \in live',
         tick'[t].pc \in AtStage =>
           /\ tick[t].pc \in AtStage
           /\ tick'[t].stage = tick[t].stage /\ tick'[t].claim = tick[t].claim,
         tick'[t].pc = "sweep" => tick[t].pc = "sweep" /\ tick'[t].rows \subseteq tick[t].rows
  PROVE  RowsApart'
<1>1. ASSUME NEW u \in Tickers, tick'[u].stage \in Stages
      PROVE  tick[u].pc \in AtStage /\ Row(u)' = Row(u)
  <2>1. tick'[u].pc \in AtStage
    BY <1>1 DEF WellTyped, Pointed, PointedAt, Stages
  <2>2. QED
    BY <2>1 DEF Row
<1>2. ASSUME NEW u \in Tickers PROVE RowsApartAt(u)'
  <2>1. RowsApartAt(u) /\ PointedAt(u)'
    BY DEF RowsApart, WellTyped, Pointed
  <2>2. ASSUME tick'[u].pc \in AtStage
        PROVE  /\ tick'[u].claim <= attempts[tick'[u].stage]
               /\ \A v \in Tickers : v # u => Row(v)' # Row(u)'
    <3>1. tick'[u].stage \in Stages /\ tick[u].pc \in AtStage /\ Row(u)' = Row(u)
      BY <1>1, <2>1, <2>2 DEF PointedAt
    <3>2. ASSUME NEW v \in Tickers, v # u PROVE Row(v)' # Row(u)'
      BY <1>1, <2>1, <3>1, <3>2 DEF RowsApartAt, Row
    <3>3. QED
      BY <2>1, <3>1, <3>2 DEF RowsApartAt, Row
  <2>3. ASSUME tick'[u].pc = "sweep", NEW r \in tick'[u].rows
        PROVE  r[2] <= attempts[r[1]] /\ \A v \in Tickers : Row(v)' # r
    <3>1. tick[u].pc = "sweep" /\ r \in tick[u].rows
      BY <2>3
    <3>2. r[1] \in Stages
      <4>1. tick[u] \in TickState
        BY DEF WellTyped, TypeOK
      <4>2. QED
        BY <3>1, <4>1 DEF TickState
    <3>3. ASSUME NEW v \in Tickers PROVE Row(v)' # r
      BY <1>1, <2>1, <3>1, <3>2 DEF RowsApartAt, Row
    <3>4. QED
      BY <2>1, <3>1, <3>3 DEF RowsApartAt
  <2>4. QED
    BY <2>2, <2>3 DEF RowsApartAt
<1>3. ASSUME NEW r \in live' PROVE r[2] <= attempts[r[1]]
  <2>1. CASE r \in live
    BY <2>1 DEF RowsApart
  <2>2. CASE r = Row(t) /\ tick[t].pc \in AtStage
    BY <2>2 DEF RowsApart, RowsApartAt, Row
  <2>3. QED
    BY <2>1, <2>2
<1>4. QED
  BY <1>2, <1>3 DEF RowsApart

LEMMA RowsApartTick ==
  ASSUME WellTyped, WellTyped', ~setting.stalls, RowsApart, NEW t \in Tickers, TickStep(t)
  PROVE  RowsApart'
<1>1. TypeOK /\ PointedAt(t) /\ RowsApartAt(t) /\ \A u \in Tickers : RowsApartAt(u)
  BY DEF WellTyped, Pointed, RowsApart
<1> USE DEF AtStage, Working, Branching
<1>2. CASE TickStart(t)
  <2>1. /\ Local(t) /\ UNCHANGED <<attempts, live>>
        /\ tick[t].pc = "idle" /\ tick'[t].pc = "sweep" /\ tick'[t].stage = "none"
        /\ tick'[t].rows \subseteq MayExpire
    BY <1>2, TickStartDoes
  <2>2. ASSUME NEW r \in tick'[t].rows
        PROVE  r[2] <= attempts[r[1]] /\ \A u \in Tickers : Row(u)' # r
    <3>1. /\ r \in live /\ r[1] \in Stages
          /\ \A u \in Tickers : r # <<tick[u].stage, tick[u].claim>>
      BY <1>1, <2>1, <2>2 DEF MayExpire, TypeOK
    <3>2. ASSUME NEW u \in Tickers PROVE Row(u)' # r
      BY <2>1, <3>1 DEF Row, Local, Stages
    <3>3. QED
      BY <3>1, <3>2 DEF RowsApart
  <2>3. ASSUME NEW u \in Tickers PROVE RowsApartAt(u)'
    <3>1. CASE u = t
      BY <2>1, <2>2, <3>1 DEF RowsApartAt
    <3>2. CASE u # t
      <4>1. tick'[u] = tick[u] /\ RowsApartAt(u)
        BY <1>1, <2>1, <3>2 DEF Local
      <4>2. ASSUME tick[u].pc \in AtStage, NEW v \in Tickers, v # u PROVE Row(v)' # Row(u)'
        <5>1. tick[u].stage \in Stages
          BY <4>2 DEF WellTyped, Pointed, PointedAt
        <5>2. QED
          BY <2>1, <4>1, <4>2, <5>1 DEF RowsApartAt, Row, Local, Stages
      <4>3. ASSUME tick[u].pc = "sweep", NEW r \in tick[u].rows, NEW v \in Tickers
            PROVE  Row(v)' # r
        <5>1. tick[u] \in TickState
          BY <1>1 DEF TypeOK
        <5>2. r[1] \in Stages
          BY <4>3, <5>1 DEF TickState
        <5>3. QED
          BY <2>1, <4>1, <4>3, <5>2 DEF RowsApartAt, Row, Local, Stages
      <4>4. Row(u)' = Row(u)
        BY <4>1 DEF Row
      <4>5. QED
        BY <2>1, <4>1, <4>2, <4>3, <4>4 DEF RowsApartAt
    <3>3. QED
      BY <3>1, <3>2
  <2>4. QED
    BY <2>1, <2>3 DEF RowsApart
<1>3. CASE SweepAbandon(t)
  <2>1. /\ Local(t) /\ UNCHANGED attempts
        /\ tick[t].pc = "sweep" /\ tick'[t].pc = "sweep" /\ tick'[t].pc \notin AtStage
        /\ tick'[t].rows \subseteq tick[t].rows
        /\ \E r \in tick[t].rows : live' = live \ {r}
    BY <1>3, SweepAbandonDoes
  <2>2. ASSUME NEW u \in Tickers, tick'[u].pc \in {"work", "worked"} PROVE Row(u)' \in live'
    BY <1>1, <2>1, <2>2 DEF RowsApartAt, Row, Local
  <2> HIDE DEF AtStage
  <2>3. QED
    BY <2>1, <2>2, RowsStill DEF Local
<1>4. CASE Claim(t)
  <2>1. Local(t) /\ tick[t].pc = "claim" /\ UNCHANGED live
    BY <1>4, ClaimDoes
  <2>2. CASE tick'[t].pc = "claim" /\ UNCHANGED attempts
    <3>0. tick'[t].pc \notin AtStage /\ tick'[t].pc # "sweep"
      BY <2>2
    <3>1. ASSUME NEW u \in Tickers, tick'[u].pc \in {"work", "worked"} PROVE Row(u)' \in live'
      BY <1>1, <2>1, <2>2, <3>1 DEF RowsApartAt, Row, Local
    <3> HIDE DEF AtStage
    <3>2. QED
      BY <2>1, <2>2, <3>0, <3>1, RowsStill DEF Local
  <2>3. ASSUME NEW s \in Stages, attempts' = [attempts EXCEPT ![s] = attempts[s] + 1],
               tick'[t].pc = "won", tick'[t].stage = s, tick'[t].claim = attempts[s] + 1
        PROVE  RowsApart'
    <3>1. \A r \in Stages :
            /\ attempts[r] \in Int
            /\ attempts'[r] = IF r = s THEN attempts[s] + 1 ELSE attempts[r]
      BY <1>1, <2>3, SettingFacts DEF TypeOK
    <3>2. Row(t)' = <<s, attempts[s] + 1>>
      BY <2>3 DEF Row
    <3>3. \A u \in Tickers : u # t => tick'[u] = tick[u] /\ Row(u)' = Row(u)
      BY <2>1 DEF Local, Row
    <3>4. ASSUME NEW u \in Tickers, tick[u].pc \in AtStage
          PROVE  tick[u].stage \in Stages /\ tick[u].claim \in Int
                 /\ tick[u].claim <= attempts[tick[u].stage]
      <4>1. tick[u].stage \in Stages /\ tick[u].claim \in 1..setting.claims
        BY <3>4 DEF WellTyped, Pointed, PointedAt
      <4>2. setting.claims \in Nat
        BY <1>1, SettingFacts DEF TypeOK
      <4>3. QED
        BY <1>1, <3>4, <4>1, <4>2 DEF RowsApartAt
    <3>5. ASSUME NEW u \in Tickers, u # t PROVE Row(u) # Row(t)'
      <4>1. CASE tick[u].pc \in AtStage
        BY <3>1, <3>2, <3>4, <4>1 DEF Row
      <4>2. CASE tick[u].pc \notin AtStage
        BY <3>2, <4>2 DEF Row, WellTyped, Pointed, PointedAt, Stages
      <4>3. QED
        BY <4>1, <4>2
    <3>6. ASSUME NEW u \in Tickers, NEW r \in tick[u].rows, tick[u].pc = "sweep"
          PROVE  r[2] <= attempts'[r[1]] /\ \A v \in Tickers : Row(v)' # r
      <4>1. tick[u] \in TickState
        BY <1>1 DEF TypeOK
      <4> setting.claims \in Nat
        BY <1>1, SettingFacts DEF TypeOK
      <4>2. r[1] \in Stages /\ r[2] \in Int
        BY <4>1 DEF TickState
      <4>3. r[2] <= attempts[r[1]] /\ \A v \in Tickers : Row(v) # r
        BY <1>1, <3>6 DEF RowsApartAt
      <4>4. QED
        BY <3>1, <3>2, <3>3, <4>2, <4>3
    <3>7. ASSUME NEW r \in live PROVE r[2] <= attempts'[r[1]]
      <4>1. r[1] \in Stages /\ r[2] \in Int /\ r[2] <= attempts[r[1]]
        BY <1>1, SettingFacts DEF RowsApart, TypeOK
      <4>2. QED
        BY <3>1, <4>1
    <3>8. ASSUME NEW u \in Tickers PROVE RowsApartAt(u)'
      <4>1. CASE u = t
        BY <2>3, <3>1, <3>3, <3>5, <4>1 DEF RowsApartAt
      <4>2. CASE u # t
        <5>1. tick[u].pc \in AtStage => tick[u].claim <= attempts'[tick[u].stage]
          BY <3>1, <3>4
        <5>2. tick[u].pc \in AtStage => \A v \in Tickers : v # u => Row(v)' # Row(u)'
          BY <1>1, <3>3, <3>5, <4>2 DEF RowsApartAt
        <5>3. QED
          BY <1>1, <2>1, <3>3, <3>6, <4>2, <5>1, <5>2 DEF RowsApartAt
      <4>3. QED
        BY <4>1, <4>2
    <3>9. QED
      BY <2>1, <3>7, <3>8 DEF RowsApart
  <2>4. QED
    BY <1>4, <2>2, <2>3, ClaimDoes
<1>5. CASE InsertRow(t) \/ Execute(t) \/ CompleteRow(t)
  <2>1. /\ Local(t) /\ UNCHANGED attempts
        /\ tick[t].pc \in AtStage /\ tick'[t].pc \in AtStage /\ tick'[t].pc # "sweep"
        /\ tick'[t].stage = tick[t].stage /\ tick'[t].claim = tick[t].claim
        /\ live' \in {live, live \union {Row(t)}, live \ {Row(t)}}
    BY <1>5, InsertRowDoes, ExecuteDoes, CompleteRowDoes
  <2>2. /\ tick'[t].pc = "work" => live' = live \union {Row(t)}
        /\ tick'[t].pc = "worked" => tick[t].pc = "work" /\ live' = live
    BY <1>5, InsertRowDoes, ExecuteDoes, CompleteRowDoes
  <2>3. ASSUME NEW u \in Tickers, tick'[u].pc \in {"work", "worked"} PROVE Row(u)' \in live'
    <3>1. CASE u = t
      BY <1>1, <2>1, <2>2, <2>3, <3>1 DEF RowsApartAt, Row
    <3>2. CASE u # t
      BY <1>1, <2>1, <2>3, <3>2 DEF RowsApartAt, Row, Local
    <3>3. QED
      BY <3>1, <3>2
  <2> HIDE DEF AtStage
  <2>4. QED
    BY <2>1, <2>3, RowsStill DEF Local
<1>6. CASE \/ SweepMove(t) \/ ListRunning(t) \/ Gate(t) \/ EvaluatePolicy(t) \/ Block(t)
           \/ SelectPending(t) \/ CheckEligible(t) \/ MarkReady(t) \/ SelectReady(t)
           \/ CountUnfinished(t) \/ Finish(t) \/ NextStage(t)
  <2>1. /\ Local(t) /\ UNCHANGED <<attempts, live>>
        /\ tick'[t].pc \notin AtStage
        /\ tick'[t].pc = "sweep" => tick[t].pc = "sweep" /\ tick'[t].rows = tick[t].rows
    BY <1>6, SweepMoveDoes, ListRunningDoes, GateDoes, EvaluatePolicyDoes, BlockDoes,
       SelectPendingDoes, CheckEligibleDoes, MarkReadyDoes, SelectReadyDoes,
       CountUnfinishedDoes, FinishDoes, NextStageDoes
  <2>2. ASSUME NEW u \in Tickers, tick'[u].pc \in {"work", "worked"} PROVE Row(u)' \in live'
    BY <1>1, <2>1, <2>2 DEF RowsApartAt, Row, Local
  <2> HIDE DEF AtStage
  <2>3. QED
    BY <2>1, <2>2, RowsStill DEF Local
<1>7. CASE CompleteStage(t) \/ SelectDependents(t) \/ ReadChild(t) \/ DecideChild(t)
  <2>1. /\ Local(t) /\ UNCHANGED <<attempts, live>>
        /\ tick[t].pc \in AtStage /\ tick'[t].pc \in Branching
        /\ tick'[t].pc # "sweep"
        /\ tick'[t].stage = tick[t].stage /\ tick'[t].claim = tick[t].claim
    BY <1>7, CompleteStageDoes, SelectDependentsDoes, ReadChildDoes, DecideChildDoes
  <2>2. ASSUME NEW u \in Tickers, tick'[u].pc \in {"work", "worked"} PROVE Row(u)' \in live'
    BY <1>1, <2>1, <2>2 DEF RowsApartAt, Row, Local
  <2> HIDE DEF AtStage
  <2>3. QED
    BY <2>1, <2>2, RowsStill DEF Local
<1>8. QED
  BY <1>2, <1>3, <1>4, <1>5, <1>6, <1>7 DEF TickStep

LEMMA RowsApartNext ==
  ASSUME WellTyped, WellTyped', ~setting.stalls, RowsApart, [Next]_vars
  PROVE  RowsApart'
<1>1. ASSUME NEW t \in Tickers, TickStep(t) PROVE RowsApart'
  BY <1>1, RowsApartTick
<1>2. ASSUME NEW t \in Tickers, TickRaises(t) PROVE RowsApart'
  <2>1. /\ \A u \in Tickers : u # t => tick'[u] = tick[u]
        /\ tick'[t].pc \notin AtStage /\ tick'[t].pc \notin {"sweep", "work", "worked"}
        /\ UNCHANGED <<attempts, live>>
    BY <1>2, TickRaisesDoes DEF AtStage, Working, Branching
  <2>2. ASSUME NEW u \in Tickers, tick'[u].pc \in {"work", "worked"} PROVE Row(u)' \in live'
    BY <2>1, <2>2 DEF RowsApart, RowsApartAt, Row
  <2>3. QED
    BY <2>1, <2>2, RowsStill
<1>3. CASE Seed \/ SafeStop \/ Resume \/ Restart \/ UNCHANGED vars
  <2>1. UNCHANGED <<attempts, live, tick>>
    BY <1>3 DEF Seed, SafeStop, Resume, Restart, vars, envVars
  <2>2. QED
    BY <2>1 DEF RowsApart, RowsApartAt, Row
<1>4. CASE Crash
  <2>1. UNCHANGED <<attempts, live>> /\ \A t \in Tickers : tick'[t].pc = "idle"
    BY <1>4, IdleFacts DEF Crash, WellTyped, TypeOK
  <2>2. QED
    BY <2>1 DEF RowsApart, RowsApartAt, AtStage, Working, Branching
<1>5. QED
  BY <1>1, <1>2, <1>3, <1>4 DEF Next

\* The first tick finds the pipeline complete.
Seeded == setting.seedFirst => seeded = Len(Script)

LEMMA SeededInit == Init => Seeded
  BY DEF Init, Seeded

LEMMA SeededNext == WellTyped /\ Seeded /\ [Next]_vars => Seeded'
<1> SUFFICES ASSUME WellTyped, Seeded, [Next]_vars, setting'.seedFirst
             PROVE  seeded' = Len(Script)
  BY DEF Seeded
<1>1. seeded = Len(Script) /\ Len(Script) = 9
  BY SettingStays, ScriptEntries DEF Seeded
<1>2. ~Seed
  BY <1>1 DEF Seed
<1>3. ASSUME NEW t \in Tickers, TickStep(t) \/ TickRaises(t) PROVE UNCHANGED seeded
  BY <1>3 DEF TickStep, TickStart, SweepAbandon, SweepMove, ListRunning, Gate,
     EvaluatePolicy, Block, SelectPending, CheckEligible, MarkReady, SelectReady, Claim,
     InsertRow, Execute, CompleteRow, CompleteStage, SelectDependents, ReadChild,
     DecideChild, NextStage, CountUnfinished, Finish, TickRaises
<1>4. QED
  BY <1>1, <1>2, <1>3 DEF Next, SafeStop, Resume, Crash, Restart, vars

\* The parent of s, if it has one, has succeeded.
Licensed(s) == s \in DOMAIN Parent => status[Parent[s]] = "succeeded"

\* A stage that is ready or was claimed is licensed, and so is one that a tick is
\* about to make ready.
ParentsFirst ==
  /\ \A s \in Stages : attempts[s] > 0 \/ status[s] = "ready" => Licensed(s)
  /\ \A t \in Tickers :
       /\ tick[t].pc \in Branching /\ tick[t].stage \notin Branches =>
            status[tick[t].stage] = "succeeded"
       /\ tick[t].pc = "eligible" => \A s \in tick[t].found : Licensed(s)

LEMMA ParentsFirstInit == Init => ParentsFirst
<1> SUFFICES ASSUME Init PROVE ParentsFirst
  OBVIOUS
<1>1. /\ \A t \in Tickers : tick[t].pc = "idle"
      /\ \A s \in Stages : attempts[s] = 0 /\ status[s] = "pending"
  BY IdleFacts DEF Init
<1>2. QED
  BY <1>1 DEF ParentsFirst, Branching

\* A parent that has succeeded stays so.
ParentsStay ==
  \A s \in Stages : s \notin Branches /\ status[s] = "succeeded" => status'[s] = "succeeded"

LEMMA LicensedStays ==
  ASSUME ParentsStay, NEW s, Licensed(s)
  PROVE  Licensed(s)'
  BY ParentFacts DEF ParentsStay, Licensed

\* A step that makes no stage ready and claims none.
LEMMA ParentsStill ==
  ASSUME ParentsFirst, ParentsStay, WellTyped, WellTyped', UNCHANGED attempts,
         \A s \in Stages : status'[s] = "ready" => status[s] = "ready" \/ Licensed(s)',
         \A t \in Tickers : tick'[t].pc \in Branching /\ tick'[t].stage \notin Branches =>
            \/ tick[t].pc \in Branching /\ tick'[t].stage = tick[t].stage
            \/ status'[tick'[t].stage] = "succeeded",
         \A t \in Tickers : tick'[t].pc = "eligible" =>
            \A s \in tick'[t].found :
              Licensed(s) \/ (tick[t].pc = "eligible" /\ s \in tick[t].found)
  PROVE  ParentsFirst'
<1>1. ASSUME NEW s \in Stages, attempts'[s] > 0 \/ status'[s] = "ready" PROVE Licensed(s)'
  BY <1>1, LicensedStays DEF ParentsFirst
<1>2. ASSUME NEW t \in Tickers, tick'[t].pc \in Branching, tick'[t].stage \notin Branches
      PROVE  status'[tick'[t].stage] = "succeeded"
  <2>1. tick'[t].stage \in Stages
    BY <1>2 DEF WellTyped, Pointed, PointedAt, AtStage
  <2>2. QED
    BY <1>2, <2>1 DEF ParentsFirst, ParentsStay
<1>3. ASSUME NEW t \in Tickers, tick'[t].pc = "eligible", NEW s \in tick'[t].found
      PROVE  Licensed(s)'
  BY <1>3, LicensedStays DEF ParentsFirst
<1>4. QED
  BY <1>1, <1>2, <1>3 DEF ParentsFirst

LEMMA ParentsFirstTick ==
  ASSUME WellTyped, WellTyped', setting.seedFirst, Seeded, RowsApart, ParentsFirst,
         NEW t \in Tickers, TickStep(t)
  PROVE  ParentsFirst'
<1>1. TypeOK /\ PointedAt(t) /\ RowsApartAt(t)
  BY DEF WellTyped, Pointed, RowsApart
<1>2. CASE \/ TickStart(t) \/ SweepAbandon(t) \/ ListRunning(t) \/ Gate(t)
           \/ EvaluatePolicy(t) \/ Block(t) \/ SelectPending(t) \/ SelectReady(t)
           \/ InsertRow(t) \/ Execute(t) \/ CompleteRow(t) \/ NextStage(t)
           \/ CountUnfinished(t) \/ Finish(t)
  <2>1. Local(t) /\ UNCHANGED <<status, attempts>> /\ tick'[t].pc \notin Branching
    BY <1>1, <1>2, TickStartDoes, SweepAbandonDoes, ListRunningDoes, GateDoes,
       EvaluatePolicyDoes, BlockDoes, SelectPendingDoes, SelectReadyDoes, InsertRowDoes,
       ExecuteDoes, CompleteRowDoes, NextStageDoes, CountUnfinishedDoes, FinishDoes
       DEF Branching, RowsApartAt
  <2>2. tick'[t].pc = "eligible" => tick'[t].found = {}
    BY <1>1, <1>2, TickStartDoes, SweepAbandonDoes, ListRunningDoes, GateDoes,
       EvaluatePolicyDoes, BlockDoes, SelectPendingDoes, SelectReadyDoes, InsertRowDoes,
       ExecuteDoes, CompleteRowDoes, NextStageDoes, CountUnfinishedDoes, FinishDoes
       DEF PointedAt, RowsApartAt
  <2>3. ParentsStay
    BY <2>1 DEF ParentsStay
  <2>4. \A s \in Stages : status'[s] = "ready" => status[s] = "ready"
    BY <2>1
  <2>5. QED
    BY <2>1, <2>2, <2>3, <2>4, ParentsStill DEF Local
<1>3. CASE SelectDependents(t) \/ ReadChild(t)
  <2>1. Local(t) /\ UNCHANGED <<status, attempts>> /\ tick[t].pc \in Branching
        /\ tick'[t].pc # "eligible" /\ tick'[t].stage = tick[t].stage
    BY <1>3, SelectDependentsDoes, ReadChildDoes DEF Branching
  <2>2. ParentsStay /\ \A s \in Stages : status'[s] = "ready" => status[s] = "ready"
    BY <2>1 DEF ParentsStay
  <2>3. QED
    BY <2>1, <2>2, ParentsStill DEF Local
<1>4. CASE SweepMove(t)
  <2>1. Local(t) /\ UNCHANGED attempts
        /\ tick'[t].pc = "sweep" /\ tick'[t].pc \notin Branching
    BY <1>4, SweepMoveDoes DEF Branching
  <2>2. PICK s \in Stages : status' = [status EXCEPT ![s] =
          IF status[s] = "running" THEN "awaiting_reconciliation" ELSE status[s]]
    BY <1>4, SweepMoveDoes
  <2>3. ParentsStay /\ \A r \in Stages : status'[r] = "ready" => status[r] = "ready"
    BY <1>1, <2>2 DEF ParentsStay, TypeOK
  <2>4. QED
    BY <2>1, <2>3, ParentsStill DEF Local
<1>5. CASE CheckEligible(t)
  <2>1. Local(t) /\ UNCHANGED <<status, attempts>>
        /\ tick[t].pc = "eligible" /\ tick'[t].pc \notin Branching
    BY <1>5, CheckEligibleDoes DEF Branching
  <2>2. PICK s \in tick[t].todo :
          tick'[t].found = IF ParentSucceeded(s) THEN tick[t].found \union {s}
                                                 ELSE tick[t].found
    BY <1>5, CheckEligibleDoes
  <2>3. ParentSucceeded(s) => Licensed(s)
    <3>1. s \in DOMAIN Parent => Executed("edge", s)
      BY <1>1, OnRecord DEF Seeded, TypeOK
    <3>2. QED
      BY <3>1 DEF ParentSucceeded, Licensed
  <2>4. ParentsStay /\ \A r \in Stages : status'[r] = "ready" => status[r] = "ready"
    BY <2>1 DEF ParentsStay
  <2>5. \A r \in tick'[t].found : Licensed(r) \/ (tick[t].pc = "eligible" /\ r \in tick[t].found)
    BY <2>1, <2>2, <2>3
  <2>6. QED
    BY <2>1, <2>4, <2>5, ParentsStill DEF Local
<1>6. CASE MarkReady(t)
  <2>1. Local(t) /\ UNCHANGED attempts
        /\ tick[t].pc = "eligible" /\ tick'[t].pc \notin Branching
    BY <1>6, MarkReadyDoes DEF Branching
  <2>2. PICK s \in tick[t].found :
          /\ tick'[t].found = tick[t].found \ {s}
          /\ s \in Stages
          /\ status' = [status EXCEPT ![s] =
                          IF status[s] = "pending" THEN "ready" ELSE status[s]]
    BY <1>6, MarkReadyDoes
  <2>3. /\ ParentsStay
        /\ \A r \in Stages : status'[r] = "ready" => status[r] = "ready" \/ r = s
    BY <1>1, <2>2 DEF ParentsStay, TypeOK
  <2>4. Licensed(s)'
    BY <2>1, <2>2, <2>3, LicensedStays DEF ParentsFirst
  <2>5. \A r \in Stages : status'[r] = "ready" => status[r] = "ready" \/ Licensed(r)'
    BY <2>3, <2>4
  <2>6. QED
    BY <2>1, <2>2, <2>3, <2>5, ParentsStill DEF Local
<1>7. CASE Claim(t)
  <2>1. Local(t) /\ tick'[t].pc \in {"claim", "won"} /\ tick'[t].pc \notin Branching
    BY <1>7, ClaimDoes DEF Branching
  <2>2. CASE UNCHANGED <<status, attempts>>
    <3>1. ParentsStay /\ \A r \in Stages : status'[r] = "ready" => status[r] = "ready"
      BY <2>2 DEF ParentsStay
    <3>2. QED
      BY <2>1, <2>2, <3>1, ParentsStill DEF Local
  <2>3. ASSUME NEW s \in Stages, status[s] = "ready",
               status' = [status EXCEPT ![s] = "running"],
               attempts' = [attempts EXCEPT ![s] = attempts[s] + 1]
        PROVE  ParentsFirst'
    <3>1. /\ ParentsStay
          /\ \A r \in Stages : /\ status'[r] = "ready" => status[r] = "ready"
                               /\ r # s => attempts'[r] = attempts[r]
      BY <1>1, <2>3 DEF ParentsStay, TypeOK
    <3>2. ASSUME NEW r \in Stages, attempts'[r] > 0 \/ status'[r] = "ready"
          PROVE  Licensed(r)'
      BY <2>3, <3>1, <3>2, LicensedStays DEF ParentsFirst
    <3>3. ASSUME NEW u \in Tickers, tick'[u].pc \in Branching, tick'[u].stage \notin Branches
          PROVE  status'[tick'[u].stage] = "succeeded"
      <4>1. tick'[u] = tick[u] /\ tick[u].stage \in Stages
        BY <2>1, <3>3 DEF Local, WellTyped, Pointed, PointedAt, AtStage
      <4>2. QED
        BY <3>1, <3>3, <4>1 DEF ParentsFirst, ParentsStay
    <3>4. ASSUME NEW u \in Tickers, tick'[u].pc = "eligible", NEW r \in tick'[u].found
          PROVE  Licensed(r)'
      <4>1. tick'[u] = tick[u]
        BY <2>1, <3>4 DEF Local
      <4>2. QED
        BY <3>1, <3>4, <4>1, LicensedStays DEF ParentsFirst
    <3>5. QED
      BY <3>2, <3>3, <3>4 DEF ParentsFirst
  <2>4. QED
    BY <1>7, <2>2, <2>3, ClaimDoes
<1>8. CASE CompleteStage(t)
  <2>1. Local(t) /\ UNCHANGED attempts /\ tick[t].pc = "acked"
        /\ tick'[t].pc # "eligible" /\ tick'[t].stage = tick[t].stage
        /\ status' = [status EXCEPT ![tick[t].stage] = "succeeded"]
    BY <1>8, CompleteStageDoes
  <2>2. tick[t].stage \in Stages
    BY <1>1, <2>1 DEF PointedAt, AtStage, Working
  <2>3. /\ ParentsStay /\ status'[tick'[t].stage] = "succeeded"
        /\ \A r \in Stages : status'[r] = "ready" => status[r] = "ready"
    BY <1>1, <2>1, <2>2 DEF ParentsStay, TypeOK
  <2>4. QED
    BY <2>1, <2>3, ParentsStill DEF Local
<1>9. CASE DecideChild(t)
  <2> DEFINE c == tick[t].child
             new == BranchStatus(c)
  <2>1. /\ Local(t) /\ UNCHANGED attempts
        /\ tick[t].pc = "decide" /\ tick'[t].pc = "judge" /\ tick'[t].stage = tick[t].stage
        /\ c \in Branches /\ c \in Stages
        /\ status' = [status EXCEPT ![c] = new]
    BY <1>9, DecideChildDoes
  <2> HIDE DEF c, new
  <2>2. \A r \in Stages : r # c => status'[r] = status[r]
    BY <1>1, <2>1 DEF TypeOK
  <2>3. ParentsStay
    BY <2>1, <2>2 DEF ParentsStay
  <2>4. Licensed(c)
    <3>1. tick[t].stage = "classify" /\ "classify" \notin Branches
      BY <1>1, <2>1 DEF PointedAt, Branches
    <3>2. status["classify"] = "succeeded"
      BY <2>1, <3>1 DEF ParentsFirst, Branching
    <3>3. QED
      BY <2>1, <3>2, ParentFacts DEF Licensed
  <2>5. \A r \in Stages : status'[r] = "ready" => status[r] = "ready" \/ Licensed(r)'
    BY <2>2, <2>3, <2>4, LicensedStays
  <2>6. tick[t].pc \in Branching /\ tick'[t].pc # "eligible"
    BY <2>1 DEF Branching
  <2>7. QED
    BY <2>1, <2>3, <2>5, <2>6, ParentsStill DEF Local
<1>10. QED
  BY <1>2, <1>3, <1>4, <1>5, <1>6, <1>7, <1>8, <1>9 DEF TickStep

LEMMA ParentsFirstNext ==
  ASSUME WellTyped, WellTyped', setting.seedFirst, Seeded, RowsApart, ParentsFirst,
         [Next]_vars
  PROVE  ParentsFirst'
<1>1. ASSUME NEW t \in Tickers, TickStep(t) PROVE ParentsFirst'
  BY <1>1, ParentsFirstTick
<1>2. ASSUME NEW t \in Tickers, TickRaises(t) PROVE ParentsFirst'
  <2>1. /\ \A u \in Tickers : u # t => tick'[u] = tick[u]
        /\ tick'[t].pc = "dead" /\ tick'[t].pc \notin Branching
        /\ UNCHANGED <<status, attempts>>
    BY <1>2, TickRaisesDoes DEF Branching
  <2>2. ParentsStay /\ \A r \in Stages : status'[r] = "ready" => status[r] = "ready"
    BY <2>1 DEF ParentsStay
  <2>3. QED
    BY <2>1, <2>2, ParentsStill
<1>3. CASE Seed \/ SafeStop \/ Resume \/ UNCHANGED vars
  <2>1. UNCHANGED <<status, attempts, tick>>
    BY <1>3 DEF Seed, SafeStop, Resume, vars, envVars
  <2>2. QED
    BY <2>1 DEF ParentsFirst, Licensed
<1>4. CASE Restart
  <2>1. /\ UNCHANGED <<attempts, tick>>
        /\ \A s \in Stages : status'[s] = IF status[s] = "running" THEN "failed_transient"
                                                                  ELSE status[s]
    BY <1>4 DEF Restart, RecoveredStatus
  <2>2. ParentsStay /\ \A r \in Stages : status'[r] = "ready" => status[r] = "ready"
    BY <2>1 DEF ParentsStay
  <2>3. QED
    BY <2>1, <2>2, ParentsStill
<1>5. CASE Crash
  <2>1. /\ UNCHANGED <<status, attempts>>
        /\ \A t \in Tickers : tick'[t].pc = "idle" /\ tick'[t].pc \notin Branching
    BY <1>5, IdleFacts DEF Crash, WellTyped, TypeOK, Branching
  <2>2. ParentsStay /\ \A r \in Stages : status'[r] = "ready" => status[r] = "ready"
    BY <2>1 DEF ParentsStay
  <2>3. QED
    BY <2>1, <2>2, ParentsStill
<1>6. QED
  BY <1>1, <1>2, <1>3, <1>4, <1>5 DEF Next

Ordered == setting.seedFirst /\ ~setting.stalls => RowsApart /\ ParentsFirst

\* compute_ready_stages: a stage is claimed only after its parent has succeeded,
\* however many processes tick on one database and wherever they crash, as long as
\* no tick is held up for longer than a lease: the completion of a stage is fenced
\* by its row, which nobody takes from the tick at work on it.
THEOREM ParentsRunFirst == Spec => []RunsAfterParent
<1>1. Init => Ordered
  BY RowsApartInit, ParentsFirstInit DEF Ordered
<1>2. WellTyped /\ WellTyped' /\ Seeded /\ Ordered /\ [Next]_vars => Ordered'
  <2> SUFFICES ASSUME WellTyped, WellTyped', Seeded, Ordered, [Next]_vars,
                      setting'.seedFirst, ~setting'.stalls
               PROVE  RowsApart' /\ ParentsFirst'
    BY DEF Ordered
  <2>1. setting.seedFirst /\ ~setting.stalls
    BY SettingStays
  <2>2. QED
    BY <2>1, RowsApartNext, ParentsFirstNext DEF Ordered
<1>3. WellTyped /\ Ordered => RunsAfterParent
  <2> SUFFICES ASSUME WellTyped, Ordered, setting.seedFirst, ~setting.stalls,
                      NEW s \in DOMAIN Parent, attempts[s] > 0
               PROVE  status[Parent[s]] = "succeeded"
    BY DEF RunsAfterParent
  <2>1. s \in Stages
    BY ParentFacts DEF Stages, Branches
  <2>2. QED
    BY <2>1 DEF Ordered, ParentsFirst, Licensed
<1>4. QED
  BY <1>1, <1>2, <1>3, WellTypedInit, WellTypedNext, SeededInit, SeededNext,
     PTL DEF Spec

-----------------------------------------------------------------------------
(* LifecycleSpec *)

Done == {"succeeded", "skipped", "failed_transient"}

AllPending == \A s \in Stages : status[s] = "pending"
AllDone == \A s \in Stages : status[s] \in Done

\* A workflow that nobody stops from outside is running for as long as its tick is
\* past the listing or one of its stages is running.  It is blocked before any
\* stage has moved, and found finished when none is left.
QuietAt(t) ==
  /\ tick[t].pc \notin {"idle", "sweep", "dead"} => wf = "running"
  /\ (\E s \in Stages : status[s] = "running") => wf = "running"
  /\ tick[t].pc \in {"check", "block"} \/ Unchecked => AllPending
  /\ tick[t].pc \in Driving => ~Unchecked
  /\ tick[t].pc = "finish" => AllDone

Quiet ==
  \A t \in Tickers :
    setting.tickers = {t} /\ setting.seedFirst /\ setting.stops = 0 => QuietAt(t)

LEMMA QuietInit == Init => Quiet
<1> SUFFICES ASSUME Init, NEW t \in Tickers PROVE QuietAt(t)
  BY DEF Quiet
<1>1. tick[t].pc = "idle" /\ wf = "running" /\ AllPending
  BY IdleFacts DEF Init, AllPending
<1>2. QED
  BY <1>1 DEF QuietAt, Driving, AtStage, Working, Branching

\* The count of unfinished stages is that of the whole pipeline.
LEMMA CountedOut ==
  ASSUME WellTyped, Seeded, setting.seedFirst, NEW t \in Tickers, CountUnfinished(t),
         tick'[t].pc = "finish"
  PROVE  AllDone
<1>1. InStatus(Unfinished) = {}
  BY CountUnfinishedDoes
<1>2. Inserted = Stages
  BY OnRecord DEF WellTyped, TypeOK, Seeded
<1>3. QED
  BY <1>1, <1>2 DEF InStatus, Unfinished, AllDone, Done, WellTyped, TypeOK, StageStatus

\* A step of the tick that moves neither a stage nor the workflow.
LEMMA QuietStill ==
  ASSUME NEW t \in Tickers, QuietAt(t), UNCHANGED <<wf, status>>,
         tick'[t].pc \notin {"idle", "sweep", "dead"} =>
           tick[t].pc \notin {"idle", "sweep", "dead"} \/ wf = "running",
         tick'[t].pc \in {"check", "block"} \/ Unchecked' =>
           tick[t].pc \in {"check", "block"} \/ Unchecked,
         tick'[t].pc \in Driving => ~Unchecked',
         tick'[t].pc = "finish" => AllDone
  PROVE  QuietAt(t)'
  BY DEF QuietAt, AllPending, AllDone

\* A step of the tick that moves a stage.
LEMMA QuietMove ==
  ASSUME TypeOK, NEW t \in Tickers, QuietAt(t), StageMoves(t), UNCHANGED <<wf, checks>>,
         tick[t].pc \in Driving, tick'[t].pc \in Driving, tick'[t].pc # "finish"
  PROVE  QuietAt(t)'
<1>1. wf = "running" /\ ~Unchecked
  BY DEF QuietAt, Driving, AtStage, Working, Branching
<1>2. wf' = "running" /\ ~Unchecked'
  BY <1>1 DEF Unchecked
<1>3. tick'[t].pc \notin {"check", "block"}
  BY DEF Driving, AtStage, Working, Branching
<1>4. QED
  BY <1>2, <1>3 DEF QuietAt

LEMMA QuietTick ==
  ASSUME WellTyped, Seeded, setting.seedFirst, NEW t \in Tickers, SoloAt(t), QuietAt(t),
         TickStep(t)
  PROVE  QuietAt(t)'
<1>1. TypeOK /\ PointedAt(t) /\ StageMoves(t)
  BY SoloTickMoves DEF WellTyped, Pointed
<1> USE DEF Driving, AtStage, Working, Branching
<1>2. CASE TickStart(t) \/ SweepAbandon(t)
  <2>1. UNCHANGED <<wf, status, checks>> /\ tick'[t].pc = "sweep"
    BY <1>2, TickStartDoes, SweepAbandonDoes
  <2>2. QED
    BY <2>1, QuietStill DEF Unchecked
<1>3. CASE SweepMove(t)
  <2>1. UNCHANGED <<wf, checks>> /\ tick[t].pc = "sweep" /\ tick'[t].pc = "sweep"
    BY <1>3, SweepMoveDoes
  <2>2. UNCHANGED status
    <3>1. \A s \in Stages : status[s] # "running"
      BY <1>3, <2>1, SweepMoveDoes DEF SoloAt, Local
    <3>2. QED
      BY <1>1, <1>3, <3>1, SweepMoveDoes DEF TypeOK
  <2>3. QED
    BY <2>1, <2>2, QuietStill DEF Unchecked
<1>4. CASE ListRunning(t)
  <2>1. UNCHANGED <<wf, status, checks>>
        /\ ((tick'[t].pc = "gate" /\ wf = "running") \/ tick'[t].pc = "idle")
    BY <1>4, ListRunningDoes
  <2>2. QED
    BY <2>1, QuietStill DEF Unchecked
<1>5. CASE Gate(t)
  <2>1. /\ UNCHANGED <<wf, status, checks>> /\ tick[t].pc = "gate"
        /\ IF Unchecked THEN tick'[t].pc = "check" ELSE tick'[t].pc = "compute"
    BY <1>5, GateDoes
  <2>2. QED
    BY <2>1, QuietStill DEF Unchecked
<1>6. CASE EvaluatePolicy(t)
  <2>1. /\ UNCHANGED <<wf, status>> /\ tick[t].pc = "check"
        /\ tick'[t].pc \in {"check", "block", "compute"}
    BY <1>6, EvaluatePolicyDoes
  <2>2. PICK p \in Policies, verdict \in Outcomes :
          checks' = [checks EXCEPT ![p] = IF checks[p] = "none" THEN verdict ELSE checks[p]]
    BY <1>6, EvaluatePolicyDoes
  <2>3. ~Unchecked'
    BY <1>1, <2>2 DEF Unchecked, Outcomes, TypeOK
  <2>4. QED
    BY <2>1, <2>3, QuietStill
<1>7. CASE Block(t)
  <2>1. /\ UNCHANGED <<status, checks>> /\ tick[t].pc = "block" /\ tick'[t].pc = "idle"
    BY <1>7, BlockDoes
  <2>2. QED
    BY <2>1 DEF QuietAt, AllPending
<1>8. CASE \/ SelectPending(t) \/ CheckEligible(t) \/ SelectReady(t) \/ InsertRow(t)
           \/ Execute(t) \/ CompleteRow(t) \/ SelectDependents(t) \/ NextStage(t)
  <2>1. /\ UNCHANGED <<wf, status, checks>> /\ tick[t].pc \in Driving
        /\ tick'[t].pc \in Driving /\ tick'[t].pc # "finish"
    BY <1>8, SelectPendingDoes, CheckEligibleDoes, SelectReadyDoes, InsertRowDoes,
       ExecuteDoes, CompleteRowDoes, SelectDependentsDoes, NextStageDoes
  <2> HIDE DEF Driving
  <2>2. QED
    BY <1>1, <2>1, QuietMove
<1>9. CASE ReadChild(t)
  <2>1. /\ UNCHANGED <<wf, status, checks>> /\ tick[t].pc \in Driving
        /\ tick'[t].pc \in Driving /\ tick'[t].pc # "finish"
    BY <1>9, ReadChildDoes
  <2> HIDE DEF Driving
  <2>2. QED
    BY <1>1, <2>1, QuietMove
<1>10. CASE MarkReady(t) \/ Claim(t) \/ CompleteStage(t) \/ DecideChild(t)
  <2>1. /\ UNCHANGED <<wf, checks>> /\ tick[t].pc \in Driving
        /\ tick'[t].pc \in Driving /\ tick'[t].pc # "finish"
    BY <1>10, MarkReadyDoes, ClaimDoes, CompleteStageDoes, DecideChildDoes
  <2> HIDE DEF Driving
  <2>2. QED
    BY <1>1, <2>1, QuietMove
<1>11. CASE CountUnfinished(t)
  <2>1. /\ UNCHANGED <<wf, status, checks>> /\ tick[t].pc = "claim"
        /\ tick'[t].pc \in {"finish", "idle"}
    BY <1>11, CountUnfinishedDoes
  <2>2. tick'[t].pc = "finish" => AllDone
    BY <1>11, CountedOut
  <2>3. ~Unchecked'
    BY <2>1 DEF QuietAt, Unchecked
  <2>4. QED
    BY <2>1, <2>2, <2>3, QuietStill
<1>12. CASE Finish(t)
  <2>1. /\ UNCHANGED <<status, checks>> /\ tick[t].pc = "finish" /\ tick'[t].pc = "idle"
    BY <1>12, FinishDoes
  <2>2. ~Unchecked' /\ \A s \in Stages : status'[s] # "running"
    BY <2>1 DEF QuietAt, Unchecked, AllDone, Done
  <2>3. QED
    BY <2>1, <2>2 DEF QuietAt
<1>13. QED
  BY <1>2, <1>3, <1>4, <1>5, <1>6, <1>7, <1>8, <1>9, <1>10, <1>11, <1>12 DEF TickStep

LEMMA QuietNext == WellTyped /\ Seeded /\ Solo /\ Quiet /\ [Next]_vars => Quiet'
<1> SUFFICES ASSUME WellTyped, Seeded, Solo, Quiet, [Next]_vars, NEW t \in Tickers,
                    setting'.tickers = {t}, setting'.seedFirst, setting'.stops = 0
             PROVE  QuietAt(t)'
  BY DEF Quiet
<1>1. /\ setting.tickers = {t} /\ setting.seedFirst /\ setting.stops = 0
      /\ SoloAt(t) /\ QuietAt(t) /\ TypeOK /\ PointedAt(t)
  BY SettingStays DEF Solo, Quiet, WellTyped, Pointed
<1>2. ASSUME NEW u \in Tickers, TickStep(u) PROVE QuietAt(t)'
  BY <1>1, <1>2, OnlyTick, QuietTick
<1>3. ASSUME NEW u \in Tickers, TickRaises(u) PROVE QuietAt(t)'
  <2>1. u = t
    BY <1>1, <1>3, OnlyTick
  <2>2. UNCHANGED <<wf, status, checks>> /\ tick'[t].pc = "dead"
    BY <1>3, <2>1, TickRaisesDoes
  <2>3. QED
    BY <1>1, <2>2, QuietStill DEF Unchecked, Driving, AtStage, Working, Branching
<1>4. CASE Seed \/ UNCHANGED vars
  <2>1. UNCHANGED <<wf, status, checks, tick>>
    BY <1>4 DEF Seed, vars
  <2>2. QED
    BY <1>1, <2>1 DEF QuietAt, Unchecked, AllPending, AllDone
<1>5. ASSUME SafeStop PROVE FALSE
  BY <1>1, <1>5 DEF SafeStop, TypeOK
<1>6. CASE Resume
  <2>1. UNCHANGED <<status, checks, tick>> /\ wf' = "running"
    BY <1>6 DEF Resume
  <2>2. QED
    BY <1>1, <2>1 DEF QuietAt, Unchecked, AllPending, AllDone
<1>7. CASE Crash
  <2>1. UNCHANGED <<wf, status, checks>> /\ tick'[t].pc = "idle"
    BY <1>1, <1>7, IdleFacts DEF Crash, TypeOK
  <2>2. QED
    BY <1>1, <2>1, QuietStill DEF Unchecked, Driving, AtStage, Working, Branching
<1>8. CASE Restart
  <2>1. /\ UNCHANGED <<wf, checks, tick>> /\ tick[t].pc = "idle"
        /\ \A s \in Stages : status'[s] = IF status[s] = "running" THEN "failed_transient"
                                                                  ELSE status[s]
    BY <1>1, <1>8 DEF Restart, RecoveredStatus, PointedAt
  <2>2. \A s \in Stages : status'[s] # "running"
    BY <2>1
  <2>3. Unchecked' => AllPending'
    BY <1>1, <2>1 DEF QuietAt, Unchecked, AllPending
  <2>4. QED
    BY <2>1, <2>2, <2>3 DEF QuietAt, Driving, AtStage, Working, Branching
<1>9. QED
  BY <1>2, <1>3, <1>4, <1>5, <1>6, <1>7, <1>8 DEF Next

\* A stage that moves while its workflow is running takes a step of the abstract
\* stage's life.
LEMMA LifeStep ==
  ASSUME Undisturbed, Undisturbed', wf = "running", UNCHANGED wf,
         NEW s \in Stages, NEW new, <<status[s], new>> \in LifeSteps,
         status' = [status EXCEPT ![s] = new]
  PROVE  Lifecycle!Next
<1>1. Lifecycle!StageStep(s)
  BY DEF Lifecycle!StageStep, Lifecycle!Move, LifeSteps
<1>2. QED
  BY <1>1 DEF Lifecycle!Next

\* The workflow moves by Block, Finish and Resume only.
LEMMA WorkflowMoves ==
  ASSUME WellTyped, NEW t \in Tickers, setting.tickers = {t}, setting.seedFirst,
         setting.stops = 0, QuietAt(t), Undisturbed, Undisturbed', Next, UNCHANGED status
  PROVE  UNCHANGED wf \/ Lifecycle!Next
<1>1. TypeOK
  BY DEF WellTyped
<1>2. ASSUME NEW u \in Tickers, TickStep(u) PROVE UNCHANGED wf \/ Lifecycle!Next
  <2>1. u = t
    BY <1>2, OnlyTick
  <2>2. CASE Block(t)
    <3>1. wf = "running" /\ AllPending /\ wf' = "safe_stopped"
      BY <2>2, BlockDoes DEF QuietAt
    <3>2. Lifecycle!SafeStop
      BY <3>1 DEF Lifecycle!SafeStop, AllPending
    <3>3. QED
      BY <3>2 DEF Lifecycle!Next
  <2>3. CASE Finish(t)
    <3>1. wf = "running" /\ AllDone /\ wf' = "completed"
      BY <2>3, FinishDoes DEF QuietAt
    <3>2. Lifecycle!Complete
      BY <3>1 DEF Lifecycle!Complete, Lifecycle!Finished, AllDone, Done
    <3>3. QED
      BY <3>2 DEF Lifecycle!Next
  <2>4. CASE ~Block(t) /\ ~Finish(t)
    BY <1>2, <2>1, <2>4 DEF TickStep, TickStart, SweepAbandon, SweepMove, ListRunning, Gate,
       EvaluatePolicy, SelectPending, CheckEligible, MarkReady, SelectReady, Claim,
       InsertRow, Execute, CompleteRow, CompleteStage, SelectDependents, ReadChild,
       DecideChild, NextStage, CountUnfinished
  <2>5. QED
    BY <2>2, <2>3, <2>4
<1>3. ASSUME Resume PROVE Lifecycle!Next
  <2>1. Lifecycle!Resume
    BY <1>3 DEF Resume, Lifecycle!Resume
  <2>2. QED
    BY <2>1 DEF Lifecycle!Next
<1>4. ASSUME SafeStop PROVE FALSE
  BY <1>1, <1>4 DEF SafeStop, TypeOK
<1>5. CASE Seed \/ Crash \/ Restart \/ \E u \in Tickers : TickRaises(u)
  BY <1>5 DEF Seed, Crash, Restart, TickRaises
<1>6. QED
  BY <1>2, <1>3, <1>4, <1>5 DEF Next

\* Every step of the scheduler is a step of the abstract life of the workflow, or
\* none.
LEMMA EveryStepIsALifeStep ==
  WellTyped /\ Solo /\ Quiet /\ [Next]_vars => [Lifecycle!Next]_(Lifecycle!vars)
<1> SUFFICES ASSUME WellTyped, Solo, Quiet, [Next]_vars
             PROVE  Lifecycle!Next \/ UNCHANGED Lifecycle!vars
  OBVIOUS
<1>1. Undisturbed' = Undisturbed
  BY SettingStays DEF Undisturbed, Alone, OneProcess
<1>2. CASE ~Undisturbed
  BY <1>1, <1>2 DEF Lifecycle!vars
<1>3. CASE UNCHANGED <<wf, status>>
  BY <1>1, <1>3 DEF Lifecycle!vars
<1>4. CASE Undisturbed /\ ~UNCHANGED <<wf, status>>
  <2>1. PICK t \in Tickers : setting.tickers = {t}
    BY <1>4 DEF Undisturbed, Alone, OneProcess
  <2>2. QuietAt(t) /\ setting.seedFirst /\ setting.stops = 0 /\ Undisturbed'
    BY <1>1, <1>4, <2>1 DEF Undisturbed, Alone, Quiet
  <2>3. Next
    BY <1>4 DEF vars
  <2>4. CASE UNCHANGED status
    BY <1>4, <2>1, <2>2, <2>3, <2>4, WorkflowMoves
  <2>5. CASE status' # status
    <3>1. StageMoves(t)
      BY <2>1, SoloMoves
    <3>2. PICK s \in Stages, new \in StageStatus :
            /\ <<status[s], new>> \in LifeSteps
            /\ status' = [status EXCEPT ![s] = new]
            /\ tick[t].pc \in Driving \/ status[s] = "running"
            /\ UNCHANGED wf
      BY <2>5, <3>1 DEF StageMoves
    <3>3. wf = "running"
      BY <2>2, <3>2 DEF QuietAt, Driving, AtStage, Working, Branching
    <3>4. QED
      BY <1>4, <2>2, <3>2, <3>3, LifeStep
  <2>6. QED
    BY <2>4, <2>5
<1>5. QED
  BY <1>2, <1>3, <1>4

\* The scheduler of one process implements WorkflowLifecycle: whatever ticks, crashes,
\* restarts and exceptions come between two statements, each stage goes through its
\* life once, moves only while the workflow is running, and the workflow completes
\* only when no stage has anything left to do.
THEOREM ImplementsLifecycle == Spec => LifecycleSpec
<1>1. Init => Lifecycle!Init
  BY DEF Init, Lifecycle!Init
<1>2. QED
  BY <1>1, EveryStepIsALifeStep, WellTypedInit, WellTypedNext, SeededInit, SeededNext,
     SoloInit, SoloNext, QuietInit, QuietNext, PTL DEF Spec, LifecycleSpec, Lifecycle!Spec

-----------------------------------------------------------------------------
(* OneBranchUntilCrash *)

\* What is left to decide of branch c after classify has succeeded is in the hands
\* of the tick that completed it, or of nobody.
InHand(t, c) ==
  \/ tick[t].pc = "dead"
  \/ tick[t].pc = "branch" /\ tick[t].stage = "classify"
  \/ tick[t].pc \in {"judge", "decide"} /\ c \in tick[t].kids
  \/ tick[t].pc = "decide" /\ c = tick[t].child

\* As long as the process has not crashed, no other tick finds a branch pending
\* below a stage that has succeeded: mark_ready is left with the stages that have
\* no condition, and the branches follow the decision of classify.
StraightAt(t) ==
  /\ up
  /\ \A s \in Stages : status[s] # "failed_transient"
  /\ status["hold_path"] \in {"pending", "skipped"}
  /\ status["proceed_path"] # "skipped"
  /\ tick[t].pc \in {"worked", "acked"} \union Branching /\ tick[t].stage = "classify" =>
       outcome = "proceed"
  /\ status["classify"] = "succeeded" =>
       \A c \in Branches : status[c] # "pending" \/ InHand(t, c)
  /\ tick[t].pc = "eligible" => \A s \in tick[t].found : ParentSucceeded(s)
  /\ tick[t].pc = "finish" \/ wf = "completed" => AllDone

Straight ==
  \A t \in Tickers :
    setting.tickers = {t} /\ setting.seedFirst /\ faults.crashes = 0 => StraightAt(t)

LEMMA StraightInit == Init => Straight
<1> SUFFICES ASSUME Init, NEW t \in Tickers PROVE StraightAt(t)
  BY DEF Straight
<1>1. /\ tick[t].pc = "idle" /\ wf = "running" /\ up
      /\ \A s \in Stages : status[s] = "pending"
  BY IdleFacts DEF Init
<1>2. QED
  BY <1>1 DEF StraightAt, Branching, Stages

\* A step of the tick that moves no stage and not the workflow.
LEMMA StraightStill ==
  ASSUME NEW t \in Tickers, StraightAt(t), Local(t), UNCHANGED <<wf, status>>,
         tick'[t].pc \in {"worked", "acked"} \union Branching /\ tick'[t].stage = "classify" =>
           outcome' = "proceed",
         status["classify"] = "succeeded" =>
           \A c \in Branches : status[c] = "pending" /\ InHand(t, c) => InHand(t, c)',
         tick'[t].pc = "eligible" => \A s \in tick'[t].found : ParentSucceeded(s),
         tick'[t].pc = "finish" => tick[t].pc = "finish" \/ AllDone
  PROVE  StraightAt(t)'
<1>1. up'
  BY DEF Local, envVars
<1>2. AllDone => AllDone'
  BY DEF AllDone
<1>3. ASSUME NEW s, ParentSucceeded(s) PROVE ParentSucceeded(s)'
  BY <1>3 DEF ParentSucceeded, Executed, Local
<1>4. QED
  BY <1>1, <1>2, <1>3 DEF StraightAt

\* A step of the tick that moves a stage: which of the statements it may be.
LEMMA StraightMove ==
  ASSUME TypeOK, NEW t \in Tickers, SoloAt(t), StraightAt(t), Local(t), UNCHANGED wf,
         NEW s \in Stages, NEW new \in StageStatus \ {"failed_transient"},
         <<status[s], new>> \in LifeSteps,
         status' = [status EXCEPT ![s] = new],
         s = "hold_path" => new = "skipped",
         s = "proceed_path" => new # "skipped",
         tick'[t].pc \in {"worked", "acked"} \union Branching /\ tick'[t].stage = "classify" =>
           outcome' = "proceed",
         s = "classify" /\ new = "succeeded" =>
           tick'[t].pc = "branch" /\ tick'[t].stage = "classify",
         \A c \in Branches : c # s /\ status[c] = "pending" /\ InHand(t, c) => InHand(t, c)',
         tick'[t].pc = "eligible" =>
           tick[t].pc = "eligible" /\ tick'[t].found \subseteq tick[t].found
             /\ status[s] # "succeeded",
         tick'[t].pc # "finish"
  PROVE  StraightAt(t)'
<1>1. \A r \in Stages : status'[r] = IF r = s THEN new ELSE status[r]
  BY DEF TypeOK
<1>2. Branches \subseteq Stages /\ "classify" \in Stages /\ "classify" \notin Branches
  BY DEF Branches, Stages
<1>3. new # "pending" /\ status[s] \notin Done
  BY DEF LifeSteps, Done
<1>4. up' /\ \A r \in Stages : status'[r] # "failed_transient"
  BY <1>1 DEF StraightAt, Local, envVars
<1>5. /\ status'["hold_path"] \in {"pending", "skipped"}
      /\ status'["proceed_path"] # "skipped"
  BY <1>1 DEF StraightAt, Stages
<1>6. ASSUME status'["classify"] = "succeeded", NEW c \in Branches
      PROVE  status'[c] # "pending" \/ InHand(t, c)'
  <2>1. CASE c = s
    BY <1>1, <1>2, <1>3, <2>1
  <2>2. CASE s = "classify"
    BY <1>1, <1>2, <1>6, <2>2 DEF InHand
  <2>3. CASE c # s /\ s # "classify"
    BY <1>1, <1>2, <1>6, <2>3 DEF StraightAt
  <2>4. QED
    BY <2>1, <2>2, <2>3
<1>7. ASSUME tick'[t].pc = "eligible", NEW r \in tick'[t].found PROVE ParentSucceeded(r)'
  <2>1. ParentSucceeded(r) /\ status[s] # "succeeded"
    BY <1>7 DEF StraightAt
  <2>2. seeded' = seeded /\ seeded \in 0..Len(Script)
    BY DEF Local, TypeOK
  <2>3. CASE Executed("edge", r)
    <3>1. Parent[r] \in Stages
      BY <2>2, <2>3, OnRecord, ParentFacts
    <3>2. status[Parent[r]] = "succeeded"
      BY <2>1, <2>3 DEF ParentSucceeded
    <3>3. QED
      BY <1>1, <2>1, <3>1, <3>2 DEF ParentSucceeded
  <2>4. CASE ~Executed("edge", r)
    BY <2>2, <2>4 DEF ParentSucceeded, Executed
  <2>5. QED
    BY <2>3, <2>4
<1>8. ~(tick'[t].pc = "finish" \/ wf' = "completed")
  BY <1>3 DEF StraightAt, AllDone
<1>9. QED
  BY <1>4, <1>5, <1>6, <1>7, <1>8 DEF StraightAt

\* No branch is made ready by mark_ready.
LEMMA FoundNoBranch ==
  ASSUME WellTyped, Seeded, setting.seedFirst, NEW t \in Tickers, SoloAt(t), StraightAt(t),
         tick[t].pc = "eligible", NEW s \in tick[t].found
  PROVE  s \notin Branches
<1> SUFFICES ASSUME s \in Branches PROVE FALSE
  OBVIOUS
<1>1. Executed("edge", s) /\ Parent[s] = "classify"
  BY OnRecord, ParentFacts DEF WellTyped, TypeOK, Seeded
<1>2. status["classify"] = "succeeded"
  BY <1>1 DEF StraightAt, ParentSucceeded
<1>3. status[s] = "pending"
  BY DEF SoloAt
<1>4. InHand(t, s)
  BY <1>2, <1>3 DEF StraightAt
<1>5. QED
  BY <1>4 DEF InHand

LEMMA StraightTick ==
  ASSUME WellTyped, WellTyped', Seeded, setting.seedFirst, NEW t \in Tickers,
         SoloAt(t), StraightAt(t), TickStep(t)
  PROVE  StraightAt(t)'
<1>1. TypeOK /\ PointedAt(t)
  BY DEF WellTyped, Pointed
<1> USE DEF Branching
<1>2. CASE \/ TickStart(t) \/ SweepAbandon(t) \/ ListRunning(t) \/ Gate(t)
           \/ EvaluatePolicy(t) \/ SelectPending(t) \/ SelectReady(t)
           \/ InsertRow(t)
  <2>1. /\ Local(t) /\ UNCHANGED <<wf, status, outcome>>
        /\ tick'[t].pc \notin {"worked", "acked", "branch", "judge", "decide", "finish"}
        /\ tick[t].pc \notin {"dead", "branch", "judge", "decide"}
        /\ tick'[t].pc = "eligible" => tick[t].pc = "compute" /\ tick'[t].found = {}
    BY <1>1, <1>2, TickStartDoes, SweepAbandonDoes, ListRunningDoes, GateDoes,
       EvaluatePolicyDoes, SelectPendingDoes, SelectReadyDoes, InsertRowDoes
       DEF PointedAt
  <2>2. \A c \in Branches : ~InHand(t, c)
    BY <2>1 DEF InHand
  <2>3. QED
    BY <2>1, <2>2, StraightStill
<1>3. CASE SweepMove(t)
  <2>1. Local(t) /\ UNCHANGED wf /\ tick[t].pc = "sweep" /\ tick'[t].pc = "sweep"
    BY <1>3, SweepMoveDoes
  <2>2. UNCHANGED status
    <3>1. \A s \in Stages : status[s] # "running"
      BY <2>1 DEF SoloAt, Local, Working
    <3>2. QED
      BY <1>1, <1>3, <3>1, SweepMoveDoes DEF TypeOK
  <2>3. \A c \in Branches : ~InHand(t, c)
    BY <2>1 DEF InHand
  <2>4. QED
    BY <2>1, <2>2, <2>3, StraightStill
<1>4. CASE Block(t)
  <2>1. /\ Local(t) /\ UNCHANGED status /\ tick[t].pc = "block" /\ tick'[t].pc = "idle"
        /\ wf' = "safe_stopped" /\ up'
    BY <1>4, BlockDoes DEF Local, envVars
  <2>2. QED
    BY <2>1 DEF StraightAt, InHand
<1>5. CASE CheckEligible(t)
  <2>1. Local(t) /\ UNCHANGED <<wf, status>>
        /\ tick[t].pc = "eligible" /\ tick'[t].pc = "eligible"
    BY <1>5, CheckEligibleDoes
  <2>2. \A s \in tick'[t].found : ParentSucceeded(s)
    BY <1>5, <2>1, CheckEligibleDoes DEF StraightAt
  <2>3. \A c \in Branches : ~InHand(t, c)
    BY <2>1 DEF InHand
  <2>4. QED
    BY <2>1, <2>2, <2>3, StraightStill
<1>6. CASE MarkReady(t)
  <2>1. Local(t) /\ UNCHANGED wf
        /\ tick[t].pc = "eligible" /\ tick'[t].pc = "eligible"
    BY <1>6, MarkReadyDoes
  <2>2. PICK s \in tick[t].found :
          /\ tick'[t].found = tick[t].found \ {s}
          /\ s \in Stages
          /\ status' = [status EXCEPT ![s] =
                          IF status[s] = "pending" THEN "ready" ELSE status[s]]
    BY <1>6, MarkReadyDoes
  <2>3. status[s] = "pending" /\ s \notin Branches
    BY <2>1, FoundNoBranch DEF SoloAt
  <2>4. status' = [status EXCEPT ![s] = "ready"]
    BY <2>2, <2>3
  <2>5. /\ <<status[s], "ready">> \in LifeSteps
        /\ "ready" \in StageStatus \ {"failed_transient"}
        /\ s # "hold_path" /\ s # "proceed_path"
    BY <2>3 DEF LifeSteps, StageStatus, Branches
  <2>6. \A c \in Branches : ~InHand(t, c)
    BY <2>1 DEF InHand
  <2>7. tick'[t].found \subseteq tick[t].found /\ status[s] # "succeeded"
    BY <2>2, <2>3
  <2>8. QED
    BY <1>1, <2>1, <2>2, <2>4, <2>5, <2>6, <2>7, StraightMove
<1>7. CASE Claim(t)
  <2>1. Local(t) /\ UNCHANGED wf /\ tick[t].pc = "claim" /\ tick'[t].pc \in {"claim", "won"}
    BY <1>7, ClaimDoes
  <2>2. \A c \in Branches : ~InHand(t, c)
    BY <2>1 DEF InHand
  <2>3. CASE UNCHANGED status
    BY <2>1, <2>2, <2>3, StraightStill
  <2>4. ASSUME NEW s \in Stages, status[s] = "ready",
               status' = [status EXCEPT ![s] = "running"]
        PROVE  StraightAt(t)'
    <3>1. /\ <<status[s], "running">> \in LifeSteps
          /\ "running" \in StageStatus \ {"failed_transient"}
          /\ s # "hold_path"
      BY <2>4 DEF LifeSteps, StageStatus, StraightAt
    <3>2. QED
      BY <1>1, <2>1, <2>2, <2>4, <3>1, StraightMove
  <2>5. QED
    BY <1>7, <2>3, <2>4, ClaimDoes
<1>8. CASE Execute(t)
  <2>1. /\ Local(t) /\ UNCHANGED <<wf, status>>
        /\ tick[t].pc = "work" /\ tick'[t].pc = "worked" /\ tick'[t].stage = tick[t].stage
        /\ tick[t].stage = "classify" => outcome' = "proceed"
    BY <1>8, ExecuteDoes
  <2>2. \A c \in Branches : ~InHand(t, c)
    BY <2>1 DEF InHand
  <2>3. QED
    BY <2>1, <2>2, StraightStill
<1>9. CASE CompleteRow(t)
  <2>1. /\ Local(t) /\ UNCHANGED <<wf, status, outcome>>
        /\ tick[t].pc = "worked" /\ tick'[t].pc = "acked" /\ tick'[t].stage = tick[t].stage
    BY <1>9, CompleteRowDoes DEF SoloAt
  <2>2. \A c \in Branches : ~InHand(t, c)
    BY <2>1 DEF InHand
  <2>3. tick[t].stage = "classify" => outcome' = "proceed"
    BY <2>1 DEF StraightAt
  <2>4. QED
    BY <2>1, <2>2, <2>3, StraightStill
<1>10. CASE CompleteStage(t)
  <2> DEFINE s == tick[t].stage
  <2>1. /\ Local(t) /\ UNCHANGED <<wf, outcome>>
        /\ tick[t].pc = "acked" /\ tick'[t].pc = "branch" /\ tick'[t].stage = s
        /\ status' = [status EXCEPT ![s] = "succeeded"]
    BY <1>10, CompleteStageDoes
  <2>2. s \in Stages /\ status[s] = "running"
    BY <1>1, <2>1 DEF SoloAt, PointedAt, AtStage, Working
  <2>3. s = "classify" => outcome' = "proceed"
    BY <2>1 DEF StraightAt
  <2> HIDE DEF s
  <2>4. /\ <<status[s], "succeeded">> \in LifeSteps
        /\ "succeeded" \in StageStatus \ {"failed_transient"}
        /\ s # "hold_path"
    BY <2>2 DEF LifeSteps, StageStatus, StraightAt
  <2>5. \A c \in Branches : ~InHand(t, c)
    BY <2>1 DEF InHand
  <2>6. QED
    BY <1>1, <2>1, <2>2, <2>3, <2>4, <2>5, StraightMove
<1>11. CASE SelectDependents(t)
  <2>1. /\ Local(t) /\ UNCHANGED <<wf, status, outcome>>
        /\ tick[t].pc = "branch" /\ tick'[t].pc = "judge" /\ tick'[t].stage = tick[t].stage
        /\ tick'[t].kids = {s \in DOMAIN Parent :
                              Executed("edge", s) /\ Parent[s] = tick[t].stage}
    BY <1>11, SelectDependentsDoes
  <2>2. ASSUME NEW c \in Branches, InHand(t, c) PROVE InHand(t, c)'
    <3>1. tick[t].stage = "classify"
      BY <2>1, <2>2 DEF InHand
    <3>2. c \in DOMAIN Parent /\ Parent[c] = "classify" /\ Executed("edge", c)
      BY <1>1, OnRecord, ParentFacts DEF Seeded, TypeOK
    <3>3. c \in tick'[t].kids
      BY <2>1, <3>1, <3>2
    <3>4. QED
      BY <2>1, <3>3 DEF InHand
  <2>3. tick[t].stage = "classify" => outcome' = "proceed"
    BY <2>1 DEF StraightAt
  <2>4. QED
    BY <2>1, <2>2, <2>3, StraightStill
<1>12. CASE ReadChild(t)
  <2>1. /\ Local(t) /\ UNCHANGED <<wf, status, outcome>>
        /\ tick[t].pc = "judge" /\ tick'[t].pc \in {"judge", "decide"}
        /\ tick'[t].stage = tick[t].stage
    BY <1>12, ReadChildDoes
  <2>2. PICK k \in tick[t].kids :
          /\ tick'[t].kids = tick[t].kids \ {k}
          /\ \/ tick'[t].pc = "decide" /\ tick'[t].child = k /\ Undecided(k)
             \/ tick'[t].pc = "judge" /\ ~Undecided(k)
    BY <1>12, ReadChildDoes
  <2>3. ASSUME NEW c \in Branches, status[c] = "pending", InHand(t, c) PROVE InHand(t, c)'
    <3>1. c \in tick[t].kids
      BY <2>1, <2>3 DEF InHand
    <3>2. Conditional(c)
      BY <1>1, OnRecord DEF Seeded, TypeOK
    <3>3. CASE c = k
      BY <2>2, <2>3, <3>2, <3>3 DEF InHand, Undecided
    <3>4. CASE c # k
      BY <2>1, <2>2, <3>1, <3>4 DEF InHand
    <3>5. QED
      BY <3>3, <3>4
  <2>4. tick[t].stage = "classify" => outcome' = "proceed"
    BY <2>1 DEF StraightAt
  <2>5. QED
    BY <2>1, <2>3, <2>4, StraightStill
<1>13. CASE DecideChild(t)
  <2> DEFINE k == tick[t].child
             new == BranchStatus(k)
  <2>1. /\ Local(t) /\ UNCHANGED <<wf, outcome>>
        /\ tick[t].pc = "decide" /\ tick'[t].pc = "judge" /\ tick'[t].stage = tick[t].stage
        /\ tick'[t].kids = tick[t].kids
        /\ k \in Branches /\ k \in Stages
        /\ status' = [status EXCEPT ![k] = new]
    BY <1>13, DecideChildDoes
  <2>2. tick[t].stage = "classify" /\ outcome = "proceed" /\ status[k] = "pending"
    BY <1>1, <2>1 DEF PointedAt, StraightAt, SoloAt
  <2>3. /\ k = "proceed_path" => new = "ready"
        /\ k = "hold_path" => new = "skipped"
    BY <2>2 DEF BranchStatus, Wants
  <2>4. ASSUME NEW c \in Branches, c # k, InHand(t, c) PROVE InHand(t, c)'
    BY <2>1, <2>4 DEF InHand
  <2> HIDE DEF k, new
  <2>5. /\ <<status[k], new>> \in LifeSteps
        /\ new \in StageStatus \ {"failed_transient"}
        /\ k # "classify"
    BY <2>1, <2>2, <2>3 DEF LifeSteps, StageStatus, Branches
  <2>6. QED
    BY <1>1, <2>1, <2>2, <2>3, <2>4, <2>5, StraightMove
<1>14. CASE NextStage(t)
  <2>1. /\ Local(t) /\ UNCHANGED <<wf, status>>
        /\ tick[t].pc = "judge" /\ tick[t].kids = {} /\ tick'[t].pc = "claim"
    BY <1>14, NextStageDoes
  <2>2. \A c \in Branches : ~InHand(t, c)
    BY <2>1 DEF InHand
  <2>3. QED
    BY <2>1, <2>2, StraightStill
<1>15. CASE CountUnfinished(t)
  <2>1. /\ Local(t) /\ UNCHANGED <<wf, status>>
        /\ tick[t].pc = "claim" /\ tick'[t].pc \in {"finish", "idle"}
    BY <1>15, CountUnfinishedDoes
  <2>2. tick'[t].pc = "finish" => AllDone
    BY <1>15, CountedOut
  <2>3. \A c \in Branches : ~InHand(t, c)
    BY <2>1 DEF InHand
  <2>4. QED
    BY <2>1, <2>2, <2>3, StraightStill
<1>16. CASE Finish(t)
  <2>1. /\ Local(t) /\ UNCHANGED status /\ up'
        /\ tick[t].pc = "finish" /\ tick'[t].pc = "idle"
    BY <1>16, FinishDoes DEF Local, envVars
  <2>2. AllDone'
    BY <2>1 DEF StraightAt, AllDone
  <2>3. QED
    BY <2>1, <2>2 DEF StraightAt, InHand
<1>17. QED
  BY <1>2, <1>3, <1>4, <1>5, <1>6, <1>7, <1>8, <1>9, <1>10, <1>11, <1>12, <1>13, <1>14,
     <1>15, <1>16 DEF TickStep

LEMMA StraightNext ==
  WellTyped /\ WellTyped' /\ Seeded /\ Solo /\ Straight /\ [Next]_vars => Straight'
<1> SUFFICES ASSUME WellTyped, WellTyped', Seeded, Solo, Straight, [Next]_vars,
                    NEW t \in Tickers, setting'.tickers = {t}, setting'.seedFirst,
                    faults'.crashes = 0
             PROVE  StraightAt(t)'
  BY DEF Straight
<1>1. /\ setting.tickers = {t} /\ setting.seedFirst /\ SoloAt(t) /\ TypeOK
      /\ faults.crashes = 0 => StraightAt(t)
  BY SettingStays DEF Solo, Straight, WellTyped
<1>2. ASSUME NEW u \in Tickers, TickStep(u) PROVE StraightAt(t)'
  <2>1. u = t
    BY <1>1, <1>2, OnlyTick
  <2>2. UNCHANGED faults
    BY <1>2 DEF TickStep, TickStart, SweepAbandon, SweepMove, ListRunning, Gate,
       EvaluatePolicy, Block, SelectPending, CheckEligible, MarkReady, SelectReady, Claim,
       InsertRow, Execute, CompleteRow, CompleteStage, SelectDependents, ReadChild,
       DecideChild, NextStage, CountUnfinished, Finish, envVars
  <2>3. QED
    BY <1>1, <1>2, <2>1, <2>2, StraightTick
<1>3. ASSUME NEW u \in Tickers, TickRaises(u) PROVE StraightAt(t)'
  <2>1. u = t
    BY <1>1, <1>3, OnlyTick
  <2>2. /\ UNCHANGED <<wf, status, up>> /\ tick'[t].pc = "dead"
        /\ faults'.crashes = faults.crashes
    BY <1>1, <1>3, <2>1, TickRaisesDoes DEF TypeOK
  <2>3. QED
    BY <1>1, <2>2 DEF StraightAt, InHand, AllDone, Branching
<1>4. CASE Seed \/ UNCHANGED vars
  <2>1. UNCHANGED <<wf, status, outcome, tick, faults, up>>
        /\ (UNCHANGED seeded \/ seeded' = seeded + 1)
    BY <1>4 DEF Seed, vars, envVars
  <2>2. UNCHANGED seeded
    BY <1>1, <1>4, ScriptEntries DEF Seed, Seeded, vars
  <2>3. QED
    BY <1>1, <2>1, <2>2 DEF StraightAt, InHand, AllDone, ParentSucceeded, Executed
<1>5. CASE SafeStop \/ Resume
  <2>1. /\ UNCHANGED <<status, seeded, outcome, tick, up>>
        /\ faults'.crashes = faults.crashes
        /\ wf' # "completed"
    BY <1>1, <1>5 DEF SafeStop, Resume, TypeOK
  <2>2. QED
    BY <1>1, <2>1 DEF StraightAt, InHand, AllDone, ParentSucceeded, Executed
<1>6. ASSUME Crash PROVE FALSE
  <2>1. faults.crashes \in Nat /\ faults'.crashes = faults.crashes + 1
    BY <1>1, <1>6, SettingFacts DEF Crash, TypeOK
  <2>2. QED
    BY <2>1
<1>7. ASSUME Restart PROVE FALSE
  BY <1>1, <1>7 DEF Restart, StraightAt
<1>8. QED
  BY <1>2, <1>3, <1>4, <1>5, <1>6, <1>7 DEF Next

\* add_conditional_branch: of the two branches at most one is taken, and a completed
\* workflow has taken one, as long as no crash and no other process comes between
\* the completion of classify and its decision; also if a tick raises there, or the
\* workflow is stopped and resumed.
THEOREM BranchesExclude == Spec => []OneBranchUntilCrash
<1>1. WellTyped /\ Straight => OneBranchUntilCrash
  <2> SUFFICES ASSUME WellTyped, NEW t \in Tickers, StraightAt(t) PROVE ExactlyOneBranch
    BY DEF Straight, OneBranchUntilCrash, Alone, OneProcess
  <2>1. status["hold_path"] \notin Taken
    BY DEF StraightAt, Taken
  <2>2. wf = "completed" => status["proceed_path"] \in Taken
    BY DEF StraightAt, AllDone, Done, Taken, Stages
  <2>3. QED
    BY <2>1, <2>2 DEF ExactlyOneBranch
<1>2. QED
  BY <1>1, WellTypedInit, WellTypedNext, SeededInit, SeededNext, SoloInit, SoloNext,
     StraightInit, StraightNext, PTL DEF Spec

=============================================================================
