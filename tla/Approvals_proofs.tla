-------------------------- MODULE Approvals_proofs ---------------------------
(***************************************************************************)
(* Proofs about Approvals, for any gates, requests, runs of bootstrap and   *)
(* faults.                                                                  *)
(*                                                                         *)
(* A token is named by its run, and runs only move forward: a token that is *)
(* void can therefore not come back.  What a request has been cleared for   *)
(* does not change after it was presented.                                  *)
(***************************************************************************)
EXTENDS Approvals, TLAPS

bootVars == <<files, boot, runs, printed, mixed>>
reqVars  == <<req, decisions, audit, revoked>>

LEMMA RestStates ==
  /\ IdleBoot \in BootState /\ IdleBoot.pc = "idle"
  /\ IdleReq \in ReqState /\ IdleReq.pc = "idle" /\ IdleReq.token = 0
  BY ApprovalsAssumption DEF IdleBoot, BootState, IdleReq, ReqState, Identities

\* A step that moves run b to another pc.
LEMMA BootMoves ==
  ASSUME TypeOK, NEW b \in Bootstraps, NEW pc \in {"raw", "dump", "hash", "store"},
         boot' = [boot EXCEPT ![b].pc = pc]
  PROVE  /\ boot' \in [Bootstraps -> BootState]
         /\ boot'[b].pc = pc /\ boot'[b].run = boot[b].run /\ boot'[b].force = boot[b].force
         /\ \A c \in Bootstraps : c # b => boot'[c] = boot[c]
  BY DEF TypeOK, BootState

LEMMA BootEnds ==
  ASSUME TypeOK, NEW b \in Bootstraps, boot' = [boot EXCEPT ![b] = IdleBoot]
  PROVE  /\ boot' \in [Bootstraps -> BootState]
         /\ boot'[b].pc = "idle"
         /\ \A c \in Bootstraps : c # b => boot'[c] = boot[c]
  BY RestStates DEF TypeOK

\* A step that moves request r to another pc.
LEMMA ReqMoves ==
  ASSUME TypeOK, NEW r \in Requests, NEW pc, Goto(r, pc),
         pc \in {"verify", "refused", "allowed", "insert", "decided", "answered",
                 "rejected", "unknown", "failed"}
  PROVE  /\ req' \in [Requests -> ReqState]
         /\ req'[r].pc = pc /\ req'[r].gate = req[r].gate
         /\ req'[r].identity = req[r].identity /\ req'[r].token = req[r].token
         /\ \A q \in Requests : q # r => req'[q] = req[q]
  BY DEF TypeOK, ReqState, Goto

-----------------------------------------------------------------------------
(* Types, and that no token is of a run to come *)

Known ==
  /\ raw \in -1..runs
  /\ hashed \in -1..runs
  /\ printed \subseteq 1..runs
  /\ \A b \in Writing : boot[b].run \in 1..runs
  /\ \A r \in Requests : req[r].token \in 0..runs

WellTyped == TypeOK /\ Known

LEMMA WellTypedInit == Init => WellTyped
<1> SUFFICES ASSUME Init PROVE WellTyped
  OBVIOUS
<1>1. TypeOK
  <2>1. 0 \in File /\ 0 \in 0..MaxRuns /\ 0 \in 0..MaxFaults
    BY ApprovalsAssumption DEF File
  <2>2. boot \in [Bootstraps -> BootState] /\ req \in [Requests -> ReqState]
    BY RestStates DEF Init
  <2>3. QED
    BY <2>1, <2>2 DEF Init, TypeOK, Absent
<1>2. Known
  BY RestStates DEF Init, Known, Writing, Absent
<1>3. QED
  BY <1>1, <1>2 DEF WellTyped

LEMMA WellTypedBoot ==
  ASSUME WellTyped, NEW b \in Bootstraps, BootStep(b)
  PROVE  WellTyped'
<1> USE DEF WellTyped
<1>1. /\ TypeOK /\ runs \in Nat /\ MaxRuns \in Nat /\ runs <= MaxRuns
      /\ raw \in -1..runs /\ hashed \in -1..runs /\ printed \subseteq 1..runs
      /\ b \in Writing => boot[b].run \in 1..runs
  BY ApprovalsAssumption DEF TypeOK, Known
\* A step that begins no run.
<1>2. ASSUME UNCHANGED <<runs, req, decisions, audit, revoked>>,
             boot' \in [Bootstraps -> BootState],
             \A c \in Writing' : c \in Writing /\ boot'[c].run = boot[c].run,
             raw' \in -1..runs, hashed' \in -1..runs, printed' \subseteq 1..runs,
             faults' \in 0..MaxFaults, mixed' \in BOOLEAN
      PROVE  WellTyped'
  <2>1. TypeOK'
    BY <1>1, <1>2 DEF TypeOK, File
  <2>2. Known'
    BY <1>2 DEF Known
  <2>3. QED
    BY <2>1, <2>2
<1>3. CASE BeginBootstrap(b)
  <2>1. PICK force \in BOOLEAN :
          boot' = [boot EXCEPT ![b] = [pc |-> "raw", run |-> runs + 1, force |-> force]]
    BY <1>3 DEF BeginBootstrap
  <2>2. runs' = runs + 1 /\ runs + 1 \in 1..MaxRuns
    BY <1>1, <1>3 DEF BeginBootstrap
  <2>3. /\ boot' \in [Bootstraps -> BootState]
        /\ boot'[b].run = runs + 1
        /\ \A c \in Bootstraps : c # b => boot'[c] = boot[c]
    BY <2>1, <2>2 DEF TypeOK, BootState
  <2>4. /\ mixed' \in BOOLEAN
        /\ UNCHANGED <<files, req, decisions, audit, faults, printed, revoked>>
    BY <1>3 DEF BeginBootstrap
  <2>5. TypeOK'
    BY <1>1, <2>2, <2>3, <2>4 DEF TypeOK, files
  <2>6. \A c \in Writing' : boot'[c].run \in 1..(runs + 1)
    BY <1>1, <2>3 DEF Known, Writing
  <2>7. Known'
    BY <1>1, <2>2, <2>4, <2>6 DEF Known, files
  <2>8. QED
    BY <2>5, <2>7
<1>4. CASE TruncateRaw(b)
  <2>1. boot' = [boot EXCEPT ![b].pc = "dump"] /\ boot[b].pc # "idle" /\ raw' = -1
    BY <1>4 DEF TruncateRaw, Empty
  <2>2. /\ boot' \in [Bootstraps -> BootState]
        /\ \A c \in Writing' : c \in Writing /\ boot'[c].run = boot[c].run
    BY <1>1, <2>1, BootMoves DEF Writing
  <2>3. /\ UNCHANGED <<hashed, runs, req, decisions, audit, revoked, printed, faults, mixed>>
        /\ raw' \in -1..runs
    BY <1>1, <1>4, <2>1 DEF TruncateRaw
  <2>4. QED
    BY <1>1, <1>2, <2>2, <2>3 DEF TypeOK
<1>5. CASE WriteRaw(b)
  <2>1. boot' = [boot EXCEPT ![b].pc = "hash"] /\ b \in Writing /\ raw' = boot[b].run
    BY <1>5 DEF WriteRaw, TokensOf, Writing
  <2>2. /\ boot' \in [Bootstraps -> BootState]
        /\ \A c \in Writing' : c \in Writing /\ boot'[c].run = boot[c].run
    BY <1>1, <2>1, BootMoves DEF Writing
  <2>3. /\ UNCHANGED <<hashed, runs, req, decisions, audit, revoked, printed, faults, mixed>>
        /\ raw' \in -1..runs
    BY <1>1, <1>5, <2>1 DEF WriteRaw
  <2>4. QED
    BY <1>1, <1>2, <2>2, <2>3 DEF TypeOK
<1>6. CASE TruncateHashed(b)
  <2>1. boot' = [boot EXCEPT ![b].pc = "store"] /\ boot[b].pc # "idle" /\ hashed' = -1
    BY <1>6 DEF TruncateHashed, Empty
  <2>2. /\ boot' \in [Bootstraps -> BootState]
        /\ \A c \in Writing' : c \in Writing /\ boot'[c].run = boot[c].run
    BY <1>1, <2>1, BootMoves DEF Writing
  <2>3. /\ UNCHANGED <<raw, runs, req, decisions, audit, revoked, printed, faults, mixed>>
        /\ hashed' \in -1..runs
    BY <1>1, <1>6, <2>1 DEF TruncateHashed
  <2>4. QED
    BY <1>1, <1>2, <2>2, <2>3 DEF TypeOK
<1>7. CASE WriteHashed(b)
  <2>1. /\ boot' = [boot EXCEPT ![b] = IdleBoot] /\ b \in Writing /\ hashed' = boot[b].run
        /\ printed' = printed \union {boot[b].run}
    BY <1>7 DEF WriteHashed, Handed, Writing
  <2>2. /\ boot' \in [Bootstraps -> BootState]
        /\ \A c \in Writing' : c \in Writing /\ boot'[c].run = boot[c].run
    BY <1>1, <2>1, BootEnds DEF Writing
  <2>3. /\ UNCHANGED <<raw, runs, req, decisions, audit, revoked, faults, mixed>>
        /\ hashed' \in -1..runs /\ printed' \subseteq 1..runs
    <3>1. boot[b].run \in 1..runs /\ boot[b].run \in -1..runs
      BY <1>1, <2>1
    <3>2. QED
      BY <1>1, <1>7, <2>1, <3>1 DEF WriteHashed
  <2>4. QED
    BY <1>1, <1>2, <2>2, <2>3 DEF TypeOK
<1>8. CASE BootstrapDies(b)
  <2>1. faults' \in 0..MaxFaults
    BY <1>8, ApprovalsAssumption DEF BootstrapDies, TypeOK
  <2>2. boot' = [boot EXCEPT ![b] = IdleBoot]
    BY <1>8 DEF BootstrapDies
  <2>3. QED
    BY <1>1, <1>2, <1>8, <2>1, <2>2, BootEnds DEF BootstrapDies, files, Writing
<1>9. QED
  BY <1>3, <1>4, <1>5, <1>6, <1>7, <1>8 DEF BootStep

\* The steps of a request, seen from its record: it is presented, or moves on.
LEMMA ReqSteps ==
  ASSUME WellTyped, NEW r \in Requests, RequestStep(r)
  PROVE  /\ UNCHANGED bootVars
         /\ faults' \in 0..MaxFaults /\ faults <= faults'
         /\ req' \in [Requests -> ReqState]
         /\ \A q \in Requests : q # r => req'[q] = req[q]
         /\ req'[r].token \in 0..runs
         /\ \/ Present(r)
            \/ /\ req[r].pc # "idle" /\ req'[r].pc # "idle"
               /\ req'[r].gate = req[r].gate /\ req'[r].identity = req[r].identity
               /\ req'[r].token = req[r].token /\ UNCHANGED revoked
<1> USE DEF WellTyped
<1>1. CASE Present(r)
  <2>1. PICK gate \in Gates, i \in Identities, token \in Held :
          req' = [req EXCEPT ![r] = [pc |-> "verify", gate |-> gate,
                                     identity |-> i, token |-> token]]
    BY <1>1 DEF Present
  <2>2. token \in 0..runs
    BY ApprovalsAssumption DEF Held, Known, Absent, Empty, TypeOK
  <2>3. token \in 0..MaxRuns
    BY <2>2, ApprovalsAssumption DEF TypeOK
  <2>4. req' \in [Requests -> ReqState] /\ req'[r].token = token
        /\ \A q \in Requests : q # r => req'[q] = req[q]
    BY <2>1, <2>3 DEF TypeOK, ReqState
  <2>5. UNCHANGED bootVars /\ UNCHANGED faults
    BY <1>1 DEF Present, bootVars, files
  <2>6. QED
    BY <1>1, <2>2, <2>4, <2>5, ApprovalsAssumption DEF TypeOK
<1>2. CASE ~Present(r)
  <2>1. /\ req[r].pc # "idle"
        /\ \E pc \in {"refused", "allowed", "insert", "decided", "answered",
                      "rejected", "unknown", "failed"} : Goto(r, pc)
        /\ UNCHANGED revoked /\ UNCHANGED bootVars
    BY <1>2 DEF RequestStep, Authorize, AuditRefusal, LookUpWorkflow, InsertDecision,
       AuditDecision, RequestFails, InFlight, bootVars, files
  <2>2. faults' \in 0..MaxFaults /\ faults <= faults'
    <3>1. UNCHANGED faults \/ (faults < MaxFaults /\ faults' = faults + 1)
      BY <1>2 DEF RequestStep, Authorize, AuditRefusal, LookUpWorkflow, InsertDecision,
         AuditDecision, RequestFails
    <3>2. QED
      BY <3>1, ApprovalsAssumption DEF TypeOK
  <2>3. PICK pc \in {"refused", "allowed", "insert", "decided", "answered",
                     "rejected", "unknown", "failed"} : Goto(r, pc)
    BY <2>1
  <2>4. req[r].token \in 0..runs
    BY DEF Known
  <2>5. QED
    BY <2>1, <2>2, <2>3, <2>4, ReqMoves
<1>3. QED
  BY <1>1, <1>2

LEMMA WellTypedNext == WellTyped /\ [Next]_vars => WellTyped'
<1> SUFFICES ASSUME WellTyped, [Next]_vars PROVE WellTyped'
  OBVIOUS
<1>1. ASSUME NEW b \in Bootstraps, BootStep(b) PROVE WellTyped'
  BY <1>1, WellTypedBoot
<1>2. ASSUME NEW r \in Requests, RequestStep(r) PROVE WellTyped'
  <2>1. /\ decisions' \in SUBSET Requests /\ audit' \in SUBSET Requests
        /\ revoked' \in SUBSET Requests
    BY <1>2 DEF RequestStep, Present, Authorize, AuditRefusal, LookUpWorkflow,
       InsertDecision, AuditDecision, Audited, RequestFails, WellTyped, TypeOK
  <2>2. TypeOK'
    BY <1>2, <2>1, ReqSteps DEF WellTyped, TypeOK, bootVars, files
  <2>3. Known'
    BY <1>2, ReqSteps DEF WellTyped, Known, bootVars, files, Writing
  <2>4. QED
    BY <2>2, <2>3 DEF WellTyped
<1>3. CASE Crash
  <2>1. /\ req' \in [Requests -> ReqState]
        /\ \A r \in Requests : req'[r].token = req[r].token
    BY <1>3 DEF Crash, WellTyped, TypeOK, ReqState
  <2>2. faults' \in 0..MaxFaults
    BY <1>3, ApprovalsAssumption DEF Crash, WellTyped, TypeOK
  <2>3. QED
    BY <1>3, <2>1, <2>2 DEF Crash, WellTyped, TypeOK, Known, Writing, files
<1>4. CASE UNCHANGED vars
  BY <1>4 DEF vars, WellTyped, TypeOK, Known, Writing, files
<1>5. QED
  BY <1>1, <1>2, <1>3, <1>4 DEF Next

LEMMA WellTypedAlways == Spec => []WellTyped
  BY WellTypedInit, WellTypedNext, PTL DEF Spec

\* Every variable keeps its type.
THEOREM TypeCorrect == Spec => []TypeOK
<1>1. WellTyped => TypeOK
  BY DEF WellTyped
<1>2. QED
  BY <1>1, WellTypedAlways, PTL

-----------------------------------------------------------------------------
(* Requests and decisions *)

\* The identity of request r has the role its gate requires.
Cleared(r) == (req[r].gate \in OwnerGates) <=> (req[r].identity = "bob")

\* Token t is accepted neither now nor later: it is not that of the config, nor
\* of a run that is under way, and runs to come make others.
Void(t) == t = 0 \/ (t # hashed /\ \A b \in Writing : boot[b].run # t)

PassedPc == {"allowed", "insert", "decided", "answered"}

RequestInv ==
  \A r \in Requests :
    /\ req[r].pc \in PassedPc \/ r \in decisions => Cleared(r) /\ req[r].token \in 1..runs
    /\ r \in decisions => req[r].pc \in {"decided", "answered", "failed"}
    /\ req[r].pc \in {"decided", "answered"} => r \in decisions
    /\ r \in audit <=> req[r].pc \in {"answered", "rejected"}
    /\ r \in decisions /\ req[r].pc = "failed" => faults > 0
    /\ r \in revoked => /\ req[r].pc \notin PassedPc \union {"idle"}
                        /\ r \notin decisions
                        /\ req[r].pc = "verify" => Void(req[r].token)

\* A void token stays void, whatever runs of bootstrap do.
LEMMA VoidStays ==
  ASSUME WellTyped, NEW b \in Bootstraps, BootStep(b), NEW t \in 0..runs, Void(t)
  PROVE  Void(t)'
<1> USE DEF WellTyped
<1>1. runs \in Nat /\ TypeOK
  BY DEF TypeOK
<1>2. CASE BeginBootstrap(b)
  <2>1. PICK force \in BOOLEAN :
          boot' = [boot EXCEPT ![b] = [pc |-> "raw", run |-> runs + 1, force |-> force]]
    BY <1>2 DEF BeginBootstrap
  <2>2. boot'[b].run = runs + 1 /\ \A c \in Bootstraps : c # b => boot'[c] = boot[c]
    BY <2>1 DEF TypeOK
  <2>3. hashed' = hashed
    BY <1>2 DEF BeginBootstrap, files
  <2>4. QED
    BY <1>1, <2>2, <2>3 DEF Void, Writing
<1>3. CASE TruncateRaw(b) \/ WriteRaw(b) \/ BootstrapDies(b)
  <2>1. /\ hashed' = hashed
        /\ \A c \in Writing' : c \in Writing /\ boot'[c].run = boot[c].run
    BY <1>1, <1>3, BootMoves, BootEnds DEF TruncateRaw, WriteRaw, BootstrapDies, Writing, files
  <2>2. QED
    BY <2>1 DEF Void
<1>4. CASE TruncateHashed(b) \/ WriteHashed(b)
  <2>1. /\ hashed' = -1 \/ (hashed' = boot[b].run /\ b \in Writing)
        /\ \A c \in Writing' : c \in Writing /\ boot'[c].run = boot[c].run
    BY <1>1, <1>4, BootMoves, BootEnds DEF TruncateHashed, WriteHashed, Writing, Empty
  <2>2. QED
    BY <1>1, <2>1 DEF Void
<1>5. QED
  BY <1>2, <1>3, <1>4 DEF BootStep

LEMMA BootLeavesRequests ==
  ASSUME WellTyped, NEW b \in Bootstraps, BootStep(b)
  PROVE  UNCHANGED reqVars /\ faults <= faults' /\ runs <= runs' /\ runs' \in Nat
<1>1. UNCHANGED reqVars
  BY DEF BootStep, BeginBootstrap, TruncateRaw, WriteRaw, TruncateHashed, WriteHashed,
     BootstrapDies, reqVars
<1>2. runs' = runs \/ runs' = runs + 1
  BY DEF BootStep, BeginBootstrap, TruncateRaw, WriteRaw, TruncateHashed, WriteHashed,
     BootstrapDies
<1>3. faults' = faults \/ faults' = faults + 1
  BY DEF BootStep, BeginBootstrap, TruncateRaw, WriteRaw, TruncateHashed, WriteHashed,
     BootstrapDies
<1>4. QED
  BY <1>1, <1>2, <1>3 DEF WellTyped, TypeOK

LEMMA RequestInvBoot ==
  ASSUME WellTyped, RequestInv, NEW b \in Bootstraps, BootStep(b)
  PROVE  RequestInv'
<1>1. UNCHANGED reqVars /\ faults <= faults' /\ runs <= runs' /\ runs' \in Nat
  BY BootLeavesRequests
<1>2. \A r \in Requests : Void(req[r].token) => Void(req[r].token)'
  BY <1>1, VoidStays DEF WellTyped, Known, reqVars
<1>3. faults' \in Nat /\ faults \in Nat /\ runs \in Nat
  BY <1>1, WellTypedBoot DEF WellTyped, TypeOK
<1>4. QED
  BY <1>1, <1>2, <1>3 DEF RequestInv, Cleared, reqVars

LEMMA RequestInvRequest ==
  ASSUME WellTyped, RequestInv, NEW r \in Requests, RequestStep(r)
  PROVE  RequestInv'
<1>1. /\ UNCHANGED bootVars /\ faults <= faults' /\ faults \in Nat /\ faults' \in Nat
      /\ req' \in [Requests -> ReqState]
      /\ \A q \in Requests : q # r => req'[q] = req[q]
  BY ReqSteps, ApprovalsAssumption DEF WellTyped, TypeOK
<1>2. \A t : Void(t)' <=> Void(t)
  BY <1>1 DEF Void, bootVars, files, Writing
<1>3. runs' = runs
  BY <1>1 DEF bootVars
<1>4. TypeOK
  BY DEF WellTyped
\* It remains to look at request r itself.
<1>5. ASSUME /\ \A q \in Requests : q # r =>
                  (q \in decisions' <=> q \in decisions) /\ (q \in audit' <=> q \in audit)
                  /\ (q \in revoked' <=> q \in revoked),
             req'[r].pc \in PassedPc \/ r \in decisions' => Cleared(r)' /\ req'[r].token \in 1..runs,
             r \in decisions' => req'[r].pc \in {"decided", "answered", "failed"},
             req'[r].pc \in {"decided", "answered"} => r \in decisions',
             r \in audit' <=> req'[r].pc \in {"answered", "rejected"},
             r \in decisions' /\ req'[r].pc = "failed" => faults' > 0,
             r \in revoked' => /\ req'[r].pc \notin PassedPc \union {"idle"}
                               /\ r \notin decisions'
                               /\ req'[r].pc = "verify" => Void(req'[r].token)
      PROVE  RequestInv'
  <2>1. ASSUME NEW q \in Requests, q # r
        PROVE  /\ req'[q] = req[q]
               /\ q \in decisions /\ req[q].pc = "failed" => faults' > 0
    BY <1>1, <2>1 DEF RequestInv
  <2>2. QED
    BY <1>2, <1>3, <1>5, <2>1 DEF RequestInv, Cleared
<1>6. CASE Present(r)
  <2>1. PICK gate \in Gates, i \in Identities, token \in Held :
          req' = [req EXCEPT ![r] = [pc |-> "verify", gate |-> gate,
                                     identity |-> i, token |-> token]]
    BY <1>6 DEF Present
  <2>2. req'[r].pc = "verify" /\ req[r].pc = "idle"
    BY <1>4, <1>6, <2>1 DEF Present, TypeOK
  <2>3. UNCHANGED <<decisions, audit>> /\ r \notin decisions /\ r \notin audit
    BY <1>6, <2>2 DEF Present, RequestInv
  <2>4. revoked' = revoked \/ (revoked' = revoked \union {r} /\ Void(req'[r].token))
    BY <1>4, <1>6, <2>1 DEF Present, Void, TypeOK
  <2>5. r \notin revoked
    BY <2>2 DEF RequestInv
  <2>6. QED
    BY <1>2, <1>5, <2>2, <2>3, <2>4, <2>5 DEF PassedPc
<1>7. ASSUME NEW pc, Goto(r, pc), ~Present(r),
             pc \in {"refused", "allowed", "insert", "decided", "answered",
                     "rejected", "unknown", "failed"}
      PROVE  /\ req'[r].pc = pc /\ req'[r].token = req[r].token
             /\ Cleared(r)' <=> Cleared(r)
             /\ revoked' = revoked
  BY <1>4, <1>7, ReqMoves, ReqSteps DEF Cleared
<1>8. CASE Authorize(r)
  <2>1. /\ req[r].pc = "verify" /\ UNCHANGED <<decisions, audit>> /\ ~Present(r)
        /\ \/ Goto(r, "failed") \/ Goto(r, "refused")
           \/ Goto(r, "allowed") /\ Verified(r) /\ Satisfies(req[r].gate, RoleOf[req[r].identity])
    BY <1>8 DEF Authorize, Present
  <2>2. r \notin decisions /\ r \notin audit
    BY <2>1 DEF RequestInv
  <2>3. CASE Goto(r, "failed") \/ Goto(r, "refused")
    BY <1>5, <1>7, <2>1, <2>2, <2>3 DEF RequestInv, PassedPc
  <2>4. CASE Goto(r, "allowed") /\ Verified(r) /\ Satisfies(req[r].gate, RoleOf[req[r].identity])
    <3>1. req[r].token \in 1..runs
      BY <2>4 DEF Verified, WellTyped, Known, TypeOK
    <3>2. Cleared(r)
      BY <1>4, <2>4 DEF Satisfies, RoleOf, Cleared, TypeOK, ReqState, Identities
    <3>3. r \notin revoked
      BY <2>1, <2>4 DEF RequestInv, Void, Verified
    <3>4. QED
      BY <1>5, <1>7, <2>1, <2>2, <2>4, <3>1, <3>2, <3>3 DEF PassedPc
  <2>5. QED
    BY <2>1, <2>3, <2>4
<1>9. CASE AuditRefusal(r)
  <2>1. /\ req[r].pc = "refused" /\ UNCHANGED decisions /\ audit' = audit \union {r}
        /\ Goto(r, "rejected") /\ ~Present(r)
    BY <1>9 DEF AuditRefusal, Present
  <2>2. r \notin decisions
    BY <2>1 DEF RequestInv
  <2>3. QED
    BY <1>5, <1>7, <2>1, <2>2 DEF RequestInv, PassedPc
<1>10. CASE LookUpWorkflow(r)
  <2>1. /\ req[r].pc = "allowed" /\ UNCHANGED <<decisions, audit>> /\ ~Present(r)
        /\ Goto(r, "insert") \/ Goto(r, "unknown")
    BY <1>10 DEF LookUpWorkflow, Present
  <2>2. r \notin decisions /\ r \notin audit /\ r \notin revoked
        /\ Cleared(r) /\ req[r].token \in 1..runs
    BY <2>1 DEF RequestInv, PassedPc
  <2>3. QED
    BY <1>5, <1>7, <2>1, <2>2 DEF PassedPc
<1>11. CASE InsertDecision(r)
  <2>1. /\ req[r].pc = "insert" /\ UNCHANGED audit /\ decisions' = decisions \union {r}
        /\ Goto(r, "decided") /\ ~Present(r)
    BY <1>11 DEF InsertDecision, Present
  <2>2. r \notin audit /\ r \notin revoked /\ Cleared(r) /\ req[r].token \in 1..runs
    BY <2>1 DEF RequestInv, PassedPc
  <2>3. QED
    BY <1>5, <1>7, <2>1, <2>2 DEF PassedPc
<1>12. CASE AuditDecision(r)
  <2>1. /\ req[r].pc = "decided" /\ UNCHANGED decisions /\ audit' = audit \union {r}
        /\ Goto(r, "answered") /\ ~Present(r)
    BY <1>12 DEF AuditDecision, Audited, Present
  <2>2. r \in decisions /\ r \notin revoked /\ Cleared(r) /\ req[r].token \in 1..runs
    BY <2>1 DEF RequestInv, PassedPc
  <2>3. QED
    BY <1>5, <1>7, <2>1, <2>2 DEF PassedPc
<1>13. CASE RequestFails(r)
  <2>1. /\ req[r].pc \in {"verify", "refused", "allowed", "insert", "decided"}
        /\ UNCHANGED <<decisions, audit>> /\ faults' = faults + 1
        /\ Goto(r, "failed") /\ ~Present(r)
    BY <1>13 DEF RequestFails, InFlight, Present
  <2>2. r \notin audit /\ faults' > 0
    BY <1>1, <2>1 DEF RequestInv
  <2>3. r \in decisions => Cleared(r) /\ req[r].token \in 1..runs /\ r \notin revoked
    BY DEF RequestInv
  <2>4. QED
    BY <1>5, <1>7, <2>1, <2>2, <2>3 DEF PassedPc
<1>14. QED
  BY <1>6, <1>8, <1>9, <1>10, <1>11, <1>12, <1>13 DEF RequestStep

LEMMA RequestInvNext == WellTyped /\ RequestInv /\ [Next]_vars => RequestInv'
<1> SUFFICES ASSUME WellTyped, RequestInv, [Next]_vars PROVE RequestInv'
  OBVIOUS
<1>1. CASE Crash
  <2>1. /\ \A r \in Requests :
             /\ req'[r].gate = req[r].gate /\ req'[r].identity = req[r].identity
             /\ req'[r].token = req[r].token
             /\ req'[r].pc = IF r \in InFlight THEN "failed" ELSE req[r].pc
        /\ UNCHANGED <<hashed, boot, runs, decisions, audit, revoked>>
        /\ faults' = faults + 1
    BY <1>1 DEF Crash, WellTyped, TypeOK, ReqState, files
  <2>2. faults' > 0
    BY <2>1 DEF WellTyped, TypeOK
  <2>3. \A t : Void(t)' <=> Void(t)
    BY <2>1 DEF Void, Writing
  <2>4. QED
    BY <2>1, <2>2, <2>3 DEF RequestInv, Cleared, PassedPc, InFlight
<1>2. CASE UNCHANGED vars
  BY <1>2 DEF vars, files, RequestInv, Cleared, Void, Writing
<1>3. QED
  BY <1>1, <1>2, RequestInvBoot, RequestInvRequest DEF Next

LEMMA RequestInvAlways == Spec => [](WellTyped /\ RequestInv)
<1>1. Init => RequestInv
  BY RestStates DEF Init, RequestInv, PassedPc
<1>2. QED
  BY <1>1, WellTypedInit, WellTypedNext, RequestInvNext, PTL DEF Spec

\* FR-307, FR-312: whatever runs of bootstrap come between the parts of a request,
\* a gate is decided only by the identity whose role it requires, with a token
\* that bootstrap made.
THEOREM DecisionsAreCleared == Spec => []DecidedByRole
<1>1. RequestInv /\ WellTyped => DecidedByRole
  BY DEF RequestInv, WellTyped, TypeOK, DecidedByRole, Cleared, OwnerGates
<1>2. QED
  BY <1>1, RequestInvAlways, PTL

\* bootstrap --force: a token that was void when the request began never decides.
THEOREM RevocationHolds == Spec => []RevokedStaysRevoked
<1>1. RequestInv /\ WellTyped => RevokedStaysRevoked
  BY DEF RequestInv, WellTyped, TypeOK, RevokedStaysRevoked
<1>2. QED
  BY <1>1, RequestInvAlways, PTL

\* FR-310, FR-601: what a client was told is in the audit log, and the log tells
\* of no decision that was not made.
THEOREM AnswersAreAudited == Spec => []AuditTrail
<1>1. RequestInv /\ WellTyped => AuditTrail
  BY DEF RequestInv, WellTyped, TypeOK, AuditTrail
<1>2. QED
  BY <1>1, RequestInvAlways, PTL

-----------------------------------------------------------------------------
(* The two files *)

\* While no two runs have met and none has died, the files are as the one run
\* that may be under way has left them.
FilesInv ==
  ~mixed =>
    /\ Writing = {} => raw = hashed
    /\ \A b, c \in Writing : b = c
    /\ \A b \in Writing :
         /\ boot[b].pc = "raw" => raw = hashed
         /\ boot[b].pc \in {"hash", "store"} => raw = boot[b].run
         /\ ~boot[b].force => hashed = IF boot[b].pc = "store" THEN Empty ELSE Absent

LEMMA FilesInvBoot ==
  ASSUME WellTyped, FilesInv, NEW b \in Bootstraps, BootStep(b)
  PROVE  FilesInv'
<1>1. TypeOK
  BY DEF WellTyped
<1>2. CASE BeginBootstrap(b)
  <2>1. PICK force \in BOOLEAN :
          /\ MayWrite(force)
          /\ boot' = [boot EXCEPT ![b] = [pc |-> "raw", run |-> runs + 1, force |-> force]]
    BY <1>2 DEF BeginBootstrap
  <2>2. /\ boot'[b].pc = "raw" /\ boot'[b].force = force
        /\ \A c \in Bootstraps : c # b => boot'[c] = boot[c]
    BY <1>1, <2>1 DEF TypeOK
  <2>3. UNCHANGED <<raw, hashed>> /\ (~mixed' => ~mixed /\ Writing = {})
    BY <1>2 DEF BeginBootstrap, files
  <2>4. SUFFICES ASSUME ~mixed' PROVE FilesInv'
    BY DEF FilesInv
  <2>5. \A c \in Writing' : c = b
    BY <2>2, <2>3, <2>4 DEF Writing
  <2>6. b \in Writing' /\ raw' = hashed' /\ (~force => hashed' = Absent)
    BY <2>1, <2>2, <2>3, <2>4 DEF Writing, FilesInv, MayWrite
  <2>7. QED
    BY <2>2, <2>5, <2>6 DEF FilesInv
<1>3. CASE BootstrapDies(b)
  BY <1>3 DEF BootstrapDies, FilesInv
\* A step of the one run there is, to another pc.
<1>4. ASSUME NEW pc \in {"dump", "hash", "store"}, boot' = [boot EXCEPT ![b].pc = pc],
             b \in Writing, mixed' = mixed
      PROVE  ~mixed' => /\ ~mixed
                        /\ \A c \in Writing : c = b
                        /\ \A c \in Writing' : c = b
                        /\ b \in Writing'
                        /\ boot'[b].pc = pc /\ boot'[b].run = boot[b].run
                        /\ boot'[b].force = boot[b].force
  BY <1>1, <1>4, BootMoves DEF FilesInv, Writing
<1>5. CASE TruncateRaw(b)
  <2>1. /\ boot' = [boot EXCEPT ![b].pc = "dump"] /\ b \in Writing /\ mixed' = mixed
        /\ hashed' = hashed /\ boot[b].pc = "raw"
    BY <1>5 DEF TruncateRaw, Writing
  <2>2. QED
    BY <1>4, <2>1 DEF FilesInv
<1>6. CASE WriteRaw(b)
  <2>1. /\ boot' = [boot EXCEPT ![b].pc = "hash"] /\ b \in Writing /\ mixed' = mixed
        /\ hashed' = hashed /\ raw' = boot[b].run /\ boot[b].pc = "dump"
    BY <1>6 DEF WriteRaw, TokensOf, Writing
  <2>2. QED
    BY <1>4, <2>1 DEF FilesInv
<1>7. CASE TruncateHashed(b)
  <2>1. /\ boot' = [boot EXCEPT ![b].pc = "store"] /\ b \in Writing /\ mixed' = mixed
        /\ hashed' = Empty /\ raw' = raw /\ boot[b].pc = "hash"
    BY <1>7 DEF TruncateHashed, Writing
  <2>2. QED
    BY <1>4, <2>1 DEF FilesInv
<1>8. CASE WriteHashed(b)
  <2>1. /\ boot' = [boot EXCEPT ![b] = IdleBoot] /\ b \in Writing /\ mixed' = mixed
        /\ hashed' = boot[b].run /\ raw' = raw /\ boot[b].pc = "store"
    BY <1>8 DEF WriteHashed, Writing
  <2>2. SUFFICES ASSUME ~mixed' PROVE FilesInv'
    BY DEF FilesInv
  <2>3. Writing' = {} /\ raw' = hashed'
    BY <1>1, <2>1, <2>2, BootEnds DEF FilesInv, Writing
  <2>4. QED
    BY <2>3 DEF FilesInv
<1>9. QED
  BY <1>2, <1>3, <1>5, <1>6, <1>7, <1>8 DEF BootStep

LEMMA FilesInvNext == WellTyped /\ FilesInv /\ [Next]_vars => FilesInv'
<1> SUFFICES ASSUME WellTyped, FilesInv, [Next]_vars PROVE FilesInv'
  OBVIOUS
<1>1. ASSUME NEW r \in Requests, RequestStep(r) PROVE UNCHANGED bootVars
  BY <1>1, ReqSteps
<1>2. ASSUME Crash \/ UNCHANGED vars PROVE UNCHANGED bootVars
  BY <1>2 DEF Crash, vars, bootVars, files
<1>3. CASE UNCHANGED bootVars
  BY <1>3 DEF bootVars, files, FilesInv, Writing
<1>4. QED
  BY <1>1, <1>2, <1>3, FilesInvBoot DEF Next

LEMMA FilesInvAlways == Spec => [](WellTyped /\ FilesInv)
<1>1. Init => FilesInv
  BY RestStates DEF Init, FilesInv, Writing
<1>2. QED
  BY <1>1, WellTypedInit, WellTypedNext, FilesInvNext, PTL DEF Spec

\* bootstrap: the operators' tokens are those the server accepts, when no two runs
\* have overlapped and none has died.
THEOREM FilesStayTogether == Spec => []FilesAgree
<1>1. FilesInv => FilesAgree
  BY DEF FilesInv, FilesAgree
<1>2. QED
  BY <1>1, FilesInvAlways, PTL

\* Without --force no run takes back tokens that were handed out, unless two runs
\* found no config and overlapped.
THEOREM TokensAreKept == Spec => UnforcedKeepsTokens
<1>1. WellTyped /\ FilesInv /\ [Next]_vars =>
        [(hashed \in printed /\ hashed' # hashed) =>
           (mixed \/ \E b \in Bootstraps : boot[b].force)]_vars
  <2> SUFFICES ASSUME WellTyped, FilesInv, [Next]_vars, hashed \in printed, hashed' # hashed,
                      ~mixed
               PROVE  \E b \in Bootstraps : boot[b].force
    OBVIOUS
  <2>1. hashed # Absent /\ hashed # Empty
    BY DEF WellTyped, Known, Absent, Empty, TypeOK
  <2>2. ASSUME NEW r \in Requests, RequestStep(r) PROVE FALSE
    BY <2>2, ReqSteps DEF bootVars, files
  <2>3. PICK b \in Bootstraps : BootStep(b)
    BY <2>2 DEF Next, Crash, vars, files
  <2>4. b \in Writing
    BY <2>3 DEF BootStep, BeginBootstrap, TruncateRaw, WriteRaw, TruncateHashed, WriteHashed,
       BootstrapDies, Writing, files
  <2>5. boot[b].force \in BOOLEAN
    BY DEF WellTyped, TypeOK, BootState
  <2>6. QED
    BY <2>1, <2>4, <2>5 DEF FilesInv
<1>2. QED
  BY <1>1, FilesInvAlways, PTL DEF Spec, UnforcedKeepsTokens
=============================================================================
