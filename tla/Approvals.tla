----------------------------- MODULE Approvals ------------------------------
(***************************************************************************)
(* Human approval of gates and the credentials behind it:                  *)
(* api/routers/approvals.py, api/auth.py, api/credentials.py,              *)
(* scripts/bootstrap_credentials.py and scripts/approve.py.                *)
(*                                                                         *)
(* bootstrap writes two files, each truncated first and written when it is *)
(* closed; the server reads one of them anew for each request, the command *)
(* line client the other.  A decision, and the audit event that records    *)
(* it, are two statements that commit one by one.                          *)
(*                                                                         *)
(* A token is named by the run of bootstrap that made it and its identity. *)
(* Identities that tests register (_CREDENTIAL_STORE) are left out: with   *)
(* them is_agent, which verify_token never sets.                           *)
(***************************************************************************)
EXTENDS Integers, FiniteSets

CONSTANTS
  Gates,       \* gate_id of the URL: any string
  Requests,    \* calls of approve_gate and reject_gate
  Bootstraps,  \* runs of scripts/bootstrap_credentials.py
  MaxRuns,     \* bound: runs of bootstrap that write
  MaxFaults    \* bound: crashes of the server, failing statements, and runs
               \* of bootstrap that die

ASSUME ApprovalsAssumption == MaxRuns \in Nat /\ MaxFaults \in Nat

\* DEFAULT_IDENTITIES, and the roles gates require.
Identities == {"alice", "bob"}
RoleOf == [alice |-> "reviewer_approver", bob |-> "release_owner"]
OwnerGates == {"release_readiness", "final_submission"}

AnyRole(gate, role) == TRUE  \* mutant

\* required_role_for_gate: a gate that is not listed wants a reviewer.
Satisfies(gate, role) ==
  role = IF gate \in OwnerGates THEN "release_owner" ELSE "reviewer_approver"

\* What a file holds: the tokens of one run, or nothing.
Absent == 0
Empty  == -1
File   == -1..MaxRuns

VARIABLES
  raw,        \* approval_tokens.raw.json
  hashed,     \* the hash-only config the server reads
  boot,       \* the step each run of bootstrap is at
  runs,       \* runs that got past the check, in order
  req,        \* the step each request is at, and its parameters
  decisions,  \* requests with a row in orchestration_approval_decision
  audit,      \* requests with an event: the decision or the rejected attempt
  faults,     \* number of faults so far
  printed,    \* history: runs whose tokens were handed to an operator
  mixed,      \* history: two runs wrote at the same time, or one died
  revoked     \* history: requests begun with a token that was void by then

files == <<raw, hashed>>
vars  == <<files, boot, runs, req, decisions, audit, faults, printed, mixed, revoked>>

BootState == [pc : {"idle", "raw", "dump", "hash", "store"}, run : 0..MaxRuns,
              force : BOOLEAN]
IdleBoot  == [pc |-> "idle", run |-> 0, force |-> FALSE]

ReqState ==
  [pc       : {"idle", "verify", "refused", "allowed", "insert", "decided",
               "answered", "rejected", "unknown", "failed"},
   gate     : Gates \union {"none"},
   identity : Identities,
   token    : 0..MaxRuns]  \* the run it comes from; 0: no bearer token

IdleReq == [pc |-> "idle", gate |-> "none", identity |-> "alice", token |-> 0]

Init ==
  /\ raw = Absent
  /\ hashed = Absent
  /\ boot = [b \in Bootstraps |-> IdleBoot]
  /\ runs = 0
  /\ req = [r \in Requests |-> IdleReq]
  /\ decisions = {}
  /\ audit = {}
  /\ faults = 0
  /\ printed = {}
  /\ mixed = FALSE
  /\ revoked = {}

Writing == {b \in Bootstraps : boot[b].pc # "idle"}

-----------------------------------------------------------------------------
(* bootstrap *)

MayAlways(force) == TRUE  \* mutant

\* An existing config is overwritten only with --force.
MayWrite(force) == force \/ hashed = Absent

BeginBootstrap(b) ==
  /\ boot[b].pc = "idle"
  /\ runs < MaxRuns
  /\ \E force \in BOOLEAN :
       /\ MayWrite(force)
       /\ boot' = [boot EXCEPT ![b] = [pc |-> "raw", run |-> runs + 1, force |-> force]]
  /\ runs' = runs + 1
  /\ mixed' = (mixed \/ Writing # {})
  /\ UNCHANGED <<files, req, decisions, audit, faults, printed, revoked>>

\* open(path, "w") truncates; the text is written when the file is closed.
TruncateRaw(b) ==
  /\ boot[b].pc = "raw"
  /\ raw' = Empty
  /\ boot' = [boot EXCEPT ![b].pc = "dump"]
  /\ UNCHANGED <<hashed, runs, req, decisions, audit, faults, printed, mixed, revoked>>

FirstTokens(b) == 1  \* mutant

TokensOf(b) == boot[b].run

WriteRaw(b) ==
  /\ boot[b].pc = "dump"
  /\ raw' = TokensOf(b)
  /\ boot' = [boot EXCEPT ![b].pc = "hash"]
  /\ UNCHANGED <<hashed, runs, req, decisions, audit, faults, printed, mixed, revoked>>

TruncateHashed(b) ==
  /\ boot[b].pc = "hash"
  /\ hashed' = Empty
  /\ boot' = [boot EXCEPT ![b].pc = "store"]
  /\ UNCHANGED <<raw, runs, req, decisions, audit, faults, printed, mixed, revoked>>

\* The tokens are returned, and the script prints them.
Handed(b) == printed \union {boot[b].run}

WriteHashed(b) ==
  /\ boot[b].pc = "store"
  /\ hashed' = boot[b].run
  /\ boot' = [boot EXCEPT ![b] = IdleBoot]
  /\ printed' = Handed(b)
  /\ UNCHANGED <<raw, runs, req, decisions, audit, faults, mixed, revoked>>

BootstrapDies(b) ==
  /\ boot[b].pc # "idle"
  /\ faults < MaxFaults
  /\ faults' = faults + 1
  /\ boot' = [boot EXCEPT ![b] = IdleBoot]
  /\ mixed' = TRUE
  /\ UNCHANGED <<files, runs, req, decisions, audit, printed, revoked>>

-----------------------------------------------------------------------------
(* approve_gate and reject_gate *)

\* Tokens a client may hold: the one scripts/approve.py reads from the raw file,
\* one that was printed, or none.
Held == {0} \union printed \union ({raw} \ {Absent, Empty})

\* A client sends a decision.
Present(r) ==
  /\ req[r].pc = "idle"
  /\ \E gate \in Gates, i \in Identities, token \in Held :
       /\ req' = [req EXCEPT ![r] = [pc |-> "verify", gate |-> gate,
                                     identity |-> i, token |-> token]]
       /\ revoked' = IF Writing = {} /\ token # hashed
                       THEN revoked \union {r} ELSE revoked
  /\ UNCHANGED <<files, boot, runs, decisions, audit, faults, printed, mixed>>

Goto(r, pc) == req' = [req EXCEPT ![r].pc = pc]

EverIssued(r) == req[r].token \in printed  \* mutant

\* resolve_identity, verify_token: the token is one of the config's.
Verified(r) == req[r].token # 0 /\ req[r].token = hashed

\* _authenticate_and_authorize: 401 and 403 are audited first.  An empty config
\* makes json.load raise, and so the request fail.
Authorize(r) ==
  /\ req[r].pc = "verify"
  /\ CASE req[r].token # 0 /\ hashed = Empty -> Goto(r, "failed")
       [] ~(req[r].token # 0 /\ hashed = Empty) ->
            IF Verified(r) /\ Satisfies(req[r].gate, RoleOf[req[r].identity])
              THEN Goto(r, "allowed") ELSE Goto(r, "refused")
  /\ UNCHANGED <<files, boot, runs, decisions, audit, faults, printed, mixed, revoked>>

AuditRefusal(r) ==
  /\ req[r].pc = "refused"
  /\ audit' = audit \union {r}
  /\ Goto(r, "rejected")
  /\ UNCHANGED <<files, boot, runs, decisions, faults, printed, mixed, revoked>>

\* _current_artifact_revision: "v1", or 404 for an unknown workflow.
LookUpWorkflow(r) ==
  /\ req[r].pc = "allowed"
  /\ Goto(r, "insert") \/ Goto(r, "unknown")
  /\ UNCHANGED <<files, boot, runs, decisions, audit, faults, printed, mixed, revoked>>

InsertDecision(r) ==
  /\ req[r].pc = "insert"
  /\ decisions' = decisions \union {r}
  /\ Goto(r, "decided")
  /\ UNCHANGED <<files, boot, runs, audit, faults, printed, mixed, revoked>>

AuditAfterAnswer(r) == audit  \* mutant

Audited(r) == audit \union {r}

AuditDecision(r) ==
  /\ req[r].pc = "decided"
  /\ audit' = Audited(r)
  /\ Goto(r, "answered")
  /\ UNCHANGED <<files, boot, runs, decisions, faults, printed, mixed, revoked>>

InFlight == {r \in Requests : req[r].pc \in {"verify", "refused", "allowed", "insert", "decided"}}

\* A statement raises, the client sees a 500.
RequestFails(r) ==
  /\ r \in InFlight
  /\ faults < MaxFaults
  /\ faults' = faults + 1
  /\ Goto(r, "failed")
  /\ UNCHANGED <<files, boot, runs, decisions, audit, printed, mixed, revoked>>

Crash ==
  /\ faults < MaxFaults
  /\ faults' = faults + 1
  /\ InFlight # {}
  /\ req' = [r \in Requests |->
               IF r \in InFlight THEN [req[r] EXCEPT !.pc = "failed"] ELSE req[r]]
  /\ UNCHANGED <<files, boot, runs, decisions, audit, printed, mixed, revoked>>

-----------------------------------------------------------------------------
BootStep(b) ==
  \/ BeginBootstrap(b) \/ TruncateRaw(b) \/ WriteRaw(b) \/ TruncateHashed(b)
  \/ WriteHashed(b) \/ BootstrapDies(b)

RequestStep(r) ==
  \/ Present(r) \/ Authorize(r) \/ AuditRefusal(r) \/ LookUpWorkflow(r)
  \/ InsertDecision(r) \/ AuditDecision(r) \/ RequestFails(r)

Next ==
  \/ \E b \in Bootstraps : BootStep(b)
  \/ \E r \in Requests : RequestStep(r)
  \/ Crash

Spec == Init /\ [][Next]_vars

-----------------------------------------------------------------------------
(* Properties *)

\* Every variable has its type.
TypeOK ==
  /\ raw \in File
  /\ hashed \in File
  /\ boot \in [Bootstraps -> BootState]
  /\ runs \in 0..MaxRuns
  /\ req \in [Requests -> ReqState]
  /\ decisions \in SUBSET Requests
  /\ audit \in SUBSET Requests
  /\ faults \in 0..MaxFaults
  /\ printed \in SUBSET (1..MaxRuns)
  /\ mixed \in BOOLEAN
  /\ revoked \in SUBSET Requests

\* FR-307, FR-312: a gate on record as decided was decided by the release owner if
\* it is one of the two release gates and by the reviewer otherwise, with a token
\* that bootstrap made, whatever runs of bootstrap came in between.
DecidedByRole ==
  \A r \in decisions :
    /\ req[r].gate \in {"release_readiness", "final_submission"} <=> req[r].identity = "bob"
    /\ req[r].token \in 1..runs

\* bootstrap --force "invalidates all previously issued tokens": a request that
\* begins with a token that is void when no run of bootstrap is under way never
\* decides, also if another run comes before the token is looked at.
RevokedStaysRevoked == revoked \intersect decisions = {}

\* bootstrap: the client's tokens are those the server accepts, unless runs of
\* bootstrap overlapped or one of them died.
FilesAgree == Writing = {} /\ ~mixed => raw = hashed

\* Without --force bootstrap "refuses to overwrite existing credentials": tokens
\* that were handed out are accepted until a forced run, unless two runs, both of
\* which had found no config, overlapped.
UnforcedKeepsTokens ==
  [][(hashed \in printed /\ hashed' # hashed) =>
       (mixed \/ \E b \in Bootstraps : boot[b].force)]_vars

\* FR-310, FR-601: whoever is told of a decision, or of a refusal, can find it in
\* the audit log, and the log tells of no other decisions; what a fault cuts off
\* between the decision and its event is on record and not in the log.
AuditTrail ==
  /\ \A r \in Requests : req[r].pc \in {"answered", "rejected"} => r \in audit
  /\ \A r \in audit : r \in decisions <=> req[r].pc = "answered"
  /\ faults = 0 => \A r \in decisions : r \in audit \/ req[r].pc = "decided"
=============================================================================
