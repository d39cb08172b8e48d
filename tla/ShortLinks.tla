----------------------------- MODULE ShortLinks -----------------------------
(***************************************************************************)
(* POST /short-links with and without an Idempotency-Key, and DELETE:      *)
(* api/routers/short_links.py, domain/short_link.py, domain/idempotency.py. *)
(*                                                                         *)
(* Request handlers run in threads of their own.  Looking up the key,      *)
(* inserting the link, its analytics summary and the idempotency record    *)
(* are four statements that commit one by one; other requests, or a crash, *)
(* may come between them.                                                  *)
(***************************************************************************)
EXTENDS Integers, FiniteSets

CONSTANTS
  Requests,    \* POST requests
  Keys,        \* idempotency keys
  NoKey,       \* the request has none
  KeyOf,       \* key of each request
  Payloads,    \* destination and expiry, as far as the hash tells them apart
  PayloadOf,   \* payload of each request
  Codes,       \* short codes that can be generated
  MaxTries,    \* MAX_COLLISION_RETRIES
  MaxCrashes,  \* bound: crashes of the process
  None         \* no row

ASSUME ShortLinksAssumption ==
  /\ NoKey \notin Keys
  /\ None \notin Payloads \union Codes
  /\ KeyOf \in [Requests -> Keys \union {NoKey}]
  /\ PayloadOf \in [Requests -> Payloads]
  /\ MaxTries \in Nat \ {0}
  /\ MaxCrashes \in Nat

VARIABLES
  link,     \* domain_short_link: the payload of each code, or None
  deleted,  \* codes whose status is 'deleted'
  summary,  \* codes with a row in domain_short_link_analytics_summary
  record,   \* domain_idempotency_record of each key
  req,      \* the statement each request is at, and its local variables
  answer,   \* the answer each request was given
  maker,    \* history: the request that inserted each link
  crashes   \* number of crashes so far

vars == <<link, deleted, summary, record, req, answer, maker, crashes>>

Rows      == [payload : Payloads, code : Codes]
NoRow     == [payload |-> None, code |-> None]
ReqPc     == {"idle", "create", "summary", "record", "answer", "done"}
ReqState  == [pc : ReqPc, code : Codes \union {None}, tries : 0..(MaxTries - 1)]
AnswerKind == {"none", "created", "replayed", "conflict", "invalid", "exhausted", "error"}
Answers   == [kind : AnswerKind, code : Codes \union {None}]

Without(kind) == [kind |-> kind, code |-> None]

Init ==
  /\ link = [c \in Codes |-> None]
  /\ deleted = {}
  /\ summary = {}
  /\ record = [k \in Keys |-> NoRow]
  /\ req = [r \in Requests |-> [pc |-> "idle", code |-> None, tries |-> 0]]
  /\ answer = [r \in Requests |-> Without("none")]
  /\ maker = [c \in Codes |-> None]
  /\ crashes = 0

Goto(r, pc) == req' = [req EXCEPT ![r] = [@ EXCEPT !.pc = pc]]

Respond(r, a) ==
  /\ answer' = [answer EXCEPT ![r] = a]
  /\ Goto(r, "done")

-----------------------------------------------------------------------------
(* create_short_link_endpoint: check_replay *)

NoReplayYet(r) ==
  \/ KeyOf[r] = NoKey
  \/ KeyOf[r] # NoKey /\ record[KeyOf[r]] = NoRow

\* The key was never seen: go on to create a link.
BeginCreate(r) ==
  /\ req[r].pc = "idle"
  /\ NoReplayYet(r)
  /\ Goto(r, "create")
  /\ UNCHANGED <<link, deleted, summary, record, answer, maker, crashes>>

\* The same payload: the original code, deleted or not.  Another: 409.
Replay(r) ==
  /\ req[r].pc = "idle"
  /\ ~NoReplayYet(r)
  /\ LET row == record[KeyOf[r]] IN
       Respond(r, IF row.payload = PayloadOf[r]
                    THEN [kind |-> "replayed", code |-> row.code]
                    ELSE Without("conflict"))
  /\ UNCHANGED <<link, deleted, summary, record, maker, crashes>>

-----------------------------------------------------------------------------
(* create_short_link *)

\* validate_destination_url or validate_expires_at: the answer depends on the
\* clock and on name resolution too.
Invalid(r) ==
  /\ req[r].pc = "create"
  /\ req[r].tries = 0
  /\ Respond(r, Without("invalid"))
  /\ UNCHANGED <<link, deleted, summary, record, maker, crashes>>

TakenByActive(c) == link[c] # None /\ c \notin deleted  \* mutant

\* The primary key of domain_short_link.
Taken(c) == link[c] # None

\* INSERT of a generated code; on a collision the loop of MaxTries goes on.
InsertLink(r, c) ==
  /\ req[r].pc = "create"
  /\ ~Taken(c)
  /\ link' = [link EXCEPT ![c] = PayloadOf[r]]
  /\ maker' = [maker EXCEPT ![c] = r]
  /\ req' = [req EXCEPT ![r] = [@ EXCEPT !.pc = "summary", !.code = c]]
  /\ UNCHANGED <<deleted, summary, record, answer, crashes>>

MayRetry(r) == req[r].tries + 1 < MaxTries

Collide(r, c) ==
  /\ req[r].pc = "create"
  /\ Taken(c)
  /\ \/ /\ MayRetry(r)
        /\ req' = [req EXCEPT ![r] = [@ EXCEPT !.tries = req[r].tries + 1]]
        /\ UNCHANGED answer
     \/ /\ ~MayRetry(r)
        /\ Respond(r, Without("exhausted"))
  /\ UNCHANGED <<link, deleted, summary, record, maker, crashes>>

InsertSummary(r) ==
  /\ req[r].pc = "summary"
  /\ summary' = summary \union {req[r].code}
  /\ Goto(r, IF KeyOf[r] = NoKey THEN "answer" ELSE "record")
  /\ UNCHANGED <<link, deleted, record, answer, maker, crashes>>

-----------------------------------------------------------------------------
(* record, and the answer *)

NeverRecorded(k) == FALSE  \* mutant

\* The primary key of domain_idempotency_record.
Recorded(k) == record[k] # NoRow

\* A second INSERT for the key raises IntegrityError, which nothing catches:
\* the request ends with 500, and the link it has made stays.
InsertRecord(r) ==
  LET k == KeyOf[r] IN
  /\ req[r].pc = "record"
  /\ \/ /\ Recorded(k)
        /\ Respond(r, Without("error"))
        /\ UNCHANGED record
     \/ /\ ~Recorded(k)
        /\ record' = [record EXCEPT ![k] = [payload |-> PayloadOf[r], code |-> req[r].code]]
        /\ Goto(r, "answer")
        /\ UNCHANGED answer
  /\ UNCHANGED <<link, deleted, summary, maker, crashes>>

AnswerCreated(r) ==
  /\ req[r].pc = "answer"
  /\ Respond(r, [kind |-> "created", code |-> req[r].code])
  /\ UNCHANGED <<link, deleted, summary, record, maker, crashes>>

-----------------------------------------------------------------------------
LinkRemoved(c) == None  \* mutant

\* delete_short_link keeps the row.
LinkAfterDelete(c) == link[c]

Delete(c) ==
  /\ link[c] # None
  /\ c \notin deleted
  /\ deleted' = deleted \union {c}
  /\ link' = [link EXCEPT ![c] = LinkAfterDelete(c)]
  /\ UNCHANGED <<summary, record, req, answer, maker, crashes>>

\* Requests in progress end without an answer; a restart has nothing to repair.
Crash ==
  /\ crashes < MaxCrashes
  /\ crashes' = crashes + 1
  /\ req' = [r \in Requests |->
       IF req[r].pc = "idle" THEN req[r] ELSE [req[r] EXCEPT !.pc = "done"]]
  /\ UNCHANGED <<link, deleted, summary, record, answer, maker>>

RequestStep(r) ==
  \/ BeginCreate(r)
  \/ Replay(r)
  \/ Invalid(r)
  \/ \E c \in Codes : InsertLink(r, c) \/ Collide(r, c)
  \/ InsertSummary(r)
  \/ InsertRecord(r)
  \/ AnswerCreated(r)

Next ==
  \/ \E r \in Requests : RequestStep(r)
  \/ \E c \in Codes : Delete(c)
  \/ Crash

Spec == Init /\ [][Next]_vars

-----------------------------------------------------------------------------
(* Properties *)

\* Every variable has its type.
TypeOK ==
  /\ link \in [Codes -> Payloads \union {None}]
  /\ deleted \in SUBSET Codes
  /\ summary \in SUBSET Codes
  /\ record \in [Keys -> Rows \union {NoRow}]
  /\ req \in [Requests -> ReqState]
  /\ answer \in [Requests -> Answers]
  /\ maker \in [Codes -> Requests \union {None}]
  /\ crashes \in 0..MaxCrashes

Succeeded(r) == answer[r].kind \in {"created", "replayed"}

\* FR-112 as far as clients can see: all successful answers under one key name
\* the same short code and were given for the same payload, also to requests
\* that raced each other past check_replay, and after crashes and deletions.
AnswersAgree ==
  \A r1, r2 \in Requests :
    /\ KeyOf[r1] = KeyOf[r2]
    /\ KeyOf[r1] # NoKey
    /\ Succeeded(r1)
    /\ Succeeded(r2)
    => answer[r1].code = answer[r2].code /\ PayloadOf[r1] = PayloadOf[r2]

\* FR-116: the code in an idempotency record always has its link, with the
\* payload on record, and its summary; the endpoint asserts so of the link.
RecordedLinkExists ==
  \A k \in Keys : Recorded(k) =>
    /\ link[record[k].code] = record[k].payload
    /\ record[k].code \in summary

\* A short code that was once given to a link is never given to
\* another, whatever is deleted, raced for or interrupted afterwards.  The one who
\* was given the code is on record in maker even if its row were gone; so this
\* needs both the primary key and a deletion that keeps the row.
CodesAreForever == [][\A c \in Codes : maker[c] # None => maker'[c] = maker[c]]_vars

\* FR-112: requests with the same key and payload create one link.
OneLinkPerKey ==
  \A c1, c2 \in Codes :
    /\ link[c1] # None
    /\ link[c2] # None
    /\ KeyOf[maker[c1]] = KeyOf[maker[c2]]
    /\ KeyOf[maker[c1]] # NoKey
    => c1 = c2
=============================================================================
