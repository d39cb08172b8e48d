-------------------------- MODULE ShortLinks_proofs --------------------------
(***************************************************************************)
(* Proofs about ShortLinks, for any requests, keys, payloads and codes.     *)
(*                                                                         *)
(* The row of an idempotency key is written once, and every successful      *)
(* answer under the key agrees with it.  Races past check_replay are        *)
(* decided by the primary key: who cannot write the row answers an error.   *)
(***************************************************************************)
EXTENDS ShortLinks, TLAPS

\* A request past the INSERT of its link knows its code.
KnowsCode ==
  \A r \in Requests : req[r].pc \in {"summary", "record", "answer"} => req[r].code \in Codes

\* A request that inserts its record has a key.
HasKey == \A r \in Requests : req[r].pc = "record" => KeyOf[r] \in Keys

WellTyped == TypeOK /\ KnowsCode /\ HasKey

LEMMA RowFacts ==
  ASSUME NEW p \in Payloads, NEW c \in Codes
  PROVE  /\ [payload |-> p, code |-> c] \in Rows
         /\ [payload |-> p, code |-> c] # NoRow
  BY ShortLinksAssumption DEF Rows, NoRow

LEMMA AnswerFacts ==
  /\ \A kind \in AnswerKind : Without(kind) \in Answers /\ Without(kind).kind = kind
  /\ \A kind \in AnswerKind, c \in Codes : [kind |-> kind, code |-> c] \in Answers
  BY DEF Answers, Without

LEMMA WellTypedInit == Init => WellTyped
<1> SUFFICES ASSUME Init PROVE WellTyped
  OBVIOUS
<1>1. \A r \in Requests : req[r] = [pc |-> "idle", code |-> None, tries |-> 0]
  BY DEF Init
<1>2. [pc |-> "idle", code |-> None, tries |-> 0] \in ReqState
  BY ShortLinksAssumption DEF ReqState, ReqPc
<1>3. TypeOK
  BY <1>2, AnswerFacts, ShortLinksAssumption DEF Init, TypeOK, AnswerKind
<1>4. KnowsCode /\ HasKey
  BY <1>1 DEF KnowsCode, HasKey
<1>5. QED
  BY <1>3, <1>4 DEF WellTyped

\* The record of a key has the payload of r and the code c.
RecordedAs(r, c) ==
  KeyOf[r] \in Keys => record[KeyOf[r]] = [payload |-> PayloadOf[r], code |-> c]

\* A request that is about to answer, or has answered with success, agrees with
\* the record of its key.
Matches(r) ==
  /\ req[r].pc = "answer" => RecordedAs(r, req[r].code)
  /\ Succeeded(r) => RecordedAs(r, answer[r].code)

AnswersMatchRecord == \A r \in Requests : Matches(r)

\* What a step does to one request, and to the others.
LEMMA GotoFacts ==
  ASSUME TypeOK, NEW r \in Requests, NEW pc \in ReqPc, Goto(r, pc)
  PROVE  /\ req' \in [Requests -> ReqState]
         /\ req'[r].pc = pc /\ req'[r].code = req[r].code
         /\ \A q \in Requests : q # r => req'[q] = req[q]
<1> DEFINE x == [req[r] EXCEPT !.pc = pc]
<1>1. req[r] \in ReqState
  BY DEF TypeOK
<1>2. x \in ReqState /\ x.pc = pc /\ x.code = req[r].code
  BY <1>1 DEF ReqState
<1>3. req' = [req EXCEPT ![r] = x]
  BY DEF Goto
<1> HIDE DEF x
<1>4. QED
  BY <1>2, <1>3 DEF TypeOK

LEMMA RespondFacts ==
  ASSUME TypeOK, NEW r \in Requests, NEW a \in Answers, Respond(r, a)
  PROVE  /\ req' \in [Requests -> ReqState]
         /\ answer' \in [Requests -> Answers]
         /\ req'[r].pc = "done" /\ answer'[r] = a
         /\ \A q \in Requests : q # r => req'[q] = req[q] /\ answer'[q] = answer[q]
<1>1. Goto(r, "done") /\ answer' = [answer EXCEPT ![r] = a]
  BY DEF Respond
<1>2. "done" \in ReqPc
  BY DEF ReqPc
<1>3. QED
  BY <1>1, <1>2, GotoFacts DEF TypeOK

LEMMA WellTypedNext == WellTyped /\ [Next]_vars => WellTyped'
<1> SUFFICES ASSUME WellTyped, [Next]_vars PROVE WellTyped'
  OBVIOUS
<1> USE DEF WellTyped
<1>1. ASSUME NEW r \in Requests, BeginCreate(r) PROVE WellTyped'
  <2>1. Goto(r, "create") /\ "create" \in ReqPc
        /\ UNCHANGED <<link, deleted, summary, record, answer, maker, crashes>>
    BY <1>1 DEF BeginCreate, ReqPc
  <2>2. QED
    BY <2>1, GotoFacts DEF TypeOK, KnowsCode, HasKey
<1>2. ASSUME NEW r \in Requests, NEW a \in Answers, Respond(r, a),
             UNCHANGED <<link, deleted, summary, record, maker, crashes>>
      PROVE  WellTyped'
  BY <1>2, RespondFacts DEF TypeOK, KnowsCode, HasKey
<1>3. ASSUME NEW r \in Requests, Replay(r) PROVE WellTyped'
  <2>1. KeyOf[r] \in Keys /\ record[KeyOf[r]] \in Rows
    BY <1>3, ShortLinksAssumption DEF Replay, NoReplayYet, TypeOK
  <2>2. PICK a \in Answers : Respond(r, a)
    BY <1>3, <2>1, AnswerFacts DEF Replay, Rows, AnswerKind
  <2>3. QED
    BY <1>2, <1>3, <2>2 DEF Replay
<1>4. ASSUME NEW r \in Requests, Invalid(r) PROVE WellTyped'
  <2>1. Without("invalid") \in Answers
    BY AnswerFacts DEF AnswerKind
  <2>2. QED
    BY <1>2, <1>4, <2>1 DEF Invalid
<1>5. ASSUME NEW r \in Requests, NEW c \in Codes, InsertLink(r, c) PROVE WellTyped'
  <2> DEFINE x == [req[r] EXCEPT !.pc = "summary", !.code = c]
  <2>1. x \in ReqState /\ x.pc = "summary" /\ x.code = c
    BY DEF TypeOK, ReqState, ReqPc
  <2>2. req' = [req EXCEPT ![r] = x]
    BY <1>5 DEF InsertLink
  <2> HIDE DEF x
  <2>3. TypeOK'
    <3>1. link' \in [Codes -> Payloads \union {None}]
      BY <1>5, ShortLinksAssumption DEF InsertLink, TypeOK
    <3>2. req' \in [Requests -> ReqState]
      BY <2>1, <2>2 DEF TypeOK
    <3>3. QED
      BY <1>5, <3>1, <3>2 DEF InsertLink, TypeOK
  <2>4. KnowsCode' /\ HasKey'
    BY <2>1, <2>2 DEF TypeOK, KnowsCode, HasKey
  <2>5. QED
    BY <2>3, <2>4
<1>6. ASSUME NEW r \in Requests, NEW c \in Codes, Collide(r, c) PROVE WellTyped'
  <2>1. CASE MayRetry(r) /\ UNCHANGED answer
             /\ req' = [req EXCEPT ![r] = [@ EXCEPT !.tries = req[r].tries + 1]]
    <3> DEFINE x == [req[r] EXCEPT !.tries = req[r].tries + 1]
    <3>1. req[r] \in ReqState /\ req[r].tries \in 0..(MaxTries - 1)
      BY DEF TypeOK, ReqState
    <3>2. req[r].tries + 1 \in 0..(MaxTries - 1)
      BY <2>1, <3>1, ShortLinksAssumption DEF MayRetry
    <3>3. x \in ReqState /\ x.pc = req[r].pc /\ x.code = req[r].code
      BY <3>1, <3>2 DEF ReqState
    <3>4. req' = [req EXCEPT ![r] = x]
      BY <2>1
    <3> HIDE DEF x
    <3>5. QED
      BY <1>6, <2>1, <3>3, <3>4 DEF Collide, TypeOK, KnowsCode, HasKey
  <2>2. CASE Respond(r, Without("exhausted"))
    <3>1. Without("exhausted") \in Answers
      BY AnswerFacts DEF AnswerKind
    <3>2. QED
      BY <1>2, <1>6, <2>2, <3>1 DEF Collide
  <2>3. QED
    BY <1>6, <2>1, <2>2 DEF Collide
<1>7. ASSUME NEW r \in Requests, InsertSummary(r) PROVE WellTyped'
  <2>1. PICK pc \in {"answer", "record"} :
          Goto(r, pc) /\ (pc = "record" => KeyOf[r] # NoKey)
    BY <1>7 DEF InsertSummary
  <2>2. pc \in ReqPc /\ req[r].code \in Codes
    BY <1>7 DEF InsertSummary, KnowsCode, ReqPc
  <2>3. QED
    BY <1>7, <2>1, <2>2, GotoFacts, ShortLinksAssumption
    DEF InsertSummary, TypeOK, KnowsCode, HasKey
<1>8. ASSUME NEW r \in Requests, InsertRecord(r) PROVE WellTyped'
  <2>1. KeyOf[r] \in Keys /\ req[r].code \in Codes
    BY <1>8 DEF InsertRecord, KnowsCode, HasKey
  <2>2. CASE Respond(r, Without("error")) /\ UNCHANGED record
    <3>1. Without("error") \in Answers
      BY AnswerFacts DEF AnswerKind
    <3>2. QED
      BY <1>2, <1>8, <2>2, <3>1 DEF InsertRecord
  <2>3. CASE /\ record' = [record EXCEPT ![KeyOf[r]] =
                             [payload |-> PayloadOf[r], code |-> req[r].code]]
             /\ Goto(r, "answer")
             /\ UNCHANGED answer
    <3>1. PayloadOf[r] \in Payloads /\ "answer" \in ReqPc
      BY ShortLinksAssumption DEF ReqPc
    <3>2. record' \in [Keys -> Rows \union {NoRow}]
      BY <2>1, <2>3, <3>1, RowFacts DEF TypeOK
    <3>3. QED
      BY <1>8, <2>1, <2>3, <3>1, <3>2, GotoFacts
      DEF InsertRecord, TypeOK, KnowsCode, HasKey
  <2>4. QED
    BY <1>8, <2>2, <2>3 DEF InsertRecord
<1>9. ASSUME NEW r \in Requests, AnswerCreated(r) PROVE WellTyped'
  <2>1. [kind |-> "created", code |-> req[r].code] \in Answers
    BY <1>9, AnswerFacts DEF AnswerCreated, KnowsCode, AnswerKind
  <2>2. QED
    BY <1>2, <1>9, <2>1 DEF AnswerCreated
<1>10. ASSUME NEW c \in Codes, Delete(c) PROVE WellTyped'
  BY <1>10 DEF Delete, LinkAfterDelete, TypeOK, KnowsCode, HasKey
<1>11. CASE Crash
  <2>1. ASSUME NEW r \in Requests
        PROVE  req'[r] \in ReqState /\ (req'[r] = req[r] \/ req'[r].pc = "done")
    BY <1>11 DEF Crash, TypeOK, ReqState, ReqPc
  <2>2. req' \in [Requests -> ReqState]
    BY <1>11, <2>1 DEF Crash
  <2>3. QED
    BY <1>11, <2>1, <2>2, ShortLinksAssumption DEF Crash, TypeOK, KnowsCode, HasKey
<1>12. CASE UNCHANGED vars
  BY <1>12 DEF vars, TypeOK, KnowsCode, HasKey
<1>13. QED
  BY <1>1, <1>3, <1>4, <1>5, <1>6, <1>7, <1>8, <1>9, <1>10, <1>11, <1>12
  DEF Next, RequestStep

\* The row of a key is written once.
LEMMA RecordStays ==
  ASSUME WellTyped, [Next]_vars, NEW k \in Keys, record[k] # NoRow
  PROVE  record'[k] = record[k]
<1>1. CASE \E r \in Requests : InsertRecord(r)
  BY <1>1 DEF InsertRecord, Recorded, WellTyped, TypeOK
<1>2. CASE UNCHANGED record
  BY <1>2
<1>3. QED
  BY <1>1, <1>2 DEF Next, vars, RequestStep, BeginCreate, Replay, Invalid, InsertLink,
     Collide, InsertSummary, AnswerCreated, Delete, Crash

LEMMA WellTypedAlways == Spec => []WellTyped
  BY WellTypedInit, WellTypedNext, PTL DEF Spec

\* Every variable keeps its type.
THEOREM TypeCorrect == Spec => []TypeOK
<1>1. WellTyped => TypeOK
  BY DEF WellTyped
<1>2. QED
  BY <1>1, WellTypedAlways, PTL

-----------------------------------------------------------------------------
(* AnswersAgree *)

\* A request whose own variables a step leaves alone, or empties, still matches.
LEMMA MatchKept ==
  ASSUME WellTyped, [Next]_vars, NEW q \in Requests, Matches(q),
         req'[q] = req[q] \/ req'[q].pc # "answer",
         answer'[q] = answer[q] \/ ~Succeeded(q)'
  PROVE  Matches(q)'
<1>1. ASSUME NEW c, RecordedAs(q, c), KeyOf[q] \in Keys => c \in Codes
      PROVE  RecordedAs(q, c)'
  <2>1. CASE KeyOf[q] \in Keys
    <3>1. record[KeyOf[q]] # NoRow
      BY <1>1, <2>1, RowFacts, ShortLinksAssumption DEF RecordedAs
    <3>2. QED
      BY <1>1, <2>1, <3>1, RecordStays DEF RecordedAs
  <2>2. QED
    BY <2>1 DEF RecordedAs
<1>2. ASSUME req'[q].pc = "answer" PROVE RecordedAs(q, req[q].code)'
  <2>1. req'[q] = req[q] /\ req[q].code \in Codes /\ RecordedAs(q, req[q].code)
    BY <1>2 DEF WellTyped, KnowsCode, Matches
  <2> DEFINE c == req[q].code
  <2>2. KeyOf[q] \in Keys => record'[KeyOf[q]] = [payload |-> PayloadOf[q], code |-> c]
    <3> HIDE DEF c
    <3>1. RecordedAs(q, c) /\ c \in Codes
      BY <2>1 DEF c
    <3>2. QED
      BY <1>1, <3>1 DEF RecordedAs
  <2>3. QED
    BY <2>1, <2>2 DEF RecordedAs
<1>3. ASSUME Succeeded(q)' PROVE RecordedAs(q, answer[q].code)'
  <2>1. answer'[q] = answer[q] /\ Succeeded(q) /\ RecordedAs(q, answer[q].code)
    BY <1>3 DEF Succeeded, Matches
  <2> DEFINE c == answer[q].code
  <2>2. KeyOf[q] \in Keys => c \in Codes
    BY <2>1, RowFacts, ShortLinksAssumption DEF RecordedAs, WellTyped, TypeOK, Rows, NoRow
  <2>3. KeyOf[q] \in Keys => record'[KeyOf[q]] = [payload |-> PayloadOf[q], code |-> c]
    <3> HIDE DEF c
    <3>1. RecordedAs(q, c)
      BY <2>1 DEF c
    <3>2. QED
      BY <1>1, <2>2, <3>1 DEF RecordedAs
  <2>4. QED
    BY <2>1, <2>3 DEF RecordedAs
<1>4. QED
  BY <1>2, <1>3 DEF Matches

LEMMA MatchInit == Init => AnswersMatchRecord
  BY AnswerFacts DEF Init, AnswersMatchRecord, Matches, Succeeded, AnswerKind

LEMMA MatchNext ==
  WellTyped /\ AnswersMatchRecord /\ [Next]_vars => AnswersMatchRecord'
<1> SUFFICES ASSUME WellTyped, AnswersMatchRecord, [Next]_vars, NEW q \in Requests
             PROVE  Matches(q)'
  BY DEF AnswersMatchRecord
<1>1. TypeOK /\ Matches(q)
  BY DEF WellTyped, AnswersMatchRecord
\* A request that is answered without success, or goes on towards its INSERTs.
<1>2. ASSUME NEW r \in Requests, NEW a \in Answers, Respond(r, a),
             a.kind \notin {"created", "replayed"}
      PROVE  Matches(q)'
  BY <1>1, <1>2, RespondFacts, MatchKept DEF Succeeded
<1>3. ASSUME NEW r \in Requests, NEW pc \in ReqPc \ {"answer"}, Goto(r, pc), UNCHANGED answer
      PROVE  Matches(q)'
  BY <1>1, <1>3, GotoFacts, MatchKept
\* A request that is answered with a code that agrees with the record.
<1>4. ASSUME NEW r \in Requests, NEW a \in Answers, Respond(r, a),
             RecordedAs(r, a.code), UNCHANGED record
      PROVE  Matches(q)'
  <2>1. CASE q = r
    BY <1>1, <1>4, <2>1, RespondFacts DEF Matches, RecordedAs
  <2>2. CASE q # r
    BY <1>1, <1>4, <2>2, RespondFacts, MatchKept
  <2>3. QED
    BY <2>1, <2>2
<1>5. ASSUME NEW r \in Requests, BeginCreate(r) PROVE Matches(q)'
  BY <1>3, <1>5 DEF BeginCreate, ReqPc
<1>6. ASSUME NEW r \in Requests, Replay(r) PROVE Matches(q)'
  <2> DEFINE row == record[KeyOf[r]]
  <2>1. KeyOf[r] \in Keys /\ row \in Rows
    BY <1>1, <1>6, ShortLinksAssumption DEF Replay, NoReplayYet, TypeOK
  <2>2. CASE row.payload = PayloadOf[r]
    <3> DEFINE a == [kind |-> "replayed", code |-> row.code]
    <3>1. a \in Answers /\ a.code = row.code
      BY <2>1, AnswerFacts DEF Rows, AnswerKind
    <3>2. RecordedAs(r, row.code)
      BY <2>1, <2>2 DEF RecordedAs, Rows
    <3>3. Respond(r, a) /\ UNCHANGED record
      BY <1>6, <2>2 DEF Replay
    <3> HIDE DEF a
    <3>4. QED
      BY <1>4, <3>1, <3>2, <3>3
  <2>3. CASE row.payload # PayloadOf[r]
    <3>1. Without("conflict") \in Answers /\ Without("conflict").kind = "conflict"
      BY AnswerFacts DEF AnswerKind
    <3>2. QED
      BY <1>2, <1>6, <2>3, <3>1 DEF Replay
  <2>4. QED
    BY <2>2, <2>3
<1>7. ASSUME NEW r \in Requests, Invalid(r) PROVE Matches(q)'
  <2>1. Without("invalid") \in Answers /\ Without("invalid").kind = "invalid"
    BY AnswerFacts DEF AnswerKind
  <2>2. QED
    BY <1>2, <1>7, <2>1 DEF Invalid
<1>8. ASSUME NEW r \in Requests, NEW c \in Codes, InsertLink(r, c) PROVE Matches(q)'
  <2>1. req'[q] = req[q] \/ req'[q].pc = "summary"
    BY <1>1, <1>8 DEF InsertLink, TypeOK, ReqState
  <2>2. QED
    BY <1>1, <1>8, <2>1, MatchKept DEF InsertLink
<1>9. ASSUME NEW r \in Requests, NEW c \in Codes, Collide(r, c) PROVE Matches(q)'
  <2>1. CASE /\ UNCHANGED answer
             /\ req' = [req EXCEPT ![r] = [@ EXCEPT !.tries = req[r].tries + 1]]
    <3>1. req'[q] = req[q] \/ req'[q].pc = "create"
      BY <1>1, <1>9, <2>1 DEF Collide, TypeOK, ReqState
    <3>2. QED
      BY <1>1, <2>1, <3>1, MatchKept
  <2>2. CASE Respond(r, Without("exhausted"))
    <3>1. Without("exhausted") \in Answers /\ Without("exhausted").kind = "exhausted"
      BY AnswerFacts DEF AnswerKind
    <3>2. QED
      BY <1>2, <2>2, <3>1
  <2>3. QED
    BY <1>9, <2>1, <2>2 DEF Collide
<1>10. ASSUME NEW r \in Requests, InsertSummary(r) PROVE Matches(q)'
  <2>1. CASE KeyOf[r] = NoKey
    <3>1. Goto(r, "answer") /\ "answer" \in ReqPc /\ UNCHANGED <<answer, record>>
      BY <1>10, <2>1 DEF InsertSummary, ReqPc
    <3>2. CASE q = r
      BY <1>1, <2>1, <3>1, <3>2, GotoFacts, ShortLinksAssumption
      DEF Matches, RecordedAs, Succeeded
    <3>3. CASE q # r
      BY <1>1, <3>1, <3>3, GotoFacts, MatchKept
    <3>4. QED
      BY <3>2, <3>3
  <2>2. CASE KeyOf[r] # NoKey
    BY <1>3, <1>10, <2>2 DEF InsertSummary, ReqPc
  <2>3. QED
    BY <2>1, <2>2
<1>11. ASSUME NEW r \in Requests, InsertRecord(r) PROVE Matches(q)'
  <2>1. CASE Respond(r, Without("error"))
    <3>1. Without("error") \in Answers /\ Without("error").kind = "error"
      BY AnswerFacts DEF AnswerKind
    <3>2. QED
      BY <1>2, <2>1, <3>1
  <2>2. CASE /\ ~Recorded(KeyOf[r])
             /\ record' = [record EXCEPT ![KeyOf[r]] =
                             [payload |-> PayloadOf[r], code |-> req[r].code]]
             /\ Goto(r, "answer")
             /\ UNCHANGED answer
    <3>1. KeyOf[r] \in Keys /\ "answer" \in ReqPc
      BY <1>11 DEF InsertRecord, WellTyped, HasKey, ReqPc
    <3>2. CASE q = r
      <4>1. record'[KeyOf[r]] = [payload |-> PayloadOf[r], code |-> req'[r].code]
        BY <1>1, <2>2, <3>1, GotoFacts DEF TypeOK
      <4>2. req'[r].pc = "answer" => RecordedAs(r, req[r].code)'
        BY <4>1 DEF RecordedAs
      <4>3. ~Succeeded(r)
        <5>1. Succeeded(r) => record[KeyOf[r]] # NoRow
          BY <1>1, <3>1, <3>2, RowFacts, ShortLinksAssumption
          DEF Matches, RecordedAs, NoRow
        <5>2. QED
          BY <2>2, <5>1 DEF Recorded
      <4>4. QED
        BY <2>2, <3>2, <4>2, <4>3 DEF Matches, Succeeded
    <3>3. CASE q # r
      BY <1>1, <2>2, <3>1, <3>3, GotoFacts, MatchKept
    <3>4. QED
      BY <3>2, <3>3
  <2>3. QED
    BY <1>11, <2>1, <2>2 DEF InsertRecord
<1>12. ASSUME NEW r \in Requests, AnswerCreated(r) PROVE Matches(q)'
  <2> DEFINE a == [kind |-> "created", code |-> req[r].code]
  <2>1. a \in Answers /\ a.code = req[r].code
    BY <1>12, AnswerFacts DEF AnswerCreated, WellTyped, KnowsCode, AnswerKind
  <2>2. RecordedAs(r, req[r].code)
    BY <1>12 DEF AnswerCreated, AnswersMatchRecord, Matches
  <2>3. Respond(r, a) /\ UNCHANGED record
    BY <1>12 DEF AnswerCreated
  <2> HIDE DEF a
  <2>4. QED
    BY <1>4, <2>1, <2>2, <2>3
<1>13. ASSUME NEW c \in Codes, Delete(c) PROVE Matches(q)'
  BY <1>1, <1>13, MatchKept DEF Delete
<1>14. CASE Crash
  <2>1. req'[q] = req[q] \/ req'[q].pc = "done"
    BY <1>1, <1>14 DEF Crash, TypeOK, ReqState
  <2>2. QED
    BY <1>1, <1>14, <2>1, MatchKept DEF Crash
<1>15. CASE UNCHANGED vars
  BY <1>1, <1>15, MatchKept DEF vars
<1>16. QED
  BY <1>5, <1>6, <1>7, <1>8, <1>9, <1>10, <1>11, <1>12, <1>13, <1>14, <1>15
  DEF Next, RequestStep

\* FR-112 as far as clients can see: all successful answers under one key name
\* the same code and were given for the same payload, for any number of racing
\* requests, crashes and deletions.
THEOREM AnswersAlwaysAgree == Spec => []AnswersAgree
<1>1. WellTyped /\ AnswersMatchRecord => AnswersAgree
  <2> SUFFICES ASSUME WellTyped, AnswersMatchRecord,
                      NEW r1 \in Requests, NEW r2 \in Requests,
                      KeyOf[r1] = KeyOf[r2], KeyOf[r1] # NoKey,
                      Succeeded(r1), Succeeded(r2)
               PROVE  answer[r1].code = answer[r2].code /\ PayloadOf[r1] = PayloadOf[r2]
    BY DEF AnswersAgree
  <2>1. KeyOf[r1] \in Keys
    BY ShortLinksAssumption
  <2>2. [payload |-> PayloadOf[r1], code |-> answer[r1].code]
          = [payload |-> PayloadOf[r2], code |-> answer[r2].code]
    BY <2>1 DEF AnswersMatchRecord, Matches, RecordedAs
  <2>3. QED
    BY <2>2
<1>2. QED
  BY <1>1, WellTypedInit, WellTypedNext, MatchInit, MatchNext, PTL DEF Spec

-----------------------------------------------------------------------------
(* Links stay *)

\* What is inserted in domain_short_link and in the table of summaries stays.
LEMMA LinksStay ==
  ASSUME WellTyped, [Next]_vars
  PROVE  /\ \A c \in Codes : link[c] # None => link'[c] = link[c] /\ maker'[c] = maker[c]
         /\ summary \subseteq summary'
<1>1. link \in [Codes -> Payloads \union {None}] /\ maker \in [Codes -> Requests \union {None}]
  BY DEF WellTyped, TypeOK
<1>2. ASSUME NEW r \in Requests, NEW d \in Codes, InsertLink(r, d)
      PROVE  /\ \A c \in Codes : link[c] # None => link'[c] = link[c] /\ maker'[c] = maker[c]
             /\ summary \subseteq summary'
  BY <1>1, <1>2 DEF InsertLink, Taken
<1>3. ASSUME NEW d \in Codes, Delete(d) PROVE UNCHANGED <<link, maker, summary>>
  BY <1>1, <1>3 DEF Delete, LinkAfterDelete
<1>4. ASSUME NEW r \in Requests, InsertSummary(r)
      PROVE  UNCHANGED <<link, maker>> /\ summary \subseteq summary'
  BY <1>4 DEF InsertSummary
<1>5. \/ UNCHANGED <<link, maker, summary>>
      \/ \E r \in Requests, d \in Codes : InsertLink(r, d)
      \/ \E d \in Codes : Delete(d)
      \/ \E r \in Requests : InsertSummary(r)
  BY DEF Next, RequestStep, BeginCreate, Replay, Invalid, Collide, InsertRecord, AnswerCreated,
         Crash, vars
<1>6. QED
  BY <1>2, <1>3, <1>4, <1>5

\* The row of a code that was given to somebody is still there, deleted or not.
GivenIsKept == \A c \in Codes : maker[c] # None => link[c] # None

LEMMA GivenNext == WellTyped /\ GivenIsKept /\ [Next]_vars => GivenIsKept'
<1> SUFFICES ASSUME WellTyped, GivenIsKept, [Next]_vars, NEW c \in Codes, maker'[c] # None
             PROVE  link'[c] # None
  BY DEF GivenIsKept
<1>1. /\ link \in [Codes -> Payloads \union {None}]
      /\ maker \in [Codes -> Requests \union {None}]
      /\ link[c] # None => link'[c] = link[c]
      /\ maker[c] # None => link[c] # None
  BY LinksStay DEF WellTyped, TypeOK, GivenIsKept
<1>2. ASSUME NEW r \in Requests, NEW d \in Codes, InsertLink(r, d) PROVE link'[c] # None
  <2>1. PayloadOf[r] # None
    BY ShortLinksAssumption
  <2>2. CASE c = d
    BY <1>1, <1>2, <2>1, <2>2 DEF InsertLink
  <2>3. CASE c # d
    <3>1. maker'[c] = maker[c]
      BY <1>1, <1>2, <2>3 DEF InsertLink
    <3>2. QED
      BY <1>1, <3>1
  <2>4. QED
    BY <2>2, <2>3
<1>3. CASE maker' = maker
  BY <1>1, <1>3
<1>4. maker' = maker \/ \E r \in Requests, d \in Codes : InsertLink(r, d)
  BY DEF Next, RequestStep, BeginCreate, Replay, Invalid, Collide, InsertSummary,
         InsertRecord, AnswerCreated, Delete, Crash, vars
<1>5. QED
  BY <1>2, <1>3, <1>4

\* A code that was given to a link is given to no other, though the link is deleted:
\* the row stays (GivenIsKept), and an INSERT needs a code without a row.
THEOREM CodesAreNeverReused == Spec => CodesAreForever
<1>1. Init => GivenIsKept
  BY DEF Init, GivenIsKept
<1>2. WellTyped /\ GivenIsKept /\ [Next]_vars
        => [\A c \in Codes : maker[c] # None => maker'[c] = maker[c]]_vars
  BY LinksStay DEF GivenIsKept
<1>3. QED
  BY <1>1, <1>2, GivenNext, WellTypedAlways, PTL DEF Spec, CodesAreForever

\* A request has inserted its link, and then its summary, before it inserts the record.
Prepared(r) ==
  /\ req[r].pc \in {"summary", "record"} => link[req[r].code] = PayloadOf[r]
  /\ req[r].pc = "record" => req[r].code \in summary

RecordsBacked == (\A r \in Requests : Prepared(r)) /\ RecordedLinkExists

LEMMA BackedInit == Init => RecordsBacked
  BY DEF Init, RecordsBacked, Prepared, RecordedLinkExists, Recorded

LEMMA PreparedNext ==
  ASSUME WellTyped, RecordsBacked, [Next]_vars, NEW q \in Requests PROVE Prepared(q)'
<1>1. /\ Prepared(q) /\ PayloadOf[q] # None /\ req \in [Requests -> ReqState]
      /\ req[q].pc \in {"summary", "record"} => req[q].code \in Codes
      /\ link \in [Codes -> Payloads \union {None}]
  BY ShortLinksAssumption DEF RecordsBacked, WellTyped, TypeOK, KnowsCode
<1>2. CASE req'[q] = req[q] \/ req'[q].pc \notin {"summary", "record"}
  BY <1>1, <1>2, LinksStay DEF Prepared
<1>3. ASSUME NEW r \in Requests, NEW c \in Codes, InsertLink(r, c) PROVE Prepared(q)'
  <2>1. CASE r = q
    <3>1. req'[q].pc = "summary" /\ req'[q].code = c /\ link'[c] = PayloadOf[q]
      BY <1>1, <1>3, <2>1 DEF InsertLink, ReqState
    <3>2. QED
      BY <3>1 DEF Prepared
  <2>2. CASE r # q
    <3>1. req'[q] = req[q]
      BY <1>1, <1>3, <2>2 DEF InsertLink
    <3>2. QED
      BY <1>2, <3>1
  <2>3. QED
    BY <2>1, <2>2
<1>4. ASSUME NEW r \in Requests, InsertSummary(r) PROVE Prepared(q)'
  <2>1. CASE r = q
    <3>1. /\ req[q].pc = "summary" /\ req'[q].code = req[q].code
          /\ summary' = summary \union {req[q].code} /\ link' = link
      BY <1>1, <1>4, <2>1 DEF InsertSummary, Goto, ReqState
    <3>2. QED
      BY <1>1, <3>1 DEF Prepared
  <2>2. CASE r # q
    <3>1. req'[q] = req[q]
      BY <1>1, <1>4, <2>2 DEF InsertSummary, Goto
    <3>2. QED
      BY <1>2, <3>1
  <2>3. QED
    BY <2>1, <2>2
<1>5. ASSUME NEW r \in Requests, BeginCreate(r) \/ Replay(r) \/ Invalid(r) \/ InsertRecord(r)
                                 \/ AnswerCreated(r) \/ \E c \in Codes : Collide(r, c)
      PROVE  Prepared(q)'
  <2>1. req'[q] = req[q] \/ req'[q].pc \notin {"summary", "record"}
    <3>1. ASSUME NEW pc \in {"create", "answer", "done"}, Goto(r, pc)
          PROVE  req'[q] = req[q] \/ req'[q].pc \notin {"summary", "record"}
      BY <1>1, <3>1 DEF Goto, ReqState
    <3>2. ASSUME NEW c \in Codes, Collide(r, c), ~Goto(r, "done")
          PROVE  req'[q] = req[q] \/ req'[q].pc \notin {"summary", "record"}
      BY <1>1, <3>2 DEF Collide, Respond, ReqState
    <3>3. QED
      BY <1>5, <3>1, <3>2
         DEF BeginCreate, Replay, Invalid, InsertRecord, AnswerCreated, Respond
  <2>2. QED
    BY <1>2, <2>1
<1>6. CASE Crash
  BY <1>1, <1>2, <1>6 DEF Crash, ReqState
<1>7. CASE UNCHANGED vars \/ \E c \in Codes : Delete(c)
  BY <1>2, <1>7 DEF vars, Delete
<1>8. QED
  BY <1>3, <1>4, <1>5, <1>6, <1>7 DEF Next, RequestStep

LEMMA RecordedNext ==
  ASSUME WellTyped, RecordsBacked, [Next]_vars PROVE RecordedLinkExists'
<1>1. /\ record \in [Keys -> Rows \union {NoRow}]
      /\ \A k \in Keys : Recorded(k) => record[k] \in Rows
  BY DEF WellTyped, TypeOK, Recorded
<1>2. ASSUME NEW k \in Keys, Recorded(k)
      PROVE  link'[record[k].code] = record[k].payload /\ record[k].code \in summary'
  <2>1. record[k].code \in Codes /\ record[k].payload # None
    BY <1>1, <1>2, ShortLinksAssumption DEF Rows
  <2>2. QED
    BY <1>2, <2>1, LinksStay DEF RecordsBacked, RecordedLinkExists
<1>3. CASE UNCHANGED record
  BY <1>2, <1>3 DEF RecordedLinkExists, Recorded, NoRow
<1>4. ASSUME NEW r \in Requests, InsertRecord(r), ~UNCHANGED record
      PROVE  RecordedLinkExists'
  <2>1. /\ req[r].pc = "record" /\ UNCHANGED <<link, summary>>
        /\ record' = [record EXCEPT ![KeyOf[r]] =
                        [payload |-> PayloadOf[r], code |-> req[r].code]]
    BY <1>4 DEF InsertRecord
  <2>2. link'[req[r].code] = PayloadOf[r] /\ req[r].code \in summary'
    BY <2>1 DEF RecordsBacked, Prepared
  <2>3. ASSUME NEW k \in Keys
        PROVE  \/ record'[k] = record[k]
               \/ record'[k].payload = PayloadOf[r] /\ record'[k].code = req[r].code
    BY <1>1, <2>1
  <2>4. QED
    BY <1>2, <2>2, <2>3 DEF RecordedLinkExists, Recorded, NoRow
<1>5. UNCHANGED record \/ \E r \in Requests : InsertRecord(r)
  BY DEF Next, RequestStep, BeginCreate, Replay, Invalid, InsertLink, Collide, InsertSummary,
         AnswerCreated, Delete, Crash, vars
<1>6. QED
  BY <1>3, <1>4, <1>5

\* FR-116: the code of an idempotency record has its link, with the payload on record,
\* and its summary, whatever crashes, collisions and deletions.
THEOREM RecordedLinksExist == Spec => []RecordedLinkExists
<1>1. WellTyped /\ RecordsBacked /\ [Next]_vars => RecordsBacked'
  BY PreparedNext, RecordedNext DEF RecordsBacked
<1>2. RecordsBacked => RecordedLinkExists
  BY DEF RecordsBacked
<1>3. QED
  BY <1>1, <1>2, WellTypedAlways, BackedInit, PTL DEF Spec
=============================================================================
