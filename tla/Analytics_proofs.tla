-------------------------- MODULE Analytics_proofs ---------------------------
(***************************************************************************)
(* Proofs about Analytics, for any number of redirects, short codes,        *)
(* crashes and failing statements.                                          *)
(*                                                                         *)
(* The primary key of applied_events hands each event to one task at most;  *)
(* that task increments the count at most once, and only for a redirect     *)
(* that reached the outbox, hence was sent.                                 *)
(***************************************************************************)
EXTENDS Analytics, FiniteSetTheorems, TLAPS

\* A task with a row in hand knows which.
KnowsRow ==
  \A e \in Events : req[e].pc \in {"apply", "bump", "mark"} => req[e].cur \in Events

WellTyped == TypeOK /\ KnowsRow

LEMMA RestStates ==
  /\ Fresh \in ReqState /\ Fresh.pc = "idle" /\ Fresh.todo = {} /\ Fresh.cur = None
  /\ Over \in ReqState /\ Over.pc = "done" /\ Over.todo = {} /\ Over.cur = None
  BY DEF Fresh, Over, ReqState, ReqPc

\* What a step writes into the record of one task.
LEMMA TaskStates ==
  ASSUME NEW e \in Events, NEW r \in ReqState, NEW pc \in ReqPc
  PROVE  /\ [r EXCEPT !.pc = pc] \in ReqState
         /\ [r EXCEPT !.pc = pc].pc = pc
         /\ [r EXCEPT !.pc = pc].todo = r.todo
         /\ [r EXCEPT !.pc = pc].cur = r.cur
  BY DEF ReqState

LEMMA WellTypedInit == Init => WellTyped
<1> SUFFICES ASSUME Init PROVE WellTyped
  OBVIOUS
<1>1. req \in [Events -> ReqState] /\ KnowsRow
  BY RestStates DEF Init, KnowsRow
<1>2. crashes \in 0..MaxCrashes /\ failures \in 0..MaxFailures
  BY AnalyticsAssumption DEF Init
<1>3. QED
  BY <1>1, <1>2 DEF Init, WellTyped, TypeOK

LEMMA WellTypedNext == WellTyped /\ [Next]_vars => WellTyped'
<1> SUFFICES ASSUME WellTyped, [Next]_vars PROVE WellTyped'
  OBVIOUS
<1> USE DEF WellTyped
\* A step that moves task e to r, and leaves the other variables to the caller.
<1>1. ASSUME NEW e \in Events, NEW r \in ReqState, req' = [req EXCEPT ![e] = r],
             r.pc \in {"apply", "bump", "mark"} => r.cur \in Events
      PROVE  req' \in [Events -> ReqState] /\ KnowsRow'
  BY <1>1 DEF TypeOK, KnowsRow
<1>2. ASSUME NEW c \in Codes, Delete(c) \/ Expire(c) PROVE WellTyped'
  BY <1>2 DEF Delete, Expire, TypeOK, KnowsRow, histVars
<1>3. ASSUME NEW e \in Events, Resolve(e) PROVE WellTyped'
  <2>1. PICK r \in ReqState : /\ req' = [req EXCEPT ![e] = r]
                              /\ r.pc \in {"sending", "done"}
    <3>1. [Fresh EXCEPT !.pc = "sending"] \in ReqState
          /\ [Fresh EXCEPT !.pc = "sending"].pc = "sending"
      BY RestStates, TaskStates DEF ReqPc
    <3>2. QED
      BY <1>3, <3>1, RestStates DEF Resolve
  <2>2. QED
    BY <1>1, <1>3, <2>1 DEF Resolve, TypeOK, dbVars, histVars
<1>4. ASSUME NEW e \in Events, Send(e) PROVE WellTyped'
  <2> DEFINE r == [req[e] EXCEPT !.pc = "sent"]
  <2>1. r \in ReqState /\ r.pc = "sent" /\ req' = [req EXCEPT ![e] = r]
    <3>1. req[e] \in ReqState /\ "sent" \in ReqPc
      BY DEF TypeOK, ReqPc
    <3>2. r \in ReqState /\ r.pc = "sent"
      BY <3>1, TaskStates
    <3>3. QED
      BY <1>4, <3>2 DEF Send
  <2> HIDE DEF r
  <2>2. QED
    BY <1>1, <1>4, <2>1 DEF Send, TypeOK, dbVars
<1>5. ASSUME NEW e \in Events, Enqueue(e) PROVE WellTyped'
  <2> DEFINE r == [req[e] EXCEPT !.pc = "select"]
  <2>1. r \in ReqState /\ r.pc = "select" /\ req' = [req EXCEPT ![e] = r]
    <3>1. req[e] \in ReqState /\ "select" \in ReqPc
      BY DEF TypeOK, ReqPc
    <3>2. r \in ReqState /\ r.pc = "select"
      BY <3>1, TaskStates
    <3>3. QED
      BY <1>5, <3>2 DEF Enqueue
  <2> HIDE DEF r
  <2>2. QED
    BY <1>1, <1>5, <2>1 DEF Enqueue, TypeOK, histVars
<1>6. ASSUME NEW e \in Events, SelectPending(e) PROVE WellTyped'
  <2> DEFINE pending == {f \in Events : outbox[f] = "pending"}
             r == [req[e] EXCEPT !.pc = "next", !.todo = pending]
  <2>1. pending \in SUBSET Events /\ req[e] \in ReqState
    BY DEF TypeOK
  <2>2. req' = [req EXCEPT ![e] = r]
    BY <1>6 DEF SelectPending
  <2> HIDE DEF pending
  <2>3. r \in ReqState /\ r.pc = "next"
    BY <2>1 DEF ReqState, ReqPc
  <2> HIDE DEF r
  <2>4. QED
    BY <1>1, <1>6, <2>2, <2>3 DEF SelectPending, TypeOK, dbVars, histVars
<1>7. ASSUME NEW e \in Events, NextRow(e) PROVE WellTyped'
  <2>1. PICK f \in req[e].todo :
          req' = [req EXCEPT ![e] = [pc |-> IF f \in applied THEN "mark" ELSE "apply",
                                     todo |-> req[e].todo \ {f}, cur |-> f]]
    BY <1>7 DEF NextRow
  <2> DEFINE r == [pc |-> IF f \in applied THEN "mark" ELSE "apply",
                   todo |-> req[e].todo \ {f}, cur |-> f]
  <2>2. f \in Events
    BY DEF TypeOK, ReqState
  <2>3. req[e].todo \ {f} \in SUBSET Events
    BY DEF TypeOK, ReqState
  <2>4. (IF f \in applied THEN "mark" ELSE "apply") \in ReqPc
    BY DEF ReqPc
  <2>5. r \in ReqState /\ r.cur = f
    BY <2>2, <2>3, <2>4 DEF ReqState
  <2>6. req' = [req EXCEPT ![e] = r]
    BY <2>1
  <2> HIDE DEF r
  <2>7. QED
    BY <1>1, <1>7, <2>2, <2>5, <2>6 DEF NextRow, TypeOK, dbVars, histVars
<1>8. ASSUME NEW e \in Events, ApplyRow(e) PROVE WellTyped'
  <2> DEFINE r == [req[e] EXCEPT !.pc = "bump"]
  <2>1. req[e].cur \in Events /\ req[e] \in ReqState
    BY <1>8 DEF ApplyRow, At, KnowsRow, TypeOK
  <2>2. r \in ReqState /\ r.cur \in Events
    BY <2>1 DEF ReqState, ReqPc
  <2>3. req' = [req EXCEPT ![e] = Over] \/ req' = [req EXCEPT ![e] = r]
    BY <1>8 DEF ApplyRow
  <2> HIDE DEF r
  <2>4. req' \in [Events -> ReqState] /\ KnowsRow'
    BY <1>1, <2>2, <2>3, RestStates
  <2>5. applied' \in SUBSET Events
    BY <1>8, <2>1 DEF ApplyRow, TypeOK
  <2>6. QED
    BY <1>8, <2>4, <2>5 DEF ApplyRow, TypeOK, histVars
<1>9. ASSUME NEW e \in Events, Increment(e) PROVE WellTyped'
  <2> DEFINE f == req[e].cur
             r == [req[e] EXCEPT !.pc = "mark"]
  <2>1. f \in Events /\ CodeOf[f] \in Codes
    BY <1>9 DEF Increment, At, KnowsRow, Codes
  <2>2. r \in ReqState /\ r.cur = f /\ req' = [req EXCEPT ![e] = r]
    BY <1>9, TaskStates DEF Increment, TypeOK, ReqPc
  <2>3. count' \in [Codes -> Nat] /\ counted' \in [Events -> Nat]
    BY <1>9, <2>1 DEF Increment, Bump, TypeOK
  <2> HIDE DEF r
  <2>4. req' \in [Events -> ReqState] /\ KnowsRow'
    BY <1>1, <2>1, <2>2
  <2>5. QED
    BY <1>9, <2>3, <2>4 DEF Increment, TypeOK
<1>10. ASSUME NEW e \in Events, MarkApplied(e) PROVE WellTyped'
  <2> DEFINE r == [req[e] EXCEPT !.pc = "next", !.cur = None]
  <2>1. req[e] \in ReqState
    BY DEF TypeOK
  <2>2. r \in ReqState /\ r.pc = "next"
    BY <2>1 DEF ReqState, ReqPc
  <2>3. req' = [req EXCEPT ![e] = r]
    BY <1>10 DEF MarkApplied
  <2> HIDE DEF r
  <2>4. QED
    BY <1>1, <1>10, <2>2, <2>3 DEF MarkApplied, TypeOK, histVars
<1>11. ASSUME NEW e \in Events, Drained(e) \/ StatementFails(e) PROVE WellTyped'
  <2>1. req' = [req EXCEPT ![e] = Over] /\ UNCHANGED <<dbVars, phase, crashes, histVars>>
    BY <1>11 DEF Drained, StatementFails
  <2>2. failures' \in 0..MaxFailures
    BY <1>11, AnalyticsAssumption DEF Drained, StatementFails, TypeOK
  <2>3. QED
    BY <1>1, <2>1, <2>2, RestStates DEF TypeOK, dbVars, histVars
<1>12. CASE DetectUnclean \/ MarkRunning \/ CleanShutdown \/ Acknowledge
  BY <1>12 DEF DetectUnclean, MarkRunning, CleanShutdown, Acknowledge, FlagAfterStartup,
     StoppedState, Lost, TypeOK, KnowsRow, histVars
<1>13. CASE Crash
  BY <1>13, RestStates, AnalyticsAssumption DEF Crash, TypeOK, KnowsRow, dbVars, histVars
<1>14. CASE UNCHANGED vars
  BY <1>14 DEF vars, TypeOK, KnowsRow, dbVars, histVars
<1>15. QED
  BY <1>2, <1>3, <1>4, <1>5, <1>6, <1>7, <1>8, <1>9, <1>10, <1>11, <1>12, <1>13, <1>14
  DEF Next, TaskStep

LEMMA WellTypedAlways == Spec => []WellTyped
  BY WellTypedInit, WellTypedNext, PTL DEF Spec

\* Every variable keeps its type.
THEOREM TypeCorrect == Spec => []TypeOK
<1>1. WellTyped => TypeOK
  BY DEF WellTyped
<1>2. QED
  BY <1>1, WellTypedAlways, PTL

-----------------------------------------------------------------------------
(* CountedOnce *)

\* Task e is about to count event f.
Bumping(e, f) == req[e].pc = "bump" /\ req[e].cur = f

\* An event is counted, or about to be, only if it is on record as applied; it
\* is about to be counted by one task at most, and was not counted before.
OneBump ==
  \A f \in Events :
    /\ counted[f] <= 1
    /\ counted[f] = 1 => f \in applied
    /\ \A e \in Events : Bumping(e, f) =>
         /\ f \in applied
         /\ counted[f] = 0
         /\ \A g \in Events : Bumping(g, f) => g = e

\* Whatever has got into the outbox, or into the hands of a task, was sent.
OnlyAnswered ==
  /\ \A e \in Events : outbox[e] # "none" => e \in answered
  /\ \A e \in Events : req[e].pc = "sent" => e \in answered
  /\ \A e \in Events : req[e].todo \subseteq answered
  /\ \A e \in Events : req[e].pc \in {"apply", "bump", "mark"} => req[e].cur \in answered
  /\ applied \subseteq answered

LEMMA CountInit == Init => OneBump /\ OnlyAnswered
  BY RestStates DEF Init, OneBump, OnlyAnswered, Bumping

\* A step that adds no task about to count, and no count.
LEMMA OneBumpKept ==
  ASSUME OneBump, applied \subseteq applied', UNCHANGED counted,
         \A e \in Events : req'[e] = req[e] \/ req'[e].pc # "bump"
  PROVE  OneBump'
<1>1. ASSUME NEW e \in Events, NEW f \in Events, Bumping(e, f)' PROVE Bumping(e, f)
  BY <1>1 DEF Bumping
<1>2. QED
  BY <1>1 DEF OneBump

LEMMA OneBumpNext == WellTyped /\ OneBump /\ [Next]_vars => OneBump'
<1> SUFFICES ASSUME WellTyped, OneBump, [Next]_vars PROVE OneBump'
  OBVIOUS
<1>1. ASSUME NEW e \in Events, ApplyRow(e) PROVE OneBump'
  <2> DEFINE f == req[e].cur
  <2>1. f \in Events /\ req[e].pc = "apply"
    BY <1>1 DEF ApplyRow, At, WellTyped, KnowsRow
  <2>2. CASE f \in applied
    BY <1>1, <2>2, RestStates, OneBumpKept
    DEF ApplyRow, Duplicate, histVars, WellTyped, TypeOK
  <2>3. CASE f \notin applied
    <3> DEFINE r == [req[e] EXCEPT !.pc = "bump"]
    <3>1. r.pc = "bump" /\ r.cur = f
      BY DEF WellTyped, TypeOK, ReqState
    <3>2. req' = [req EXCEPT ![e] = r] /\ applied' = applied \union {f} /\ UNCHANGED counted
      BY <1>1, <2>3 DEF ApplyRow, Duplicate, histVars
    <3> HIDE DEF r
    <3>3. \A g \in Events : \A h \in Events :
            Bumping(g, h)' <=> (g = e /\ h = f) \/ (g # e /\ Bumping(g, h))
      BY <3>1, <3>2 DEF Bumping, WellTyped, TypeOK
    <3>4. counted[f] = 0 /\ \A g \in Events : ~Bumping(g, f)
      BY <2>1, <2>3 DEF OneBump, WellTyped, TypeOK
    <3>5. QED
      BY <2>1, <3>2, <3>3, <3>4 DEF OneBump
  <2>4. QED
    BY <2>2, <2>3
<1>2. ASSUME NEW e \in Events, Increment(e) PROVE OneBump'
  <2> DEFINE f == req[e].cur
             r == [req[e] EXCEPT !.pc = "mark"]
  <2>1. f \in Events /\ Bumping(e, f) /\ counted[f] = 0
    BY <1>2 DEF Increment, At, Bumping, OneBump, WellTyped, KnowsRow
  <2>2. r.pc = "mark"
    BY DEF WellTyped, TypeOK, ReqState
  <2>3. req' = [req EXCEPT ![e] = r] /\ UNCHANGED applied
    BY <1>2 DEF Increment
  <2>4. counted' = [counted EXCEPT ![f] = 1]
    BY <1>2, <2>1 DEF Increment, Bump
  <2> HIDE DEF r, f
  <2>5. \A g \in Events : \A h \in Events : Bumping(g, h)' => g # e /\ Bumping(g, h)
    BY <2>2, <2>3 DEF Bumping, WellTyped, TypeOK
  <2>6. \A g \in Events : \A h \in Events : Bumping(g, h)' => h # f
    BY <2>1, <2>5 DEF OneBump
  <2>7. \A h \in Events : counted'[h] = IF h = f THEN 1 ELSE counted[h]
    BY <2>4 DEF WellTyped, TypeOK
  <2>8. QED
    BY <2>1, <2>3, <2>5, <2>6, <2>7 DEF OneBump
<1>3. ASSUME NEW e \in Events,
             \/ Resolve(e) \/ Send(e) \/ Enqueue(e) \/ SelectPending(e) \/ NextRow(e)
             \/ MarkApplied(e) \/ Drained(e) \/ StatementFails(e)
      PROVE  OneBump'
  <2>1. UNCHANGED <<applied, counted>>
    BY <1>3 DEF Resolve, Send, Enqueue, SelectPending, NextRow, MarkApplied, Drained,
       StatementFails, dbVars, histVars
  <2>2. \A g \in Events : req'[g] = req[g] \/ req'[g].pc # "bump"
    BY <1>3, RestStates DEF Resolve, Send, Enqueue, SelectPending, NextRow, MarkApplied,
       Drained, StatementFails, WellTyped, TypeOK, ReqState
  <2>3. QED
    BY <2>1, <2>2, OneBumpKept
<1>4. ASSUME \/ \E c \in Codes : Delete(c) \/ Expire(c)
             \/ DetectUnclean \/ MarkRunning \/ CleanShutdown \/ Acknowledge
             \/ UNCHANGED vars
      PROVE  OneBump'
  BY <1>4, OneBumpKept DEF Delete, Expire, DetectUnclean, MarkRunning, CleanShutdown,
     Acknowledge, vars, dbVars, histVars
<1>5. CASE Crash
  BY <1>5, RestStates, OneBumpKept DEF Crash, dbVars, histVars
<1>6. QED
  BY <1>1, <1>2, <1>3, <1>4, <1>5 DEF Next, TaskStep

LEMMA OnlyAnsweredNext == WellTyped /\ OnlyAnswered /\ [Next]_vars => OnlyAnswered'
<1> SUFFICES ASSUME WellTyped, OnlyAnswered, [Next]_vars PROVE OnlyAnswered'
  OBVIOUS
<1> USE DEF OnlyAnswered
\* A step that moves task e to r, whose rows were all sent.
<1>1. ASSUME NEW e \in Events, NEW r, req' = [req EXCEPT ![e] = r],
             answered \subseteq answered', applied' \subseteq answered',
             \A f \in Events : outbox'[f] # "none" => f \in answered',
             r.todo \subseteq answered',
             r.pc = "sent" => e \in answered',
             r.pc \in {"apply", "bump", "mark"} => r.cur \in answered'
      PROVE  OnlyAnswered'
  BY <1>1 DEF WellTyped, TypeOK
<1>2. ASSUME NEW e \in Events, Resolve(e) PROVE OnlyAnswered'
  <2>1. PICK r \in {[Fresh EXCEPT !.pc = "sending"], Over} : req' = [req EXCEPT ![e] = r]
    BY <1>2 DEF Resolve
  <2>2. r.todo = {} /\ r.pc \in {"sending", "done"}
    BY RestStates DEF ReqState
  <2>3. QED
    BY <1>1, <1>2, <2>1, <2>2 DEF Resolve, dbVars, histVars
<1>3. ASSUME NEW e \in Events, Send(e) PROVE OnlyAnswered'
  <2> DEFINE r == [req[e] EXCEPT !.pc = "sent"]
  <2>1. r.todo = req[e].todo /\ r.pc = "sent"
    BY DEF WellTyped, TypeOK, ReqState
  <2>2. req' = [req EXCEPT ![e] = r]
    BY <1>3 DEF Send
  <2> HIDE DEF r
  <2>3. QED
    BY <1>1, <1>3, <2>1, <2>2 DEF Send, dbVars
<1>4. ASSUME NEW e \in Events, Enqueue(e) PROVE OnlyAnswered'
  <2> DEFINE r == [req[e] EXCEPT !.pc = "select"]
  <2>1. r.todo = req[e].todo /\ r.pc = "select"
    BY DEF WellTyped, TypeOK, ReqState
  <2>2. req' = [req EXCEPT ![e] = r] /\ UNCHANGED <<applied, answered>>
    BY <1>4 DEF Enqueue, histVars
  <2>3. e \in answered
    BY <1>4 DEF Enqueue, ResponseSent, At
  <2>4. \A f \in Events : outbox'[f] # "none" => f \in answered
    BY <1>4, <2>3 DEF Enqueue, WellTyped, TypeOK
  <2> HIDE DEF r
  <2>5. QED
    BY <1>1, <2>1, <2>2, <2>4
<1>5. ASSUME NEW e \in Events, SelectPending(e) PROVE OnlyAnswered'
  <2> DEFINE pending == {f \in Events : outbox[f] = "pending"}
             r == [req[e] EXCEPT !.pc = "next", !.todo = pending]
  <2>1. pending \subseteq answered
    OBVIOUS
  <2>2. req' = [req EXCEPT ![e] = r]
    BY <1>5 DEF SelectPending
  <2>3. r.todo = pending /\ r.pc = "next"
    <3> HIDE DEF pending
    <3>1. QED
      BY DEF WellTyped, TypeOK, ReqState
  <2> HIDE DEF r, pending
  <2>4. QED
    BY <1>1, <1>5, <2>1, <2>2, <2>3 DEF SelectPending, dbVars, histVars
<1>6. ASSUME NEW e \in Events, NextRow(e) PROVE OnlyAnswered'
  <2>1. PICK f \in req[e].todo :
          req' = [req EXCEPT ![e] = [pc |-> IF f \in applied THEN "mark" ELSE "apply",
                                     todo |-> req[e].todo \ {f}, cur |-> f]]
    BY <1>6 DEF NextRow
  <2> DEFINE r == [pc |-> IF f \in applied THEN "mark" ELSE "apply",
                   todo |-> req[e].todo \ {f}, cur |-> f]
  <2>2. r.todo \subseteq answered /\ r.cur \in answered /\ r.pc # "sent"
    OBVIOUS
  <2>3. req' = [req EXCEPT ![e] = r]
    BY <2>1
  <2> HIDE DEF r
  <2>4. QED
    BY <1>1, <1>6, <2>2, <2>3 DEF NextRow, dbVars, histVars
<1>7. ASSUME NEW e \in Events, ApplyRow(e) PROVE OnlyAnswered'
  <2> DEFINE r == [req[e] EXCEPT !.pc = "bump"]
  <2>1. r.todo = req[e].todo /\ r.pc = "bump" /\ r.cur \in answered
    BY <1>7 DEF ApplyRow, At, WellTyped, TypeOK, ReqState
  <2>2. req' = [req EXCEPT ![e] = Over] \/ req' = [req EXCEPT ![e] = r]
    BY <1>7 DEF ApplyRow
  <2>3. applied' \subseteq answered /\ UNCHANGED <<answered, outbox>>
    BY <1>7 DEF ApplyRow, At, histVars
  <2> HIDE DEF r
  <2>4. QED
    BY <1>1, <2>1, <2>2, <2>3, RestStates
<1>8. ASSUME NEW e \in Events, Increment(e) PROVE OnlyAnswered'
  <2> DEFINE r == [req[e] EXCEPT !.pc = "mark"]
  <2>1. r.todo = req[e].todo /\ r.pc = "mark" /\ r.cur \in answered
    BY <1>8 DEF Increment, At, WellTyped, TypeOK, ReqState
  <2>2. req' = [req EXCEPT ![e] = r]
    BY <1>8 DEF Increment
  <2> HIDE DEF r
  <2>3. QED
    BY <1>1, <1>8, <2>1, <2>2 DEF Increment
<1>9. ASSUME NEW e \in Events, MarkApplied(e) PROVE OnlyAnswered'
  <2> DEFINE r == [req[e] EXCEPT !.pc = "next", !.cur = None]
  <2>1. req[e] \in ReqState
    BY DEF WellTyped, TypeOK
  <2>2. r.todo = req[e].todo /\ r.pc = "next"
    BY <2>1 DEF ReqState
  <2>3. req' = [req EXCEPT ![e] = r] /\ UNCHANGED <<applied, answered>>
    BY <1>9 DEF MarkApplied, histVars
  <2>4. \A f \in Events : outbox'[f] # "none" => f \in answered
    <3> DEFINE f == req[e].cur
    <3>1. f \in Events /\ req[e].pc = "mark" /\ outbox' = [outbox EXCEPT ![f] = "applied"]
      BY <1>9 DEF MarkApplied, At, WellTyped, KnowsRow
    <3>2. f \in answered
      BY <3>1
    <3> HIDE DEF f
    <3>3. QED
      BY <3>1, <3>2 DEF WellTyped, TypeOK
  <2> HIDE DEF r
  <2>5. QED
    BY <1>1, <2>2, <2>3, <2>4
<1>10. ASSUME NEW e \in Events, Drained(e) \/ StatementFails(e) PROVE OnlyAnswered'
  BY <1>1, <1>10, RestStates DEF Drained, StatementFails, dbVars, histVars
<1>11. ASSUME \/ \E c \in Codes : Delete(c) \/ Expire(c)
              \/ DetectUnclean \/ MarkRunning \/ CleanShutdown \/ Acknowledge
              \/ UNCHANGED vars
       PROVE  OnlyAnswered'
  BY <1>11 DEF Delete, Expire, DetectUnclean, MarkRunning, CleanShutdown, Acknowledge,
     vars, dbVars, histVars
<1>12. CASE Crash
  BY <1>12, RestStates DEF Crash, dbVars, histVars
<1>13. QED
  BY <1>2, <1>3, <1>4, <1>5, <1>6, <1>7, <1>8, <1>9, <1>10, <1>11, <1>12
  DEF Next, TaskStep

\* drain_outbox "cannot double-count": no event is counted twice, and none whose
\* redirect was not sent, for any number of overlapping drains, crashes and
\* failing statements.
THEOREM NeverCountedTwice == Spec => []CountedOnce
<1>1. WellTyped /\ OneBump /\ OnlyAnswered => CountedOnce
  BY DEF OneBump, OnlyAnswered, CountedOnce
<1>2. QED
  BY <1>1, CountInit, WellTypedInit, WellTypedNext, OneBumpNext, OnlyAnsweredNext, PTL
  DEF Spec

-----------------------------------------------------------------------------
(* AppliedIsCountedUntilFault *)

\* A step that takes no task from the brink of counting, and no row out of its
\* count, keeps every applied event counted or about to be.
LEMMA AppliedKept ==
  ASSUME AppliedIsCounted, UNCHANGED <<applied, counted>>,
         \A e \in Events : req[e].pc = "bump" => req'[e] = req[e]
  PROVE  AppliedIsCounted'
  BY DEF AppliedIsCounted

\* A step of one task leaves the records of the others alone.
LEMMA OthersStand ==
  ASSUME WellTyped, NEW e \in Events,
         Resolve(e) \/ Send(e) \/ TaskStep(e) \/ StatementFails(e)
  PROVE  \A g \in Events : g # e => req'[g] = req[g]
<1> USE DEF WellTyped, TypeOK
<1>1. CASE Resolve(e) \/ Send(e) \/ StatementFails(e)
  BY <1>1 DEF Resolve, Send, StatementFails
<1>2. CASE Enqueue(e) \/ SelectPending(e) \/ MarkApplied(e) \/ Drained(e)
  BY <1>2 DEF Enqueue, SelectPending, MarkApplied, Drained
<1>3. CASE NextRow(e)
  BY <1>3 DEF NextRow
<1>4. CASE ApplyRow(e) \/ Increment(e)
  BY <1>4 DEF ApplyRow, Increment
<1>5. QED
  BY <1>1, <1>2, <1>3, <1>4 DEF TaskStep

LEMMA AppliedNext ==
  WellTyped /\ OneBump /\ AppliedIsCountedUntilFault /\ [Next]_vars
    => AppliedIsCountedUntilFault'
<1> SUFFICES ASSUME WellTyped, OneBump, AppliedIsCountedUntilFault, [Next]_vars,
                    crashes' = 0, failures' = 0
             PROVE  AppliedIsCounted'
  BY DEF AppliedIsCountedUntilFault
<1>1. ASSUME NEW e \in Events, ApplyRow(e) PROVE AppliedIsCounted'
  <2> DEFINE f == req[e].cur
             r == [req[e] EXCEPT !.pc = "bump"]
  <2>1. f \in Events /\ req[e].pc = "apply" /\ AppliedIsCounted
    BY <1>1 DEF ApplyRow, At, WellTyped, KnowsRow, AppliedIsCountedUntilFault
  <2>2. CASE f \in applied
    BY <1>1, <2>1, <2>2, AppliedKept DEF ApplyRow, Duplicate, histVars, WellTyped, TypeOK
  <2>3. CASE f \notin applied
    <3>1. r.pc = "bump" /\ r.cur = f
      BY DEF WellTyped, TypeOK, ReqState
    <3>2. req' = [req EXCEPT ![e] = r] /\ applied' = applied \union {f} /\ UNCHANGED counted
      BY <1>1, <2>3 DEF ApplyRow, Duplicate, histVars
    <3> HIDE DEF r
    <3>3. \A g \in Events : g # e => req'[g] = req[g]
      BY <3>2 DEF WellTyped, TypeOK
    <3>4. req'[e].pc = "bump" /\ req'[e].cur = f
      BY <3>1, <3>2 DEF WellTyped, TypeOK
    <3>5. QED
      BY <2>1, <3>2, <3>3, <3>4 DEF AppliedIsCounted
  <2>4. QED
    BY <2>2, <2>3
<1>2. ASSUME NEW e \in Events, Increment(e) PROVE AppliedIsCounted'
  <2> DEFINE f == req[e].cur
  <2>1. f \in Events /\ Bumping(e, f) /\ counted[f] = 0 /\ AppliedIsCounted
    BY <1>2 DEF Increment, At, Bumping, OneBump, WellTyped, KnowsRow,
       AppliedIsCountedUntilFault
  <2>2. counted' = [counted EXCEPT ![f] = 1] /\ UNCHANGED applied
    BY <1>2, <2>1 DEF Increment, Bump
  <2>3. \A g \in Events : g # e => req'[g] = req[g]
    BY <1>2, OthersStand DEF TaskStep
  <2>4. ASSUME NEW h \in applied
        PROVE  counted'[h] = 1 \/ \E g \in Events : req'[g].pc = "bump" /\ req'[g].cur = h
    <3>1. CASE h = f
      BY <2>1, <2>2, <3>1 DEF WellTyped, TypeOK
    <3>2. CASE h # f
      <4>1. counted'[h] = counted[h]
        BY <2>2, <3>2 DEF WellTyped, TypeOK
      <4>2. CASE counted[h] = 1
        BY <4>1, <4>2
      <4>3. CASE counted[h] # 1
        <5>1. PICK g \in Events : Bumping(g, h)
          BY <2>1, <4>3 DEF AppliedIsCounted, Bumping
        <5>2. g # e
          BY <3>2, <5>1 DEF Bumping
        <5>3. QED
          BY <2>3, <5>1, <5>2 DEF Bumping
      <4>4. QED
        BY <4>2, <4>3
    <3>3. QED
      BY <3>1, <3>2
  <2>5. QED
    BY <2>2, <2>4 DEF AppliedIsCounted
<1>3. ASSUME NEW e \in Events, StatementFails(e) PROVE FALSE
  BY <1>3 DEF StatementFails, WellTyped, TypeOK
<1>4. ASSUME Crash PROVE FALSE
  BY <1>4 DEF Crash, WellTyped, TypeOK
<1>5. ASSUME NEW e \in Events,
             \/ Resolve(e) \/ Send(e) \/ Enqueue(e) \/ SelectPending(e) \/ NextRow(e)
             \/ MarkApplied(e) \/ Drained(e)
      PROVE  AppliedIsCounted'
  <2>1. UNCHANGED <<applied, counted, crashes, failures>>
    BY <1>5 DEF Resolve, Send, Enqueue, SelectPending, NextRow, MarkApplied, Drained,
       dbVars, histVars
  <2>2. \/ At(e, "idle") \/ At(e, "sending") \/ At(e, "sent") \/ At(e, "select")
        \/ At(e, "next") \/ At(e, "mark")
    BY <1>5, Zenon DEF Resolve, Send, Enqueue, SelectPending, NextRow, MarkApplied, Drained,
       ResponseSent
  <2>3. \A g \in Events : g # e => req'[g] = req[g]
    BY <1>5, OthersStand DEF TaskStep
  <2>4. QED
    BY <2>1, <2>2, <2>3, AppliedKept DEF AppliedIsCountedUntilFault, At
<1>6. ASSUME \/ \E c \in Codes : Delete(c) \/ Expire(c)
             \/ DetectUnclean \/ MarkRunning \/ CleanShutdown \/ Acknowledge
             \/ UNCHANGED vars
      PROVE  AppliedIsCounted'
  <2>1. UNCHANGED <<applied, counted, req, crashes, failures>>
    BY <1>6 DEF Delete, Expire, DetectUnclean, MarkRunning, CleanShutdown, Acknowledge,
       vars, dbVars, histVars
  <2>2. QED
    BY <2>1, AppliedKept DEF AppliedIsCountedUntilFault
<1>7. QED
  BY <1>1, <1>2, <1>3, <1>4, <1>5, <1>6 DEF Next, TaskStep

\* drain_outbox: until a crash or a failing statement comes between the INSERT
\* into applied_events and the increment, an event on record as applied has been
\* counted or a task is about to count it, for any number of overlapping drains.
THEOREM AppliedRowsAreCounted == Spec => []AppliedIsCountedUntilFault
<1>1. Init => AppliedIsCountedUntilFault
  BY DEF Init, AppliedIsCountedUntilFault, AppliedIsCounted
<1>2. QED
  BY <1>1, CountInit, WellTypedInit, WellTypedNext, OneBumpNext, AppliedNext, PTL DEF Spec

-----------------------------------------------------------------------------
(* LossDisclosed *)

\* A row comes into the outbox when its task leaves "sent", and is on record as
\* applied only after that; only a process that serves has tasks at work.
Orderly ==
  /\ \A e \in Events :
       /\ req[e].pc \in {"idle", "sending", "sent"} => outbox[e] = "none"
       /\ outbox[e] = "none" => e \notin applied
       /\ \A f \in req[e].todo : outbox[f] # "none"
       /\ req[e].pc \in {"apply", "bump", "mark"} => outbox[req[e].cur] # "none"
       /\ req[e].pc = "mark" => req[e].cur \in applied
  /\ phase # "serving" => \A e \in Events : req[e].pc \in {"idle", "done"}

\* What the flag owes: a loss not covered is disclosed, or will be by the next
\* start, which finds that the last process did not stop cleanly.
Disclosed ==
  /\ phase = "serving" => state = "running"
  /\ failures = 0 /\ Lost \ waived # {} => flag \/ (phase = "down" /\ state = "running")

LossInv == WellTyped /\ OneBump /\ Orderly /\ Disclosed

LEMMA LossInit == Init => Orderly /\ Disclosed
  BY RestStates DEF Init, Orderly, Disclosed, Lost

LEMMA OrderlyNext == WellTyped /\ OneBump /\ Orderly /\ [Next]_vars => Orderly'
<1> SUFFICES ASSUME WellTyped, OneBump, Orderly, [Next]_vars PROVE Orderly'
  OBVIOUS
\* A step of a serving process that moves task e to r, and puts no other row than
\* that of e into the outbox.
<1>1. ASSUME NEW e \in Events, NEW r, req' = [req EXCEPT ![e] = r], phase' = "serving",
             \A f \in Events : outbox'[f] = "none" => outbox[f] = "none" /\ f \notin applied',
             \A f \in Events : outbox[f] = "none" => outbox'[f] = "none" \/ f = e,
             applied \subseteq applied',
             r.pc \in {"idle", "sending", "sent"} => outbox'[e] = "none",
             r.todo \in SUBSET Events, \A f \in r.todo : outbox[f] # "none",
             r.pc \in {"apply", "bump", "mark"} => r.cur \in Events /\ outbox[r.cur] # "none",
             r.pc = "mark" => r.cur \in applied'
      PROVE  Orderly'
  <2>1. req'[e] = r /\ \A g \in Events : g # e => req'[g] = req[g]
    BY <1>1 DEF WellTyped, TypeOK
  <2>2. \A g \in Events : req[g].todo \subseteq Events
    BY DEF WellTyped, TypeOK, ReqState
  <2>3. ASSUME NEW g \in Events
        PROVE  /\ req'[g].pc \in {"idle", "sending", "sent"} => outbox'[g] = "none"
               /\ outbox'[g] = "none" => g \notin applied'
               /\ \A f \in req'[g].todo : outbox'[f] # "none"
               /\ req'[g].pc \in {"apply", "bump", "mark"} => outbox'[req'[g].cur] # "none"
               /\ req'[g].pc = "mark" => req'[g].cur \in applied'
    <3>1. CASE g = e
      BY <1>1, <2>1, <3>1
    <3>2. CASE g # e
      BY <1>1, <2>1, <2>2, <3>2 DEF Orderly, WellTyped, KnowsRow
    <3>3. QED
      BY <3>1, <3>2
  <2>4. QED
    BY <1>1, <2>3 DEF Orderly
<1>2. ASSUME NEW e \in Events, Resolve(e) PROVE Orderly'
  <2>1. PICK r \in {[Fresh EXCEPT !.pc = "sending"], Over} : req' = [req EXCEPT ![e] = r]
    BY <1>2 DEF Resolve
  <2>2. r.todo = {} /\ r.pc \in {"sending", "done"}
    BY RestStates DEF ReqState
  <2>3. UNCHANGED <<outbox, applied, phase>> /\ phase = "serving" /\ outbox[e] = "none"
    BY <1>2 DEF Resolve, At, Orderly, dbVars
  <2>4. QED
    BY <1>1, <2>1, <2>2, <2>3 DEF Orderly
<1>3. ASSUME NEW e \in Events, Send(e) PROVE Orderly'
  <2> DEFINE r == [req[e] EXCEPT !.pc = "sent"]
  <2>1. r.todo = req[e].todo /\ r.todo \in SUBSET Events /\ r.pc = "sent"
    BY DEF WellTyped, TypeOK, ReqState
  <2>2. req' = [req EXCEPT ![e] = r]
    BY <1>3 DEF Send
  <2>3. UNCHANGED <<outbox, applied, phase>> /\ phase = "serving" /\ outbox[e] = "none"
    BY <1>3 DEF Send, At, Orderly, dbVars
  <2> HIDE DEF r
  <2>4. QED
    BY <1>1, <2>1, <2>2, <2>3 DEF Orderly
<1>4. ASSUME NEW e \in Events, Enqueue(e) PROVE Orderly'
  <2> DEFINE r == [req[e] EXCEPT !.pc = "select"]
  <2>1. r.todo = req[e].todo /\ r.todo \in SUBSET Events /\ r.pc = "select"
    BY DEF WellTyped, TypeOK, ReqState
  <2>2. req' = [req EXCEPT ![e] = r] /\ UNCHANGED <<applied, phase>> /\ phase = "serving"
    BY <1>4 DEF Enqueue, ResponseSent, At, histVars
  <2>3. \A f \in Events : outbox'[f] = IF f = e THEN "pending" ELSE outbox[f]
    BY <1>4 DEF Enqueue, WellTyped, TypeOK
  <2> HIDE DEF r
  <2>4. \A f \in Events : outbox'[f] = "none" => outbox[f] = "none" /\ f \notin applied'
    BY <2>2, <2>3 DEF Orderly
  <2>5. \A f \in r.todo : outbox[f] # "none"
    BY <2>1 DEF Orderly
  <2>6. QED
    BY <1>1, <2>1, <2>2, <2>3, <2>4, <2>5
<1>5. ASSUME NEW e \in Events, SelectPending(e) PROVE Orderly'
  <2> DEFINE pending == {f \in Events : outbox[f] = "pending"}
             r == [req[e] EXCEPT !.pc = "next", !.todo = pending]
  <2>1. pending \in SUBSET Events /\ \A f \in pending : outbox[f] # "none"
    OBVIOUS
  <2>2. req' = [req EXCEPT ![e] = r]
    BY <1>5 DEF SelectPending
  <2>3. r.todo = pending /\ r.pc = "next"
    <3> HIDE DEF pending
    <3>1. QED
      BY DEF WellTyped, TypeOK, ReqState
  <2>4. UNCHANGED <<outbox, applied, phase>> /\ phase = "serving"
    BY <1>5 DEF SelectPending, At, dbVars
  <2> HIDE DEF r, pending
  <2>5. QED
    BY <1>1, <2>1, <2>2, <2>3, <2>4 DEF Orderly
<1>6. ASSUME NEW e \in Events, NextRow(e) PROVE Orderly'
  <2>1. PICK f \in req[e].todo :
          req' = [req EXCEPT ![e] = [pc |-> IF f \in applied THEN "mark" ELSE "apply",
                                     todo |-> req[e].todo \ {f}, cur |-> f]]
    BY <1>6 DEF NextRow
  <2> DEFINE r == [pc |-> IF f \in applied THEN "mark" ELSE "apply",
                   todo |-> req[e].todo \ {f}, cur |-> f]
  <2>2. req[e].todo \in SUBSET Events /\ \A g \in req[e].todo : outbox[g] # "none"
    BY DEF WellTyped, TypeOK, ReqState, Orderly
  <2>3. /\ r.todo \in SUBSET Events /\ \A g \in r.todo : outbox[g] # "none"
        /\ r.cur \in Events /\ outbox[r.cur] # "none"
        /\ r.pc \in {"apply", "mark"} /\ (r.pc = "mark" => r.cur \in applied)
    BY <2>2
  <2>4. req' = [req EXCEPT ![e] = r]
    BY <2>1
  <2>5. UNCHANGED <<outbox, applied, phase>> /\ phase = "serving"
    BY <1>6 DEF NextRow, At, dbVars
  <2> HIDE DEF r
  <2>6. QED
    BY <1>1, <2>3, <2>4, <2>5 DEF Orderly
<1>7. ASSUME NEW e \in Events, ApplyRow(e) PROVE Orderly'
  <2> DEFINE f == req[e].cur
             r == [req[e] EXCEPT !.pc = "bump"]
  <2>1. f \in Events /\ outbox[f] # "none"
    BY <1>7 DEF ApplyRow, At, WellTyped, KnowsRow, Orderly
  <2>2. r.todo = req[e].todo /\ r.todo \in SUBSET Events /\ r.pc = "bump" /\ r.cur = f
    BY DEF WellTyped, TypeOK, ReqState
  <2>3. \/ req' = [req EXCEPT ![e] = Over] /\ UNCHANGED applied
        \/ req' = [req EXCEPT ![e] = r] /\ applied' = applied \union {f}
    BY <1>7 DEF ApplyRow
  <2>4. UNCHANGED <<outbox, phase>> /\ phase = "serving"
    BY <1>7 DEF ApplyRow, At
  <2> HIDE DEF r, f
  <2>5. CASE req' = [req EXCEPT ![e] = Over] /\ UNCHANGED applied
    BY <1>1, <2>4, <2>5, RestStates DEF Orderly
  <2>6. CASE req' = [req EXCEPT ![e] = r] /\ applied' = applied \union {f}
    BY <1>1, <2>1, <2>2, <2>4, <2>6 DEF Orderly
  <2>7. QED
    BY <2>3, <2>5, <2>6
<1>8. ASSUME NEW e \in Events, Increment(e) PROVE Orderly'
  <2> DEFINE f == req[e].cur
             r == [req[e] EXCEPT !.pc = "mark"]
  <2>1. f \in Events /\ outbox[f] # "none" /\ f \in applied
    BY <1>8 DEF Increment, At, WellTyped, KnowsRow, Orderly, OneBump, Bumping
  <2>2. r.todo = req[e].todo /\ r.todo \in SUBSET Events /\ r.pc = "mark" /\ r.cur = f
    BY DEF WellTyped, TypeOK, ReqState
  <2>3. req' = [req EXCEPT ![e] = r] /\ UNCHANGED <<outbox, applied, phase>>
        /\ phase = "serving"
    BY <1>8 DEF Increment, At
  <2> HIDE DEF r, f
  <2>4. QED
    BY <1>1, <2>1, <2>2, <2>3 DEF Orderly
<1>9. ASSUME NEW e \in Events, MarkApplied(e) PROVE Orderly'
  <2> DEFINE f == req[e].cur
             r == [req[e] EXCEPT !.pc = "next", !.cur = None]
  <2>1. f \in Events /\ outbox[f] # "none" /\ f \in applied
    BY <1>9 DEF MarkApplied, At, WellTyped, KnowsRow, Orderly
  <2>2. r.todo = req[e].todo /\ r.todo \in SUBSET Events /\ r.pc = "next"
    BY DEF WellTyped, TypeOK, ReqState
  <2>3. req' = [req EXCEPT ![e] = r] /\ UNCHANGED <<applied, phase>> /\ phase = "serving"
    BY <1>9 DEF MarkApplied, At, histVars
  <2>4. outbox' = [outbox EXCEPT ![f] = "applied"]
    BY <1>9 DEF MarkApplied
  <2> HIDE DEF r, f
  <2>5. \A g \in Events : outbox'[g] = IF g = f THEN "applied" ELSE outbox[g]
    BY <2>4 DEF WellTyped, TypeOK
  <2>6. \A g \in Events : outbox'[g] = "none" <=> outbox[g] = "none"
    BY <2>1, <2>5
  <2>7. \A g \in Events : outbox[g] = "none" => g \notin applied'
    BY <2>3 DEF Orderly
  <2>8. \A g \in r.todo : outbox[g] # "none"
    BY <2>2 DEF Orderly
  <2>9. QED
    BY <1>1, <2>2, <2>3, <2>6, <2>7, <2>8
<1>10. ASSUME NEW e \in Events, Drained(e) \/ StatementFails(e) PROVE Orderly'
  <2>1. /\ req' = [req EXCEPT ![e] = Over] /\ UNCHANGED <<outbox, applied, phase>>
        /\ phase = "serving"
    BY <1>10 DEF Drained, StatementFails, At, dbVars, histVars
  <2>2. Over.todo \in SUBSET Events
    BY RestStates
  <2>3. QED
    BY <1>1, <2>1, <2>2, RestStates DEF Orderly
<1>11. ASSUME \/ \E c \in Codes : Delete(c) \/ Expire(c)
              \/ DetectUnclean \/ MarkRunning \/ CleanShutdown \/ Acknowledge
              \/ UNCHANGED vars
       PROVE  Orderly'
  BY <1>11 DEF Delete, Expire, DetectUnclean, MarkRunning, CleanShutdown, Acknowledge,
     vars, dbVars, histVars, Orderly
<1>12. CASE Crash
  BY <1>12, RestStates DEF Crash, dbVars, histVars, Orderly
<1>13. QED
  BY <1>2, <1>3, <1>4, <1>5, <1>6, <1>7, <1>8, <1>9, <1>10, <1>11, <1>12
  DEF Next, TaskStep

\* No step of a task loses a redirect, unless its statement fails: what it takes
\* in hand it gets into the outbox, or into the count.
LEMMA TasksLoseNothing ==
  ASSUME WellTyped, OneBump, Orderly, NEW e \in Events,
         Resolve(e) \/ Send(e) \/ TaskStep(e)
  PROVE  Lost' \subseteq Lost
<1>1. \A g \in Events : g # e => req'[g] = req[g]
  BY OthersStand
\* A step that neither begins nor ends a piece of counting.
<1>2. ASSUME UNCHANGED <<answered, counted, applied>>, req[e].pc \notin {"sent", "bump"},
             \A f \in Events : outbox'[f] = outbox[f] \/ f \in applied
      PROVE  Lost' \subseteq Lost
  BY <1>1, <1>2 DEF Lost, WellTyped, TypeOK
<1>3. CASE Resolve(e) \/ SelectPending(e) \/ NextRow(e) \/ Drained(e)
  <2>1. UNCHANGED <<answered, counted, applied, outbox>>
    BY <1>3 DEF Resolve, SelectPending, NextRow, Drained, dbVars, histVars
  <2>2. At(e, "idle") \/ At(e, "select") \/ At(e, "next")
    BY <1>3, Zenon DEF Resolve, SelectPending, NextRow, Drained
  <2>3. QED
    BY <1>2, <2>1, <2>2 DEF At
<1>4. CASE Send(e)
  <2>1. UNCHANGED <<counted, applied, outbox>> /\ answered' = answered \union {e}
        /\ req[e].pc = "sending" /\ req'[e].pc = "sent"
    BY <1>4 DEF Send, At, dbVars, WellTyped, TypeOK, ReqState
  <2>2. QED
    BY <1>1, <2>1 DEF Lost, WellTyped, TypeOK
<1>5. CASE Enqueue(e)
  <2>1. UNCHANGED <<counted, applied, answered>> /\ req[e].pc = "sent" /\ e \notin applied
    BY <1>5 DEF Enqueue, ResponseSent, At, histVars, Orderly
  <2>2. \A f \in Events : outbox'[f] = IF f = e THEN "pending" ELSE outbox[f]
    BY <1>5 DEF Enqueue, WellTyped, TypeOK
  <2>3. QED
    BY <1>1, <2>1, <2>2 DEF Lost, WellTyped, TypeOK
<1>6. CASE ApplyRow(e)
  <2> DEFINE f == req[e].cur
  <2>1. UNCHANGED <<counted, answered, outbox>> /\ req[e].pc = "apply"
    BY <1>6 DEF ApplyRow, At, histVars
  <2>2. CASE f \in applied
    BY <1>2, <1>6, <2>1, <2>2 DEF ApplyRow, Duplicate
  <2>3. CASE f \notin applied
    <3>1. req'[e].pc = "bump" /\ req'[e].cur = f /\ applied' = applied \union {f}
      BY <1>6, <2>3 DEF ApplyRow, Duplicate, WellTyped, TypeOK, ReqState
    <3>2. QED
      BY <1>1, <2>1, <3>1 DEF Lost, WellTyped, TypeOK
  <2>4. QED
    BY <2>2, <2>3
<1>7. CASE Increment(e)
  <2> DEFINE f == req[e].cur
  <2>1. /\ UNCHANGED <<answered, outbox, applied>> /\ req[e].pc = "bump"
        /\ f \in Events /\ counted[f] = 0
    BY <1>7 DEF Increment, At, OneBump, Bumping, WellTyped, KnowsRow
  <2>2. counted' = [counted EXCEPT ![f] = 1]
    BY <1>7, <2>1 DEF Increment, Bump
  <2> HIDE DEF f
  <2>3. \A g \in Events : counted'[g] = IF g = f THEN 1 ELSE counted[g]
    BY <2>2 DEF WellTyped, TypeOK
  <2>4. ASSUME NEW x \in Lost' PROVE x \in Lost
    <3>1. x \in Events /\ x # f /\ counted[x] = 0
      BY <2>1, <2>3 DEF Lost, WellTyped, TypeOK
    <3>2. \A g \in Events : ~(req[g].pc = "bump" /\ req[g].cur = x)
      BY <1>1, <3>1 DEF Lost, f
    <3>3. req[x].pc # "sent"
      BY <1>1, <2>1, <3>1 DEF Lost
    <3>4. QED
      BY <2>1, <3>1, <3>2, <3>3 DEF Lost
  <2>5. QED
    BY <2>4
<1>8. CASE MarkApplied(e)
  <2> DEFINE f == req[e].cur
  <2>1. /\ UNCHANGED <<answered, counted, applied>> /\ req[e].pc = "mark"
        /\ f \in applied /\ outbox' = [outbox EXCEPT ![f] = "applied"]
    BY <1>8 DEF MarkApplied, At, histVars, Orderly
  <2> HIDE DEF f
  <2>2. \A g \in Events : outbox'[g] = outbox[g] \/ g \in applied
    BY <2>1 DEF WellTyped, TypeOK
  <2>3. QED
    BY <1>2, <2>1, <2>2
<1>9. QED
  BY <1>3, <1>4, <1>5, <1>6, <1>7, <1>8 DEF TaskStep

LEMMA DisclosedNext == LossInv /\ [Next]_vars => Disclosed'
<1> SUFFICES ASSUME LossInv, [Next]_vars PROVE Disclosed'
  OBVIOUS
<1> USE DEF LossInv
<1>1. ASSUME NEW e \in Events, Resolve(e) \/ Send(e) \/ TaskStep(e) PROVE Disclosed'
  <2>1. Lost' \subseteq Lost
    BY <1>1, TasksLoseNothing
  <2>2. UNCHANGED <<phase, state, flag, failures, waived>>
    BY <1>1 DEF Resolve, Send, TaskStep, Enqueue, SelectPending, NextRow, ApplyRow,
       Increment, MarkApplied, Drained, dbVars, histVars
  <2>3. QED
    BY <2>1, <2>2 DEF Disclosed
<1>2. ASSUME NEW e \in Events, StatementFails(e) PROVE Disclosed'
  BY <1>2 DEF StatementFails, dbVars, Disclosed, WellTyped, TypeOK
<1>3. ASSUME NEW c \in Codes, Delete(c) \/ Expire(c) PROVE Disclosed'
  BY <1>3 DEF Delete, Expire, histVars, Disclosed, Lost
<1>4. CASE DetectUnclean \/ MarkRunning \/ CleanShutdown
  BY <1>4 DEF DetectUnclean, MarkRunning, CleanShutdown, FlagAfterStartup, StoppedState,
     histVars, Disclosed, Lost, WellTyped, TypeOK
<1>5. CASE Crash
  <2>1. phase' = "down" /\ UNCHANGED <<dbVars, failures, histVars>>
    BY <1>5 DEF Crash
  <2>2. CASE phase = "serving"
    BY <2>1, <2>2 DEF Disclosed, dbVars
  <2>3. CASE phase # "serving"
    <3>1. \A e \in Events : req[e].pc \in {"idle", "done"} /\ req'[e].pc \in {"idle", "done"}
      BY <1>5, <2>3, RestStates DEF Crash, Orderly
    <3>2. Lost' = Lost
      BY <2>1, <3>1 DEF Lost, dbVars, histVars, WellTyped, TypeOK
    <3>3. phase = "flagged"
      BY <1>5, <2>3 DEF Crash, WellTyped, TypeOK
    <3>4. QED
      BY <2>1, <3>2, <3>3 DEF Disclosed, dbVars, histVars
  <2>4. QED
    BY <2>2, <2>3
<1>6. CASE Acknowledge
  BY <1>6 DEF Acknowledge, Disclosed, Lost
<1>7. CASE UNCHANGED vars
  BY <1>7 DEF vars, dbVars, histVars, Disclosed, Lost
<1>8. QED
  BY <1>1, <1>2, <1>3, <1>4, <1>5, <1>6, <1>7 DEF Next

\* FR-117: while the service runs and no statement has failed, a redirect that
\* was answered and can no longer be counted is disclosed by the flag, until an
\* operator acknowledges it, for any number of crashes and half-finished starts
\* since it was lost.
THEOREM LossesAreDisclosed == Spec => []LossDisclosed
<1>1. Init => LossInv
  BY WellTypedInit, CountInit, LossInit DEF LossInv
<1>2. LossInv /\ [Next]_vars => LossInv'
  BY WellTypedNext, OneBumpNext, OrderlyNext, DisclosedNext DEF LossInv
<1>3. LossInv => LossDisclosed
  BY DEF LossInv, Disclosed, LossDisclosed
<1>4. QED
  BY <1>1, <1>2, <1>3, PTL DEF Spec

-----------------------------------------------------------------------------
(* Analytics implements RedirectCounter *)

\* The events of a code that were counted.
CountedOf(c) == {e \in Events : CodeOf[e] = c /\ counted[e] = 1}

\* The count of a code is the number of its events that were counted.
Tally ==
  /\ IsFiniteSet(answered)
  /\ \A c \in Codes : count[c] = Cardinality(CountedOf(c))

CountInv == WellTyped /\ OneBump /\ OnlyAnswered /\ Tally

LEMMA TallyInit == Init => Tally
<1> SUFFICES ASSUME Init PROVE Tally
  OBVIOUS
<1>1. \A c \in Codes : CountedOf(c) = {} /\ count[c] = 0
  BY DEF Init, CountedOf
<1>2. QED
  BY <1>1, FS_EmptySet DEF Init, Tally

\* What the counting of one event does to the sets behind the tally.
LEMMA IncrementCounts ==
  ASSUME CountInv, NEW e \in Events, Increment(e)
  PROVE  \E f \in answered :
           /\ UNCHANGED answered
           /\ count' = [count EXCEPT ![CodeOf[f]] = @ + 1]
           /\ f \in Events /\ f \notin CountedOf(CodeOf[f])
           /\ \A c \in Codes : CountedOf(c)' = IF c = CodeOf[f] THEN CountedOf(c) \union {f}
                                               ELSE CountedOf(c)
<1> DEFINE f == req[e].cur
<1> USE DEF CountInv
<1>1. f \in Events /\ f \in answered
  BY DEF Increment, At, WellTyped, KnowsRow, OnlyAnswered
<1>2. counted[f] = 0
  BY <1>1 DEF Increment, At, Bumping, OneBump
<1>3. counted' = [counted EXCEPT ![f] = 1]
  BY <1>2 DEF Increment, Bump
<1>4. count' = [count EXCEPT ![CodeOf[f]] = @ + 1] /\ UNCHANGED answered
  BY DEF Increment, Bump
<1> HIDE DEF f
<1>5. \A h \in Events : counted'[h] = IF h = f THEN 1 ELSE counted[h]
  BY <1>3 DEF WellTyped, TypeOK
<1>6. \A c \in Codes : CountedOf(c)' = IF c = CodeOf[f] THEN CountedOf(c) \union {f}
                                       ELSE CountedOf(c)
  BY <1>1, <1>2, <1>5 DEF CountedOf
<1>7. f \notin CountedOf(CodeOf[f])
  BY <1>2 DEF CountedOf
<1>8. QED
  BY <1>1, <1>4, <1>6, <1>7

LEMMA CountedIsAnswered ==
  ASSUME CountInv, NEW c
  PROVE  /\ CountedOf(c) \subseteq {e \in answered : CodeOf[e] = c}
         /\ IsFiniteSet({e \in answered : CodeOf[e] = c})
         /\ IsFiniteSet(CountedOf(c))
<1>1. CountedOf(c) \subseteq {e \in answered : CodeOf[e] = c}
  BY DEF CountInv, CountedOf, OneBump, OnlyAnswered
<1>2. {e \in answered : CodeOf[e] = c} \subseteq answered
  OBVIOUS
<1>3. QED
  BY <1>1, <1>2, FS_Subset DEF CountInv, Tally

\* A step that counts nothing leaves answered alone, or adds one event to it.
LEMMA OtherSteps ==
  ASSUME CountInv, [Next]_vars, \A e \in Events : ~Increment(e)
  PROVE  /\ UNCHANGED <<count, counted>>
         /\ \/ UNCHANGED answered
            \/ \E e \in Events : answered' = answered \union {e}
<1>1. ASSUME NEW e \in Events, Send(e)
      PROVE  UNCHANGED <<count, counted>> /\ answered' = answered \union {e}
  BY <1>1 DEF Send, dbVars
<1>2. ASSUME NEW e \in Events,
             \/ Resolve(e) \/ Enqueue(e) \/ SelectPending(e) \/ NextRow(e) \/ ApplyRow(e)
             \/ MarkApplied(e) \/ Drained(e) \/ StatementFails(e)
      PROVE  UNCHANGED <<count, counted, answered>>
  BY <1>2 DEF Resolve, Enqueue, SelectPending, NextRow, ApplyRow, MarkApplied, Drained,
     StatementFails, dbVars, histVars
<1>3. ASSUME \/ \E c \in Codes : Delete(c) \/ Expire(c)
             \/ DetectUnclean \/ MarkRunning \/ CleanShutdown \/ Acknowledge \/ Crash
             \/ UNCHANGED vars
      PROVE  UNCHANGED <<count, counted, answered>>
  BY <1>3 DEF Delete, Expire, DetectUnclean, MarkRunning, CleanShutdown, Acknowledge,
     Crash, vars, dbVars, histVars
<1>4. QED
  BY <1>1, <1>2, <1>3 DEF Next, TaskStep

LEMMA TallyNext == CountInv /\ [Next]_vars => Tally'
<1> SUFFICES ASSUME CountInv, [Next]_vars PROVE Tally'
  OBVIOUS
<1>1. ASSUME NEW e \in Events, Increment(e) PROVE Tally'
  <2>1. PICK f \in answered :
           /\ UNCHANGED answered
           /\ count' = [count EXCEPT ![CodeOf[f]] = @ + 1]
           /\ f \in Events /\ f \notin CountedOf(CodeOf[f])
           /\ \A c \in Codes : CountedOf(c)' = IF c = CodeOf[f] THEN CountedOf(c) \union {f}
                                               ELSE CountedOf(c)
    BY <1>1, IncrementCounts
  <2>2. \A c \in Codes : count'[c] = IF c = CodeOf[f] THEN count[c] + 1 ELSE count[c]
    BY <2>1 DEF CountInv, WellTyped, TypeOK
  <2>3. Cardinality(CountedOf(CodeOf[f]) \union {f}) = Cardinality(CountedOf(CodeOf[f])) + 1
    BY <2>1, CountedIsAnswered, FS_AddElement
  <2>4. QED
    BY <2>1, <2>2, <2>3 DEF CountInv, Tally
<1>2. CASE \A e \in Events : ~Increment(e)
  <2>1. UNCHANGED <<count, counted>>
    BY <1>2, OtherSteps
  <2>2. IsFiniteSet(answered')
    BY <1>2, OtherSteps, FS_AddElement DEF CountInv, Tally
  <2>3. \A c \in Codes : CountedOf(c)' = CountedOf(c)
    BY <2>1 DEF CountedOf
  <2>4. QED
    BY <2>1, <2>2, <2>3 DEF CountInv, Tally
<1>3. QED
  BY <1>1, <1>2

LEMMA SameCardinality == \A S : Counter!Cardinality(S) = Cardinality(S)
  BY DEF Counter!Cardinality, Cardinality

LEMMA CounterStep == CountInv /\ [Next]_vars => [Counter!Next]_(Counter!vars)
<1> SUFFICES ASSUME CountInv, [Next]_vars PROVE [Counter!Next]_(Counter!vars)
  OBVIOUS
<1>1. ASSUME NEW e \in Events, Increment(e) PROVE Counter!Next
  <2>1. PICK f \in answered :
           /\ UNCHANGED answered
           /\ count' = [count EXCEPT ![CodeOf[f]] = @ + 1]
           /\ f \in Events /\ f \notin CountedOf(CodeOf[f])
    BY <1>1, IncrementCounts
  <2> DEFINE c == CodeOf[f]
             all == {g \in answered : CodeOf[g] = c}
  <2>2. c \in Codes /\ c \in Counter!Codes
    BY <2>1 DEF Codes, Counter!Codes
  <2>3. CountedOf(c) \union {f} \subseteq all /\ IsFiniteSet(all) /\ IsFiniteSet(CountedOf(c))
    BY <2>1, CountedIsAnswered
  <2>4. Cardinality(CountedOf(c) \union {f}) = Cardinality(CountedOf(c)) + 1
    BY <2>1, <2>3, FS_AddElement
  <2>5. Cardinality(CountedOf(c) \union {f}) <= Cardinality(all)
    BY <2>3, FS_Subset
  <2>6. Cardinality(CountedOf(c)) \in Nat /\ Cardinality(all) \in Nat
    BY <2>3, FS_CardinalityType
  <2>7. count[c] < Cardinality(all)
    BY <2>2, <2>4, <2>5, <2>6 DEF CountInv, Tally
  <2>8. Counter!Increment(c)
    BY <2>1, <2>7, SameCardinality DEF Counter!Increment, Counter!Answered
  <2>9. QED
    BY <2>2, <2>8 DEF Counter!Next
<1>2. CASE \A e \in Events : ~Increment(e)
  <2>1. /\ UNCHANGED count
        /\ \/ UNCHANGED answered
           \/ \E e \in Events : answered' = answered \union {e}
    BY <1>2, OtherSteps
  <2>2. QED
    BY <2>1 DEF Counter!Next, Counter!Answer, Counter!vars
<1>3. QED
  BY <1>1, <1>2

\* FR-105: however drains overlap, are cut short by crashes or fail, each step of
\* the service is a step of the abstract counter, which increments a count only
\* for a redirect that was answered and never for more than were, or leaves it be.
THEOREM ImplementsCounter == Spec => CounterSpec
<1>1. Init => Counter!Init
  BY DEF Init, Counter!Init, Codes, Counter!Codes
<1>2. Spec => []CountInv
  <2>1. Init => CountInv
    BY CountInit, WellTypedInit, TallyInit DEF CountInv
  <2>2. CountInv /\ [Next]_vars => CountInv'
    BY WellTypedNext, OneBumpNext, OnlyAnsweredNext, TallyNext DEF CountInv
  <2>3. QED
    BY <2>1, <2>2, PTL DEF Spec
<1>3. QED
  BY <1>1, <1>2, CounterStep, PTL DEF Spec, CounterSpec, Counter!Spec
=============================================================================
