----------------------------- MODULE Analytics ------------------------------
(***************************************************************************)
(* Redirects and their counting: api/routers/redirect.py,                  *)
(* domain/analytics.py, the system status of observability/system_status.py *)
(* and the lifespan of api/main.py.                                        *)
(*                                                                         *)
(* A redirect is answered first; a background task in a thread then writes *)
(* the event to the outbox and drains the outbox, its own event and all    *)
(* others that are pending.  Tasks of several requests drain at the same   *)
(* time.  Every statement commits by itself (persistence/db.py), so the    *)
(* three writes that apply one event are three actions, and the process    *)
(* can crash between them.                                                 *)
(***************************************************************************)
EXTENDS Integers, FiniteSets

CONSTANTS
  Events,       \* redirect requests; also the ids of their outbox rows
  CodeOf,       \* the short code each of them asks for
  MaxCrashes,   \* bound: crashes of the process
  MaxFailures,  \* bound: statements that fail (database locked)
  None          \* "no event"

ASSUME AnalyticsAssumption ==
  /\ None \notin Events
  /\ MaxCrashes \in Nat
  /\ MaxFailures \in Nat

Codes == {CodeOf[e] : e \in Events}

VARIABLES
  link,      \* domain_short_link.status
  expired,   \* short codes whose expires_at has passed
  outbox,    \* domain_analytics_outbox.drain_status, "none" before INSERT
  applied,   \* the rows of applied_events
  count,     \* successful_redirect_count
  state,     \* analytics_system_status.state
  flag,      \* degraded_since_unclean_shutdown_at is set
  phase,     \* of the process: down, flagged (half started), serving
  req,       \* the statement each request and its background task is at
  crashes,   \* number of crashes so far
  failures,  \* number of failed statements so far
  answered,  \* history: requests answered with a redirect
  counted,   \* history: increments made on behalf of each event
  waived     \* history: losses an operator's acknowledgement has covered

dbVars   == <<link, expired, outbox, applied, count, state, flag>>
histVars == <<answered, counted, waived>>
vars     == <<dbVars, phase, req, crashes, failures, histVars>>

ReqPc == {"idle", "sending", "sent", "select", "next", "apply", "bump", "mark", "done"}

\* todo: the pending rows the drain has SELECTed; cur: the one in hand.
ReqState == [pc : ReqPc, todo : SUBSET Events, cur : Events \union {None}]

Fresh == [pc |-> "idle", todo |-> {}, cur |-> None]
Over  == [pc |-> "done", todo |-> {}, cur |-> None]

Init ==
  /\ link = [c \in Codes |-> "active"]
  /\ expired = {}
  /\ outbox = [e \in Events |-> "none"]
  /\ applied = {}
  /\ count = [c \in Codes |-> 0]
  /\ state = "stopped_clean"  \* ensure_status_row
  /\ flag = FALSE
  /\ phase = "down"
  /\ req = [e \in Events |-> Fresh]
  /\ crashes = 0
  /\ failures = 0
  /\ answered = {}
  /\ counted = [e \in Events |-> 0]
  /\ waived = {}

At(e, pc) == phase = "serving" /\ req[e].pc = pc

-----------------------------------------------------------------------------
(* resolve_short_link, and what changes a link meanwhile *)

Delete(c) ==
  /\ phase = "serving"
  /\ link[c] = "active"
  /\ link' = [link EXCEPT ![c] = "deleted"]
  /\ UNCHANGED <<expired, outbox, applied, count, state, flag, phase, req,
                 crashes, failures, histVars>>

Expire(c) ==
  /\ c \notin expired
  /\ expired' = expired \union {c}
  /\ UNCHANGED <<link, outbox, applied, count, state, flag, phase, req,
                 crashes, failures, histVars>>

\* 404 or 410 without a background task, or a redirect to be sent.
Resolve(e) ==
  /\ At(e, "idle")
  /\ req' = [req EXCEPT ![e] =
       IF link[CodeOf[e]] = "active" /\ CodeOf[e] \notin expired
         THEN [Fresh EXCEPT !.pc = "sending"] ELSE Over]
  /\ UNCHANGED <<dbVars, phase, crashes, failures, histVars>>

Send(e) ==
  /\ At(e, "sending")
  /\ req' = [req EXCEPT ![e].pc = "sent"]
  /\ answered' = answered \union {e}
  /\ UNCHANGED <<dbVars, phase, crashes, failures, counted, waived>>

-----------------------------------------------------------------------------
(* _write_analytics_after_response: enqueue_redirect_event, drain_outbox *)

ResponseBuilt(e) == At(e, "sent") \/ At(e, "sending")  \* mutant

\* BackgroundTasks run strictly after the response is transmitted.
ResponseSent(e) == At(e, "sent")

Enqueue(e) ==
  /\ ResponseSent(e)
  /\ outbox' = [outbox EXCEPT ![e] = "pending"]
  /\ req' = [req EXCEPT ![e].pc = "select"]
  /\ UNCHANGED <<link, expired, applied, count, state, flag, phase,
                 crashes, failures, histVars>>

SelectPending(e) ==
  /\ At(e, "select")
  /\ req' = [req EXCEPT ![e].pc = "next",
                        ![e].todo = {f \in Events : outbox[f] = "pending"}]
  /\ UNCHANGED <<dbVars, phase, crashes, failures, histVars>>

\* The next row of the result: was it applied already?
NextRow(e) ==
  /\ At(e, "next")
  /\ \E f \in req[e].todo :
       req' = [req EXCEPT ![e] = [pc |-> IF f \in applied THEN "mark" ELSE "apply",
                                  todo |-> req[e].todo \ {f}, cur |-> f]]
  /\ UNCHANGED <<dbVars, phase, crashes, failures, histVars>>

NeverDuplicate(f) == FALSE  \* mutant

\* The primary key of applied_events.
Duplicate(f) == f \in applied

\* INSERT INTO applied_events.  If another task has inserted the row since it
\* was looked up, IntegrityError ends this task.
ApplyRow(e) ==
  LET f == req[e].cur IN
  /\ At(e, "apply")
  /\ IF Duplicate(f)
       THEN /\ req' = [req EXCEPT ![e] = Over]
            /\ UNCHANGED applied
       ELSE /\ applied' = applied \union {f}
            /\ req' = [req EXCEPT ![e].pc = "bump"]
  /\ UNCHANGED <<link, expired, outbox, count, state, flag, phase,
                 crashes, failures, histVars>>

BumpIfActive(f) == IF link[CodeOf[f]] = "active" THEN 1 ELSE 0  \* mutant

\* successful_redirect_count + 1, whatever became of the link meanwhile.
Bump(f) == 1

Increment(e) ==
  LET f == req[e].cur IN
  /\ At(e, "bump")
  /\ count' = [count EXCEPT ![CodeOf[f]] = @ + Bump(f)]
  /\ counted' = [counted EXCEPT ![f] = @ + Bump(f)]
  /\ req' = [req EXCEPT ![e].pc = "mark"]
  /\ UNCHANGED <<link, expired, outbox, applied, state, flag, phase,
                 crashes, failures, answered, waived>>

MarkApplied(e) ==
  /\ At(e, "mark")
  /\ outbox' = [outbox EXCEPT ![req[e].cur] = "applied"]
  /\ req' = [req EXCEPT ![e].pc = "next", ![e].cur = None]
  /\ UNCHANGED <<link, expired, applied, count, state, flag, phase,
                 crashes, failures, histVars>>

Drained(e) ==
  /\ At(e, "next")
  /\ req[e].todo = {}
  /\ req' = [req EXCEPT ![e] = Over]
  /\ UNCHANGED <<dbVars, phase, crashes, failures, histVars>>

\* A statement of the task raises OperationalError after the busy timeout; no
\* caller retries it and nothing is recorded of it.
StatementFails(e) ==
  /\ failures < MaxFailures
  /\ phase = "serving"
  /\ req[e].pc \notin {"idle", "sending", "done"}
  /\ req' = [req EXCEPT ![e] = Over]
  /\ failures' = failures + 1
  /\ UNCHANGED <<dbVars, phase, crashes, histVars>>

-----------------------------------------------------------------------------
(* lifespan and system_status *)

LastShutdownOnly == state = "running"  \* mutant

\* on_startup sets the flag if the last process did not stop cleanly, and
\* leaves it alone otherwise.
FlagAfterStartup == flag \/ state = "running"

\* on_startup, first UPDATE.
DetectUnclean ==
  /\ phase = "down"
  /\ flag' = FlagAfterStartup
  /\ phase' = "flagged"
  /\ UNCHANGED <<link, expired, outbox, applied, count, state, req,
                 crashes, failures, histVars>>

\* on_startup, second UPDATE; then requests are served.
MarkRunning ==
  /\ phase = "flagged"
  /\ state' = "running"
  /\ phase' = "serving"
  /\ UNCHANGED <<link, expired, outbox, applied, count, flag, req,
                 crashes, failures, histVars>>

StoppedState == "stopped_clean"

\* The server lets requests and their background tasks end, and then runs the
\* end of the lifespan: on_clean_shutdown.
CleanShutdown ==
  /\ phase = "serving"
  /\ \A e \in Events : req[e].pc \in {"idle", "done"}
  /\ state' = StoppedState
  /\ phase' = "down"
  /\ UNCHANGED <<link, expired, outbox, applied, count, flag, req,
                 crashes, failures, histVars>>

Crash ==
  /\ phase # "down"
  /\ crashes < MaxCrashes
  /\ crashes' = crashes + 1
  /\ phase' = "down"
  /\ req' = [e \in Events |-> IF req[e].pc = "idle" THEN Fresh ELSE Over]
  /\ UNCHANGED <<dbVars, failures, histVars>>

\* Redirects that were answered and can no longer be counted: no task is at
\* work on them and no drain will apply them.
Lost == {e \in answered :
           /\ counted[e] = 0
           /\ outbox[e] # "pending" \/ e \in applied
           /\ req[e].pc # "sent"
           /\ \A f \in Events : ~(req[f].pc = "bump" /\ req[f].cur = e)}

\* acknowledge, called by an operator.
Acknowledge ==
  /\ phase = "serving"
  /\ flag
  /\ flag' = FALSE
  /\ waived' = waived \union Lost
  /\ UNCHANGED <<link, expired, outbox, applied, count, state, phase, req,
                 crashes, failures, answered, counted>>

-----------------------------------------------------------------------------
TaskStep(e) ==
  \/ Enqueue(e)
  \/ SelectPending(e)
  \/ NextRow(e)
  \/ ApplyRow(e)
  \/ Increment(e)
  \/ MarkApplied(e)
  \/ Drained(e)

Next ==
  \/ \E c \in Codes : Delete(c) \/ Expire(c)
  \/ \E e \in Events : Resolve(e) \/ Send(e) \/ TaskStep(e) \/ StatementFails(e)
  \/ DetectUnclean
  \/ MarkRunning
  \/ CleanShutdown
  \/ Crash
  \/ Acknowledge

Spec == Init /\ [][Next]_vars

-----------------------------------------------------------------------------
(* Properties *)

\* Every variable has its type.
TypeOK ==
  /\ link \in [Codes -> {"active", "deleted"}]
  /\ expired \in SUBSET Codes
  /\ outbox \in [Events -> {"none", "pending", "applied"}]
  /\ applied \in SUBSET Events
  /\ count \in [Codes -> Nat]
  /\ state \in {"running", "stopped_clean"}
  /\ flag \in BOOLEAN
  /\ phase \in {"down", "flagged", "serving"}
  /\ req \in [Events -> ReqState]
  /\ crashes \in 0..MaxCrashes
  /\ failures \in 0..MaxFailures
  /\ answered \in SUBSET Events
  /\ counted \in [Events -> Nat]
  /\ waived \in SUBSET Events

\* drain_outbox "cannot double-count": however the drains of several tasks
\* overlap, fail and are cut short by crashes, an event is counted once at most,
\* and only if its redirect was sent.
CountedOnce ==
  \A e \in Events : counted[e] <= 1 /\ (counted[e] = 1 => e \in answered)

\* drain_outbox: an event that is on record as applied has been counted, or a
\* task is about to count it.
AppliedIsCounted ==
  \A e \in applied :
    counted[e] = 1 \/ \E f \in Events : req[f].pc = "bump" /\ req[f].cur = e

\* It is so until a crash or a failing statement separates the INSERT into
\* applied_events from the increment.
AppliedIsCountedUntilFault == crashes = 0 /\ failures = 0 => AppliedIsCounted

\* FR-117: while the service runs, any redirect that was answered and lost to
\* the count is disclosed by the flag, until an operator acknowledges it.  The
\* crash that lost it may be several restarts ago.  (A statement that fails loses
\* a redirect without a crash, and nothing discloses it.)
LossDisclosed ==
  phase = "serving" /\ failures = 0 /\ Lost \ waived # {} => flag

\* The counting of redirects implements RedirectCounter.
Counter == INSTANCE RedirectCounter WITH
  Events <- Events, CodeOf <- CodeOf, answered <- answered, count <- count
CounterSpec == Counter!Spec
=============================================================================
