--------------------------- MODULE RedirectCounter --------------------------
(***************************************************************************)
(* What the redirect counter of the URL shortener promises (FR-105): every *)
(* increment stands for a redirect response that was sent before, and no   *)
(* response is counted twice.  Some may never be counted.                  *)
(***************************************************************************)
EXTENDS Integers, FiniteSets

CONSTANTS
  Events,  \* redirect requests
  CodeOf   \* the short code each of them asks for

Codes == {CodeOf[e] : e \in Events}

VARIABLES
  answered,  \* requests that were answered with a redirect
  count      \* successful_redirect_count of each short code

vars == <<answered, count>>

Answered(c) == {e \in answered : CodeOf[e] = c}

Init ==
  /\ answered = {}
  /\ count = [c \in Codes |-> 0]

Answer(e) ==
  /\ e \notin answered
  /\ answered' = answered \union {e}
  /\ UNCHANGED count

Increment(c) ==
  /\ count[c] < Cardinality(Answered(c))
  /\ count' = [count EXCEPT ![c] = @ + 1]
  /\ UNCHANGED answered

Next ==
  \/ \E e \in Events : Answer(e)
  \/ \E c \in Codes : Increment(c)

Spec == Init /\ [][Next]_vars
=============================================================================
