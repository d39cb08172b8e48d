------------------------------ MODULE MC_live -------------------------------
(* Circumstances in which LiveScheduler is checked. *)
EXTENDS LiveScheduler

CONSTANTS t1, t2

AllTickers == {t1, t2}

\* One process, two crashes, a tick that raises, and a resume.
Faulty ==
  [tickers |-> {t1}, seedFirst |-> TRUE, stalls |-> TRUE,
   claims |-> 2, crashes |-> 2, raises |-> 1, stops |-> 0, resumes |-> 1]

\* One process that ticks while the request is still seeding the pipeline.
Seeding ==
  [tickers |-> {t1}, seedFirst |-> FALSE, stalls |-> TRUE,
   claims |-> 2, crashes |-> 1, raises |-> 0, stops |-> 0, resumes |-> 1]

\* Two processes at once, no tick of which outlasts a lease.
Racing ==
  [tickers |-> {t1, t2}, seedFirst |-> TRUE, stalls |-> FALSE,
   claims |-> 4, crashes |-> 1, raises |-> 0, stops |-> 0, resumes |-> 0]

\* One process whose workflow is stopped in the middle of a tick, and resumed.
Stopped == [Faulty EXCEPT !.crashes = 1, !.raises = 0, !.stops = 1]

AllSettings == {Faulty, Seeding, Racing, Stopped}
OneCrash == {[Faulty EXCEPT !.crashes = 1, !.raises = 0, !.resumes = 0]}
=============================================================================
