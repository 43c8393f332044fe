----------------------------- MODULE MCServices -----------------------------
(* Instances of Environment and of Timer for TLC.  The two share no state,  *)
(* so a behaviour is one of either; the initial state says of which.        *)
EXTENDS Environment, Timer, TLC

VARIABLE service

allvars == <<vars, timervars, service>>

MCInit == Init /\ TimerInit /\ service \in {"environment", "timer"}

OfEnvironment(A) == service = "environment" /\ A /\ UNCHANGED <<timervars, service>>

OfTimer(A) == service = "timer" /\ A /\ UNCHANGED <<vars, service>>

\* The fairness is that of TimerSpec.
MCSpec == /\ MCInit /\ [][OfEnvironment(Next) \/ OfTimer(TimerNext)]_allvars
          /\ WF_allvars(OfTimer(Tick)) /\ SF_allvars(OfTimer(Return))

\* PCBs, and the keys other than PATH, are interchangeable: none of them is in the
\* state of Timer, which the temporal property is about.
Interchangeable == Permutations(Procs) \cup Permutations(Keys \ {Path})
=============================================================================
