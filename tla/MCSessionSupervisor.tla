------------------------- MODULE MCSessionSupervisor -------------------------
(* Sessions and callers for the runs: what each caller may call is fixed,  *)
(* so that each run has the calls its question is about.                   *)
EXTENDS SessionSupervisor, TLC

CONSTANTS s1, s2, c1, c2, c3

\* three calls on restored sessions
Feeding == (c1 :> {"attach", "input", "kill"}) @@ (c2 :> {"attach", "input", "kill"})
               @@ (c3 :> {"attach", "input", "kill"})
\* reattached twice, and killed
Reattaching == (c1 :> {"attach"}) @@ (c2 :> {"attach"}) @@ (c3 :> {"kill"})
\* a session from its creation to its end
Lifetime == (c1 :> {"spawn"}) @@ (c2 :> {"attach", "input"}) @@ (c3 :> {"kill"})
\* two sessions for one slot
Contention == (c1 :> {"spawn"}) @@ (c2 :> {"spawn"}) @@ (c3 :> {"kill"})
=============================================================================
