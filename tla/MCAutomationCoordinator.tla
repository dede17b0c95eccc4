----------------------- MODULE MCAutomationCoordinator ----------------------
(* Two tasks and three attempts: two dispatches of one task race, while    *)
(* the other task keeps the tick and the pool busy.                        *)
EXTENDS AutomationCoordinator

CONSTANTS t1, t2, r1, r2, r3

(* What the user may do to a task nobody works on: plan it, ready it, and  *)
(* take a failed one round through Looped to Planned again.                *)
Requeue == {<<"Planned", "Ready">>, <<"Ready", "Planned">>,
            <<"Failed", "Looped">>, <<"Looped", "Planned">>}
Unplan == {<<"Planned", "Ready">>, <<"Ready", "Planned">>}

AllFaults == {"worktree", "context", "start", "send", "age"}
=============================================================================
