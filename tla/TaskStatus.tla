----------------------------- MODULE TaskStatus -----------------------------
(***************************************************************************)
(* The status of a task and the moves pnevma-core allows between them      *)
(* (TaskContract::transition).  Only update_task and prepare ask it; every *)
(* other writer of tasks.status stores what it computed.                   *)
(***************************************************************************)

Status == {"Planned", "Ready", "Dispatching", "InProgress", "Review",
           "Done", "Failed", "Blocked", "Looped"}

Transition ==
    {<<"Planned", "Ready">>,          <<"Ready", "Planned">>,
     <<"Ready", "Dispatching">>,      <<"Dispatching", "InProgress">>,
     <<"Dispatching", "Ready">>,      <<"Dispatching", "Failed">>,
     <<"Ready", "InProgress">>,       <<"InProgress", "Review">>,
     <<"Review", "Done">>,            <<"Ready", "Failed">>,
     <<"InProgress", "Failed">>,      <<"Review", "Failed">>,
     <<"Planned", "Blocked">>,        <<"Ready", "Blocked">>,
     <<"Blocked", "Planned">>,        <<"Failed", "Looped">>,
     <<"Done", "Looped">>,            <<"Looped", "Planned">>}

(* is_terminal_task_status: Review is not among them.                      *)
Terminal == {"Done", "Failed", "Looped"}
=============================================================================
