----------------------- MODULE AutomationCoordinator ------------------------
(***************************************************************************)
(* Dispatch: how a Ready task becomes a running agent, and how the run is  *)
(* accounted for until it is over.  Four kinds of actors share the state:  *)
(*                                                                         *)
(*   - the coordinator's tick loop, which dispatches auto_dispatch tasks,  *)
(*     collects finished runs and reconciles what it tracks with what it   *)
(*     observes (automation/coordinator.rs);                               *)
(*   - command handlers that dispatch one task: task.dispatch and          *)
(*     task.dispatch_next_ready (commands/tasks.rs, control.rs);           *)
(*   - the event loop of every agent, from spawn to the final rows         *)
(*     (automation/runner.rs);                                             *)
(*   - the user, who edits tasks and rejects reviews, and the process      *)
(*     itself, which may die and be opened again.                          *)
(*                                                                         *)
(* An attempt is one call of runner::prepare and all that follows from it. *)
(* Its steps interleave with those of every other actor at the code's      *)
(* await points.  A step that fails runs its error path in the same step:  *)
(* the handlers on those paths write rows of the attempt's own task only.  *)
(***************************************************************************)
EXTENDS Naturals, FiniteSets, TaskStatus

CONSTANTS
    Task,           \* tasks of the open project
    Attempt,        \* dispatch attempts that may be under way at once
    AutoTask,       \* tasks with auto_dispatch
    ManualTask,     \* tasks the user may dispatch by hand
    NextReadyTask,  \* tasks task.dispatch_next_ready may pick
    MainTask,       \* tasks with execution_mode "main": no worktree
    UntilComplete,  \* gate tasks of an until_complete loop
    MaxConcurrent,  \* max_concurrent of WORKFLOW.md
    PoolMax,        \* agents.max_concurrent of pnevma.toml
    Moves,          \* status moves the user asks update_task for
    EarlyDispatch,  \* whether the user dispatches before recovery is over
    Rejects,        \* whether the user rejects reviews
    Faults,         \* the kinds of failure that may happen
    MaxCrashes,     \* bound: how often the process dies
    None            \* no task, no attempt

ASSUME CoordinatorAssumption ==
    /\ IsFiniteSet(Task) /\ IsFiniteSet(Attempt)
    /\ AutoTask \subseteq Task /\ ManualTask \subseteq Task
    /\ NextReadyTask \subseteq Task
    /\ MainTask \subseteq Task /\ UntilComplete \subseteq Task
    /\ MaxConcurrent \in Nat /\ PoolMax \in Nat /\ MaxCrashes \in Nat
    /\ Moves \subseteq Transition
    /\ EarlyDispatch \in BOOLEAN /\ Rejects \in BOOLEAN
    /\ None \notin Task \cup Attempt

VARIABLES
    status,      \* [Task -> Status], tasks.status in the database
    claims,      \* keys of AutomationCoordinator::claims
    aged,        \* claims older than five minutes
    running,     \* AutomationCoordinator::running
    attempt,     \* where each attempt stands, for which task and caller
    permits,     \* attempts that own a DispatchPermit
    worktrees,   \* tasks with a worktrees row and its directory
    branches,    \* tasks whose branch pnevma/<task>/<slug> exists
    sessions,    \* agent session rows that say "running", with their task
    records,     \* automation_runs rows that say "running", with their task
    tick,        \* where the coordinator's loop stands
    batch,       \* tasks the tick has still to dispatch
    doomed,      \* reconciler actions the tick has still to carry out
    crashes      \* how often the process has died

dispatchVars == <<claims, aged, running, attempt, permits>>
rowVars == <<status, worktrees, branches, sessions, records>>
tickVars == <<tick, batch, doomed>>
vars == <<dispatchVars, rowVars, tickVars, crashes>>

-----------------------------------------------------------------------------
(* Where an attempt stands.                                                *)
(*   taken       dispatch_next_ready has set the task to Dispatching       *)
(*   claimed     the claim is held, prepare has not begun                  *)
(*   permitted   prepare has read the task as Ready and owns a permit      *)
(*   housed      the worktree, if the task wants one, is there             *)
(*   written     the task is InProgress in the database                    *)
(*   prepared    prepare has returned, the automation_runs row exists      *)
(*   started     the agent is spawned and its event loop runs              *)
(*   registered  the attempt is in the running map                         *)
(*   live        the payload is sent                                       *)
(*   ending      the event loop has left its select, verdict to come       *)
(*   closing     a verdict other than Failed is written                    *)
(*   failing     the verdict Failed is written                             *)
(*   reverting   dispatch_next_ready gives the task back                   *)
(*   free        no such attempt                                           *)
Dispatching == {"claimed", "permitted", "housed", "written",
                "prepared", "started", "registered"}
EventLoop == {"started", "registered", "live", "ending", "closing", "failing"}
Phase == Dispatching \cup EventLoop \cup {"taken", "reverting"}

Origin == {"auto", "manual", "next_ready"}

NoAttempt == [phase |-> "free", task |-> None, origin |-> "none"]
AttemptState == [phase : Phase, task : Task, origin : Origin] \cup {NoAttempt}

(* TrackedRun: event_task is there for auto runs only, so that an entry    *)
(* with state Running has one exactly when its origin is auto.             *)
Untracked == [state |-> "none", run |-> None, origin |-> "none"]
Preparing == [state |-> "Preparing", run |-> None, origin |-> "auto"]
Running(r, o) == [state |-> "Running", run |-> r, origin |-> o]
TrackedRun == [state : {"none", "Preparing", "Running"},
               run : Attempt \cup {None}, origin : {"none", "auto", "manual"}]

Of(t) == {r \in Attempt : attempt[r].task = t}
InFlight == {r \in Attempt : attempt[r].phase \in Dispatching}
At(r, p) == attempt[r].phase = p
TaskOf(r) == attempt[r].task
Row(r) == <<r, TaskOf(r)>>
Goto(r, p) == attempt' = [attempt EXCEPT ![r].phase = p]

(* A free attempt that no entry of the running map still refers to.        *)
Unused(r) == attempt[r] = NoAttempt /\ \A t \in Task : running[t].run # r

(* The attempt is over.  After a failure the caller of task.dispatch has   *)
(* its error; dispatch_next_ready goes on to give the task back.           *)
Finish(r) == attempt' = [attempt EXCEPT ![r] = NoAttempt]
Quit(r) == IF attempt[r].origin = "next_ready" THEN Goto(r, "reverting")
                                               ELSE Finish(r)

ReleaseClaim(t) == claims' = claims \ {t} /\ aged' = aged \ {t}
Untrack(t) == running' = [running EXCEPT ![t] = Untracked]
SetStatus(t, s) == status' = [status EXCEPT ![t] = s]

-----------------------------------------------------------------------------
(* A dispatch, from the claim to the payload.                              *)

Recovering == tick \in {"starting", "recovering", "cleaning"}
UserDispatches == EarlyDispatch \/ ~Recovering

\* slip: task.dispatch inserts its claim without looking for another one
ManualDispatchUnclaimed(r, t) ==
    /\ UserDispatches /\ t \in ManualTask
    /\ Unused(r)
    /\ claims' = claims \cup {t}
    /\ attempt' = [attempt EXCEPT ![r] =
                     [phase |-> "claimed", task |-> t, origin |-> "manual"]]
    /\ UNCHANGED <<aged, running, permits, rowVars, tickVars, crashes>>

(* task.dispatch: the claim comes before prepare.  A task that is claimed  *)
(* is refused, and nothing changes.                                        *)
ManualDispatch(r, t) ==
    /\ UserDispatches /\ t \in ManualTask
    /\ Unused(r)
    /\ t \notin claims
    /\ claims' = claims \cup {t}
    /\ attempt' = [attempt EXCEPT ![r] =
                     [phase |-> "claimed", task |-> t, origin |-> "manual"]]
    /\ UNCHANGED <<aged, running, permits, rowVars, tickVars, crashes>>

(* task.dispatch_next_ready: the status moves in one UPDATE ... RETURNING. *)
TakeNextReady(r, t) ==
    /\ UserDispatches /\ t \in NextReadyTask
    /\ Unused(r)
    /\ status[t] = "Ready"
    /\ SetStatus(t, "Dispatching")
    /\ attempt' = [attempt EXCEPT ![r] =
                     [phase |-> "taken", task |-> t, origin |-> "next_ready"]]
    /\ UNCHANGED <<claims, aged, running, permits, worktrees, branches,
                   sessions, records, tickVars, crashes>>

(* dispatch_next_ready calls dispatch_task, which begins with try_claim.   *)
ClaimTaken(r) ==
    /\ At(r, "taken")
    /\ IF TaskOf(r) \in claims
       THEN Goto(r, "reverting") /\ UNCHANGED claims
       ELSE Goto(r, "claimed") /\ claims' = claims \cup {TaskOf(r)}
    /\ UNCHANGED <<aged, running, permits, rowVars, tickVars, crashes>>

(* ... and its error path reverts the task if it is still Dispatching.     *)
RevertTaken(r) ==
    /\ At(r, "reverting")
    /\ status' = IF status[TaskOf(r)] = "Dispatching"
                 THEN [status EXCEPT ![TaskOf(r)] = "Ready"] ELSE status
    /\ Finish(r)
    /\ UNCHANGED <<claims, aged, running, permits, worktrees, branches,
                   sessions, records, tickVars, crashes>>

\* slip: the pool counts one slot too many
AcquirePermitPastMax(r) ==
    /\ At(r, "claimed")
    /\ status[TaskOf(r)] = "Ready"
    /\ Cardinality(permits) <= PoolMax
    /\ permits' = permits \cup {r}
    /\ Goto(r, "permitted")
    /\ UNCHANGED <<claims, aged, running, rowVars, tickVars, crashes>>

(* prepare up to try_acquire: the row must say Ready, and a slot be free.  *)
AcquirePermit(r) ==
    /\ At(r, "claimed")
    /\ status[TaskOf(r)] = "Ready"
    /\ Cardinality(permits) < PoolMax
    /\ permits' = permits \cup {r}
    /\ Goto(r, "permitted")
    /\ UNCHANGED <<claims, aged, running, rowVars, tickVars, crashes>>

(* InvalidStatus, Queued or a full queue.  The caller releases the claim;  *)
(* the Preparing entry dispatch_claimed inserted stays.                    *)
RefusePermit(r) ==
    /\ At(r, "claimed")
    /\ status[TaskOf(r)] # "Ready" \/ Cardinality(permits) >= PoolMax
    /\ ReleaseClaim(TaskOf(r))
    /\ Quit(r)
    /\ UNCHANGED <<running, permits, rowVars, tickVars, crashes>>

(* An error of prepare after the permit: the permit is dropped with the    *)
(* stack frame, the caller releases the claim, the Preparing entry stays.  *)
FailPrepare(r) ==
    /\ permits' = permits \ {r}
    /\ ReleaseClaim(TaskOf(r))
    /\ Quit(r)
    /\ UNCHANGED running

(* create_worktree and the worktrees row; nothing of it in "main" mode.    *)
(* git branch refuses a name that exists, and a task has one name.         *)
CreateWorktree(r) ==
    /\ At(r, "permitted")
    /\ IF TaskOf(r) \in MainTask
       THEN UNCHANGED <<worktrees, branches>>
       ELSE /\ TaskOf(r) \notin branches
            /\ worktrees' = worktrees \cup {TaskOf(r)}
            /\ branches' = branches \cup {TaskOf(r)}
    /\ Goto(r, "housed")
    /\ UNCHANGED <<claims, aged, running, permits, status, sessions, records,
                   tickVars, crashes>>

(* git refuses, at the branch or between the branch and the worktree, or   *)
(* the after_create hook fails and the worktree is removed again: the      *)
(* branch, if it was made, outlives each of them.                          *)
FailWorktree(r) ==
    /\ At(r, "permitted")
    /\ TaskOf(r) \notin MainTask
    /\ \/ TaskOf(r) \in branches /\ UNCHANGED branches
       \/ /\ "worktree" \in Faults
          /\ TaskOf(r) \notin branches
          /\ branches' \in {branches, branches \cup {TaskOf(r)}}
    /\ FailPrepare(r)
    /\ UNCHANGED <<status, worktrees, sessions, records, tickVars, crashes>>

(* The row read before the worktree was made is written back, InProgress.  *)
WriteInProgress(r) ==
    /\ At(r, "housed")
    /\ SetStatus(TaskOf(r), "InProgress")
    /\ Goto(r, "written")
    /\ UNCHANGED <<claims, aged, running, permits, worktrees, branches,
                   sessions, records, tickVars, crashes>>

(* The context is compiled, prepare returns, the run record is created.    *)
CreateRunRecord(r) ==
    /\ At(r, "written")
    /\ records' = records \cup {Row(r)}
    /\ Goto(r, "prepared")
    /\ UNCHANGED <<claims, aged, running, permits, status, worktrees, branches,
                   sessions, tickVars, crashes>>

(* Any of that fails: the task stays InProgress, in its worktree.          *)
FailContext(r) ==
    /\ At(r, "written")
    /\ "context" \in Faults
    /\ FailPrepare(r)
    /\ UNCHANGED <<rowVars, tickVars, crashes>>

(* start: the agent session row, and the event loop is spawned.            *)
StartAgent(r) ==
    /\ At(r, "prepared")
    /\ sessions' = sessions \cup {Row(r)}
    /\ Goto(r, "started")
    /\ UNCHANGED <<claims, aged, running, permits, status, worktrees, branches,
                   records, tickVars, crashes>>

\* slip: the error path leaves the permit in the run handle
AbortKeepsPermit(r) ==
    /\ SetStatus(TaskOf(r), "Failed")
    /\ sessions' = sessions \ {Row(r)}
    /\ records' = records \ {Row(r)}
    /\ worktrees' = worktrees \ {TaskOf(r)}
    /\ ReleaseClaim(TaskOf(r))
    /\ Quit(r)
    /\ UNCHANGED <<permits, branches, tickVars, crashes>>

\* slip: the error path forgets the agent session row
AbortKeepsSession(r) ==
    /\ permits' = permits \ {r}
    /\ SetStatus(TaskOf(r), "Failed")
    /\ records' = records \ {Row(r)}
    /\ worktrees' = worktrees \ {TaskOf(r)}
    /\ ReleaseClaim(TaskOf(r))
    /\ Quit(r)
    /\ UNCHANGED <<sessions, branches, tickVars, crashes>>

(* handle_start_failure or handle_send_failure, and what the caller does   *)
(* then: drop the permit, fail the task, close the rows, remove the        *)
(* worktree (its branch stays), forget the run.                            *)
AbortRun(r) ==
    /\ permits' = permits \ {r}
    /\ SetStatus(TaskOf(r), "Failed")
    /\ sessions' = sessions \ {Row(r)}
    /\ records' = records \ {Row(r)}
    /\ worktrees' = worktrees \ {TaskOf(r)}
    /\ ReleaseClaim(TaskOf(r))
    /\ Quit(r)
    /\ UNCHANGED <<branches, tickVars, crashes>>

(* The before_run hook or the spawn fails.  A manual dispatch is not in    *)
(* the running map yet.                                                    *)
FailStart(r) ==
    /\ At(r, "prepared")
    /\ "start" \in Faults
    /\ AbortRun(r)
    /\ IF attempt[r].origin = "auto" THEN Untrack(TaskOf(r)) ELSE UNCHANGED running

\* slip: a manual run is not entered in the running map
RegisterAutoOnly(r) ==
    /\ At(r, "started")
    /\ Goto(r, "registered")
    /\ running' = IF attempt[r].origin # "auto" \/ running[TaskOf(r)] = Untracked
                  THEN running
                  ELSE [running EXCEPT ![TaskOf(r)] = Running(r, "auto")]
    /\ UNCHANGED <<claims, aged, permits, rowVars, tickVars, crashes>>

(* dispatch_claimed fills in its entry if that is still there;             *)
(* register_manual_run inserts a claim and an entry of its own.            *)
RegisterRun(r) ==
    /\ At(r, "started")
    /\ Goto(r, "registered")
    /\ IF attempt[r].origin = "auto"
       THEN /\ running' = IF running[TaskOf(r)] = Untracked THEN running
                          ELSE [running EXCEPT ![TaskOf(r)] = Running(r, "auto")]
            /\ UNCHANGED <<claims, aged>>
       ELSE /\ running' = [running EXCEPT ![TaskOf(r)] = Running(r, "manual")]
            /\ claims' = claims \cup {TaskOf(r)}
            /\ aged' = aged \ {TaskOf(r)}
    /\ UNCHANGED <<permits, rowVars, tickVars, crashes>>

SendPayload(r) ==
    /\ At(r, "registered")
    /\ Goto(r, "live")
    /\ UNCHANGED <<claims, aged, running, permits, rowVars, tickVars, crashes>>

FailSend(r) ==
    /\ At(r, "registered")
    /\ "send" \in Faults
    /\ AbortRun(r)
    /\ Untrack(TaskOf(r))

-----------------------------------------------------------------------------
(* The event loop of an agent that got its payload.                        *)

(* The agent completes, fails, stalls or times out: the permit goes first. *)
EndRun(r) ==
    /\ At(r, "live")
    /\ permits' = permits \ {r}
    /\ Goto(r, "ending")
    /\ UNCHANGED <<claims, aged, running, rowVars, tickVars, crashes>>

\* slip: a verdict the status column does not know
VerdictsMisspelt(t) == {"InReview", "Failed"}

(* The verdict on the task.  It is stored whatever the row says by then.   *)
Verdicts(t) == IF t \in UntilComplete THEN {"Done", "Failed"}
                                      ELSE {"InProgress", "Review", "Failed"}

WriteVerdict(r) ==
    /\ At(r, "ending")
    /\ \E v \in Verdicts(TaskOf(r)) :
          /\ SetStatus(TaskOf(r), v)
          /\ Goto(r, IF v = "Failed" THEN "failing" ELSE "closing")
    /\ UNCHANGED <<claims, aged, running, permits, worktrees, branches,
                   sessions, records, tickVars, crashes>>

\* slip: the event loop ends without closing its session row
CloseRunOpenSession(r) ==
    /\ attempt[r].phase \in {"closing", "failing"}
    /\ records' = records \ {Row(r)}
    /\ worktrees' = IF At(r, "failing") THEN worktrees \ {TaskOf(r)} ELSE worktrees
    /\ Finish(r)
    /\ UNCHANGED <<claims, aged, running, permits, status, sessions, branches,
                   tickVars, crashes>>

(* The session row and the run record are closed; the worktree of a failed *)
(* run is removed.  With this the event task is finished.                  *)
CloseRun(r) ==
    /\ attempt[r].phase \in {"closing", "failing"}
    /\ sessions' = sessions \ {Row(r)}
    /\ records' = records \ {Row(r)}
    /\ worktrees' = IF At(r, "failing") THEN worktrees \ {TaskOf(r)} ELSE worktrees
    /\ Finish(r)
    /\ UNCHANGED <<claims, aged, running, permits, status, branches, tickVars, crashes>>

-----------------------------------------------------------------------------
(* The coordinator's loop.  Five seconds after the project opens it        *)
(* recovers what the last process left (recover_zombie_runs), in three     *)
(* passes over the database; then it ticks.                                *)

\* slip: recovery leaves the rows of dead runs as they are
RecoverNoRuns ==
    /\ tick = "starting"
    /\ tick' = "recovering"
    /\ UNCHANGED <<dispatchVars, rowVars, batch, doomed, crashes>>

(* 1. Every automation_runs row that says running is marked failed.        *)
RecoverRuns ==
    /\ tick = "starting"
    /\ records' = {}
    /\ tick' = "recovering"
    /\ UNCHANGED <<dispatchVars, status, worktrees, branches, sessions, batch,
                   doomed, crashes>>

(* 2./3. InProgress tasks without a running record fail, but for those     *)
(* with a live agent session, which is found by the worktree or branch.    *)
HasRecord(t) == \E r \in Attempt : <<r, t>> \in records
Recoverable(t) == t \notin MainTask /\ \E r \in Attempt : <<r, t>> \in sessions
Orphaned(t) == status[t] = "InProgress" /\ ~HasRecord(t) /\ ~Recoverable(t)

RecoverTasks ==
    /\ tick = "recovering"
    /\ status' = [t \in Task |-> IF Orphaned(t) THEN "Failed" ELSE status[t]]
    /\ tick' = "cleaning"
    /\ UNCHANGED <<dispatchVars, worktrees, branches, sessions, records, batch,
                   doomed, crashes>>

(* 4. The worktrees of terminal tasks are removed.                         *)
RecoverWorktrees ==
    /\ tick = "cleaning"
    /\ worktrees' = {t \in worktrees : status[t] \notin Terminal}
    /\ tick' = "idle"
    /\ UNCHANGED <<dispatchVars, status, branches, sessions, records, batch,
                   doomed, crashes>>

(* process_completions: an auto run is over when its event task is         *)
(* finished, a manual one when its task is terminal.                       *)
EventTaskFinished(t) == attempt[running[t].run] = NoAttempt

\* slip: finished event tasks are not collected
CompletedManual ==
    {t \in Task : /\ running[t].state = "Running"
                  /\ running[t].origin = "manual" /\ status[t] \in Terminal}

Completed ==
    {t \in Task : /\ running[t].state = "Running"
                  /\ \/ running[t].origin = "auto" /\ EventTaskFinished(t)
                     \/ running[t].origin = "manual" /\ status[t] \in Terminal}

(* discover_dispatchable, once the completions are collected.              *)
Dispatchable ==
    {t \in AutoTask : status[t] = "Ready" /\ t \notin claims \ Completed}

Active == {t \in Task \ Completed : running[t].state # "none"}

(* A tick collects completions; at capacity, or with nothing to dispatch,  *)
(* it returns there, before reconcile_stale.                               *)
BeginTick ==
    /\ tick = "idle"
    /\ running' = [t \in Task |-> IF t \in Completed THEN Untracked ELSE running[t]]
    /\ claims' = claims \ Completed
    /\ aged' = aged \ Completed
    /\ IF Cardinality(Active) >= MaxConcurrent \/ Dispatchable = {}
       THEN UNCHANGED <<tick, batch>>
       ELSE /\ tick' = "dispatching"
            /\ \E b \in SUBSET Dispatchable :
                  /\ \/ Cardinality(b) = MaxConcurrent - Cardinality(Active)
                     \/ /\ b = Dispatchable
                        /\ Cardinality(b) <= MaxConcurrent - Cardinality(Active)
                  /\ batch' = b
    /\ UNCHANGED <<attempt, permits, rowVars, doomed, crashes>>

(* The tick awaits one dispatch_claimed before it goes on.                 *)
AwaitsDispatch == \E r \in InFlight : attempt[r].origin = "auto"

SkipClaimed(t) ==
    /\ tick = "dispatching" /\ ~AwaitsDispatch
    /\ t \in batch \cap claims
    /\ batch' = batch \ {t}
    /\ UNCHANGED <<dispatchVars, rowVars, tick, doomed, crashes>>

(* try_claim, and the Preparing entry of dispatch_claimed.                 *)
AutoDispatch(r, t) ==
    /\ tick = "dispatching" /\ ~AwaitsDispatch
    /\ Unused(r)
    /\ t \in batch \ claims
    /\ batch' = batch \ {t}
    /\ claims' = claims \cup {t}
    /\ running' = [running EXCEPT ![t] = Preparing]
    /\ attempt' = [attempt EXCEPT ![r] =
                     [phase |-> "claimed", task |-> t, origin |-> "auto"]]
    /\ UNCHANGED <<aged, permits, rowVars, tick, doomed, crashes>>

(* reconcile_stale, first half: claims older than five minutes whose run   *)
(* is Preparing or not in the running map.                                 *)
StaleClaims == {t \in aged : running[t].state # "Running"}

ReleaseStale ==
    /\ tick = "dispatching" /\ ~AwaitsDispatch /\ batch = {}
    /\ running' = [t \in Task |-> IF t \in StaleClaims THEN Untracked ELSE running[t]]
    /\ claims' = claims \ StaleClaims
    /\ aged' = aged \ StaleClaims
    /\ status' = [t \in Task |-> IF t \in StaleClaims THEN "Failed" ELSE status[t]]
    /\ tick' = "sweeping"
    /\ UNCHANGED <<attempt, permits, worktrees, branches, sessions, records,
                   batch, doomed, crashes>>

\* slip: only event tasks count as a sign of life, not session rows
SessionActiveAuto(t) == running[t].origin = "auto" /\ ~EventTaskFinished(t)

(* Second half: build_reconciliation_claims, get_active_session_ids and    *)
(* reconcile_claims decide on what they see now ...                        *)
SessionActive(t) ==
    \/ running[t].origin = "auto" /\ ~EventTaskFinished(t)
    \/ <<running[t].run, t>> \in sessions

ReconcileClaims ==
    LET tracked == {t \in Task : running[t].state = "Running"}
    IN  {<<t, "MarkFailed">> : t \in tracked \ worktrees}
           \cup {<<t, "CleanupOrphan">> :
                   t \in {u \in tracked \cap worktrees : ~SessionActive(u)}}

Sweep ==
    /\ tick = "sweeping"
    /\ doomed' = ReconcileClaims
    /\ tick' = IF ReconcileClaims = {} THEN "idle" ELSE "reconciling"
    /\ UNCHANGED <<dispatchVars, rowVars, batch, crashes>>

(* ... and the loop over the actions carries them out one by one.          *)
Reconcile(t, action) ==
    /\ tick = "reconciling"
    /\ <<t, action>> \in doomed
    /\ SetStatus(t, "Failed")
    /\ worktrees' = IF action = "CleanupOrphan" THEN worktrees \ {t} ELSE worktrees
    /\ Untrack(t)
    /\ ReleaseClaim(t)
    /\ doomed' = doomed \ {<<t, action>>}
    /\ tick' = IF doomed = {<<t, action>>} THEN "idle" ELSE tick
    /\ UNCHANGED <<attempt, permits, branches, sessions, records, batch, crashes>>

-----------------------------------------------------------------------------
(* The user, the clock and the machine.                                    *)

(* update_task with a new status: checked by transition, stored only if    *)
(* the row still has the status it was read with; a terminal status takes  *)
(* the worktree along.                                                     *)
UpdateTask(t, new) ==
    /\ <<status[t], new>> \in Moves
    /\ SetStatus(t, new)
    /\ worktrees' = IF new \in Terminal THEN worktrees \ {t} ELSE worktrees
    /\ UNCHANGED <<dispatchVars, branches, sessions, records, tickVars, crashes>>

(* reject_review, which the user is offered for a task in Review.          *)
RejectReview(t) ==
    /\ Rejects
    /\ status[t] = "Review"
    /\ SetStatus(t, "InProgress")
    /\ UNCHANGED <<dispatchVars, worktrees, branches, sessions, records, tickVars,
                   crashes>>

(* Five minutes pass over a claim; over one whose dispatch is still under   *)
(* way only where dispatches may be slow.                                  *)
AgeClaim(t) ==
    /\ "age" \in Faults
    /\ t \in claims \ aged
    /\ "slow" \in Faults \/ \A r \in InFlight : TaskOf(r) # t
    /\ aged' = aged \cup {t}
    /\ UNCHANGED <<claims, running, attempt, permits, rowVars, tickVars, crashes>>

(* The process dies and the project is opened again: memory is gone;       *)
(* open_project gives Dispatching tasks back and completes the rows of     *)
(* agent sessions, none of which has a living backend.                     *)
Reopen ==
    /\ crashes < MaxCrashes
    /\ crashes' = crashes + 1
    /\ claims' = {} /\ aged' = {} /\ permits' = {}
    /\ running' = [t \in Task |-> Untracked]
    /\ attempt' = [r \in Attempt |-> NoAttempt]
    /\ status' = [t \in Task |-> IF status[t] = "Dispatching" THEN "Ready" ELSE status[t]]
    /\ sessions' = {}
    /\ tick' = "starting" /\ batch' = {} /\ doomed' = {}
    /\ UNCHANGED <<worktrees, branches, records>>

-----------------------------------------------------------------------------
Init ==
    /\ status \in [Task -> {"Planned", "Ready"}]
    /\ claims = {} /\ aged = {} /\ permits = {}
    /\ running = [t \in Task |-> Untracked]
    /\ attempt = [r \in Attempt |-> NoAttempt]
    /\ worktrees = {} /\ branches = {} /\ sessions = {} /\ records = {}
    /\ tick = "starting" /\ batch = {} /\ doomed = {}
    /\ crashes = 0

DispatchStep(r) ==
    \/ ClaimTaken(r) \/ RevertTaken(r)
    \/ AcquirePermit(r) \/ RefusePermit(r)
    \/ CreateWorktree(r) \/ FailWorktree(r)
    \/ WriteInProgress(r)
    \/ CreateRunRecord(r) \/ FailContext(r)
    \/ StartAgent(r) \/ FailStart(r)
    \/ RegisterRun(r)
    \/ SendPayload(r) \/ FailSend(r)

EventLoopStep(r) == EndRun(r) \/ WriteVerdict(r) \/ CloseRun(r)

TickStep ==
    \/ RecoverRuns \/ RecoverTasks \/ RecoverWorktrees
    \/ BeginTick
    \/ \E t \in Task : SkipClaimed(t)
    \/ \E t \in Task, r \in Attempt : AutoDispatch(r, t)
    \/ ReleaseStale \/ Sweep
    \/ \E t \in Task, action \in {"MarkFailed", "CleanupOrphan"} : Reconcile(t, action)

UserStep ==
    \/ \E t \in Task, r \in Attempt : ManualDispatch(r, t) \/ TakeNextReady(r, t)
    \/ \E t \in Task, new \in Status : UpdateTask(t, new)
    \/ \E t \in Task : RejectReview(t)

Next ==
    \/ \E r \in Attempt : DispatchStep(r) \/ EventLoopStep(r)
    \/ TickStep
    \/ UserStep
    \/ \E t \in Task : AgeClaim(t)
    \/ Reopen

(* Handlers and event loops are tokio tasks that run until they return; an *)
(* agent ends because its adapter kills it after timeout_minutes; the tick *)
(* loop sleeps a bounded time; five minutes pass.  Nothing obliges the     *)
(* user.                                                                   *)
Fairness ==
    /\ \A r \in Attempt : WF_vars(DispatchStep(r)) /\ WF_vars(EventLoopStep(r))
    /\ WF_vars(TickStep)
    /\ \A t \in Task : WF_vars(AgeClaim(t))

Spec == Init /\ [][Next]_vars
FairSpec == Spec /\ Fairness

-----------------------------------------------------------------------------
TypeOK ==
    /\ status \in [Task -> Status]
    /\ claims \subseteq Task /\ aged \subseteq claims
    /\ running \in [Task -> TrackedRun]
    /\ attempt \in [Attempt -> AttemptState]
    /\ permits \subseteq Attempt
    /\ worktrees \subseteq Task /\ branches \subseteq Task
    /\ sessions \subseteq Attempt \X Task /\ records \subseteq Attempt \X Task
    /\ tick \in {"starting", "recovering", "cleaning", "idle", "dispatching",
                 "sweeping", "reconciling"}
    /\ batch \subseteq Task
    /\ doomed \subseteq Task \X {"MarkFailed", "CleanupOrphan"}
    /\ crashes \in 0 .. MaxCrashes
-----------------------------------------------------------------------------
(* Attempts that own a slot of the pool, and those that work on the task:  *)
(* from the permit to the verdict.                                         *)
OwnsSlot == {"permitted", "housed", "written", "prepared", "started",
             "registered", "live"}
Working == OwnsSlot \cup {"ending"}
WorksOn(r, t) == attempt[r].phase \in Working /\ attempt[r].task = t

(* Every way out of a dispatch, the five error paths and the end of the    *)
(* event loop included, gives the slot back, and none gives it back while  *)
(* the agent still runs.                                                   *)
PermitsMatchAttempts == permits = {r \in Attempt : attempt[r].phase \in OwnsSlot}

(* The pool's budget is what limits the attempts: dispatching, running and *)
(* failing only take and give back slots, and a new project a new pool.    *)
Budget == INSTANCE PermitBudget
             WITH Caller <- Attempt, MaxActive <- PoolMax, slots <- permits

WithinBudget == Budget!Spec

(* "Claim the task BEFORE prepare to prevent double-dispatch race (H3)",   *)
(* commands/tasks.rs: whoever dispatches, tick, user or control socket,    *)
(* a task is worked on by one attempt at a time.                           *)
OneRunPerTask ==
    \A r1, r2 \in Attempt : \A t \in Task :
        WorksOn(r1, t) /\ WorksOn(r2, t) => r1 = r2

(* A run whose agent has its payload is claimed and in the running map     *)
(* with its own handle, which is what shutdown and the reconciler work     *)
(* from.                                                                   *)
LiveRunTracked ==
    \A r \in Attempt :
        attempt[r].phase \in {"registered", "live"} =>
            /\ TaskOf(r) \in claims
            /\ running[TaskOf(r)].run = r

(* "One task, one branch, one worktree" (README.md): while an attempt works *)
(* on a task that wants one, its worktree is there; no other actor's       *)
(* clean-up takes it away.                                                 *)
WorktreeUnderRun ==
    \A r \in Attempt :
        attempt[r].phase \in Working \ {"permitted"} /\ TaskOf(r) \notin MainTask =>
            TaskOf(r) \in worktrees

(* What recovery and the reconciler read of a run is true of it: its       *)
(* session row says running exactly while its event loop runs.             *)
SessionRowsTrue ==
    sessions = {Row(r) : r \in {a \in Attempt : attempt[a].phase \in EventLoop}}

(* A Ready auto_dispatch task gets its turn.                               *)
AutoTaskStarts ==
    \A t \in AutoTask : status[t] = "Ready" ~> status[t] # "Ready"

(* What a crash leaves InProgress with nobody working on it fails, and     *)
(* loses its worktree, once the project is open again.                     *)
Abandoned(t) == tick = "starting" /\ status[t] = "InProgress" /\ Of(t) = {}

AbandonedTaskFails ==
    \A t \in Task : Abandoned(t) ~> status[t] = "Failed" /\ t \notin worktrees

-----------------------------------------------------------------------------
(* What the project's texts say and the code does not keep.                *)

(* "Release claims stuck in Preparing for too long (>5 min)"               *)
(* (coordinator.rs, reconcile_stale).                                      *)
PreparingIsReleased ==
    \A t \in Task : running[t].state = "Preparing" ~> running[t].state # "Preparing"

(* "Review and merge controls stay explicit"                               *)
(* (docs/architecture-overview.md): a task in Review leaves it, and loses  *)
(* its worktree, by a decision of the user only.                           *)
ReviewIsTheUsers ==
    [][\A t \in Task : status[t] = "Review" /\ status'[t] # "Review" =>
          UserStep]_vars

(* "reset orphaned InProgress tasks that have no active run" (coordinator.rs, *)
(* recover_zombie_runs): recovery fails no task an attempt works on.       *)
RecoverySparesActiveRuns ==
    [][\A t \in Task : RecoverTasks /\ status'[t] # status[t] =>
          ~ \E r \in Attempt : WorksOn(r, t)]_vars

(* "If session is active and worktree exists -> RefreshLease" and "worktree *)
(* is gone -> MarkFailed (something went wrong)" (reconciler.rs): the      *)
(* reconciler fails no run whose agent works and lost nothing.             *)
ReconcilerSparesHealthyRuns ==
    [][\A t \in Task, r \in Attempt :
          /\ At(r, "live") /\ TaskOf(r) = t
          /\ t \in MainTask \cup worktrees
          /\ TickStep
          => status'[t] = status[t]]_vars

(* "Atomically claim the oldest Ready task at the DB level to prevent      *)
(* TOCTOU races" (control.rs): a task taken so, with a slot free, nobody   *)
(* else dispatching it and no failure, is dispatched and not given back.   *)
TakenTaskIsDispatched ==
    [][\A r \in Attempt : At(r, "claimed") /\ attempt[r].origin = "next_ready"
                             /\ Cardinality(permits) < PoolMax
                             /\ status[TaskOf(r)] = "Dispatching"
          => ~ RefusePermit(r)]_vars
=============================================================================
