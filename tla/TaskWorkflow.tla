---------------------------- MODULE TaskWorkflow ----------------------------
(***************************************************************************)
(* Tasks, their dependencies, the workflow they belong to, its loops, and  *)
(* the way of a task through review and the merge queue: the command       *)
(* handlers of commands/tasks.rs and commands/workflow.rs, the helpers of  *)
(* commands/mod.rs they share, and the last part of an agent's event loop  *)
(* (automation/runner.rs).                                                 *)
(*                                                                         *)
(* A handler is a call.  It reads rows, awaits git, checks or the          *)
(* database, and stores whole rows computed from what it read, while other *)
(* calls do the same; what is left of it is in todo, one stage per await   *)
(* that others can come between.  A read and the store that follows it     *)
(* with nothing else awaited are one step, and so is the creation of the   *)
(* tasks of one loop iteration.                                            *)
(***************************************************************************)
EXTENDS Naturals, Sequences, FiniteSets, TaskStatus, WorkflowDef

CONSTANTS
    Caller,      \* calls that may be under way at once
    MaxTasks,    \* bound: tasks ever created
    Workflows,   \* definitions one of which is instantiated
    Ops,         \* the calls users and agents make
    Moves,       \* status moves asked of update_task
    Edits,       \* dependencies asked of update_task
    Extra,       \* dependencies of tasks created outside the workflow
    Overlap,     \* whether the user's calls overlap one another
    PackFails,   \* whether writing a review pack may fail
    MaxAsked,    \* bound: calls beyond the first approval and merge of a task
    MaxBreaks,   \* bound: how often work is cut off
    None         \* no task, no call

Task == 1 .. MaxTasks

ASSUME WorkflowAssumption ==
    /\ MaxTasks \in Nat /\ MaxAsked \in Nat /\ MaxBreaks \in Nat
    /\ IsFiniteSet(Caller) /\ None \notin Task \cup Caller
    /\ Workflows \subseteq Seq(StepDef) /\ \A w \in Workflows : Valid(w)
    /\ Moves \subseteq Transition

VARIABLES
    steps,      \* the definition, resolved by name at each use
    row,        \* the tasks table
    join,       \* the task_dependencies table
    kind,       \* step, iteration and loop context a task was created with
    link,       \* tasks with a workflow_tasks row
    made,       \* how many tasks were created
    instance,   \* status of the workflow instance
    review,     \* the reviews table: status by task
    queue,      \* the merge_queue table: status by task
    worktrees,  \* tasks with a worktree
    branches,   \* tasks whose branch exists
    running,    \* tasks whose agent's event loop is not over
    fresh,      \* tasks whose branch was rebased on what the target branch is
                \* now, and checked
    lock,       \* the call that holds the target branch's merge lock
    call,       \* the handlers under way
    asked,      \* how many calls MaxAsked bounds were made
    breaks      \* how often a crash or an early return cut off a call

rowVars == <<row, join, kind, link, made, instance>>
reviewVars == <<review, queue>>
gitVars == <<worktrees, branches, running, fresh>>
bounds == <<asked, breaks>>
vars == <<steps, rowVars, reviewVars, gitVars, lock, call, bounds>>

-----------------------------------------------------------------------------
NoRow == [st |-> "none", deps |-> {}, complete |-> FALSE]
RowState == [st : Status, deps : SUBSET Task, complete : BOOLEAN] \cup {NoRow}
Exists(t) == row[t] # NoRow
Rows == {t \in Task : Exists(t)}
Is(t, s) == row[t].st = s

\* slip: a dependency that failed is out of the way too
DoneOrFailed(board) == {t \in Task : board[t].st \in Terminal}

Done(board) == {t \in Task : board[t].st = "Done"}

(* step 0: a task outside the workflow; ctx: its loop context says         *)
(* until_complete, which every task of such an iteration gets.             *)
NoKind == [step |-> 0, iter |-> 0, ctx |-> FALSE]

Idle == [op |-> "none", task |-> None, seen |-> NoRow, todo |-> <<>>,
         writes |-> <<>>, next |-> None, iter |-> 0]
Busy(c) == call[c] # Idle
Stage(c, s) == Busy(c) /\ call[c].todo # <<>> /\ Head(call[c].todo) = s
                       /\ call[c].next = None
Of(c) == call[c].task
Call(o, t, todo) == [op |-> o, task |-> t, seen |-> IF t = None THEN NoRow ELSE row[t],
                     todo |-> todo, writes |-> <<>>, next |-> None, iter |-> 0]

(* The call goes on; with nothing left to do it has returned.              *)
Goes(k) == IF k.todo = <<>> /\ k.next = None THEN Idle ELSE k
Continue(c, todo) == call' = [call EXCEPT ![c] = Goes([@ EXCEPT !.todo = todo])]
Advance(c) == Continue(c, Tail(call[c].todo))
Return(c) == call' = [call EXCEPT ![c] = Idle]
(* A user waits for an answer before the next call, or does not; merges go *)
(* on side by side, and an agent that ends does not wait for anybody.      *)
Free(c, o) ==
    /\ o \in Ops /\ ~Busy(c)
    /\ \/ Overlap \/ o = "finish"
       \/ \A d \in Caller : call[d].op \in {"none", "finish"} \cup ({"merge"} \cap {o})
Begin(c, o, t, todo) == Free(c, o) /\ call' = [call EXCEPT ![c] = Call(o, t, todo)]

Asked == asked < MaxAsked /\ asked' = asked + 1
AskedUnless(usual) == IF usual THEN UNCHANGED asked ELSE Asked

(* UPDATE tasks SET ... WHERE id: nothing happens to a row that is gone.   *)
Store(t, r) == row' = IF Exists(t) THEN [row EXCEPT ![t] = r] ELSE row

-----------------------------------------------------------------------------
(* Dependencies.                                                           *)

(* TaskContract::refresh_blocked_status: unmet dependencies block Planned  *)
(* and Ready; met ones unblock to Planned.                                 *)
RefreshBlocked(st, deps, done) ==
    CASE ~(deps \subseteq done) /\ <<st, "Blocked">> \in Transition -> "Blocked"
      [] deps \subseteq done /\ st = "Blocked" -> "Planned"
      [] OTHER -> st

\* slip: only Planned tasks are looked at again
RefreshedPlannedOnly(t, done) ==
    LET st == IF Is(t, "Planned") THEN RefreshBlocked(row[t].st, join[t], done)
              ELSE row[t].st
    IN  [row[t] EXCEPT !.deps = join[t], !.st = st]

(* refresh_dependency_states_inner for one row: the dependencies column is *)
(* set to what the join table says, and Blocked goes to Ready at once.     *)
Refreshed(t, done) ==
    LET st == IF row[t].st \in {"Planned", "Ready", "Blocked"}
              THEN RefreshBlocked(row[t].st, join[t], done) ELSE row[t].st
    IN  [row[t] EXCEPT !.deps = join[t],
                       !.st = IF Is(t, "Blocked") /\ st = "Planned" THEN "Ready" ELSE st]

(* The rows to store, computed from one reading of the table.              *)
Outdated(done) == {t \in Rows : Refreshed(t, done) # row[t]}

Refresh(c) ==
    /\ Stage(c, "refresh")
    /\ LET done == Done(row) \cup IF call[c].op \in {"finish", "merge"} THEN {Of(c)} ELSE {}
           w == [t \in Outdated(done) |-> Refreshed(t, done)]
       IN  IF Outdated(done) = {} THEN Advance(c)
           ELSE call' = [call EXCEPT ![c].writes = w,
                                     ![c].todo = <<"apply">> \o Tail(@)]
    /\ UNCHANGED <<steps, rowVars, reviewVars, gitVars, lock, bounds>>

AutoDispatched(t) == kind[t].step # 0 /\ steps[kind[t].step].auto

(* They are stored one by one, each over what the row has become; a task   *)
(* that got Ready and dispatches itself is dispatched before the next.     *)
Applied(k, t) ==
    LET rest == DOMAIN k.writes \ {t}
    IN  [k EXCEPT !.writes = [u \in rest |-> k.writes[u]],
                  !.todo = IF rest = {} THEN Tail(@) ELSE @,
                  !.next = IF k.writes[t].st = "Ready" /\ AutoDispatched(t) /\ k.op # "finish"
                           THEN t ELSE None]

Apply(c) ==
    /\ Stage(c, "apply")
    /\ \E t \in DOMAIN call[c].writes :
          /\ Store(t, call[c].writes[t])
          /\ call' = [call EXCEPT ![c] = Goes(Applied(@, t))]
    /\ UNCHANGED <<steps, join, kind, link, made, instance, reviewVars, gitVars,
                   lock, bounds>>

-----------------------------------------------------------------------------
(* Dispatch: what AutomationCoordinator does in many steps is one here.    *)

Dispatchable(t) == Is(t, "Ready") /\ t \notin running \cup branches

Start(t) ==
    /\ row' = [row EXCEPT ![t].st = "InProgress"]
    /\ running' = running \cup {t}
    /\ worktrees' = worktrees \cup {t}
    /\ branches' = branches \cup {t}
    /\ UNCHANGED <<join, kind, link, made, instance, fresh>>

(* By the coordinator's tick or by the user.                               *)
DispatchTask(t) ==
    /\ Dispatchable(t)
    /\ Start(t)
    /\ UNCHANGED <<steps, reviewVars, lock, call, bounds>>

(* By a handler, which goes on whether it was possible or not.             *)
DispatchNext(c) ==
    /\ Busy(c) /\ call[c].next # None
    /\ LET t == call[c].next
       IN  IF Dispatchable(t) THEN Start(t) ELSE UNCHANGED <<rowVars, gitVars>>
    /\ call' = [call EXCEPT ![c] = Goes([@ EXCEPT !.next = None])]
    /\ UNCHANGED <<steps, reviewVars, lock, bounds>>

-----------------------------------------------------------------------------
(* Workflow instances and loops.                                           *)

StepOf(t) == steps[kind[t].step]
LoopOf(t) == IF t \in link THEN StepOf(t).loop ELSE NoLoop
AtStep(i) == {t \in link : kind[t].step = i}
LatestIteration(i) ==
    IF AtStep(i) = {} THEN 0
    ELSE CHOOSE n \in {kind[t].iter : t \in AtStep(i)} :
            \A t \in AtStep(i) : kind[t].iter <= n

(* A row, its dependencies and its link to the step it was made for.       *)
Insert(t, st, deps, k) ==
    /\ row' = [row EXCEPT ![t] = [st |-> st, deps |-> deps, complete |-> FALSE]]
    /\ join' = [join EXCEPT ![t] = deps]
    /\ kind' = [kind EXCEPT ![t] = k]
    /\ made' = t

(* dispatch_workflow, instantiate_workflow: a task for each step, with the *)
(* tasks of those steps it depends on that were created before it.         *)
Instantiate ==
    /\ "instantiate" \in Ops /\ instance = "none"
    /\ made + Len(steps) <= MaxTasks
    /\ LET id == [i \in DOMAIN steps |-> made + i]
           new == made + 1 .. made + Len(steps)
           deps(i) == {id[d] : d \in steps[i].deps \cap 1 .. (i - 1)}
       IN  /\ row' = [t \in Task |-> IF t \in new
                 THEN [st |-> IF steps[t - made].deps = {} THEN "Ready" ELSE "Blocked",
                       deps |-> deps(t - made), complete |-> FALSE]
                 ELSE row[t]]
           /\ join' = [t \in Task |-> IF t \in new THEN deps(t - made) ELSE join[t]]
           /\ kind' = [t \in Task |-> IF t \in new
                 THEN [step |-> t - made, iter |-> 0, ctx |-> FALSE] ELSE kind[t]]
           /\ link' = link \cup new
           /\ made' = made + Len(steps)
    /\ instance' = "Running"
    /\ UNCHANGED <<steps, reviewVars, gitVars, lock, call, bounds>>

\* slip: one iteration more than the definition allows
TriggersOnceMore(t, st) ==
    LET lp == LoopOf(t)
    IN  /\ lp.mode # "none" /\ st = "Failed"
        /\ LatestIteration(kind[t].step) <= lp.max

\* slip: the count is compared with the last index
TriggersOnceLess(t, st) ==
    LET lp == LoopOf(t)
    IN  /\ lp.mode # "none" /\ st = "Failed"
        /\ LatestIteration(kind[t].step) + 1 < lp.max

(* check_loop_trigger: which mode loops on which status, and how often.    *)
Triggers(t, st) ==
    LET lp == LoopOf(t)
    IN  /\ \/ lp.mode = "on_failure" /\ st = "Failed"
           \/ lp.mode = "until_complete" /\ st = "Failed"
           \/ lp.mode = "until_complete" /\ st = "Done" /\ ~row[t].complete
        /\ LatestIteration(kind[t].step) < lp.max

(* What a call does about dependents and the instance when its task became *)
(* terminal, after a loop iteration was made and when none was.            *)
AfterLoop(c) == IF call[c].op = "update" THEN <<"refresh">> ELSE <<>>

\* slip: a failed task is not looked at by check_workflow_completion
AfterNoLoopDoneOnly(c) ==
    IF call[c].seen.st = "Done" THEN <<"refresh", "complete">> ELSE <<>>

AfterNoLoop(c) ==
    IF call[c].op = "finish" /\ call[c].seen.st = "Done" THEN <<"refresh", "complete">>
    ELSE <<"complete">>

(* The gate's row is read here, and the iteration number is fixed.         *)
CheckLoop(c) ==
    /\ Stage(c, "loop")
    /\ IF Exists(Of(c)) /\ Triggers(Of(c), call[c].seen.st)
       THEN call' = [call EXCEPT ![c].todo = <<"iterate">> \o Tail(@),
                                 ![c].seen = [row[Of(c)] EXCEPT !.st = call[c].seen.st],
                                 ![c].iter = LatestIteration(kind[Of(c)].step) + 1]
       ELSE Continue(c, AfterNoLoop(c) \o Tail(call[c].todo))
    /\ UNCHANGED <<steps, rowVars, reviewVars, gitVars, lock, bounds>>

(* create_loop_iteration: the tasks of steps target .. gate once more.     *)
(* In-loop dependencies are the new tasks, earlier ones the latest Done    *)
(* task of the step.                                                       *)
LatestDone(i) ==
    LET done == {t \in AtStep(i) : Is(t, "Done")}
    IN  CHOOSE t \in done : \A u \in done : kind[u].iter <= kind[t].iter

IterationDeps(i, target, id) ==
    {id[d] : d \in steps[i].deps \cap target .. (i - 1)}
       \cup {LatestDone(d) : d \in {e \in steps[i].deps : e < target}}

(* It stops at a step that depends on an earlier one without a Done task,  *)
(* and, the task being created by then, at one that has its workflow_tasks *)
(* row for this iteration already.                                         *)
Undone(i, target) == \E d \in steps[i].deps : d < target /\ ~ \E t \in AtStep(d) : Is(t, "Done")
Taken(i, iter) == \E t \in AtStep(i) : kind[t].iter = iter
FirstFailing(target, gate, iter) ==
    LET bad == {i \in target .. gate : Undone(i, target) \/ Taken(i, iter)}
    IN  IF bad = {} THEN gate + 1 ELSE CHOOSE i \in bad : \A j \in bad : i <= j

\* slip: rows that wait for the old gate are left alone
DownstreamForgotten(t) == {}

(* Rows of later steps that name the trigger get the new gate instead.     *)
Downstream(t) == {u \in link : kind[u].step > kind[t].step /\ t \in row[u].deps}

CreateIteration(c) ==
    /\ Stage(c, "iterate") /\ Of(c) \in link
    /\ LET t == Of(c)
           gate == kind[t].step
           target == LoopOf(t).target
           iter == call[c].iter
           bad == FirstFailing(target, gate, iter)
           last == IF bad > gate \/ Undone(bad, target) THEN bad - 1 ELSE bad
           id == [i \in target .. last |-> made + 1 + i - target]
           new == {id[i] : i \in target .. last}
           at(n) == CHOOSE i \in target .. last : id[i] = n
           deps(n) == IterationDeps(at(n), target, id)
           swapped(S) == IF t \in S THEN (S \ {t}) \cup {id[gate]} ELSE S
           downstream == IF bad <= gate THEN {} ELSE Downstream(t)
       IN  /\ made + Cardinality(new) <= MaxTasks
           /\ row' = [u \in Task |->
                 IF u \in new
                 THEN [st |-> IF deps(u) \cap new = {} THEN "Ready" ELSE "Blocked",
                       deps |-> deps(u), complete |-> FALSE]
                 ELSE IF u \in downstream THEN [row[u] EXCEPT !.deps = swapped(@)] ELSE row[u]]
           /\ join' = [u \in Task |->
                 IF u \in new THEN deps(u)
                 ELSE IF u \in downstream THEN swapped(join[u]) ELSE join[u]]
           /\ kind' = [u \in Task |->
                 IF u \in new THEN [step |-> at(u), iter |-> iter,
                                    ctx |-> LoopOf(t).mode = "until_complete"]
                 ELSE kind[u]]
           /\ link' = link \cup {n \in new : at(n) < bad}
           /\ made' = made + Cardinality(new)
           /\ Continue(c, (IF bad > gate THEN <<"mark">> ELSE AfterNoLoop(c))
                             \o Tail(call[c].todo))
    /\ UNCHANGED <<steps, instance, reviewVars, gitVars, lock, bounds>>

(* The gate's row, as check_loop_trigger read it, is stored as Looped.     *)
MarkLooped(c) ==
    /\ Stage(c, "mark")
    /\ Store(Of(c), [call[c].seen EXCEPT !.st = "Looped"])
    /\ Continue(c, AfterLoop(c) \o Tail(call[c].todo))
    /\ UNCHANGED <<steps, join, kind, link, made, instance, reviewVars, gitVars,
                   lock, bounds>>

(* check_workflow_completion.                                              *)
AllTerminal == \A t \in link : row[t].st \in Terminal
SomeFailed == \E t \in link : Is(t, "Failed")
Stuck == SomeFailed /\ \A t \in link : row[t].st \in Terminal \cup {"Blocked"}

CheckCompletion(c) ==
    /\ Stage(c, "complete")
    /\ instance' = IF Of(c) \notin link THEN instance
                   ELSE IF AllTerminal THEN IF SomeFailed THEN "Failed" ELSE "Completed"
                   ELSE IF Stuck THEN "Failed" ELSE instance
    /\ Advance(c)
    /\ UNCHANGED <<steps, row, join, kind, link, made, reviewVars, gitVars, lock, bounds>>

-----------------------------------------------------------------------------
(* The user's calls on one task.                                           *)

(* cleanup_task_worktree: the worktree goes, its branch stays; the two     *)
(* columns of the row that named them are not modelled.                    *)
Cleanup(c) ==
    /\ Stage(c, "cleanup")
    /\ worktrees' = worktrees \ {Of(c)}
    /\ Advance(c)
    /\ UNCHANGED <<steps, rowVars, reviewVars, branches, running, fresh, lock, bounds>>

(* validate_task_dependencies: known tasks, and no way back.               *)
DepsValid(t, deps) ==
    /\ deps \subseteq Rows \ {t}
    /\ t \notin Reached(Task, [u \in Task |-> row[u].deps], deps)

(* create_task, outside of any workflow.                                   *)
CreateTask(c, deps) ==
    /\ Asked
    /\ made < MaxTasks
    /\ DepsValid(made + 1, deps)
    /\ Begin(c, "create", None, <<"refresh">>)
    /\ Insert(made + 1, RefreshBlocked("Planned", deps, Done(row)), deps, NoKind)
    /\ UNCHANGED <<steps, link, instance, reviewVars, gitVars, lock, breaks>>

(* update_task up to its store: the row is read, the move is checked by    *)
(* transition, the dependencies are validated, and what refresh_blocked_   *)
(* status makes of it is what will be stored.                              *)
BeginUpdate(c, t, st, deps) ==
    /\ Asked
    /\ Exists(t)
    /\ st # row[t].st => <<row[t].st, st>> \in Moves
    /\ DepsValid(t, deps)
    /\ Free(c, "update")
    /\ LET new == [row[t] EXCEPT !.st = RefreshBlocked(st, deps, Done(row)), !.deps = deps]
       IN  call' = [call EXCEPT ![c] = [Call("update", t, <<"store">>) EXCEPT
                                          !.writes = [u \in {t} |-> new]]]
    /\ UNCHANGED <<steps, rowVars, reviewVars, gitVars, lock, breaks>>

(* A new status is stored only over the one that was read; then the        *)
(* dependents are looked at, and a terminal status has its consequences.   *)
StoreUpdate(c) ==
    /\ Stage(c, "store")
    /\ LET t == Of(c)
           new == call[c].writes[t]
           changed == new.st # call[c].seen.st
       IN  IF changed /\ row[t].st # call[c].seen.st
           THEN Return(c) /\ UNCHANGED <<row, join>>
           ELSE /\ Store(t, new)
                /\ join' = IF Exists(t) THEN [join EXCEPT ![t] = new.deps] ELSE join
                /\ call' = [call EXCEPT ![c].seen = new, ![c].writes = <<>>,
                      ![c].todo = IF changed /\ new.st \in Terminal
                                  THEN <<"refresh", "cleanup", "loop">> ELSE <<"refresh">>]
    /\ UNCHANGED <<steps, kind, link, made, instance, reviewVars, gitVars, lock, bounds>>

(* delete_task: the worktree, then the row, and by foreign keys all that   *)
(* refers to it.                                                           *)
BeginDelete(c, t) ==
    /\ Asked
    /\ Exists(t)
    /\ Begin(c, "delete", t, <<"cleanup", "erase", "refresh">>)
    /\ UNCHANGED <<steps, rowVars, reviewVars, gitVars, lock, breaks>>

\* slip: the workflow_tasks row does not go with the task
StillLinked(t) == link

Unlinked(t) == link \ {t}

Erase(c) ==
    /\ Stage(c, "erase")
    /\ row' = [row EXCEPT ![Of(c)] = NoRow]
    /\ join' = [u \in Task |-> IF u = Of(c) THEN {} ELSE join[u] \ {Of(c)}]
    /\ link' = Unlinked(Of(c))
    /\ review' = [review EXCEPT ![Of(c)] = "none"]
    /\ queue' = [queue EXCEPT ![Of(c)] = "none"]
    /\ Advance(c)
    /\ UNCHANGED <<steps, kind, made, instance, gitVars, lock, bounds>>

-----------------------------------------------------------------------------
(* The end of an agent's run (automation/runner.rs): the row is read, the  *)
(* work is committed, checked and packed for review, and the row is stored *)
(* with the verdict.                                                       *)
BeginFinish(c, t) ==
    /\ t \in running
    /\ ~ \E d \in Caller : call[d].op = "finish" /\ Of(d) = t
    /\ Begin(c, "finish", t, IF Exists(t) THEN <<"verdict">> ELSE <<"end">>)
    /\ UNCHANGED <<steps, rowVars, reviewVars, gitVars, lock, bounds>>

(* In an until_complete iteration success is Done, unchecked; elsewhere it *)
(* is Review, or InProgress when a check does not pass.                    *)
Outcomes(t) == {"Failed"} \cup IF kind[t].ctx THEN {"Done"} ELSE {"Review", "InProgress"}

FinishStages(v) ==
    CASE v = "Failed" -> <<"loop", "cleanup", "end">>
      [] v = "Done" -> <<"loop", "end">>
      [] OTHER -> <<"end">>

WriteVerdict(c) ==
    /\ Stage(c, "verdict")
    /\ LET t == Of(c)
       IN  \E v \in Outcomes(t), complete \in BOOLEAN :
             /\ complete => LoopOf(t).mode = "until_complete"
             /\ v = "Review" => t \in worktrees
             /\ LET new == [call[c].seen EXCEPT !.st = v, !.complete = complete]
                IN  /\ Store(t, new)
                    /\ call' = [call EXCEPT ![c].seen = new, ![c].todo = FinishStages(v)]
             /\ IF v # "Review" \/ ~Exists(t) THEN UNCHANGED review
                ELSE \/ review' = [review EXCEPT ![t] = "Ready"]
                     \/ PackFails /\ UNCHANGED review
    /\ UNCHANGED <<steps, join, kind, link, made, instance, queue, gitVars, lock, bounds>>

EndFinish(c) ==
    /\ Stage(c, "end")
    /\ running' = running \ {Of(c)}
    /\ Advance(c)
    /\ UNCHANGED <<steps, rowVars, reviewVars, worktrees, branches, fresh, lock, bounds>>

-----------------------------------------------------------------------------
(* Review and merge.                                                       *)

ApproveReview(t) ==
    /\ "approve" \in Ops
    /\ review[t] # "none" /\ AskedUnless(review[t] = "Ready")
    /\ review' = [review EXCEPT ![t] = "Approved"]
    /\ queue' = [queue EXCEPT ![t] = "Queued"]
    /\ UNCHANGED <<steps, rowVars, gitVars, lock, call, breaks>>

(* reject_review: the task is InProgress again, whatever it was.           *)
RejectReview(t) ==
    /\ Asked
    /\ "reject" \in Ops
    /\ Is(t, "Review")
    /\ review' = IF review[t] = "none" THEN review ELSE [review EXCEPT ![t] = "Rejected"]
    /\ row' = [row EXCEPT ![t].st = "InProgress"]
    /\ UNCHANGED <<steps, join, kind, link, made, instance, queue, gitVars, lock, call, breaks>>

SetQueue(t, s) == queue' = IF queue[t] = "none" THEN queue ELSE [queue EXCEPT ![t] = s]

\* slip: nobody waits for the other merge
LockIgnored == TRUE

LockFree == lock = None

(* merge_queue_execute, under the lock of the target branch from here to   *)
(* its return.  Neither the queue item's status nor the task's is asked.   *)
BeginMerge(c, t) ==
    /\ queue[t] # "none" /\ LockFree /\ AskedUnless(queue[t] = "Queued")
    /\ SetQueue(t, "Running")
    /\ IF t \in worktrees
       THEN Begin(c, "merge", t, <<"rebase">>) /\ lock' = c
       ELSE Free(c, "merge") /\ UNCHANGED <<lock, call>>
    /\ UNCHANGED <<steps, rowVars, review, gitVars, breaks>>

GiveUp(c) == Return(c) /\ lock' = None

(* The worktree is rebased and the checks run in it; a dirty worktree, a   *)
(* conflict or a failing check blocks the item.                            *)
Rebase(c) ==
    /\ Stage(c, "rebase")
    /\ \/ /\ Of(c) \in worktrees
          /\ fresh' = fresh \cup {Of(c)}
          /\ Continue(c, <<"land">>)
          /\ UNCHANGED <<queue, lock>>
       \/ Of(c) \in worktrees /\ SetQueue(Of(c), "Blocked") /\ GiveUp(c) /\ UNCHANGED fresh
       \/ Of(c) \notin worktrees /\ GiveUp(c) /\ UNCHANGED <<queue, fresh>>
    /\ UNCHANGED <<steps, rowVars, review, worktrees, branches, running, bounds>>

(* git merge --ff-only, or a merge commit when that does not go.           *)
Land(c) ==
    /\ Stage(c, "land")
    /\ fresh' = {}
    /\ Continue(c, <<"landed">>)
    /\ UNCHANGED <<steps, rowVars, reviewVars, worktrees, branches, running, lock, bounds>>

(* The checkout or both merges fail: the item stays Running.               *)
LandFails(c) ==
    /\ Stage(c, "land")
    /\ GiveUp(c)
    /\ UNCHANGED <<steps, rowVars, reviewVars, gitVars, bounds>>

(* The row read before the rebase is stored as Done.                       *)
StoreDone(c) ==
    /\ Stage(c, "landed")
    /\ Store(Of(c), [call[c].seen EXCEPT !.st = "Done"])
    /\ Continue(c, <<"prune", "refresh", "complete", "merged">>)
    /\ UNCHANGED <<steps, join, kind, link, made, instance, reviewVars, gitVars, lock, bounds>>

(* cleanup_task_worktree_and_branch; when the branch cannot be deleted the *)
(* handler returns there.                                                  *)
Prune(c) ==
    /\ Stage(c, "prune")
    /\ worktrees' = worktrees \ {Of(c)}
    /\ \/ branches' = branches \ {Of(c)} /\ Advance(c) /\ UNCHANGED <<lock, breaks>>
       \/ breaks < MaxBreaks /\ breaks' = breaks + 1 /\ GiveUp(c) /\ UNCHANGED branches
    /\ UNCHANGED <<steps, asked, rowVars, reviewVars, running, fresh>>

Merged(c) ==
    /\ Stage(c, "merged")
    /\ SetQueue(Of(c), "Merged")
    /\ GiveUp(c)
    /\ UNCHANGED <<steps, rowVars, review, gitVars, bounds>>

(* The process dies.  Handlers and agents are gone; recovery fails the     *)
(* InProgress tasks, which nothing else follows, and removes the           *)
(* worktrees of terminal ones.                                             *)
Crash ==
    /\ breaks < MaxBreaks
    /\ breaks' = breaks + 1
    /\ call' = [c \in Caller |-> Idle] /\ lock' = None /\ running' = {}
    /\ row' = [t \in Task |-> IF Is(t, "InProgress") THEN [row[t] EXCEPT !.st = "Failed"]
                              ELSE row[t]]
    /\ worktrees' = {t \in worktrees : row'[t].st \notin Terminal}
    /\ UNCHANGED <<steps, join, kind, link, made, instance, reviewVars, branches, fresh, asked>>

-----------------------------------------------------------------------------
Init ==
    /\ steps \in Workflows
    /\ row = [t \in Task |-> NoRow] /\ join = [t \in Task |-> {}]
    /\ kind = [t \in Task |-> NoKind] /\ link = {} /\ made = 0
    /\ instance = "none"
    /\ review = [t \in Task |-> "none"] /\ queue = [t \in Task |-> "none"]
    /\ worktrees = {} /\ branches = {} /\ running = {}
    /\ fresh = {}
    /\ lock = None /\ call = [c \in Caller |-> Idle] /\ asked = 0 /\ breaks = 0

CallStep(c) ==
    \/ Refresh(c) \/ Apply(c) \/ DispatchNext(c)
    \/ CheckLoop(c) \/ CreateIteration(c) \/ MarkLooped(c) \/ CheckCompletion(c)
    \/ Cleanup(c) \/ StoreUpdate(c) \/ Erase(c)
    \/ WriteVerdict(c) \/ EndFinish(c)
    \/ Rebase(c) \/ Land(c) \/ LandFails(c) \/ StoreDone(c) \/ Prune(c) \/ Merged(c)

BeginCall(c) ==
    \/ \E deps \in Extra : CreateTask(c, deps)
    \/ \E t \in Task : BeginDelete(c, t) \/ BeginFinish(c, t) \/ BeginMerge(c, t)
    \/ \E t \in Task, st \in Status : \E deps \in {row[t].deps} \cup Edits :
          /\ <<st, deps>> # <<row[t].st, row[t].deps>>
          /\ BeginUpdate(c, t, st, deps)

Next ==
    \/ Instantiate
    \/ \E c \in Caller : BeginCall(c) \/ CallStep(c)
    \/ \E t \in Task : DispatchTask(t) \/ ApproveReview(t) \/ RejectReview(t)
    \/ Crash

Spec == Init /\ [][Next]_vars

-----------------------------------------------------------------------------
(* Rows, links and the lock name what exists: deleting a task takes its    *)
(* workflow_tasks row with it.                                             *)
TypeOK ==
    /\ row \in [Task -> RowState]
    /\ join \in [Task -> SUBSET Task]
    /\ link \subseteq Rows
    /\ instance \in {"none", "Running", "Completed", "Failed"}
    /\ review \in [Task -> {"none", "Ready", "Approved", "Rejected"}]
    /\ queue \in [Task -> {"none", "Queued", "Running", "Blocked", "Merged"}]
    /\ worktrees \subseteq Task /\ branches \subseteq Task /\ running \subseteq Task
    /\ lock \in Caller \cup {None}

Quiet == \A c \in Caller : ~Busy(c)

(* A crash, or a merge that gave up after it had landed, leaves work half  *)
(* done that nothing completes.                                            *)
Disturbed == breaks > 0 \/ \E t \in 1 .. made : ~Exists(t)

(* check_workflow_completion runs wherever a task becomes terminal: with   *)
(* no handler under way, an instance all of whose tasks are terminal is    *)
(* not Running any more, whichever of them was the last.                   *)
SettledWhenIdle ==
    Quiet /\ instance = "Running" /\ (\A t \in link : row[t].st \in Terminal) => Disturbed

(* refresh_dependency_states: a task is not left Blocked on dependencies   *)
(* that are all Done, although each refresh works on rows read before.     *)
NoLostUnblock ==
    Quiet => \A t \in Rows :
        Is(t, "Blocked") => Disturbed \/ \E d \in join[t] : ~Is(d, "Done")

(* create_loop_iteration redirects what waited for the gate: a later step  *)
(* that has not started never waits for a Looped gate, which will not be   *)
(* Done.  (A task outside the workflow may: it is not redirected.)         *)
NobodyWaitsForLooped ==
    Quiet => \A t \in link : row[t].st \in {"Planned", "Ready", "Blocked"} =>
        \A d \in join[t] : kind[d].step < kind[t].step => ~Is(d, "Looped")

(* A task that waits waits for something that can still come.              *)
WaitsCanEnd == NoLostUnblock /\ NobodyWaitsForLooped

(* max_iterations bounds the iterations of every step in a loop, though    *)
(* the count is read before the iteration is created.                      *)
IterationsBounded ==
    \A t \in link : kind[t].iter > 0 =>
        \E g \in DOMAIN steps : /\ steps[g].loop.target <= kind[t].step /\ kind[t].step <= g
                                /\ kind[t].iter <= steps[g].loop.max

(* A gate that stays Failed has used up its iterations.                    *)
FailedGateLoops ==
    Quiet => \A t \in link :
        Is(t, "Failed") /\ LoopOf(t).mode # "none" =>
            LatestIteration(kind[t].step) >= LoopOf(t).max \/ Disturbed

(* An agent starts on a task only when its dependencies were Done; a loop  *)
(* may have taken one back since.  refresh_dependency_states stores rows   *)
(* it computed from a table read before, while agents end and start.       *)
StartedAfterDeps ==
    [][\A t \in Task : t \in running' \ running =>
            \A d \in join[t] : row[d].st \in {"Done", "Looped"}]_vars

(* merge_branch_locks: what lands was rebased on and checked against what  *)
(* the target branch is at that moment, not on what it was before another  *)
(* merge landed.                                                           *)
MergedTreeWasChecked ==
    [][\A c \in Caller : Land(c) => Of(c) \in fresh]_vars

(* WorkflowStep::depends_on: the steps that must complete first.           *)
DeclaredOrder ==
    \A t \in running \cap link : \A d \in StepOf(t).deps : \E u \in AtStep(d) : Is(u, "Done")

(* LoopMode::UntilComplete loops on Done, unless the agent said it is      *)
(* complete.                                                               *)
LoopsAsDeclared ==
    Quiet => \A t \in link :
        LoopOf(t).mode = "until_complete" /\ Is(t, "Done") /\ ~row[t].complete =>
            LatestIteration(kind[t].step) = LoopOf(t).max
=============================================================================
