--------------------- MODULE AutomationCoordinatorProofs --------------------
(***************************************************************************)
(* Theorems about AutomationCoordinator for every set of tasks and         *)
(* attempts, every limit, every kind of failure and any number of crashes. *)
(***************************************************************************)
EXTENDS AutomationCoordinator, FiniteSetTheorems, TLAPS

(* An attempt that stands somewhere has a task.                            *)
LEMMA AttemptTask ==
    ASSUME TypeOK, NEW r \in Attempt, attempt[r].phase \in Phase
    PROVE  TaskOf(r) \in Task /\ attempt[r] # NoAttempt
BY DEF TypeOK, AttemptState, NoAttempt, TaskOf, Phase, Dispatching, EventLoop

(* What the three ways to move an attempt do to the variable's type.       *)
LEMMA MoveType ==
    ASSUME TypeOK, NEW r \in Attempt, attempt[r].phase \in Phase
    PROVE  /\ \A p \in Phase : Goto(r, p) => attempt' \in [Attempt -> AttemptState]
           /\ Finish(r) => attempt' \in [Attempt -> AttemptState]
           /\ Quit(r) => attempt' \in [Attempt -> AttemptState]
<1>1. attempt[r] \in [phase : Phase, task : Task, origin : Origin]
    BY AttemptTask DEF TypeOK, AttemptState
<1>2. ASSUME NEW p \in Phase, Goto(r, p)
      PROVE  attempt' \in [Attempt -> AttemptState]
    <2>1. [attempt[r] EXCEPT !.phase = p] \in AttemptState
        BY <1>1 DEF AttemptState
    <2>2. attempt' = [attempt EXCEPT ![r] = [attempt[r] EXCEPT !.phase = p]]
        BY <1>2 DEF Goto
    <2>3. QED
        BY <2>1, <2>2 DEF TypeOK
<1>3. ASSUME Finish(r)
      PROVE  attempt' \in [Attempt -> AttemptState]
    BY <1>3 DEF Finish, TypeOK, AttemptState
<1>4. "reverting" \in Phase
    BY DEF Phase
<1>5. QED
    BY <1>2, <1>3, <1>4 DEF Quit

(* A new attempt is one of the right type.                                 *)
LEMMA BeginType ==
    ASSUME TypeOK, NEW r \in Attempt, NEW t \in Task, NEW p \in Phase, NEW o \in Origin,
           attempt' = [attempt EXCEPT ![r] = [phase |-> p, task |-> t, origin |-> o]]
    PROVE  attempt' \in [Attempt -> AttemptState]
BY DEF TypeOK, AttemptState

-----------------------------------------------------------------------------
(* The steps of a dispatch.                                                *)
LEMMA DispatchType ==
    ASSUME TypeOK, NEW r \in Attempt, DispatchStep(r)
    PROVE  TypeOK'
<1> USE DEF TypeOK, vars, dispatchVars, rowVars, tickVars
<1>0. /\ Phase = {"claimed", "permitted", "housed", "written", "prepared", "started",
                  "registered", "live", "ending", "closing", "failing", "taken",
                  "reverting"}
      /\ {"Ready", "Failed", "InProgress", "Dispatching"} \subseteq Status
      /\ MainTask \subseteq Task
    BY CoordinatorAssumption DEF Phase, Dispatching, EventLoop, Status
<1>1. CASE ClaimTaken(r)
    BY <1>0, <1>1, AttemptTask, MoveType DEF ClaimTaken, At
<1>2. CASE RevertTaken(r)
    BY <1>0, <1>2, AttemptTask, MoveType DEF RevertTaken, At
<1>3. CASE AcquirePermit(r)
    BY <1>0, <1>3, MoveType DEF AcquirePermit, At
<1>4. CASE RefusePermit(r)
    BY <1>0, <1>4, MoveType DEF RefusePermit, At, ReleaseClaim
<1>5. CASE CreateWorktree(r)
    BY <1>0, <1>5, AttemptTask, MoveType DEF CreateWorktree, At
<1>6. CASE FailWorktree(r)
    BY <1>0, <1>6, AttemptTask, MoveType DEF FailWorktree, FailPrepare, At, ReleaseClaim
<1>7. CASE WriteInProgress(r)
    BY <1>0, <1>7, MoveType DEF WriteInProgress, At, SetStatus
<1>8. CASE CreateRunRecord(r)
    BY <1>0, <1>8, AttemptTask, MoveType DEF CreateRunRecord, At, Row
<1>9. CASE FailContext(r)
    BY <1>0, <1>9, MoveType DEF FailContext, FailPrepare, At, ReleaseClaim
<1>10. CASE StartAgent(r)
    BY <1>0, <1>10, AttemptTask, MoveType DEF StartAgent, At, Row
<1>11. ASSUME AbortRun(r), attempt[r].phase \in Phase,
              running' \in [Task -> TrackedRun]
       PROVE  TypeOK'
    BY <1>0, <1>11, MoveType DEF AbortRun, SetStatus, ReleaseClaim
<1>12. Untracked \in TrackedRun
    BY DEF Untracked, TrackedRun
<1>13. CASE FailStart(r)
    BY <1>0, <1>11, <1>12, <1>13 DEF FailStart, At, Untrack
<1>14. CASE RegisterRun(r)
    <2>1. Running(r, "auto") \in TrackedRun /\ Running(r, "manual") \in TrackedRun
        BY DEF Running, TrackedRun
    <2>2. TaskOf(r) \in Task /\ attempt' \in [Attempt -> AttemptState]
        BY <1>0, <1>14, AttemptTask, MoveType DEF RegisterRun, At
    <2>3. QED
        BY <1>14, <2>1, <2>2 DEF RegisterRun
<1>15. CASE SendPayload(r)
    BY <1>0, <1>15, MoveType DEF SendPayload, At
<1>16. CASE FailSend(r)
    BY <1>0, <1>11, <1>12, <1>16 DEF FailSend, At, Untrack
<1>17. QED
    BY <1>1, <1>2, <1>3, <1>4, <1>5, <1>6, <1>7, <1>8, <1>9, <1>10, <1>13,
       <1>14, <1>15, <1>16 DEF DispatchStep

(* The steps of an event loop.                                             *)
LEMMA EventLoopType ==
    ASSUME TypeOK, NEW r \in Attempt, EventLoopStep(r)
    PROVE  TypeOK'
<1> USE DEF TypeOK, vars, dispatchVars, rowVars, tickVars
<1>0. {"live", "ending", "closing", "failing"} \subseteq Phase
    BY DEF Phase, Dispatching, EventLoop
<1>1. CASE EndRun(r)
    BY <1>0, <1>1, MoveType DEF EndRun, At
<1>2. CASE WriteVerdict(r)
    <2>1. PICK v \in Verdicts(TaskOf(r)) :
              SetStatus(TaskOf(r), v) /\ Goto(r, IF v = "Failed" THEN "failing" ELSE "closing")
        BY <1>2 DEF WriteVerdict
    <2>2. v \in Status
        BY DEF Verdicts, Status
    <2>3. attempt' \in [Attempt -> AttemptState]
        BY <1>0, <1>2, <2>1, MoveType DEF WriteVerdict, At
    <2>4. QED
        BY <1>2, <2>1, <2>2, <2>3 DEF WriteVerdict, SetStatus
<1>3. CASE CloseRun(r)
    BY <1>0, <1>3, MoveType DEF CloseRun
<1>4. QED
    BY <1>1, <1>2, <1>3 DEF EventLoopStep

(* The steps of the tick.                                                  *)
LEMMA TickType ==
    ASSUME TypeOK, TickStep
    PROVE  TypeOK'
<1> USE DEF TypeOK, vars, dispatchVars, rowVars, tickVars
<1>0. Untracked \in TrackedRun /\ Preparing \in TrackedRun /\ "Failed" \in Status
    BY DEF Untracked, Preparing, TrackedRun, Status
<1>1. CASE RecoverRuns
    BY <1>1 DEF RecoverRuns
<1>2. CASE RecoverTasks
    BY <1>0, <1>2 DEF RecoverTasks
<1>3. CASE RecoverWorktrees
    BY <1>3 DEF RecoverWorktrees
<1>4. CASE BeginTick
    <2>1. batch' \subseteq Task /\ tick' \in {"idle", "dispatching"}
        <3>1. Dispatchable \subseteq Task
            BY CoordinatorAssumption DEF Dispatchable
        <3>2. QED
            BY <1>4, <3>1 DEF BeginTick
    <2>2. QED
        BY <1>0, <1>4, <2>1 DEF BeginTick
<1>5. ASSUME NEW t \in Task, SkipClaimed(t)
      PROVE  TypeOK'
    BY <1>5 DEF SkipClaimed
<1>6. ASSUME NEW t \in Task, NEW r \in Attempt, AutoDispatch(r, t)
      PROVE  TypeOK'
    <2>1. "claimed" \in Phase /\ "auto" \in Origin
        BY DEF Phase, Dispatching, Origin
    <2>2. attempt' \in [Attempt -> AttemptState]
        BY <1>6, <2>1, BeginType DEF AutoDispatch
    <2>3. QED
        BY <1>0, <1>6, <2>2 DEF AutoDispatch
<1>7. CASE ReleaseStale
    BY <1>0, <1>7 DEF ReleaseStale
<1>8. CASE Sweep
    BY <1>8 DEF Sweep, ReconcileClaims
<1>9. ASSUME NEW t \in Task, NEW action \in {"MarkFailed", "CleanupOrphan"},
             Reconcile(t, action)
      PROVE  TypeOK'
    BY <1>0, <1>9 DEF Reconcile, SetStatus, Untrack, ReleaseClaim
<1>10. QED
    BY <1>1, <1>2, <1>3, <1>4, <1>5, <1>6, <1>7, <1>8, <1>9, TickStep DEF TickStep

(* The steps of the user.                                                  *)
LEMMA UserType ==
    ASSUME TypeOK, UserStep
    PROVE  TypeOK'
<1> USE DEF TypeOK, vars, dispatchVars, rowVars, tickVars
<1>0. /\ {"claimed", "taken"} \subseteq Phase
      /\ {"manual", "next_ready"} \subseteq Origin
      /\ {"Dispatching", "InProgress"} \subseteq Status
    BY DEF Phase, Dispatching, Origin, Status
<1>1. ASSUME NEW t \in Task, NEW r \in Attempt, ManualDispatch(r, t)
      PROVE  TypeOK'
    <2>1. attempt' \in [Attempt -> AttemptState]
        BY <1>0, <1>1, BeginType DEF ManualDispatch
    <2>2. QED
        BY <1>1, <2>1 DEF ManualDispatch
<1>2. ASSUME NEW t \in Task, NEW r \in Attempt, TakeNextReady(r, t)
      PROVE  TypeOK'
    <2>1. attempt' \in [Attempt -> AttemptState]
        BY <1>0, <1>2, BeginType DEF TakeNextReady
    <2>2. QED
        BY <1>0, <1>2, <2>1 DEF TakeNextReady, SetStatus
<1>3. ASSUME NEW t \in Task, NEW new \in Status, UpdateTask(t, new)
      PROVE  TypeOK'
    BY <1>3 DEF UpdateTask, SetStatus
<1>4. ASSUME NEW t \in Task, RejectReview(t)
      PROVE  TypeOK'
    BY <1>0, <1>4 DEF RejectReview, SetStatus
<1>5. QED
    BY <1>1, <1>2, <1>3, <1>4, UserStep DEF UserStep

(* Every variable keeps its type; with it, a claim's age is never kept     *)
(* longer than the claim, and whatever stands somewhere has a task.        *)
THEOREM TypeCorrect == Spec => []TypeOK
<1>1. Init => TypeOK
    BY CoordinatorAssumption
       DEF Init, TypeOK, Status, Untracked, TrackedRun, AttemptState
<1>2. TypeOK /\ [Next]_vars => TypeOK'
    <2> SUFFICES ASSUME TypeOK, [Next]_vars
                 PROVE  TypeOK'
        OBVIOUS
    <2>1. ASSUME NEW t \in Task, AgeClaim(t)
          PROVE  TypeOK'
        BY <2>1 DEF AgeClaim, TypeOK, rowVars, tickVars
    <2>2. CASE Reopen
        <3>1. Untracked \in TrackedRun /\ NoAttempt \in AttemptState /\ "Ready" \in Status
            BY DEF Untracked, TrackedRun, AttemptState, Status
        <3>2. QED
            BY <2>2, <3>1, CoordinatorAssumption DEF Reopen, TypeOK
    <2>3. CASE UNCHANGED vars
        BY <2>3 DEF TypeOK, vars, dispatchVars, rowVars, tickVars
    <2>4. QED
        BY <2>1, <2>2, <2>3, DispatchType, EventLoopType, TickType, UserType DEF Next
<1>3. QED
    BY <1>1, <1>2, PTL DEF Spec
-----------------------------------------------------------------------------
(* The attempts that own a slot, by where they stand.                      *)
Owners == {r \in Attempt : attempt[r].phase \in OwnsSlot}

(* What a step may do to the permits and to the owners: the same.          *)
TakeSlot(r) ==
    /\ r \notin Owners /\ Owners' = Owners \cup {r}
    /\ permits' = permits \cup {r} /\ Cardinality(permits) < PoolMax
ReturnSlot(r) ==
    /\ r \in Owners /\ Owners' = Owners \ {r}
    /\ permits' = permits \ {r}
KeepSlots == Owners' = Owners /\ permits' = permits

(* Moving an attempt changes nobody else's place, and its own as it says.  *)
LEMMA MoveOwners ==
    ASSUME TypeOK, NEW r \in Attempt
    PROVE  /\ \A p : Goto(r, p) =>
                  Owners' = IF p \in OwnsSlot THEN Owners \cup {r} ELSE Owners \ {r}
           /\ Finish(r) \/ Quit(r) => Owners' = Owners \ {r}
           /\ \A t \in Task, p \in {"claimed", "taken"}, o \in Origin :
                  attempt' = [attempt EXCEPT ![r] =
                                [phase |-> p, task |-> t, origin |-> o]]
                  => Owners' = Owners \ {r}
<1>1. ASSUME NEW p, Goto(r, p)
      PROVE  Owners' = IF p \in OwnsSlot THEN Owners \cup {r} ELSE Owners \ {r}
    BY <1>1 DEF Goto, TypeOK, Owners
<1>2. ASSUME Finish(r)
      PROVE  Owners' = Owners \ {r}
    BY <1>2 DEF Finish, TypeOK, Owners, OwnsSlot, NoAttempt
<1>3. ASSUME Quit(r)
      PROVE  Owners' = Owners \ {r}
    <2>1. CASE Goto(r, "reverting")
        BY <1>1, <2>1 DEF OwnsSlot
    <2>2. CASE Finish(r)
        BY <1>2, <2>2
    <2>3. QED
        BY <1>3, <2>1, <2>2 DEF Quit
<1>4. ASSUME NEW t \in Task, NEW p \in {"claimed", "taken"}, NEW o \in Origin,
             attempt' = [attempt EXCEPT ![r] = [phase |-> p, task |-> t, origin |-> o]]
      PROVE  Owners' = Owners \ {r}
    BY <1>4 DEF TypeOK, Owners, OwnsSlot
<1>5. QED
    BY <1>1, <1>2, <1>3, <1>4

(* Every step of a dispatch takes a slot, gives its own back, or leaves    *)
(* the slots and their owners alone.                                       *)
LEMMA DispatchSlots ==
    ASSUME TypeOK, NEW r \in Attempt, DispatchStep(r)
    PROVE  TakeSlot(r) \/ ReturnSlot(r) \/ KeepSlots
<1> USE DEF At, Owners, OwnsSlot
<1>1. CASE ClaimTaken(r)
    BY <1>1, MoveOwners DEF ClaimTaken, KeepSlots
<1>2. CASE RevertTaken(r)
    BY <1>2, MoveOwners DEF RevertTaken, KeepSlots
<1>3. CASE AcquirePermit(r)
    BY <1>3, MoveOwners DEF AcquirePermit, TakeSlot
<1>4. CASE RefusePermit(r)
    BY <1>4, MoveOwners DEF RefusePermit, KeepSlots
<1>5. CASE CreateWorktree(r) \/ WriteInProgress(r) \/ CreateRunRecord(r) \/ StartAgent(r)
              \/ RegisterRun(r) \/ SendPayload(r)
    <2>1. KeepSlots
        BY <1>5, MoveOwners
           DEF CreateWorktree, WriteInProgress, CreateRunRecord, StartAgent,
               RegisterRun, SendPayload, KeepSlots
    <2>2. QED
        BY <2>1
<1>6. CASE FailWorktree(r) \/ FailContext(r)
    BY <1>6, MoveOwners DEF FailWorktree, FailContext, FailPrepare, ReturnSlot
<1>7. CASE FailStart(r) \/ FailSend(r)
    BY <1>7, MoveOwners DEF FailStart, FailSend, AbortRun, ReturnSlot
<1>8. QED
    BY <1>1, <1>2, <1>3, <1>4, <1>5, <1>6, <1>7 DEF DispatchStep

LEMMA EventLoopSlots ==
    ASSUME TypeOK, NEW r \in Attempt, EventLoopStep(r)
    PROVE  ReturnSlot(r) \/ KeepSlots
<1> USE DEF At, Owners, OwnsSlot
<1>1. CASE EndRun(r)
    BY <1>1, MoveOwners DEF EndRun, ReturnSlot
<1>2. CASE WriteVerdict(r)
    <2>1. PICK v \in Verdicts(TaskOf(r)) :
              Goto(r, IF v = "Failed" THEN "failing" ELSE "closing")
        BY <1>2 DEF WriteVerdict
    <2>2. Owners' = Owners \ {r}
        BY <2>1, MoveOwners
    <2>3. QED
        BY <1>2, <2>2 DEF WriteVerdict, KeepSlots
<1>3. CASE CloseRun(r)
    BY <1>3, MoveOwners DEF CloseRun, KeepSlots
<1>4. QED
    BY <1>1, <1>2, <1>3 DEF EventLoopStep

LEMMA OtherSlots ==
    ASSUME TypeOK, \/ TickStep \/ UserStep \/ UNCHANGED vars
                   \/ \E t \in Task : AgeClaim(t)
    PROVE  KeepSlots
<1> USE DEF dispatchVars, rowVars, tickVars, vars
<1>1. ASSUME attempt' = attempt, permits' = permits
      PROVE  KeepSlots
    BY <1>1 DEF KeepSlots, Owners
<1>2. ASSUME NEW r \in Attempt, NEW t \in Task,
             AutoDispatch(r, t) \/ ManualDispatch(r, t) \/ TakeNextReady(r, t)
      PROVE  KeepSlots
    <2>1. r \notin Owners
        BY <1>2 DEF AutoDispatch, ManualDispatch, TakeNextReady, Unused, NoAttempt,
                    Owners, OwnsSlot
    <2>2. Owners' = Owners \ {r}
        BY <1>2, MoveOwners
           DEF AutoDispatch, ManualDispatch, TakeNextReady, Origin
    <2>3. QED
        BY <1>2, <2>1, <2>2 DEF AutoDispatch, ManualDispatch, TakeNextReady, KeepSlots
<1>3. CASE TickStep
    BY <1>1, <1>2, <1>3
       DEF TickStep, RecoverRuns, RecoverTasks, RecoverWorktrees, BeginTick,
           SkipClaimed, ReleaseStale, Sweep, Reconcile
<1>4. CASE UserStep
    BY <1>1, <1>2, <1>4 DEF UserStep, UpdateTask, RejectReview
<1>5. CASE UNCHANGED vars \/ \E t \in Task : AgeClaim(t)
    BY <1>1, <1>5 DEF AgeClaim
<1>6. QED
    BY <1>3, <1>4, <1>5

(* A new process has neither permits nor owners.                           *)
LEMMA ReopenSlots ==
    ASSUME Reopen
    PROVE  permits' = {} /\ Owners' = {}
BY DEF Reopen, Owners, OwnsSlot, NoAttempt

(* Every way out of a dispatch, the error paths and the end of the event   *)
(* loop included, gives the slot back, and none before the agent is done.  *)
THEOREM PermitAccounting == Spec => []PermitsMatchAttempts
<1>1. Init => PermitsMatchAttempts
    BY DEF Init, PermitsMatchAttempts, OwnsSlot, NoAttempt
<1>2. TypeOK /\ PermitsMatchAttempts /\ [Next]_vars => PermitsMatchAttempts'
    <2> SUFFICES ASSUME TypeOK, permits = Owners, [Next]_vars
                 PROVE  permits' = Owners'
        BY DEF PermitsMatchAttempts, Owners
    <2>1. ASSUME NEW r \in Attempt, TakeSlot(r) \/ ReturnSlot(r) \/ KeepSlots
          PROVE  permits' = Owners'
        BY <2>1 DEF TakeSlot, ReturnSlot, KeepSlots
    <2>2. ASSUME KeepSlots
          PROVE  permits' = Owners'
        BY <2>2 DEF KeepSlots
    <2>3. QED
        BY <2>1, <2>2, DispatchSlots, EventLoopSlots, OtherSlots, ReopenSlots DEF Next
<1>3. QED
    BY <1>1, <1>2, TypeCorrect, PTL DEF Spec

(* The coordinator stays within the budget of the pool: at most PoolMax    *)
(* attempts own a slot, whatever fails, ends or restarts.                  *)
THEOREM CoordinatorKeepsBudget == Spec => WithinBudget
<1>1. Init => Budget!Init
    BY DEF Init, Budget!Init
<1>2. TypeOK /\ PermitsMatchAttempts /\ [Next]_vars => [Budget!Next]_permits
    <2> SUFFICES ASSUME TypeOK, permits = Owners, [Next]_vars
                 PROVE  Budget!Next \/ permits' = permits
        BY DEF PermitsMatchAttempts, Owners
    <2>1. ASSUME NEW r \in Attempt, TakeSlot(r)
          PROVE  Budget!Take(r)
        <3>1. Budget!Cardinality(permits) = Cardinality(permits)
            BY DEF Budget!Cardinality, Cardinality
        <3>2. QED
            BY <2>1, <3>1 DEF TakeSlot, Budget!Take
    <2>2. ASSUME NEW r \in Attempt, ReturnSlot(r)
          PROVE  Budget!GiveBack(r)
        BY <2>2 DEF ReturnSlot, Budget!GiveBack
    <2>3. CASE Reopen
        BY <2>3, ReopenSlots DEF Budget!Next, Budget!Renew
    <2>4. ASSUME NEW r \in Attempt, DispatchStep(r) \/ EventLoopStep(r)
          PROVE  Budget!Next \/ permits' = permits
        BY <2>1, <2>2, <2>4, DispatchSlots, EventLoopSlots DEF KeepSlots, Budget!Next
    <2>5. CASE TickStep \/ UserStep \/ UNCHANGED vars \/ \E t \in Task : AgeClaim(t)
        BY <2>5, OtherSlots DEF KeepSlots
    <2>6. QED
        BY <2>3, <2>4, <2>5 DEF Next
<1>3. QED
    BY <1>1, <1>2, TypeCorrect, PermitAccounting, PTL DEF Spec, WithinBudget, Budget!Spec

-----------------------------------------------------------------------------
(* Who works on a task.                                                    *)
(*                                                                         *)
(* The inductive invariant behind the next four theorems.  An attempt that *)
(* holds its task's claim is either before its entry in the running map or *)
(* tracked by it; the claim keeps the first to one a task, the entry the   *)
(* second, and an entry that says Running keeps its claim, which keeps the *)
(* two apart.                                                              *)
Before == Dispatching \ {"registered"}
Tracked == {"registered", "live", "ending"}
Held == Before \cup Tracked
Housed == (Working \ {"permitted"}) \cup {"closing", "failing"}

PhaseOf(r) == attempt[r].phase
Rivals(q, r, phases) ==
    PhaseOf(q) \in phases /\ PhaseOf(r) \in phases /\ TaskOf(q) = TaskOf(r)

RecoveryAlone == Recovering => \A r \in Attempt : PhaseOf(r) = "free"

HeldClaimed == \A r \in Attempt : PhaseOf(r) \in Held => TaskOf(r) \in claims

RunningClaimed == \A t \in Task : running[t].state = "Running" => t \in claims

OneBefore == \A q, r \in Attempt : Rivals(q, r, Before) => q = r

BeforeUntracked ==
    \A r \in Attempt : PhaseOf(r) \in Before =>
        running[TaskOf(r)].state # "Running" /\ TaskOf(r) \notin aged

TrackedByRun ==
    \A r \in Attempt : PhaseOf(r) \in Tracked =>
        /\ running[TaskOf(r)].state = "Running" /\ running[TaskOf(r)].run = r
        /\ running[TaskOf(r)].origin = "auto" <=> attempt[r].origin = "auto"

(* The tick waits for its own dispatch, whose entry is there meanwhile; a  *)
(* taken task was taken by hand.                                           *)
AutoAwaited ==
    \A r \in Attempt : attempt[r].origin = "auto" =>
        /\ PhaseOf(r) \in Dispatching => tick = "dispatching"
        /\ PhaseOf(r) \in Before => running[TaskOf(r)] # Untracked
        /\ PhaseOf(r) # "taken"

(* The row of a task that is being dispatched is one not begun; of a task  *)
(* whose agent works, InProgress.                                          *)
Unbegun == {"Planned", "Ready", "Dispatching", "Blocked"}

StatusAgrees ==
    \A r \in Attempt :
        /\ PhaseOf(r) \in {"permitted", "housed"} => status[TaskOf(r)] \in Unbegun
        /\ PhaseOf(r) \in Working \ {"permitted", "housed"} =>
               status[TaskOf(r)] = "InProgress"

(* What the reconciler has decided on stays over until it acts.            *)
DoomedOver ==
    \A d \in doomed :
        /\ tick = "reconciling" /\ running[d[1]].state = "Running"
        /\ \A r \in Attempt : PhaseOf(r) \in Held => TaskOf(r) # d[1]
        /\ \A e \in doomed : e[1] = d[1] => e = d

(* A branch is made once and stays: no two attempts are ever past it.      *)
OneHoused ==
    /\ \A r \in Attempt : PhaseOf(r) \in Housed => TaskOf(r) \in branches
    /\ \A q, r \in Attempt : Rivals(q, r, Housed) => q = r

ClaimsInv ==
    /\ RecoveryAlone /\ HeldClaimed /\ RunningClaimed /\ OneBefore
    /\ BeforeUntracked /\ TrackedByRun /\ AutoAwaited

HousedInv == OneHoused /\ WorktreeUnderRun

IInv == ClaimsInv /\ StatusAgrees /\ DoomedOver /\ HousedInv

(* What is assumed of an installation: every task has a worktree, nobody   *)
(* dispatches before recovery is over, no dispatch takes five minutes, and *)
(* the user moves no task an agent works on, and none not begun further    *)
(* than that.                                                              *)
Orderly ==
    /\ MainTask = {} /\ ~EarlyDispatch /\ "slow" \notin Faults
    /\ \A m \in Moves : m[1] # "InProgress" /\ (m[1] \in Unbegun => m[2] \in Unbegun)

-----------------------------------------------------------------------------
(* What the ways to move an attempt do to it, and to no other.             *)
Others(r) == \A q \in Attempt \ {r} : attempt'[q] = attempt[q]
MovedTo(r, p) ==
    /\ Others(r)
    /\ PhaseOf(r)' = p /\ TaskOf(r)' = TaskOf(r)
    /\ attempt'[r].origin = attempt[r].origin
Left(r) == Others(r) /\ PhaseOf(r)' \in {"free", "reverting"}

LEMMA AttemptMoves ==
    ASSUME TypeOK, NEW r \in Attempt, PhaseOf(r) \in Phase
    PROVE  /\ \A p : Goto(r, p) => MovedTo(r, p)
           /\ Finish(r) => Left(r)
           /\ Quit(r) => Left(r)
<1>1. attempt[r] \in [phase : Phase, task : Task, origin : Origin]
    BY AttemptTask DEF TypeOK, AttemptState, PhaseOf
<1>2. QED
    BY <1>1
       DEF Goto, MovedTo, Others, Finish, Quit, Left, TypeOK, NoAttempt, PhaseOf,
           TaskOf

(* A dispatch keeps the invariant: whichever of its steps fails, what it   *)
(* gives back was its own.                                                 *)
LEMMA DispatchRuns ==
    ASSUME TypeOK, IInv, Orderly, NEW r \in Attempt, DispatchStep(r)
    PROVE  IInv'
<1> USE DEF IInv, ClaimsInv, RecoveryAlone, HeldClaimed, RunningClaimed, OneBefore,
            BeforeUntracked, TrackedByRun, AutoAwaited, StatusAgrees, Unbegun,
            DoomedOver, HousedInv, OneHoused, WorktreeUnderRun, Recovering
<1> USE DEF TypeOK, Before, Tracked, Held, Housed, Working, OwnsSlot, Dispatching,
            PhaseOf, TaskOf, At, Rivals, MovedTo, Left, Others, rowVars, tickVars
<1>0. /\ PhaseOf(r) \in Phase /\ TaskOf(r) \in Task /\ ~Recovering /\ MainTask = {}
    <2>1. PhaseOf(r) \in Phase /\ PhaseOf(r) # "free"
        BY DEF DispatchStep, Phase, EventLoop, ClaimTaken, RevertTaken,
           AcquirePermit, RefusePermit, CreateWorktree, FailWorktree,
           WriteInProgress, CreateRunRecord, FailContext, StartAgent, FailStart,
           RegisterRun, SendPayload, FailSend
    <2>2. ~Recovering
        BY <2>1
    <2>3. QED
        BY <2>1, <2>2, AttemptTask DEF Orderly
<1>1. CASE ClaimTaken(r)
    BY <1>1, <1>0, AttemptMoves DEF ClaimTaken
<1>2. CASE RevertTaken(r)
    BY <1>2, <1>0, AttemptMoves DEF RevertTaken
<1>3. CASE AcquirePermit(r)
    BY <1>3, <1>0, AttemptMoves DEF AcquirePermit
<1>4. CASE RefusePermit(r)
    BY <1>4, <1>0, AttemptMoves DEF RefusePermit, ReleaseClaim
<1>5. CASE CreateWorktree(r)
    BY <1>5, <1>0, AttemptMoves DEF CreateWorktree
<1>6. CASE FailWorktree(r)
    BY <1>6, <1>0, AttemptMoves DEF FailWorktree, FailPrepare, ReleaseClaim
<1>7. CASE WriteInProgress(r)
    BY <1>7, <1>0, AttemptMoves DEF WriteInProgress, SetStatus
<1>8. CASE CreateRunRecord(r)
    BY <1>8, <1>0, AttemptMoves DEF CreateRunRecord
<1>9. CASE FailContext(r)
    BY <1>9, <1>0, AttemptMoves DEF FailContext, FailPrepare, ReleaseClaim
<1>10. CASE StartAgent(r)
    BY <1>10, <1>0, AttemptMoves DEF StartAgent
<1>11. CASE FailStart(r)
    BY <1>11, <1>0, AttemptMoves, SMTT(30)
       DEF FailStart, AbortRun, SetStatus, ReleaseClaim, Untrack, Untracked
<1>12. CASE RegisterRun(r)
    <2>1. ClaimsInv'
        BY <1>12, <1>0, AttemptMoves DEF RegisterRun, Running, Untracked
    <2>2. StatusAgrees'
        BY <1>12, <1>0, AttemptMoves DEF RegisterRun, Running, Untracked
    <2>3. DoomedOver'
        BY <1>12, <1>0, AttemptMoves DEF RegisterRun, Running, Untracked
    <2>4. HousedInv'
        BY <1>12, <1>0, AttemptMoves DEF RegisterRun, Running, Untracked
    <2>5. QED
        BY <2>1, <2>2, <2>3, <2>4
<1>13. CASE SendPayload(r)
    BY <1>13, <1>0, AttemptMoves DEF SendPayload
<1>14. CASE FailSend(r)
    BY <1>14, <1>0, AttemptMoves, SMTT(20)
       DEF FailSend, AbortRun, SetStatus, ReleaseClaim, Untrack, Untracked
<1>20. QED
    BY <1>1, <1>2, <1>3, <1>4, <1>5, <1>6, <1>7, <1>8, <1>9, <1>10, <1>11, <1>12,
       <1>13, <1>14
       DEF DispatchStep

(* So does the event loop of a run, up to the removal of its worktree.     *)
LEMMA EventLoopRuns ==
    ASSUME TypeOK, IInv, Orderly, NEW r \in Attempt, EventLoopStep(r)
    PROVE  IInv'
<1> USE DEF IInv, ClaimsInv, RecoveryAlone, HeldClaimed, RunningClaimed, OneBefore,
            BeforeUntracked, TrackedByRun, AutoAwaited, StatusAgrees, Unbegun,
            DoomedOver, HousedInv, OneHoused, WorktreeUnderRun, Recovering
<1> USE DEF TypeOK, Before, Tracked, Held, Housed, Working, OwnsSlot, Dispatching,
            PhaseOf, TaskOf, At, Rivals, MovedTo, Left, Others, rowVars, tickVars,
            dispatchVars
<1>0. /\ PhaseOf(r) \in Phase /\ TaskOf(r) \in Task /\ ~Recovering /\ MainTask = {}
    <2>1. PhaseOf(r) \in Phase /\ PhaseOf(r) # "free"
        BY DEF EventLoopStep, Phase, EventLoop, EndRun, WriteVerdict, CloseRun
    <2>2. ~Recovering
        BY <2>1
    <2>3. QED
        BY <2>1, <2>2, AttemptTask DEF Orderly
<1>1. CASE EndRun(r)
    BY <1>1, <1>0, AttemptMoves DEF EndRun
<1>2. CASE WriteVerdict(r)
    BY <1>2, <1>0, AttemptMoves DEF WriteVerdict, SetStatus
<1>3. CASE CloseRun(r)
    BY <1>3, <1>0, AttemptMoves DEF CloseRun
<1>4. QED
    BY <1>1, <1>2, <1>3 DEF EventLoopStep

(* So does the tick: recovery finds no attempt, a stale claim is nobody's, *)
(* and the reconciler decides on runs without an agent only.               *)
LEMMA TickRuns ==
    ASSUME TypeOK, SessionRowsTrue, IInv, Orderly, TickStep
    PROVE  IInv'
<1> USE DEF IInv, ClaimsInv, RecoveryAlone, HeldClaimed, RunningClaimed, OneBefore,
            BeforeUntracked, TrackedByRun, AutoAwaited, StatusAgrees, Unbegun,
            DoomedOver, HousedInv, OneHoused, WorktreeUnderRun, Recovering
<1> USE DEF TypeOK, Before, Tracked, Held, Housed, Working, OwnsSlot, Dispatching,
            PhaseOf, TaskOf, At, Rivals, MovedTo, Left, Others, rowVars, tickVars,
            dispatchVars
<1>0. MainTask = {} /\ "slow" \notin Faults
    BY DEF Orderly
<1>a. Recovering => \A r \in Attempt : PhaseOf(r) \notin Housed \cup Held
    BY DEF IInv, ClaimsInv, RecoveryAlone
<1>1. CASE RecoverRuns
    BY <1>1, <1>0 DEF RecoverRuns
<1>2. CASE RecoverTasks
    <2>1. ClaimsInv'
        BY <1>2, <1>0 DEF RecoverTasks
    <2>2. StatusAgrees'
        BY <1>a, <1>2, <1>0 DEF RecoverTasks
    <2>3. DoomedOver'
        BY <1>2, <1>0 DEF RecoverTasks
    <2>4. HousedInv'
        BY <1>a, <1>2, <1>0 DEF RecoverTasks
    <2>5. QED
        BY <2>1, <2>2, <2>3, <2>4
<1>3. CASE RecoverWorktrees
    <2>1. ClaimsInv'
        BY <1>3, <1>0 DEF RecoverWorktrees
    <2>2. StatusAgrees'
        BY <1>a, <1>3, <1>0 DEF RecoverWorktrees
    <2>3. DoomedOver'
        BY <1>3, <1>0 DEF RecoverWorktrees
    <2>4. HousedInv'
        BY <1>a, <1>3, <1>0 DEF RecoverWorktrees
    <2>5. QED
        BY <2>1, <2>2, <2>3, <2>4
<1>4. CASE BeginTick
    <2>1. ClaimsInv'
        <3>1. RecoveryAlone'
            BY <1>4, <1>0
               DEF BeginTick, Completed, EventTaskFinished, Untracked, NoAttempt, Terminal
        <3>2. HeldClaimed'
            BY <1>4, <1>0
               DEF BeginTick, Completed, EventTaskFinished, Untracked, NoAttempt, Terminal
        <3>3. RunningClaimed'
            BY <1>4, <1>0
               DEF BeginTick, Completed, EventTaskFinished, Untracked, NoAttempt, Terminal
        <3>4. OneBefore'
            BY <1>4, <1>0
               DEF BeginTick, Completed, EventTaskFinished, Untracked, NoAttempt, Terminal
        <3>5. BeforeUntracked'
            BY <1>4, <1>0
               DEF BeginTick, Completed, EventTaskFinished, Untracked, NoAttempt, Terminal
        <3>6. TrackedByRun'
            BY <1>4, <1>0
               DEF BeginTick, Completed, EventTaskFinished, Untracked, NoAttempt, Terminal
        <3>7. AutoAwaited'
            BY <1>4, <1>0
               DEF BeginTick, Completed, EventTaskFinished, Untracked, NoAttempt, Terminal
        <3>8. QED
            BY <3>1, <3>2, <3>3, <3>4, <3>5, <3>6, <3>7 DEF ClaimsInv
    <2>2. StatusAgrees'
        BY <1>4, <1>0
           DEF BeginTick, Completed, EventTaskFinished, Untracked, NoAttempt, Terminal
    <2>3. DoomedOver'
        BY <1>4, <1>0
           DEF BeginTick, Completed, EventTaskFinished, Untracked, NoAttempt, Terminal
    <2>4. HousedInv'
        BY <1>4, <1>0
           DEF BeginTick, Completed, EventTaskFinished, Untracked, NoAttempt, Terminal
    <2>5. QED
        BY <2>1, <2>2, <2>3, <2>4
<1>5. CASE ReleaseStale
    BY <1>5, <1>0 DEF ReleaseStale, StaleClaims, AwaitsDispatch, InFlight, Untracked
<1>6. CASE Sweep
    <2>1. ClaimsInv'
        BY <1>6, <1>0
           DEF Sweep, ReconcileClaims, SessionActive, EventTaskFinished,
               SessionRowsTrue, EventLoop, Row, NoAttempt
    <2>2. StatusAgrees'
        BY <1>6, <1>0
           DEF Sweep, ReconcileClaims, SessionActive, EventTaskFinished,
               SessionRowsTrue, EventLoop, Row, NoAttempt
    <2>3. DoomedOver'
        <3>1. ASSUME NEW t \in Task, running[t].state = "Running", NEW r \in Attempt,
                     PhaseOf(r) \in Held, TaskOf(r) = t
              PROVE  t \in worktrees /\ SessionActive(t)
            <4>1. PhaseOf(r) \in Tracked /\ running[t].run = r
                BY <3>1
            <4>2. t \in worktrees
                BY <1>0, <3>1, <4>1
            <4>3. <<r, t>> \in sessions
                BY <3>1, <4>1 DEF SessionRowsTrue, Row, EventLoop
            <4>4. QED
                BY <4>1, <4>2, <4>3 DEF SessionActive
        <3>2. ASSUME NEW d \in ReconcileClaims
              PROVE  /\ d[1] \in Task /\ running[d[1]].state = "Running"
                     /\ \A r \in Attempt : PhaseOf(r) \in Held => TaskOf(r) # d[1]
                     /\ \A e \in ReconcileClaims : e[1] = d[1] => e = d
            BY <3>1 DEF ReconcileClaims
        <3>3. QED
            BY <1>6, <3>2 DEF Sweep, DoomedOver
    <2>4. HousedInv'
        BY <1>6, <1>0
           DEF Sweep, ReconcileClaims, SessionActive, EventTaskFinished,
               SessionRowsTrue, EventLoop, Row, NoAttempt
    <2>5. QED
        BY <2>1, <2>2, <2>3, <2>4
<1>7. ASSUME NEW t \in Task, SkipClaimed(t)
      PROVE  IInv'
    BY <1>7, <1>0 DEF SkipClaimed
<1>8. ASSUME NEW t \in Task, NEW r \in Attempt, AutoDispatch(r, t)
      PROVE  IInv'
    BY <1>8, <1>0
       DEF AutoDispatch, AwaitsDispatch, InFlight, Unused, NoAttempt, Preparing,
           Untracked
<1>9. ASSUME NEW t \in Task, NEW action \in {"MarkFailed", "CleanupOrphan"},
             Reconcile(t, action)
      PROVE  IInv'
    <2>0. /\ \A r \in Attempt : PhaseOf(r) \in Held => TaskOf(r) # t
          /\ tick # "dispatching" /\ tick' # "dispatching" /\ ~Recovering /\ ~Recovering'
          /\ running'[t] = Untracked /\ \A u \in Task \ {t} : running'[u] = running[u]
          /\ claims' = claims \ {t} /\ aged' = aged \ {t}
        BY <1>9 DEF Reconcile, Untrack, ReleaseClaim
    <2>1. QED
        BY <2>0, <1>9, <1>0
           DEF Reconcile, SetStatus, Untrack, Untracked, ReleaseClaim
<1> HIDE DEF IInv, TypeOK
<1>10. QED
    BY <1>1, <1>2, <1>3, <1>4, <1>5, <1>6, <1>7, <1>8, <1>9, TickStep DEF TickStep

(* So does the user, whose dispatches skip a claimed task.                 *)
LEMMA UserRuns ==
    ASSUME TypeOK, IInv, Orderly, UserStep
    PROVE  IInv'
<1> USE DEF IInv, ClaimsInv, RecoveryAlone, HeldClaimed, RunningClaimed, OneBefore,
            BeforeUntracked, TrackedByRun, AutoAwaited, StatusAgrees, Unbegun,
            DoomedOver, HousedInv, OneHoused, WorktreeUnderRun, Recovering
<1> USE DEF TypeOK, Before, Tracked, Held, Housed, Working, OwnsSlot, Dispatching,
            PhaseOf, TaskOf, At, Rivals, MovedTo, Left, Others, rowVars, tickVars,
            dispatchVars
<1>0. Orderly
    OBVIOUS
<1>1. ASSUME NEW t \in Task, NEW r \in Attempt, ManualDispatch(r, t)
      PROVE  IInv'
    BY <1>1, <1>0 DEF ManualDispatch, UserDispatches, Orderly, Unused, NoAttempt
<1>2. ASSUME NEW t \in Task, NEW r \in Attempt, TakeNextReady(r, t)
      PROVE  IInv'
    BY <1>2, <1>0
       DEF TakeNextReady, UserDispatches, Orderly, Unused, NoAttempt, SetStatus
<1>3. ASSUME NEW t \in Task, NEW new \in Status, UpdateTask(t, new)
      PROVE  IInv'
    BY <1>3, <1>0 DEF UpdateTask, SetStatus, Orderly, Terminal
<1>4. ASSUME NEW t \in Task, RejectReview(t)
      PROVE  IInv'
    BY <1>4, <1>0 DEF RejectReview, SetStatus
<1>5. QED
    BY <1>1, <1>2, <1>3, <1>4, UserStep DEF UserStep

-----------------------------------------------------------------------------
(* The rows of agent sessions.                                             *)
(*                                                                         *)
(* A dispatch opens a row as it starts its event loop.                     *)
LEMMA DispatchRows ==
    ASSUME TypeOK, SessionRowsTrue, NEW r \in Attempt, DispatchStep(r)
    PROVE  SessionRowsTrue'
<1> USE DEF SessionRowsTrue, Row, EventLoop, At, PhaseOf, TaskOf, MovedTo, Left,
            Others, rowVars
<1>1. CASE ClaimTaken(r) \/ RevertTaken(r) \/ AcquirePermit(r) \/ RefusePermit(r)
              \/ CreateWorktree(r) \/ FailWorktree(r) \/ WriteInProgress(r)
              \/ CreateRunRecord(r) \/ FailContext(r)
    <2>1. /\ PhaseOf(r) \in Phase \ EventLoop /\ PhaseOf(r)' \notin EventLoop
          /\ Others(r) /\ sessions' = sessions
        BY <1>1, AttemptMoves
           DEF Phase, Dispatching, ClaimTaken, RevertTaken, AcquirePermit, RefusePermit,
               CreateWorktree, FailWorktree, WriteInProgress, CreateRunRecord,
               FailContext, FailPrepare
    <2>2. QED
        BY <2>1
<1>2. CASE StartAgent(r)
    <2>1. PhaseOf(r) = "prepared" /\ MovedTo(r, "started")
        BY <1>2, AttemptMoves DEF StartAgent, Phase, Dispatching
    <2>2. QED
        BY <1>2, <2>1 DEF StartAgent
<1>3. CASE RegisterRun(r) \/ SendPayload(r)
    <2>1. /\ PhaseOf(r) \in EventLoop /\ PhaseOf(r)' \in EventLoop
          /\ TaskOf(r)' = TaskOf(r) /\ Others(r) /\ sessions' = sessions
        BY <1>3, AttemptMoves DEF RegisterRun, SendPayload, Phase
    <2>2. QED
        BY <2>1
<1>4. CASE FailStart(r) \/ FailSend(r)
    <2>1. /\ PhaseOf(r)' \notin EventLoop /\ Others(r)
          /\ sessions' = sessions \ {Row(r)}
        BY <1>4, AttemptMoves DEF FailStart, FailSend, AbortRun, Phase, Dispatching
    <2>2. QED
        BY <2>1
<1>5. QED
    BY <1>1, <1>2, <1>3, <1>4 DEF DispatchStep

(* A run that has closed its row has no event loop, and the reverse.       *)
LEMMA EventLoopRows ==
    ASSUME TypeOK, SessionRowsTrue, NEW r \in Attempt, EventLoopStep(r)
    PROVE  SessionRowsTrue'
<1> USE DEF SessionRowsTrue, Row, EventLoop, At, PhaseOf, TaskOf, MovedTo, Left,
            Others, rowVars
<1>1. CASE EndRun(r) \/ WriteVerdict(r)
    <2>1. /\ PhaseOf(r) \in EventLoop /\ PhaseOf(r)' \in EventLoop
          /\ TaskOf(r)' = TaskOf(r) /\ Others(r) /\ sessions' = sessions
        BY <1>1, AttemptMoves DEF EndRun, WriteVerdict, Phase
    <2>2. QED
        BY <2>1
<1>2. CASE CloseRun(r)
    <2>1. /\ PhaseOf(r)' \notin EventLoop /\ Others(r)
          /\ sessions' = sessions \ {Row(r)}
        BY <1>2, AttemptMoves DEF CloseRun, Phase
    <2>2. QED
        BY <2>1
<1>3. QED
    BY <1>1, <1>2 DEF EventLoopStep

(* The tick and the user leave the rows and the event loops alone.         *)
LEMMA OtherRows ==
    ASSUME TypeOK, SessionRowsTrue,
           \/ TickStep \/ UserStep \/ UNCHANGED vars
           \/ \E t \in Task : AgeClaim(t)
    PROVE  SessionRowsTrue'
<1> USE DEF SessionRowsTrue, Row, EventLoop, TaskOf, vars, dispatchVars, rowVars,
            tickVars
<1>1. ASSUME attempt' = attempt, sessions' = sessions
      PROVE  SessionRowsTrue'
    BY <1>1
<1>2. ASSUME NEW r \in Attempt, NEW t \in Task,
             AutoDispatch(r, t) \/ ManualDispatch(r, t) \/ TakeNextReady(r, t)
      PROVE  SessionRowsTrue'
    <2>1. /\ attempt[r].phase = "free" /\ attempt'[r].phase \in {"claimed", "taken"}
          /\ \A q \in Attempt \ {r} : attempt'[q] = attempt[q]
          /\ sessions' = sessions
        BY <1>2
           DEF AutoDispatch, ManualDispatch, TakeNextReady, Unused, NoAttempt,
               TypeOK
    <2>2. QED
        BY <2>1
<1>3. CASE TickStep
    BY <1>1, <1>2, <1>3
       DEF TickStep, RecoverRuns, RecoverTasks, RecoverWorktrees, BeginTick,
           SkipClaimed, ReleaseStale, Sweep, Reconcile
<1>4. CASE UserStep
    BY <1>1, <1>2, <1>4 DEF UserStep, UpdateTask, RejectReview
<1>5. CASE UNCHANGED vars \/ \E t \in Task : AgeClaim(t)
    BY <1>1, <1>5 DEF AgeClaim
<1>6. QED
    BY <1>3, <1>4, <1>5

(* A session row says running exactly while the event loop of its attempt  *)
(* runs: what recovery and the reconciler read of a run is true of it,     *)
(* whatever fails, ages or restarts.                                       *)
THEOREM SessionRows == Spec => []SessionRowsTrue
<1>1. Init => SessionRowsTrue
    BY DEF Init, SessionRowsTrue, EventLoop, NoAttempt
<1>2. TypeOK /\ SessionRowsTrue /\ [Next]_vars => SessionRowsTrue'
    <2>1. Reopen => SessionRowsTrue'
        BY DEF Reopen, SessionRowsTrue, EventLoop, NoAttempt
    <2>2. QED
        BY <2>1, DispatchRows, EventLoopRows, OtherRows DEF Next
<1>3. QED
    BY <1>1, <1>2, TypeCorrect, PTL DEF Spec

-----------------------------------------------------------------------------
(* The application starts with no attempt.                                 *)
LEMMA InitRuns == Init => IInv
BY DEF Init, IInv, ClaimsInv, RecoveryAlone, HeldClaimed, RunningClaimed, OneBefore,
       BeforeUntracked, TrackedByRun, AutoAwaited, StatusAgrees, DoomedOver, HousedInv,
       OneHoused, WorktreeUnderRun, PhaseOf, Rivals, Before, Tracked, Held, Housed,
       Working, OwnsSlot, Dispatching, NoAttempt, Untracked

(* Every step keeps the invariant; a crash leaves no attempt.              *)
LEMMA NextRuns ==
    ASSUME TypeOK, SessionRowsTrue, IInv, Orderly, [Next]_vars
    PROVE  IInv'
<1> USE DEF IInv, ClaimsInv, RecoveryAlone, HeldClaimed, RunningClaimed, OneBefore,
            BeforeUntracked, TrackedByRun, AutoAwaited, StatusAgrees, DoomedOver,
            HousedInv, OneHoused, WorktreeUnderRun
<1>1. ASSUME NEW t \in Task, AgeClaim(t)
      PROVE  IInv'
    BY <1>1
       DEF AgeClaim, Orderly, InFlight, Before, PhaseOf, TaskOf, Rivals, Recovering,
           rowVars, tickVars
<1>2. CASE Reopen
    BY <1>2
       DEF Reopen, PhaseOf, Rivals, NoAttempt, Untracked, Before, Tracked, Held, Housed,
           Working, OwnsSlot, Dispatching
<1>3. CASE UNCHANGED vars
    BY <1>3
       DEF vars, dispatchVars, rowVars, tickVars, PhaseOf, TaskOf, Rivals, Recovering
<1>4. QED
    BY <1>1, <1>2, <1>3, DispatchRuns, EventLoopRuns, TickRuns, UserRuns DEF Next

(* The invariant holds of every installation that is orderly.              *)
THEOREM RunsInvariant ==
    ASSUME Orderly
    PROVE  Spec => []IInv
<1>1. TypeOK /\ SessionRowsTrue /\ IInv /\ [Next]_vars => IInv'
    BY NextRuns
<1>2. QED
    BY <1>1, InitRuns, TypeCorrect, SessionRows, PTL DEF Spec

(* Whoever dispatches, a task is worked on by one attempt at a time.       *)
THEOREM OneRun ==
    ASSUME Orderly
    PROVE  Spec => []OneRunPerTask
<1>1. IInv => OneRunPerTask
    BY DEF IInv, ClaimsInv, OneBefore, BeforeUntracked, TrackedByRun, OneRunPerTask,
       WorksOn,
           Rivals, PhaseOf, TaskOf, Working, OwnsSlot, Before, Tracked, Dispatching
<1>2. QED
    BY <1>1, RunsInvariant, PTL

(* A run whose agent has its payload is claimed, and in the running map    *)
(* with its own handle.                                                    *)
THEOREM RunTracked ==
    ASSUME Orderly
    PROVE  Spec => []LiveRunTracked
<1>1. IInv => LiveRunTracked
    BY DEF IInv, ClaimsInv, HeldClaimed, TrackedByRun, LiveRunTracked, PhaseOf,
       Held, Tracked
<1>2. QED
    BY <1>1, RunsInvariant, PTL

(* While an attempt works on a task its worktree is there: no other        *)
(* actor's clean-up, and no error path of another attempt, takes it away.  *)
THEOREM WorktreeStays ==
    ASSUME Orderly
    PROVE  Spec => []WorktreeUnderRun
<1>1. IInv => WorktreeUnderRun
    BY DEF IInv, HousedInv
<1>2. QED
    BY <1>1, RunsInvariant, PTL
=============================================================================
