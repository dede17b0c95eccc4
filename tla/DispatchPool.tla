---------------------------- MODULE DispatchPool ----------------------------
(***************************************************************************)
(* The dispatch pool of pnevma-agents: a counting semaphore over agent     *)
(* slots with a bounded priority queue and a Notify for the waiters.       *)
(*                                                                         *)
(* A caller is one task of the tokio runtime: it calls try_acquire, holds  *)
(* the permit and drops it, or it calls wait_next.  Every step below is    *)
(* the code between two points where the pool's lock is taken or released, *)
(* so that steps of different callers interleave where the code lets them. *)
(*                                                                         *)
(*   idle       outside of the pool                                        *)
(*   holding    owns a DispatchPermit                                      *)
(*   dropped    the permit is gone, its release task is spawned but has    *)
(*              not run                                                    *)
(*   notifying  release has unlocked the pool, notify_waiters is still due *)
(*   waiting    wait_next has created its Notified future                  *)
(*   checked    wait_next has found nothing to do and unlocked the pool    *)
(*   parked     wait_next awaits its future                                *)
(*   started    wait_next returned a dispatch; the slot it took is counted *)
(*              in active and no permit stands for it                      *)
(***************************************************************************)
EXTENDS Naturals, FiniteSets, SequencesExt

CONSTANTS Caller,         \* tasks that use the pool
          Ranks,          \* priorities, 0 first (P0..P3)
          MaxActive,      \* Inner.max
          MaxQueueDepth   \* Inner.max_queue_depth

ASSUME PoolAssumption ==
    /\ IsFiniteSet(Caller)
    /\ Ranks \subseteq Nat
    /\ MaxActive \in Nat
    /\ MaxQueueDepth \in Nat

VARIABLES active,    \* Inner.active
          queue,     \* Inner.queue, in the order of Inner.seq
          phase,     \* where each caller stands
          notified   \* callers whose Notified future has been woken

vars == <<active, queue, phase, notified>>

Phase == {"idle", "holding", "dropped", "notifying",
          "waiting", "checked", "parked", "started"}

QueuedDispatch == [task : Caller, rank : Ranks]

-----------------------------------------------------------------------------
(* Slips that the code could contain, for the checks that a property sees  *)
(* them; nothing below uses them.                                          *)

\* release on a permit whose Drop runs as well: two slots come back
ReleaseSlotTwice(c) ==
    /\ phase[c] = "dropped"
    /\ active' = IF active > 1 THEN active - 2 ELSE 0
    /\ phase' = [phase EXCEPT ![c] = "notifying"]
    /\ UNCHANGED <<queue, notified>>

\* the Notified future is created by the await, after the check
RegisteredByAwait == {c \in Caller : phase[c] = "parked"}

\* wait_next pops without the test of active
WaitPopUnchecked(c) ==
    /\ phase[c] = "waiting"
    /\ \E i \in DOMAIN queue : queue' = RemoveAt(queue, i)
    /\ active' = active + 1
    /\ phase' = [phase EXCEPT ![c] = "started"]
    /\ notified' = notified \ {c}

\* release returns before notify_waiters
NotifyNobody(c) ==
    /\ phase[c] = "notifying"
    /\ phase' = [phase EXCEPT ![c] = "idle"]
    /\ UNCHANGED <<active, queue, notified>>

-----------------------------------------------------------------------------
(* The heap's order: the smaller rank first, then the smaller seq, which   *)
(* is the arrival order and so the position in queue.                      *)
Precedes(i, j) ==
    \/ queue[i].rank < queue[j].rank
    \/ queue[i].rank = queue[j].rank /\ i <= j

IsTop(i) == i \in DOMAIN queue /\ \A j \in DOMAIN queue : Precedes(i, j)

(* Callers whose Notified future exists: notify_waiters wakes a future     *)
(* from its creation on, awaited or not.                                   *)
Registered == {c \in Caller : phase[c] \in {"waiting", "checked", "parked"}}

-----------------------------------------------------------------------------
Init ==
    /\ active = 0
    /\ queue = <<>>
    /\ phase = [c \in Caller |-> "idle"]
    /\ notified = {}

(* try_acquire with a slot free: the queue is not looked at.               *)
TryAcquireGranted(c) ==
    /\ phase[c] = "idle"
    /\ active < MaxActive
    /\ active' = active + 1
    /\ phase' = [phase EXCEPT ![c] = "holding"]
    /\ UNCHANGED <<queue, notified>>

(* try_acquire with every slot taken and room in the queue.  The result is *)
(* Queued: the caller goes on without a permit, the entry stays.           *)
TryAcquireQueued(c, rank) ==
    /\ phase[c] = "idle"
    /\ ~ (active < MaxActive)
    /\ Len(queue) < MaxQueueDepth
    /\ queue' = Append(queue, [task |-> c, rank |-> rank])
    /\ UNCHANGED <<active, phase, notified>>

(* DispatchPermit::drop spawns the release, or DispatchPermit::release     *)
(* is about to call it.                                                    *)
DropPermit(c) ==
    /\ phase[c] = "holding"
    /\ phase' = [phase EXCEPT ![c] = "dropped"]
    /\ UNCHANGED <<active, queue, notified>>

(* release, up to drop(inner).                                             *)
ReleaseSlot(c) ==
    /\ phase[c] = "dropped"
    /\ active' = IF active > 0 THEN active - 1 ELSE active
    /\ phase' = [phase EXCEPT ![c] = "notifying"]
    /\ UNCHANGED <<queue, notified>>

(* release, after drop(inner).                                             *)
NotifyWaiters(c) ==
    /\ phase[c] = "notifying"
    /\ phase' = [phase EXCEPT ![c] = "idle"]
    /\ notified' = notified \cup Registered
    /\ UNCHANGED <<active, queue>>

(* wait_next creates a fresh Notified future: on entry, and again each     *)
(* time the previous one has been woken.                                   *)
WaitRegister(c) ==
    /\ \/ phase[c] = "idle"
       \/ phase[c] = "parked" /\ c \in notified
    /\ phase' = [phase EXCEPT ![c] = "waiting"]
    /\ notified' = notified \ {c}
    /\ UNCHANGED <<active, queue>>

(* wait_next under the lock, with a slot free and an entry to pop.         *)
WaitPop(c) ==
    /\ phase[c] = "waiting"
    /\ active < MaxActive
    /\ \E i \in DOMAIN queue : IsTop(i) /\ queue' = RemoveAt(queue, i)
    /\ active' = active + 1
    /\ phase' = [phase EXCEPT ![c] = "started"]
    /\ notified' = notified \ {c}

(* wait_next under the lock, otherwise.                                    *)
WaitCheck(c) ==
    /\ phase[c] = "waiting"
    /\ ~ (active < MaxActive /\ queue # <<>>)
    /\ phase' = [phase EXCEPT ![c] = "checked"]
    /\ UNCHANGED <<active, queue, notified>>

(* wait_next after the lock: await the future.                             *)
WaitPark(c) ==
    /\ phase[c] = "checked"
    /\ phase' = [phase EXCEPT ![c] = "parked"]
    /\ UNCHANGED <<active, queue, notified>>

Next ==
    \E c \in Caller :
        \/ TryAcquireGranted(c)
        \/ \E rank \in Ranks : TryAcquireQueued(c, rank)
        \/ DropPermit(c)
        \/ ReleaseSlot(c)
        \/ NotifyWaiters(c)
        \/ WaitRegister(c)
        \/ WaitPop(c)
        \/ WaitCheck(c)
        \/ WaitPark(c)

(* The runtime runs every task that is ready: a spawned release runs to    *)
(* its end, a woken wait_next goes round its loop.  Nothing makes a holder *)
(* drop its permit or a caller call.                                       *)
Fairness ==
    \A c \in Caller :
        /\ WF_vars(ReleaseSlot(c))
        /\ WF_vars(NotifyWaiters(c))
        /\ WF_vars(phase[c] = "parked" /\ WaitRegister(c))
        /\ WF_vars(WaitPop(c) \/ WaitCheck(c) \/ WaitPark(c))

Spec == Init /\ [][Next]_vars
FairSpec == Spec /\ Fairness

-----------------------------------------------------------------------------
(* The variables have the types of the struct's fields.                    *)
TypeOK ==
    /\ active \in Nat
    /\ queue \in Seq(QueuedDispatch)
    /\ phase \in [Caller -> Phase]
    /\ notified \subseteq Caller

(* The callers a slot is taken for.                                        *)
Slots == {c \in Caller : phase[c] \in {"holding", "dropped", "started"}}

(* The counter try_acquire and wait_next trust is, at every interleaving   *)
(* of permits dropped, release tasks pending and waiters served, exactly   *)
(* the number of callers that own a slot, and that never passes max: no    *)
(* release is lost, none is counted twice.                                 *)
SlotsAccounted == active = Cardinality(Slots) /\ active <= MaxActive

(* The comment of wait_next, "Register the notified future BEFORE checking *)
(* state under the lock to avoid missed notifications": a caller that has  *)
(* decided to sleep and whose future nobody has woken has nothing to do,   *)
(* or a release that gave it something to do has still to notify.          *)
NoMissedNotification ==
    \A c \in Caller :
        phase[c] \in {"checked", "parked"} /\ c \notin notified =>
            \/ queue = <<>>
            \/ active >= MaxActive
            \/ \E d \in Caller : phase[d] = "notifying"

(* A queued dispatch, a free slot and a caller of wait_next do not stay    *)
(* next to each other: somebody takes the slot.                            *)
Serviceable == queue # <<>> /\ active < MaxActive /\ Registered # {}

WorkConserving == Serviceable ~> ~Serviceable

(* The pool implements the budget its name promises.                       *)
Budget == INSTANCE PermitBudget WITH slots <- Slots

KeepsBudget == Budget!Spec
=============================================================================
