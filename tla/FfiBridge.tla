------------------------------ MODULE FfiBridge ------------------------------
(***************************************************************************)
(* The handle Swift holds on the Rust side (pnevma-bridge/src/lib.rs):     *)
(* asynchronous calls, whose context Rust owns until it releases it, the   *)
(* callback for session output, and the destruction of the handle.         *)
(*                                                                         *)
(* Swift's side of the contract is PnevmaBridge.swift: no call begins once *)
(* destroy has begun, and pnevma_destroy waits for the calls being made    *)
(* (withLiveHandle, inflightFFI).  The tasks they started are not waited   *)
(* for.                                                                    *)
(***************************************************************************)
EXTENDS Naturals, FiniteSets

CONSTANTS
    AsyncCall,      \* calls of pnevma_call_async
    MaxSets         \* calls of pnevma_set_session_output_callback

ASSUME FfiAssumption == MaxSets \in Nat

VARIABLES
    (* asynchronous calls *)
    inflight,       \* the calls being submitted: Swift's inflightFFI
    stage,          \* of a call and its task: "idle", "entered", "running",
                    \* "taken", "calling", "called", "over"
    callbacks,      \* pending_async_callbacks
    called,         \* how often its callback was called
    freed,          \* how often its context was released
    (* destruction *)
    leaving,        \* PnevmaBridge.isDestroying
    shuttingDown,
    destroyer,      \* how far pnevma_destroy is
    drained,        \* callbacks it has still to release
    cancelled,      \* ghost: what was pending when the shutdown was marked
    (* session output *)
    sets,           \* registrations made
    setting,        \* the registration being made waits for the one before
    slot,           \* session_output_cb: a registration or 0
    retiring,       \* the registration taken out of the slot, waited for
    quiet,          \* registrations whose wait ended, other than by its limit
    loop,           \* of a registration's forward loop: "none", "seeking",
                    \* "listening", "holding", "over"
    holds,          \* the registration a loop has a snapshot of
    aborted         \* loops told to end

asyncVars == <<inflight, stage, callbacks, called, freed>>
endVars == <<leaving, shuttingDown, destroyer, drained, cancelled>>
registryVars == <<sets, setting, slot, retiring, quiet, aborted>>
forwardVars == <<loop, holds>>
ffiVars == <<asyncVars, endVars, registryVars, forwardVars>>

Registration == 1 .. MaxSets

-----------------------------------------------------------------------------
(* pnevma_call_async, within withLiveHandle.                               *)
Enter(c) ==
    /\ stage[c] = "idle" /\ ~leaving
    /\ stage' = [stage EXCEPT ![c] = "entered"]
    /\ inflight' = inflight \cup {c}
    /\ UNCHANGED <<callbacks, called, freed, endVars, registryVars, forwardVars>>

(* A bad method name or bad parameters, or a handle that is shutting down: *)
(* called back before the call returns.                                    *)
RefuseCall(c) ==
    /\ stage[c] = "entered"
    /\ called' = [called EXCEPT ![c] = @ + 1]
    /\ freed' = [freed EXCEPT ![c] = @ + 1]
    /\ stage' = [stage EXCEPT ![c] = "over"]
    /\ UNCHANGED <<inflight, callbacks, endVars, registryVars, forwardVars>>

InsertCallback(c) ==
    /\ stage[c] = "entered" /\ ~shuttingDown
    /\ callbacks' = callbacks \cup {c}
    /\ stage' = [stage EXCEPT ![c] = "running"]
    /\ UNCHANGED <<inflight, called, freed, endVars, registryVars, forwardVars>>

Return(c) ==
    /\ c \in inflight /\ stage[c] # "entered"
    /\ inflight' = inflight \ {c}
    /\ UNCHANGED <<stage, callbacks, called, freed, endVars, registryVars, forwardVars>>

\* slip: the callback is looked up and stays in the map
RemainingAll(c) == callbacks

(* finish_pending_async_callback, when the command is through or has       *)
(* panicked: the callback is removed under the lock...                     *)
Remaining(c) == callbacks \ {c}

Finish(c) ==
    /\ stage[c] = "running"
    /\ callbacks' = Remaining(c)
    /\ stage' = [stage EXCEPT ![c] = IF c \in callbacks THEN "taken" ELSE "over"]
    /\ UNCHANGED <<inflight, called, freed, endVars, registryVars, forwardVars>>

(* ...then the flag is read, and without the lock it is called or dropped. *)
Decide(c) ==
    /\ stage[c] = "taken"
    /\ IF shuttingDown
       THEN /\ stage' = [stage EXCEPT ![c] = "over"]
            /\ freed' = [freed EXCEPT ![c] = @ + 1]
       ELSE stage' = [stage EXCEPT ![c] = "calling"] /\ UNCHANGED freed
    /\ UNCHANGED <<inflight, callbacks, called, endVars, registryVars, forwardVars>>

CallBack(c) ==
    /\ stage[c] = "calling"
    /\ called' = [called EXCEPT ![c] = @ + 1]
    /\ stage' = [stage EXCEPT ![c] = "called"]
    /\ UNCHANGED <<inflight, callbacks, freed, endVars, registryVars, forwardVars>>

ReleaseContext(c) ==
    /\ stage[c] = "called"
    /\ freed' = [freed EXCEPT ![c] = @ + 1]
    /\ stage' = [stage EXCEPT ![c] = "over"]
    /\ UNCHANGED <<inflight, callbacks, called, endVars, registryVars, forwardVars>>

-----------------------------------------------------------------------------
(* pnevma_set_session_output_callback, made one at a time.  Both it and    *)
(* pnevma_destroy wait for the snapshots of the registration they took     *)
(* out, for five seconds at most.                                          *)
Held(x) == \E l \in Registration : loop[l] = "holding" /\ holds[l] = x

\* slip: the registration is given up without waiting for its snapshots
QuiescedAtOnce == TRUE

Quiesced == retiring = 0 \/ ~Held(retiring)

TakeSlot ==
    /\ retiring' = slot /\ slot' = 0
    /\ aborted' = {l \in Registration : loop[l] # "none"}

BeginSet ==
    /\ ~leaving /\ ~setting /\ sets < MaxSets
    /\ setting' = TRUE /\ sets' = sets + 1
    /\ TakeSlot
    /\ UNCHANGED <<quiet, asyncVars, endVars, forwardVars>>

(* The new loop is spawned by the call that put its registration.          *)
Put ==
    /\ setting' = FALSE /\ slot' = sets /\ retiring' = 0
    /\ loop' = [loop EXCEPT ![sets] = "seeking"]
    /\ UNCHANGED <<sets, aborted, holds, asyncVars, endVars>>

PutWhenQuiet == setting /\ Quiesced /\ quiet' = quiet \cup {retiring} /\ Put
PutAnyway == setting /\ ~Quiesced /\ Put /\ UNCHANGED quiet

(* session_output_forward_loop: finds the open project, hears its output,  *)
(* and calls whatever callback is registered at that moment.               *)
FindProject(l) ==
    /\ loop[l] = "seeking" /\ ~shuttingDown
    /\ loop' = [loop EXCEPT ![l] = "listening"]
    /\ UNCHANGED <<holds, asyncVars, endVars, registryVars>>

Snapshot(l) ==
    /\ loop[l] = "listening" /\ slot # 0
    /\ loop' = [loop EXCEPT ![l] = "holding"]
    /\ holds' = [holds EXCEPT ![l] = slot]
    /\ UNCHANGED <<asyncVars, endVars, registryVars>>

(* Output is published; the snapshot is dropped with the call.             *)
Invoked(l) ==
    /\ loop[l] = "holding"
    /\ loop' = [loop EXCEPT ![l] = "listening"]
    /\ UNCHANGED <<holds, asyncVars, endVars, registryVars>>

(* The project's sessions are gone.                                        *)
ChannelCloses(l) ==
    /\ loop[l] = "listening"
    /\ loop' = [loop EXCEPT ![l] = "seeking"]
    /\ UNCHANGED <<holds, asyncVars, endVars, registryVars>>

(* An abort, and the shutdown signal, take effect at the next await.       *)
LoopEnds(l) ==
    /\ loop[l] \in {"seeking", "listening"} /\ (l \in aborted \/ shuttingDown)
    /\ loop' = [loop EXCEPT ![l] = "over"]
    /\ UNCHANGED <<holds, asyncVars, endVars, registryVars>>

-----------------------------------------------------------------------------
(* PnevmaBridge.destroy and pnevma_destroy.                                *)
BeginDestroy ==
    /\ ~leaving /\ leaving' = TRUE
    /\ destroyer' = "waiting"
    /\ UNCHANGED <<shuttingDown, drained, cancelled, asyncVars, registryVars, forwardVars>>

Mark ==
    /\ destroyer = "waiting" /\ inflight = {} /\ ~setting
    /\ shuttingDown' = TRUE
    /\ cancelled' = callbacks
    /\ destroyer' = "marked"
    /\ UNCHANGED <<leaving, drained, asyncVars, registryVars, forwardVars>>

Clear ==
    /\ destroyer = "marked"
    /\ TakeSlot
    /\ destroyer' = "clearing"
    /\ UNCHANGED <<sets, setting, quiet, leaving, shuttingDown, drained, cancelled,
                   asyncVars, forwardVars>>

Cleared ==
    /\ destroyer = "clearing"
    /\ quiet' = IF Quiesced THEN quiet \cup {retiring} ELSE quiet
    /\ retiring' = 0
    /\ destroyer' = "draining"
    /\ UNCHANGED <<sets, setting, slot, aborted, leaving, shuttingDown, drained,
                   cancelled, asyncVars, forwardVars>>

Drain ==
    /\ destroyer = "draining"
    /\ drained' = callbacks /\ callbacks' = {}
    /\ destroyer' = "releasing"
    /\ UNCHANGED <<inflight, stage, called, freed, leaving, shuttingDown, cancelled,
                   registryVars, forwardVars>>

ReleaseDrained(c) ==
    /\ c \in drained
    /\ drained' = drained \ {c}
    /\ freed' = [freed EXCEPT ![c] = @ + 1]
    /\ UNCHANGED <<inflight, stage, callbacks, called, leaving, shuttingDown,
                   destroyer, cancelled, registryVars, forwardVars>>

(* The handle is given up, at the latest after five seconds.               *)
Destroyed ==
    /\ destroyer = "releasing" /\ drained = {}
    /\ destroyer' = "gone"
    /\ UNCHANGED <<leaving, shuttingDown, drained, cancelled, asyncVars, registryVars,
                   forwardVars>>

-----------------------------------------------------------------------------
FfiInit ==
    /\ inflight = {} /\ callbacks = {}
    /\ stage = [c \in AsyncCall |-> "idle"]
    /\ called = [c \in AsyncCall |-> 0] /\ freed = [c \in AsyncCall |-> 0]
    /\ leaving = FALSE /\ shuttingDown = FALSE /\ destroyer = "none"
    /\ drained = {} /\ cancelled = {}
    /\ sets = 0 /\ setting = FALSE /\ slot = 0 /\ retiring = 0
    /\ quiet = {} /\ aborted = {}
    /\ loop = [l \in Registration |-> "none"]
    /\ holds = [l \in Registration |-> 0]

AsyncStep(c) ==
    \/ Enter(c) \/ RefuseCall(c) \/ InsertCallback(c) \/ Return(c)
    \/ Finish(c) \/ Decide(c) \/ CallBack(c) \/ ReleaseContext(c)
    \/ ReleaseDrained(c)
LoopStep(l) ==
    FindProject(l) \/ Snapshot(l) \/ Invoked(l) \/ ChannelCloses(l) \/ LoopEnds(l)
EndStep == BeginDestroy \/ Mark \/ Clear \/ Cleared \/ Drain \/ Destroyed

FfiNext ==
    \/ \E c \in AsyncCall : AsyncStep(c)
    \/ \E l \in Registration : LoopStep(l)
    \/ BeginSet \/ PutWhenQuiet \/ PutAnyway
    \/ EndStep

FfiSpec == FfiInit /\ [][FfiNext]_ffiVars

-----------------------------------------------------------------------------
(* A context is released at most once, its callback called at most once    *)
(* and never after the release, whichever of the task, a refusal and the   *)
(* destruction comes first.                                                *)
ReleasedOnce ==
    \A c \in AsyncCall :
        /\ freed[c] <= 1 /\ called[c] <= 1
        /\ stage[c] \in {"calling", "called"} => freed[c] = 0

(* It is released for certain: when a task is over and the destruction has *)
(* nothing left to release, the context is free.                           *)
NoneLeaks ==
    /\ \A c \in AsyncCall :
         stage[c] = "over" /\ c \notin drained => freed[c] = 1
    /\ destroyer = "gone" => callbacks = {} /\ drained = {}

(* A call that was pending when the handle began to shut down is never     *)
(* called back.                                                            *)
CancelledIsSilent == \A c \in cancelled : called[c] = 0 /\ stage[c] # "calling"

(* A registration that was replaced, or whose handle was destroyed, is not *)
(* called any more once the wait for it has ended by itself.               *)
OldOutputQuiet == \A x \in quiet \ {0} : ~Held(x)

(* What Swift relies on when it hands its pointers to Rust.                *)
PointersKept == ReleasedOnce /\ NoneLeaks /\ CancelledIsSilent /\ OldOutputQuiet

(* What the code does not keep: "When shutting_down is true, the           *)
(* completion callback is never invoked" (lib.rs:137).                     *)
SilentAtShutdown == shuttingDown => \A c \in AsyncCall : stage[c] # "calling"

(* That one loop at a time forwards the output.                            *)
OneForwarder == Cardinality({l \in Registration : loop[l] = "holding"}) <= 1
=============================================================================
