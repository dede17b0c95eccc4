-------------------------- MODULE ProjectLifecycle ---------------------------
(***************************************************************************)
(* Opening and closing the project of one workspace, from the Swift side   *)
(* (WorkspaceManager, WorkspaceRuntime) over the bridge (pnevma-bridge) to *)
(* the commands (commands/project/mod.rs): the open project, its runtime   *)
(* tasks, and the two servers that are started for it in the background.   *)
(*                                                                         *)
(* The k-th project.open of the workspace is numbered k.  Calls run side   *)
(* by side: cancelling the Swift task of an open does not stop the open.   *)
(* A step is what happens between two awaits.                              *)
(***************************************************************************)
EXTENDS Naturals, FiniteSets

CONSTANTS
    MaxOpens,      \* project.open calls made
    MayFail        \* whether an open may fail

ASSUME LifecycleAssumption == MaxOpens \in Nat /\ MayFail \in BOOLEAN

VARIABLES
    (* Swift *)
    face,          \* WorkspaceRuntime.state: "closed", "opening", "open", "failed", "gone"
    issued,        \* opens made so far; the newest is the workspace's generation
    heard,         \* the opens Swift has an answer to
    destroyed,     \* pnevma_destroy was called
    (* AppState *)
    current,       \* whose context is the open project, or 0
    runtimeSlot,   \* AppState.current_runtime: whose tasks, or 0
    runtimes,      \* whose session bridge, health refresh and coordinator run
    controlSlot,   \* AppState.control_plane: the generation stored, or 0
    remoteSlot,    \* AppState.remote_handle
    generation,    \* project_service_generation
    (* the servers, by generation *)
    control,       \* "none", "bound", "ending", "over"
    remote,
    socket,        \* whose socket is at the project's path, or 0
    port,          \* who listens on the remote port, or 0
    (* calls and tasks *)
    proc,          \* where each is, the control plane whose end it waits for,
                   \* and whether it found a file at the path
    overlapped     \* ghost: two of the calls were under way at once

faceVars == <<face, issued, heard, destroyed, overlapped>>
stateVars == <<current, runtimeSlot, runtimes>>
controls == <<controlSlot, control, socket>>
remotes == <<remoteSlot, remote, port>>
lifeVars == <<faceVars, stateVars, controls, remotes, generation, proc>>

Opens == 1 .. MaxOpens
Gen == 1 .. MaxOpens + 1
OpenOf(k) == <<"open", k>>
SyncOf(g) == <<"sync", g>>
Close == <<"close", 1>>
Proc == {"open", "sync"} \X Gen \cup {Close}

Is(p, places) == proc[p].at \in places
Go(p, place) == proc' = [proc EXCEPT ![p].at = place]
Opening == {k \in Opens : ~Is(OpenOf(k), {"none", "done", "failed"})}
Closing == ~Is(Close, {"none", "done"})

-----------------------------------------------------------------------------
(* The servers.  A handle that is shut down, or dropped, tells its task to *)
(* end; the task of the control plane then removes whatever file is at the *)
(* path.                                                                   *)
Told(server, g) == IF g = 0 THEN server ELSE [server EXCEPT ![g] = "ending"]

EndControl(g) ==
    /\ control[g] = "ending"
    /\ control' = [control EXCEPT ![g] = "over"]
    /\ socket' = 0
    /\ UNCHANGED <<faceVars, stateVars, controlSlot, remotes, generation, proc>>

EndRemote(g) ==
    /\ remote[g] = "ending"
    /\ remote' = [remote EXCEPT ![g] = "over"]
    /\ port' = IF port = g THEN 0 ELSE port
    /\ UNCHANGED <<faceVars, stateVars, controls, remoteSlot, generation, proc>>

(* stop_control_plane, stop_control_plane_server: takes the handle and     *)
(* waits for its task...                                                   *)
TakeControl(p, place) ==
    /\ controlSlot' = 0
    /\ control' = Told(control, controlSlot)
    /\ proc' = [proc EXCEPT ![p].at = place, ![p].waits = controlSlot]
Joined(p) == proc[p].waits \in Gen => control[proc[p].waits] = "over"

(* ...which stop_remote_server does not.                                   *)
TakeRemote == remoteSlot' = 0 /\ remote' = Told(remote, remoteSlot)

-----------------------------------------------------------------------------
(* Swift: WorkspaceManager.bootstrapRuntime, also to reopen by force.      *)
BeginOpen ==
    /\ face # "gone" /\ issued < MaxOpens
    /\ issued' = issued + 1
    /\ face' = "opening"
    /\ Go(OpenOf(issued + 1), "stop")
    /\ overlapped' = (overlapped \/ Opening # {} \/ Closing)
    /\ UNCHANGED <<heard, destroyed, stateVars, controls, remotes, generation>>

(* The answer counts when no newer open has been made.  CommandBus waits   *)
(* 30 seconds for it; the open goes on after that.                         *)
Hear(k, state) ==
    /\ k <= issued /\ k \notin heard
    /\ heard' = heard \cup {k}
    /\ face' = IF k # issued \/ face = "gone" THEN face ELSE state
    /\ UNCHANGED <<issued, destroyed, overlapped, stateVars, controls, remotes, generation, proc>>

HearAnswer(k) ==
    \/ Is(OpenOf(k), {"done"}) /\ ~destroyed /\ Hear(k, "open")
    \/ Is(OpenOf(k), {"failed"}) /\ ~destroyed /\ Hear(k, "failed")
StopWaiting(k) == Hear(k, "failed")

(* teardownRuntime: project.close only when the runtime says it is open.   *)
Teardown ==
    /\ face # "gone"
    /\ face' = "gone"
    /\ IF face = "open"
       THEN Go(Close, "take") /\ overlapped' = (overlapped \/ Opening # {})
       ELSE UNCHANGED <<proc, overlapped>>
    /\ UNCHANGED <<issued, heard, destroyed, stateVars, controls, remotes, generation>>

(* PnevmaBridge.destroy, once the close has been answered.  What runs in   *)
(* the shared runtime goes on.                                             *)
Destroy ==
    /\ face = "gone" /\ ~Closing /\ ~destroyed
    /\ destroyed' = TRUE
    /\ UNCHANGED <<face, issued, heard, overlapped, stateVars, controls, remotes, generation, proc>>

-----------------------------------------------------------------------------
(* open_project.  What comes before restart_control_plane changes nothing  *)
(* here; a failure there, or of the settings after the stop, is an error.  *)
OpenStops(k) ==
    /\ Is(OpenOf(k), {"stop"})
    /\ TakeControl(OpenOf(k), "stopping")
    /\ UNCHANGED <<faceVars, stateVars, socket, remotes, generation>>

OpenErrs(k) ==
    /\ MayFail
    /\ Is(OpenOf(k), {"stop"}) \/ (Is(OpenOf(k), {"stopping"}) /\ Joined(OpenOf(k)))
    /\ Go(OpenOf(k), "failed")
    /\ UNCHANGED <<faceVars, stateVars, controls, remotes, generation>>

(* abort_project_runtime                                                   *)
AbortRuntime ==
    /\ runtimes' = runtimes \ {runtimeSlot}
    /\ runtimeSlot' = 0

OpenAborts(k) ==
    /\ Is(OpenOf(k), {"stopping"}) /\ Joined(OpenOf(k))
    /\ AbortRuntime
    /\ Go(OpenOf(k), "replace")
    /\ UNCHANGED <<faceVars, current, controls, remotes, generation>>

Replace(k) ==
    /\ Is(OpenOf(k), {"replace"})
    /\ current' = k
    /\ Go(OpenOf(k), "install")
    /\ UNCHANGED <<faceVars, runtimeSlot, runtimes, controls, remotes, generation>>

(* install_project_runtime: a runtime that is already in the slot is       *)
(* dropped, which does not stop its tasks.                                 *)
Install(k) ==
    /\ Is(OpenOf(k), {"install"})
    /\ runtimes' = runtimes \cup {k}
    /\ runtimeSlot' = k
    /\ Go(OpenOf(k), "opened")
    /\ UNCHANGED <<faceVars, current, controls, remotes, generation>>

(* The bridge, when the open has succeeded: the answer does not wait for   *)
(* the servers.                                                            *)
Opened(k) ==
    /\ Is(OpenOf(k), {"opened"})
    /\ generation' = generation + 1
    /\ proc' = [proc EXCEPT ![OpenOf(k)].at = "done", ![SyncOf(generation + 1)].at = "spawned"]
    /\ UNCHANGED <<faceVars, stateVars, controls, remotes>>

-----------------------------------------------------------------------------
(* close_project_with_mode                                                 *)
CloseTakes ==
    /\ Is(Close, {"take"})
    /\ current' = 0
    /\ Go(Close, IF current = 0 THEN "stop" ELSE "abort")
    /\ UNCHANGED <<faceVars, runtimeSlot, runtimes, controls, remotes, generation>>

CloseAborts ==
    /\ Is(Close, {"abort"})
    /\ AbortRuntime
    /\ Go(Close, "stop")
    /\ UNCHANGED <<faceVars, current, controls, remotes, generation>>

(* Once in the command and, under a new generation, once in the bridge.    *)
CloseStops ==
    /\ Is(Close, {"stop", "stop again"})
    /\ TakeControl(Close, IF Is(Close, {"stop"}) THEN "bump" ELSE "stop remote")
    /\ UNCHANGED <<faceVars, stateVars, socket, remotes, generation>>

Bump ==
    /\ Is(Close, {"bump"}) /\ Joined(Close)
    /\ generation' = generation + 1
    /\ Go(Close, "stop again")
    /\ UNCHANGED <<faceVars, stateVars, controls, remotes>>

CloseStopsRemote ==
    /\ Is(Close, {"stop remote"}) /\ Joined(Close)
    /\ TakeRemote
    /\ Go(Close, "done")
    /\ UNCHANGED <<faceVars, stateVars, controls, port, generation>>

-----------------------------------------------------------------------------
(* sync_project_services, for generation g.                                *)

\* slip: what was started is not looked at again once it is stored
NewestAtStart(g) == generation = g \/ Is(SyncOf(g), {"stored", "remote stored"})

(* project_service_generation_is_current                                   *)
Newest(g) == generation = g

SyncBegins(g) ==
    /\ Is(SyncOf(g), {"spawned"})
    /\ Go(SyncOf(g), IF Newest(g) /\ current # 0 THEN "stop" ELSE "done")
    /\ UNCHANGED <<faceVars, stateVars, controls, remotes, generation>>

SyncStops(g) ==
    /\ Is(SyncOf(g), {"stop"})
    /\ TakeControl(SyncOf(g), "stop remote")
    /\ UNCHANGED <<faceVars, stateVars, socket, remotes, generation>>

SyncStopsRemote(g) ==
    /\ Is(SyncOf(g), {"stop remote"}) /\ Joined(SyncOf(g))
    /\ TakeRemote
    /\ Go(SyncOf(g), IF Newest(g) THEN "look" ELSE "done")
    /\ UNCHANGED <<faceVars, stateVars, controls, port, generation>>

(* start_control_plane: a file at the path is removed before the bind; it  *)
(* fails when one has come or gone in between.                             *)
Look(g) ==
    /\ Is(SyncOf(g), {"look"})
    /\ proc' = [proc EXCEPT ![SyncOf(g)].at = "bind", ![SyncOf(g)].saw = socket # 0]
    /\ UNCHANGED <<faceVars, stateVars, controls, remotes, generation>>

Bind(g) ==
    /\ Is(SyncOf(g), {"bind"})
    /\ IF proc[SyncOf(g)].saw = (socket # 0)
       THEN /\ socket' = g /\ control' = [control EXCEPT ![g] = "bound"]
            /\ Go(SyncOf(g), "bound")
       ELSE Go(SyncOf(g), "done") /\ UNCHANGED <<control, socket>>
    /\ UNCHANGED <<faceVars, stateVars, controlSlot, remotes, generation>>

Keep(g) ==
    /\ Is(SyncOf(g), {"bound"})
    /\ IF Newest(g) THEN Go(SyncOf(g), "store") /\ UNCHANGED control
       ELSE Go(SyncOf(g), "done") /\ control' = Told(control, g)
    /\ UNCHANGED <<faceVars, stateVars, controlSlot, socket, remotes, generation>>

(* The handle in the slot, if any, is dropped: its server ends on its own. *)
Store(g) ==
    /\ Is(SyncOf(g), {"store"})
    /\ controlSlot' = g
    /\ control' = Told(control, controlSlot)
    /\ Go(SyncOf(g), "stored")
    /\ UNCHANGED <<faceVars, stateVars, socket, remotes, generation>>

(* Once stored it is taken out again, if it is still there, when the       *)
(* generation has changed.                                                 *)
Stored(g) ==
    /\ Is(SyncOf(g), {"stored"})
    /\ IF ~Newest(g) /\ controlSlot = g THEN TakeControl(SyncOf(g), "done")
       ELSE Go(SyncOf(g), IF Newest(g) THEN "read" ELSE "done") /\ UNCHANGED <<controlSlot, control>>
    /\ UNCHANGED <<faceVars, stateVars, socket, remotes, generation>>

(* maybe_start_remote: no server when no project is open, or the port is   *)
(* taken, which is no error.                                               *)
ReadRemote(g) ==
    /\ Is(SyncOf(g), {"read"})
    /\ Go(SyncOf(g), IF current = 0 THEN "remote bound" ELSE "bind remote")
    /\ UNCHANGED <<faceVars, stateVars, controls, remotes, generation>>

BindRemote(g) ==
    /\ Is(SyncOf(g), {"bind remote"})
    /\ IF port = 0 THEN port' = g /\ remote' = [remote EXCEPT ![g] = "bound"]
       ELSE UNCHANGED <<port, remote>>
    /\ Go(SyncOf(g), "remote bound")
    /\ UNCHANGED <<faceVars, stateVars, controls, remoteSlot, generation>>

Has(g) == IF remote[g] = "bound" THEN g ELSE 0
KeepRemote(g) ==
    /\ Is(SyncOf(g), {"remote bound"})
    /\ IF Newest(g) THEN Go(SyncOf(g), "store remote") /\ UNCHANGED remote
       ELSE Go(SyncOf(g), "done") /\ remote' = Told(remote, Has(g))
    /\ UNCHANGED <<faceVars, stateVars, controls, remoteSlot, port, generation>>

StoreRemote(g) ==
    /\ Is(SyncOf(g), {"store remote"})
    /\ remoteSlot' = Has(g)
    /\ remote' = Told(remote, remoteSlot)
    /\ Go(SyncOf(g), "remote stored")
    /\ UNCHANGED <<faceVars, stateVars, controls, port, generation>>

RemoteStored(g) ==
    /\ Is(SyncOf(g), {"remote stored"})
    /\ IF ~Newest(g) /\ remoteSlot = g THEN TakeRemote ELSE UNCHANGED <<remoteSlot, remote>>
    /\ Go(SyncOf(g), "done")
    /\ UNCHANGED <<faceVars, stateVars, controls, port, generation>>

-----------------------------------------------------------------------------
LifeInit ==
    /\ face = "closed" /\ issued = 0 /\ heard = {} /\ destroyed = FALSE /\ overlapped = FALSE
    /\ current = 0 /\ runtimeSlot = 0 /\ runtimes = {}
    /\ controlSlot = 0 /\ remoteSlot = 0 /\ generation = 0
    /\ control = [g \in Gen |-> "none"] /\ remote = [g \in Gen |-> "none"]
    /\ socket = 0 /\ port = 0
    /\ proc = [p \in Proc |-> [at |-> "none", waits |-> 0, saw |-> FALSE]]

OpenStep(k) ==
    OpenStops(k) \/ OpenErrs(k) \/ OpenAborts(k) \/ Replace(k) \/ Install(k) \/ Opened(k)
    \/ HearAnswer(k) \/ StopWaiting(k)
CloseStep == CloseTakes \/ CloseAborts \/ CloseStops \/ Bump \/ CloseStopsRemote
SyncStep(g) ==
    \/ SyncBegins(g) \/ SyncStops(g) \/ SyncStopsRemote(g)
    \/ Look(g) \/ Bind(g) \/ Keep(g) \/ Store(g) \/ Stored(g)
    \/ ReadRemote(g) \/ BindRemote(g) \/ KeepRemote(g) \/ StoreRemote(g) \/ RemoteStored(g)

LifeNext ==
    \/ BeginOpen \/ Teardown \/ Destroy
    \/ \E k \in Opens : OpenStep(k)
    \/ CloseStep
    \/ \E g \in Gen : SyncStep(g) \/ EndControl(g) \/ EndRemote(g)

LifeSpec == LifeInit /\ [][LifeNext]_lifeVars

-----------------------------------------------------------------------------
Serving(server) == {g \in Gen : server[g] = "bound"}
Settled ==
    /\ Opening = {} /\ ~Closing
    /\ \A g \in Gen : Is(SyncOf(g), {"none", "done"}) /\ "ending" \notin {control[g], remote[g]}

(* When all calls and background tasks are over no server of an earlier    *)
(* opening serves on: those that run are the ones in the slots, started    *)
(* for the newest generation, however openings, the closing and the tasks  *)
(* that start servers interleave.                                          *)
NoStaleServer ==
    Settled => /\ Serving(control) = {controlSlot} \ {0}
               /\ Serving(remote) = {remoteSlot} \ {0}
               /\ {controlSlot, remoteSlot} \subseteq {0, generation}

(* The open project has its session bridge, health refresh and coordinator *)
(* also when several openings of it were under way, if none was closing.   *)
CurrentHasRuntime ==
    Settled /\ current # 0 /\ Is(Close, {"none"}) => current \in runtimes

(* A workspace that was open, and whose closing overlapped no opening, has *)
(* left nothing running, also when its servers were just being started.    *)
ClosedIsQuiet ==
    Settled /\ Is(Close, {"done"}) /\ ~overlapped =>
        /\ current = 0 /\ runtimes = {}
        /\ controlSlot = 0 /\ remoteSlot = 0

(* What opening and closing leave behind.                                  *)
ServicesFollowProject == NoStaleServer /\ CurrentHasRuntime /\ ClosedIsQuiet

(* What the code does not keep: one runtime at a time.                     *)
OneRuntime == Settled => Cardinality(runtimes) <= 1

(* That the control plane of the newest opening can be reached.            *)
ControlReachable == Settled => socket = controlSlot

(* That a workspace that is gone leaves nothing running.                   *)
GoneIsQuiet == Settled /\ destroyed => runtimes = {} /\ current = 0
=============================================================================
