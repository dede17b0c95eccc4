---------------------------- MODULE HelperSession ----------------------------
(***************************************************************************)
(* A session of the remote helper (pnevma-remote-helper/src/lib.rs): a     *)
(* directory whose files say what became of a runner process.  create,     *)
(* status and terminate are processes of their own, or threads of `serve`, *)
(* and share nothing but those files and process ids.                      *)
(*                                                                         *)
(* A runner's number is its process id and that of its child's group.  A   *)
(* session is called live here whether it is attached to or not.           *)
(***************************************************************************)
EXTENDS Naturals, FiniteSets

CONSTANTS
    Pid,         \* process ids runners ever get
    Creating,    \* calls of create_session
    Asking,      \* calls of session_status, the watcher's among them
    Ending,      \* calls of terminate_session
    Overlapping, \* whether a create or terminate may begin beside another one
    Unwritten,   \* whether session.json may fail to be written
    Dying,       \* whether a runner may be killed from outside
    Reusing,     \* whether the id of a dead runner may become another process's
    NoPid

ASSUME HelperAssumption == NoPid \notin Pid

VARIABLES
    runnerPid, childPid, exitCode, controlFifo,  \* the files of those names
    manifest,    \* whose start time session.json has, if it has one
    runner,      \* where each runner is
    foreign,     \* ids that are another process's by now
    hit,         \* of those, the ones terminate has killed
    creates, asks, ends,
    asked        \* a create ran beside a status

fileVars == <<runnerPid, childPid, exitCode, controlFifo, manifest>>
callVars == <<creates, asks, ends, asked>>
ids == <<runner, foreign, hit>>
helperVars == <<fileVars, callVars, ids>>

Over == {"none", "gone", "killed"}
AliveRunner(p) == runner[p] \notin Over
PidAlive(p) == p # NoPid /\ (AliveRunner(p) \/ p \in foreign)
Running == {p \in Pid : runner[p] \in {"started", "ready", "born", "up"}}
Moves(p, stage) == runner' = [runner EXCEPT ![p] = stage]

Unfinished(calls) == {c \in DOMAIN calls : calls[c].stage \notin {"idle", "end"}}
MayBegin == Overlapping \/ Unfinished(creates) \cup Unfinished(ends) = {}
NoCall == [stage |-> "idle", pid |-> NoPid, answer |-> "none"]

-----------------------------------------------------------------------------
(* run_session_runner                                                      *)

EnsureFifos(p) ==
    /\ runner[p] = "started" /\ Moves(p, "ready")
    /\ controlFifo' = TRUE
    /\ UNCHANGED <<callVars, runnerPid, childPid, exitCode, manifest, foreign,
                   hit>>

SpawnChild(p) ==
    /\ runner[p] = "ready" /\ Moves(p, "born")
    /\ UNCHANGED <<fileVars, callVars, foreign, hit>>

WriteChildPid(p) ==
    /\ runner[p] = "born" /\ Moves(p, "up")
    /\ childPid' = p
    /\ UNCHANGED <<callVars, runnerPid, exitCode, controlFifo, manifest,
                   foreign, hit>>

ChildExits(p) ==
    /\ runner[p] = "up" /\ Moves(p, "over")
    /\ UNCHANGED <<fileVars, callVars, foreign, hit>>

WriteExitCode(p) ==
    /\ runner[p] = "over" /\ Moves(p, "coded")
    /\ exitCode' = "real"
    /\ UNCHANGED <<callVars, runnerPid, childPid, controlFifo, manifest,
                   foreign, hit>>

(* An error before the child has been spawned.                             *)
RunnerFails(p) ==
    /\ runner[p] \in {"started", "ready"} /\ Moves(p, "coded")
    /\ exitCode' = "real"
    /\ UNCHANGED <<callVars, runnerPid, childPid, controlFifo, manifest,
                   foreign, hit>>

RemoveChildPid(p) ==
    /\ runner[p] = "coded" /\ Moves(p, "childless")
    /\ childPid' = NoPid
    /\ UNCHANGED <<callVars, runnerPid, exitCode, controlFifo, manifest,
                   foreign, hit>>

RemoveRunnerPid(p) ==
    /\ runner[p] = "childless" /\ Moves(p, "nameless")
    /\ runnerPid' = NoPid
    /\ UNCHANGED <<callVars, childPid, exitCode, controlFifo, manifest,
                   foreign, hit>>

(* The control fifo goes last, when another runner may have come.          *)
RemoveControl(p) ==
    /\ runner[p] = "nameless" /\ Moves(p, "gone")
    /\ controlFifo' = FALSE
    /\ UNCHANGED <<callVars, runnerPid, childPid, exitCode, manifest, foreign,
                   hit>>

(* SIGKILL, or the host restarts: nothing is written.                      *)
RunnerDies(p) ==
    /\ Dying /\ AliveRunner(p) /\ Moves(p, "killed")
    /\ UNCHANGED <<fileVars, callVars, foreign, hit>>

ReusePid(p) ==
    /\ Reusing /\ runner[p] \in {"gone", "killed"} /\ p \notin foreign
    /\ foreign' = foreign \cup {p}
    /\ UNCHANGED <<fileVars, callVars, runner, hit>>

-----------------------------------------------------------------------------
(* create_session                                                          *)

BeginCreate(c) ==
    /\ creates[c].stage = "idle"
    /\ creates' = [creates EXCEPT ![c].stage = "begun"]
    /\ MayBegin
    /\ asked' = (asked \/ Unfinished(asks) # {})
    /\ UNCHANGED <<fileVars, ids, asks, ends>>

\* slip: a runner that is there already is not looked for
NeverLook(c) ==
    /\ creates[c].stage = "begun"
    /\ creates' = [creates EXCEPT ![c].stage = "clearing"]
    /\ UNCHANGED <<fileVars, ids, asks, ends, asked>>

(* The runner's file is removed if nothing has that id, and read.          *)
LookForRunner(c) ==
    /\ creates[c].stage = "begun"
    /\ IF PidAlive(runnerPid)
       THEN /\ creates' = [creates EXCEPT ![c] = [@ EXCEPT !.stage = "end", !.answer = "existing"]]
            /\ UNCHANGED runnerPid
       ELSE /\ creates' = [creates EXCEPT ![c].stage = "clearing"]
            /\ runnerPid' = NoPid
    /\ UNCHANGED <<ids, childPid, exitCode, controlFifo, manifest, asks, ends,
                   asked>>

ClearOldRun(c) ==
    /\ creates[c].stage = "clearing"
    /\ creates' = [creates EXCEPT ![c].stage = "cleared"]
    /\ exitCode' = "none" /\ childPid' = NoPid
    /\ UNCHANGED <<ids, runnerPid, controlFifo, manifest, asks, ends, asked>>

SpawnRunner(c) ==
    /\ creates[c].stage = "cleared"
    /\ \E p \in Pid :
          /\ runner[p] = "none" /\ Moves(p, "started")
          /\ creates' = [creates EXCEPT ![c] = [@ EXCEPT !.stage = "spawned", !.pid = p]]
    /\ UNCHANGED <<fileVars, asks, ends, asked, foreign, hit>>

WriteRunnerPid(c) ==
    /\ creates[c].stage = "spawned"
    /\ creates' = [creates EXCEPT ![c].stage = "named"]
    /\ runnerPid' = creates[c].pid
    /\ UNCHANGED <<ids, childPid, exitCode, controlFifo, manifest, asks, ends,
                   asked>>

(* The start time is that of whatever has the id when it is looked up; the *)
(* session is created also when the manifest could not be written.         *)
\* slip: the manifest of an earlier run is kept
KeepManifest(c) ==
    LET p == creates[c].pid
    IN  /\ creates[c].stage = "named"
        /\ creates' = [creates EXCEPT ![c] = [@ EXCEPT !.stage = "end", !.answer = "detached"]]
        /\ manifest' = IF manifest # NoPid THEN manifest ELSE IF AliveRunner(p) THEN p ELSE NoPid
        /\ UNCHANGED <<ids, runnerPid, childPid, exitCode, controlFifo, asks,
                       ends, asked>>

WriteManifest(c) ==
    LET p == creates[c].pid
    IN  /\ creates[c].stage = "named"
        /\ creates' = [creates EXCEPT ![c] = [@ EXCEPT !.stage = "end", !.answer = "detached"]]
        /\ \/ manifest' = IF AliveRunner(p) THEN p ELSE NoPid
           \/ Unwritten /\ UNCHANGED manifest
        /\ UNCHANGED <<ids, runnerPid, childPid, exitCode, controlFifo, asks,
                       ends, asked>>

-----------------------------------------------------------------------------
(* session_status                                                          *)

(* Files of dead processes are removed, and the runner's is read.          *)
ReadFiles(q) ==
    /\ asks[q].stage = "idle" /\ creates # [c \in Creating |-> NoCall]
    /\ runnerPid' = IF PidAlive(runnerPid) THEN runnerPid ELSE NoPid
    /\ asks' = [asks EXCEPT ![q] =
          [stage |-> "read", pid |-> runnerPid', answer |-> "none"]]
    /\ asked' = (asked \/ Unfinished(creates) # {})
    /\ UNCHANGED <<ids, childPid, exitCode, controlFifo, manifest, creates,
                   ends>>

\* slip: that something has the id is enough
AnyProcess(p) == PidAlive(p)

(* pid_is_same_process: a start time that was not found proves nothing.    *)
SameProcess(p) == PidAlive(p) /\ (manifest # NoPid => manifest = p /\ p \notin foreign)

\* slip: an exit code that is there is not looked for
JudgeUnread(q) ==
    /\ asks[q].stage = "read"
    /\ asks' = [asks EXCEPT ![q] =
          IF SameProcess(asks[q].pid) THEN [@ EXCEPT !.stage = "end", !.answer = "live"]
          ELSE [@ EXCEPT !.stage = "repairing"]]
    /\ UNCHANGED <<fileVars, ids, creates, ends, asked>>

Judge(q) ==
    /\ asks[q].stage = "read"
    /\ asks' = [asks EXCEPT ![q] =
          IF SameProcess(asks[q].pid) THEN [@ EXCEPT !.stage = "end", !.answer = "live"]
          ELSE IF exitCode # "none" THEN [@ EXCEPT !.stage = "end", !.answer = "exited"]
          ELSE [@ EXCEPT !.stage = "repairing"]]
    /\ UNCHANGED <<fileVars, ids, creates, ends, asked>>

(* "Auto-repair": a run that left no exit code has exited with -1.         *)
Repair(q) ==
    /\ asks[q].stage = "repairing"
    /\ exitCode' = "synthetic"
    /\ asks' = [asks EXCEPT ![q] = [@ EXCEPT !.stage = "end", !.answer = "exited"]]
    /\ UNCHANGED <<ids, runnerPid, childPid, controlFifo, manifest, creates,
                   ends, asked>>

-----------------------------------------------------------------------------
(* terminate_session                                                       *)

BeginEnd(t) ==
    /\ ends[t].stage = "idle"
    /\ ends' = [ends EXCEPT ![t].pid = childPid,
                            ![t].stage = IF PidAlive(childPid) THEN "child" ELSE "runner"]
    /\ MayBegin
    /\ UNCHANGED <<fileVars, ids, creates, asks, asked>>

(* TERM, and KILL a second later, to the child's process group; when there *)
(* is none any more, that is the end of the call.                          *)
KillChild(t) ==
    LET p == ends[t].pid
    IN  /\ ends[t].stage = "child"
        /\ IF runner[p] = "up" THEN Moves(p, "over") ELSE UNCHANGED runner
        /\ hit' = hit \cup ({p} \cap foreign)
        /\ ends' = [ends EXCEPT ![t].stage = IF runner[p] = "up" \/ p \in foreign THEN "runner" ELSE "end"]
        /\ UNCHANGED <<fileVars, creates, asks, asked, foreign>>

KillRunner(t) ==
    /\ ends[t].stage = "runner"
    /\ ends' = [ends EXCEPT ![t].stage = "killed"]
    /\ IF runnerPid # NoPid /\ AliveRunner(runnerPid) THEN Moves(runnerPid, "killed") ELSE UNCHANGED runner
    /\ hit' = hit \cup ({runnerPid} \cap foreign)
    /\ UNCHANGED <<fileVars, creates, asks, asked, foreign>>

RemoveFiles(t) ==
    /\ ends[t].stage = "killed"
    /\ ends' = [ends EXCEPT ![t].stage = "end"]
    /\ runnerPid' = NoPid /\ childPid' = NoPid /\ controlFifo' = FALSE
    /\ UNCHANGED <<ids, exitCode, manifest, creates, asks, asked>>

-----------------------------------------------------------------------------
HelperInit ==
    /\ runnerPid = NoPid /\ childPid = NoPid /\ exitCode = "none" /\ controlFifo = FALSE
    /\ manifest = NoPid
    /\ runner = [p \in Pid |-> "none"] /\ foreign = {} /\ hit = {}
    /\ creates = [c \in Creating |-> NoCall] /\ asks = [q \in Asking |-> NoCall]
    /\ ends = [t \in Ending |-> NoCall] /\ asked = FALSE

RunnerStep(p) ==
    \/ EnsureFifos(p) \/ SpawnChild(p) \/ WriteChildPid(p) \/ ChildExits(p) \/ WriteExitCode(p)
    \/ RunnerFails(p) \/ RemoveChildPid(p) \/ RemoveRunnerPid(p) \/ RemoveControl(p)
CreateStep(c) ==
    \/ BeginCreate(c) \/ LookForRunner(c) \/ ClearOldRun(c) \/ SpawnRunner(c) \/ WriteRunnerPid(c)
    \/ WriteManifest(c)

HelperNext ==
    \/ \E p \in Pid : RunnerStep(p) \/ RunnerDies(p) \/ ReusePid(p)
    \/ \E c \in Creating : CreateStep(c)
    \/ \E q \in Asking : ReadFiles(q) \/ Judge(q) \/ Repair(q)
    \/ \E t \in Ending : BeginEnd(t) \/ KillChild(t) \/ KillRunner(t) \/ RemoveFiles(t)

HelperSpec == HelperInit /\ [][HelperNext]_helperVars

-----------------------------------------------------------------------------
(* A session has one runner at a time, whose id is in the file by which it *)
(* is found and ended, when no call is about to create or end it.          *)
OneRunner ==
    /\ Cardinality(Running) <= 1
    /\ Unfinished(creates) \cup Unfinished(ends) = {} => Running \subseteq {runnerPid}

(* A status that does not overlap a create says "exited" of no session     *)
(* that runs: neither the file of another run nor a run that is just       *)
(* ending misleads it.                                                     *)
ExitedHasExited ==
    [][\A q \in Asking :
          Judge(q) /\ ~asked /\ asks'[q].answer # "live" => Running = {}]_helperVars

(* A foreign process with the runner's id is not taken for it, when the    *)
(* start time of the runner is known.                                      *)
LiveIsOurs ==
    [][\A q \in Asking :
          Judge(q) /\ asks[q].pid = manifest /\ asks'[q].answer = "live" =>
              AliveRunner(asks[q].pid)]_helperVars

(* The code a run really ended with is not replaced by the made-up one,    *)
(* unless a status overlaps a create.                                      *)
RealCodeKept ==
    [][exitCode = "real" /\ exitCode' = "synthetic" => asked]_helperVars

(* What a status says, and leaves in the files, is true of the session.    *)
StatusTrue == ExitedHasExited /\ LiveIsOurs /\ RealCodeKept

(* A session has one runner, and what is said of it was true               *)
(* (create_session, session_status).                                       *)
HelperKept == []OneRunner /\ StatusTrue

(* What the code does not keep: a session that runs, or was just created,  *)
(* is never said to have exited.                                           *)
NeverMisreported ==
    \A q \in Asking : asks[q].stage = "repairing" => Running = {}

(* That a running session can be resized: its control fifo is there.       *)
ControlKept ==
    \A p \in Running : runner[p] # "started" => controlFifo

(* That terminate kills only what the helper has started.                  *)
OnlyOursKilled == hit = {}
=============================================================================
