-------------------------- MODULE SessionSupervisor --------------------------
(***************************************************************************)
(* Terminal sessions: the SessionSupervisor of pnevma-session over the     *)
(* LocalDurable backend open_project builds it with, the health ticker,    *)
(* the command handlers that create, reattach, feed and kill a session,    *)
(* and the bridge that turns the supervisor's events into session rows.    *)
(*                                                                         *)
(* A session's shell runs under a helper process of its own, the runner;   *)
(* the supervisor talks to it through a client, a child process that       *)
(* copies its stdin to the runner and the runner's log to its stdout.  The *)
(* client lives until its stdin is closed or the runner refuses its bytes: *)
(* the end of the runner alone does not end it.                            *)
(*                                                                         *)
(* A caller is one call of a command; it makes at most one client, so that *)
(* the client carries the caller's name.  Steps are the code between two   *)
(* points where a lock of the supervisor is taken or an await may yield.   *)
(***************************************************************************)
EXTENDS Naturals, Sequences, FiniteSets

CONSTANTS
    Session,      \* session ids
    Restored,     \* those the database had as waiting when the project opened
    Caller,       \* command invocations
    Ops,          \* [Caller -> SUBSET Op]: what each of them may be
    Overlap,      \* whether a reattach or a kill may begin while a client is wired
    Faults,       \* kinds of failure that may happen
    MaxSessions,  \* SessionSupervisor::max_sessions
    MaxEvents,    \* capacity of the broadcast channel
    MaxChunks,    \* bound: chunks of output
    None          \* no session, no client, no row

Op == {"spawn", "attach", "input", "kill"}

ASSUME SessionAssumption ==
    /\ IsFiniteSet(Session) /\ Restored \subseteq Session
    /\ Ops \in [Caller -> SUBSET Op]
    /\ Overlap \in BOOLEAN
    /\ MaxSessions \in Nat /\ MaxEvents \in Nat /\ MaxChunks \in Nat
    /\ None \notin Session \cup Caller

VARIABLES
    meta,      \* sessions: status and health of every session it knows
    pulse,     \* atomic_states: health, and the age of last_heartbeat
    inputs,    \* inputs: the client whose stdin a session's input goes to
    runner,    \* the helper process of each session
    client,    \* the client each caller made, and its exit task
    call,      \* where each caller stands
    suspects,  \* sessions refresh_health has still to re-examine
    events,    \* the bridge's receiver
    bridge,    \* whether spawn_session_bridge still runs
    pending,   \* the row it is about to upsert
    rows,      \* sessions.status in the database
    chunks     \* chunks of output so far

memory == <<meta, pulse, inputs>>
procs == <<runner, client>>
feed == <<events, bridge>>
store == <<pending, rows>>
vars == <<memory, procs, call, suspects, feed, store, chunks>>

Status == {"Running", "Waiting", "Complete"}
Health == {"Active", "Idle", "Stuck", "Waiting", "Complete"}
Age == {"fresh", "idle", "stuck"}    \* below idle_after, stuck_after, beyond

Absent == [status |-> "absent", health |-> "absent"]
NoPulse == [age |-> "none", health |-> "none"]
Meta == [status : Status, health : Health]
Pulse == [age : Age, health : Health]

Idle == [phase |-> "idle", op |-> "none", session |-> None, read |-> "none"]
Phase == {"creating", "attaching", "wiring", "wired", "opening", "announcing",
          "storing", "sending", "touched", "terminated", "done"}
Invocation == [phase : Phase, op : Op, session : Session, read : Status \cup {"none"}]
Event == [kind : {"Spawned", "Changed"}, session : Session]
Nothing == [session |-> None, status |-> "none"]    \* no row to upsert

(* A client: not made, running, gone with its exit task still to ask the   *)
(* backend, its exit task with the answer, and with the session written.   *)
ClientState == {"none", "attached", "exited", "alive", "gone", "recorded"}

At(c, p) == call[c].phase = p
Target(c) == call[c].session
Goto(c, p) == call' = [call EXCEPT ![c].phase = p]
Begin(c, o, s, p) ==
    call' = [call EXCEPT ![c] = [phase |-> p, op |-> o, session |-> s, read |-> "none"]]
Calls(c, o) == call[c] = Idle /\ o \in Ops[c]

Live(s) == meta[s].status \in {"Running", "Waiting"}
SetMeta(s, st, h) == meta' = [meta EXCEPT ![s] = [status |-> st, health |-> h]]

(* broadcast::send.  A receiver more than a channel's capacity behind gets *)
(* an error from recv, and "while let Ok" is over.                         *)
Publish(kind, s) ==
    IF bridge = "ended" \/ Len(events) >= MaxEvents
    THEN /\ events' = <<>>
         /\ bridge' = "ended"
    ELSE /\ events' = Append(events, [kind |-> kind, session |-> s])
         /\ UNCHANGED bridge

-----------------------------------------------------------------------------
(* spawn_shell and create_session.                                         *)

(* The limit is checked and the slot reserved under one write lock.        *)
Reserve(c, s) ==
    /\ Calls(c, "spawn")
    /\ meta[s] = Absent /\ runner[s] = "none"
    /\ Cardinality({x \in Session : Live(x)}) < MaxSessions
    /\ SetMeta(s, "Waiting", "Waiting")
    /\ pulse' = [pulse EXCEPT ![s] = [age |-> "fresh", health |-> "Waiting"]]
    /\ Begin(c, "spawn", s, "creating")
    /\ UNCHANGED <<inputs, procs, suspects, feed, store, chunks>>

(* backend.create: the runner, and a client attached to it.                *)
CreateRunner(c) ==
    /\ At(c, "creating")
    /\ runner' = [runner EXCEPT ![Target(c)] = "alive"]
    /\ client' = [client EXCEPT ![c] = "attached"]
    /\ Goto(c, "wiring")
    /\ UNCHANGED <<memory, suspects, feed, store, chunks>>

(* The rollback of spawn_shell.  A runner that was made is not killed.     *)
Rollback(s) ==
    /\ meta' = [meta EXCEPT ![s] = Absent]
    /\ pulse' = [pulse EXCEPT ![s] = NoPulse]
    /\ inputs' = [inputs EXCEPT ![s] = None]

FailCreate(c) ==
    /\ "create" \in Faults
    /\ At(c, "creating")
    /\ Rollback(Target(c))
    /\ runner' = [runner EXCEPT ![Target(c)] = "gone"]
    /\ Goto(c, "done")
    /\ UNCHANGED <<client, suspects, feed, store, chunks>>

(* Spawned carries the metadata of the reservation; the metadata the       *)
(* caller goes on with is read afterwards.                                 *)
Announce(c) ==
    /\ At(c, "announcing")
    /\ Publish("Spawned", Target(c))
    /\ call' = [call EXCEPT ![c].phase = "storing", ![c].read = meta[Target(c)].status]
    /\ UNCHANGED <<memory, procs, suspects, store, chunks>>

(* create_session upserts the row of what spawn_shell returned.            *)
StoreRow(c) ==
    /\ At(c, "storing")
    /\ rows' = [rows EXCEPT ![Target(c)] = call[c].read]
    /\ Goto(c, "done")
    /\ UNCHANGED <<memory, procs, suspects, feed, pending, chunks>>

-----------------------------------------------------------------------------
(* attach_existing, and wire_backend_handle for both ways to a client.     *)

Wiring(s) ==
    \E c \in Caller : /\ Target(c) = s
                      /\ call[c].phase \in {"creating", "attaching", "wiring", "wired", "opening"}

(* A session that has an input is attached already.                        *)
BeginAttach(c, s) ==
    /\ Calls(c, "attach")
    /\ Overlap \/ ~Wiring(s)
    /\ meta[s] # Absent /\ inputs[s] = None /\ runner[s] = "alive"
    /\ Begin(c, "attach", s, "attaching")
    /\ UNCHANGED <<memory, procs, suspects, feed, store, chunks>>

(* backend.attach.  If the runner ends before the client has found it, the *)
(* client ends at once.                                                    *)
AttachClient(c) ==
    /\ At(c, "attaching")
    /\ \/ /\ runner[Target(c)] = "alive"
          /\ client' = [client EXCEPT ![c] = "attached"]
          /\ Goto(c, "wiring")
       \/ /\ runner[Target(c)] = "gone"
          /\ client' = [client EXCEPT ![c] = "exited"]
          /\ Goto(c, "wiring")
       \/ /\ runner[Target(c)] = "gone"
          /\ UNCHANGED client
          /\ Goto(c, "done")
    /\ UNCHANGED <<memory, runner, suspects, feed, store, chunks>>

WireInput(c) ==
    /\ At(c, "wiring")
    /\ inputs' = [inputs EXCEPT ![Target(c)] = c]
    /\ Goto(c, "wired")
    /\ UNCHANGED <<meta, pulse, procs, suspects, feed, store, chunks>>

(* The metadata says Running and a heartbeat is sent; the atomics are left *)
(* as they are.                                                            *)
WireMeta(c) ==
    /\ At(c, "wired")
    /\ meta[Target(c)] # Absent
    /\ SetMeta(Target(c), "Running", "Active")
    /\ Publish("Changed", Target(c))
    /\ Goto(c, "opening")
    /\ UNCHANGED <<pulse, inputs, procs, suspects, store, chunks>>

(* The session is no longer known: its input stays.                        *)
FailWire(c) ==
    /\ At(c, "wired")
    /\ meta[Target(c)] = Absent
    /\ client' = [client EXCEPT ![c] = "none"]
    /\ Goto(c, "done")
    /\ UNCHANGED <<memory, runner, suspects, feed, store, chunks>>

(* With the scrollback file open, the reader and the exit task start.      *)
OpenScrollback(c) ==
    /\ At(c, "opening")
    /\ Goto(c, IF call[c].op = "spawn" THEN "announcing" ELSE "done")
    /\ UNCHANGED <<memory, procs, suspects, feed, store, chunks>>

(* Without it a spawn rolls back; a reattach returns its error, the input  *)
(* stays in the map, and there is no reader and no exit task behind it.    *)
FailScrollback(c) ==
    /\ "scrollback" \in Faults
    /\ At(c, "opening")
    /\ IF call[c].op = "spawn" THEN Rollback(Target(c)) ELSE UNCHANGED memory
    /\ client' = [client EXCEPT ![c] = "none"]
    /\ Goto(c, "done")
    /\ UNCHANGED <<runner, suspects, feed, store, chunks>>

-----------------------------------------------------------------------------
(* send_input and mark_activity.                                           *)

TakeWriter(c, s) ==
    /\ Calls(c, "input")
    /\ inputs[s] # None
    /\ Begin(c, "input", s, "sending")
    /\ UNCHANGED <<memory, procs, suspects, feed, store, chunks>>

(* The bytes are written, or refused by a client that is gone: with the    *)
(* runner gone, a client that forwards them ends.  mark_activity refreshes *)
(* the atomics first; without any the session is not found.                *)
TouchPulse(c) ==
    LET s == Target(c) IN
    /\ At(c, "sending")
    /\ \/ /\ client' = [d \in Caller |->
                          IF runner[s] = "gone" /\ client[d] = "attached" /\ Target(d) = s
                          THEN "exited" ELSE client[d]]
          /\ IF pulse[s] = NoPulse
             THEN Goto(c, "done") /\ UNCHANGED pulse
             ELSE /\ Goto(c, "touched")
                  /\ pulse' = [pulse EXCEPT ![s] = [age |-> "fresh", health |-> "Active"]]
       \/ /\ \E d \in Caller : Target(d) = s /\ client[d] \notin {"none", "attached"}
          /\ Goto(c, "done")
          /\ UNCHANGED <<client, pulse>>
    /\ UNCHANGED <<meta, inputs, runner, suspects, feed, store, chunks>>

\* slip: mark_activity revives a session that is Complete
ReviveComplete(c) ==
    LET s == Target(c) IN
    /\ At(c, "touched")
    /\ Goto(c, "done")
    /\ SetMeta(s, "Running", "Active")
    /\ Publish("Changed", s)
    /\ UNCHANGED <<pulse, inputs, procs, suspects, store, chunks>>

(* Then the metadata: any session but a Complete one is Running.           *)
MarkActivity(c) ==
    LET s == Target(c) IN
    /\ At(c, "touched")
    /\ Goto(c, "done")
    /\ IF meta[s] = Absent
       THEN UNCHANGED <<meta, feed>>
       ELSE /\ SetMeta(s, IF meta[s].status = "Complete" THEN "Complete" ELSE "Running",
                       "Active")
            /\ Publish("Changed", s)
    /\ UNCHANGED <<pulse, inputs, procs, suspects, store, chunks>>

-----------------------------------------------------------------------------
(* kill_live_session: terminate, then mark_exit.                           *)

Terminate(c, s) ==
    /\ Calls(c, "kill")
    /\ Overlap \/ ~Wiring(s)
    /\ meta[s] # Absent
    /\ runner' = [runner EXCEPT ![s] = IF @ = "alive" THEN "gone" ELSE @]
    /\ Begin(c, "kill", s, "terminated")
    /\ UNCHANGED <<memory, client, suspects, feed, store, chunks>>

MarkExit(c) ==
    LET s == Target(c) IN
    /\ At(c, "terminated")
    /\ Goto(c, "done")
    /\ IF meta[s] = Absent
       THEN UNCHANGED <<memory, feed>>
       ELSE /\ SetMeta(s, "Complete", "Complete")
            /\ pulse' = [pulse EXCEPT ![s] = NoPulse]
            /\ inputs' = [inputs EXCEPT ![s] = None]
            /\ Publish("Changed", s)
    /\ UNCHANGED <<procs, suspects, store, chunks>>

-----------------------------------------------------------------------------
(* Runners, clients and the exit tasks that wait for them.                 *)

Wired(c) == call[c].phase \notin {"wiring", "wired", "opening"}

EndRunner(s) ==
    /\ runner[s] = "alive"
    /\ runner' = [runner EXCEPT ![s] = "gone"]
    /\ UNCHANGED <<memory, client, call, suspects, feed, store, chunks>>

(* The supervisor dropped the writer: the client reads the end of stdin.   *)
CloseClient(c) ==
    /\ client[c] = "attached"
    /\ Wired(c) /\ inputs[Target(c)] # c
    /\ client' = [client EXCEPT ![c] = "exited"]
    /\ UNCHANGED <<memory, runner, call, suspects, feed, store, chunks>>

(* The client dies by itself.                                              *)
Detach(c) ==
    /\ "detach" \in Faults
    /\ client[c] = "attached"
    /\ client' = [client EXCEPT ![c] = "exited"]
    /\ UNCHANGED <<memory, runner, call, suspects, feed, store, chunks>>

ExitAsk(c) ==
    /\ client[c] = "exited" /\ Wired(c)
    /\ client' = [client EXCEPT ![c] = IF runner[Target(c)] = "alive" THEN "alive" ELSE "gone"]
    /\ UNCHANGED <<memory, runner, call, suspects, feed, store, chunks>>

\* slip: the exit task leaves the atomics as they are
ExitRecordMetaOnly(c) ==
    LET s == Target(c)
        st == IF client[c] = "alive" THEN "Waiting" ELSE "Complete"
    IN  /\ client[c] \in {"alive", "gone"}
        /\ meta' = IF meta[s] = Absent THEN meta
                   ELSE [meta EXCEPT ![s] = [status |-> st, health |-> st]]
        /\ client' = [client EXCEPT ![c] = "recorded"]
        /\ UNCHANGED <<pulse, inputs, runner, call, suspects, feed, store, chunks>>

(* The session becomes Waiting or Complete, in the metadata and in the     *)
(* atomics.                                                                *)
ExitRecord(c) ==
    LET s == Target(c)
        st == IF client[c] = "alive" THEN "Waiting" ELSE "Complete"
    IN  /\ client[c] \in {"alive", "gone"}
        /\ meta' = IF meta[s] = Absent THEN meta
                   ELSE [meta EXCEPT ![s] = [status |-> st, health |-> st]]
        /\ pulse' = IF pulse[s] = NoPulse THEN pulse
                    ELSE [pulse EXCEPT ![s] = [age |-> "fresh", health |-> st]]
        /\ client' = [client EXCEPT ![c] = "recorded"]
        /\ UNCHANGED <<inputs, runner, call, suspects, feed, store, chunks>>

\* slip: the exit task tells nobody
ExitClearSilently(c) ==
    /\ client[c] = "recorded"
    /\ inputs' = [inputs EXCEPT ![Target(c)] = None]
    /\ client' = [client EXCEPT ![c] = "none"]
    /\ UNCHANGED <<meta, pulse, runner, call, suspects, feed, store, chunks>>

(* The session's input is dropped, whosever it is, and Exited is sent.     *)
ExitClear(c) ==
    /\ client[c] = "recorded"
    /\ inputs' = [inputs EXCEPT ![Target(c)] = None]
    /\ client' = [client EXCEPT ![c] = "none"]
    /\ Publish("Changed", Target(c))
    /\ UNCHANGED <<meta, pulse, runner, call, suspects, store, chunks>>

(* The reader task: output counts in the atomics only.                     *)
Output(c) ==
    LET s == Target(c) IN
    /\ client[c] = "attached" /\ Wired(c)
    /\ chunks < MaxChunks
    /\ chunks' = chunks + 1
    /\ pulse' = IF pulse[s] = NoPulse THEN pulse
                ELSE [pulse EXCEPT ![s] = [age |-> "fresh", health |-> "Active"]]
    /\ Publish("Changed", s)
    /\ UNCHANGED <<meta, inputs, procs, call, suspects, store>>

-----------------------------------------------------------------------------
(* refresh_health, every thirty seconds.                                   *)

\* slip: a health the parser of the database and the clients do not know
HealthOfMisspelt(age) == IF age = "stuck" THEN "Stalled"
                         ELSE IF age = "idle" THEN "Idle" ELSE "Active"

HealthOf(age) == CASE age = "fresh" -> "Active"
                   [] age = "idle" -> "Idle"
                   [] age = "stuck" -> "Stuck"

(* Without atomics the metadata serves, whose heartbeat nobody renews.     *)
NextHealth(s) ==
    IF pulse[s] # NoPulse THEN {HealthOf(pulse[s].age)}
    ELSE CASE meta[s].health = "Active" -> {"Active", "Idle", "Stuck"}
           [] meta[s].health = "Idle" -> {"Idle", "Stuck"}
           [] OTHER -> {"Stuck"}
Current(s) == IF pulse[s] = NoPulse THEN meta[s].health ELSE pulse[s].health

(* First pass, under read locks.                                           *)
RefreshScan ==
    /\ suspects = {}
    /\ suspects' = {s \in Session : /\ meta[s].status = "Running"
                                    /\ NextHealth(s) # {Current(s)}}
    /\ suspects' # {}
    /\ UNCHANGED <<memory, procs, call, feed, store, chunks>>

\* slip: the second pass does not look at the status again
RefreshAnyStatus(s) ==
    /\ s \in suspects
    /\ suspects' = suspects \ {s}
    /\ \E next \in NextHealth(s) :
          IF meta[s] = Absent \/ Current(s) = next
          THEN UNCHANGED <<meta, pulse, feed>>
          ELSE /\ meta' = [meta EXCEPT ![s].health = next]
               /\ pulse' = IF pulse[s] = NoPulse THEN pulse
                           ELSE [pulse EXCEPT ![s].health = next]
               /\ Publish("Changed", s)
    /\ UNCHANGED <<inputs, procs, call, store, chunks>>

(* Second pass, under the write lock, a suspect at a time.                 *)
RefreshApply(s) ==
    /\ s \in suspects
    /\ suspects' = suspects \ {s}
    /\ \E next \in NextHealth(s) :
          IF meta[s].status # "Running" \/ Current(s) = next
          THEN UNCHANGED <<meta, pulse, feed>>
          ELSE /\ meta' = [meta EXCEPT ![s].health = next]
               /\ pulse' = IF pulse[s] = NoPulse THEN pulse
                           ELSE [pulse EXCEPT ![s].health = next]
               /\ Publish("Changed", s)
    /\ UNCHANGED <<inputs, procs, call, store, chunks>>

(* Time passes without a heartbeat.                                        *)
GrowOld(s) ==
    /\ pulse[s].age \in {"fresh", "idle"}
    /\ pulse' = [pulse EXCEPT ![s].age = IF @ = "fresh" THEN "idle" ELSE "stuck"]
    /\ UNCHANGED <<meta, inputs, procs, call, suspects, feed, store, chunks>>

-----------------------------------------------------------------------------
(* spawn_session_bridge.                                                   *)

(* Spawned carries its row; for every other event the session is read when *)
(* the event is handled.                                                   *)
Receive ==
    /\ bridge = "running" /\ events # <<>> /\ pending = Nothing
    /\ LET e == Head(events) IN
       pending' = IF e.kind = "Spawned" THEN [session |-> e.session, status |-> "Waiting"]
                  ELSE IF meta[e.session] = Absent THEN Nothing
                  ELSE [session |-> e.session, status |-> meta[e.session].status]
    /\ events' = Tail(events)
    /\ UNCHANGED <<memory, procs, call, suspects, bridge, rows, chunks>>

Upsert ==
    /\ pending # Nothing
    /\ rows' = [rows EXCEPT ![pending.session] = pending.status]
    /\ pending' = Nothing
    /\ UNCHANGED <<memory, procs, call, suspects, feed, chunks>>

-----------------------------------------------------------------------------
(* The project is open: its waiting sessions are registered, detached.     *)
Init ==
    /\ meta = [s \in Session |-> IF s \in Restored
                 THEN [status |-> "Waiting", health |-> "Waiting"] ELSE Absent]
    /\ pulse = [s \in Session |-> IF s \in Restored
                 THEN [age |-> "stuck", health |-> "Waiting"] ELSE NoPulse]
    /\ inputs = [s \in Session |-> None]
    /\ runner = [s \in Session |-> IF s \in Restored THEN "alive" ELSE "none"]
    /\ client = [c \in Caller |-> "none"]
    /\ call = [c \in Caller |-> Idle]
    /\ suspects = {}
    /\ events = <<>> /\ bridge = "running" /\ pending = Nothing
    /\ rows = [s \in Session |-> IF s \in Restored THEN "Waiting" ELSE "none"]
    /\ chunks = 0

Command(c, s) ==
    Reserve(c, s) \/ BeginAttach(c, s) \/ TakeWriter(c, s) \/ Terminate(c, s)

CallStep(c) ==
    \/ CreateRunner(c) \/ FailCreate(c) \/ Announce(c) \/ StoreRow(c)
    \/ AttachClient(c) \/ WireInput(c) \/ WireMeta(c) \/ FailWire(c)
    \/ OpenScrollback(c) \/ FailScrollback(c)
    \/ TouchPulse(c) \/ MarkActivity(c) \/ MarkExit(c)

ExitStep(c) == CloseClient(c) \/ ExitAsk(c) \/ ExitRecord(c) \/ ExitClear(c)

RefreshStep == RefreshScan \/ \E s \in Session : RefreshApply(s)

BridgeStep == Receive \/ Upsert

Next ==
    \/ \E c \in Caller : \/ \E s \in Session : Command(c, s)
                         \/ CallStep(c) \/ ExitStep(c)
                         \/ Detach(c) \/ Output(c)
    \/ \E s \in Session : EndRunner(s) \/ GrowOld(s)
    \/ RefreshStep
    \/ BridgeStep

(* The runtime runs what is ready: handlers go on, a client whose stdin is *)
(* closed ends, exit tasks and the bridge take their steps, the ticker     *)
(* ticks.  Nobody is obliged to command, to print or to end.               *)
Fairness ==
    /\ \A c \in Caller : WF_vars(CallStep(c)) /\ WF_vars(ExitStep(c))
    /\ WF_vars(RefreshStep)
    /\ WF_vars(BridgeStep)

Spec == Init /\ [][Next]_vars
FairSpec == Spec /\ Fairness

-----------------------------------------------------------------------------
TypeOK ==
    /\ meta \in [Session -> Meta \cup {Absent}]
    /\ pulse \in [Session -> Pulse \cup {NoPulse}]
    /\ inputs \in [Session -> Caller \cup {None}]
    /\ runner \in [Session -> {"none", "alive", "gone"}]
    /\ client \in [Caller -> ClientState]
    /\ call \in [Caller -> Invocation \cup {Idle}]
    /\ suspects \subseteq Session
    /\ events \in Seq(Event)
    /\ bridge \in {"running", "ended"}
    /\ pending \in [session : Session, status : Status] \cup {Nothing}
    /\ rows \in [Session -> Status \cup {"none"}]
    /\ chunks \in 0 .. MaxChunks

(* "Durable operator state" (README.md), for a session the project was     *)
(* opened with: while the bridge runs and has no event of the session, and *)
(* no exit task is about to send one, the database says of the session     *)
(* what the supervisor says.                                               *)
Reported(s) ==
    /\ \A i \in 1 .. Len(events) : events[i].session # s
    /\ pending.session # s
    /\ \A c \in Caller : ~(client[c] = "recorded" /\ Target(c) = s)

RestoredRowsFollow ==
    \A s \in Restored :
        bridge = "running" /\ Reported(s) => rows[s] = meta[s].status

(* refresh_health classifies sessions by the age of their last heartbeat   *)
(* (docs/archive/symphony-comparison-claude.md): a session that has been   *)
(* silent for ten minutes is shown as stuck unless it speaks or ends.      *)
Silent(s) == meta[s].status = "Running" /\ pulse[s].age = "stuck"

StuckIsShown ==
    \A s \in Session : Silent(s) ~> (~Silent(s) \/ meta[s].health = "Stuck")

(* A session that a kill has terminated ends up Complete and stays so,     *)
(* whatever was under way: a reattach, an input, an exit task.             *)
Killed(s) == \E c \in Caller : At(c, "terminated") /\ Target(c) = s

KilledEnds ==
    \A s \in Session : Killed(s) ~> [](meta[s].status = "Complete")

(* A refresh that decided on stale readings corrects itself: what it       *)
(* changes it changes to what the heartbeat says now, of a session that    *)
(* still runs.                                                             *)
RefreshHonest ==
    [][\A s \in Session : RefreshStep /\ meta'[s] # meta[s] =>
          /\ meta[s].status = "Running" /\ meta'[s].status = "Running"
          /\ pulse[s] # NoPulse => meta'[s].health = HealthOf(pulse[s].age)]_vars

-----------------------------------------------------------------------------
(* What the project's texts say and the code does not keep.                *)

(* "Tasks, sessions, events, and artifacts are persisted so the app can    *)
(* recover context" (README.md): when every event is handled and no        *)
(* handler is about to write, the database says of each session what the   *)
(* supervisor says.                                                        *)
Settled ==
    /\ events = <<>> /\ pending = Nothing
    /\ \A c \in Caller : client[c] # "recorded"
                        /\ call[c].phase \notin {"creating", "wiring", "wired",
                                                "announcing", "storing"}

RowsFollow ==
    Settled => \A s \in Session : meta[s] # Absent => rows[s] = meta[s].status

(* "Atomically check the limit and reserve a slot under a single write     *)
(* lock" (supervisor.rs, spawn_shell).                                     *)
SessionLimit == Cardinality({s \in Session : Live(s)}) <= MaxSessions

(* "Wait for the backend's exit notification and transitions the session   *)
(* to its terminal state" and the health probe nobody starts               *)
(* (supervisor.rs).                                                        *)
EndIsNoticed ==
    \A s \in Session :
        meta[s].status = "Running" /\ runner[s] = "gone" ~> meta[s].status # "Running"

(* "The SAME handle is used by reader tasks and re_redact_scrollback,      *)
(* ensuring mutual exclusion via a single Mutex" (supervisor.rs).          *)
OneReader ==
    \A c, d \in Caller :
        /\ client[c] = "attached" /\ client[d] = "attached"
        /\ At(c, "done") /\ At(d, "done") /\ Target(c) = Target(d)
        => c = d

(* "The session supervisor already tracks Active, Idle, and Stuck health"  *)
(* (docs/agent-command-center-gap-analysis.md): a session that speaks      *)
(* again does not go on being shown as idle.                               *)
SpeaksUnseen(s) ==
    /\ meta[s].status = "Running" /\ meta[s].health \in {"Idle", "Stuck"}
    /\ pulse[s] = [age |-> "fresh", health |-> "Active"]

SpeakingIsActive == \A s \in Session : SpeaksUnseen(s) ~> ~SpeaksUnseen(s)
=============================================================================
