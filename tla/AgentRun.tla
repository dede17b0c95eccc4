------------------------------- MODULE AgentRun ------------------------------
(***************************************************************************)
(* An agent command line run for a task: the Claude and Codex adapters     *)
(* (pnevma-agents/src/adapters/claude.rs, codex.rs, process.rs) with the   *)
(* process, the two tasks that read its pipes and the task that waits for  *)
(* it, and the event loop of the automation runner that listens.           *)
(*                                                                         *)
(* A handle is used once: spawn, events, send.  Process ids are given out  *)
(* again by the system once a process has been waited for.  Of the events  *)
(* the model keeps what the loop tells apart.                              *)
(***************************************************************************)
EXTENDS Integers, Sequences, FiniteSets

CONSTANTS
    Agent,          \* agent handles
    CodexAgent,     \* those of the Codex adapter
    GroupId,        \* process ids
    NoGroup,
    MaxLines,       \* bound: lines each agent prints
    MailCap,        \* of the broadcast channel of events
    MaxTries,       \* RetryPolicy: max_attempts
    MaxStalls       \* StallDetectorConfig: max_stall_retries

ASSUME AgentAssumption ==
    /\ IsFiniteSet(Agent) /\ CodexAgent \subseteq Agent /\ NoGroup \notin GroupId
    /\ MaxLines \in [Agent -> Nat] /\ MailCap \in Nat \ {0}
    /\ MaxTries \in Nat \ {0} /\ MaxStalls \in Nat \ {0}

VARIABLES
    listed,      \* what the adapter's maps hold of a handle: channel and pid
    child,      \* its process: state, and its id until it is waited for
    printed,    \* lines it has printed so far
    pipe,       \* printed lines not read yet
    readers,    \* the tasks that read its output: "none", "reading", "done"
    waiter,     \* the task that waits: "none", "waiting", "exited",
                \* "unlisted", "told", "done"
    killer,     \* the id stop() will kill after five seconds
    mail,       \* events sent to the run's receiver and not received
    ear         \* the event loop: where it is, whether it subscribed to the
                \* channel, errors retried, stalls, lines heard, why it ended

processVars == <<child, printed, pipe, readers>>
adapterVars == <<listed, waiter, killer>>
agentVars == <<processVars, adapterVars, mail, ear>>

NewEar == [at |-> "off", deaf |-> FALSE, tries |-> 0, stalls |-> 0,
           heard |-> 0, why |-> "none"]

Runs(a) == child[a].state = "running"
Listens(a) == ear[a].at \in {"listening", "backoff"}

\* What the loop makes of a run that ended: only an error and a stall count
\* as failures.
Passed(a) == ear[a].at = "ended" /\ ear[a].why \in {"complete", "closed", "lag"}

\* A full broadcast channel loses its oldest events; the receiver is told so
\* first, and the loop ends at that.
Posted(a, events) ==
    IF ~Listens(a) \/ ear[a].deaf THEN mail[a]
    ELSE IF mail[a] = <<"lag">> \/ Len(mail[a]) + Len(events) > MailCap THEN <<"lag">>
    ELSE mail[a] \o events
Post(a, events) == mail' = [mail EXCEPT ![a] = Posted(a, events)]

\* kill(-p): whoever has that process group.
Killed(p) ==
    [a \in Agent |-> IF child[a].pid = p /\ Runs(a)
                     THEN [child[a] EXCEPT !.state = "bad"] ELSE child[a]]
Exists(p) == \E a \in Agent : child[a].pid = p

-----------------------------------------------------------------------------
(* spawn and events, as start() calls them.  The maps' lock may just be    *)
(* held for another handle: events() then answers with a channel of its    *)
(* own that says "missing handle".                                         *)
SpawnHandle(a) ==
    /\ listed[a].chan = "none"
    /\ listed' = [listed EXCEPT ![a].chan = "open"]
    /\ \/ /\ ear' = [ear EXCEPT ![a].at = "listening"]
          /\ UNCHANGED mail
       \/ /\ Cardinality(Agent) > 1
          /\ ear' = [ear EXCEPT ![a].at = "listening", ![a].deaf = TRUE]
          /\ mail' = [mail EXCEPT ![a] = <<"error">>]
    /\ UNCHANGED <<processVars, waiter, killer>>

Sendable(a) ==
    listed[a].chan = "open" /\ child[a].state = "none" /\ ear[a].why # "aborted"

(* send: the process is started in a group of its own, its pid listed, and *)
(* the reading and waiting tasks begin.                                    *)
SendPrompt(a) ==
    /\ Sendable(a)
    /\ \E p \in GroupId :
        /\ ~Exists(p)
        /\ child' = [child EXCEPT ![a] = [state |-> "running", pid |-> p]]
        /\ listed' = [listed EXCEPT ![a].pid = p]
    /\ readers' = [readers EXCEPT ![a] = "reading"]
    /\ waiter' = [waiter EXCEPT ![a] = "waiting"]
    /\ Post(a, <<"status">>)
    /\ UNCHANGED <<printed, pipe, killer, ear>>

EndLoop(a, why) == ear' = [ear EXCEPT ![a].at = "ended", ![a].why = why]

(* The command cannot be started; or Codex does not take its prompt, and   *)
(* its process is left behind with nobody waiting.  send_payload aborts    *)
(* the event loop.                                                         *)
FailPrompt(a) ==
    /\ Sendable(a)
    /\ \/ UNCHANGED <<child, listed>>
       \/ /\ a \in CodexAgent
          /\ \E p \in GroupId :
              /\ ~Exists(p)
              /\ child' = [child EXCEPT ![a] = [state |-> "running", pid |-> p]]
              /\ listed' = [listed EXCEPT ![a].pid = p]
    /\ EndLoop(a, "aborted")
    /\ mail' = [mail EXCEPT ![a] = <<>>]
    /\ UNCHANGED <<printed, pipe, readers, waiter, killer>>

-----------------------------------------------------------------------------
(* The process and the tasks that read its pipes.                          *)
PrintLine(a) ==
    /\ Runs(a) /\ printed[a] < MaxLines[a]
    /\ printed' = [printed EXCEPT ![a] = @ + 1]
    /\ pipe' = [pipe EXCEPT ![a] = @ + 1]
    /\ UNCHANGED <<child, readers, adapterVars, mail, ear>>

Exit(a) ==
    /\ Runs(a)
    /\ \E s \in {"ok", "bad"} : child' = [child EXCEPT ![a].state = s]
    /\ UNCHANGED <<printed, pipe, readers, adapterVars, mail, ear>>

ReadLine(a) ==
    /\ readers[a] = "reading" /\ pipe[a] > 0
    /\ pipe' = [pipe EXCEPT ![a] = @ - 1]
    /\ Post(a, <<"output">>)
    /\ UNCHANGED <<child, printed, readers, adapterVars, ear>>

EndReaders(a) ==
    /\ readers[a] = "reading" /\ ~Runs(a) /\ pipe[a] = 0
    /\ readers' = [readers EXCEPT ![a] = "done"]
    /\ UNCHANGED <<child, printed, pipe, adapterVars, mail, ear>>

-----------------------------------------------------------------------------
(* The task that waits for the process, with the run's time limit.         *)
Reap(a) ==
    /\ waiter[a] = "waiting" /\ ~Runs(a)
    /\ child' = [child EXCEPT ![a].pid = NoGroup]
    /\ waiter' = [waiter EXCEPT ![a] = "exited"]
    /\ UNCHANGED <<printed, pipe, readers, listed, killer, mail, ear>>

\* A process nobody waits for any more is waited for by the runtime.
ReapOrphan(a) ==
    /\ waiter[a] \in {"none", "told", "done"} /\ child[a].state \in {"ok", "bad"}
    /\ child[a].pid # NoGroup
    /\ child' = [child EXCEPT ![a].pid = NoGroup]
    /\ UNCHANGED <<printed, pipe, readers, adapterVars, mail, ear>>

Unlist(a) ==
    /\ waiter[a] = "exited"
    /\ listed' = [listed EXCEPT ![a].pid = NoGroup]
    /\ waiter' = [waiter EXCEPT ![a] = "unlisted"]
    /\ UNCHANGED <<processVars, killer, mail, ear>>

\* slip: the end is announced as soon as the process has exited
ReadAtOnce(a) == TRUE

\* out_task and err_task are awaited
ReadToEnd(a) == readers[a] = "done"

FinishRun(a) ==
    /\ waiter[a] = "unlisted" /\ ReadToEnd(a)
    /\ Post(a, IF child[a].state = "ok" THEN <<"complete", "status">>
                                        ELSE <<"error", "status">>)
    /\ waiter' = [waiter EXCEPT ![a] = "told"]
    /\ UNCHANGED <<processVars, listed, killer, ear>>

\* slip: the run has no time limit
NoTimeLimit(a) == FALSE

TimeLimit(a) == waiter[a] = "waiting" /\ Runs(a)

TimeOutRun(a) ==
    /\ TimeLimit(a)
    /\ child' = IF listed[a].pid = NoGroup THEN child ELSE Killed(listed[a].pid)
    /\ Post(a, <<"timed out", "status">>)
    /\ listed' = [listed EXCEPT ![a].pid = NoGroup]
    /\ waiter' = [waiter EXCEPT ![a] = "told"]
    /\ UNCHANGED <<printed, pipe, readers, killer, ear>>

CloseRun(a) ==
    /\ waiter[a] = "told"
    /\ listed' = [listed EXCEPT ![a].chan = "closed"]
    /\ waiter' = [waiter EXCEPT ![a] = "done"]
    /\ UNCHANGED <<processVars, killer, mail, ear>>

-----------------------------------------------------------------------------
(* stop(), which the coordinator calls when it shuts down, aborting the    *)
(* event loop after it; and the kill it leaves for later.                  *)
StopRun(a) ==
    /\ Listens(a) /\ killer[a] = NoGroup
    /\ IF listed[a].pid = NoGroup THEN UNCHANGED <<child, killer>>
       ELSE /\ child' \in {child, Killed(listed[a].pid)}
            /\ killer' = [killer EXCEPT ![a] = listed[a].pid]
    /\ EndLoop(a, "aborted")
    /\ mail' = [mail EXCEPT ![a] = <<>>]
    /\ UNCHANGED <<printed, pipe, readers, listed, waiter>>

\* Claude's looks whether the group exists, Codex' whether the pid is
\* still listed.
KillLater(a) ==
    /\ killer[a] # NoGroup
    /\ IF a \in CodexAgent => listed[a].pid = killer[a]
       THEN /\ child' = Killed(killer[a])
            /\ listed' = [listed EXCEPT ![a].pid = NoGroup]
       ELSE UNCHANGED <<child, listed>>
    /\ killer' = [killer EXCEPT ![a] = NoGroup]
    /\ UNCHANGED <<printed, pipe, readers, waiter, mail, ear>>

-----------------------------------------------------------------------------
(* run_event_loop.                                                         *)
Take(a) == mail' = [mail EXCEPT ![a] = Tail(@)]
NextMail(a) == ear[a].at = "listening" /\ mail[a] # <<>>

HearLine(a) ==
    /\ NextMail(a) /\ Head(mail[a]) \in {"output", "status"}
    /\ ear' = [ear EXCEPT ![a].heard = @ + (IF Head(mail[a]) = "output" THEN 1 ELSE 0)]
    /\ Take(a)
    /\ UNCHANGED <<processVars, adapterVars>>

\* A time limit reads like a failure of the network: classify_failure.
HearError(a) ==
    /\ NextMail(a) /\ Head(mail[a]) \in {"error", "timed out"}
    /\ IF Head(mail[a]) = "timed out" /\ ear[a].tries + 1 < MaxTries
       THEN ear' = [ear EXCEPT ![a].at = "backoff", ![a].tries = @ + 1]
       ELSE EndLoop(a, "error")
    /\ Take(a)
    /\ UNCHANGED <<processVars, adapterVars>>

BackOff(a) ==
    /\ ear[a].at = "backoff"
    /\ ear' = [ear EXCEPT ![a].at = "listening"]
    /\ UNCHANGED <<processVars, adapterVars, mail>>

HearEnd(a) ==
    /\ NextMail(a) /\ Head(mail[a]) \in {"complete", "lag"}
    /\ EndLoop(a, Head(mail[a]))
    /\ mail' = [mail EXCEPT ![a] = <<>>]
    /\ UNCHANGED <<processVars, adapterVars>>

\* Every sender is gone: of the map, of the waiting and the reading tasks.
HearNothing(a) ==
    /\ ear[a].at = "listening" /\ mail[a] = <<>>
    /\ listed[a].chan = "closed" /\ waiter[a] = "done" /\ readers[a] = "done"
    /\ EndLoop(a, "closed")
    /\ UNCHANGED <<processVars, adapterVars, mail>>

(* Two minutes without an event: interrupt, the next time give up.         *)
Stalls(a) ==
    /\ ear[a].at = "listening" /\ mail[a] = <<>>
    /\ IF ear[a].stalls + 1 >= MaxStalls
       THEN EndLoop(a, "stall") /\ UNCHANGED <<child, mail>>
       ELSE /\ ear' = [ear EXCEPT ![a].stalls = @ + 1]
            /\ IF listed[a].pid = NoGroup THEN UNCHANGED <<child, mail>>
               ELSE /\ child' \in {child, Killed(listed[a].pid)}
                    /\ IF listed[a].chan = "open" THEN Post(a, <<"status">>)
                                                 ELSE UNCHANGED mail
    /\ UNCHANGED <<printed, pipe, readers, adapterVars>>

-----------------------------------------------------------------------------
AgentInit ==
    /\ listed = [a \in Agent |-> [chan |-> "none", pid |-> NoGroup]]
    /\ child = [a \in Agent |-> [state |-> "none", pid |-> NoGroup]]
    /\ printed = [a \in Agent |-> 0] /\ pipe = [a \in Agent |-> 0]
    /\ readers = [a \in Agent |-> "none"] /\ waiter = [a \in Agent |-> "none"]
    /\ killer = [a \in Agent |-> NoGroup] /\ mail = [a \in Agent |-> <<>>]
    /\ ear = [a \in Agent |-> NewEar]

Works(a) ==
    \/ SendPrompt(a) \/ FailPrompt(a)
    \/ ReadLine(a) \/ EndReaders(a)
    \/ Reap(a) \/ Unlist(a) \/ FinishRun(a) \/ TimeOutRun(a) \/ CloseRun(a)
    \/ HearLine(a) \/ HearError(a) \/ BackOff(a) \/ HearEnd(a) \/ HearNothing(a)

AgentNext ==
    \E a \in Agent :
        \/ SpawnHandle(a) \/ SendPrompt(a) \/ FailPrompt(a)
        \/ PrintLine(a) \/ Exit(a) \/ ReadLine(a) \/ EndReaders(a)
        \/ Reap(a) \/ ReapOrphan(a) \/ Unlist(a) \/ FinishRun(a)
        \/ TimeOutRun(a) \/ CloseRun(a) \/ StopRun(a) \/ KillLater(a)
        \/ HearLine(a) \/ HearError(a) \/ BackOff(a) \/ HearEnd(a)
        \/ HearNothing(a) \/ Stalls(a)

\* The runner sends what it has started, timers fire, and a task that can go
\* on does; the process and the user's stop owe nothing.
AgentFair ==
    \A a \in Agent :
        /\ WF_agentVars(SendPrompt(a) \/ FailPrompt(a))
        /\ WF_agentVars(ReadLine(a)) /\ WF_agentVars(EndReaders(a))
        /\ WF_agentVars(Reap(a) \/ Unlist(a) \/ FinishRun(a) \/ CloseRun(a))
        /\ WF_agentVars(TimeOutRun(a))
        /\ WF_agentVars(HearLine(a) \/ HearError(a) \/ BackOff(a) \/ HearEnd(a)
                          \/ HearNothing(a))

AgentSpec == AgentInit /\ [][AgentNext]_agentVars

-----------------------------------------------------------------------------
(* A run whose end was announced as complete has printed its last line and *)
(* the loop has heard every one.                                           *)
CompleteIsAll ==
    \A a \in Agent : ear[a].why = "complete" =>
        child[a].state = "ok" /\ ear[a].heard = printed[a] /\ pipe[a] = 0

(* While a process is being waited for, interrupt, stop and the time limit *)
(* reach it, and nobody else's.                                            *)
ReachesOwn ==
    \A a \in Agent : waiter[a] = "waiting" /\ Runs(a) =>
        listed[a].pid = child[a].pid /\ child[a].pid # NoGroup

(* The channel of a run does not close on a loop that was told nothing: it *)
(* closes after an error that the loop took for passing.                   *)
ClosedAfterError ==
    \A a \in Agent : ear[a].why = "closed" => ear[a].tries > 0

(* Nothing of a run stays in the adapter's maps once its task is over.     *)
MapsEmptied ==
    \A a \in Agent : waiter[a] = "done" =>
        listed[a] = [chan |-> "closed", pid |-> NoGroup]

(* What the runner may rely on when a run ends.                            *)
RunsAccounted == CompleteIsAll /\ ReachesOwn /\ ClosedAfterError /\ MapsEmptied

(* A run that has been started ends for the runner, and gives its slot     *)
(* back, however silent or talkative the agent is.                         *)
RunEnds == \A a \in Agent : Listens(a) ~> ear[a].at = "ended"

-----------------------------------------------------------------------------
(* What the code does not keep.                                            *)

\* A run that passes has completed: a run past its time limit passes.
PassedIsComplete == \A a \in Agent : Passed(a) => child[a].state = "ok"

\* A process runs only while its run holds a slot: after a stall, a lag or a
\* missed subscription it goes on.
RunsListened == \A a \in Agent : Runs(a) => Listens(a)

\* The kill that stop() leaves for later ends nobody else's processes
\* (process.rs:76-79).
KillsOwn ==
    [][\A a, b \in Agent :
          KillLater(a) /\ child'[b] # child[b] => a = b]_agentVars
=============================================================================
