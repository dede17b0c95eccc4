----------------------------- MODULE MCLiveness ------------------------------
(* The dispatch pool, and what must eventually happen in the parts of      *)
(* MCServices; as there, one part is picked and runs alone.                *)
EXTENDS DispatchPool, RemoteSocket, RemoteRpc, AgentRun, CodexServer, GitHubAuth

CONSTANTS ip1, c1, c2, c3, a1, a2, x1, v1, d1, g2, w1, o1, n1, t1, r1, r2

VARIABLES
    part,
    team, homes, procs, unsent, exits, teamRows, panes, leader, spawns, closes,
    bridge, reload, closed, missed, orphans, overtaken, reloads, opened,
    host, row, handedOut, flow, errors, doubted, ended, stale,
    status, claims, aged, running, attempt, permits, worktrees, branches,
    liveRows, records, tick, batch, doomed, crashes

\* An app-server that is called by two and stopped.
AllAtOnce == {<<w1, "turn">>, <<w1, "tool">>, <<w1, "stop">>}
TwoLines == [a \in Agent |-> 2]
NoReports == [s \in Server |-> 0]

AllFromOne == [c \in Conn |-> ip1]

\* Two members spawned side by side.
Pair == INSTANCE AgentTeam WITH
    Member <- {a1, a2}, Waiting <- {}, Durable <- {}, Closer <- {},
    MaxReloads <- 0, MaxReopens <- 0, NoMember <- Nobody

\* One durable member that is waited for and closed.
Single == INSTANCE AgentTeam WITH
    Member <- {a1}, Waiting <- {a1}, Durable <- {a1}, Closer <- {x1},
    MaxReloads <- 0, MaxReopens <- 0, NoMember <- Nobody

\* Listing, connecting and disconnecting.
Links == INSTANCE RemoteDurable WITH
    MaxSessions <- 2, Viewer <- {v1}, Reattacher <- {}, Connector <- {c1},
    Disconnector <- {d1}, Restarter <- {}, MaxErrors <- 0

\* A task that tick and user dispatch, every failure and a crash.
Restart == INSTANCE AutomationCoordinator WITH
    Task <- {t1}, Attempt <- {r1, r2}, AutoTask <- {t1},
    ManualTask <- {t1}, NextReadyTask <- {}, MainTask <- {},
    UntilComplete <- {}, MaxConcurrent <- 2, PoolMax <- 1, Moves <- {},
    EarlyDispatch <- FALSE, Rejects <- FALSE,
    Faults <- {"worktree", "context", "start", "send"}, MaxCrashes <- 1,
    None <- Nobody, sessions <- liveRows

teamVars == <<team, homes, procs, unsent, exits, teamRows, panes, leader,
              spawns, closes, bridge, reload, closed, missed, orphans,
              overtaken, reloads, opened>>
durableVars == <<host, row, handedOut, flow, errors, doubted, ended, stale>>
runVars == <<status, claims, aged, running, attempt, permits, worktrees,
             branches, liveRows, records, tick, batch, doomed, crashes>>

LiveInit ==
    /\ part \in {"pool", "socket", "rpc", "pair", "single", "links", "agent", "codex", "github",
                "restart"}
    /\ Init /\ SocketInit /\ RpcInit /\ AgentInit /\ ServerInit /\ AccountsInit
    /\ IF part = "single" THEN Single!TeamInit ELSE Pair!TeamInit
    /\ Links!DurableInit
    /\ Restart!Init /\ status[t1] = "Ready"

LiveNext ==
    /\ UNCHANGED part
    /\ IF part = "pool" THEN Next ELSE UNCHANGED vars
    /\ IF part = "socket" THEN SocketNext ELSE UNCHANGED socketVars
    /\ IF part = "rpc" THEN RpcNext ELSE UNCHANGED rpcVars
    /\ CASE part = "pair" -> Pair!TeamNext
         [] part = "single" -> Single!TeamNext
         [] OTHER -> UNCHANGED teamVars
    /\ IF part = "links" THEN Links!DurableNext ELSE UNCHANGED durableVars
    /\ IF part = "agent" THEN AgentNext ELSE UNCHANGED agentVars
    /\ IF part = "codex" THEN ServerNext ELSE UNCHANGED serverVars
    /\ IF part = "github" THEN AccountsNext ELSE UNCHANGED accountVars
    /\ IF part = "restart" THEN Restart!Next ELSE UNCHANGED runVars

\* The fairness of each part, while it is the one that runs.
LiveFair ==
    /\ Fairness /\ SocketFair /\ RpcFair /\ AgentFair /\ ServerFair
    /\ WF_accountVars(part = "github" /\ Age)
    /\ WF_accountVars(part = "github" /\ LookAtHosts /\ Is_(Watch, "due")')
    /\ \A a \in Actor :
         WF_accountVars(part = "github" /\ ~Is_(a, "idle") /\ RefreshStep(a))
    /\ \A l \in Login : WF_accountVars(part = "github" /\ LoginStep(l))
    /\ \A m \in {a1, a2} : WF_teamVars(part = "pair" /\ Pair!SendExited(m))
    /\ WF_teamVars(part = "pair" /\ Pair!BridgeStep)
    /\ WF_teamVars(part = "single" /\ Single!SendExited(a1))
    /\ WF_teamVars(part = "single" /\ Single!BridgeStep)
    /\ \A f \in {v1, c1, d1} : WF_durableVars(part = "links" /\ Links!Step(f))
    /\ \A s \in 1..2 : SF_durableVars(part = "links" /\ Links!Views(s))
    /\ \A r \in {r1, r2} :
         /\ WF_runVars(part = "restart" /\ Restart!DispatchStep(r))
         /\ WF_runVars(part = "restart" /\ Restart!EventLoopStep(r))
    /\ WF_runVars(part = "restart" /\ Restart!TickStep)

LiveSpec ==
    /\ LiveInit
    /\ [][LiveNext]_<<part, vars, socketVars, rpcVars, teamVars, durableVars,
                      agentVars, serverVars, accountVars, runVars>>
    /\ LiveFair

-----------------------------------------------------------------------------
\* A member whose session has ended leaves the team, as AgentTeam states it.
\* (the "Exited" branch of start_session_bridge)
DeadMembersLeave ==
    /\ \A m \in {a1, a2} :
         part = "pair" /\ Pair!Dead(m) ~> part = "pair" /\ Pair!Excused(m)
    /\ part = "single" /\ Single!Dead(a1)
         ~> part = "single" /\ Single!Excused(a1)

\* Every call of a remote helper or an app-server returns, and every run of
\* an agent ends, as RemoteRpc, CodexServer and AgentRun state it.
\* (RpcClient::call, rpc_call, run_event_loop)
EveryCallEnds == CallsEnd /\ AdapterCallsEnd /\ RunEnds

\* A row that says live of a session that is gone is put right, as
\* RemoteDurable states it; and the GitHub accounts shown are in the end the
\* ones there are.  (list_live_session_views, ensure_monitor_started)
ViewsCatchUp ==
    /\ \A s \in 1..2 :
         part = "links" /\ host[s] \in {"over", "killed"} ~> row[s] # "live"
    /\ part = "github" => AccountsCatchUp

\* AutomationCoordinator's AbandonedTaskFails: what a crash leaves
\* InProgress with nobody working on it is failed.  (recover_state)
AbandonedFails == part = "restart" => Restart!AbandonedTaskFails
=============================================================================
