------------------------------ MODULE MCServices -----------------------------
(* The parts that face agents, helpers and clients: the pool, the remote   *)
(* server, the connection to a remote helper and its sessions, the rows of *)
(* remote sessions, and agent teams.  They share nothing the models keep:  *)
(* a behaviour picks one and lets it alone take steps; the state of the    *)
(* others stays as it is at the start.                                     *)
EXTENDS TLC, DispatchPool, RemoteLogin, RemoteSocket, RemoteRpc, HelperSession,
        RemoteDurable, AgentTeam

CONSTANTS p1, p2, r1, r2, a1, c1, c2, d1, q1, t1, v1, x1

VARIABLE part

AllFromOne == [c \in Conn |-> a1]

\* Swapping either pair everywhere changes nothing.
Symmetric == Permutations({p1, p2}) \cup Permutations({r1, r2})

\* Of the team, either two members are spawned side by side, or a durable
\* one is waited for and closed, and the project opened again.
PairNext ==
    TeamNext /\ spawns'[a1] = spawns[a1] /\ closes' = closes /\ opened' = opened
SingleNext == TeamNext /\ \A m \in {p1, p2} : spawns'[m] = spawns[m]

\* Of the commands on remote sessions, beside connecting, either listing and
\* disconnecting run, or reattaching and restarting.
LinksNext == DurableNext /\ \A f \in {q1, x1} : flow'[f] = flow[f]
AgainNext == DurableNext /\ \A f \in {v1, d1} : flow'[f] = flow[f]

ServicesInit ==
    /\ part \in {"pool", "login", "socket", "rpc", "helper", "pair", "single", "links", "again"}
    /\ Init /\ LoginInit /\ SocketInit /\ RpcInit /\ HelperInit
    /\ TeamInit /\ DurableInit

ServicesNext ==
    /\ UNCHANGED part
    /\ IF part = "pool" THEN Next ELSE UNCHANGED vars
    /\ IF part = "login" THEN LoginNext ELSE UNCHANGED loginVars
    /\ IF part = "socket" THEN SocketNext ELSE UNCHANGED socketVars
    /\ IF part = "rpc" THEN RpcNext ELSE UNCHANGED rpcVars
    /\ IF part = "helper" THEN HelperNext ELSE UNCHANGED helperVars
    /\ CASE part = "pair" -> PairNext
         [] part = "single" -> SingleNext
         [] OTHER -> UNCHANGED teamVars
    /\ CASE part = "links" -> LinksNext
         [] part = "again" -> AgainNext
         [] OTHER -> UNCHANGED durableVars

ServicesSpec ==
    ServicesInit /\ [][ServicesNext]_<<part, vars, loginVars, socketVars, rpcVars,
                                       helperVars, teamVars, durableVars>>
=============================================================================
