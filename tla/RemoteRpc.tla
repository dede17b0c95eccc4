------------------------------ MODULE RemoteRpc ------------------------------
(***************************************************************************)
(* How the application reaches the remote helper of one host               *)
(* (pnevma-ssh/src/rpc_client.rs, rpc_pool.rs, rpc_tunnel.rs and the calls *)
(* of remote_helper.rs): one ssh tunnel, one connection to the helper's    *)
(* `serve` mode, ten seconds for an answer, and a plain ssh command when   *)
(* that gave none.  `serve` takes the lines of a connection one by one.    *)
(***************************************************************************)
EXTENDS Naturals, FiniteSets, Sequences

CONSTANTS
    Call,       \* calls of create, status, signal, terminate and list
    Listing,    \* those of session.list, which has no ssh command
    MaxBreaks,  \* how often a connection may break
    MaxClients, \* how many connections are made at most
    Nobody

ASSUME RpcAssumption == Nobody \notin Call /\ MaxClients \in Nat

VARIABLES
    pc,        \* where each call is
    mine,      \* the connection each call uses
    answer,    \* the call whose answer each call returned
    poolLock,  \* the call that holds the pool's map
    entry,     \* the connection in the pool, 0 if none
    made,      \* connections made so far
    tunnels,   \* those whose ssh process runs
    up,        \* those `serve` still has at the other end
    alive,     \* those whose reader has not seen the end
    nextId, pending, \* of each connection: the counter, and who waits for what
    requests, responses, \* lines on their way
    breaks,
    done       \* how often the host has done what each call asks

rpcVars == <<pc, mine, answer, poolLock, entry, made, tunnels, up, alive,
             nextId, pending, requests, responses, breaks, done>>
hostVars == <<up, requests, responses, breaks, done>>
poolVars == <<poolLock, entry, made, tunnels>>

Client == 1..MaxClients
Goes(c, stage) == pc' = [pc EXCEPT ![c] = stage]

\* What a call does when the connection gave it nothing.
WithoutRpc(c) == IF c \in Listing THEN "error" ELSE "ssh"

-----------------------------------------------------------------------------
(* RpcPool::get_or_connect, which keeps the map locked while it connects   *)

BeginCall(c) ==
    /\ pc[c] = "idle" /\ Goes(c, "pool")
    /\ UNCHANGED <<mine, answer, poolVars, alive, nextId, pending, hostVars>>

\* slip: the map is not kept locked
MapIsOpen == TRUE

MapIsFree == poolLock = Nobody

\* The connection in the pool is used while its reader lives.
Reuse(c) ==
    /\ pc[c] = "pool" /\ MapIsFree
    /\ entry \in alive
    /\ mine' = [mine EXCEPT ![c] = entry]
    /\ Goes(c, "send")
    /\ UNCHANGED <<answer, poolVars, alive, nextId, pending, hostVars>>

\* Another one is dropped, its ssh process with it, and a new one opened.
Open(c) ==
    /\ pc[c] = "pool" /\ MapIsFree
    /\ entry \notin alive
    /\ poolLock' = c
    /\ tunnels' = tunnels \ {entry}
    /\ entry' = 0
    /\ Goes(c, "opening")
    /\ UNCHANGED <<mine, answer, made, alive, nextId, pending, hostVars>>

\* RpcTunnel::open: the ssh process is started and its socket waited for.
StartSsh(c) ==
    /\ pc[c] = "opening" /\ made < MaxClients
    /\ made' = made + 1
    /\ tunnels' = tunnels \cup {made + 1}
    /\ mine' = [mine EXCEPT ![c] = made + 1]
    /\ Goes(c, "opened")
    /\ UNCHANGED <<answer, poolLock, entry, alive, nextId, pending, hostVars>>

\* RpcClient::connect; an entry replaced in the map is dropped.
Connect(c) ==
    LET k == mine[c]
    IN  /\ pc[c] = "opened" /\ k \in tunnels
        /\ poolLock' = Nobody
        /\ tunnels' = tunnels \ {entry}
        /\ entry' = k
        /\ up' = up \cup {k}
        /\ alive' = alive \cup {k}
        /\ Goes(c, "send")
    /\ UNCHANGED <<mine, answer, made, nextId, pending, requests, responses,
                   breaks, done>>

\* A tunnel whose socket never came, or that no one answers at, is dropped.
Abandoned(c) == IF pc[c] = "opened" THEN {mine[c]} ELSE {}
OpenFails(c) ==
    /\ pc[c] \in {"opening", "opened"}
    /\ poolLock' = Nobody
    /\ tunnels' = tunnels \ Abandoned(c)
    /\ Goes(c, WithoutRpc(c))
    /\ UNCHANGED <<mine, answer, entry, made, alive, nextId, pending, hostVars>>

-----------------------------------------------------------------------------
(* RpcClient::call                                                         *)

\* slip: the numbers still waited for are counted
IdFromPending(k) == Cardinality(pending[k]) + 1

RequestId(k) == nextId[k]
Insert(map, id, c) == {p \in map : p.id # id} \cup {[id |-> id, call |-> c]}

\* A request is numbered, awaited and written; to a connection that is gone
\* the write may fail at once or be lost.
Send(c) ==
    LET k == mine[c]
        id == RequestId(k)
    IN  /\ pc[c] = "send" /\ k \in alive
        /\ nextId' = [nextId EXCEPT ![k] = @ + 1]
        /\ pending' = [pending EXCEPT ![k] = Insert(@, id, c)]
        /\ \/ /\ k \in up
              /\ requests' = [requests EXCEPT
                                ![k] = Append(@, [call |-> c, id |-> id])]
              /\ Goes(c, "wait")
           \/ /\ k \notin up
              /\ \/ Goes(c, "wait") \/ Goes(c, WithoutRpc(c))
              /\ UNCHANGED requests
        /\ UNCHANGED <<mine, answer, poolVars, alive, up, responses, breaks, done>>

FindClosed(c) ==
    /\ pc[c] = "send" /\ mine[c] \notin alive
    /\ Goes(c, WithoutRpc(c))
    /\ UNCHANGED <<mine, answer, poolVars, alive, nextId, pending, hostVars>>

\* slip: the end of the connection is relied on
WaitForEnd(c) ==
    /\ pc[c] = "wait" /\ mine[c] \notin alive
    /\ Goes(c, WithoutRpc(c))
    /\ UNCHANGED <<mine, answer, poolVars, alive, nextId, pending, hostVars>>

\* RPC_CALL_TIMEOUT.  The number stays among those waited for, and the
\* caller of a connection that ended waits as long as any other.
TimeOut(c) ==
    /\ pc[c] = "wait"
    /\ Goes(c, WithoutRpc(c))
    /\ UNCHANGED <<mine, answer, poolVars, alive, nextId, pending, hostVars>>

\* The reader gives a response to the call its number is kept for, which may
\* have stopped waiting.
Read(k) ==
    /\ responses[k] # <<>>
    /\ LET got == Head(responses[k])
           found == {p \in pending[k] : p.id = got.id}
           heard == {p.call : p \in found} \cap {c \in Call : pc[c] = "wait"}
       IN  /\ pending' = [pending EXCEPT ![k] = @ \ found]
           /\ pc' = [c \in Call |-> IF c \in heard THEN "ok" ELSE pc[c]]
           /\ answer' = [c \in Call |-> IF c \in heard THEN got.call
                                        ELSE answer[c]]
    /\ responses' = [responses EXCEPT ![k] = Tail(@)]
    /\ UNCHANGED <<mine, poolVars, alive, nextId, up, requests, breaks, done>>

\* `serve` or the ssh process ends: what was on its way is lost, except that
\* the first request may have been taken up.
Break(k) ==
    /\ k \in tunnels \cup up /\ breaks < MaxBreaks
    /\ breaks' = breaks + 1
    /\ up' = up \ {k}
    /\ tunnels' \in {tunnels, tunnels \ {k}}
    /\ \E taken \in {0, 1} : requests' = [requests EXCEPT
            ![k] = IF @ = <<>> THEN @ ELSE SubSeq(@, 1, taken)]
    /\ responses' = [responses EXCEPT ![k] = <<>>]
    /\ UNCHANGED <<pc, mine, answer, poolLock, entry, made, alive, nextId,
                   pending, done>>

NoticeEnd(k) ==
    /\ k \in alive \ up
    /\ alive' = alive \ {k}
    /\ UNCHANGED <<pc, mine, answer, poolVars, nextId, pending, hostVars>>

-----------------------------------------------------------------------------
(* The host: handle_connection of serve.rs, and the ssh command            *)

\* What a call asks for fails, before or after it had its effect, or is done.
Outcome == [ok : {TRUE, FALSE}, effect : {0, 1}] \ {[ok |-> TRUE, effect |-> 0]}

\* An error of a session's operation answers request 0, not its own.
ErrorId == 0
Serve(k) ==
    /\ requests[k] # <<>>
    /\ LET asked == Head(requests[k])
       IN  \E o \in Outcome :
             /\ done' = [done EXCEPT ![asked.call] = @ + o.effect]
             /\ responses' = IF k \notin up THEN responses
                ELSE [responses EXCEPT ![k] = Append(@,
                        [call |-> asked.call,
                         id |-> IF o.ok THEN asked.id ELSE ErrorId])]
    /\ requests' = [requests EXCEPT ![k] = Tail(@)]
    /\ UNCHANGED <<pc, mine, answer, poolVars, alive, nextId, pending, up, breaks>>

\* slip: the error of the command is dropped
SshOk(o) == "ok"

SshResult(o) == IF o.ok THEN "ok" ELSE "error"
Ssh(c) ==
    /\ pc[c] = "ssh"
    /\ \E o \in Outcome :
         /\ done' = [done EXCEPT ![c] = @ + o.effect]
         /\ Goes(c, SshResult(o))
         /\ answer' = IF SshResult(o) = "ok" THEN [answer EXCEPT ![c] = c]
                      ELSE answer
    /\ UNCHANGED <<mine, poolVars, alive, nextId, pending, up, requests,
                   responses, breaks>>

-----------------------------------------------------------------------------
RpcInit ==
    /\ pc = [c \in Call |-> "idle"]
    /\ mine = [c \in Call |-> 0]
    /\ answer = [c \in Call |-> Nobody]
    /\ poolLock = Nobody /\ entry = 0 /\ made = 0
    /\ tunnels = {} /\ up = {} /\ alive = {}
    /\ nextId = [k \in Client |-> 1]
    /\ pending = [k \in Client |-> {}]
    /\ requests = [k \in Client |-> <<>>]
    /\ responses = [k \in Client |-> <<>>]
    /\ breaks = 0
    /\ done = [c \in Call |-> 0]

CallStep(c) == Reuse(c) \/ Open(c) \/ StartSsh(c) \/ Connect(c)
               \/ OpenFails(c) \/ Send(c) \/ FindClosed(c) \/ TimeOut(c)
               \/ Ssh(c)
RpcNext ==
    \/ \E c \in Call : BeginCall(c) \/ CallStep(c)
    \/ \E k \in Client : Read(k) \/ Serve(k) \/ Break(k) \/ NoticeEnd(k)

\* A call that was begun goes on; nothing is assumed of the host.
RpcFair == \A c \in Call : WF_rpcVars(CallStep(c))
RpcSpec == RpcInit /\ [][RpcNext]_rpcVars /\ RpcFair

-----------------------------------------------------------------------------
\* What a call returns is the answer to that call, however many connections,
\* late answers and abandoned numbers there were.  (RpcClient::call)
AnswerIsOwn == \A c \in Call : answer[c] \in {Nobody, c}

\* A call that reports success was carried out on the host.
\* (the *_remote_session functions)
OkWasDone == \A c \in Call : pc[c] = "ok" => done[c] > 0

\* Only one ssh process serves a host: a tunnel binds the socket file all of
\* them use, and the next one removes it.  (RpcPool::get_or_connect)
OneTunnel == Cardinality(tunnels) <= 1

\* What a call reports is what the host did with that very call.
AnswersAreTrue == AnswerIsOwn /\ OkWasDone /\ OneTunnel

\* A call ends although the host may never answer, and although an answer
\* that is an error carries no number.  (RPC_CALL_TIMEOUT)
CallsEnd == \A c \in Call : pc[c] = "pool" ~> pc[c] \in {"ok", "error"}

\* Refuted: what a call asks for is done once.  A request that was carried
\* out late, or whose error came back under number 0, is made again by ssh.
DoneOnce == \A c \in Call : done[c] <= 1

\* Refuted: once no call is under way no number is waited for.
NoneForgotten == (\A c \in Call : pc[c] \in {"idle", "ok", "error"})
                     => \A k \in Client : pending[k] = {}
=============================================================================
