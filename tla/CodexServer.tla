----------------------------- MODULE CodexServer -----------------------------
(***************************************************************************)
(* Agents run by a Codex app-server                                        *)
(* (pnevma-agents/src/adapters/codex_v2.rs): one server process for each   *)
(* handle, spoken to in JSON-RPC over its pipes, and one lock around the   *)
(* connections of all handles, which a caller holds while it waits for     *)
(* the server's answer.                                                    *)
(*                                                                         *)
(* Callers are <<handle, what it does>>; the lock is handed over in the    *)
(* order in which it was asked for.  Payloads and the mapping of           *)
(* notifications to events are left out, but for usage.                    *)
(***************************************************************************)
EXTENDS Integers, Sequences, FiniteSets

CONSTANTS
    Server,         \* handles of the adapter, each with its process
    Calling,        \* the calls made once a handle is there
    OwnIds,         \* ids a server gives to requests of its own
    Reports         \* bound: what a server sends unasked

Reader == {"turn", "tool"}      \* send, and interrupt or send_tool_result
Op == Reader \cup {"spawn", "stop"}
Who == Server \X Op

ASSUME ServerAssumption ==
    /\ IsFiniteSet(Server) /\ Calling \subseteq Who /\ OwnIds \subseteq Nat \ {0}
    /\ Reports \in [Server -> Nat]

VARIABLES
    linked,         \* handles in connections
    server,         \* its process: "none", "up", "down"
    stdout,         \* the task that reads it: "none", "reading", "busy", "aborted", "over"
    lastId,
    awaited,        \* ids in the connection's map
    received,       \* requests the server has not answered, and whose they are
    lines,          \* what it has written and was not read: answers, its own
                    \* requests, reports
    reports,        \* reports made
    costs,          \* handles with a cost record
    op,             \* of a caller: where it is, the id it waits for, and its
                    \* outcome
    lockLine        \* callers that wait for the lock of connections

linkVars == <<linked, op, lockLine>>
wireVars == <<server, stdout, lastId, awaited, received, lines, reports, costs>>
serverVars == <<linkVars, wireVars>>

Nobody_ == <<>>
Uncalled == [at |-> "idle", id |-> 0, result |-> Nobody_]
At_(w, s) == op[w].at = s
Turns(w, s) == op' = [op EXCEPT ![w].at = s]
Ends(w, how) == op' = [op EXCEPT ![w].at = how]

\* Whoever holds the lock: a reader while it calls, stop while it archives.
Holders == {w \in Who : At_(w, "calling") /\ w[2] # "spawn"}
MayEnter(w) ==
    /\ lockLine # <<>> /\ Head(lockLine) = w
    /\ IF w[2] \in Reader THEN \A v \in Holders : v[2] \in Reader
                          ELSE Holders = {}

-----------------------------------------------------------------------------
(* rpc_call: an id, an entry of the map, a line to the server; then the    *)
(* answer, or thirty seconds.                                              *)
\* slip: the number of the calls under way
IdOfPending(s) == Cardinality(awaited[s])

FreshId(s) == lastId[s]

Asks(w) ==
    LET s == w[1]
        i == FreshId(s)
    IN /\ op' = [op EXCEPT ![w] = [at |-> "calling", id |-> i, result |-> Nobody_]]
       /\ lastId' = [lastId EXCEPT ![s] = @ + 1]
       /\ awaited' = [awaited EXCEPT ![s] = @ \cup {i}]
       /\ received' = IF server[s] = "up"
                      THEN [received EXCEPT ![s] = @ \cup {<<i, w>>}] ELSE received

\* slip: a call waits as long as the server takes
NoAnswerLimit(w) == server[w[1]] = "down"

AnswerLimit(w) == TRUE

\* spawn: the process is started, and asked to initialize and for a thread.
StartServer(s) ==
    /\ server[s] = "none"
    /\ \/ /\ server' = [server EXCEPT ![s] = "up"]
          /\ stdout' = [stdout EXCEPT ![s] = "reading"]
          /\ op' = [op EXCEPT ![<<s, "spawn">>] =
                      [at |-> "calling", id |-> 1, result |-> Nobody_]]
          /\ lastId' = [lastId EXCEPT ![s] = 2]
          /\ awaited' = [awaited EXCEPT ![s] = {1}]
          /\ received' = [received EXCEPT ![s] = {<<1, <<s, "spawn">>>>}]
       \/ /\ server' = [server EXCEPT ![s] = "down"]
          /\ Ends(<<s, "spawn">>, "failed")
          /\ UNCHANGED <<stdout, lastId, awaited, received>>
    /\ UNCHANGED <<linked, lockLine, lines, reports, costs>>

AskThread(s) ==
    /\ At_(<<s, "spawn">>, "answered") /\ lastId[s] = 2
    /\ Asks(<<s, "spawn">>)
    /\ UNCHANGED <<linked, lockLine, server, stdout, lines, reports, costs>>

AskLink(s) ==
    /\ At_(<<s, "spawn">>, "answered") /\ lastId[s] = 3
    /\ Turns(<<s, "spawn">>, "queued")
    /\ lockLine' = Append(lockLine, <<s, "spawn">>)
    /\ UNCHANGED <<linked, wireVars>>

Link(s) ==
    /\ MayEnter(<<s, "spawn">>)
    /\ linked' = linked \cup {s}
    /\ lockLine' = Tail(lockLine)
    /\ Ends(<<s, "spawn">>, "over")
    /\ UNCHANGED wireVars

-----------------------------------------------------------------------------
(* send, interrupt, send_tool_result and stop, for a handle that spawn     *)
(* has returned.                                                           *)
Call_(w) ==
    /\ w \in Calling /\ At_(w, "idle") /\ At_(<<w[1], "spawn">>, "over")
    /\ Turns(w, "queued")
    /\ lockLine' = Append(lockLine, w)
    /\ UNCHANGED <<linked, wireVars>>

\* "no connection": the guard is dropped again at once.
FindNothing(w) ==
    /\ MayEnter(w) /\ w[2] # "spawn" /\ w[1] \notin linked
    /\ lockLine' = Tail(lockLine)
    /\ Ends(w, IF w[2] = "stop" THEN "over" ELSE "failed")
    /\ UNCHANGED <<linked, wireVars>>

AskServer(w) ==
    /\ MayEnter(w) /\ w[2] \in Reader /\ w[1] \in linked
    /\ lockLine' = Tail(lockLine)
    /\ Asks(w)
    /\ UNCHANGED <<linked, server, stdout, lines, reports, costs>>

\* slip: the lock is taken to find the connection, not to remove it
StopsAnyway(s) ==
    /\ s \in linked /\ At_(<<s, "stop">>, "queued")
    /\ lockLine' = SelectSeq(lockLine, LAMBDA w : w # <<s, "stop">>)

StopsAlone(s) ==
    /\ s \in linked /\ MayEnter(<<s, "stop">>)
    /\ lockLine' = Tail(lockLine)

\* stop takes the connection out of the map and asks for the archive.
BeginStop(s) ==
    /\ StopsAlone(s)
    /\ linked' = linked \ {s}
    /\ Asks(<<s, "stop">>)
    /\ UNCHANGED <<server, stdout, lines, reports, costs>>

\* Both tasks are aborted, the group is sent SIGTERM, and SIGKILL if it is
\* still there after five seconds; the maps are cleared.
EndStop(s) ==
    /\ op[<<s, "stop">>].at \in {"answered", "expired"}
    /\ stdout' = [stdout EXCEPT ![s] = IF @ \in {"reading", "over"} THEN "aborted" ELSE @]
    /\ costs' = costs \ {s}
    /\ Ends(<<s, "stop">>, "over")
    /\ UNCHANGED <<linked, lockLine, server, lastId, awaited, received, lines, reports>>

Expire(w) ==
    /\ At_(w, "calling") /\ AnswerLimit(w)
    /\ IF w[2] = "stop" THEN Turns(w, "expired") ELSE Ends(w, "failed")
    /\ UNCHANGED <<linked, lockLine, wireVars>>

Conclude(w) ==
    /\ At_(w, "answered") /\ w[2] \in Reader
    /\ Ends(w, "over")
    /\ UNCHANGED <<linked, lockLine, wireVars>>

-----------------------------------------------------------------------------
(* The server, and the task that reads what it writes.                     *)
AnswerCall(s) ==
    /\ server[s] = "up"
    /\ \E q \in received[s] :
        /\ received' = [received EXCEPT ![s] = @ \ {q}]
        /\ lines' = [lines EXCEPT ![s] = Append(@, q)]
    /\ UNCHANGED <<linkVars, server, stdout, lastId, awaited, reports, costs>>

\* A request of its own carries an id, as an answer does.
AskBack(s) ==
    /\ server[s] = "up" /\ reports[s] < Reports[s]
    /\ \E i \in OwnIds : lines' = [lines EXCEPT ![s] = Append(@, <<i, Nobody_>>)]
    /\ reports' = [reports EXCEPT ![s] = @ + 1]
    /\ UNCHANGED <<linkVars, server, stdout, lastId, awaited, received, costs>>

ReportUsage(s) ==
    /\ server[s] = "up" /\ reports[s] < Reports[s]
    /\ lines' = [lines EXCEPT ![s] = Append(@, <<0, Nobody_>>)]
    /\ reports' = [reports EXCEPT ![s] = @ + 1]
    /\ UNCHANGED <<linkVars, server, stdout, lastId, awaited, received, costs>>

Die(s) ==
    /\ server[s] = "up"
    /\ server' = [server EXCEPT ![s] = "down"]
    /\ UNCHANGED <<linkVars, stdout, lastId, awaited, received, lines, reports, costs>>

Taken(s) == lines' = [lines EXCEPT ![s] = Tail(@)]

\* A line whose id is in the map is the answer of the call that is there.
ReadAnswer(s) ==
    /\ stdout[s] = "reading" /\ lines[s] # <<>> /\ Head(lines[s])[1] \in awaited[s]
    /\ LET i == Head(lines[s])[1]
           here == {w \in Who : w[1] = s /\ At_(w, "calling") /\ op[w].id = i}
       IN /\ op' = [w \in Who |-> IF w \in here
                       THEN [op[w] EXCEPT !.at = "answered",
                                          !.result = Head(lines[s])[2]] ELSE op[w]]
          /\ awaited' = [awaited EXCEPT ![s] = @ \ {i}]
    /\ Taken(s)
    /\ UNCHANGED <<linked, lockLine, server, stdout, lastId, received, reports, costs>>

\* Anything else is a notification: usage writes the cost record.
ReadOther(s) ==
    /\ stdout[s] = "reading" /\ lines[s] # <<>> /\ Head(lines[s])[1] \notin awaited[s]
    /\ Taken(s)
    /\ stdout' = [stdout EXCEPT ![s] = IF Head(lines[s])[1] = 0 THEN "busy" ELSE @]
    /\ UNCHANGED <<linkVars, server, lastId, awaited, received, reports, costs>>

\* An abort does not interrupt the task between two awaits.
WriteCost(s) ==
    /\ stdout[s] = "busy"
    /\ costs' = costs \cup {s}
    /\ stdout' = [stdout EXCEPT ![s] =
                    IF op[<<s, "stop">>].at = "over" THEN "aborted" ELSE "reading"]
    /\ UNCHANGED <<linkVars, server, lastId, awaited, received, lines, reports>>

ReadEnd(s) ==
    /\ stdout[s] = "reading" /\ lines[s] = <<>> /\ server[s] = "down"
    /\ stdout' = [stdout EXCEPT ![s] = "over"]
    /\ UNCHANGED <<linkVars, server, lastId, awaited, received, lines, reports, costs>>

-----------------------------------------------------------------------------
ServerInit ==
    /\ linked = {} /\ costs = {} /\ lockLine = <<>>
    /\ server = [s \in Server |-> "none"] /\ stdout = [s \in Server |-> "none"]
    /\ lastId = [s \in Server |-> 1] /\ awaited = [s \in Server |-> {}]
    /\ received = [s \in Server |-> {}] /\ lines = [s \in Server |-> <<>>]
    /\ reports = [s \in Server |-> 0] /\ op = [w \in Who |-> Uncalled]

ServerNext ==
    \/ \E s \in Server :
        \/ StartServer(s) \/ AskThread(s) \/ AskLink(s) \/ Link(s)
        \/ BeginStop(s) \/ EndStop(s)
        \/ AnswerCall(s) \/ AskBack(s) \/ ReportUsage(s) \/ Die(s)
        \/ ReadAnswer(s) \/ ReadOther(s) \/ WriteCost(s) \/ ReadEnd(s)
    \/ \E w \in Who :
        \/ Call_(w) \/ FindNothing(w) \/ AskServer(w) \/ Expire(w) \/ Conclude(w)

\* Callers go on, their limit passes and the lock is handed over; the server
\* owes no answer.
ServerFair ==
    /\ \A s \in Server :
        WF_serverVars(AskThread(s) \/ AskLink(s) \/ Link(s) \/ BeginStop(s) \/ EndStop(s))
    /\ \A w \in Who :
        WF_serverVars(FindNothing(w) \/ AskServer(w) \/ Expire(w) \/ Conclude(w))

ServerSpec == ServerInit /\ [][ServerNext]_serverVars

-----------------------------------------------------------------------------
(* A caller that waits for an answer keeps its connection: no stop takes   *)
(* it out and aborts the task that would hand the answer over.             *)
CallersLinked ==
    \A w \in Holders : w[2] \in Reader =>
        w[1] \in linked /\ stdout[w[1]] # "aborted"

(* A caller that is answered has the answer to its own call, never the     *)
(* late one to a call that was given up.                                   *)
OkIsAnswer == \A w \in Who : At_(w, "answered") => op[w].result = w

(* What the callers of the adapter rely on.                                *)
LinksKept == CallersLinked /\ OkIsAnswer

(* Every call to the adapter returns, though it holds or waits for a lock  *)
(* that other handles need and the server says nothing.                    *)
AdapterCallsEnd ==
    \A w \in Who : op[w].at \in {"queued", "calling", "answered", "expired"}
        ~> op[w].at \in {"over", "failed"}

-----------------------------------------------------------------------------
(* What the code does not keep.                                            *)

\* A spawn that fails leaves no process: the child is dropped, which does
\* not kill it.
FailedSpawnIsGone ==
    \A s \in Server : At_(<<s, "spawn">>, "failed") => server[s] = "down"

\* stop leaves no cost record: the task it aborts may be writing one.
NoCostLeft == \A s \in Server : op[<<s, "stop">>].at = "over" => s \notin costs
=============================================================================
