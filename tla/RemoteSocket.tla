---------------------------- MODULE RemoteSocket ----------------------------
(***************************************************************************)
(* WebSocket connections to the remote access server                       *)
(* (pnevma-remote/src/routes/ws.rs): the connection slots per address, and *)
(* the loop of a connection with its rate limit, subscriptions, events and *)
(* heartbeat.                                                              *)
(*                                                                         *)
(* The slot counter is an atomic that handlers on several threads add to   *)
(* and take from; a connection's loop handles one thing at a time.         *)
(***************************************************************************)
EXTENDS Integers, FiniteSets

CONSTANTS
    Conn,           \* connections ever asked for
    Peer,           \* client addresses
    From,           \* the address a connection comes from
    Operator,       \* connections whose token has the operator role
    Channel,        \* ALLOWED_EVENT_CHANNELS
    Session,        \* sessions whose output may be subscribed to
    MaxWs,          \* max_ws_per_ip
    MaxSubs,        \* MAX_SUBSCRIPTIONS_PER_CONNECTION
    MaxMessages,    \* max_messages_per_second
    MaxViolations,  \* max_consecutive_rate_violations
    PingsToIdle,    \* pings within WS_IDLE_TIMEOUT
    Capacity,       \* of the broadcast channel of events
    MaxEvents,      \* bound: events published
    AllowInput      \* allow_session_input

ASSUME SocketAssumption ==
    /\ IsFiniteSet(Conn) /\ From \in [Conn -> Peer] /\ Operator \subseteq Conn
    /\ Channel \cap Session = {}
    /\ MaxWs \in Nat /\ MaxSubs \in Nat
    /\ MaxMessages \in Nat \ {0} /\ MaxViolations \in Nat \ {0}
    /\ PingsToIdle \in Nat \ {0} /\ Capacity \in Nat \ {0} /\ MaxEvents \in Nat

VARIABLES
    counter,    \* connection_counts by address
    conn,       \* where each connection is
    ahead,      \* what fetch_add returned to it
    subs,       \* subscribed_channels
    inputs,     \* subscribed_sessions
    rate,       \* message_count, whether its window is over, violations
    silent,     \* pings since the last activity of the client
    cursor,     \* next event to receive
    events,     \* events published
    sessions    \* what session.list returns

slotVars == <<counter, conn, ahead>>
loopVars == <<subs, inputs, rate, silent, cursor>>
socketVars == <<slotVars, loopVars, events, sessions>>

NoRate == [count |-> 0, over |-> FALSE, violations |-> 0]
At(c, s) == conn[c] = s
Goto(c, s) == conn' = [conn EXCEPT ![c] = s]

-----------------------------------------------------------------------------
(* ws_handler: a slot is taken before it is known whether there is one.    *)
Claim(c) ==
    /\ At(c, "new")
    /\ counter' = [counter EXCEPT ![From[c]] = @ + 1]
    /\ ahead' = [ahead EXCEPT ![c] = counter[From[c]]]
    /\ Goto(c, "claimed")
    /\ UNCHANGED <<loopVars, events, sessions>>

\* slip: one connection too many is let in
FullAfter(c) == ahead[c] > MaxWs

Full(c) == ahead[c] >= MaxWs

\* slip: the slot that was claimed is not given back
KeepSlot(c) == UNCHANGED counter

Free(c) == counter' = [counter EXCEPT ![From[c]] = @ - 1]

Reject(c) ==
    /\ At(c, "claimed") /\ Full(c)
    /\ Free(c) /\ Goto(c, "closed")
    /\ UNCHANGED <<ahead, loopVars, events, sessions>>

Accept(c) ==
    /\ At(c, "claimed") /\ ~Full(c)
    /\ Goto(c, "accepted")
    /\ UNCHANGED <<counter, ahead, loopVars, events, sessions>>

(* on_upgrade: the loop starts, with the events from here on, when the     *)
(* connection has been upgraded; when that fails (the client is gone) the  *)
(* closure that would give the slot back is dropped without being run.     *)
Upgrade(c) ==
    /\ At(c, "accepted")
    /\ Goto(c, "open")
    /\ cursor' = [cursor EXCEPT ![c] = events + 1]
    /\ UNCHANGED <<counter, ahead, subs, inputs, rate, silent, events, sessions>>

UpgradeFails(c) ==
    /\ At(c, "accepted") /\ Goto(c, "lost")
    /\ UNCHANGED <<counter, ahead, loopVars, events, sessions>>

(* handle_socket has returned; the slot is released after it.              *)
Release(c) ==
    /\ At(c, "leaving")
    /\ Free(c) /\ Goto(c, "closed")
    /\ subs' = [subs EXCEPT ![c] = {}] /\ inputs' = [inputs EXCEPT ![c] = {}]
    /\ rate' = [rate EXCEPT ![c] = NoRate]
    /\ silent' = [silent EXCEPT ![c] = 0] /\ cursor' = [cursor EXCEPT ![c] = 0]
    /\ UNCHANGED <<ahead, events, sessions>>

-----------------------------------------------------------------------------
(* handle_socket                                                           *)

(* The client goes away, or what is sent to it does not arrive.            *)
Hangup(c) ==
    /\ At(c, "open") /\ Goto(c, "leaving")
    /\ UNCHANGED <<counter, ahead, loopVars, events, sessions>>

(* A message is counted in its window, which is a new one when the last is *)
(* a second old.                                                           *)
Counted(c) == IF rate[c].over THEN 1 ELSE rate[c].count + 1
TooMany(c) == Counted(c) > MaxMessages
Heard(c) == silent' = [silent EXCEPT ![c] = 0]
SetRate(c, violations) ==
    rate' = [rate EXCEPT ![c] = [count |-> Counted(c), over |-> FALSE, violations |-> violations]]

Throttle(c) ==
    /\ At(c, "open") /\ TooMany(c)
    /\ Heard(c)
    /\ SetRate(c, rate[c].violations + 1)
    /\ IF rate[c].violations + 1 >= MaxViolations THEN Goto(c, "leaving") ELSE UNCHANGED conn
    /\ UNCHANGED <<counter, ahead, subs, inputs, cursor, events, sessions>>

(* A message within the limit is looked at.                                *)
Message(c) ==
    /\ At(c, "open") /\ ~TooMany(c)
    /\ Heard(c) /\ SetRate(c, 0)
    /\ UNCHANGED <<slotVars, cursor, events, sessions>>

(* Malformed messages, rpc calls and refused requests change nothing more. *)
Answer(c) == Message(c) /\ UNCHANGED <<subs, inputs>>

Subscribe(c, ch) ==
    /\ ch \in subs[c] \/ Cardinality(subs[c]) < MaxSubs
    /\ ch \in Session => ch \in sessions
    /\ Message(c)
    /\ subs' = [subs EXCEPT ![c] = @ \cup {ch}]
    /\ inputs' = [inputs EXCEPT ![c] = @ \cup ({ch} \cap Session)]

\* slip: the session stays open for input
Leave(c, ch) == inputs[c]

Without(c, ch) == inputs[c] \ {ch}

Unsubscribe(c, ch) ==
    /\ Message(c)
    /\ subs' = [subs EXCEPT ![c] = @ \ {ch}]
    /\ inputs' = [inputs EXCEPT ![c] = Without(c, ch)]

(* session.send_input is routed for an operator that has subscribed.       *)
MaySend(c, s) == AllowInput /\ s \in inputs[c] /\ c \in Operator
SendInput(c, s) == MaySend(c, s) /\ Answer(c)

(* Only text, ping and pong count as activity; a binary message does not.  *)
Pong(c) ==
    /\ At(c, "open") /\ silent[c] > 0
    /\ Heard(c)
    /\ UNCHANGED <<slotVars, subs, inputs, rate, cursor, events, sessions>>

\* slip: each ping starts the wait again
PingIsActivity(c) == 1

SilentFor(c) == silent[c] + 1

Heartbeat(c) ==
    /\ At(c, "open")
    /\ silent' = [silent EXCEPT ![c] = SilentFor(c)]
    /\ IF SilentFor(c) > PingsToIdle THEN Goto(c, "leaving") ELSE UNCHANGED conn
    /\ UNCHANGED <<counter, ahead, subs, inputs, rate, cursor, events, sessions>>

(* tokio's broadcast channel keeps the last events; a receiver that is     *)
(* further behind is told so once and goes on with the oldest that is      *)
(* left, which the loop takes for no event at all.                         *)
Oldest == IF events > Capacity THEN events - Capacity + 1 ELSE 1

Receive(c) ==
    /\ At(c, "open") /\ cursor[c] <= events
    /\ cursor' = [cursor EXCEPT ![c] = IF @ < Oldest THEN Oldest ELSE @ + 1]
    /\ UNCHANGED <<slotVars, subs, inputs, rate, silent, events, sessions>>

Publish ==
    /\ events < MaxEvents
    /\ events' = events + 1
    /\ UNCHANGED <<slotVars, loopVars, sessions>>

Second(c) ==
    /\ At(c, "open") /\ ~rate[c].over
    /\ rate' = [rate EXCEPT ![c].over = TRUE]
    /\ UNCHANGED <<slotVars, subs, inputs, silent, cursor, events, sessions>>

SessionsChange ==
    /\ \E s \in Session : sessions' = (sessions \ {s}) \cup ({s} \ sessions)
    /\ UNCHANGED <<slotVars, loopVars, events>>

-----------------------------------------------------------------------------
SocketInit ==
    /\ counter = [ip \in Peer |-> 0] /\ conn = [c \in Conn |-> "new"]
    /\ ahead = [c \in Conn |-> 0]
    /\ subs = [c \in Conn |-> {}] /\ inputs = [c \in Conn |-> {}]
    /\ rate = [c \in Conn |-> NoRate]
    /\ silent = [c \in Conn |-> 0] /\ cursor = [c \in Conn |-> 0]
    /\ events = 0 /\ sessions = Session

ConnStep(c) ==
    \/ Claim(c) \/ Reject(c) \/ Accept(c) \/ Upgrade(c) \/ UpgradeFails(c) \/ Release(c)
    \/ Hangup(c) \/ Throttle(c) \/ Answer(c) \/ Pong(c) \/ Heartbeat(c) \/ Receive(c)
    \/ Second(c)
    \/ \E ch \in Channel \cup Session : Subscribe(c, ch) \/ Unsubscribe(c, ch)
    \/ \E s \in Session : SendInput(c, s)

SocketNext == (\E c \in Conn : ConnStep(c)) \/ Publish \/ SessionsChange

SocketSpec == SocketInit /\ [][SocketNext]_socketVars

(* The runtime runs each connection's handler and its heartbeat, whatever  *)
(* its client does.                                                        *)
SocketFair ==
    \A c \in Conn : /\ WF_socketVars(Reject(c)) /\ WF_socketVars(Accept(c))
                    /\ WF_socketVars(Upgrade(c) \/ UpgradeFails(c))
                    /\ WF_socketVars(Release(c)) /\ WF_socketVars(Heartbeat(c))

-----------------------------------------------------------------------------
Holding == {"claimed", "accepted", "open", "leaving"}
OfIp(ip, stages) == {c \in Conn : From[c] = ip /\ conn[c] \in stages}

SocketTypeOK ==
    /\ counter \in [Peer -> Int] /\ ahead \in [Conn -> Int]
    /\ conn \in [Conn -> {"new", "claimed", "accepted", "open", "leaving", "closed", "lost"}]

(* Every handler that took a slot gives it back once, whichever way its    *)
(* loop ends: the counter of an address is the number of its connections   *)
(* that have not returned it yet, and of those whose upgrade failed, which *)
(* never do.                                                               *)
SlotsBalance ==
    \A ip \in Peer : counter[ip] = Cardinality(OfIp(ip, Holding \cup {"lost"}))

(* fetch_add before the check: however the handlers interleave, an address *)
(* has no more than max_ws_per_ip connections.                             *)
OpenBounded ==
    \A ip \in Peer : Cardinality(OfIp(ip, {"accepted", "open", "leaving"})) <= MaxWs

(* Input goes only to a session whose channel the connection is still      *)
(* subscribed to: the two sets are kept in step.                           *)
InputNeedsChannel ==
    \A c \in Conn : inputs[c] = subs[c] \cap Session /\ Cardinality(subs[c]) <= MaxSubs

(* What the handler of one connection takes it gives back, whatever the    *)
(* others do.                                                              *)
SocketsAccounted == SlotsBalance /\ OpenBounded /\ InputNeedsChannel

(* A client that is gone without a word does not hold its slot for ever:   *)
(* it is heard of again, or closed.                                        *)
SilentIsClosed ==
    \A c \in Conn : silent[c] > 0 ~> silent[c] = 0
=============================================================================
