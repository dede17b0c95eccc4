----------------------------- MODULE RemoteProofs -----------------------------
(***************************************************************************)
(* Theorems about the ends of a remote connection: the connection slots of *)
(* RemoteSocket, the calls of RemoteRpc and the locks and tokens of        *)
(* RemoteLogin, for every finite set of connections and every set of       *)
(* addresses, sessions, calls, requests and tokens; and about the other    *)
(* end, the session on the remote host that HelperSession models, for      *)
(* every set of process numbers and of helper commands, and the rows of    *)
(* such sessions, which RemoteDurable models, for every set of commands    *)
(* and every number of sessions.                                           *)
(***************************************************************************)
EXTENDS RemoteSocket, RemoteRpc, RemoteLogin, HelperSession, RemoteDurable,
        FiniteSetTheorems, WellFoundedInduction, TLAPS

(* What is in a connection's sets, beside the fields of SocketTypeOK.      *)
ListsTyped ==
    /\ subs \in [Conn -> SUBSET (Channel \cup Session)]
    /\ inputs \in [Conn -> SUBSET Session]
    /\ \A c \in Conn : IsFiniteSet(subs[c])

(* The connections of an address that are let in, or will be: they were    *)
(* counted when fewer than max_ws_per_ip were.                             *)
Admitted(ip) ==
    {c \in Conn : From[c] = ip /\ \/ At(c, "claimed") /\ ~Full(c)
                                  \/ conn[c] \in {"accepted", "open", "leaving"}}
Slots(ip) == OfIp(ip, Holding \cup {"lost"})

AdmittedBounded == \A ip \in Peer : Cardinality(Admitted(ip)) <= MaxWs

SocketIInv ==
    SocketTypeOK /\ ListsTyped /\ SlotsBalance /\ AdmittedBounded /\ InputNeedsChannel

(* Every set of connections that is counted is finite.                     *)
LEMMA ConnSetsFinite ==
    \A ip, stages : /\ IsFiniteSet(OfIp(ip, stages))
                    /\ IsFiniteSet(Admitted(ip)) /\ IsFiniteSet(Slots(ip))
<1>1. \A S \in SUBSET Conn : IsFiniteSet(S)
    BY SocketAssumption, FS_Subset
<1>2. QED
    BY <1>1 DEF OfIp, Admitted, Slots

(* The steps that concern the slots: one is taken, given back, or kept.    *)
LEMMA SlotsStep ==
    ASSUME SocketIInv, NEW c \in Conn
    PROVE  /\ Claim(c) => SlotsBalance' /\ AdmittedBounded'
           /\ Reject(c) \/ Release(c) => SlotsBalance' /\ AdmittedBounded'
           /\ Accept(c) \/ Upgrade(c) \/ UpgradeFails(c) \/ Hangup(c)
                => SlotsBalance' /\ AdmittedBounded'
<1> USE DEF SocketIInv, SocketTypeOK, At, Goto
<1>0. /\ From[c] \in Peer /\ MaxWs \in Nat
      /\ \A ip \in Peer : Cardinality(Slots(ip)) \in Nat /\ Cardinality(Admitted(ip)) \in Nat
    BY SocketAssumption, ConnSetsFinite, FS_CardinalityType
<1>b. /\ \A ip \in Peer : counter[ip] = Cardinality(Slots(ip))
      /\ (\A ip \in Peer : counter'[ip] = Cardinality(Slots(ip)')) => SlotsBalance'
    BY DEF SlotsBalance, Slots
<1>1. ASSUME Claim(c)
      PROVE  SlotsBalance' /\ AdmittedBounded'
    <2>1. /\ c \notin Slots(From[c]) /\ Slots(From[c])' = Slots(From[c]) \cup {c}
          /\ \A ip \in Peer \ {From[c]} : Slots(ip)' = Slots(ip)
        BY <1>1, <1>0 DEF Claim, Slots, OfIp, Holding
    <2>0. Cardinality(Slots(From[c])') = Cardinality(Slots(From[c])) + 1
        BY <2>1, ConnSetsFinite, FS_AddElement
    <2>2. SlotsBalance'
        BY <1>1, <1>0, <1>b, <2>1, <2>0 DEF Claim
    <2>3. \A ip \in Peer \ {From[c]} : Admitted(ip)' = Admitted(ip)
        BY <1>1, <1>0 DEF Claim, Admitted, Full
    <2>4. CASE counter[From[c]] >= MaxWs
        <3>1. Admitted(From[c])' = Admitted(From[c])
            BY <1>1, <1>0, <2>4 DEF Claim, Admitted, Full
        <3>2. QED
            BY <2>2, <2>3, <3>1 DEF AdmittedBounded
    <2>5. CASE counter[From[c]] < MaxWs
        <3>1. Admitted(From[c])' \subseteq Slots(From[c])'
            BY <1>1, <1>0 DEF Admitted, Slots, OfIp, Holding
        <3>2. Cardinality(Slots(From[c])') = counter[From[c]] + 1
            BY <1>0, <1>b, <2>0
        <3>3. IsFiniteSet(Slots(From[c])')
            BY <2>1, ConnSetsFinite, FS_AddElement
        <3>4. Cardinality(Admitted(From[c])') <= Cardinality(Slots(From[c])')
            BY <3>1, <3>3, FS_Subset
        <3>5. Cardinality(Admitted(From[c])') \in Nat
            BY <3>1, <3>3, FS_Subset, FS_CardinalityType
        <3>6. Cardinality(Admitted(From[c])') <= MaxWs
            BY <1>0, <2>5, <3>2, <3>4, <3>5
        <3>7. QED
            BY <2>2, <2>3, <3>6 DEF AdmittedBounded
    <2>6. QED
        BY <1>0, <2>2, <2>4, <2>5
<1>2. ASSUME \A ip \in Peer : Admitted(ip)' \subseteq Admitted(ip)
      PROVE  AdmittedBounded'
    <2>1. \A ip \in Peer :
              /\ Cardinality(Admitted(ip)') \in Nat
              /\ Cardinality(Admitted(ip)') <= Cardinality(Admitted(ip))
        BY <1>2, ConnSetsFinite, FS_Subset, FS_CardinalityType
    <2>2. QED
        BY <1>0, <2>1 DEF AdmittedBounded
<1>3. ASSUME Reject(c) \/ Release(c)
      PROVE  SlotsBalance' /\ AdmittedBounded'
    <2>1. /\ c \in Slots(From[c]) /\ Slots(From[c])' = Slots(From[c]) \ {c}
          /\ \A ip \in Peer \ {From[c]} : Slots(ip)' = Slots(ip)
        BY <1>3, <1>0 DEF Reject, Release, Slots, OfIp, Holding
    <2>0. Cardinality(Slots(From[c])') = Cardinality(Slots(From[c])) - 1
        BY <2>1, ConnSetsFinite, FS_RemoveElement
    <2>2. SlotsBalance'
        <3>1. \A ip \in Peer : counter'[ip] = IF ip = From[c] THEN counter[ip] - 1
                                                            ELSE counter[ip]
            BY <1>3, <1>0 DEF Reject, Release, Free
        <3>2. QED
            BY <1>0, <1>b, <2>1, <2>0, <3>1
    <2>3. \A ip \in Peer : Admitted(ip)' \subseteq Admitted(ip)
        BY <1>3 DEF Reject, Release, Admitted, Full
    <2>4. QED
        BY <1>2, <2>2, <2>3
<1>4. ASSUME Accept(c) \/ Upgrade(c) \/ UpgradeFails(c) \/ Hangup(c)
      PROVE  SlotsBalance' /\ AdmittedBounded'
    <2>1. \A ip \in Peer : Slots(ip)' = Slots(ip) /\ Admitted(ip)' \subseteq Admitted(ip)
        BY <1>4
           DEF Accept, Upgrade, UpgradeFails, Hangup, Slots, OfIp, Holding, Admitted, Full
    <2>2. QED
        BY <1>2, <1>4, <2>1
           DEF Accept, Upgrade, UpgradeFails, Hangup, SlotsBalance, Slots
<1>5. QED
    BY <1>1, <1>3, <1>4

(* The loop of a connection leaves the slots alone, but for its end.       *)
LoopStep(c) ==
    \/ Throttle(c) \/ Answer(c) \/ Pong(c) \/ Heartbeat(c) \/ Receive(c) \/ Second(c)
    \/ \E ch \in Channel \cup Session : Subscribe(c, ch) \/ Unsubscribe(c, ch)
    \/ \E s \in Session : SendInput(c, s)

LEMMA LoopSlots ==
    ASSUME SocketIInv, NEW c \in Conn, LoopStep(c)
    PROVE  SlotsBalance' /\ AdmittedBounded' /\ SocketTypeOK'
<1> USE DEF SocketIInv, SocketTypeOK, At, Goto, slotVars
<1>1. /\ counter' = counter /\ ahead' = ahead
      /\ conn' \in {conn, [conn EXCEPT ![c] = "leaving"]} /\ conn[c] = "open"
    BY DEF LoopStep, Throttle, Answer, Message, Pong, Heartbeat, Receive, Second,
           Subscribe, Unsubscribe, SendInput
<1>2. /\ \A ip \in Peer : Slots(ip)' = Slots(ip) /\ Admitted(ip)' = Admitted(ip)
    BY <1>1 DEF Slots, OfIp, Holding, Admitted, Full
<1>3. QED
    BY <1>1, <1>2 DEF SlotsBalance, AdmittedBounded, Slots

(* Subscriptions and inputs move together.                                 *)
LEMMA SubsStep ==
    ASSUME SocketIInv, [SocketNext]_socketVars
    PROVE  ListsTyped' /\ InputNeedsChannel'
<1> USE DEF SocketIInv, ListsTyped, InputNeedsChannel
<1>0. Channel \cap Session = {} /\ MaxSubs \in Nat
    BY SocketAssumption
<1>1. ASSUME UNCHANGED <<subs, inputs>>
      PROVE  ListsTyped' /\ InputNeedsChannel'
    BY <1>1
<1>2. ASSUME NEW c \in Conn, NEW S, IsFiniteSet(S), S \subseteq Channel \cup Session,
             Cardinality(S) <= MaxSubs,
             subs' = [subs EXCEPT ![c] = S], inputs' = [inputs EXCEPT ![c] = S \cap Session]
      PROVE  ListsTyped' /\ InputNeedsChannel'
    BY <1>2
<1>3. ASSUME NEW c \in Conn, Release(c)
      PROVE  ListsTyped' /\ InputNeedsChannel'
    <2>1. {} \cap Session = {}
        OBVIOUS
    <2>2. QED
        BY <1>0, <1>2, <1>3, <2>1, FS_EmptySet DEF Release
<1>4. ASSUME NEW c \in Conn, NEW ch \in Channel \cup Session, Subscribe(c, ch)
      PROVE  ListsTyped' /\ InputNeedsChannel'
    <2> DEFINE S == subs[c] \cup {ch}
    <2>1. IsFiniteSet(S) /\ Cardinality(S) <= MaxSubs
        <3>1. /\ IsFiniteSet(subs[c]) /\ Cardinality(subs[c]) \in Nat
              /\ Cardinality(subs[c]) <= MaxSubs
              /\ ch \in subs[c] \/ Cardinality(subs[c]) < MaxSubs
            BY <1>4, FS_CardinalityType DEF Subscribe
        <3>2. /\ IsFiniteSet(S)
              /\ Cardinality(S) = IF ch \in subs[c] THEN Cardinality(subs[c])
                                  ELSE Cardinality(subs[c]) + 1
            BY <3>1, FS_AddElement
        <3>3. QED
            BY <1>0, <3>1, <3>2
    <2>2. inputs[c] \cup ({ch} \cap Session) = S \cap Session
        BY DEF Subscribe
    <2>3. QED
        BY <1>2, <1>4, <2>1, <2>2 DEF Subscribe
<1>5. ASSUME NEW c \in Conn, NEW ch \in Channel \cup Session, Unsubscribe(c, ch)
      PROVE  ListsTyped' /\ InputNeedsChannel'
    <2> DEFINE S == subs[c] \ {ch}
    <2>1. IsFiniteSet(S) /\ Cardinality(S) <= MaxSubs
        <3>1. S \subseteq subs[c] /\ IsFiniteSet(subs[c]) /\ Cardinality(subs[c]) <= MaxSubs
            OBVIOUS
        <3>2. IsFiniteSet(S) /\ Cardinality(S) <= Cardinality(subs[c])
            BY <3>1, FS_Subset
        <3>3. QED
            BY <1>0, <3>1, <3>2, FS_CardinalityType
    <2>2. inputs[c] \ {ch} = S \cap Session
        OBVIOUS
    <2>3. QED
        BY <1>2, <1>5, <2>1, <2>2 DEF Unsubscribe, Without
<1>6. QED
    BY <1>1, <1>3, <1>4, <1>5
       DEF SocketNext, ConnStep, socketVars, loopVars, slotVars, Claim, Reject, Accept,
           Upgrade, UpgradeFails, Hangup, Throttle, Answer, Message, Pong, Heartbeat,
           Receive, Second, SendInput, Publish, SessionsChange

(* SocketIInv is inductive.                                                *)
LEMMA SocketStep ==
    ASSUME SocketIInv, [SocketNext]_socketVars
    PROVE  SocketIInv'
<1>1. ASSUME NEW c \in Conn, ConnStep(c), ~LoopStep(c)
      PROVE  SocketTypeOK'
    BY <1>1, SocketAssumption
       DEF SocketIInv, SocketTypeOK, ConnStep, LoopStep, Claim, Reject, Accept, Upgrade,
           UpgradeFails, Release, Hangup, Free, Goto
<1>2. ASSUME UNCHANGED slotVars
      PROVE  SlotsBalance' /\ AdmittedBounded' /\ SocketTypeOK'
    BY <1>2
       DEF SocketIInv, SocketTypeOK, SlotsBalance, AdmittedBounded, Admitted, OfIp, At,
           Full, slotVars
<1>3. SlotsBalance' /\ AdmittedBounded' /\ SocketTypeOK'
    BY <1>1, <1>2, SlotsStep, LoopSlots
       DEF SocketNext, ConnStep, LoopStep, Publish, SessionsChange, socketVars
<1>4. QED
    BY <1>3, SubsStep DEF SocketIInv

(* What a handler takes it gives back: the counter of an address is its    *)
(* connections that hold a slot, no address has more than max_ws_per_ip of *)
(* them open however their handlers interleave, and a connection may send  *)
(* input to the sessions it is subscribed to and no others.                *)
THEOREM SocketsCorrect == SocketSpec => []SocketsAccounted
<1>1. SocketInit => SocketIInv
    <2> SUFFICES ASSUME SocketInit PROVE SocketIInv
        OBVIOUS
    <2>1. \A ip \in Peer : Slots(ip) = {} /\ Admitted(ip) = {}
        BY DEF SocketInit, Slots, OfIp, Holding, Admitted, At
    <2>2. \A ip \in Peer : Cardinality(Slots(ip)) = 0 /\ Cardinality(Admitted(ip)) = 0
        BY <2>1, FS_EmptySet
    <2>3. SlotsBalance
        BY <2>2 DEF SocketInit, SlotsBalance, Slots
    <2>4. AdmittedBounded
        BY <2>2, SocketAssumption DEF AdmittedBounded
    <2>5. SocketTypeOK /\ ListsTyped /\ InputNeedsChannel
        BY FS_EmptySet, SocketAssumption
           DEF SocketInit, SocketTypeOK, ListsTyped, InputNeedsChannel
    <2>6. QED
        BY <2>3, <2>4, <2>5 DEF SocketIInv
<1>2. SocketIInv => SocketsAccounted
    <2> SUFFICES ASSUME SocketIInv PROVE OpenBounded
        BY DEF SocketIInv, SocketsAccounted
    <2>1. \A ip \in Peer : OfIp(ip, {"accepted", "open", "leaving"}) \subseteq Admitted(ip)
        BY DEF OfIp, Admitted
    <2>2. \A ip \in Peer :
              /\ Cardinality(OfIp(ip, {"accepted", "open", "leaving"}))
                    <= Cardinality(Admitted(ip))
              /\ Cardinality(OfIp(ip, {"accepted", "open", "leaving"})) \in Nat
              /\ Cardinality(Admitted(ip)) \in Nat
        BY <2>1, ConnSetsFinite, FS_Subset, FS_CardinalityType
    <2>3. QED
        BY <2>2, SocketAssumption DEF SocketIInv, AdmittedBounded, OpenBounded
<1>3. QED
    BY <1>1, <1>2, SocketStep, PTL DEF SocketSpec

-----------------------------------------------------------------------------
(* The calls to the helper of one host.                                    *)
Stage == {"idle", "pool", "opening", "opened", "send", "wait", "ssh", "ok", "error"}
Line == [call : Call, id : Nat]

RpcTypeOK ==
    /\ pc \in [Call -> Stage] /\ mine \in [Call -> Nat]
    /\ poolLock \in Call \cup {Nobody} /\ entry \in Nat /\ made \in Nat
    /\ tunnels \subseteq Client /\ alive \subseteq Client
    /\ nextId \in [Client -> Nat \ {0}]
    /\ pending \in [Client -> SUBSET Line]
    /\ requests \in [Client -> Seq(Line)] /\ responses \in [Client -> Seq(Line)]
    /\ done \in [Call -> Nat]

(* A number is given once: whatever bears it is about the call that waits  *)
(* under it.                                                               *)
Numbered(m, k) ==
    m.id < nextId[k] /\ \A p \in pending[k] : p.id = m.id => p.call = m.call
PendingNumbered ==
    \A k \in Client : \A p \in pending[k] : p.id # 0 /\ Numbered(p, k)
RequestsNumbered ==
    \A k \in Client : \A i \in 1..Len(requests[k]) : Numbered(requests[k][i], k)
(* A response that bears a number says what was done.                      *)
ResponsesNumbered ==
    \A k \in Client : \A i \in 1..Len(responses[k]) :
        /\ Numbered(responses[k][i], k)
        /\ responses[k][i].id # 0 => done[responses[k][i].call] > 0

(* The map is locked while a tunnel is opened, and the old one is gone.    *)
OpenersLock ==
    \A c \in Call : pc[c] \in {"opening", "opened"} <=> poolLock = c
TunnelOfEntry ==
    /\ poolLock = Nobody => tunnels \subseteq {entry}
    /\ poolLock # Nobody => entry = 0
    /\ \A c \in Call : /\ pc[c] = "opening" => tunnels = {}
                       /\ pc[c] = "opened" => tunnels \subseteq {mine[c]}

RpcIInv ==
    /\ RpcTypeOK /\ PendingNumbered /\ RequestsNumbered /\ ResponsesNumbered
    /\ AnswerIsOwn /\ OkWasDone /\ OpenersLock /\ TunnelOfEntry

(* What is on its way is a line about some call.                           *)
LEMMA LinesTyped ==
    ASSUME RpcTypeOK, NEW k \in Client
    PROVE  /\ \A i \in 1..Len(requests[k]) : requests[k][i] \in Line
           /\ \A i \in 1..Len(responses[k]) : responses[k][i] \in Line
           /\ \A m \in Line : m.id \in Nat /\ m.call \in Call
<1>1. requests[k] \in Seq(Line) /\ responses[k] \in Seq(Line)
    BY DEF RpcTypeOK
<1>2. \A m \in Line : m.id \in Nat /\ m.call \in Call
    BY DEF Line
<1>3. QED
    BY <1>1, <1>2

NumbersInv == PendingNumbered /\ RequestsNumbered /\ ResponsesNumbered

(* Nothing that bears a number is touched.                                 *)
LEMMA NumbersKept ==
    ASSUME RpcIInv, UNCHANGED <<nextId, pending, requests, responses>>,
           done' \in [Call -> Nat], \A d \in Call : done'[d] >= done[d]
    PROVE  NumbersInv'
<1>1. ASSUME NEW k \in Client, NEW i \in 1..Len(responses[k]),
             responses[k][i].id # 0
      PROVE  done'[responses[k][i].call] > 0
    <2>1. responses[k][i].call \in Call
        BY LinesTyped DEF RpcIInv
    <2>2. QED
        BY <1>1, <2>1 DEF RpcIInv, RpcTypeOK, ResponsesNumbered
<1>2. QED
    BY <1>1 DEF RpcIInv, NumbersInv, PendingNumbered, RequestsNumbered, ResponsesNumbered,
                Numbered

(* The steps of a call before it sends, and those in which it gives up.    *)
LEMMA CallMoves ==
    ASSUME RpcIInv, NEW c \in Call,
           \/ BeginCall(c) \/ Reuse(c) \/ Open(c) \/ StartSsh(c) \/ Connect(c)
           \/ OpenFails(c) \/ FindClosed(c) \/ TimeOut(c)
    PROVE  RpcIInv'
<1> USE RpcAssumption
        DEF RpcIInv, RpcTypeOK, AnswerIsOwn, OkWasDone, OpenersLock, TunnelOfEntry,
            Stage, Goes, hostVars, poolVars, WithoutRpc, MapIsFree
<1>0. NumbersInv'
    BY NumbersKept
       DEF BeginCall, Reuse, Open, StartSsh, Connect, OpenFails, FindClosed, TimeOut
<1>1. CASE BeginCall(c)
    BY <1>0, <1>1 DEF BeginCall, NumbersInv
<1>2. CASE Reuse(c)
    BY <1>0, <1>2 DEF Reuse, NumbersInv
<1>3. CASE Open(c)
    BY <1>0, <1>3 DEF Open, NumbersInv
<1>4. CASE StartSsh(c)
    <2>0. made + 1 \in Client
        BY <1>4 DEF StartSsh, Client
    <2>1. RpcTypeOK'
        BY <1>4, <2>0 DEF StartSsh
    <2>2. AnswerIsOwn' /\ OkWasDone' /\ OpenersLock'
        BY <1>4 DEF StartSsh
    <2>3. TunnelOfEntry'
        BY <1>4 DEF StartSsh
    <2>4. QED
        BY <1>0, <2>1, <2>2, <2>3 DEF NumbersInv
<1>5. CASE Connect(c)
    <2>1. RpcTypeOK' /\ AnswerIsOwn' /\ OkWasDone' /\ OpenersLock'
        BY <1>5 DEF Connect
    <2>2. TunnelOfEntry'
        BY <1>5 DEF Connect
    <2>3. QED
        BY <1>0, <2>1, <2>2 DEF NumbersInv
<1>6. CASE OpenFails(c)
    <2>1. RpcTypeOK' /\ AnswerIsOwn' /\ OkWasDone' /\ OpenersLock'
        BY <1>6 DEF OpenFails, Abandoned
    <2>2. TunnelOfEntry'
        BY <1>6 DEF OpenFails, Abandoned
    <2>3. QED
        BY <1>0, <2>1, <2>2 DEF NumbersInv
<1>7. CASE FindClosed(c)
    BY <1>0, <1>7 DEF FindClosed, NumbersInv
<1>8. CASE TimeOut(c)
    BY <1>0, <1>8 DEF TimeOut, NumbersInv
<1>9. QED
    BY <1>1, <1>2, <1>3, <1>4, <1>5, <1>6, <1>7, <1>8

(* A request is sent under a number not yet given.                         *)
LEMMA SendKeeps ==
    ASSUME RpcIInv, NEW c \in Call, Send(c)
    PROVE  RpcIInv'
<1> USE DEF RpcIInv
<1>1. PICK k \in Client : k = mine[c]
    BY DEF Send, RpcTypeOK
<1> DEFINE p == [id |-> nextId[k], call |-> c]
           m == [call |-> c, id |-> nextId[k]]
<1>2. nextId[k] \in Nat \ {0} /\ p \in Line /\ m \in Line
    BY <1>1 DEF RpcTypeOK, Line
<1>3. /\ nextId' = [nextId EXCEPT ![k] = @ + 1]
      /\ pending' = [pending EXCEPT ![k] = @ \cup {p}]
    <2>1. \A q \in pending[k] : q.id # nextId[k]
        BY <1>1 DEF PendingNumbered, Numbered, RpcTypeOK, Line
    <2>2. {q \in pending[k] : q.id # nextId[k]} = pending[k]
        BY <2>1
    <2>3. QED
        BY <1>1, <2>2 DEF Send, RequestId, Insert, RpcTypeOK
<1>4. \/ requests' = requests
      \/ requests' = [requests EXCEPT ![k] = Append(@, m)]
    BY <1>1 DEF Send, RequestId
<1>5. /\ pc' \in [Call -> Stage]
      /\ \A d \in Call \ {c} : pc'[d] = pc[d]
      /\ pc[c] = "send" /\ pc'[c] \in {"wait", "ssh", "error"}
      /\ UNCHANGED <<mine, answer, poolVars, alive, responses, done>>
    BY DEF Send, RpcTypeOK, Goes, WithoutRpc, Stage
<1> HIDE DEF p, m
<1>6. RpcTypeOK'
    <2>1. requests' \in [Client -> Seq(Line)]
        <3>1. requests[k] \in Seq(Line) /\ Append(requests[k], m) \in Seq(Line)
            BY <1>2 DEF RpcTypeOK
        <3>2. QED
            BY <1>4, <3>1 DEF RpcTypeOK
    <2>2. pending' \in [Client -> SUBSET Line] /\ nextId' \in [Client -> Nat \ {0}]
        BY <1>2, <1>3 DEF RpcTypeOK
    <2>3. QED
        BY <1>5, <2>1, <2>2 DEF RpcTypeOK, poolVars
<1>7. p.id = nextId[k] /\ p.call = c /\ m.id = nextId[k] /\ m.call = c
    BY DEF p, m
<1> DEFINE NumberedThen(n, j) ==
        n.id < nextId'[j] /\ \A q \in pending'[j] : q.id = n.id => q.call = n.call
<1>8. ASSUME NEW j \in Client, NEW n \in Line, Numbered(n, j)
      PROVE  NumberedThen(n, j)
    <2>1. n.id \in Nat /\ nextId[j] \in Nat /\ nextId'[j] \in Nat
          /\ nextId'[j] >= nextId[j]
        BY <1>3, LinesTyped DEF RpcTypeOK
    <2>2. \A q \in pending'[j] : q \in pending[j] \/ (j = k /\ q = p)
        BY <1>3 DEF RpcTypeOK
    <2>3. QED
        BY <1>2, <1>7, <1>8, <2>1, <2>2 DEF Numbered
<1>9. NumberedThen(p, k) /\ NumberedThen(m, k)
    <2>1. nextId'[k] = nextId[k] + 1 /\ pending'[k] = pending[k] \cup {p}
        BY <1>3 DEF RpcTypeOK
    <2>2. \A q \in pending[k] : q.id # nextId[k]
        BY <1>2 DEF PendingNumbered, Numbered, RpcTypeOK, Line
    <2>3. QED
        BY <1>2, <1>7, <2>1, <2>2
<1> HIDE DEF NumberedThen
<1>10. PendingNumbered'
    <2>1. ASSUME NEW j \in Client, NEW q \in pending'[j]
          PROVE  q.id # 0 /\ NumberedThen(q, j)
        <3>1. q \in pending[j] \/ (j = k /\ q = p)
            BY <1>3 DEF RpcTypeOK
        <3>2. q \in pending[j] => q \in Line
            BY DEF RpcTypeOK
        <3>3. QED
            BY <1>2, <1>7, <1>8, <1>9, <3>1, <3>2 DEF PendingNumbered
    <2>2. QED
        BY <2>1 DEF PendingNumbered, Numbered, NumberedThen
<1>11. RequestsNumbered'
    <2>1. ASSUME NEW j \in Client, NEW i \in 1..Len(requests'[j])
          PROVE  NumberedThen(requests'[j][i], j)
        <3>1. requests[j] \in Seq(Line)
            BY DEF RpcTypeOK
        <3>2. \/ i \in 1..Len(requests[j]) /\ requests'[j][i] = requests[j][i]
              \/ j = k /\ requests'[j][i] = m
            BY <1>2, <1>4, <3>1, SMTT(20) DEF RpcTypeOK
        <3>3. QED
            BY <1>8, <1>9, <3>2, LinesTyped DEF RequestsNumbered
    <2>2. QED
        BY <2>1 DEF RequestsNumbered, Numbered, NumberedThen
<1>12. ResponsesNumbered'
    <2>1. ASSUME NEW j \in Client, NEW i \in 1..Len(responses[j])
          PROVE  NumberedThen(responses[j][i], j)
        BY <1>8, LinesTyped DEF ResponsesNumbered
    <2>2. QED
        BY <1>5, <2>1 DEF ResponsesNumbered, Numbered, NumberedThen
<1>13. AnswerIsOwn' /\ OkWasDone' /\ OpenersLock' /\ TunnelOfEntry'
    BY <1>5 DEF AnswerIsOwn, OkWasDone, OpenersLock, TunnelOfEntry, poolVars
<1>14. QED
    BY <1>6, <1>10, <1>11, <1>12, <1>13

(* The reader gives a call the answer that bears its number.               *)
LEMMA ReadKeeps ==
    ASSUME RpcIInv, NEW k \in Client, Read(k)
    PROVE  RpcIInv'
<1> USE DEF RpcIInv, RpcTypeOK, PendingNumbered, RequestsNumbered, ResponsesNumbered,
            Numbered, AnswerIsOwn, OkWasDone, OpenersLock, TunnelOfEntry, Stage, poolVars
<1> DEFINE got == Head(responses[k])
           found == {p \in pending[k] : p.id = got.id}
           heard == {p.call : p \in found} \cap {c \in Call : pc[c] = "wait"}
<1>1. /\ responses[k] \in Seq(Line) /\ responses[k] # <<>>
      /\ got = responses[k][1] /\ got \in Line /\ 1 \in 1..Len(responses[k])
    BY DEF Read
<1>2. \A c \in heard : c = got.call /\ done[c] > 0 /\ pc[c] = "wait"
    <2> SUFFICES ASSUME NEW p \in found PROVE p.call = got.call /\ done[got.call] > 0
        OBVIOUS
    <2>1. p \in pending[k] /\ p.id = got.id /\ p.id # 0
        OBVIOUS
    <2>2. p.call = got.call /\ (got.id # 0 => done[got.call] > 0)
        BY <1>1, <2>1
    <2>3. QED
        BY <2>1, <2>2
<1>3. /\ pending' = [pending EXCEPT ![k] = @ \ found]
      /\ pc' = [c \in Call |-> IF c \in heard THEN "ok" ELSE pc[c]]
      /\ answer' = [c \in Call |-> IF c \in heard THEN got.call ELSE answer[c]]
      /\ responses' = [responses EXCEPT ![k] = Tail(@)]
      /\ UNCHANGED <<mine, poolVars, alive, nextId, requests, done>>
    BY DEF Read
<1>4. /\ Tail(responses[k]) \in Seq(Line)
      /\ \A i \in 1..Len(Tail(responses[k])) :
             i + 1 \in 1..Len(responses[k]) /\ Tail(responses[k])[i] = responses[k][i + 1]
    BY <1>1
<1>5. RpcTypeOK'
    BY <1>3, <1>4
<1>6. PendingNumbered' /\ RequestsNumbered' /\ ResponsesNumbered'
    BY <1>3, <1>4
<1>7. AnswerIsOwn' /\ OkWasDone' /\ OpenersLock' /\ TunnelOfEntry'
    BY <1>2, <1>3
<1>8. QED
    BY <1>5, <1>6, <1>7

(* What is lost with a connection takes nothing else along.                *)
LEMMA BreakKeeps ==
    ASSUME RpcIInv, NEW k \in Client, Break(k) \/ NoticeEnd(k)
    PROVE  RpcIInv'
<1> USE DEF RpcIInv, RpcTypeOK, PendingNumbered, RequestsNumbered, ResponsesNumbered,
            Numbered, AnswerIsOwn, OkWasDone, OpenersLock, TunnelOfEntry, Stage, poolVars,
            hostVars
<1>1. CASE Break(k)
    <2>1. PICK taken \in {0, 1} : requests' = [requests EXCEPT
            ![k] = IF @ = <<>> THEN @ ELSE SubSeq(@, 1, taken)]
        BY <1>1 DEF Break
    <2>2. /\ requests'[k] \in Seq(Line)
          /\ \A i \in 1..Len(requests'[k]) :
                 i \in 1..Len(requests[k]) /\ requests'[k][i] = requests[k][i]
        BY <2>1
    <2>3. RpcTypeOK'
        BY <1>1, <2>1, <2>2 DEF Break
    <2>4. QED
        BY <1>1, <2>1, <2>2, <2>3 DEF Break
<1>2. CASE NoticeEnd(k)
    BY <1>2 DEF NoticeEnd
<1>3. QED
    BY <1>1, <1>2

(* The host answers what was asked, or under no number.                    *)
LEMMA ServeKeeps ==
    ASSUME RpcIInv, NEW k \in Client, Serve(k)
    PROVE  RpcIInv'
<1> USE DEF RpcIInv, RpcTypeOK, PendingNumbered, RequestsNumbered, ResponsesNumbered,
            Numbered, AnswerIsOwn, OkWasDone, OpenersLock, TunnelOfEntry, Stage, poolVars
<1> DEFINE front == Head(requests[k])
<1>1. /\ requests[k] \in Seq(Line) /\ requests[k] # <<>>
      /\ front = requests[k][1] /\ front \in Line /\ 1 \in 1..Len(requests[k])
    BY DEF Serve
<1>2. PICK o \in Outcome :
          /\ done' = [done EXCEPT ![front.call] = @ + o.effect]
          /\ responses' = IF k \notin up THEN responses
                ELSE [responses EXCEPT ![k] = Append(@,
                        [call |-> front.call,
                         id |-> IF o.ok THEN front.id ELSE ErrorId])]
    BY DEF Serve
<1> DEFINE m == [call |-> front.call, id |-> IF o.ok THEN front.id ELSE ErrorId]
<1>3. /\ requests' = [requests EXCEPT ![k] = Tail(@)]
      /\ UNCHANGED <<pc, mine, answer, poolVars, alive, nextId, pending>>
    BY DEF Serve
<1>4. o.effect \in {0, 1} /\ (o.ok => o.effect = 1)
    BY DEF Outcome
<1>5. /\ done' \in [Call -> Nat] /\ \A c \in Call : done'[c] >= done[c]
      /\ o.ok => done'[front.call] > 0
    BY <1>1, <1>2, <1>4 DEF Line
<1>6. m \in Line /\ Numbered(m, k) /\ (m.id # 0 => done'[m.call] > 0)
    BY <1>1, <1>5 DEF Line, ErrorId
<1>7. /\ Tail(requests[k]) \in Seq(Line)
      /\ \A i \in 1..Len(Tail(requests[k])) :
             i + 1 \in 1..Len(requests[k]) /\ Tail(requests[k])[i] = requests[k][i + 1]
    BY <1>1
<1>8. RpcTypeOK'
    BY <1>2, <1>3, <1>5, <1>6, <1>7
<1>9. PendingNumbered' /\ RequestsNumbered'
    BY <1>3, <1>7
<1>10. ResponsesNumbered'
    <2> SUFFICES ASSUME NEW j \in Client, NEW i \in 1..Len(responses'[j])
                 PROVE  /\ Numbered(responses'[j][i], j)
                        /\ responses'[j][i].id # 0 => done'[responses'[j][i].call] > 0
        BY <1>3
    <2>1. \/ i \in 1..Len(responses[j]) /\ responses'[j][i] = responses[j][i]
          \/ j = k /\ responses'[j][i] = m
        BY <1>2, <1>6
    <2>2. i \in 1..Len(responses[j]) => responses[j][i].call \in Call
        BY LinesTyped
    <2>3. CASE j = k /\ responses'[j][i] = m
        BY <1>6, <2>3
    <2>4. CASE i \in 1..Len(responses[j]) /\ responses'[j][i] = responses[j][i]
        <3>1. responses[j][i].id # 0 => done[responses[j][i].call] > 0
            BY <2>4
        <3>2. responses[j][i].id # 0 => done'[responses[j][i].call] > 0
            BY <1>5, <2>2, <2>4, <3>1
        <3>3. QED
            BY <2>4, <3>2
    <2>5. QED
        BY <2>1, <2>3, <2>4
<1>11. AnswerIsOwn' /\ OkWasDone' /\ OpenersLock' /\ TunnelOfEntry'
    BY <1>3, <1>5
<1>12. QED
    BY <1>8, <1>9, <1>10, <1>11

(* The ssh command, whose success is the operation's.                      *)
LEMMA SshKeeps ==
    ASSUME RpcIInv, NEW c \in Call, Ssh(c)
    PROVE  RpcIInv'
<1> USE DEF RpcIInv, RpcTypeOK, PendingNumbered, RequestsNumbered, ResponsesNumbered,
            Numbered, AnswerIsOwn, OkWasDone, OpenersLock, TunnelOfEntry, Stage, poolVars
<1>1. PICK o \in Outcome :
          /\ done' = [done EXCEPT ![c] = @ + o.effect]
          /\ Goes(c, SshResult(o))
          /\ answer' = IF SshResult(o) = "ok" THEN [answer EXCEPT ![c] = c] ELSE answer
    BY DEF Ssh
<1>2. /\ pc[c] = "ssh"
      /\ UNCHANGED <<mine, poolVars, alive, nextId, pending, requests, responses>>
    BY DEF Ssh
<1>3. o.effect \in {0, 1} /\ (SshResult(o) = "ok" => o.effect = 1)
      /\ SshResult(o) \in {"ok", "error"}
    BY DEF Outcome, SshResult
<1>4. /\ done' \in [Call -> Nat] /\ \A d \in Call : done'[d] >= done[d]
      /\ SshResult(o) = "ok" => done'[c] > 0
    BY <1>1, <1>3
<1>5. pc' = [pc EXCEPT ![c] = SshResult(o)]
    BY <1>1 DEF Goes
<1>6. RpcTypeOK'
    BY <1>2, <1>3, <1>4, <1>5
<1>7. PendingNumbered' /\ RequestsNumbered' /\ ResponsesNumbered'
    BY <1>2, <1>4, NumbersKept DEF NumbersInv
<1>8. AnswerIsOwn' /\ OkWasDone' /\ OpenersLock' /\ TunnelOfEntry'
    BY <1>1, <1>2, <1>3, <1>4, <1>5
<1>9. QED
    BY <1>6, <1>7, <1>8

(* RpcIInv is inductive.                                                   *)
LEMMA RpcStep == RpcIInv /\ [RpcNext]_rpcVars => RpcIInv'
<1>1. ASSUME RpcIInv, UNCHANGED rpcVars
      PROVE  RpcIInv'
    <2>1. RpcTypeOK'
        BY <1>1 DEF RpcIInv, RpcTypeOK, rpcVars
    <2>2. PendingNumbered' /\ RequestsNumbered' /\ ResponsesNumbered'
        BY <1>1 DEF RpcIInv, PendingNumbered, RequestsNumbered, ResponsesNumbered, Numbered,
                    rpcVars
    <2>3. AnswerIsOwn' /\ OkWasDone' /\ OpenersLock' /\ TunnelOfEntry'
        BY <1>1 DEF RpcIInv, AnswerIsOwn, OkWasDone, OpenersLock, TunnelOfEntry, rpcVars
    <2>4. QED
        BY <2>1, <2>2, <2>3 DEF RpcIInv
<1>2. QED
    BY <1>1, CallMoves, SendKeeps, ReadKeeps, BreakKeeps, ServeKeeps, SshKeeps
       DEF RpcNext, CallStep

(* What a call returns is what the host did with that very call, and one   *)
(* ssh process serves a host, however many connections break, answers come *)
(* late and calls give up.                                                 *)
THEOREM AnswersCorrect == RpcSpec => []AnswersAreTrue
<1>1. RpcInit => RpcIInv
    BY RpcAssumption
       DEF RpcInit, RpcIInv, RpcTypeOK, PendingNumbered, RequestsNumbered,
           ResponsesNumbered, Numbered, AnswerIsOwn, OkWasDone, OpenersLock,
           TunnelOfEntry, Stage, Client
<1>2. RpcIInv => AnswersAreTrue
    <2> SUFFICES ASSUME RpcIInv PROVE OneTunnel
        BY DEF RpcIInv, AnswersAreTrue
    <2>1. \E k : tunnels \subseteq {k}
        BY DEF RpcIInv, RpcTypeOK, OpenersLock, TunnelOfEntry
    <2>2. PICK k : tunnels \subseteq {k}
        BY <2>1
    <2>3. IsFiniteSet({k}) /\ Cardinality({k}) = 1
        BY FS_Singleton
    <2>4. Cardinality(tunnels) <= Cardinality({k})
        BY <2>2, <2>3, FS_Subset
    <2>5. QED
        BY <2>3, <2>4 DEF OneTunnel
<1>3. QED
    BY <1>1, <1>2, RpcStep, PTL DEF RpcSpec

-----------------------------------------------------------------------------
(* What a login request is waiting with, and what a token holds.           *)
Waiting == [stage : {"right", "wrong", "unlocked", "cleared"}, ip : Ip, role : Role]
Bearer == [ip : Ip, role : Role, age : 0 .. Ttl]

(* The fields of RemoteLogin. However many requests record failures, an   *)
(* address never has more of them than the threshold: the next is refused, *)
(* or starts from nothing.                                                 *)
LoginTyped ==
    /\ fails \in [Ip -> 0 .. Threshold] /\ since \in [Ip -> 0 .. EvictAfter + 1]
    /\ request \in [Request -> Waiting \cup {Idle}]
    /\ tokens \in [Token -> Bearer \cup {NoToken}]

(* LoginTyped holds of every reachable state.                              *)
LEMMA LoginFields == LoginSpec => []LoginTyped
<1> USE LoginAssumption DEF LoginTyped
<1>1. LoginInit => LoginTyped
    BY DEF LoginInit
<1>2. LoginTyped /\ [LoginNext]_loginVars => LoginTyped'
    <2> SUFFICES ASSUME LoginTyped, [LoginNext]_loginVars PROVE LoginTyped'
        OBVIOUS
    <2>0. /\ \A r \in Request : request[r] \in Waiting \/ request[r] = Idle
          /\ \A k \in Token : tokens[k] \in Bearer \/ tokens[k] = NoToken
        OBVIOUS
    <2>1. ASSUME NEW r \in Request, NEW ip \in Ip, NEW right \in BOOLEAN, NEW role \in Role,
                 Begin(r, ip, right, role)
          PROVE  LoginTyped'
        BY <2>1 DEF Begin, Waiting
    <2>2. ASSUME NEW r \in Request, Refuse(r) \/ CheckLocked(r) \/ RecordSuccess(r)
          PROVE  LoginTyped'
        <3>1. request[r] \in Waiting
            BY <2>0, <2>2 DEF Refuse, CheckLocked, RecordSuccess, Idle
        <3>2. CASE Refuse(r)
            BY <3>1, <3>2 DEF Refuse, Waiting, Counting
        <3>3. CASE CheckLocked(r)
            BY <3>1, <3>3 DEF CheckLocked, Waiting
        <3>4. CASE RecordSuccess(r)
            BY <3>1, <3>4 DEF RecordSuccess, Waiting
        <3>5. QED
            BY <2>2, <3>2, <3>3, <3>4
    <2>3. ASSUME NEW r \in Request, NEW k \in Token, Issue(r, k)
          PROVE  LoginTyped'
        <3>1. request[r] \in Waiting
            BY <2>0, <2>3 DEF Issue, Idle
        <3>2. QED
            BY <2>3, <3>1 DEF Issue, Waiting, Bearer
    <2>4. ASSUME NEW k \in Token, NEW ip \in Ip, Revoke(k, ip)
          PROVE  LoginTyped'
        BY <2>4 DEF Revoke
    <2>5. CASE CleanTokens
        BY <2>5 DEF CleanTokens
    <2>6. CASE CleanLockouts
        BY <2>6 DEF CleanLockouts
    <2>7. CASE Minute
        <3>1. \A k \in Issued : tokens[k].age < Ttl =>
                  [tokens[k] EXCEPT !.age = @ + 1] \in Bearer
            BY <2>0 DEF Issued, Bearer
        <3>2. tokens' \in [Token -> Bearer \cup {NoToken}]
            BY <2>7, <3>1 DEF Minute
        <3>3. QED
            BY <2>7, <3>2 DEF Minute
    <2>8. CASE UNCHANGED loginVars
        BY <2>8 DEF loginVars
    <2>9. QED
        BY <2>1, <2>2, <2>3, <2>4, <2>5, <2>6, <2>7, <2>8 DEF LoginNext
<1>3. QED
    BY <1>1, <1>2, PTL DEF LoginSpec

(* So the doubling of Lockout is never used: every lock lasts a minute.     *)
LEMMA LocksLastAMinute ==
    ASSUME LoginTyped, NEW ip \in Ip, Locked(ip)
    PROVE  fails[ip] = Threshold /\ Lockout(fails[ip]) = 1 /\ since[ip] = 0
<1>1. fails[ip] = Threshold /\ since[ip] \in Nat
    BY LoginAssumption DEF LoginTyped, Locked
<1>2. 2 ^ 0 = 1 /\ Threshold - Threshold = 0
    BY LoginAssumption
<1>3. Lockout(Threshold) = 1
    BY <1>2, LoginAssumption DEF Lockout
<1>4. QED
    BY <1>1, <1>3 DEF Locked

(* A step that opens a locked address lets its minute pass, or is the      *)
(* success of a request that was looked at before the lock.                *)
LEMMA LockStep ==
    ASSUME LoginTyped, [LoginNext]_loginVars, NEW ip \in Ip, Locked(ip), ~Locked(ip)'
    PROVE  \/ since'[ip] >= Lockout(fails[ip])
           \/ \E r \in Request : request[r].ip = ip /\ request[r].stage = "unlocked"
                                  /\ request'[r].stage = "cleared"
<1>1. fails[ip] = Threshold /\ Lockout(fails[ip]) = 1 /\ since[ip] = 0
    BY LocksLastAMinute
<1>2. fails'[ip] # fails[ip] \/ since'[ip] # since[ip]
    BY <1>1 DEF Locked
<1>3. ASSUME NEW r \in Request, Refuse(r)
      PROVE  FALSE
    BY <1>2, <1>3 DEF Refuse, LoginTyped
<1>4. ASSUME NEW r \in Request, RecordSuccess(r)
      PROVE  /\ request[r].ip = ip /\ request[r].stage = "unlocked"
             /\ request'[r].stage = "cleared"
    <2>1. request[r] \in Waiting
        BY <1>4 DEF RecordSuccess, LoginTyped, Idle
    <2>2. QED
        BY <1>2, <1>4, <2>1 DEF RecordSuccess, LoginTyped, Waiting
<1>5. CASE CleanLockouts
    <2>1. ip \notin Stale
        BY <1>1, LoginAssumption DEF Stale
    <2>2. QED
        BY <1>2, <1>5, <2>1 DEF CleanLockouts
<1>6. CASE Minute
    BY <1>1, <1>6, LoginAssumption DEF Minute, LoginTyped
<1>7. QED
    BY <1>2, <1>3, <1>4, <1>5, <1>6
       DEF LoginNext, Begin, CheckLocked, Issue, Revoke, CleanTokens, loginVars

(* A step that ends an accepted token revokes it, or ends its last minute. *)
LEMMA TokenStep ==
    ASSUME LoginTyped, [LoginNext]_loginVars, NEW k \in Token, NEW ip \in Ip,
           Accepted(k, ip), ~Accepted(k, ip)'
    PROVE  Revoke(k, ip) \/ (tokens'[k] # NoToken /\ tokens'[k].age = Ttl)
<1>1. tokens[k] \in Bearer /\ tokens[k] # NoToken /\ tokens[k].age < Ttl /\ tokens[k].ip = ip
    BY DEF Accepted, LoginTyped
<1>2. tokens'[k] # tokens[k]
    BY <1>1 DEF Accepted
<1>3. ASSUME NEW r \in Request, NEW n \in Token, Issue(r, n)
      PROVE  FALSE
    BY <1>1, <1>2, <1>3 DEF Issue, LoginTyped
<1>4. ASSUME NEW n \in Token, NEW other \in Ip, Revoke(n, other)
      PROVE  Revoke(k, ip)
    <2>1. n = k
        BY <1>2, <1>4 DEF Revoke, LoginTyped
    <2>2. other = ip
        BY <1>1, <1>4, <2>1 DEF Revoke, Accepted
    <2>3. QED
        BY <1>4, <2>1, <2>2
<1>5. CASE CleanTokens
    BY <1>1, <1>2, <1>5, LoginAssumption DEF CleanTokens, Expired, Bearer
<1>6. CASE Minute
    <2>1. k \in Issued
        BY <1>1 DEF Issued
    <2>2. tokens'[k] = [tokens[k] EXCEPT !.age = @ + 1]
        BY <1>1, <1>6, <2>1 DEF Minute
    <2>3. tokens'[k].age = tokens[k].age + 1 /\ tokens'[k].ip = ip
        BY <1>1, <2>2 DEF Bearer
    <2>4. tokens'[k] # NoToken
        BY <2>3, LoginAssumption DEF NoToken
    <2>5. tokens'[k].age >= Ttl
        BY <1>1, <2>3, <2>4, LoginAssumption DEF Accepted, Bearer
    <2>6. QED
        BY <1>1, <2>3, <2>4, <2>5, LoginAssumption DEF Bearer
<1>7. QED
    BY <1>2, <1>3, <1>4, <1>5, <1>6
       DEF LoginNext, Begin, Refuse, CheckLocked, RecordSuccess, CleanLockouts, loginVars

(* LocksAndTokensLast: a locked address stays locked, and a token stays    *)
(* accepted, for as long as auth.rs promises, whatever other requests do.  *)
THEOREM LoginsCorrect == LoginSpec => LocksAndTokensLast
<1>1. LoginTyped /\ [LoginNext]_loginVars =>
          [\A ip \in Ip : Locked(ip) /\ ~Locked(ip)' =>
              \/ since'[ip] >= Lockout(fails[ip])
              \/ \E r \in Request : request[r].ip = ip /\ request[r].stage = "unlocked"
                                      /\ request'[r].stage = "cleared"]_loginVars
    BY LockStep
<1>2. LoginTyped /\ [LoginNext]_loginVars =>
          [\A k \in Token, ip \in Ip : Accepted(k, ip) /\ ~Accepted(k, ip)' =>
              \/ Revoke(k, ip)
              \/ tokens'[k] # NoToken /\ tokens'[k].age = Ttl]_loginVars
    BY TokenStep
<1>3. QED
    BY <1>1, <1>2, LoginFields, PTL DEF LoginSpec, LocksAndTokensLast, LockHolds, TokenLasts

-----------------------------------------------------------------------------
(* The remote helper.                                                      *)

(* Runners whose number is still to be removed from its file by themselves. *)
Alive == {"started", "ready", "born", "up", "over", "coded", "childless"}
Held == {p \in Pid : runner[p] \in Alive}

CreateAt == {"idle", "begun", "clearing", "cleared", "spawned", "named", "end"}
AskAt == {"idle", "read", "repairing", "end"}
EndAt == {"idle", "child", "runner", "killed", "end"}
AnyPid == Pid \cup {NoPid}
Answers == {"none", "existing", "detached", "live", "exited"}
CreateCall == [stage : CreateAt, pid : AnyPid, answer : Answers]
AskCall == [stage : AskAt, pid : AnyPid, answer : Answers]
EndCall == [stage : EndAt, pid : AnyPid, answer : Answers]

HelperFields ==
    /\ runnerPid \in AnyPid /\ childPid \in AnyPid /\ manifest \in AnyPid
    /\ exitCode \in {"none", "real", "synthetic"} /\ controlFifo \in BOOLEAN
    /\ runner \in [Pid -> Alive \cup {"none", "nameless", "gone", "killed"}]
    /\ foreign \subseteq Pid /\ asked \in BOOLEAN
    /\ creates \in [Creating -> CreateCall]
    /\ asks \in [Asking -> AskCall]
    /\ ends \in [Ending -> EndCall]
    /\ \A q \in Asking : asks[q].stage = "read" => asks[q].answer = "none"
    /\ \A t \in Ending : ends[t].stage = "child" => ends[t].pid \in Pid

ForeignIsOver == \A p \in foreign : runner[p] \in {"gone", "killed"}

(* Calls that create or end the session come one after the other.          *)
InTurn ==
    /\ \A c, d \in Unfinished(creates) : c = d
    /\ \A t, u \in Unfinished(ends) : t = u
    /\ Unfinished(creates) = {} \/ Unfinished(ends) = {}

(* The one runner that is held is the one in the file, or the one that a   *)
(* create has just spawned.                                                *)
HeldIsNamed ==
    \/ Held \subseteq {runnerPid}
    \/ \E c \in Creating : creates[c].stage = "spawned"
HeldByCreate ==
    \A c \in Creating :
        /\ creates[c].stage \in {"clearing", "cleared"} => Held = {}
        /\ creates[c].stage \in {"spawned", "named"} => Held \subseteq {creates[c].pid}
NoneAtEnd == \A t \in Ending : ends[t].stage = "killed" => Held = {}

(* The manifest is that of the runner, except while a create is at work.   *)
ManifestIsIts ==
    \/ Held \subseteq {manifest}
    \/ \E c \in Creating : creates[c].stage \in {"spawned", "named"}

(* What a status has seen, if no create came beside it.                    *)
AsksAlone == ~asked => Unfinished(creates) = {} \/ Unfinished(asks) = {}
SeenByAsk ==
    ~asked => \A q \in Asking :
        /\ asks[q].stage = "read" => Held \subseteq {asks[q].pid}
        /\ asks[q].stage = "repairing" => Held = {} /\ exitCode # "real"

HelperIInv ==
    /\ HelperFields /\ ForeignIsOver /\ InTurn /\ HeldIsNamed /\ HeldByCreate
    /\ NoneAtEnd /\ ManifestIsIts /\ AsksAlone /\ SeenByAsk

(* What the proof assumes of the callers and of the disk.                  *)
CallsInTurn == ~Overlapping /\ ~Unwritten

-----------------------------------------------------------------------------
CreatesUnder == {c \in Creating : creates[c].stage \in {"begun", "clearing", "cleared", "spawned", "named"}}
AsksUnder == {q \in Asking : asks[q].stage \in {"read", "repairing"}}
EndsUnder == {t \in Ending : ends[t].stage \in {"child", "runner", "killed"}}

SetsAgree ==
    /\ Unfinished(creates) = CreatesUnder
    /\ Unfinished(asks) = AsksUnder
    /\ Unfinished(ends) = EndsUnder

LEMMA HelpersUnderWay == HelperFields => SetsAgree
<1> SUFFICES ASSUME HelperFields PROVE SetsAgree
    OBVIOUS
<1>1. Unfinished(creates) = CreatesUnder
    BY DEF HelperFields, Unfinished, CreatesUnder, CreateCall, CreateAt
<1>2. Unfinished(asks) = AsksUnder
    BY DEF HelperFields, Unfinished, AsksUnder, AskCall, AskAt
<1>3. Unfinished(ends) = EndsUnder
    BY DEF HelperFields, Unfinished, EndsUnder, EndCall, EndAt
<1>4. QED
    BY <1>1, <1>2, <1>3 DEF SetsAgree

(* The invariant without the sets of unfinished calls.                     *)
TurnsTaken ==
    /\ \A c, d \in CreatesUnder : c = d
    /\ \A t, u \in EndsUnder : t = u
    /\ CreatesUnder = {} \/ EndsUnder = {}
Alone == ~asked => CreatesUnder = {} \/ AsksUnder = {}
Rest == HeldIsNamed /\ HeldByCreate /\ NoneAtEnd /\ ManifestIsIts /\ SeenByAsk
LEMMA Expanded ==
    /\ HelperIInv => HelperFields /\ ForeignIsOver /\ TurnsTaken /\ Alone /\ Rest
    /\ HelperFields' /\ ForeignIsOver' /\ TurnsTaken' /\ Alone' /\ Rest' => HelperIInv'
<1>1. ASSUME HelperIInv PROVE HelperFields /\ ForeignIsOver /\ TurnsTaken /\ Alone /\ Rest
    BY <1>1, HelpersUnderWay DEF HelperIInv, InTurn, TurnsTaken, AsksAlone, Alone, Rest, SetsAgree
<1>3. HelperFields' => SetsAgree'
    BY HelpersUnderWay, PTL
<1>4. ASSUME HelperFields', ForeignIsOver', TurnsTaken', Alone', Rest' PROVE HelperIInv'
    BY <1>3, <1>4 DEF HelperIInv, InTurn, TurnsTaken, AsksAlone, Alone, Rest, SetsAgree
<1>5. QED
    BY <1>1, <1>4

(* A step of no call, after which no more runners are held than before.    *)
LEMMA Shrinks ==
    ASSUME HelperIInv, HelperFields', ForeignIsOver', Held' \subseteq Held,
           UNCHANGED <<manifest, creates, asks, ends, asked>>,
           Held' # {} => runnerPid' = runnerPid,
           exitCode' = "real" => exitCode = "real" \/ Held # {}
    PROVE  HelperIInv'
<1>1. HelperFields /\ ForeignIsOver /\ TurnsTaken /\ Alone /\ Rest
    BY Expanded
<1>2. TurnsTaken' /\ Alone'
    BY <1>1 DEF TurnsTaken, Alone, CreatesUnder, EndsUnder, AsksUnder
<1>3. HeldIsNamed' /\ ManifestIsIts'
    BY <1>1 DEF Rest, HeldIsNamed, ManifestIsIts
<1>4. HeldByCreate' /\ NoneAtEnd'
    BY <1>1 DEF Rest, HeldByCreate, NoneAtEnd
<1>5. SeenByAsk'
    BY <1>1 DEF Rest, SeenByAsk
<1>6. QED
    BY <1>1, <1>2, <1>3, <1>4, <1>5, Expanded DEF Rest

(* The same with the end of the session at work.                           *)
LEMMA EndGoes ==
    ASSUME HelperIInv, HelperFields', ForeignIsOver', Held' \subseteq Held,
           UNCHANGED <<manifest, exitCode, creates, asks, asked>>,
           Held' # {} => runnerPid' = runnerPid,
           NEW t \in EndsUnder, NEW r, ends' = [ends EXCEPT ![t] = r],
           r.stage = "killed" => Held' = {}
    PROVE  HelperIInv'
<1>1. HelperFields /\ ForeignIsOver /\ TurnsTaken /\ Alone /\ Rest
    BY Expanded
<1>2. t \in Ending /\ \A u \in Ending : u # t => ends'[u] = ends[u]
    BY <1>1 DEF EndsUnder, HelperFields
<1>3. ends'[t] = r
    BY <1>1, <1>2 DEF HelperFields
<1>4. EndsUnder' \subseteq EndsUnder /\ CreatesUnder' = CreatesUnder /\ AsksUnder' = AsksUnder
    BY <1>2 DEF EndsUnder, CreatesUnder, AsksUnder
<1>5. TurnsTaken' /\ Alone'
    BY <1>1, <1>4 DEF TurnsTaken, Alone
<1>6. HeldIsNamed' /\ ManifestIsIts'
    BY <1>1 DEF Rest, HeldIsNamed, ManifestIsIts
<1>7. HeldByCreate' /\ NoneAtEnd'
    BY <1>1, <1>2, <1>3 DEF Rest, HeldByCreate, NoneAtEnd
<1>8. SeenByAsk'
    BY <1>1 DEF Rest, SeenByAsk
<1>9. QED
    BY <1>1, <1>5, <1>6, <1>7, <1>8, Expanded DEF Rest

(* A create at work, beside which no other and no end is.                  *)
LEMMA CreateGoes ==
    ASSUME HelperIInv, HelperFields', ForeignIsOver', UNCHANGED <<asks, ends, asked>>,
           NEW c \in CreatesUnder, NEW r, creates' = [creates EXCEPT ![c] = r],
           Held' \subseteq {runnerPid'} \/ r.stage = "spawned",
           r.stage \in {"clearing", "cleared"} => Held' = {},
           r.stage \in {"spawned", "named"} => Held' \subseteq {r.pid},
           Held' \subseteq {manifest'} \/ r.stage \in {"spawned", "named"}
    PROVE  HelperIInv'
<1>1. HelperFields /\ ForeignIsOver /\ TurnsTaken /\ Alone /\ Rest
    BY Expanded
<1>2. c \in Creating /\ \A d \in Creating : d # c => creates'[d] = creates[d] /\ d \notin CreatesUnder
    BY <1>1 DEF CreatesUnder, HelperFields, TurnsTaken
<1>3. creates'[c] = r
    BY <1>1, <1>2 DEF HelperFields
<1>4. EndsUnder' = EndsUnder /\ CreatesUnder' \subseteq CreatesUnder /\ AsksUnder' = AsksUnder
    BY <1>2 DEF EndsUnder, CreatesUnder, AsksUnder
<1>5. TurnsTaken' /\ Alone'
    BY <1>1, <1>4 DEF TurnsTaken, Alone
<1>6. HeldIsNamed' /\ ManifestIsIts'
    BY <1>2, <1>3 DEF HeldIsNamed, ManifestIsIts
<1>7. HeldByCreate'
    BY <1>2, <1>3 DEF HeldByCreate, CreatesUnder
<1>8. NoneAtEnd'
    BY <1>1 DEF NoneAtEnd, TurnsTaken, EndsUnder
<1>9. SeenByAsk'
    BY <1>1 DEF SeenByAsk, Alone, AsksUnder
<1>10. QED
    BY <1>1, <1>5, <1>6, <1>7, <1>8, <1>9, Expanded DEF Rest

(* A status at work.                                                       *)
LEMMA AskGoes ==
    ASSUME HelperIInv, HelperFields', UNCHANGED <<runner, foreign, manifest, creates, ends>>,
           asked => asked', NEW q \in Asking, NEW r, asks' = [asks EXCEPT ![q] = r],
           Held \subseteq {runnerPid} => Held \subseteq {runnerPid'},
           exitCode' = "real" => exitCode = "real",
           ~asked' => CreatesUnder = {} \/ r.stage = "end",
           r.stage = "read" /\ ~asked' => Held \subseteq {r.pid},
           r.stage = "repairing" /\ ~asked' => Held = {} /\ exitCode # "real"
    PROVE  HelperIInv'
<1>1. HelperFields /\ ForeignIsOver /\ TurnsTaken /\ Alone /\ Rest
    BY Expanded
<1>2. /\ \A p \in Asking : p # q => asks'[p] = asks[p]
      /\ asks'[q] = r
    BY <1>1 DEF HelperFields
<1>3. Held' = Held /\ EndsUnder' = EndsUnder /\ CreatesUnder' = CreatesUnder
    BY DEF Held, EndsUnder, CreatesUnder
<1>4. TurnsTaken' /\ ForeignIsOver'
    BY <1>1, <1>3 DEF TurnsTaken, ForeignIsOver
<1>5. Alone'
    BY <1>1, <1>2, <1>3 DEF Alone, AsksUnder
<1>6. HeldIsNamed' /\ ManifestIsIts'
    BY <1>1, <1>3 DEF Rest, HeldIsNamed, ManifestIsIts
<1>7. HeldByCreate' /\ NoneAtEnd'
    BY <1>1, <1>3 DEF Rest, HeldByCreate, NoneAtEnd
<1>8. SeenByAsk'
    BY <1>1, <1>2, <1>3 DEF Rest, SeenByAsk
<1>9. QED
    BY <1>4, <1>5, <1>6, <1>7, <1>8, Expanded DEF Rest

-----------------------------------------------------------------------------
(* Runners.                                                                *)
LEMMA Steps ==
    ASSUME HelperFields, NEW p \in Pid, NEW stage \in Alive \cup {"nameless", "gone", "killed"},
           Moves(p, stage), stage \in Alive => runner[p] \in Alive
    PROVE  /\ runner' \in [Pid -> Alive \cup {"none", "nameless", "gone", "killed"}]
           /\ runner'[p] = stage /\ \A q \in Pid : q # p => runner'[q] = runner[q]
           /\ Held' \subseteq Held /\ (stage \notin Alive => p \notin Held')
BY DEF HelperFields, Moves, Held

LEMMA RunnerKeeps ==
    ASSUME HelperIInv, NEW p \in Pid, RunnerStep(p) \/ RunnerDies(p) \/ ReusePid(p)
    PROVE  HelperIInv'
<1>1. HelperFields /\ ForeignIsOver /\ TurnsTaken /\ Alone /\ Rest
    BY Expanded
<1>2. CASE ReusePid(p)
    <2>1. HelperFields' /\ ForeignIsOver'
        BY <1>1, <1>2 DEF HelperFields, ForeignIsOver, ReusePid, fileVars, callVars
    <2>2. Held' = Held
        BY <1>2 DEF ReusePid, Held
    <2>3. QED
        BY <1>2, <2>1, <2>2, Shrinks DEF ReusePid, fileVars, callVars
<1>3. CASE RemoveRunnerPid(p)
    <2>1. Moves(p, "nameless") /\ runner[p] = "childless" /\ UNCHANGED <<callVars, childPid, exitCode, controlFifo, manifest, foreign>>
          /\ runnerPid' = NoPid
        BY <1>3 DEF RemoveRunnerPid
    <2>2. /\ runner' \in [Pid -> Alive \cup {"none", "nameless", "gone", "killed"}]
          /\ runner'[p] = "nameless" /\ \A q \in Pid : q # p => runner'[q] = runner[q]
          /\ Held' \subseteq Held /\ p \notin Held' /\ p \in Held
        BY <1>1, <2>1, Steps DEF Alive, Held
    <2>3. HelperFields' /\ ForeignIsOver'
        BY <1>1, <2>1, <2>2 DEF HelperFields, ForeignIsOver, AnyPid, callVars
    <2>4. Held' = {}
        <3>1. \E x : Held \subseteq {x}
            BY <1>1 DEF Rest, HeldIsNamed, HeldByCreate
        <3>2. QED
            BY <2>2, <3>1
    <2>5. QED
        BY <2>1, <2>3, <2>4, Shrinks DEF callVars
<1>4. CASE RunnerDies(p) \/ (RunnerStep(p) /\ ~RemoveRunnerPid(p))
    <2>1. PICK stage \in Alive \cup {"nameless", "gone", "killed"} :
              /\ Moves(p, stage) /\ (stage \in Alive => runner[p] \in Alive)
              /\ runner[p] \notin {"gone", "killed"}
        BY <1>4 DEF RunnerDies, RunnerStep, EnsureFifos, SpawnChild, WriteChildPid, ChildExits,
            WriteExitCode, RunnerFails, RemoveChildPid, RemoveControl, AliveRunner, Over, Alive
    <2>2. /\ UNCHANGED <<callVars, runnerPid, manifest, foreign>>
          /\ childPid' = childPid \/ childPid' = p \/ childPid' = NoPid
          /\ controlFifo' \in BOOLEAN
          /\ exitCode' # exitCode => exitCode' = "real" /\ runner[p] \in Alive
        <3>1. CASE RunnerDies(p) \/ SpawnChild(p) \/ ChildExits(p)
            BY <1>1, <3>1 DEF RunnerDies, SpawnChild, ChildExits, fileVars, HelperFields
        <3>2. CASE EnsureFifos(p) \/ WriteChildPid(p)
            BY <1>1, <3>2 DEF EnsureFifos, WriteChildPid, HelperFields
        <3>3. CASE WriteExitCode(p) \/ RunnerFails(p)
            BY <1>1, <3>3 DEF WriteExitCode, RunnerFails, Alive, HelperFields
        <3>4. CASE RemoveChildPid(p) \/ RemoveControl(p)
            BY <1>1, <3>4 DEF RemoveChildPid, RemoveControl, HelperFields
        <3>5. QED
            BY <1>4, <3>1, <3>2, <3>3, <3>4 DEF RunnerStep
    <2>3. /\ runner' \in [Pid -> Alive \cup {"none", "nameless", "gone", "killed"}]
          /\ runner'[p] = stage /\ \A q \in Pid : q # p => runner'[q] = runner[q]
          /\ Held' \subseteq Held
        BY <1>1, <2>1, Steps
    <2>4. HelperFields'
        BY <1>1, <2>2, <2>3 DEF HelperFields, AnyPid, callVars
    <2>5. ForeignIsOver'
        BY <1>1, <2>1, <2>2, <2>3 DEF ForeignIsOver, HelperFields
    <2>6. exitCode' = "real" => exitCode = "real" \/ Held # {}
        BY <2>2 DEF Held
    <2>7. QED
        BY <2>2, <2>3, <2>4, <2>5, <2>6, Shrinks DEF callVars
<1>5. QED
    BY <1>2, <1>3, <1>4 DEF RunnerStep

-----------------------------------------------------------------------------
(* Creates.                                                                *)
LEMMA CreatesHere ==
    ASSUME HelperIInv, NEW c \in Creating, c \in CreatesUnder
    PROVE  /\ creates[c] \in CreateCall /\ EndsUnder = {}
           /\ Held \subseteq {runnerPid} \/ creates[c].stage = "spawned"
           /\ creates[c].stage \in {"clearing", "cleared"} => Held = {}
           /\ creates[c].stage \in {"spawned", "named"} => Held \subseteq {creates[c].pid}
           /\ Held \subseteq {manifest} \/ creates[c].stage \in {"spawned", "named"}
<1>1. HelperFields /\ ForeignIsOver /\ TurnsTaken /\ Alone /\ Rest
    BY Expanded
<1>2. \A d \in Creating : d # c => d \notin CreatesUnder
    BY <1>1 DEF TurnsTaken
<1>3. QED
    BY <1>1, <1>2 DEF HelperFields, TurnsTaken, Rest, HeldIsNamed, HeldByCreate, ManifestIsIts, CreatesUnder

(* What runs is held or nameless; only held runners have their number in   *)
(* the file.                                                               *)
LEMMA HeldAlive ==
    ASSUME HelperFields, ForeignIsOver
    PROVE  \A p \in Held : p \in Pid /\ p # NoPid /\ PidAlive(p) /\ AliveRunner(p) /\ p \notin foreign
BY HelperAssumption DEF HelperFields, ForeignIsOver, Held, Alive, PidAlive, AliveRunner, Over

LEMMA CreateKeeps ==
    ASSUME CallsInTurn, HelperIInv, NEW c \in Creating, CreateStep(c)
    PROVE  HelperIInv'
<1>1. HelperFields /\ ForeignIsOver /\ TurnsTaken /\ Alone /\ Rest
    BY Expanded
<1>2. creates[c] \in CreateCall /\ NoPid \in AnyPid /\ Pid \subseteq AnyPid
    BY <1>1 DEF HelperFields, AnyPid
<1>3. CASE BeginCreate(c)
    <2>1. PICK r : r = [creates[c] EXCEPT !.stage = "begun"]
        OBVIOUS
    <2>2. r \in CreateCall /\ r.stage = "begun"
        BY <1>2, <2>1 DEF CreateCall, CreateAt
    <2>3. creates' = [creates EXCEPT ![c] = r] /\ asked' = (asked \/ Unfinished(asks) # {})
          /\ UNCHANGED <<fileVars, ids, asks, ends>> /\ Unfinished(creates) \cup Unfinished(ends) = {}
        BY <1>3, <2>1 DEF BeginCreate, MayBegin, CallsInTurn
    <2>4. CreatesUnder = {} /\ EndsUnder = {} /\ (asked' <=> asked \/ AsksUnder # {})
        BY <1>1, <2>3, HelpersUnderWay DEF SetsAgree
    <2>5. creates'[c] = r /\ \A d \in Creating : d # c => creates'[d] = creates[d]
        BY <1>1, <2>3 DEF HelperFields
    <2>6. HelperFields' /\ ForeignIsOver'
        BY <1>1, <2>2, <2>3, <2>5 DEF HelperFields, ForeignIsOver, fileVars, ids
    <2>7. CreatesUnder' = {c} /\ EndsUnder' = {} /\ AsksUnder' = AsksUnder /\ Held' = Held
        BY <2>2, <2>3, <2>4, <2>5 DEF CreatesUnder, EndsUnder, AsksUnder, Held, ids
    <2>8. TurnsTaken' /\ Alone'
        BY <2>4, <2>7 DEF TurnsTaken, Alone
    <2>9. HeldIsNamed' /\ ManifestIsIts'
        BY <1>1, <2>3, <2>4, <2>7 DEF Rest, HeldIsNamed, ManifestIsIts, CreatesUnder, fileVars
    <2>10. HeldByCreate' /\ NoneAtEnd'
        BY <1>1, <2>2, <2>3, <2>5, <2>7 DEF Rest, HeldByCreate, NoneAtEnd
    <2>11. SeenByAsk'
        BY <1>1, <2>3, <2>4, <2>7 DEF Rest, SeenByAsk, fileVars
    <2>12. QED
        BY <2>6, <2>8, <2>9, <2>10, <2>11, Expanded DEF Rest
<1>4. CASE LookForRunner(c) /\ PidAlive(runnerPid)
    <2>1. PICK r : r = [creates[c] EXCEPT !.stage = "end", !.answer = "existing"]
        OBVIOUS
    <2>2. r \in CreateCall /\ r.stage = "end"
        BY <1>2, <2>1 DEF CreateCall, CreateAt, Answers
    <2>3. creates[c].stage = "begun" /\ creates' = [creates EXCEPT ![c] = r]
          /\ UNCHANGED <<ids, fileVars, asks, ends, asked>>
        BY <1>4, <2>1 DEF LookForRunner, fileVars
    <2>4. HelperFields' /\ ForeignIsOver' /\ Held' = Held
        BY <1>1, <2>2, <2>3 DEF HelperFields, ForeignIsOver, fileVars, ids, Held
    <2>5. c \in CreatesUnder
        BY <2>3 DEF CreatesUnder
    <2>6. QED
        BY <2>2, <2>3, <2>4, <2>5, CreatesHere, CreateGoes DEF fileVars
<1>5. CASE LookForRunner(c) /\ ~PidAlive(runnerPid)
    <2>1. PICK r : r = [creates[c] EXCEPT !.stage = "clearing"]
        OBVIOUS
    <2>2. r \in CreateCall /\ r.stage = "clearing"
        BY <1>2, <2>1 DEF CreateCall, CreateAt
    <2>3. creates[c].stage = "begun" /\ creates' = [creates EXCEPT ![c] = r] /\ runnerPid' = NoPid
          /\ UNCHANGED <<ids, childPid, exitCode, controlFifo, manifest, asks, ends, asked>>
        BY <1>5, <2>1 DEF LookForRunner
    <2>4. HelperFields' /\ ForeignIsOver' /\ Held' = Held
        BY <1>1, <1>2, <2>2, <2>3 DEF HelperFields, ForeignIsOver, ids, Held
    <2>5. c \in CreatesUnder
        BY <2>3 DEF CreatesUnder
    <2>6. Held = {}
        BY <1>1, <1>5, <2>3, <2>5, CreatesHere, HeldAlive
    <2>7. QED
        BY <2>2, <2>3, <2>4, <2>5, <2>6, CreateGoes
<1>6. CASE ClearOldRun(c)
    <2>1. PICK r : r = [creates[c] EXCEPT !.stage = "cleared"]
        OBVIOUS
    <2>2. r \in CreateCall /\ r.stage = "cleared"
        BY <1>2, <2>1 DEF CreateCall, CreateAt
    <2>3. creates[c].stage = "clearing" /\ creates' = [creates EXCEPT ![c] = r] /\ exitCode' = "none"
          /\ childPid' = NoPid /\ UNCHANGED <<ids, runnerPid, controlFifo, manifest, asks, ends, asked>>
        BY <1>6, <2>1 DEF ClearOldRun
    <2>4. HelperFields' /\ ForeignIsOver' /\ Held' = Held
        BY <1>1, <1>2, <2>2, <2>3 DEF HelperFields, ForeignIsOver, ids, Held
    <2>5. c \in CreatesUnder
        BY <2>3 DEF CreatesUnder
    <2>6. Held = {}
        BY <2>3, <2>5, CreatesHere
    <2>7. QED
        BY <2>2, <2>3, <2>4, <2>5, <2>6, CreateGoes
<1>7. CASE SpawnRunner(c)
    <2>1. PICK p \in Pid : runner[p] = "none" /\ Moves(p, "started")
              /\ creates' = [creates EXCEPT ![c] = [@ EXCEPT !.stage = "spawned", !.pid = p]]
        BY <1>7 DEF SpawnRunner
    <2>2. PICK r : r = [creates[c] EXCEPT !.stage = "spawned", !.pid = p]
        OBVIOUS
    <2>3. r \in CreateCall /\ r.stage = "spawned" /\ r.pid = p
        BY <1>2, <2>2 DEF CreateCall, CreateAt
    <2>4. creates[c].stage = "cleared" /\ creates' = [creates EXCEPT ![c] = r]
          /\ UNCHANGED <<fileVars, asks, ends, asked, foreign>>
        BY <1>7, <2>1, <2>2 DEF SpawnRunner
    <2>5. c \in CreatesUnder
        BY <2>4 DEF CreatesUnder
    <2>6. Held = {}
        BY <2>4, <2>5, CreatesHere
    <2>7. /\ runner' \in [Pid -> Alive \cup {"none", "nameless", "gone", "killed"}]
          /\ \A q \in Pid : q # p => runner'[q] = runner[q]
        BY <1>1, <2>1 DEF HelperFields, Moves, Alive
    <2>8. Held' \subseteq {p}
        BY <2>6, <2>7 DEF Held
    <2>9. HelperFields'
        BY <1>1, <2>3, <2>4, <2>7 DEF HelperFields, fileVars
    <2>10. ForeignIsOver'
        BY <1>1, <2>1, <2>4, <2>7 DEF ForeignIsOver, HelperFields
    <2>11. QED
        BY <2>3, <2>4, <2>5, <2>8, <2>9, <2>10, CreateGoes
<1>8. CASE WriteRunnerPid(c)
    <2>1. PICK r : r = [creates[c] EXCEPT !.stage = "named"]
        OBVIOUS
    <2>2. r \in CreateCall /\ r.stage = "named" /\ r.pid = creates[c].pid /\ r.pid \in AnyPid
        BY <1>2, <2>1 DEF CreateCall, CreateAt
    <2>3. creates[c].stage = "spawned" /\ creates' = [creates EXCEPT ![c] = r] /\ runnerPid' = r.pid
          /\ UNCHANGED <<ids, childPid, exitCode, controlFifo, manifest, asks, ends, asked>>
        BY <1>8, <2>1, <2>2 DEF WriteRunnerPid
    <2>4. HelperFields' /\ ForeignIsOver' /\ Held' = Held
        BY <1>1, <1>2, <2>2, <2>3 DEF HelperFields, ForeignIsOver, ids, Held
    <2>5. c \in CreatesUnder
        BY <2>3 DEF CreatesUnder
    <2>6. Held \subseteq {r.pid}
        BY <2>2, <2>3, <2>5, CreatesHere
    <2>7. QED
        BY <2>2, <2>3, <2>4, <2>5, <2>6, CreateGoes
<1>9. CASE WriteManifest(c)
    <2>1. PICK r : r = [creates[c] EXCEPT !.stage = "end", !.answer = "detached"]
        OBVIOUS
    <2>2. r \in CreateCall /\ r.stage = "end" /\ creates[c].pid \in AnyPid
        BY <1>2, <2>1 DEF CreateCall, CreateAt, Answers
    <2>3. creates[c].stage = "named" /\ creates' = [creates EXCEPT ![c] = r]
          /\ manifest' = (IF AliveRunner(creates[c].pid) THEN creates[c].pid ELSE NoPid)
          /\ UNCHANGED <<ids, runnerPid, childPid, exitCode, controlFifo, asks, ends, asked>>
        BY <1>9, <2>1 DEF WriteManifest, CallsInTurn
    <2>4. HelperFields' /\ ForeignIsOver' /\ Held' = Held
        BY <1>1, <1>2, <2>2, <2>3 DEF HelperFields, ForeignIsOver, ids, Held
    <2>5. c \in CreatesUnder
        BY <2>3 DEF CreatesUnder
    <2>6. Held \subseteq {creates[c].pid} /\ Held \subseteq {runnerPid}
        BY <2>3, <2>5, CreatesHere
    <2>7. Held' \subseteq {manifest'}
        BY <1>1, <2>3, <2>4, <2>6, HeldAlive
    <2>8. QED
        BY <2>2, <2>3, <2>4, <2>5, <2>6, <2>7, CreateGoes
<1>10. QED
    BY <1>3, <1>4, <1>5, <1>6, <1>7, <1>8, <1>9 DEF CreateStep

-----------------------------------------------------------------------------
(* Statuses and ends.                                                      *)
LEMMA AskKeeps ==
    ASSUME HelperIInv, NEW q \in Asking, ReadFiles(q) \/ Judge(q) \/ Repair(q)
    PROVE  HelperIInv'
<1>1. HelperFields /\ ForeignIsOver /\ TurnsTaken /\ Alone /\ Rest
    BY Expanded
<1>2. asks[q] \in AskCall /\ (asks[q].stage = "read" => asks[q].answer = "none")
    BY <1>1 DEF HelperFields
<1>3. ASSUME NEW r \in AskCall, r.stage = "read" => r.answer = "none",
             asks' = [asks EXCEPT ![q] = r], runnerPid' \in AnyPid, asked' \in BOOLEAN,
             exitCode' \in {"none", "real", "synthetic"},
             UNCHANGED <<runner, foreign, childPid, controlFifo, manifest, creates, ends>>
      PROVE  HelperFields'
    BY <1>1, <1>3 DEF HelperFields
<1>4. CASE ReadFiles(q)
    <2>1. PICK r : r = [stage |-> "read", pid |-> runnerPid', answer |-> "none"]
        OBVIOUS
    <2>2. runnerPid' = (IF PidAlive(runnerPid) THEN runnerPid ELSE NoPid)
          /\ asks' = [asks EXCEPT ![q] = r] /\ asked' = (asked \/ Unfinished(creates) # {})
          /\ UNCHANGED <<ids, childPid, exitCode, controlFifo, manifest, creates, ends>>
        BY <1>4, <2>1 DEF ReadFiles
    <2>3. runnerPid' \in AnyPid
        BY <1>1, <2>2 DEF HelperFields, AnyPid
    <2>4. r \in AskCall /\ r.stage = "read" /\ r.pid = runnerPid' /\ r.answer = "none"
        BY <2>1, <2>3 DEF AskCall, AskAt, Answers
    <2>5. HelperFields'
        BY <1>1, <1>3, <2>2, <2>3, <2>4 DEF HelperFields, ids
    <2>6. asked' <=> asked \/ CreatesUnder # {}
        BY <1>1, <2>2, HelpersUnderWay DEF SetsAgree
    <2>7. ~asked' => Held \subseteq {runnerPid}
        BY <1>1, <2>6 DEF Rest, HeldIsNamed, CreatesUnder
    <2>8. Held \subseteq {runnerPid} /\ Held # {} => runnerPid' = runnerPid
        BY <1>1, <2>2, HeldAlive
    <2>9. asked => asked'
        BY <2>2
    <2>10. r.stage = "read" /\ ~asked' => Held \subseteq {r.pid}
        BY <2>4, <2>7, <2>8
    <2>11. QED
        BY <2>2, <2>4, <2>5, <2>6, <2>8, <2>9, <2>10, AskGoes DEF ids
<1>5. CASE Judge(q)
    <2>1. PICK r : r = (IF SameProcess(asks[q].pid)
                        THEN [asks[q] EXCEPT !.stage = "end", !.answer = "live"]
                        ELSE IF exitCode # "none" THEN [asks[q] EXCEPT !.stage = "end", !.answer = "exited"]
                        ELSE [asks[q] EXCEPT !.stage = "repairing"])
        OBVIOUS
    <2>2. asks[q].stage = "read" /\ asks' = [asks EXCEPT ![q] = r]
          /\ UNCHANGED <<fileVars, ids, creates, ends, asked>>
        BY <1>5, <2>1 DEF Judge
    <2>3. /\ r \in AskCall /\ r.stage \in {"end", "repairing"}
          /\ r.stage = "repairing" => ~SameProcess(asks[q].pid) /\ exitCode = "none"
        BY <1>2, <2>1 DEF AskCall, AskAt, Answers
    <2>4. HelperFields'
        BY <1>1, <1>3, <2>2, <2>3 DEF HelperFields, fileVars, ids
    <2>5. ~asked => CreatesUnder = {} /\ Held \subseteq {asks[q].pid}
        BY <1>1, <2>2 DEF Alone, AsksUnder, Rest, SeenByAsk
    <2>6. ~asked => Held \subseteq {manifest}
        BY <1>1, <2>5 DEF Rest, ManifestIsIts, CreatesUnder
    <2>7. ~asked /\ Held # {} => SameProcess(asks[q].pid)
        BY <1>1, <2>5, <2>6, HeldAlive DEF SameProcess
    <2>8. QED
        BY <2>2, <2>3, <2>4, <2>5, <2>7, AskGoes DEF fileVars, ids
<1>6. CASE Repair(q)
    <2>1. PICK r : r = [asks[q] EXCEPT !.stage = "end", !.answer = "exited"]
        OBVIOUS
    <2>2. r \in AskCall /\ r.stage = "end"
        BY <1>2, <2>1 DEF AskCall, AskAt, Answers
    <2>3. asks' = [asks EXCEPT ![q] = r] /\ exitCode' = "synthetic"
          /\ UNCHANGED <<ids, runnerPid, childPid, controlFifo, manifest, creates, ends, asked>>
        BY <1>6, <2>1 DEF Repair
    <2>4. HelperFields'
        BY <1>1, <1>3, <2>2, <2>3 DEF HelperFields, ids
    <2>5. QED
        BY <2>2, <2>3, <2>4, AskGoes DEF ids
<1>7. QED
    BY <1>4, <1>5, <1>6

LEMMA EndKeeps ==
    ASSUME CallsInTurn, HelperIInv, NEW t \in Ending,
           BeginEnd(t) \/ KillChild(t) \/ KillRunner(t) \/ RemoveFiles(t)
    PROVE  HelperIInv'
<1>1. HelperFields /\ ForeignIsOver /\ TurnsTaken /\ Alone /\ Rest
    BY Expanded
<1>2. ends[t] \in EndCall /\ (ends[t].stage = "child" => ends[t].pid \in Pid)
      /\ NoPid \in AnyPid /\ Pid \subseteq AnyPid
    BY <1>1 DEF HelperFields, AnyPid
<1>3. ASSUME NEW r \in EndCall, r.stage = "child" => r.pid \in Pid, ends' = [ends EXCEPT ![t] = r],
             runnerPid' \in AnyPid, childPid' \in AnyPid, controlFifo' \in BOOLEAN,
             runner' \in [Pid -> Alive \cup {"none", "nameless", "gone", "killed"}],
             UNCHANGED <<foreign, exitCode, manifest, creates, asks, asked>>
      PROVE  HelperFields'
    BY <1>1, <1>3 DEF HelperFields
<1>4. CASE BeginEnd(t)
    <2>1. PICK r : r = [ends[t] EXCEPT !.pid = childPid, !.stage = IF PidAlive(childPid) THEN "child" ELSE "runner"]
        OBVIOUS
    <2>2. ends' = [ends EXCEPT ![t] = r] /\ UNCHANGED <<fileVars, ids, creates, asks, asked>>
          /\ Unfinished(creates) \cup Unfinished(ends) = {}
        BY <1>1, <1>4, <2>1 DEF BeginEnd, MayBegin, CallsInTurn, HelperFields, EndCall
    <2>3. PidAlive(childPid) => childPid \in Pid
        BY <1>1 DEF HelperFields, AnyPid, PidAlive
    <2>4. r \in EndCall /\ r.stage \in {"child", "runner"} /\ (r.stage = "child" => r.pid \in Pid)
        BY <1>1, <1>2, <2>1, <2>3 DEF EndCall, EndAt, HelperFields
    <2>5. HelperFields' /\ ForeignIsOver' /\ Held' = Held
        BY <1>1, <1>3, <2>2, <2>4 DEF HelperFields, ForeignIsOver, Held, fileVars, ids
    <2>6. CreatesUnder = {} /\ EndsUnder = {}
        BY <1>1, <2>2, HelpersUnderWay DEF SetsAgree
    <2>7. ends'[t] = r /\ \A u \in Ending : u # t => ends'[u] = ends[u]
        BY <1>1, <2>2 DEF HelperFields
    <2>8. CreatesUnder' = {} /\ EndsUnder' = {t} /\ AsksUnder' = AsksUnder
        BY <2>2, <2>4, <2>6, <2>7 DEF CreatesUnder, EndsUnder, AsksUnder
    <2>9. TurnsTaken' /\ Alone'
        BY <2>8 DEF TurnsTaken, Alone
    <2>10. HeldIsNamed' /\ ManifestIsIts' /\ HeldByCreate'
        BY <1>1, <2>2, <2>5 DEF Rest, HeldIsNamed, ManifestIsIts, HeldByCreate, fileVars
    <2>11. NoneAtEnd'
        BY <1>1, <2>4, <2>5, <2>7 DEF Rest, NoneAtEnd
    <2>12. SeenByAsk'
        BY <1>1, <2>2, <2>5 DEF Rest, SeenByAsk, fileVars
    <2>13. QED
        BY <2>5, <2>9, <2>10, <2>11, <2>12, Expanded DEF Rest
<1>5. CASE KillChild(t)
    <2>1. PICK p \in Pid : p = ends[t].pid
        BY <1>2, <1>5 DEF KillChild
    <2>2. PICK r : r = [ends[t] EXCEPT !.stage = IF runner[p] = "up" \/ p \in foreign THEN "runner" ELSE "end"]
        OBVIOUS
    <2>3. r \in EndCall /\ r.stage \in {"runner", "end"}
        BY <1>2, <2>2 DEF EndCall, EndAt
    <2>4. ends[t].stage = "child" /\ ends' = [ends EXCEPT ![t] = r]
          /\ (IF runner[p] = "up" THEN Moves(p, "over") ELSE UNCHANGED runner)
          /\ UNCHANGED <<fileVars, creates, asks, asked, foreign>>
        BY <1>5, <2>1, <2>2 DEF KillChild
    <2>5. /\ runner' \in [Pid -> Alive \cup {"none", "nameless", "gone", "killed"}]
          /\ Held' \subseteq Held /\ \A x \in Pid : runner'[x] = runner[x] \/ runner[x] = "up"
        <3>1. CASE runner[p] = "up"
            BY <1>1, <2>4, <3>1, Steps DEF Alive
        <3>2. CASE runner[p] # "up"
            BY <1>1, <2>4, <3>2 DEF HelperFields, Held
        <3>3. QED
            BY <3>1, <3>2
    <2>6. HelperFields' /\ ForeignIsOver'
        BY <1>1, <1>3, <2>3, <2>4, <2>5 DEF HelperFields, ForeignIsOver, fileVars
    <2>7. t \in EndsUnder
        BY <2>4 DEF EndsUnder
    <2>8. QED
        BY <2>3, <2>4, <2>5, <2>6, <2>7, EndGoes DEF fileVars
<1>6. CASE KillRunner(t)
    <2>1. PICK r : r = [ends[t] EXCEPT !.stage = "killed"]
        OBVIOUS
    <2>2. r \in EndCall /\ r.stage = "killed"
        BY <1>2, <2>1 DEF EndCall, EndAt
    <2>3. ends[t].stage = "runner" /\ ends' = [ends EXCEPT ![t] = r]
          /\ (IF runnerPid # NoPid /\ AliveRunner(runnerPid) THEN Moves(runnerPid, "killed") ELSE UNCHANGED runner)
          /\ UNCHANGED <<fileVars, creates, asks, asked, foreign>>
        BY <1>6, <2>1 DEF KillRunner
    <2>4. t \in EndsUnder /\ CreatesUnder = {}
        BY <1>1, <2>3 DEF EndsUnder, TurnsTaken
    <2>5. Held \subseteq {runnerPid}
        BY <1>1, <2>4 DEF Rest, HeldIsNamed, CreatesUnder
    <2>6. /\ runner' \in [Pid -> Alive \cup {"none", "nameless", "gone", "killed"}]
          /\ Held' = {} /\ \A x \in Pid : runner'[x] \in {runner[x], "killed"}
        <3>1. CASE runnerPid # NoPid /\ AliveRunner(runnerPid)
            <4>1. runnerPid \in Pid
                BY <1>1, <3>1 DEF HelperFields, AnyPid
            <4>2. runner' = [runner EXCEPT ![runnerPid] = "killed"]
                BY <2>3, <3>1 DEF Moves
            <4>3. QED
                BY <1>1, <2>5, <4>1, <4>2 DEF HelperFields, Held, Alive
        <3>2. CASE ~(runnerPid # NoPid /\ AliveRunner(runnerPid))
            <4>1. Held = {}
                BY <1>1, <2>5, <3>2, HeldAlive
            <4>2. QED
                BY <1>1, <2>3, <3>2, <4>1 DEF HelperFields, Held
        <3>3. QED
            BY <3>1, <3>2
    <2>7. HelperFields'
        BY <1>1, <1>3, <2>2, <2>3, <2>6 DEF HelperFields, fileVars
    <2>8. ForeignIsOver'
        BY <1>1, <2>3, <2>6 DEF ForeignIsOver, HelperFields
    <2>9. QED
        BY <2>2, <2>3, <2>4, <2>6, <2>7, <2>8, EndGoes DEF fileVars
<1>7. CASE RemoveFiles(t)
    <2>1. PICK r : r = [ends[t] EXCEPT !.stage = "end"]
        OBVIOUS
    <2>2. r \in EndCall /\ r.stage = "end"
        BY <1>2, <2>1 DEF EndCall, EndAt
    <2>3. ends[t].stage = "killed" /\ ends' = [ends EXCEPT ![t] = r]
          /\ runnerPid' = NoPid /\ childPid' = NoPid /\ controlFifo' = FALSE
          /\ UNCHANGED <<ids, exitCode, manifest, creates, asks, asked>>
        BY <1>7, <2>1 DEF RemoveFiles
    <2>4. t \in EndsUnder /\ Held = {}
        BY <1>1, <2>3 DEF EndsUnder, Rest, NoneAtEnd
    <2>5. HelperFields' /\ ForeignIsOver' /\ Held' = Held
        BY <1>1, <1>2, <1>3, <2>2, <2>3 DEF HelperFields, ForeignIsOver, Held, ids
    <2>6. QED
        BY <2>2, <2>3, <2>4, <2>5, EndGoes
<1>8. QED
    BY <1>4, <1>5, <1>6, <1>7

-----------------------------------------------------------------------------
LEMMA HelperStart == HelperInit => HelperIInv
<1>1. SUFFICES ASSUME HelperInit PROVE HelperIInv
    OBVIOUS
<1>2. HelperFields
    BY <1>1 DEF HelperInit, HelperFields, AnyPid, NoCall, CreateCall, AskCall, EndCall, CreateAt,
        AskAt, EndAt, Answers
<1>3. Held = {} /\ ForeignIsOver
    BY <1>1 DEF HelperInit, Held, Alive, ForeignIsOver
<1>4. CreatesUnder = {} /\ EndsUnder = {} /\ AsksUnder = {}
    BY <1>1 DEF HelperInit, CreatesUnder, EndsUnder, AsksUnder, NoCall
<1>5. InTurn /\ AsksAlone
    BY <1>2, <1>4, HelpersUnderWay DEF SetsAgree, InTurn, AsksAlone
<1>6. HeldIsNamed /\ HeldByCreate /\ NoneAtEnd /\ ManifestIsIts /\ SeenByAsk
    BY <1>1, <1>3 DEF HelperInit, HeldIsNamed, HeldByCreate, NoneAtEnd, ManifestIsIts, SeenByAsk, NoCall
<1>7. QED
    BY <1>2, <1>3, <1>5, <1>6 DEF HelperIInv

LEMMA HelperStep ==
    ASSUME CallsInTurn, HelperIInv, [HelperNext]_helperVars PROVE HelperIInv'
<1>1. CASE UNCHANGED helperVars
    BY <1>1 DEF helperVars, fileVars, callVars, ids, HelperIInv, HelperFields, ForeignIsOver, InTurn,
        HeldIsNamed, HeldByCreate, NoneAtEnd, ManifestIsIts, AsksAlone, SeenByAsk, Held, Unfinished
<1>2. QED
    BY <1>1, RunnerKeeps, CreateKeeps, AskKeeps, EndKeeps DEF HelperNext

LEMMA OneHeld ==
    ASSUME HelperIInv PROVE OneRunner
<1>1. HelperFields /\ ForeignIsOver /\ TurnsTaken /\ Alone /\ Rest
    BY Expanded
<1>2. Running \subseteq Held
    BY DEF Running, Held, Alive
<1>3. PICK x : Held \subseteq {x}
    BY <1>1 DEF Rest, HeldIsNamed, HeldByCreate
<1>4. Cardinality(Running) <= 1
    <2>1. IsFiniteSet({x}) /\ Cardinality({x}) = 1
        BY FS_Singleton
    <2>2. Running \subseteq {x}
        BY <1>2, <1>3
    <2>3. IsFiniteSet(Running) /\ Cardinality(Running) <= Cardinality({x})
        BY <2>1, <2>2, FS_Subset
    <2>4. QED
        BY <2>1, <2>3
<1>5. Unfinished(creates) \cup Unfinished(ends) = {} => Running \subseteq {runnerPid}
    BY <1>1, <1>2, HelpersUnderWay DEF SetsAgree, CreatesUnder, Rest, HeldIsNamed
<1>6. QED
    BY <1>4, <1>5 DEF OneRunner

(* What a judgement relies on.                                             *)
LEMMA JudgedRight ==
    ASSUME HelperIInv, NEW q \in Asking, Judge(q)
    PROVE  /\ ~asked /\ asks'[q].answer # "live" => Running = {}
           /\ asks[q].pid = manifest /\ asks'[q].answer = "live" => AliveRunner(asks[q].pid)
<1>1. HelperFields /\ ForeignIsOver /\ TurnsTaken /\ Alone /\ Rest
    BY Expanded
<1>2. Running \subseteq Held
    BY DEF Running, Held, Alive
<1>3. asks[q].stage = "read" /\ asks[q].answer = "none" /\ asks[q] \in AskCall
    BY <1>1 DEF Judge, HelperFields
<1>4. asks'[q].answer = "live" <=> SameProcess(asks[q].pid)
    BY <1>1, <1>3 DEF Judge, HelperFields, AskCall
<1>5. ~asked => CreatesUnder = {} /\ Held \subseteq {asks[q].pid}
    BY <1>1, <1>3 DEF Alone, AsksUnder, Rest, SeenByAsk
<1>6. ~asked => Held \subseteq {manifest}
    BY <1>1, <1>5 DEF Rest, ManifestIsIts, CreatesUnder
<1>7. ~asked /\ Held # {} => SameProcess(asks[q].pid)
    BY <1>1, <1>5, <1>6, HeldAlive DEF SameProcess
<1>8. QED
    BY <1>2, <1>4, <1>7 DEF SameProcess, PidAlive

LEMMA RealKept ==
    ASSUME HelperIInv, [HelperNext]_helperVars, exitCode = "real", exitCode' = "synthetic"
    PROVE  asked
<1>1. HelperFields /\ ForeignIsOver /\ TurnsTaken /\ Alone /\ Rest
    BY Expanded
<1>2. PICK q \in Asking : Repair(q)
    <2>1. exitCode' # exitCode
        OBVIOUS
    <2>2. \A p \in Pid : ~RunnerStep(p) /\ ~RunnerDies(p) /\ ~ReusePid(p)
        BY <2>1 DEF RunnerStep, RunnerDies, ReusePid, EnsureFifos, SpawnChild, WriteChildPid, ChildExits,
            WriteExitCode, RunnerFails, RemoveChildPid, RemoveRunnerPid, RemoveControl, fileVars
    <2>3. \A c \in Creating : ~CreateStep(c)
        BY <2>1 DEF CreateStep, BeginCreate, LookForRunner, ClearOldRun, SpawnRunner, WriteRunnerPid,
            WriteManifest, fileVars
    <2>4. \A t \in Ending : ~BeginEnd(t) /\ ~KillChild(t) /\ ~KillRunner(t) /\ ~RemoveFiles(t)
        BY <2>1 DEF BeginEnd, KillChild, KillRunner, RemoveFiles, fileVars
    <2>5. \A q \in Asking : ~ReadFiles(q) /\ ~Judge(q)
        BY <2>1 DEF ReadFiles, Judge, fileVars
    <2>6. HelperNext
        BY <2>1 DEF helperVars, fileVars
    <2>7. QED
        BY <2>2, <2>3, <2>4, <2>5, <2>6 DEF HelperNext
<1>3. QED
    BY <1>1, <1>2 DEF Repair, Rest, SeenByAsk

(* However runners start, end, are killed and leave their ids to others,   *)
(* beside any number of statuses, if creates and ends come one after the   *)
(* other and the manifest is written: a session has one runner and its id  *)
(* is in its file, a status that says "exited" is right, and so is one     *)
(* that says "live", and the code a run ended with is not overwritten.     *)
(* (create_session, session_status, terminate_session)                     *)
THEOREM HelperHolds ==
    ASSUME CallsInTurn PROVE HelperSpec => HelperKept
<1>1. HelperIInv /\ [HelperNext]_helperVars => HelperIInv'
    BY HelperStep
<1>2. HelperIInv => OneRunner
    BY OneHeld
<1>3. HelperIInv /\ [HelperNext]_helperVars =>
        [\A q \in Asking :
          Judge(q) /\ ~asked /\ asks'[q].answer # "live" => Running = {}]_helperVars
    BY JudgedRight
<1>4. HelperIInv /\ [HelperNext]_helperVars =>
        [\A q \in Asking :
          Judge(q) /\ asks[q].pid = manifest /\ asks'[q].answer = "live" =>
              AliveRunner(asks[q].pid)]_helperVars
    BY JudgedRight
<1>5. HelperIInv /\ [HelperNext]_helperVars =>
        [exitCode = "real" /\ exitCode' = "synthetic" => asked]_helperVars
    BY RealKept
<1>6. QED
    BY HelperStart, <1>1, <1>2, <1>3, <1>4, <1>5, PTL
        DEF HelperSpec, HelperKept, StatusTrue, ExitedHasExited, LiveIsOurs, RealCodeKept

-----------------------------------------------------------------------------
(* The rows of the sessions on other hosts.                                *)

FlowAt == {"idle", "ask", "write", "create", "record", "choose", "next", "end", "ended"}
FlowState ==
    [at : FlowAt, todo : SUBSET Sid, s : 0..MaxSessions,
     answer : {"none", "live", "exited", "lost", "error"}]
Shown == {s \in Sid : row[s] # "none"}

DurableFields ==
    /\ host \in [Sid -> {"none", "live", "over", "killed"}]
    /\ row \in [Sid -> {"none", "live", "exited", "lost"}]
    /\ handedOut \in 0..MaxSessions
    /\ flow \in [Flow -> FlowState]
    /\ doubted \subseteq Sid /\ ended \subseteq Sid /\ stale \subseteq Sid

(* An id that was not handed out is on no host and in no row; what was     *)
(* ended has a row, and is gone from the host for good.                    *)
Unborn(s) == handedOut < s => host[s] = "none" /\ s \notin Shown
EndedIsGone == ended \subseteq Shown /\ \A s \in ended : host[s] = "killed"

(* What a command works on has a row, the session it creates has none.     *)
WorksOnRows(w) ==
    /\ w.todo \subseteq Shown
    /\ w.at \in {"ask", "write", "end", "ended"} => w.s \in Shown
    /\ w.at = "record" => w.s \in 1..handedOut /\ w.s \notin Shown

(* What a command was told is still so when it writes it down, but that    *)
(* the session lives; and one that was told that of a session that was     *)
(* ended meanwhile came beside the ending.                                 *)
ToldRight(w) ==
    /\ w.at = "write" =>
         /\ w.answer \in {"live", "exited", "lost", "error"}
         /\ w.answer \in {"exited", "lost"} => host[w.s] # "live"
         /\ w.answer = "error" => w.s \in doubted
         /\ w.answer = "live" /\ w.s \in ended => w.s \in stale
    /\ w.at = "ended" => host[w.s] # "live" \/ w.s \in doubted

CreatesApart ==
    \A f, g \in Flow :
        flow[f].at = "record" /\ flow[g].at = "record" /\ flow[f].s = flow[g].s => f = g

DurableIInv ==
    /\ DurableFields /\ EndedIsGone /\ CreatesApart /\ RowsTrue
    /\ \A s \in Sid : Unborn(s)
    /\ \A f \in Flow : WorksOnRows(flow[f]) /\ ToldRight(flow[f])

-----------------------------------------------------------------------------
Below == {p \in Nat \X Nat : p[1] < p[2]}
LEMMA BelowWellFounded == IsWellFoundedOn(Below, Nat)
<1>1. Below = OpToRel(<, Nat)
    BY DEF Below, OpToRel
<1>2. QED
    BY <1>1, NatLessThanWellFounded

(* Numbers that are bounded have a largest among them.                     *)
LEMMA Largest ==
    ASSUME NEW n \in Nat, NEW S \in SUBSET (0..n), S # {}
    PROVE  \E m \in S : \A k \in S : k <= m
<1> DEFINE T == {n - s : s \in S}
<1>1. T \subseteq Nat /\ T # {}
    <2>1. \A s \in S : s \in 0..n /\ n - s \in Nat
        OBVIOUS
    <2>2. QED
        BY <2>1
<1>2. PICK t \in T : \A u \in T : ~(<<u, t>> \in Below)
    BY <1>1, BelowWellFounded, WFMin
<1>3. PICK m \in S : t = n - m
    OBVIOUS
<1>4. ASSUME NEW k \in S PROVE k <= m
    <2>1. n - k \in T /\ n - k \in Nat /\ t \in Nat
        BY <1>1
    <2>2. ~(n - k < t)
        BY <1>2, <2>1 DEF Below
    <2>3. QED
        BY <1>3, <2>2
<1>5. QED
    BY <1>4

LEMMA NewestIsOne ==
    ASSUME NEW S \in SUBSET Sid, S # {}
    PROVE  Newest(S) \in S
<1>1. S \in SUBSET (0..MaxSessions) /\ MaxSessions \in Nat
    BY DurableAssumption DEF Sid
<1>2. \E m \in S : \A k \in S : k <= m
    BY <1>1, Largest
<1>3. QED
    BY <1>2 DEF Newest

-----------------------------------------------------------------------------
(* What any step leaves to the commands that do not take it: rows stay,    *)
(* nothing comes alive but what is created, and what a command was told of *)
(* is not ended unnoticed.                                                 *)
GoesOn(f) ==
    /\ handedOut <= handedOut'
    /\ Shown \subseteq Shown' /\ doubted \subseteq doubted' /\ stale \subseteq stale'
    /\ \A s \in Sid : host'[s] = "live" => host[s] = "live" \/ handedOut < s
    /\ \A s \in Shown' \ Shown : f \in Flow /\ flow[f].at = "record" /\ s = flow[f].s
    /\ \A s \in ended' \ ended :
         \A g \in Flow \ {f} : flow[g].at = "write" /\ flow[g].s = s => s \in stale'

LEMMA OthersGoOn ==
    ASSUME DurableIInv, DurableFields', NEW f, GoesOn(f), NEW g \in Flow, g # f,
           flow'[g] = flow[g]
    PROVE  (WorksOnRows(flow[g]) /\ ToldRight(flow[g]))'
<1>1. /\ flow[g] \in FlowState /\ handedOut \in Nat /\ handedOut' \in Nat
      /\ WorksOnRows(flow[g]) /\ ToldRight(flow[g]) /\ CreatesApart
      /\ \A s \in Sid : Unborn(s)
    BY DurableAssumption DEF DurableIInv, DurableFields
<1>2. \A s \in Shown : s \in Sid /\ ~(handedOut < s)
    BY <1>1 DEF Unborn, Shown
<1>3. flow[g].at = "record" => flow[g].s \notin Shown' /\ flow[g].s \in 1..handedOut'
    <2>1. flow[g].at = "record" /\ flow[f].at = "record" /\ f \in Flow => flow[f].s # flow[g].s
        BY <1>1 DEF CreatesApart
    <2>2. QED
        BY <1>1, <2>1 DEF GoesOn, WorksOnRows
<1>4. WorksOnRows(flow[g])'
    BY <1>1, <1>3 DEF WorksOnRows, GoesOn
<1>5. flow[g].at \in {"write", "ended"} => flow[g].s \in Sid /\ ~(handedOut < flow[g].s)
    BY <1>1, <1>2 DEF WorksOnRows
<1>6. ToldRight(flow[g])'
    BY <1>1, <1>5 DEF ToldRight, GoesOn
<1>7. QED
    BY <1>4, <1>6

(* One command takes a step, and is at w.                                  *)
Separate(f, w) ==
    w.at = "record" => \A g \in Flow \ {f} : flow[g].at = "record" => flow[g].s # w.s
RestKept == EndedIsGone /\ RowsTrue /\ \A s \in Sid : Unborn(s)

LEMMA OneGoesOn ==
    ASSUME DurableIInv, NEW f \in Flow, NEW w \in FlowState,
           flow' = [flow EXCEPT ![f] = w], DurableFields', GoesOn(f), Separate(f, w),
           (WorksOnRows(w) /\ ToldRight(w))', RestKept'
    PROVE  DurableIInv'
<1>1. flow \in [Flow -> FlowState] /\ CreatesApart
    BY DEF DurableIInv, DurableFields
<1>2. flow'[f] = w /\ \A g \in Flow \ {f} : flow'[g] = flow[g]
    BY <1>1
<1>3. ASSUME NEW g \in Flow PROVE (WorksOnRows(flow[g]) /\ ToldRight(flow[g]))'
    <2>1. CASE g = f
        BY <1>2, <2>1
    <2>2. CASE g # f
        BY <1>2, <2>2, OthersGoOn
    <2>3. QED
        BY <2>1, <2>2
<1>4. CreatesApart'
    BY <1>1, <1>2 DEF CreatesApart, Separate
<1>5. QED
    BY <1>3, <1>4 DEF DurableIInv, RestKept

LEMMA CreatedStays ==
    ASSUME flow \in [Flow -> FlowState], NEW f \in Flow, NEW w,
           flow' = [flow EXCEPT ![f] = w], flow[f].at # "record"
    PROVE  UnderWay \subseteq UnderWay'
<1> SUFFICES ASSUME NEW s \in UnderWay PROVE s \in UnderWay'
    OBVIOUS
<1>1. s \in Sid /\ \E g \in Flow : flow[g].at = "record" /\ flow[g].s = s
    BY DEF UnderWay
<1>2. PICK g \in Flow : flow[g].at = "record" /\ flow[g].s = s
    BY <1>1
<1>3. flow'[g] = flow[g]
    BY <1>2
<1>4. s \in Sid' /\ \E h \in Flow : flow'[h].at = "record" /\ flow'[h].s = s
    BY <1>1, <1>2, <1>3 DEF Sid
<1>5. QED
    BY <1>4 DEF UnderWay

(* A step that does nothing but to lead a command on.                      *)
LEMMA LedOn ==
    ASSUME DurableIInv, NEW f \in Flow, NEW w \in FlowState,
           flow' = [flow EXCEPT ![f] = w],
           UNCHANGED <<host, row, handedOut, doubted, ended, stale>>,
           WorksOnRows(w), flow[f].at # "record",
           w.at \notin {"write", "record", "ended"}
    PROVE  DurableIInv'
<1>1. DurableFields' /\ flow \in [Flow -> FlowState]
    BY DEF DurableIInv, DurableFields
<1>2. Shown' = Shown /\ handedOut <= handedOut'
    BY DurableAssumption DEF Shown, DurableIInv, DurableFields
<1>3. GoesOn(f) /\ Separate(f, w)
    BY <1>2 DEF GoesOn, Separate
<1>4. (WorksOnRows(w) /\ ToldRight(w))'
    BY <1>2 DEF WorksOnRows, ToldRight
<1>5. EndedIsGone' /\ \A s \in Sid : Unborn(s)'
    BY <1>2 DEF EndedIsGone, Unborn, DurableIInv
<1>6. RowsTrue'
    BY <1>1, CreatedStays DEF RowsTrue, NothingRunsUnseen, EndedStaysEnded, DurableIInv
<1>7. QED
    BY <1>1, <1>3, <1>4, <1>5, <1>6, OneGoesOn DEF RestKept

LEMMA Beginnings ==
    ASSUME DurableIInv, NEW f \in Flow
    PROVE  /\ \A s \in Sid : \/ View(f, s) \/ Reattach(f, s) \/ Restart(f, s)
                            => DurableIInv'
           /\ ConnectSsh(f) => DurableIInv'
           /\ Disconnect(f) => DurableIInv'
<1>1. /\ flow \in [Flow -> FlowState] /\ row \in [Sid -> {"none", "live", "exited", "lost"}]
      /\ MaxSessions \in Nat /\ flow[f] \in FlowState /\ WorksOnRows(flow[f])
    BY DurableAssumption DEF DurableIInv, DurableFields
<1>2. flow[f] = Resting => flow[f].at = "idle" /\ flow[f].todo = {}
    BY DEF Resting
<1>3. ASSUME flow[f] = Resting, NEW s \in Shown,
             UNCHANGED <<host, row, handedOut, errors, ghosts>>,
             NEW place \in {"ask", "end"},
             flow' = [flow EXCEPT ![f].at = place, ![f].s = s]
      PROVE  DurableIInv'
    <2>1. PICK w : w = [flow[f] EXCEPT !.at = place, !.s = s]
        OBVIOUS
    <2>2. /\ w \in FlowState /\ w.at = place /\ w.s = s /\ w.todo = {}
        <3>1. place \in FlowAt /\ s \in 0..MaxSessions
            BY <1>1 DEF FlowAt, Sid, Shown
        <3>2. QED
            BY <1>1, <1>2, <1>3, <2>1, <3>1 DEF FlowState
    <2>3. flow' = [flow EXCEPT ![f] = w]
        BY <1>1, <1>3, <2>1
    <2>4. WorksOnRows(w)
        BY <1>3, <2>2 DEF WorksOnRows
    <2>5. QED
        BY <1>2, <1>3, <2>2, <2>3, <2>4, LedOn DEF ghosts
<1>4. ASSUME flow[f] = Resting, UNCHANGED <<host, row, handedOut, errors, ghosts>>,
             NEW place \in {"choose", "next"},
             flow' = [flow EXCEPT ![f].at = place, ![f].todo = LiveRows]
      PROVE  DurableIInv'
    <2>1. PICK w : w = [flow[f] EXCEPT !.at = place, !.todo = LiveRows]
        OBVIOUS
    <2>2. w \in FlowState /\ w.at = place /\ w.todo = LiveRows
        BY <1>1, <1>4, <2>1 DEF FlowState, FlowAt, LiveRows
    <2>3. flow' = [flow EXCEPT ![f] = w]
        BY <1>1, <1>4, <2>1
    <2>4. WorksOnRows(w)
        BY <1>4, <2>2 DEF WorksOnRows, LiveRows, Shown
    <2>5. QED
        BY <1>2, <1>4, <2>2, <2>3, <2>4, LedOn DEF ghosts
<1>5. ASSUME NEW s \in Sid, View(f, s) \/ Reattach(f, s) \/ Restart(f, s)
      PROVE  DurableIInv'
    <2>1. s \in Shown
        BY <1>5 DEF View, Reattach, Restart, Looks, Shown
    <2>2. QED
        BY <1>3, <1>5, <2>1 DEF View, Reattach, Restart
<1>6. ConnectSsh(f) => DurableIInv'
    BY <1>4 DEF ConnectSsh
<1>7. Disconnect(f) => DurableIInv'
    BY <1>4 DEF Disconnect
<1>8. QED
    BY <1>5, <1>6, <1>7

(* The next of the sessions a command goes through.                        *)
LEMMA GoesThrough ==
    ASSUME DurableIInv, NEW f \in Flow
    PROVE  /\ Choose(f) => DurableIInv'
           /\ NextToEnd(f) => DurableIInv'
<1> DEFINE todo == flow[f].todo
           s == Newest(todo)
<1>1. /\ flow \in [Flow -> FlowState] /\ MaxSessions \in Nat
      /\ flow[f] \in FlowState /\ WorksOnRows(flow[f])
    BY DurableAssumption DEF DurableIInv, DurableFields
<1>2. todo \subseteq Shown /\ todo \subseteq Sid
    BY <1>1 DEF WorksOnRows, Shown
<1>3. todo # {} => s \in todo /\ s \in Shown /\ s \in 0..MaxSessions
    BY <1>1, <1>2, NewestIsOne DEF Sid
<1> HIDE DEF s
<1>4. ASSUME Choose(f) PROVE DurableIInv'
    <2>1. CASE todo = {}
        <3>1. PICK w : w = [flow[f] EXCEPT !.at = "create"]
            OBVIOUS
        <3>2. w \in FlowState /\ w.at = "create" /\ w.todo = {}
            BY <1>1, <2>1, <3>1 DEF FlowState, FlowAt
        <3>3. flow' = [flow EXCEPT ![f] = w]
            BY <1>1, <1>4, <2>1, <3>1 DEF Choose, To
        <3>4. WorksOnRows(w)
            BY <3>2 DEF WorksOnRows
        <3>5. QED
            BY <1>4, <3>2, <3>3, <3>4, LedOn DEF Choose, ghosts
    <2>2. CASE todo # {}
        <3>1. PICK w : w = [flow[f] EXCEPT !.at = "ask", !.s = s]
            OBVIOUS
        <3>2. w \in FlowState /\ w.at = "ask" /\ w.todo = todo /\ w.s = s
            BY <1>1, <1>3, <2>2, <3>1 DEF FlowState, FlowAt
        <3>3. flow' = [flow EXCEPT ![f] = w]
            BY <1>1, <1>4, <2>2, <3>1 DEF Choose, s
        <3>4. WorksOnRows(w)
            BY <1>2, <1>3, <2>2, <3>2 DEF WorksOnRows
        <3>5. QED
            BY <1>4, <3>2, <3>3, <3>4, LedOn DEF Choose, ghosts
    <2>3. QED
        BY <2>1, <2>2
<1>5. ASSUME NextToEnd(f) PROVE DurableIInv'
    <2>1. CASE todo = {}
        <3>1. Resting \in FlowState /\ Resting.at = "idle" /\ WorksOnRows(Resting)
            BY <1>1 DEF Resting, FlowState, FlowAt, WorksOnRows
        <3>2. flow' = [flow EXCEPT ![f] = Resting]
            BY <1>5, <2>1 DEF NextToEnd
        <3>3. QED
            BY <1>5, <3>1, <3>2, LedOn DEF NextToEnd, ghosts
    <2>2. CASE todo # {}
        <3>1. PICK w : w = [flow[f] EXCEPT !.at = "end", !.s = s, !.todo = @ \ {s}]
            OBVIOUS
        <3>2. w \in FlowState /\ w.at = "end" /\ w.todo \subseteq todo /\ w.s = s
            BY <1>1, <1>3, <2>2, <3>1 DEF FlowState, FlowAt
        <3>3. flow' = [flow EXCEPT ![f] = w]
            BY <1>1, <1>5, <2>2, <3>1 DEF NextToEnd, s
        <3>4. WorksOnRows(w)
            BY <1>2, <1>3, <2>2, <3>2 DEF WorksOnRows
        <3>5. QED
            BY <1>5, <3>2, <3>3, <3>4, LedOn DEF NextToEnd, ghosts
    <2>3. QED
        BY <2>1, <2>2
<1>6. QED
    BY <1>4, <1>5

(* An answer is written down: a row says what the host said.               *)
LEMMA WritesDown ==
    ASSUME DurableIInv, NEW f \in Flow, NEW w \in FlowState,
           flow[f].at = "write", WriteAnswer(f), flow' = [flow EXCEPT ![f] = w],
           UNCHANGED <<host, handedOut, ghosts>>,
           w.at \in {"idle", "choose"}, w.todo \subseteq flow[f].todo
    PROVE  DurableIInv'
<1> DEFINE s == flow[f].s
           says == Said(flow[f].answer)
<1>1. /\ flow \in [Flow -> FlowState] /\ row \in [Sid -> {"none", "live", "exited", "lost"}]
      /\ flow[f] \in FlowState /\ WorksOnRows(flow[f]) /\ ToldRight(flow[f])
      /\ handedOut \in Nat
    BY DurableAssumption DEF DurableIInv, DurableFields
<1>2. s \in Shown /\ s \in Sid
    BY <1>1 DEF WorksOnRows, Shown
<1>3. /\ says \in {"live", "exited", "lost"}
      /\ says = "live" <=> flow[f].answer = "live"
      /\ flow[f].answer \in {"live", "exited", "lost", "error"}
    BY <1>1 DEF Said, ToldRight
<1> HIDE DEF s, says
<1>4. row' = [row EXCEPT ![s] = says]
    BY DEF WriteAnswer, WriteRow, s, says
<1>5. row'[s] = says /\ \A t \in Sid \ {s} : row'[t] = row[t]
    BY <1>1, <1>2, <1>4
<1>6. DurableFields'
    BY <1>1, <1>2, <1>3, <1>4 DEF DurableIInv, DurableFields, ghosts
<1>7. Shown' = Shown
    BY <1>2, <1>3, <1>5 DEF Shown
<1>8. GoesOn(f) /\ Separate(f, w)
    BY <1>1, <1>7 DEF GoesOn, Separate, ghosts
<1>9. (WorksOnRows(w) /\ ToldRight(w))'
    BY <1>1, <1>7 DEF WorksOnRows, ToldRight
<1>10. EndedIsGone' /\ \A t \in Sid : Unborn(t)'
    BY <1>7 DEF EndedIsGone, Unborn, DurableIInv, ghosts
<1>11. NothingRunsUnseen'
    <2>1. UnderWay \subseteq UnderWay'
        BY <1>1, CreatedStays
    <2>2. host[s] = "live" /\ s \notin doubted => says = "live"
        BY <1>1, <1>3 DEF ToldRight, s
    <2>3. QED
        BY <1>5, <2>1, <2>2 DEF NothingRunsUnseen, RowsTrue, DurableIInv, ghosts
<1>12. EndedStaysEnded'
    <2>1. s \in ended \ stale => says # "live"
        BY <1>1, <1>3 DEF ToldRight, s
    <2>2. \A t \in ended \ stale : t \in Sid
        BY DEF DurableIInv, DurableFields
    <2>3. QED
        BY <1>5, <2>1, <2>2 DEF EndedStaysEnded, RowsTrue, DurableIInv, ghosts
<1>13. QED
    BY <1>6, <1>8, <1>9, <1>10, <1>11, <1>12, OneGoesOn DEF RestKept, RowsTrue

LEMMA Answered ==
    ASSUME DurableIInv, NEW f \in Flow
    PROVE  /\ Looked(f) => DurableIInv'
           /\ Chosen(f) => DurableIInv'
<1>1. flow \in [Flow -> FlowState] /\ flow[f] \in FlowState /\ MaxSessions \in Nat
    BY DurableAssumption DEF DurableIInv, DurableFields
<1>2. Resting \in FlowState /\ Resting.at = "idle" /\ Resting.todo = {}
    BY <1>1 DEF Resting, FlowState, FlowAt
<1>3. ASSUME Looked(f) PROVE DurableIInv'
    BY <1>2, <1>3, WritesDown DEF Looked
<1>4. ASSUME Chosen(f) PROVE DurableIInv'
    <2>1. CASE flow[f].answer = "live"
        <3>1. flow' = [flow EXCEPT ![f] = Resting]
            BY <1>1, <1>4, <2>1 DEF Chosen
        <3>2. QED
            BY <1>2, <1>4, <3>1, WritesDown DEF Chosen
    <2>2. CASE flow[f].answer # "live"
        <3>1. PICK w : w = [Resting EXCEPT !.at = "choose", !.todo = flow[f].todo \ {flow[f].s}]
            OBVIOUS
        <3>2. w \in FlowState /\ w.at = "choose" /\ w.todo \subseteq flow[f].todo
            BY <1>1, <1>2, <3>1 DEF FlowState, FlowAt
        <3>3. flow' = [flow EXCEPT ![f] = w]
            BY <1>1, <1>4, <2>2, <3>1 DEF Chosen
        <3>4. QED
            BY <1>4, <3>2, <3>3, WritesDown DEF Chosen
    <2>3. QED
        BY <2>1, <2>2
<1>5. QED
    BY <1>3, <1>4

LEMMA Asked ==
    ASSUME DurableIInv, NEW f \in Flow, Ask(f)
    PROVE  DurableIInv'
<1>1. /\ flow \in [Flow -> FlowState] /\ flow[f] \in FlowState /\ flow[f].at = "ask"
      /\ WorksOnRows(flow[f]) /\ handedOut \in Nat
      /\ UNCHANGED <<host, row, handedOut, ended, stale>>
    BY DurableAssumption DEF DurableIInv, DurableFields, Ask
<1>2. flow[f].s \in Shown /\ flow[f].s \in Sid
    BY <1>1 DEF WorksOnRows, Shown
<1>3. PICK a \in {"live", "exited", "lost", "error"} :
          /\ flow' = [flow EXCEPT ![f].at = "write", ![f].answer = a]
          /\ a = "error" => flow[f].s \in doubted'
          /\ a = "live" <=> a # "error" /\ host[flow[f].s] = "live"
          /\ doubted' \in {doubted, doubted \cup {flow[f].s}}
    <2>1. \A a \in HostSays(flow[f].s) :
              a \in {"live", "exited", "lost"} /\ (a = "live" <=> host[flow[f].s] = "live")
        BY DEF HostSays
    <2>2. QED
        BY <2>1 DEF Ask, CallFails, Working
<1>4. PICK w : w = [flow[f] EXCEPT !.at = "write", !.answer = a]
    OBVIOUS
<1>5. /\ w \in FlowState /\ w.at = "write" /\ w.answer = a
      /\ w.s = flow[f].s /\ w.todo = flow[f].todo
    BY <1>1, <1>4 DEF FlowState, FlowAt
<1>6. flow' = [flow EXCEPT ![f] = w]
    BY <1>1, <1>3, <1>4
<1>7. doubted \subseteq doubted' /\ doubted' \subseteq Sid
    BY <1>2, <1>3 DEF DurableIInv, DurableFields
<1>8. DurableFields'
    BY <1>1, <1>5, <1>6, <1>7 DEF DurableIInv, DurableFields
<1>9. Shown' = Shown
    BY <1>1 DEF Shown
<1>10. GoesOn(f) /\ Separate(f, w)
    BY <1>1, <1>5, <1>7, <1>9 DEF GoesOn, Separate
<1>11. (WorksOnRows(w) /\ ToldRight(w))'
    <2>1. WorksOnRows(w)'
        BY <1>1, <1>5, <1>9 DEF WorksOnRows
    <2>2. a = "live" => flow[f].s \notin ended
        BY <1>3 DEF DurableIInv, EndedIsGone
    <2>3. ToldRight(w)'
        BY <1>1, <1>3, <1>5, <2>2 DEF ToldRight
    <2>4. QED
        BY <2>1, <2>3
<1>12. EndedIsGone' /\ \A t \in Sid : Unborn(t)'
    BY <1>1, <1>9 DEF EndedIsGone, Unborn, DurableIInv
<1>13. RowsTrue'
    <2>1. UnderWay \subseteq UnderWay'
        BY <1>1, <1>6, CreatedStays
    <2>2. QED
        BY <1>1, <1>7, <2>1 DEF RowsTrue, NothingRunsUnseen, EndedStaysEnded, DurableIInv
<1>14. QED
    BY <1>5, <1>6, <1>8, <1>10, <1>11, <1>12, <1>13, OneGoesOn DEF RestKept

(* A session is created, or its creation fails, perhaps after the fact.    *)
LEMMA Created ==
    ASSUME DurableIInv, NEW f \in Flow, Create(f)
    PROVE  DurableIInv'
<1>1. /\ flow \in [Flow -> FlowState] /\ flow[f] \in FlowState /\ flow[f].at = "create"
      /\ WorksOnRows(flow[f]) /\ handedOut \in Nat /\ MaxSessions \in Nat
      /\ host \in [Sid -> {"none", "live", "over", "killed"}]
      /\ UNCHANGED <<row, ended, stale>>
    BY DurableAssumption DEF DurableIInv, DurableFields, Create
<1>2. /\ handedOut' = Fresh /\ Fresh = handedOut + 1 /\ Fresh \in Sid /\ Fresh \in 0..MaxSessions
    BY <1>1 DEF Create, Fresh, Sid
<1>3. Fresh \notin Shown /\ host[Fresh] = "none"
    BY <1>1, <1>2 DEF Unborn, DurableIInv
<1>4. Shown' = Shown
    BY <1>1 DEF Shown
<1>5. \A s \in ended : s # Fresh /\ s \in Shown
    BY <1>3 DEF DurableIInv, EndedIsGone
<1>6. host' = host \/ host' = [host EXCEPT ![Fresh] = "live"]
    BY DEF Create
<1>7. \A s \in Sid : s # Fresh => host'[s] = host[s]
    BY <1>1, <1>6
<1>8. EndedIsGone' /\ \A s \in Sid : Unborn(s)'
    BY <1>1, <1>2, <1>4, <1>5, <1>7 DEF EndedIsGone, Unborn, DurableIInv, DurableFields
<1>9. PICK w \in FlowState :
          /\ flow' = [flow EXCEPT ![f] = w] /\ w.todo \subseteq flow[f].todo
          /\ \/ w.at = "record" /\ w.s = Fresh /\ doubted' = doubted
             \/ w.at = "idle" /\ Fresh \in doubted' /\ doubted' = doubted \cup {Fresh}
    <2>1. CASE flow' = [flow EXCEPT ![f].at = "record", ![f].s = Fresh] /\ Working
        <3>1. PICK w : w = [flow[f] EXCEPT !.at = "record", !.s = Fresh]
            OBVIOUS
        <3>2. w \in FlowState /\ w.at = "record" /\ w.s = Fresh /\ w.todo = flow[f].todo
            BY <1>1, <1>2, <3>1 DEF FlowState, FlowAt
        <3>3. flow' = [flow EXCEPT ![f] = w]
            BY <1>1, <2>1, <3>1
        <3>4. QED
            BY <2>1, <3>2, <3>3 DEF Working
    <2>2. CASE flow' = [flow EXCEPT ![f] = Resting] /\ CallFails(Fresh)
        <3>1. Resting \in FlowState /\ Resting.at = "idle" /\ Resting.todo = {}
            BY <1>1 DEF Resting, FlowState, FlowAt
        <3>2. QED
            BY <2>2, <3>1 DEF CallFails
    <2>3. QED
        BY <2>1, <2>2 DEF Create
<1>10. doubted \subseteq doubted' /\ doubted' \subseteq Sid
    BY <1>2, <1>9 DEF DurableIInv, DurableFields
<1>11. DurableFields'
    <2>1. host' \in [Sid -> {"none", "live", "over", "killed"}]
        BY <1>1, <1>6
    <2>2. handedOut' \in 0..MaxSessions
        BY <1>2
    <2>3. QED
        BY <1>1, <1>9, <1>10, <2>1, <2>2 DEF DurableIInv, DurableFields
<1>12. GoesOn(f)
    BY <1>1, <1>2, <1>4, <1>7, <1>10 DEF GoesOn
<1>13. Separate(f, w)
    <2>1. \A g \in Flow : flow[g].at = "record" => flow[g].s \in 1..handedOut
        BY DEF DurableIInv, WorksOnRows
    <2>2. Fresh \notin 1..handedOut
        BY <1>1, <1>2
    <2>3. QED
        BY <1>9, <2>1, <2>2 DEF Separate
<1>14. (WorksOnRows(w) /\ ToldRight(w))'
    <2>1. Fresh \in 1..handedOut'
        BY <1>1, <1>2
    <2>2. QED
        BY <1>1, <1>3, <1>4, <1>9, <2>1 DEF WorksOnRows, ToldRight
<1>15. NothingRunsUnseen'
    <2>1. UnderWay \subseteq UnderWay'
        BY <1>1, <1>9, CreatedStays
    <2>2. Fresh \in UnderWay' \/ Fresh \in doubted'
        <3>1. flow'[f] = w
            BY <1>1, <1>9
        <3>2. CASE w.at = "record" /\ w.s = Fresh
            BY <1>2, <3>1, <3>2 DEF UnderWay, Sid
        <3>3. QED
            BY <1>9, <3>2
    <2>3. QED
        BY <1>1, <1>7, <1>10, <2>1, <2>2 DEF NothingRunsUnseen, RowsTrue, DurableIInv
<1>16. EndedStaysEnded'
    BY <1>1 DEF EndedStaysEnded, RowsTrue, DurableIInv
<1>17. QED
    BY <1>8, <1>9, <1>11, <1>12, <1>13, <1>14, <1>15, <1>16, OneGoesOn DEF RestKept, RowsTrue

LEMMA Recorded ==
    ASSUME DurableIInv, NEW f \in Flow, Record(f)
    PROVE  DurableIInv'
<1> DEFINE s == flow[f].s
<1>1. /\ flow \in [Flow -> FlowState] /\ flow[f] \in FlowState /\ flow[f].at = "record"
      /\ row \in [Sid -> {"none", "live", "exited", "lost"}]
      /\ WorksOnRows(flow[f]) /\ handedOut \in Nat /\ MaxSessions \in Nat
      /\ handedOut <= MaxSessions
      /\ UNCHANGED <<host, handedOut, doubted, ended, stale>>
    BY DurableAssumption DEF DurableIInv, DurableFields, Record, ghosts
<1>2. s \in Sid /\ s \notin Shown /\ s \in 1..handedOut
    BY <1>1 DEF WorksOnRows, Sid
<1> HIDE DEF s
<1>3. row' = [row EXCEPT ![s] = "live"]
    BY DEF Record, WriteRow, s
<1>4. row'[s] = "live" /\ \A t \in Sid \ {s} : row'[t] = row[t]
    BY <1>1, <1>2, <1>3
<1>5. /\ Resting \in FlowState /\ Resting.at = "idle" /\ Resting.todo = {}
      /\ flow' = [flow EXCEPT ![f] = Resting]
    BY <1>1 DEF Resting, FlowState, FlowAt, Record
<1>6. DurableFields'
    BY <1>1, <1>3, <1>5 DEF DurableIInv, DurableFields
<1>7. Shown' = Shown \cup {s}
    BY <1>2, <1>4 DEF Shown
<1>8. GoesOn(f) /\ Separate(f, Resting)
    BY <1>1, <1>5, <1>7 DEF GoesOn, Separate, s
<1>9. (WorksOnRows(Resting) /\ ToldRight(Resting))'
    BY <1>5, <1>7 DEF WorksOnRows, ToldRight
<1>10. EndedIsGone' /\ \A t \in Sid : Unborn(t)'
    BY <1>1, <1>2, <1>7 DEF EndedIsGone, Unborn, DurableIInv
<1>11. NothingRunsUnseen'
    <2>1. UnderWay \subseteq UnderWay' \cup {s}
        <3> SUFFICES ASSUME NEW t \in UnderWay, t # s PROVE t \in UnderWay'
            OBVIOUS
        <3>1. t \in Sid /\ \E g \in Flow : flow[g].at = "record" /\ flow[g].s = t
            BY DEF UnderWay
        <3>2. PICK g \in Flow : flow[g].at = "record" /\ flow[g].s = t
            BY <3>1
        <3>3. flow'[g] = flow[g]
            BY <1>1, <1>5, <3>2 DEF s
        <3>4. t \in Sid' /\ \E h \in Flow : flow'[h].at = "record" /\ flow'[h].s = t
            BY <3>1, <3>2, <3>3 DEF Sid
        <3>5. QED
            BY <3>4 DEF UnderWay
    <2>2. QED
        BY <1>1, <1>4, <2>1 DEF NothingRunsUnseen, RowsTrue, DurableIInv
<1>12. EndedStaysEnded'
    <2>1. \A t \in ended : t # s /\ t \in Sid
        BY <1>2 DEF DurableIInv, EndedIsGone, Shown
    <2>2. QED
        BY <1>1, <1>4, <2>1 DEF EndedStaysEnded, RowsTrue, DurableIInv
<1>13. QED
    BY <1>5, <1>6, <1>8, <1>9, <1>10, <1>11, <1>12, OneGoesOn DEF RestKept, RowsTrue

(* The session is ended on its host, or that is doubted.                   *)
LEMMA Terminates ==
    ASSUME DurableIInv, NEW f \in Flow, Terminate(f)
    PROVE  DurableIInv'
<1> DEFINE s == flow[f].s
<1>1. /\ flow \in [Flow -> FlowState] /\ flow[f] \in FlowState /\ flow[f].at = "end"
      /\ host \in [Sid -> {"none", "live", "over", "killed"}]
      /\ WorksOnRows(flow[f]) /\ handedOut \in Nat
      /\ UNCHANGED <<row, handedOut, ended, stale>>
    BY DurableAssumption DEF DurableIInv, DurableFields, Terminate
<1>2. s \in Sid /\ s \in Shown
    BY <1>1 DEF WorksOnRows, Shown
<1> HIDE DEF s
<1>3. \/ host' = Terminated(s) /\ doubted' = doubted
      \/ host' \in {host, Terminated(s)} /\ doubted' = doubted \cup {s}
    BY DEF Terminate, CallFails, Working, s
<1>4. /\ Terminated(s) \in [Sid -> {"none", "live", "over", "killed"}]
      /\ Terminated(s)[s] # "live" /\ (host[s] = "killed" => Terminated(s)[s] = "killed")
      /\ host[s] = "none" => Terminated(s)[s] = "none"
      /\ \A t \in Sid \ {s} : Terminated(s)[t] = host[t]
    BY <1>1, <1>2 DEF Terminated
<1>5. /\ host' \in [Sid -> {"none", "live", "over", "killed"}]
      /\ host'[s] # "live" \/ s \in doubted'
      /\ \A t \in Sid : /\ host'[t] = "live" => host[t] = "live"
                        /\ host[t] = "killed" => host'[t] = "killed"
                        /\ host[t] = "none" => host'[t] = "none"
    <2>1. host' = host \/ host' = Terminated(s)
        BY <1>3
    <2>2. CASE host' = host
        BY <1>1, <1>3, <1>4, <2>2
    <2>3. CASE host' = Terminated(s)
        BY <1>1, <1>4, <2>3
    <2>4. QED
        BY <2>1, <2>2, <2>3
<1>6. doubted \subseteq doubted' /\ doubted' \subseteq Sid
    BY <1>2, <1>3 DEF DurableIInv, DurableFields
<1>7. PICK w : w = [flow[f] EXCEPT !.at = "ended"]
    OBVIOUS
<1>8. w \in FlowState /\ w.at = "ended" /\ w.s = s /\ w.todo = flow[f].todo
    BY <1>1, <1>7 DEF FlowState, FlowAt, s
<1>9. flow' = [flow EXCEPT ![f] = w]
    BY <1>1, <1>7 DEF Terminate, To
<1>10. DurableFields'
    BY <1>1, <1>5, <1>6, <1>8, <1>9 DEF DurableIInv, DurableFields
<1>11. Shown' = Shown
    BY <1>1 DEF Shown
<1>12. GoesOn(f) /\ Separate(f, w)
    BY <1>1, <1>5, <1>6, <1>8, <1>11 DEF GoesOn, Separate
<1>13. (WorksOnRows(w) /\ ToldRight(w))'
    BY <1>1, <1>2, <1>5, <1>8, <1>11 DEF WorksOnRows, ToldRight
<1>14. EndedIsGone' /\ \A t \in Sid : Unborn(t)'
    BY <1>1, <1>5, <1>11 DEF EndedIsGone, Unborn, DurableIInv, DurableFields
<1>15. RowsTrue'
    <2>1. UnderWay \subseteq UnderWay'
        BY <1>1, <1>9, CreatedStays
    <2>2. QED
        BY <1>1, <1>5, <1>6, <2>1
            DEF RowsTrue, NothingRunsUnseen, EndedStaysEnded, DurableIInv
<1>16. QED
    BY <1>8, <1>9, <1>10, <1>12, <1>13, <1>14, <1>15, OneGoesOn DEF RestKept

(* Its row is closed; who was told of it before does not know.             *)
LEMMA RowCloses ==
    ASSUME DurableIInv, NEW f \in Flow, Ended(f)
    PROVE  DurableIInv'
<1> DEFINE s == flow[f].s
<1>1. /\ flow \in [Flow -> FlowState] /\ flow[f] \in FlowState /\ flow[f].at = "ended"
      /\ row \in [Sid -> {"none", "live", "exited", "lost"}]
      /\ WorksOnRows(flow[f]) /\ ToldRight(flow[f]) /\ handedOut \in Nat
      /\ MaxSessions \in Nat
      /\ UNCHANGED <<host, handedOut, doubted>>
    BY DurableAssumption DEF DurableIInv, DurableFields, Ended
<1>2. s \in Sid /\ s \in Shown
    BY <1>1 DEF WorksOnRows, Shown
<1>3. /\ row' = [row EXCEPT ![s] = "exited"]
      /\ ended' = IF host[s] = "killed" THEN ended \cup {s} ELSE ended
      /\ stale' = IF Told(s) = {} THEN stale ELSE stale \cup {s}
    BY DEF Ended, WriteRow
<1>4. \A g \in Flow : flow[g].at = "write" /\ flow[g].s = s => s \in stale'
    BY <1>3 DEF Told
<1>5. host[s] # "live" \/ s \in doubted
    BY <1>1 DEF ToldRight
<1>6. PICK w \in FlowState : /\ flow' = [flow EXCEPT ![f] = w]
                             /\ w.at \in {"create", "next"} /\ w.todo \subseteq flow[f].todo
    <2>1. Resting \in FlowState
        BY <1>1 DEF Resting, FlowState, FlowAt
    <2>2. CASE f \in Restarter
        <3>1. PICK w : w = [Resting EXCEPT !.at = "create"]
            OBVIOUS
        <3>2. w \in FlowState /\ w.at = "create" /\ w.todo = {}
            BY <2>1, <3>1 DEF FlowState, FlowAt, Resting
        <3>3. flow' = [flow EXCEPT ![f] = w]
            BY <2>2, <3>1 DEF Ended
        <3>4. QED
            BY <3>2, <3>3
    <2>3. CASE f \notin Restarter
        <3>1. PICK w : w = [Resting EXCEPT !.at = "next", !.todo = flow[f].todo]
            OBVIOUS
        <3>2. w \in FlowState /\ w.at = "next" /\ w.todo = flow[f].todo
            BY <1>1, <2>1, <3>1 DEF FlowState, FlowAt, Resting
        <3>3. flow' = [flow EXCEPT ![f] = w]
            BY <2>3, <3>1 DEF Ended
        <3>4. QED
            BY <3>2, <3>3
    <2>4. QED
        BY <2>2, <2>3
<1> HIDE DEF s
<1>7. row'[s] = "exited" /\ \A t \in Sid \ {s} : row'[t] = row[t]
    BY <1>1, <1>2, <1>3
<1>8. Shown' = Shown
    BY <1>2, <1>7 DEF Shown
<1>9. /\ ended \subseteq ended' /\ ended' \subseteq ended \cup {s} /\ ended' \subseteq Sid
      /\ stale \subseteq stale' /\ stale' \subseteq Sid
      /\ s \in ended' => s \in ended \/ host[s] = "killed"
    BY <1>2, <1>3 DEF DurableIInv, DurableFields
<1>10. DurableFields'
    BY <1>1, <1>3, <1>6, <1>9 DEF DurableIInv, DurableFields
<1>11. GoesOn(f) /\ Separate(f, w)
    BY <1>1, <1>4, <1>6, <1>8, <1>9 DEF GoesOn, Separate
<1>12. (WorksOnRows(w) /\ ToldRight(w))'
    BY <1>1, <1>6, <1>8 DEF WorksOnRows, ToldRight
<1>13. EndedIsGone' /\ \A t \in Sid : Unborn(t)'
    BY <1>1, <1>2, <1>8, <1>9 DEF EndedIsGone, Unborn, DurableIInv
<1>14. NothingRunsUnseen'
    <2>1. UnderWay \subseteq UnderWay'
        BY <1>1, <1>6, CreatedStays
    <2>2. QED
        BY <1>1, <1>5, <1>7, <2>1 DEF RowsTrue, NothingRunsUnseen, DurableIInv
<1>15. EndedStaysEnded'
    BY <1>7, <1>9 DEF RowsTrue, EndedStaysEnded, DurableIInv
<1>16. QED
    BY <1>6, <1>10, <1>11, <1>12, <1>13, <1>14, <1>15, OneGoesOn DEF RestKept, RowsTrue

LEMMA Exits ==
    ASSUME DurableIInv, NEW s \in Sid, Exit(s)
    PROVE  DurableIInv'
<1>1. /\ host \in [Sid -> {"none", "live", "over", "killed"}] /\ host[s] = "live"
      /\ host' = [host EXCEPT ![s] = "over"]
      /\ UNCHANGED <<row, handedOut, flow, doubted, ended, stale>>
    BY DEF DurableIInv, DurableFields, Exit, ghosts
<1>2. \A t \in Sid : /\ host'[t] = "live" => host[t] = "live"
                     /\ host[t] \in {"none", "killed"} => host'[t] = host[t]
    BY <1>1
<1>3. DurableFields'
    BY <1>1 DEF DurableIInv, DurableFields
<1>4. Shown' = Shown /\ UnderWay' = UnderWay
    BY <1>1 DEF Shown, UnderWay
<1>5. ASSUME NEW f \in Flow PROVE (WorksOnRows(flow[f]) /\ ToldRight(flow[f]))'
    <2>1. WorksOnRows(flow[f]) /\ ToldRight(flow[f])
        BY DEF DurableIInv
    <2>2. flow[f].at \in {"write", "ended"} => flow[f].s \in Sid
        BY <2>1 DEF WorksOnRows, Shown
    <2>3. QED
        BY <1>1, <1>2, <1>4, <2>1, <2>2 DEF WorksOnRows, ToldRight
<1>6. EndedIsGone' /\ \A t \in Sid : Unborn(t)'
    BY <1>1, <1>2, <1>4 DEF EndedIsGone, Unborn, DurableIInv, DurableFields
<1>7. RowsTrue'
    BY <1>1, <1>2, <1>4 DEF RowsTrue, NothingRunsUnseen, EndedStaysEnded, DurableIInv
<1>8. CreatesApart'
    BY <1>1 DEF CreatesApart, DurableIInv
<1>9. QED
    BY <1>3, <1>5, <1>6, <1>7, <1>8 DEF DurableIInv

LEMMA DurableStart == DurableInit => DurableIInv
<1> SUFFICES ASSUME DurableInit PROVE DurableIInv
    OBVIOUS
<1>1. MaxSessions \in Nat /\ Resting \in FlowState /\ Resting.at = "idle" /\ Resting.todo = {}
    BY DurableAssumption DEF Resting, FlowState, FlowAt
<1>2. Shown = {} /\ handedOut \in 0..MaxSessions
    BY <1>1 DEF DurableInit, Shown
<1>3. DurableFields
    BY <1>1, <1>2 DEF DurableInit, DurableFields
<1>4. \A f \in Flow : flow[f] = Resting
    BY DEF DurableInit
<1>5. \A f \in Flow : WorksOnRows(flow[f]) /\ ToldRight(flow[f])
    BY <1>1, <1>4 DEF WorksOnRows, ToldRight
<1>6. CreatesApart
    BY <1>1, <1>4 DEF CreatesApart
<1>7. EndedIsGone /\ RowsTrue /\ \A s \in Sid : Unborn(s)
    BY <1>2 DEF DurableInit, EndedIsGone, Unborn, RowsTrue, NothingRunsUnseen, EndedStaysEnded
<1>8. QED
    BY <1>3, <1>5, <1>6, <1>7 DEF DurableIInv

LEMMA DurableStep ==
    DurableIInv /\ [DurableNext]_durableVars => DurableIInv'
<1> SUFFICES ASSUME DurableIInv, [DurableNext]_durableVars PROVE DurableIInv'
    OBVIOUS
<1>1. CASE UNCHANGED durableVars
    BY <1>1 DEF DurableIInv, DurableFields, Shown, EndedIsGone, CreatesApart, RowsTrue,
                NothingRunsUnseen, EndedStaysEnded, UnderWay, Unborn, WorksOnRows,
                ToldRight, durableVars
<1>2. ASSUME NEW f \in Flow, Step(f) PROVE DurableIInv'
    BY <1>2, Asked, Answered, Created, Recorded, GoesThrough, Terminates, RowCloses DEF Step
<1>3. ASSUME NEW s \in Sid PROVE
          /\ \A v \in Viewer : View(v, s) => DurableIInv'
          /\ \A r \in Reattacher : Reattach(r, s) => DurableIInv'
          /\ \A r \in Restarter : Restart(r, s) => DurableIInv'
          /\ Exit(s) => DurableIInv'
    BY Beginnings, Exits DEF Flow
<1>4. ASSUME NEW c \in Connector, ConnectSsh(c) PROVE DurableIInv'
    BY <1>4, Beginnings DEF Flow
<1>5. ASSUME NEW d \in Disconnector, Disconnect(d) PROVE DurableIInv'
    BY <1>5, Beginnings DEF Flow
<1>6. QED
    BY <1>1, <1>2, <1>3, <1>4, <1>5 DEF DurableNext

(* Whatever connects, lists, reattaches, disconnects and restarts at once, *)
(* and however often the host cannot be asked: a session that lives on the *)
(* host is being created or has a row that says so, unless a call about it *)
(* failed, and one that was ended is not shown as live again, unless a     *)
(* command had been asking about it meanwhile.                             *)
(* (mark_remote_session_row_lost, disconnect_ssh, restart_session)         *)
THEOREM RowsHold == DurableSpec => []RowsTrue
<1>1. DurableIInv => RowsTrue
    BY DEF DurableIInv
<1>2. QED
    BY DurableStart, DurableStep, <1>1, PTL DEF DurableSpec
=============================================================================
