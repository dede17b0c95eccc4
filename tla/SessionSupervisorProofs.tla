---------------------- MODULE SessionSupervisorProofs ----------------------
(***************************************************************************)
(* Theorems about SessionSupervisor for every set of sessions and callers, *)
(* whatever the callers do, the failures, and the capacity of the channel. *)
(***************************************************************************)
EXTENDS SessionSupervisor, TLAPS

(* Only a spawn is on the way of a spawn, it is the only one of its        *)
(* session, and the session is known until the spawn is through: a second  *)
(* Reserve would need a session with neither metadata nor a runner.        *)
Spawns(c) == call[c].op = "spawn"
Underway == {"creating", "wiring", "wired", "opening", "announcing", "storing"}

SpawnsApart ==
    \A c \in Caller :
        /\ call[c].phase \in {"creating", "announcing", "storing"} => Spawns(c)
        /\ Spawns(c) =>
             /\ call[c].phase \in Underway \cup {"done"}
             /\ call[c].phase \in Underway => meta[Target(c)] # Absent
             /\ call[c].phase = "creating" \/ runner[Target(c)] # "none"
             /\ \A d \in Caller : Spawns(d) /\ Target(d) = Target(c) => c = d

(* A client was made by a call.                                            *)
ClientsCalled == \A c \in Caller : client[c] # "none" => call[c].phase # "idle"

(* What sending an event does to the bridge's receiver.                    *)
LEMMA PublishType ==
    ASSUME NEW kind \in {"Spawned", "Changed"}, NEW s \in Session,
           events \in Seq(Event), bridge \in {"running", "ended"}, Publish(kind, s)
    PROVE  events' \in Seq(Event) /\ bridge' \in {"running", "ended"}
<1> DEFINE e == [kind |-> kind, session |-> s]
<1>1. e \in Event
    BY DEF Event
<1>2. <<>> \in Seq(Event) /\ Append(events, e) \in Seq(Event)
    BY <1>1
<1>3. \/ events' = <<>> /\ bridge' = "ended"
      \/ events' = Append(events, e) /\ bridge' = bridge
    BY DEF Publish
<1>4. QED
    BY <1>2, <1>3

(* A call that stands somewhere has a session, and may go on.              *)
LEMMA CallType ==
    ASSUME TypeOK, NEW c \in Caller, call[c].phase # "idle"
    PROVE  /\ call[c] \in Invocation
           /\ Target(c) \in Session
           /\ \A p \in Phase : Goto(c, p) => call' \in [Caller -> Invocation \cup {Idle}]
<1>1. call[c] \in Invocation
    BY DEF TypeOK, Idle
<1>2. ASSUME NEW p \in Phase, Goto(c, p)
      PROVE  call' \in [Caller -> Invocation \cup {Idle}]
    <2>1. [call[c] EXCEPT !.phase = p] \in Invocation
        BY <1>1 DEF Invocation
    <2>2. call' = [call EXCEPT ![c] = [call[c] EXCEPT !.phase = p]]
        BY <1>2 DEF Goto
    <2>3. QED
        BY <2>1, <2>2 DEF TypeOK
<1>3. QED
    BY <1>1, <1>2 DEF Invocation, Target

(* A new call is one of the right type.                                    *)
LEMMA BeginType ==
    ASSUME TypeOK, NEW c \in Caller, NEW o \in Op, NEW s \in Session, NEW p \in Phase,
           Begin(c, o, s, p)
    PROVE  call' \in [Caller -> Invocation \cup {Idle}]
<1>1. [phase |-> p, op |-> o, session |-> s, read |-> "none"] \in Invocation
    BY DEF Invocation
<1>2. QED
    BY <1>1 DEF TypeOK, Begin

(* So is what is written to a session's metadata.                          *)
LEMMA SetMetaType ==
    ASSUME TypeOK, NEW s \in Session, NEW st \in Status, NEW h \in Health,
           SetMeta(s, st, h)
    PROVE  meta' \in [Session -> Meta \cup {Absent}]
<1>1. [status |-> st, health |-> h] \in Meta
    BY DEF Meta
<1>2. QED
    BY <1>1 DEF TypeOK, SetMeta

-----------------------------------------------------------------------------
LEMMA CommandType ==
    ASSUME TypeOK, NEW c \in Caller, NEW s \in Session, Command(c, s)
    PROVE  TypeOK'
<1> USE DEF TypeOK, memory, procs, feed, store
<1>0. /\ {"creating", "attaching", "sending", "terminated"} \subseteq Phase
      /\ "Waiting" \in Status /\ "Waiting" \in Health
      /\ {"spawn", "attach", "input", "kill"} \subseteq Op
    BY DEF Phase, Status, Health, Op
<1>1. CASE Reserve(c, s)
    <2>1. [age |-> "fresh", health |-> "Waiting"] \in Pulse
        BY DEF Pulse, Age, Health
    <2>2. QED
        BY <1>0, <1>1, <2>1, BeginType, SetMetaType DEF Reserve
<1>2. CASE BeginAttach(c, s)
    BY <1>0, <1>2, BeginType DEF BeginAttach
<1>3. CASE TakeWriter(c, s)
    BY <1>0, <1>3, BeginType DEF TakeWriter
<1>4. CASE Terminate(c, s)
    BY <1>0, <1>4, BeginType DEF Terminate
<1>5. QED
    BY <1>1, <1>2, <1>3, <1>4 DEF Command

LEMMA CallStepType ==
    ASSUME TypeOK, SpawnsApart, NEW c \in Caller, CallStep(c)
    PROVE  TypeOK'
<1> USE DEF TypeOK, memory, procs, feed, store
<1>0. /\ Phase = {"creating", "attaching", "wiring", "wired", "opening", "announcing",
                  "storing", "sending", "touched", "terminated", "done"}
      /\ Status = {"Running", "Waiting", "Complete"}
      /\ Health = {"Active", "Idle", "Stuck", "Waiting", "Complete"}
      /\ ClientState = {"none", "attached", "exited", "alive", "gone", "recorded"}
      /\ [age |-> "fresh", health |-> "Active"] \in Pulse
    BY DEF Phase, Status, Health, ClientState, Pulse, Age
<1>1. ASSUME call[c].phase # "idle", Rollback(Target(c))
      PROVE  /\ meta' \in [Session -> Meta \cup {Absent}]
             /\ pulse' \in [Session -> Pulse \cup {NoPulse}]
             /\ inputs' \in [Session -> Caller \cup {None}]
    BY <1>1, CallType DEF Rollback
<1>2. CASE CreateRunner(c)
    BY <1>0, <1>2, CallType DEF CreateRunner, At
<1>3. CASE FailCreate(c)
    BY <1>0, <1>1, <1>3, CallType DEF FailCreate, At
<1>4. CASE Announce(c)
    <2>1. Target(c) \in Session /\ call[c] \in Invocation
        BY <1>4, CallType DEF Announce, At
    <2>2. meta[Target(c)].status \in Status
        BY <1>4, <2>1 DEF Announce, At, SpawnsApart, Spawns, Underway, Meta
    <2>3. QED
        BY <1>0, <1>4, <2>1, <2>2, PublishType DEF Announce, Invocation
<1>5. CASE StoreRow(c)
    BY <1>0, <1>5, CallType DEF StoreRow, At, Invocation
<1>6. CASE AttachClient(c)
    BY <1>0, <1>6, CallType DEF AttachClient, At
<1>7. CASE WireInput(c)
    BY <1>0, <1>7, CallType DEF WireInput, At
<1>8. CASE WireMeta(c)
    BY <1>0, <1>8, CallType, SetMetaType, PublishType DEF WireMeta, At
<1>9. CASE FailWire(c)
    BY <1>0, <1>9, CallType DEF FailWire, At
<1>10. CASE OpenScrollback(c)
    BY <1>0, <1>10, CallType DEF OpenScrollback, At
<1>11. CASE FailScrollback(c)
    BY <1>0, <1>1, <1>11, CallType DEF FailScrollback, At
<1>12. CASE TouchPulse(c)
    BY <1>0, <1>12, CallType DEF TouchPulse, At
<1>13. CASE MarkActivity(c)
    BY <1>0, <1>13, CallType, SetMetaType, PublishType DEF MarkActivity, At
<1>14. CASE MarkExit(c)
    BY <1>0, <1>14, CallType, SetMetaType, PublishType DEF MarkExit, At
<1>15. QED
    BY <1>2, <1>3, <1>4, <1>5, <1>6, <1>7, <1>8, <1>9, <1>10, <1>11, <1>12, <1>13,
       <1>14 DEF CallStep

LEMMA ExitStepType ==
    ASSUME TypeOK, ClientsCalled, NEW c \in Caller, ExitStep(c)
    PROVE  TypeOK'
<1> USE DEF TypeOK, memory, procs, feed, store
<1>0. ClientState = {"none", "attached", "exited", "alive", "gone", "recorded"}
    BY DEF ClientState
<1>1. CASE CloseClient(c)
    BY <1>0, <1>1 DEF CloseClient
<1>2. CASE ExitAsk(c)
    BY <1>0, <1>2 DEF ExitAsk
<1>3. CASE ExitRecord(c)
    <2> DEFINE st == IF client[c] = "alive" THEN "Waiting" ELSE "Complete"
    <2>1. /\ [status |-> st, health |-> st] \in Meta
          /\ [age |-> "fresh", health |-> st] \in Pulse
        BY DEF Meta, Pulse, Status, Health, Age
    <2>2. QED
        BY <1>0, <1>3, <2>1 DEF ExitRecord
<1>4. CASE ExitClear(c)
    <2>1. Target(c) \in Session
        BY <1>4, CallType DEF ExitClear, ClientsCalled
    <2>2. QED
        BY <1>0, <1>4, <2>1, PublishType DEF ExitClear
<1>5. QED
    BY <1>1, <1>2, <1>3, <1>4 DEF ExitStep

(* What a refresh may decide is a health, and with atomics the one of the  *)
(* heartbeat's age.                                                        *)
LEMMA NextHealthType ==
    ASSUME TypeOK, NEW s \in Session, NEW next \in NextHealth(s)
    PROVE  /\ next \in {"Active", "Idle", "Stuck"}
           /\ pulse[s] # NoPulse => next = HealthOf(pulse[s].age)
<1>1. CASE pulse[s] # NoPulse
    <2>1. pulse[s].age \in {"fresh", "idle", "stuck"}
        BY <1>1 DEF TypeOK, Pulse, Age
    <2>2. next = HealthOf(pulse[s].age)
        BY <1>1 DEF NextHealth
    <2>3. QED
        BY <2>1, <2>2 DEF HealthOf
<1>2. CASE pulse[s] = NoPulse
    BY <1>2 DEF NextHealth
<1>3. QED
    BY <1>1, <1>2

LEMMA RefreshStepType ==
    ASSUME TypeOK, RefreshStep
    PROVE  TypeOK'
<1> USE DEF TypeOK, memory, procs, feed, store
<1>1. CASE RefreshScan
    BY <1>1 DEF RefreshScan
<1>2. ASSUME NEW s \in Session, RefreshApply(s)
      PROVE  TypeOK'
    <2>1. PICK next \in NextHealth(s) :
              IF meta[s].status # "Running" \/ Current(s) = next
              THEN UNCHANGED <<meta, pulse, feed>>
              ELSE /\ meta' = [meta EXCEPT ![s].health = next]
                   /\ pulse' = IF pulse[s] = NoPulse THEN pulse
                               ELSE [pulse EXCEPT ![s].health = next]
                   /\ Publish("Changed", s)
        BY <1>2 DEF RefreshApply
    <2>2. next \in Health
        BY NextHealthType DEF Health
    <2>3. CASE UNCHANGED <<meta, pulse, feed>>
        BY <1>2, <2>3 DEF RefreshApply
    <2>4. CASE /\ meta[s].status = "Running"
               /\ meta' = [meta EXCEPT ![s].health = next]
               /\ pulse' = IF pulse[s] = NoPulse THEN pulse
                           ELSE [pulse EXCEPT ![s].health = next]
               /\ Publish("Changed", s)
        <3>1. meta[s] \in Meta
            BY <2>4 DEF Absent
        <3>2. [meta[s] EXCEPT !.health = next] \in Meta
            BY <2>2, <3>1 DEF Meta
        <3>3. meta' \in [Session -> Meta \cup {Absent}]
            BY <2>4, <3>2
        <3>4. pulse[s] # NoPulse => [pulse[s] EXCEPT !.health = next] \in Pulse
            BY <2>2 DEF Pulse
        <3>5. pulse' \in [Session -> Pulse \cup {NoPulse}]
            BY <2>4, <3>4
        <3>6. QED
            BY <1>2, <2>4, <3>3, <3>5, PublishType DEF RefreshApply
    <2>5. QED
        BY <2>1, <2>3, <2>4
<1>3. QED
    BY <1>1, <1>2 DEF RefreshStep

LEMMA BridgeStepType ==
    ASSUME TypeOK, BridgeStep
    PROVE  TypeOK'
<1> USE DEF TypeOK, memory, procs, feed, store
<1>1. CASE Receive
    <2>1. /\ Head(events) \in Event
          /\ Tail(events) \in Seq(Event)
        BY <1>1 DEF Receive
    <2>2. Head(events).session \in Session
        BY <2>1 DEF Event
    <2>3. pending' \in [session : Session, status : Status] \cup {Nothing}
        BY <1>1, <2>2 DEF Receive, Status, Meta
    <2>4. QED
        BY <1>1, <2>1, <2>3 DEF Receive
<1>2. CASE Upsert
    BY <1>2 DEF Upsert
<1>3. QED
    BY <1>1, <1>2 DEF BridgeStep

(* A client dies or prints.                                                *)
LEMMA ClientType ==
    ASSUME TypeOK, ClientsCalled, NEW c \in Caller, Detach(c) \/ Output(c)
    PROVE  TypeOK'
<1> USE DEF TypeOK, memory, procs, feed, store
<1>1. CASE Detach(c)
    BY <1>1 DEF Detach, ClientState
<1>2. CASE Output(c)
    <2>1. /\ Target(c) \in Session
          /\ [age |-> "fresh", health |-> "Active"] \in Pulse
        BY <1>2, CallType DEF Output, ClientsCalled, Pulse, Age, Health
    <2>2. chunks' \in 0 .. MaxChunks
        BY <1>2, SessionAssumption DEF Output
    <2>3. QED
        BY <1>2, <2>1, <2>2, PublishType DEF Output
<1>3. QED
    BY <1>1, <1>2

(* A runner ends, and time passes.                                         *)
LEMMA OutsideType ==
    ASSUME TypeOK, NEW s \in Session, EndRunner(s) \/ GrowOld(s)
    PROVE  TypeOK'
<1> USE DEF TypeOK, memory, procs, feed, store
<1>1. CASE EndRunner(s)
    BY <1>1 DEF EndRunner
<1>2. CASE GrowOld(s)
    <2>1. pulse[s] \in Pulse
        BY <1>2 DEF GrowOld, NoPulse
    <2>2. [pulse[s] EXCEPT !.age = IF @ = "fresh" THEN "idle" ELSE "stuck"] \in Pulse
        BY <2>1 DEF Pulse, Age
    <2>3. QED
        BY <1>2, <2>2 DEF GrowOld
<1>3. QED
    BY <1>1, <1>2

-----------------------------------------------------------------------------
(* The parts of the invariant the types rest on are kept.                  *)
Inv == TypeOK /\ ClientsCalled /\ SpawnsApart

(* A step of a call moves that call alone, and keeps what it is about.     *)
LEMMA GotoKeeps ==
    ASSUME TypeOK, NEW c \in Caller, call[c].phase # "idle", NEW p, Goto(c, p)
    PROVE  /\ call'[c].phase = p
           /\ call'[c].op = call[c].op /\ call'[c].session = call[c].session
           /\ \A d \in Caller : d # c => call'[d] = call[d]
<1>1. call[c] \in Invocation
    BY CallType
<1>2. call' = [call EXCEPT ![c] = [call[c] EXCEPT !.phase = p]]
    BY DEF Goto
<1>3. call'[c] = [call[c] EXCEPT !.phase = p]
    BY <1>2 DEF TypeOK
<1>4. QED
    BY <1>1, <1>2, <1>3 DEF TypeOK, Invocation

LEMMA CallStepKeeps ==
    ASSUME TypeOK, NEW c \in Caller, CallStep(c)
    PROVE  /\ call[c].phase \notin {"idle", "done"} /\ call'[c].phase # "idle"
           /\ call'[c].op = call[c].op /\ call'[c].session = call[c].session
           /\ \A d \in Caller : d # c => call'[d] = call[d]
<1>1. CASE Announce(c)
    <2>1. call[c] \in Invocation
        BY <1>1, CallType DEF Announce, At
    <2>2. /\ call'[c].phase = "storing"
          /\ call'[c].op = call[c].op /\ call'[c].session = call[c].session
        BY <1>1, <2>1 DEF Announce, TypeOK, Invocation
    <2>3. \A d \in Caller : d # c => call'[d] = call[d]
        BY <1>1 DEF Announce, TypeOK
    <2>4. QED
        BY <1>1, <2>2, <2>3 DEF Announce, At
<1>2. CASE CreateRunner(c) \/ FailCreate(c) \/ StoreRow(c)
    BY <1>2, GotoKeeps DEF CreateRunner, FailCreate, StoreRow, At
<1>3. CASE AttachClient(c) \/ WireInput(c) \/ WireMeta(c) \/ FailWire(c)
    BY <1>3, GotoKeeps DEF AttachClient, WireInput, WireMeta, FailWire, At
<1>4. CASE OpenScrollback(c)
    BY <1>4, GotoKeeps DEF OpenScrollback, At
<1>5. CASE FailScrollback(c)
    BY <1>5, GotoKeeps DEF FailScrollback, At
<1>6. CASE TouchPulse(c) \/ MarkActivity(c) \/ MarkExit(c)
    BY <1>6, GotoKeeps DEF TouchPulse, MarkActivity, MarkExit, At
<1>7. QED
    BY <1>1, <1>2, <1>3, <1>4, <1>5, <1>6 DEF CallStep

(* A command begins a call that was idle.                                  *)
LEMMA CommandBegins ==
    ASSUME TypeOK, NEW c \in Caller, NEW s \in Session, Command(c, s)
    PROVE  /\ call[c] = Idle /\ call[c].phase = "idle"
           /\ call'[c].phase \in {"creating", "attaching", "sending", "terminated"}
           /\ call'[c].session = s
           /\ call'[c].op = "spawn" => Reserve(c, s)
           /\ call'[c].phase = "creating" => Reserve(c, s) /\ call'[c].op = "spawn"
           /\ \A d \in Caller : d # c => call'[d] = call[d]
<1>1. ASSUME NEW o, NEW p, Begin(c, o, s, p)
      PROVE  /\ call'[c].phase = p /\ call'[c].op = o /\ call'[c].session = s
             /\ \A d \in Caller : d # c => call'[d] = call[d]
    BY <1>1 DEF Begin, TypeOK
<1>2. call[c] = Idle /\ call[c].phase = "idle"
    BY DEF Command, Reserve, BeginAttach, TakeWriter, Terminate, Calls, Idle
<1>3. CASE Reserve(c, s)
    <2>1. Begin(c, "spawn", s, "creating")
        BY <1>3 DEF Reserve
    <2>2. QED
        BY <1>1, <1>2, <1>3, <2>1
<1>4. CASE BeginAttach(c, s)
    <2>1. Begin(c, "attach", s, "attaching")
        BY <1>4 DEF BeginAttach
    <2>2. QED
        BY <1>1, <1>2, <2>1
<1>5. CASE TakeWriter(c, s)
    <2>1. Begin(c, "input", s, "sending")
        BY <1>5 DEF TakeWriter
    <2>2. QED
        BY <1>1, <1>2, <2>1
<1>6. CASE Terminate(c, s)
    <2>1. Begin(c, "kill", s, "terminated")
        BY <1>6 DEF Terminate
    <2>2. QED
        BY <1>1, <1>2, <2>1
<1>7. QED
    BY <1>3, <1>4, <1>5, <1>6 DEF Command

LEMMA ClientsCalledStep ==
    ASSUME TypeOK, ClientsCalled, [Next]_vars
    PROVE  ClientsCalled'
<1> USE DEF TypeOK, ClientsCalled, memory, procs, feed, store
<1>1. CASE UNCHANGED vars
    BY <1>1 DEF vars
<1>2. ASSUME NEW c \in Caller, NEW s \in Session, Command(c, s)
      PROVE  ClientsCalled'
    <2>1. client' = client
        BY <1>2 DEF Command, Reserve, BeginAttach, TakeWriter, Terminate
    <2>2. QED
        BY <1>2, <2>1, CommandBegins
<1>3. ASSUME NEW c \in Caller, CallStep(c)
      PROVE  ClientsCalled'
    <2>1. \A d \in Caller : d # c /\ client[d] = "none" => client'[d] = "none"
        BY <1>3 DEF CallStep, CreateRunner, FailCreate, Announce, StoreRow, AttachClient,
               WireInput, WireMeta, FailWire, OpenScrollback, FailScrollback, TouchPulse,
               MarkActivity, MarkExit
    <2>2. QED
        BY <1>3, <2>1, CallStepKeeps
<1>4. ASSUME NEW c \in Caller, ExitStep(c) \/ Detach(c) \/ Output(c)
      PROVE  ClientsCalled'
    BY <1>4 DEF ExitStep, CloseClient, ExitAsk, ExitRecord, ExitClear, Detach, Output
<1>5. ASSUME NEW s \in Session, EndRunner(s) \/ GrowOld(s)
      PROVE  ClientsCalled'
    BY <1>5 DEF EndRunner, GrowOld
<1>6. CASE RefreshStep \/ BridgeStep
    BY <1>6 DEF RefreshStep, RefreshScan, RefreshApply, BridgeStep, Receive, Upsert
<1>7. QED
    BY <1>1, <1>2, <1>3, <1>4, <1>5, <1>6 DEF Next
(* Who makes a session unknown: a spawn of it that rolls back.             *)
RollsBack(c) == (FailCreate(c) \/ FailScrollback(c)) /\ call'[c].phase = "done"

LEMMA SessionsStay ==
    ASSUME TypeOK, SpawnsApart, [Next]_vars, NEW s \in Session
    PROVE  /\ runner[s] # "none" => runner'[s] # "none"
           /\ meta[s] # Absent /\ meta'[s] = Absent =>
                 \E c \in Caller : Spawns(c) /\ Target(c) = s /\ RollsBack(c)
<1> USE DEF TypeOK, memory, procs, feed, store
<1>0. \A st \in Status, h \in Health : [status |-> st, health |-> h] # Absent
    BY DEF Absent, Status
<1>1. CASE UNCHANGED vars
    BY <1>1 DEF vars
<1>2. ASSUME NEW c \in Caller, NEW x \in Session, Command(c, x)
      PROVE  /\ runner[s] # "none" => runner'[s] # "none"
             /\ meta[s] # Absent => meta'[s] # Absent
    BY <1>0, <1>2 DEF Command, Reserve, BeginAttach, TakeWriter, Terminate, SetMeta
<1>3. ASSUME NEW c \in Caller, CallStep(c)
      PROVE  /\ runner[s] # "none" => runner'[s] # "none"
             /\ meta[s] # Absent /\ meta'[s] = Absent =>
                   \E d \in Caller : Spawns(d) /\ Target(d) = s /\ RollsBack(d)
    <2>1. CASE FailCreate(c)
        <3>1. Spawns(c) /\ RollsBack(c)
            BY <2>1, GotoKeeps DEF FailCreate, At, SpawnsApart, RollsBack
        <3>2. s # Target(c) => meta'[s] = meta[s] /\ runner'[s] = runner[s]
            BY <2>1 DEF FailCreate, Rollback
        <3>3. s = Target(c) => runner'[s] = "gone"
            BY <2>1 DEF FailCreate
        <3>4. QED
            BY <3>1, <3>2, <3>3
    <2>2. CASE FailScrollback(c)
        <3>1. Spawns(c) => RollsBack(c)
            BY <2>2, GotoKeeps DEF FailScrollback, At, RollsBack
        <3>2. s # Target(c) \/ ~Spawns(c) => meta'[s] = meta[s]
            BY <2>2 DEF FailScrollback, Rollback, Spawns
        <3>3. QED
            BY <2>2, <3>1, <3>2 DEF FailScrollback
    <2>3. CASE CreateRunner(c)
        BY <2>3 DEF CreateRunner
    <2>4. CASE WireMeta(c) \/ MarkActivity(c) \/ MarkExit(c)
        BY <1>0, <2>4 DEF WireMeta, MarkActivity, MarkExit, SetMeta, Status, Health
    <2>5. CASE \/ Announce(c) \/ StoreRow(c) \/ AttachClient(c) \/ WireInput(c)
               \/ FailWire(c) \/ OpenScrollback(c) \/ TouchPulse(c)
        BY <2>5 DEF Announce, StoreRow, AttachClient, WireInput, FailWire,
               OpenScrollback, TouchPulse
    <2>6. QED
        BY <1>3, <2>1, <2>2, <2>3, <2>4, <2>5 DEF CallStep
<1>4. ASSUME NEW c \in Caller, ExitStep(c) \/ Detach(c) \/ Output(c)
      PROVE  /\ runner'[s] = runner[s]
             /\ meta[s] # Absent => meta'[s] # Absent
    BY <1>0, <1>4 DEF ExitStep, CloseClient, ExitAsk, ExitRecord, ExitClear, Detach,
           Output, Status, Health
<1>5. ASSUME NEW x \in Session, EndRunner(x) \/ GrowOld(x)
      PROVE  /\ runner[s] # "none" => runner'[s] # "none"
             /\ meta' = meta
    BY <1>5 DEF EndRunner, GrowOld
<1>6. ASSUME RefreshStep
      PROVE  runner' = runner /\ meta'[s].status = meta[s].status
    BY <1>6 DEF RefreshStep, RefreshScan, RefreshApply, Meta, Absent
<1>7. CASE BridgeStep
    BY <1>7 DEF BridgeStep, Receive, Upsert
<1>8. meta[s] # Absent => meta[s].status # "absent"
    BY DEF Meta, Status
<1>9. QED
    BY <1>1, <1>2, <1>3, <1>4, <1>5, <1>6, <1>7, <1>8 DEF Next, Absent
LEMMA SpawnsApartStep ==
    ASSUME TypeOK, SpawnsApart, [Next]_vars
    PROVE  SpawnsApart'
<1> USE DEF SpawnsApart, Spawns, Target
(* A call that does not move keeps its part: a rollback is of another      *)
(* session.                                                                *)
<1>1. ASSUME NEW d \in Caller, call'[d] = call[d], Spawns(d)
      PROVE  /\ call[d].phase \in Underway => meta'[Target(d)] # Absent
             /\ call[d].phase = "creating" \/ runner'[Target(d)] # "none"
    <2>1. Target(d) \in Session
        <3>1. call[d].phase # "idle"
            BY <1>1 DEF Underway
        <3>2. QED
            BY <3>1, CallType
    <2>2. \A c \in Caller : Spawns(c) /\ Target(c) = Target(d) => c = d
        BY <1>1
    <2>3. call[d].phase \in Underway => ~RollsBack(d)
        BY <1>1 DEF RollsBack, Underway
    <2>4. QED
        BY <1>1, <2>1, <2>2, <2>3, SessionsStay
<1>2. ASSUME call' = call
      PROVE  SpawnsApart'
    BY <1>1, <1>2
<1>3. ASSUME NEW c \in Caller, NEW s \in Session, Command(c, s)
      PROVE  SpawnsApart'
    <2>1. ASSUME call'[c].op = "spawn"
          PROVE  /\ Reserve(c, s) /\ call'[c].phase = "creating"
                 /\ meta'[s] # Absent /\ call'[c].session = s
                 /\ \A d \in Caller : d # c /\ Spawns(d) => Target(d) # s
        <3>1. Reserve(c, s) /\ call'[c].session = s
            BY <1>3, <2>1, CommandBegins
        <3>2. call'[c].phase = "creating" /\ meta'[s] # Absent
            BY <3>1 DEF Reserve, Begin, SetMeta, TypeOK, Absent
        <3>3. meta[s] = Absent /\ runner[s] = "none"
            BY <3>1 DEF Reserve
        <3>4. QED
            BY <3>1, <3>2, <3>3 DEF Underway
    <2>2. \A d \in Caller : d # c => call'[d] = call[d]
        BY <1>3, CommandBegins
    <2>3. call'[c].phase = "creating" => call'[c].op = "spawn"
        BY <1>3, CommandBegins
    <2>4. call'[c].phase \notin {"announcing", "storing"}
        BY <1>3, CommandBegins
    <2>5. QED
        BY <1>1, <2>1, <2>2, <2>3, <2>4 DEF Underway
<1>4. ASSUME NEW c \in Caller, CallStep(c)
      PROVE  SpawnsApart'
    <2>1. /\ call[c].phase \notin {"idle", "done"}
          /\ call'[c].op = call[c].op /\ call'[c].session = call[c].session
          /\ \A d \in Caller : d # c => call'[d] = call[d]
        BY <1>4, CallStepKeeps
    <2>2. Target(c) \in Session
        BY <2>1, CallType
    <2>3. /\ call'[c].phase \in {"creating", "announcing", "storing"} => Spawns(c)
          /\ Spawns(c) =>
               /\ call'[c].phase \in Underway \cup {"done"}
               /\ call'[c].phase # "creating"
               /\ runner'[Target(c)] # "none"
        <3>1. CASE CreateRunner(c)
            BY <2>2, <3>1, GotoKeeps, SMTT(20) DEF CreateRunner, At, Underway, TypeOK
        <3>2. CASE FailCreate(c)
            BY <2>2, <3>2, GotoKeeps DEF FailCreate, At, TypeOK
        <3>3. CASE Announce(c)
            <4>1. Spawns(c) /\ runner'[Target(c)] # "none"
                BY <2>2, <3>3, SessionsStay DEF Announce, At, procs
            <4>2. call'[c].phase = "storing"
                BY <3>3, CallType DEF Announce, At, TypeOK
            <4>3. QED
                BY <4>1, <4>2 DEF Underway
        <3>4. CASE \/ WireInput(c) \/ WireMeta(c) \/ FailWire(c) \/ OpenScrollback(c)
                   \/ FailScrollback(c) \/ StoreRow(c)
            BY <2>2, <3>4, GotoKeeps DEF WireInput, WireMeta, FailWire, OpenScrollback,
               FailScrollback, StoreRow, At, Underway, procs
        <3>5. CASE AttachClient(c) \/ TouchPulse(c) \/ MarkActivity(c) \/ MarkExit(c)
            BY <3>5, GotoKeeps DEF AttachClient, TouchPulse, MarkActivity, MarkExit, At,
               Underway
        <3>6. QED
            BY <1>4, <3>1, <3>2, <3>3, <3>4, <3>5 DEF CallStep
    <2>4. Spawns(c) /\ call'[c].phase \in Underway => meta'[Target(c)] # Absent
        <3>1. ASSUME Spawns(c), call'[c].phase \in Underway
              PROVE  ~\E d \in Caller : Spawns(d) /\ Target(d) = Target(c) /\ RollsBack(d)
            BY <3>1 DEF RollsBack, Underway
        <3>2. Spawns(c) => call[c].phase \in Underway
            BY <2>1
        <3>3. QED
            BY <2>2, <3>1, <3>2, SessionsStay
    <2>5. QED
        BY <1>1, <2>1, <2>3, <2>4
<1>5. ASSUME NEW c \in Caller, ExitStep(c) \/ Detach(c) \/ Output(c)
      PROVE  call' = call
    BY <1>5 DEF ExitStep, CloseClient, ExitAsk, ExitRecord, ExitClear, Detach, Output
<1>6. ASSUME NEW s \in Session, EndRunner(s) \/ GrowOld(s)
      PROVE  call' = call
    BY <1>6 DEF EndRunner, GrowOld
<1>7. CASE RefreshStep \/ BridgeStep
    BY <1>2, <1>7 DEF RefreshStep, RefreshScan, RefreshApply, BridgeStep, Receive, Upsert
<1>8. CASE UNCHANGED vars
    BY <1>2, <1>8 DEF vars
<1>9. QED
    BY <1>2, <1>3, <1>4, <1>5, <1>6, <1>7, <1>8 DEF Next

-----------------------------------------------------------------------------
LEMMA InvInit == Init => Inv
<1> SUFFICES ASSUME Init PROVE Inv
    OBVIOUS
<1>1. TypeOK
    BY SessionAssumption DEF Init, TypeOK, Meta, Pulse, Status, Health, Age, ClientState
<1>2. ClientsCalled
    BY DEF Init, ClientsCalled
<1>3. SpawnsApart
    BY DEF Init, SpawnsApart, Spawns, Idle
<1>4. QED
    BY <1>1, <1>2, <1>3 DEF Inv

LEMMA InvStep == Inv /\ [Next]_vars => Inv'
<1> SUFFICES ASSUME Inv, [Next]_vars PROVE Inv'
    OBVIOUS
<1>0. TypeOK /\ ClientsCalled /\ SpawnsApart
    BY DEF Inv
<1>1. ASSUME UNCHANGED vars
      PROVE  TypeOK'
    BY <1>0, <1>1 DEF vars, TypeOK, memory, procs, feed, store
<1>2. ASSUME NEW c \in Caller, NEW s \in Session, Command(c, s)
      PROVE  TypeOK'
    BY <1>0, <1>2, CommandType
<1>3. ASSUME NEW c \in Caller, CallStep(c) \/ ExitStep(c)
      PROVE  TypeOK'
    BY <1>0, <1>3, CallStepType, ExitStepType
<1>4. ASSUME NEW c \in Caller, Detach(c) \/ Output(c)
      PROVE  TypeOK'
    BY <1>0, <1>4, ClientType
<1>5. ASSUME NEW s \in Session, EndRunner(s) \/ GrowOld(s)
      PROVE  TypeOK'
    BY <1>0, <1>5, OutsideType
<1>6. ASSUME RefreshStep \/ BridgeStep
      PROVE  TypeOK'
    BY <1>0, <1>6, RefreshStepType, BridgeStepType
<1>7. TypeOK'
    BY <1>1, <1>2, <1>3, <1>4, <1>5, <1>6 DEF Next
<1>8. QED
    BY <1>0, <1>7, ClientsCalledStep, SpawnsApartStep DEF Inv

(* The supervisor's maps, the calls and the store keep their types: the    *)
(* status spawn_shell goes on with is that of a session that is known,     *)
(* since only its own rollback could remove it.                            *)
THEOREM TypeCorrect == Spec => []TypeOK
<1>1. Spec => []Inv
    BY InvInit, InvStep, PTL DEF Spec
<1>2. Inv => TypeOK
    BY DEF Inv
<1>3. QED
    BY <1>1, <1>2, PTL

(* refresh_health decides in a first pass and acts in a second; whatever   *)
(* happens in between, it changes only sessions that still run, to what    *)
(* their heartbeat says then.                                              *)
THEOREM RefreshCorrectsItself == Spec => RefreshHonest
<1> DEFINE Honest(s) ==
        RefreshStep /\ meta'[s] # meta[s] =>
          /\ meta[s].status = "Running" /\ meta'[s].status = "Running"
          /\ pulse[s] # NoPulse => meta'[s].health = HealthOf(pulse[s].age)
<1>1. ASSUME TypeOK, NEW s \in Session, RefreshStep, meta'[s] # meta[s]
      PROVE  /\ meta[s].status = "Running" /\ meta'[s].status = "Running"
             /\ pulse[s] # NoPulse => meta'[s].health = HealthOf(pulse[s].age)
    <2>1. PICK x \in Session : RefreshApply(x)
        BY <1>1 DEF RefreshStep, RefreshScan, memory
    <2>2. PICK next \in NextHealth(x) :
              /\ meta[x].status = "Running"
              /\ meta' = [meta EXCEPT ![x].health = next]
        BY <1>1, <2>1 DEF RefreshApply
    <2>3. x = s
        BY <1>1, <2>2 DEF TypeOK
    <2>4. meta[s] \in Meta
        BY <1>1, <2>2, <2>3 DEF TypeOK, Absent
    <2>5. meta'[s] = [meta[s] EXCEPT !.health = next]
        BY <1>1, <2>2, <2>3 DEF TypeOK
    <2>6. meta'[s].status = "Running" /\ meta'[s].health = next
        BY <2>2, <2>3, <2>4, <2>5 DEF Meta
    <2>7. QED
        BY <1>1, <2>2, <2>3, <2>6, NextHealthType
<1>2. TypeOK /\ [Next]_vars => [\A s \in Session : Honest(s)]_vars
    BY <1>1
<1>3. QED
    BY <1>2, TypeCorrect, PTL DEF Spec, RefreshHonest

-----------------------------------------------------------------------------
(* The rows of the sessions a project was opened with follow the           *)
(* supervisor as long as the bridge runs, whatever else is created,        *)
(* reattached, fed, killed or lost meanwhile.                              *)

(* An exit task asks only once the client is made and wired.               *)
Asking == {"alive", "gone", "recorded"}
ExitsAfterWiring ==
    \A c \in Caller :
        /\ call[c].phase \in {"creating", "attaching"} => client[c] = "none"
        /\ client[c] \in Asking => Wired(c)

(* A restored session is never spawned, and stays known.                   *)
RestoredKnown ==
    \A s \in Restored :
        /\ meta[s] # Absent
        /\ \A c \in Caller : Spawns(c) => Target(c) # s
        /\ \A i \in 1 .. Len(events) : events[i].session = s => events[i].kind = "Changed"

(* Between a change of a status and its row stands at least one of: the    *)
(* exit task that will send the event, the event, the row to upsert.       *)
Awaited(s) ==
    \/ \E c \in Caller : client[c] = "recorded" /\ Target(c) = s
    \/ \E i \in 1 .. Len(events) : events[i].session = s
    \/ pending.session = s /\ pending.status = meta[s].status
    \/ pending.session # s /\ rows[s] = meta[s].status

RowsAwaited == \A s \in Restored : bridge = "running" => Awaited(s)

RowsInv == Inv /\ ExitsAfterWiring /\ RestoredKnown /\ RowsAwaited

-----------------------------------------------------------------------------
LEMMA ExitsAfterWiringStep ==
    ASSUME TypeOK, ClientsCalled, ExitsAfterWiring, [Next]_vars
    PROVE  ExitsAfterWiring'
<1> USE DEF ExitsAfterWiring, Asking, Wired, memory, procs, feed, store
<1>1. CASE UNCHANGED vars
    BY <1>1 DEF vars
<1>2. ASSUME NEW c \in Caller, NEW s \in Session, Command(c, s)
      PROVE  ExitsAfterWiring'
    <2>1. client' = client
        BY <1>2 DEF Command, Reserve, BeginAttach, TakeWriter, Terminate
    <2>2. client[c] = "none" /\ \A d \in Caller : d # c => call'[d] = call[d]
        BY <1>2, CommandBegins DEF ClientsCalled
    <2>3. QED
        BY <2>1, <2>2
<1>3. ASSUME NEW c \in Caller, CallStep(c)
      PROVE  ExitsAfterWiring'
    <2>1. \A d \in Caller : d # c => call'[d] = call[d]
        BY <1>3, CallStepKeeps
    <2>2. \A d \in Caller :
              d # c => \/ client'[d] = client[d]
                       \/ client[d] = "attached" /\ client'[d] = "exited"
        <3>1. CASE TouchPulse(c)
            BY <3>1 DEF TouchPulse, TypeOK
        <3>2. CASE \/ CreateRunner(c) \/ AttachClient(c) \/ FailWire(c) \/ FailScrollback(c)
            BY <3>2 DEF CreateRunner, AttachClient, FailWire, FailScrollback, TypeOK
        <3>3. CASE \/ FailCreate(c) \/ Announce(c) \/ StoreRow(c) \/ WireInput(c)
                   \/ WireMeta(c) \/ OpenScrollback(c) \/ MarkActivity(c) \/ MarkExit(c)
            BY <3>3 DEF FailCreate, Announce, StoreRow, WireInput, WireMeta,
               OpenScrollback, MarkActivity, MarkExit
        <3>4. QED
            BY <1>3, <3>1, <3>2, <3>3 DEF CallStep
    <2>3. /\ call'[c].phase \in {"creating", "attaching"} => client'[c] = "none"
          /\ client'[c] \in Asking => call'[c].phase \notin {"wiring", "wired", "opening"}
        <3>1. CASE \/ CreateRunner(c) \/ AttachClient(c) \/ WireInput(c) \/ WireMeta(c)
                   \/ FailCreate(c) \/ FailWire(c) \/ StoreRow(c)
            BY <3>1, GotoKeeps DEF CreateRunner, AttachClient, WireInput, WireMeta,
               FailCreate, FailWire, StoreRow, At, TypeOK
        <3>2. CASE \/ OpenScrollback(c) \/ FailScrollback(c) \/ TouchPulse(c)
                   \/ MarkActivity(c) \/ MarkExit(c)
            BY <3>2, GotoKeeps DEF OpenScrollback, FailScrollback, TouchPulse,
               MarkActivity, MarkExit, At, TypeOK
        <3>3. CASE Announce(c)
            BY <3>3, CallType DEF Announce, At, TypeOK
        <3>4. QED
            BY <1>3, <3>1, <3>2, <3>3 DEF CallStep
    <2>4. QED
        BY <2>1, <2>2, <2>3
<1>4. ASSUME NEW c \in Caller, ExitStep(c) \/ Detach(c) \/ Output(c)
      PROVE  ExitsAfterWiring'
    <2>1. CASE ExitAsk(c)
        BY <2>1 DEF ExitAsk, TypeOK
    <2>2. CASE CloseClient(c) \/ Detach(c) \/ Output(c)
        BY <2>2 DEF CloseClient, Detach, Output, TypeOK
    <2>3. CASE ExitRecord(c) \/ ExitClear(c)
        BY <2>3 DEF ExitRecord, ExitClear, TypeOK
    <2>4. QED
        BY <1>4, <2>1, <2>2, <2>3 DEF ExitStep
<1>5. ASSUME NEW s \in Session, EndRunner(s) \/ GrowOld(s)
      PROVE  ExitsAfterWiring'
    BY <1>5 DEF EndRunner, GrowOld
<1>6. CASE RefreshStep \/ BridgeStep
    BY <1>6 DEF RefreshStep, RefreshScan, RefreshApply, BridgeStep, Receive, Upsert
<1>7. QED
    BY <1>1, <1>2, <1>3, <1>4, <1>5, <1>6 DEF Next

-----------------------------------------------------------------------------
(* An event sent while the bridge runs waits in its queue, behind the      *)
(* others, unless it is the one too many that ends the bridge.             *)
LEMMA PublishQueues ==
    ASSUME TypeOK, NEW kind \in {"Spawned", "Changed"}, NEW x \in Session,
           Publish(kind, x), bridge' = "running"
    PROVE  /\ bridge = "running"
           /\ Len(events') = Len(events) + 1
           /\ \A i \in 1 .. Len(events) : events'[i] = events[i]
           /\ events'[Len(events')] = [kind |-> kind, session |-> x]
<1> DEFINE e == [kind |-> kind, session |-> x]
<1>1. e \in Event
    BY DEF Event
<1>2. events' = Append(events, e) /\ bridge' = bridge
    BY DEF Publish
<1>3. events \in Seq(Event) /\ Len(events) \in Nat
    BY DEF TypeOK
<1>4. QED
    BY <1>1, <1>2, <1>3

(* The clients about to send an event of s go on being about to.           *)
StillRecorded(s) ==
    \A c \in Caller : client[c] = "recorded" /\ Target(c) = s =>
                         client'[c] = "recorded" /\ call'[c].session = s

(* A step that sends nothing and leaves the session as it is.              *)
LEMMA QuietStep ==
    ASSUME TypeOK, NEW s \in Session, bridge = "running" => Awaited(s),
           UNCHANGED feed, pending' = pending, rows'[s] = rows[s],
           meta'[s].status = meta[s].status, StillRecorded(s)
    PROVE  bridge' = "running" => Awaited(s)'
BY DEF Awaited, feed, StillRecorded, Target

(* A step that sends an event and leaves the session as it is, or sends    *)
(* one of this session.                                                    *)
LEMMA LoudStep ==
    ASSUME TypeOK, NEW s \in Session, bridge = "running" => Awaited(s),
           NEW kind \in {"Spawned", "Changed"}, NEW x \in Session, Publish(kind, x),
           UNCHANGED store,
           x = s \/ (meta'[s].status = meta[s].status /\ StillRecorded(s))
    PROVE  bridge' = "running" => Awaited(s)'
<1> SUFFICES ASSUME bridge' = "running" PROVE Awaited(s)'
    OBVIOUS
<1>1. /\ bridge = "running"
      /\ Len(events') = Len(events) + 1
      /\ \A i \in 1 .. Len(events) : events'[i] = events[i]
      /\ events'[Len(events')] = [kind |-> kind, session |-> x]
    BY PublishQueues
<1>2. Len(events) \in Nat
    BY DEF TypeOK
<1>3. CASE x = s
    <2>1. Len(events') \in 1 .. Len(events') /\ events'[Len(events')].session = s
        BY <1>1, <1>2, <1>3
    <2>2. QED
        BY <2>1 DEF Awaited
<1>4. CASE meta'[s].status = meta[s].status /\ StillRecorded(s)
    <2>1. CASE \E i \in 1 .. Len(events) : events[i].session = s
        <3>1. PICK i \in 1 .. Len(events) : events[i].session = s
            BY <2>1
        <3>2. i \in 1 .. Len(events') /\ events'[i].session = s
            BY <1>1, <1>2, <3>1
        <3>3. QED
            BY <3>2 DEF Awaited
    <2>2. CASE \E c \in Caller : client[c] = "recorded" /\ Target(c) = s
        BY <1>4, <2>2 DEF Awaited, StillRecorded, Target
    <2>3. CASE \/ pending.session = s /\ pending.status = meta[s].status
               \/ pending.session # s /\ rows[s] = meta[s].status
        BY <1>4, <2>3 DEF Awaited, store
    <2>4. QED
        BY <1>1, <2>1, <2>2, <2>3 DEF Awaited
<1>5. QED
    BY <1>3, <1>4

-----------------------------------------------------------------------------
(* The steps, one restored session at a time.                              *)
LEMMA CommandAwaits ==
    ASSUME TypeOK, ClientsCalled, NEW s \in Session, meta[s] # Absent,
           bridge = "running" => Awaited(s),
           NEW c \in Caller, NEW x \in Session, Command(c, x)
    PROVE  bridge' = "running" => Awaited(s)'
<1>1. UNCHANGED <<feed, store>>
    BY DEF Command, Reserve, BeginAttach, TakeWriter, Terminate, memory
<1>2. client' = client /\ client[c] = "none"
    BY CommandBegins DEF Command, Reserve, BeginAttach, TakeWriter, Terminate,
       procs, ClientsCalled
<1>3. StillRecorded(s)
    BY <1>2, CommandBegins DEF StillRecorded, Target
<1>4. meta'[s] = meta[s]
    BY DEF Command, Reserve, BeginAttach, TakeWriter, Terminate, memory, SetMeta, TypeOK
<1>5. QED
    BY <1>1, <1>3, <1>4, QuietStep DEF store

LEMMA CallStepAwaits ==
    ASSUME TypeOK, SpawnsApart, ExitsAfterWiring, NEW s \in Session,
           \A d \in Caller : Spawns(d) => Target(d) # s,
           bridge = "running" => Awaited(s),
           NEW c \in Caller, CallStep(c)
    PROVE  bridge' = "running" => Awaited(s)'
<1>0. /\ Target(c) \in Session
      /\ call'[c].session = call[c].session
      /\ \A d \in Caller : d # c => call'[d] = call[d]
    <2>1. call[c].phase # "idle"
        BY CallStepKeeps
    <2>2. QED
        BY <2>1, CallStepKeeps, CallType
<1>1. ASSUME \A d \in Caller : client[d] = "recorded" => client'[d] = "recorded"
      PROVE  StillRecorded(s)
    BY <1>0, <1>1 DEF StillRecorded, Target
<1>2. CASE CreateRunner(c) \/ AttachClient(c)
    <2>1. StillRecorded(s)
        BY <1>1, <1>2 DEF CreateRunner, AttachClient, At, ExitsAfterWiring, TypeOK
    <2>2. QED
        BY <1>2, <2>1, QuietStep DEF CreateRunner, AttachClient, memory, store
<1>3. CASE FailCreate(c)
    <2>1. Target(c) # s
        BY <1>3 DEF FailCreate, At, SpawnsApart
    <2>2. StillRecorded(s)
        BY <1>1, <1>3 DEF FailCreate
    <2>3. meta'[s] = meta[s]
        BY <1>3, <2>1 DEF FailCreate, Rollback, TypeOK
    <2>4. QED
        BY <1>3, <2>2, <2>3, QuietStep DEF FailCreate, store
<1>4. CASE Announce(c)
    <2>1. StillRecorded(s)
        BY <1>1, <1>4 DEF Announce, procs
    <2>2. QED
        BY <1>0, <1>4, <2>1, LoudStep DEF Announce, memory
<1>5. CASE StoreRow(c)
    <2>1. rows'[s] = rows[s]
        BY <1>5 DEF StoreRow, At, SpawnsApart, TypeOK
    <2>2. StillRecorded(s)
        BY <1>1, <1>5 DEF StoreRow, procs
    <2>3. QED
        BY <1>5, <2>1, <2>2, QuietStep DEF StoreRow, memory
<1>6. CASE WireInput(c) \/ OpenScrollback(c)
    <2>1. StillRecorded(s)
        BY <1>1, <1>6 DEF WireInput, OpenScrollback, procs
    <2>2. QED
        BY <1>6, <2>1, QuietStep DEF WireInput, OpenScrollback, memory, store
<1>7. CASE FailWire(c) \/ FailScrollback(c)
    <2>1. StillRecorded(s)
        BY <1>1, <1>7 DEF FailWire, FailScrollback, At, Wired, Asking, ExitsAfterWiring, TypeOK
    <2>2. meta'[s] = meta[s]
        BY <1>7 DEF FailWire, FailScrollback, Rollback, Spawns, memory, TypeOK
    <2>3. QED
        BY <1>7, <2>1, <2>2, QuietStep DEF FailWire, FailScrollback, store
<1>8. CASE TouchPulse(c)
    <2>1. StillRecorded(s)
        BY <1>1, <1>8 DEF TouchPulse, TypeOK
    <2>2. QED
        BY <1>8, <2>1, QuietStep DEF TouchPulse, store
<1>9. CASE WireMeta(c) \/ MarkActivity(c) \/ MarkExit(c)
    <2>1. StillRecorded(s)
        BY <1>1, <1>9 DEF WireMeta, MarkActivity, MarkExit, procs
    <2>2. CASE UNCHANGED <<meta, feed>>
        BY <1>9, <2>1, <2>2, QuietStep DEF WireMeta, MarkActivity, MarkExit, store
    <2>3. CASE Publish("Changed", Target(c)) /\ \E st, h : SetMeta(Target(c), st, h)
        <3>1. Target(c) # s => meta'[s] = meta[s]
            BY <2>3 DEF SetMeta, TypeOK
        <3>2. UNCHANGED store
            BY <1>9 DEF WireMeta, MarkActivity, MarkExit
        <3>3. QED
            BY <1>0, <2>1, <2>3, <3>1, <3>2, LoudStep
    <2>4. QED
        BY <1>9, <2>2, <2>3 DEF WireMeta, MarkActivity, MarkExit, memory
<1>10. QED
    BY <1>2, <1>3, <1>4, <1>5, <1>6, <1>7, <1>8, <1>9 DEF CallStep

LEMMA ExitStepAwaits ==
    ASSUME TypeOK, ClientsCalled, NEW s \in Session, meta[s] # Absent,
           bridge = "running" => Awaited(s),
           NEW c \in Caller, ExitStep(c) \/ Detach(c) \/ Output(c)
    PROVE  bridge' = "running" => Awaited(s)'
<1>1. CASE CloseClient(c) \/ ExitAsk(c) \/ Detach(c)
    <2>1. StillRecorded(s)
        BY <1>1 DEF CloseClient, ExitAsk, Detach, StillRecorded, Target, TypeOK
    <2>2. QED
        BY <1>1, <2>1, QuietStep DEF CloseClient, ExitAsk, Detach, memory, store
<1>2. CASE ExitRecord(c)
    <2>1. CASE Target(c) = s
        <3>1. client'[c] = "recorded" /\ call'[c].session = s
            BY <1>2, <2>1 DEF ExitRecord, Target, TypeOK
        <3>2. QED
            BY <3>1 DEF Awaited, Target
    <2>2. CASE Target(c) # s
        <3>1. StillRecorded(s) /\ meta'[s] = meta[s]
            BY <1>2, <2>2 DEF ExitRecord, StillRecorded, Target, TypeOK
        <3>2. QED
            BY <1>2, <3>1, QuietStep DEF ExitRecord, store
    <2>3. QED
        BY <2>1, <2>2
<1>3. CASE ExitClear(c)
    <2>1. Target(c) \in Session
        BY <1>3, CallType DEF ExitClear, ClientsCalled
    <2>2. Target(c) # s => StillRecorded(s)
        BY <1>3 DEF ExitClear, StillRecorded, Target, TypeOK
    <2>3. QED
        BY <1>3, <2>1, <2>2, LoudStep DEF ExitClear
<1>4. CASE Output(c)
    <2>1. Target(c) \in Session
        BY <1>4, CallType DEF Output, ClientsCalled
    <2>2. StillRecorded(s)
        BY <1>4 DEF Output, StillRecorded, Target, procs
    <2>3. QED
        BY <1>4, <2>1, <2>2, LoudStep DEF Output
<1>5. QED
    BY <1>1, <1>2, <1>3, <1>4 DEF ExitStep

LEMMA RefreshAwaits ==
    ASSUME TypeOK, NEW s \in Session, bridge = "running" => Awaited(s), RefreshStep
    PROVE  bridge' = "running" => Awaited(s)'
<1>1. StillRecorded(s)
    BY DEF RefreshStep, RefreshScan, RefreshApply, StillRecorded, Target, procs
<1>2. CASE RefreshScan
    BY <1>1, <1>2, QuietStep DEF RefreshScan, memory, store
<1>3. ASSUME NEW x \in Session, RefreshApply(x)
      PROVE  bridge' = "running" => Awaited(s)'
    <2>1. meta'[s].status = meta[s].status
        BY <1>3 DEF RefreshApply, TypeOK, Meta, Absent
    <2>2. UNCHANGED feed \/ Publish("Changed", x)
        BY <1>3 DEF RefreshApply
    <2>3. UNCHANGED store
        BY <1>3 DEF RefreshApply
    <2>4. CASE UNCHANGED feed
        BY <1>1, <2>1, <2>3, <2>4, QuietStep DEF store
    <2>5. CASE Publish("Changed", x)
        BY <1>1, <2>1, <2>3, <2>5, LoudStep
    <2>6. QED
        BY <2>2, <2>4, <2>5
<1>4. QED
    BY <1>2, <1>3 DEF RefreshStep

(* An event taken is the row about to be upserted, a row upserted is the   *)
(* row of the database.                                                    *)
LEMMA BridgeAwaits ==
    ASSUME TypeOK, NEW s \in Session, meta[s] # Absent,
           \A i \in 1 .. Len(events) : events[i].session = s => events[i].kind = "Changed",
           bridge = "running" => Awaited(s), BridgeStep
    PROVE  bridge' = "running" => Awaited(s)'
<1> SUFFICES ASSUME bridge = "running", Awaited(s) PROVE Awaited(s)'
    BY DEF BridgeStep, Receive, Upsert, feed
<1>0. s # None
    BY SessionAssumption
<1>1. /\ UNCHANGED <<meta, client, call>>
      /\ StillRecorded(s)
    BY DEF BridgeStep, Receive, Upsert, memory, procs, StillRecorded, Target
<1>2. CASE \E c \in Caller : client[c] = "recorded" /\ Target(c) = s
    BY <1>1, <1>2 DEF Awaited, Target
<1>3. CASE Receive
    <2>1. /\ events \in Seq(Event) /\ events # <<>>
          /\ events' = Tail(events) /\ rows' = rows /\ pending = Nothing
        BY <1>3 DEF Receive, TypeOK
    <2>2. /\ Len(events) \in Nat /\ Len(events) >= 1 /\ Len(events') = Len(events) - 1
          /\ \A i \in 1 .. Len(events') : events'[i] = events[i + 1]
          /\ Head(events) = events[1]
        BY <2>1
    <2>3. CASE events[1].session = s
        <3>1. Head(events).session = s /\ Head(events).kind = "Changed"
            BY <2>2, <2>3
        <3>2. pending' = [session |-> s, status |-> meta[s].status]
            BY <1>3, <3>1 DEF Receive
        <3>3. QED
            BY <1>1, <3>2 DEF Awaited
    <2>4. CASE events[1].session # s
        <3>1. pending'.session # s
            BY <1>0, <1>3, <2>2, <2>4 DEF Receive, Nothing
        <3>2. CASE \E i \in 1 .. Len(events) : events[i].session = s
            <4>1. PICK i \in 1 .. Len(events) : events[i].session = s
                BY <3>2
            <4>2. i - 1 \in 1 .. Len(events') /\ events'[i - 1].session = s
                BY <2>2, <2>4, <4>1
            <4>3. QED
                BY <4>2 DEF Awaited
        <3>3. CASE rows[s] = meta[s].status
            BY <1>1, <2>1, <3>1, <3>3 DEF Awaited
        <3>4. QED
            BY <1>0, <1>2, <2>1, <3>2, <3>3 DEF Awaited, Nothing
    <2>5. QED
        BY <2>3, <2>4
<1>4. CASE Upsert
    <2>1. /\ rows' = [rows EXCEPT ![pending.session] = pending.status]
          /\ pending' = Nothing /\ events' = events
        BY <1>4 DEF Upsert, feed
    <2>2. CASE \E i \in 1 .. Len(events) : events[i].session = s
        BY <2>1, <2>2 DEF Awaited
    <2>3. CASE \/ pending.session = s /\ pending.status = meta[s].status
               \/ pending.session # s /\ rows[s] = meta[s].status
        <3>1. rows'[s] = meta[s].status
            BY <2>1, <2>3 DEF TypeOK
        <3>2. pending'.session # s
            BY <1>0, <2>1 DEF Nothing
        <3>3. QED
            BY <1>1, <3>1, <3>2 DEF Awaited
    <2>4. QED
        BY <1>2, <2>2, <2>3 DEF Awaited
<1>5. QED
    BY <1>3, <1>4 DEF BridgeStep

LEMMA RowsAwaitedStep ==
    ASSUME RowsInv, [Next]_vars
    PROVE  RowsAwaited'
<1> SUFFICES ASSUME NEW s \in Restored PROVE bridge' = "running" => Awaited(s)'
    BY DEF RowsAwaited
<1>0. /\ TypeOK /\ ClientsCalled /\ SpawnsApart /\ ExitsAfterWiring
      /\ s \in Session /\ meta[s] # Absent
      /\ \A c \in Caller : Spawns(c) => Target(c) # s
      /\ \A i \in 1 .. Len(events) : events[i].session = s => events[i].kind = "Changed"
      /\ bridge = "running" => Awaited(s)
    BY SessionAssumption DEF RowsInv, Inv, RestoredKnown, RowsAwaited
<1>1. CASE UNCHANGED vars
    BY <1>0, <1>1 DEF vars, memory, procs, feed, store, Awaited, Target
<1>2. ASSUME NEW c \in Caller, NEW x \in Session, Command(c, x)
      PROVE  bridge' = "running" => Awaited(s)'
    BY <1>0, <1>2, CommandAwaits
<1>3. ASSUME NEW c \in Caller, CallStep(c)
      PROVE  bridge' = "running" => Awaited(s)'
    BY <1>0, <1>3, CallStepAwaits
<1>4. ASSUME NEW c \in Caller, ExitStep(c) \/ Detach(c) \/ Output(c)
      PROVE  bridge' = "running" => Awaited(s)'
    BY <1>0, <1>4, ExitStepAwaits
<1>5. ASSUME NEW x \in Session, EndRunner(x) \/ GrowOld(x)
      PROVE  bridge' = "running" => Awaited(s)'
    <2>1. StillRecorded(s)
        BY <1>5 DEF EndRunner, GrowOld, StillRecorded, Target, procs
    <2>2. QED
        BY <1>0, <1>5, <2>1, QuietStep DEF EndRunner, GrowOld, memory, store
<1>6. CASE RefreshStep
    BY <1>0, <1>6, RefreshAwaits
<1>7. CASE BridgeStep
    BY <1>0, <1>7, BridgeAwaits
<1>8. QED
    BY <1>1, <1>2, <1>3, <1>4, <1>5, <1>6, <1>7 DEF Next

-----------------------------------------------------------------------------
(* Sending an event of another session, or one that is read when it is     *)
(* handled, leaves the restored session's events as they must be.          *)
ChangedOnly(s) ==
    \A i \in 1 .. Len(events) : events[i].session = s => events[i].kind = "Changed"

LEMMA PublishChanged ==
    ASSUME TypeOK, NEW s \in Session, ChangedOnly(s),
           NEW kind \in {"Spawned", "Changed"}, NEW x \in Session, Publish(kind, x),
           x # s \/ kind = "Changed"
    PROVE  ChangedOnly(s)'
<1> DEFINE e == [kind |-> kind, session |-> x]
<1>1. e \in Event /\ events \in Seq(Event) /\ Len(events) \in Nat
    BY DEF Event, TypeOK
<1>2. CASE events' = <<>>
    BY <1>2 DEF ChangedOnly
<1>3. CASE events' = Append(events, e)
    <2>1. /\ Len(events') = Len(events) + 1
          /\ \A i \in 1 .. Len(events) : events'[i] = events[i]
          /\ events'[Len(events) + 1] = e
        BY <1>1, <1>3
    <2>2. QED
        BY <1>1, <2>1 DEF ChangedOnly
<1>4. QED
    BY <1>2, <1>3 DEF Publish

LEMMA ChangedOnlyStep ==
    ASSUME TypeOK, ClientsCalled, SpawnsApart, NEW s \in Session, ChangedOnly(s),
           \A c \in Caller : Spawns(c) => Target(c) # s, [Next]_vars
    PROVE  ChangedOnly(s)'
<1>0. ASSUME events' = events
      PROVE  ChangedOnly(s)'
    BY <1>0 DEF ChangedOnly
<1>1. CASE UNCHANGED vars
    BY <1>0, <1>1 DEF vars, feed
<1>2. ASSUME NEW c \in Caller, NEW x \in Session, Command(c, x)
      PROVE  ChangedOnly(s)'
    BY <1>0, <1>2 DEF Command, Reserve, BeginAttach, TakeWriter, Terminate, feed
<1>3. ASSUME NEW c \in Caller, CallStep(c)
      PROVE  ChangedOnly(s)'
    <2>0. Target(c) \in Session
        <3>1. call[c].phase # "idle"
            BY <1>3, CallStepKeeps
        <3>2. QED
            BY <3>1, CallType
    <2>1. CASE Announce(c)
        <3>1. Publish("Spawned", Target(c)) /\ Target(c) # s
            BY <2>1 DEF Announce, At, SpawnsApart
        <3>2. QED
            BY <2>0, <3>1, PublishChanged
    <2>2. CASE WireMeta(c) \/ MarkActivity(c) \/ MarkExit(c)
        <3>1. events' = events \/ Publish("Changed", Target(c))
            BY <2>2 DEF WireMeta, MarkActivity, MarkExit, feed
        <3>2. QED
            BY <1>0, <2>0, <3>1, PublishChanged
    <2>3. CASE \/ CreateRunner(c) \/ FailCreate(c) \/ StoreRow(c) \/ AttachClient(c)
               \/ WireInput(c) \/ FailWire(c) \/ OpenScrollback(c) \/ FailScrollback(c)
               \/ TouchPulse(c)
        BY <1>0, <2>3 DEF CreateRunner, FailCreate, StoreRow, AttachClient, WireInput,
           FailWire, OpenScrollback, FailScrollback, TouchPulse, feed
    <2>4. QED
        BY <1>3, <2>1, <2>2, <2>3 DEF CallStep
<1>4. ASSUME NEW c \in Caller, ExitStep(c) \/ Detach(c) \/ Output(c)
      PROVE  ChangedOnly(s)'
    <2>1. CASE ExitClear(c) \/ Output(c)
        <3>1. Target(c) \in Session
            BY <2>1, CallType DEF ExitClear, Output, ClientsCalled
        <3>2. QED
            BY <2>1, <3>1, PublishChanged DEF ExitClear, Output
    <2>2. CASE CloseClient(c) \/ ExitAsk(c) \/ ExitRecord(c) \/ Detach(c)
        BY <1>0, <2>2 DEF CloseClient, ExitAsk, ExitRecord, Detach, feed
    <2>3. QED
        BY <1>4, <2>1, <2>2 DEF ExitStep
<1>5. ASSUME NEW x \in Session, EndRunner(x) \/ GrowOld(x)
      PROVE  ChangedOnly(s)'
    BY <1>0, <1>5 DEF EndRunner, GrowOld, feed
<1>6. CASE RefreshStep
    <2>1. events' = events \/ \E x \in Session : Publish("Changed", x)
        BY <1>6 DEF RefreshStep, RefreshScan, RefreshApply, feed
    <2>2. QED
        BY <1>0, <2>1, PublishChanged
<1>7. CASE BridgeStep
    <2>1. CASE Receive
        <3>1. events \in Seq(Event) /\ events # <<>> /\ events' = Tail(events)
            BY <2>1 DEF Receive, TypeOK
        <3>2. /\ Len(events) \in Nat /\ Len(events') = Len(events) - 1
              /\ \A i \in 1 .. Len(events') : events'[i] = events[i + 1]
            BY <3>1
        <3>3. QED
            BY <3>2 DEF ChangedOnly
    <2>2. CASE Upsert
        BY <1>0, <2>2 DEF Upsert, feed
    <2>3. QED
        BY <1>7, <2>1, <2>2 DEF BridgeStep
<1>8. QED
    BY <1>1, <1>2, <1>3, <1>4, <1>5, <1>6, <1>7 DEF Next

LEMMA RestoredKnownStep ==
    ASSUME TypeOK, ClientsCalled, SpawnsApart, RestoredKnown, [Next]_vars
    PROVE  RestoredKnown'
<1> SUFFICES ASSUME NEW s \in Restored
             PROVE  /\ meta'[s] # Absent
                    /\ \A c \in Caller : Spawns(c)' => Target(c)' # s
                    /\ ChangedOnly(s)'
    BY DEF RestoredKnown, ChangedOnly
<1>0. /\ s \in Session /\ meta[s] # Absent /\ ChangedOnly(s)
      /\ \A c \in Caller : Spawns(c) => Target(c) # s
    BY SessionAssumption DEF RestoredKnown, ChangedOnly
<1>1. meta'[s] # Absent
    BY <1>0, SessionsStay
<1>2. \A c \in Caller : Spawns(c)' => Target(c)' # s
    <2> USE DEF Spawns, Target
    <2>1. ASSUME NEW c \in Caller, NEW x \in Session, Command(c, x)
          PROVE  \A d \in Caller : Spawns(d)' => Target(d)' # s
        <3>1. call'[c].op = "spawn" => meta[x] = Absent /\ call'[c].session = x
            BY <2>1, CommandBegins DEF Reserve
        <3>2. \A d \in Caller : d # c => call'[d] = call[d]
            BY <2>1, CommandBegins
        <3>3. QED
            BY <1>0, <3>1, <3>2
    <2>2. ASSUME NEW c \in Caller, CallStep(c)
          PROVE  \A d \in Caller : Spawns(d)' => Target(d)' # s
        BY <1>0, <2>2, CallStepKeeps
    <2>3. ASSUME call' = call
          PROVE  \A d \in Caller : Spawns(d)' => Target(d)' # s
        BY <1>0, <2>3
    <2>4. ASSUME NEW c \in Caller, ExitStep(c) \/ Detach(c) \/ Output(c)
          PROVE  call' = call
        BY <2>4 DEF ExitStep, CloseClient, ExitAsk, ExitRecord, ExitClear, Detach, Output
    <2>5. ASSUME NEW x \in Session, EndRunner(x) \/ GrowOld(x)
          PROVE  call' = call
        BY <2>5 DEF EndRunner, GrowOld
    <2>6. RefreshStep \/ BridgeStep \/ UNCHANGED vars => call' = call
        BY DEF RefreshStep, RefreshScan, RefreshApply, BridgeStep, Receive, Upsert, vars
    <2>7. QED
        BY <2>1, <2>2, <2>3, <2>4, <2>5, <2>6 DEF Next
<1>3. QED
    BY <1>0, <1>1, <1>2, ChangedOnlyStep

-----------------------------------------------------------------------------
LEMMA RowsInvInit == Init => RowsInv
<1> SUFFICES ASSUME Init PROVE RowsInv
    OBVIOUS
<1>1. Inv
    BY InvInit
<1>2. ExitsAfterWiring
    BY DEF Init, ExitsAfterWiring, Asking
<1>3. RestoredKnown
    BY SessionAssumption DEF Init, RestoredKnown, Absent, Spawns, Idle
<1>4. RowsAwaited
    BY SessionAssumption DEF Init, RowsAwaited, Awaited, Nothing
<1>5. QED
    BY <1>1, <1>2, <1>3, <1>4 DEF RowsInv

LEMMA RowsInvStep == RowsInv /\ [Next]_vars => RowsInv'
<1> SUFFICES ASSUME RowsInv, [Next]_vars PROVE RowsInv'
    OBVIOUS
<1>1. /\ Inv /\ TypeOK /\ ClientsCalled /\ SpawnsApart
      /\ ExitsAfterWiring /\ RestoredKnown
    BY DEF RowsInv, Inv
<1>2. Inv'
    BY <1>1, InvStep
<1>3. QED
    BY <1>1, <1>2, ExitsAfterWiringStep, RestoredKnownStep, RowsAwaitedStep DEF RowsInv

(* While the bridge runs and has nothing of it left to report, a session   *)
(* the project was opened with has in the database the status the          *)
(* supervisor gives it: every way to change a status is followed by an     *)
(* event, and no event carries an old one.                                 *)
THEOREM RestoredRows == Spec => []RestoredRowsFollow
<1>1. Spec => []RowsInv
    BY RowsInvInit, RowsInvStep, PTL DEF Spec
<1>2. RowsInv => RestoredRowsFollow
    BY DEF RowsInv, RowsAwaited, Awaited, RestoredRowsFollow, Reported
<1>3. QED
    BY <1>1, <1>2, PTL
=============================================================================
