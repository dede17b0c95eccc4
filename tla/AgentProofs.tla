----------------------------- MODULE AgentProofs -----------------------------
(***************************************************************************)
(* What AgentRun and CodexServer keep, for any number of agents and        *)
(* app-servers: the first half is about the runs of agents, the second     *)
(* about the calls to app-servers.  Each half states the inductive         *)
(* invariant, part by part, then one lemma for each action or group of     *)
(* actions that change the same, and the theorem of its specification.     *)
(* The last part is about the team that agents make up: AgentTeam.         *)
(***************************************************************************)
EXTENDS MCProject, AgentTeam, FiniteSetTheorems, FunctionTheorems, SequenceTheorems,
        WellFoundedInduction, TLAPS

(* The fields of AgentRun.                                                 *)
Pid == GroupId \cup {NoGroup}
Event == {"status", "output", "error", "timed out", "complete", "lag"}
Parting == {"complete", "error", "timed out", "lag"}
Ear == [at : {"off", "listening", "backoff", "ended"}, deaf : BOOLEAN, tries : Nat,
        stalls : Nat, heard : Nat,
        why : {"none", "aborted", "error", "complete", "lag", "closed", "stall"}]
Child == [state : {"none", "running", "ok", "bad"}, pid : Pid]
Listed == [chan : {"none", "open", "closed"}, pid : Pid]
AgentTypeOK ==
    /\ listed \in [Agent -> Listed] /\ child \in [Agent -> Child]
    /\ printed \in [Agent -> Nat] /\ pipe \in [Agent -> Nat]
    /\ readers \in [Agent -> {"none", "reading", "done"}]
    /\ waiter \in [Agent -> {"none", "waiting", "exited", "unlisted", "told", "done"}]
    /\ killer \in [Agent -> Pid]
    /\ mail \in [Agent -> Seq(Event)] /\ ear \in [Agent -> Ear]

(* Process ids are those of one process at a time.                         *)
PidsApart ==
    \A a, b \in Agent : child[a].pid = child[b].pid /\ child[a].pid # NoGroup => a = b

(* The adapter's maps and tasks follow the process.                        *)
BeforeSend(a) ==
    child[a].state = "none" =>
        /\ child[a].pid = NoGroup /\ listed[a].pid = NoGroup /\ killer[a] = NoGroup
        /\ waiter[a] = "none" /\ readers[a] = "none" /\ printed[a] = 0 /\ pipe[a] = 0
WaiterKnows(a) ==
    /\ Runs(a) => child[a].pid # NoGroup
    /\ waiter[a] = "waiting" /\ Runs(a) =>
        /\ listed[a].pid = child[a].pid
        /\ killer[a] \in {NoGroup, child[a].pid}
    /\ waiter[a] \in {"exited", "unlisted", "told", "done"} => ~Runs(a)
    /\ waiter[a] \in {"unlisted", "told", "done"} => listed[a].pid = NoGroup
    /\ waiter[a] = "done" => listed[a].chan = "closed"
    /\ readers[a] = "done" => pipe[a] = 0 /\ ~Runs(a)

(* The loop listens from the spawn on, and has a reason when it ends.      *)
LoopFollows(a) ==
    /\ listed[a].chan = "none" <=> ear[a].at = "off"
    /\ ear[a].at = "off" =>
        child[a].state = "none" /\ ear[a].heard = 0 /\ ~ear[a].deaf /\ mail[a] = <<>>
    /\ ear[a].at # "ended" => ear[a].why = "none"
    /\ ear[a].deaf /\ Listens(a) => mail[a] = <<"error">>

(* What is printed is in the pipe, in the mail or heard, unless the loop   *)
(* was told that it has missed something.                                  *)
Outputs(m) == {i \in 1 .. Len(m) : m[i] = "output"}
Outs(m) == Cardinality(Outputs(m))
Brings(m, events) == \E i \in 1 .. Len(m) : m[i] \in events
NothingLost(a) ==
    Listens(a) /\ ~ear[a].deaf /\ mail[a] # <<"lag">> =>
        /\ ear[a].heard + Outs(mail[a]) + pipe[a] = printed[a]
        /\ ~Brings(mail[a], {"lag"})

(* "complete" is the end of the lines, and some end is always told.        *)
CompleteIsLast(a) ==
    Listens(a) => \A i \in 1 .. Len(mail[a]) : mail[a][i] = "complete" =>
        /\ child[a].state = "ok" /\ readers[a] = "done"
        /\ \A j \in 1 .. Len(mail[a]) : i < j => mail[a][j] # "output"
EndIsTold(a) ==
    Listens(a) /\ waiter[a] \in {"told", "done"} => ear[a].tries > 0 \/ Brings(mail[a], Parting)

(* What a loop that ended may have concluded.                              *)
Concluded(a) ==
    /\ ear[a].why = "complete" =>
        child[a].state = "ok" /\ ear[a].heard = printed[a] /\ pipe[a] = 0
    /\ ear[a].why = "closed" => ear[a].tries > 0 /\ waiter[a] = "done"

AgentInv(a) ==
    /\ BeforeSend(a) /\ WaiterKnows(a) /\ LoopFollows(a)
    /\ NothingLost(a) /\ CompleteIsLast(a) /\ EndIsTold(a) /\ Concluded(a)
AgentsInv == \A a \in Agent : AgentInv(a)
AgentIInv == AgentTypeOK /\ PidsApart /\ AgentsInv

-----------------------------------------------------------------------------
(* How the mail and the lines in it change.                                *)
LEMMA OutsNat ==
    ASSUME NEW m \in Seq(Event)
    PROVE  IsFiniteSet(Outputs(m)) /\ Outs(m) \in Nat
<1>1. IsFiniteSet(1 .. Len(m))
    BY FS_Interval, LenProperties
<1>2. Outputs(m) \subseteq 1 .. Len(m)
    BY DEF Outputs
<1>3. QED
    BY <1>1, <1>2, FS_Subset, FS_CardinalityType DEF Outs

LEMMA OutsNone ==
    ASSUME NEW m \in Seq(Event), ~Brings(m, {"output"})
    PROVE  Outs(m) = 0
<1>1. Outputs(m) = {}
    BY DEF Outputs, Brings
<1>2. QED
    BY <1>1, FS_EmptySet DEF Outs

LEMMA OutsOne == Outs(<<"output">>) = 1
<1>1. Outputs(<<"output">>) = {1}
    BY DEF Outputs
<1>2. QED
    BY <1>1, FS_Singleton DEF Outs

LEMMA OutsTail ==
    ASSUME NEW m \in Seq(Event), m # <<>>
    PROVE  /\ Tail(m) \in Seq(Event) /\ Len(Tail(m)) = Len(m) - 1
           /\ \A i \in 1 .. Len(Tail(m)) : Tail(m)[i] = m[i + 1] /\ i + 1 \in 1 .. Len(m)
           /\ Head(m) = "output" => Outs(m) = Outs(Tail(m)) + 1
           /\ Head(m) # "output" => Outs(m) = Outs(Tail(m)) + 0
<1> DEFINE t == Tail(m)
           shift == [i \in Outputs(t) |-> i + 1]
<1>1. t \in Seq(Event) /\ Len(t) = Len(m) - 1 /\ Len(m) \in Nat /\ Len(m) > 0 /\ Head(m) = m[1]
    BY HeadTailProperties, EmptySeq, LenProperties
<1>2. \A i \in 1 .. Len(t) : t[i] = m[i + 1] /\ i + 1 \in 1 .. Len(m)
    BY <1>1, HeadTailProperties
<1>3. shift \in Bijection(Outputs(t), Outputs(m) \ {1})
    <2>1. \A i \in Outputs(t) : i \in Nat /\ shift[i] = i + 1 /\ shift[i] \in Outputs(m) \ {1}
        BY <1>1, <1>2 DEF Outputs
    <2>2. \A i, j \in Outputs(t) : i # j => shift[i] # shift[j]
        BY <2>1
    <2>3. \A k \in Outputs(m) \ {1} : k - 1 \in Outputs(t) /\ shift[k - 1] = k
        BY <1>1, <1>2 DEF Outputs
    <2>4. shift \in [Outputs(t) -> Outputs(m) \ {1}]
        BY <2>1
    <2>5. QED
        BY <2>2, <2>3, <2>4, Fun_IsBij
<1>4. Cardinality(Outputs(t)) = Cardinality(Outputs(m) \ {1})
    BY <1>1, <1>3, OutsNat, FS_Bijection DEF ExistsBijection
<1>5. 1 \in Outputs(m) <=> Head(m) = "output"
    BY <1>1 DEF Outputs
<1>6. Cardinality(Outputs(m) \ {1}) =
        IF 1 \in Outputs(m) THEN Cardinality(Outputs(m)) - 1 ELSE Cardinality(Outputs(m))
    BY OutsNat, FS_RemoveElement
<1>7. QED
    BY <1>1, <1>2, <1>4, <1>5, <1>6, OutsNat DEF Outs

LEMMA OutsJoin ==
    ASSUME NEW m \in Seq(Event), NEW e \in Seq(Event)
    PROVE  /\ m \o e \in Seq(Event) /\ Len(m \o e) = Len(m) + Len(e)
           /\ \A i \in 1 .. Len(m) : (m \o e)[i] = m[i]
           /\ \A i \in 1 .. Len(e) : (m \o e)[Len(m) + i] = e[i]
           /\ Outs(m \o e) = Outs(m) + Outs(e)
<1> DEFINE n == m \o e
           later == {k \in Outputs(n) : k > Len(m)}
           shift == [i \in Outputs(e) |-> Len(m) + i]
<1>1. /\ n \in Seq(Event) /\ Len(n) = Len(m) + Len(e) /\ Len(m) \in Nat /\ Len(e) \in Nat
      /\ \A i \in 1 .. Len(m) : n[i] = m[i]
      /\ \A i \in 1 .. Len(e) : n[Len(m) + i] = e[i]
    BY ConcatProperties, LenProperties
<1> HIDE DEF n
<1>2. shift \in Bijection(Outputs(e), later)
    <2>1. \A i \in Outputs(e) : i \in Nat /\ shift[i] = Len(m) + i /\ shift[i] \in later
        BY <1>1 DEF Outputs
    <2>2. \A i, j \in Outputs(e) : i # j => shift[i] # shift[j]
        BY <1>1, <2>1
    <2>3. \A k \in later : k - Len(m) \in Outputs(e) /\ shift[k - Len(m)] = k
        <3> SUFFICES ASSUME NEW k \in later
                     PROVE  k - Len(m) \in Outputs(e) /\ shift[k - Len(m)] = k
            OBVIOUS
        <3>1. k - Len(m) \in 1 .. Len(e) /\ n[k] = "output" /\ Len(m) + (k - Len(m)) = k
            BY <1>1 DEF Outputs
        <3>2. QED
            BY <1>1, <3>1 DEF Outputs
    <2>4. shift \in [Outputs(e) -> later]
        BY <2>1
    <2>5. QED
        BY <2>2, <2>3, <2>4, Fun_IsBij
<1>3. Outputs(n) = Outputs(m) \cup later /\ Outputs(m) \cap later = {}
    BY <1>1 DEF Outputs
<1>4. IsFiniteSet(later) /\ Cardinality(later) = Outs(e)
    BY <1>2, OutsNat, FS_Bijection DEF Outs, ExistsBijection
<1>5. Cardinality(Outputs(n)) = Cardinality(Outputs(m)) + Cardinality(later)
    <2>1. Cardinality(Outputs(m) \cup later) =
            Cardinality(Outputs(m)) + Cardinality(later) - Cardinality(Outputs(m) \cap later)
        BY <1>4, OutsNat, FS_Union
    <2>2. Cardinality(Outputs(m) \cap later) = 0
        BY <1>3, FS_EmptySet
    <2>3. Cardinality(Outputs(m)) \in Nat /\ Cardinality(later) \in Nat
        BY <1>4, OutsNat DEF Outs
    <2>4. Cardinality(Outputs(n)) = Cardinality(Outputs(m) \cup later)
        BY <1>3
    <2> HIDE DEF later
    <2>5. QED
        BY <2>1, <2>2, <2>3, <2>4
<1>6. QED
    BY <1>1, <1>4, <1>5 DEF Outs, n

-----------------------------------------------------------------------------
(* What a step of one run leaves of the others: a process of theirs may    *)
(* have been ended.                                                        *)
ChildKept(x) ==
    /\ child'[x].pid = child[x].pid
    /\ child'[x].state = child[x].state \/ (Runs(x) /\ child'[x].state = "bad")
Untouched(x) ==
    /\ ChildKept(x)
    /\ listed'[x] = listed[x] /\ printed'[x] = printed[x] /\ pipe'[x] = pipe[x]
    /\ readers'[x] = readers[x] /\ waiter'[x] = waiter[x] /\ killer'[x] = killer[x]
    /\ mail'[x] = mail[x] /\ ear'[x] = ear[x]
TouchesOnly(a) == \A x \in Agent \ {a} : Untouched(x)

LEMMA UntouchedKeeps ==
    ASSUME NEW x \in Agent, AgentInv(x), Untouched(x)
    PROVE  AgentInv(x)'
<1> USE DEF AgentInv, Untouched, ChildKept
<1>1. BeforeSend(x)'
    BY DEF BeforeSend, Runs
<1>2. WaiterKnows(x)'
    BY DEF WaiterKnows, Runs
<1>3. LoopFollows(x)'
    BY DEF LoopFollows, Listens, Runs
<1>4. NothingLost(x)' /\ EndIsTold(x)'
    BY DEF NothingLost, EndIsTold, Listens
<1>5. CompleteIsLast(x)'
    BY DEF CompleteIsLast, Listens, Runs
<1>6. Concluded(x)'
    BY DEF Concluded, Runs
<1>7. QED
    BY <1>1, <1>2, <1>3, <1>4, <1>5, <1>6

LEMMA OneRunKeeps ==
    ASSUME AgentIInv, NEW a \in Agent, AgentTypeOK', TouchesOnly(a), AgentInv(a)',
           \/ child'[a].pid \in {child[a].pid, NoGroup}
           \/ ~Exists(child'[a].pid)
    PROVE  AgentIInv'
<1>1. AgentsInv'
    BY UntouchedKeeps DEF AgentIInv, AgentsInv, TouchesOnly
<1>2. \A x \in Agent \ {a} : child'[x].pid = child[x].pid
    BY DEF TouchesOnly, Untouched, ChildKept
<1>3. PidsApart'
    BY <1>2 DEF AgentIInv, PidsApart, Exists
<1>4. QED
    BY <1>1, <1>3 DEF AgentIInv

(* A kill by group ends whoever has it, and nobody else.                   *)
LEMMA KillEnds ==
    ASSUME AgentTypeOK, NEW p \in Pid, child' = Killed(p)
    PROVE  /\ child' \in [Agent -> Child] /\ \A x \in Agent : ChildKept(x)
           /\ \A x \in Agent : child[x].pid = p => child'[x].state # "running"
<1>1. \A x \in Agent : child[x] \in Child /\ [child[x] EXCEPT !.state = "bad"] \in Child
    BY DEF AgentTypeOK, Child
<1>2. \A x \in Agent : child'[x] = IF child[x].pid = p /\ Runs(x)
                                   THEN [child[x] EXCEPT !.state = "bad"] ELSE child[x]
    BY DEF Killed
<1>3. child' \in [Agent -> Child]
    BY <1>1 DEF Killed
<1>4. \A x \in Agent : ChildKept(x)
    BY <1>1, <1>2 DEF ChildKept, Child
<1>5. \A x \in Agent : child[x].pid = p => child'[x].state # "running"
    BY <1>1, <1>2 DEF Child, Runs
<1>6. QED
    BY <1>3, <1>4, <1>5

(* One field of a handle, a child or a loop changes.                       *)
LEMMA ListedPid ==
    ASSUME AgentTypeOK, NEW a \in Agent, NEW p \in Pid,
           listed' = [listed EXCEPT ![a].pid = p]
    PROVE  /\ listed' \in [Agent -> Listed]
           /\ listed'[a].pid = p /\ listed'[a].chan = listed[a].chan
           /\ \A x \in Agent \ {a} : listed'[x] = listed[x]
<1> DEFINE r == [listed[a] EXCEPT !.pid = p]
<1>1. listed \in [Agent -> Listed]
    BY DEF AgentTypeOK
<1>2. r \in Listed /\ r.pid = p /\ r.chan = listed[a].chan
    BY <1>1 DEF Listed
<1>3. listed' = [listed EXCEPT ![a] = r]
    OBVIOUS
<1>4. QED
    BY <1>1, <1>2, <1>3

LEMMA ListedChan ==
    ASSUME AgentTypeOK, NEW a \in Agent, NEW c \in {"none", "open", "closed"},
           listed' = [listed EXCEPT ![a].chan = c]
    PROVE  /\ listed' \in [Agent -> Listed]
           /\ listed'[a].chan = c /\ listed'[a].pid = listed[a].pid
           /\ \A x \in Agent \ {a} : listed'[x] = listed[x]
<1> DEFINE r == [listed[a] EXCEPT !.chan = c]
<1>1. listed \in [Agent -> Listed]
    BY DEF AgentTypeOK
<1>2. r \in Listed /\ r.chan = c /\ r.pid = listed[a].pid
    BY <1>1 DEF Listed
<1>3. listed' = [listed EXCEPT ![a] = r]
    OBVIOUS
<1>4. QED
    BY <1>1, <1>2, <1>3

LEMMA ChildState ==
    ASSUME AgentTypeOK, NEW a \in Agent, NEW s \in {"none", "running", "ok", "bad"},
           child' = [child EXCEPT ![a].state = s]
    PROVE  /\ child' \in [Agent -> Child]
           /\ child'[a].state = s /\ child'[a].pid = child[a].pid
           /\ \A x \in Agent \ {a} : child'[x] = child[x]
<1> DEFINE r == [child[a] EXCEPT !.state = s]
<1>1. child \in [Agent -> Child]
    BY DEF AgentTypeOK
<1>2. r \in Child /\ r.state = s /\ r.pid = child[a].pid
    BY <1>1 DEF Child
<1>3. child' = [child EXCEPT ![a] = r]
    OBVIOUS
<1>4. QED
    BY <1>1, <1>2, <1>3

LEMMA ChildPid ==
    ASSUME AgentTypeOK, NEW a \in Agent, NEW p \in Pid,
           child' = [child EXCEPT ![a].pid = p]
    PROVE  /\ child' \in [Agent -> Child]
           /\ child'[a].pid = p /\ child'[a].state = child[a].state
           /\ \A x \in Agent \ {a} : child'[x] = child[x]
<1> DEFINE r == [child[a] EXCEPT !.pid = p]
<1>1. child \in [Agent -> Child]
    BY DEF AgentTypeOK
<1>2. r \in Child /\ r.pid = p /\ r.state = child[a].state
    BY <1>1 DEF Child
<1>3. child' = [child EXCEPT ![a] = r]
    OBVIOUS
<1>4. QED
    BY <1>1, <1>2, <1>3

(* What the invariant says of a loop: all but how often it has stalled.    *)
EarSame(a) ==
    /\ ear'[a].at = ear[a].at /\ (ear'[a].deaf <=> ear[a].deaf) /\ ear'[a].tries = ear[a].tries
    /\ ear'[a].heard = ear[a].heard /\ ear'[a].why = ear[a].why

(* A post appends, or is lost, or tells the loop that it has missed some.  *)
LEMMA Posting ==
    ASSUME AgentTypeOK, NEW a \in Agent, NEW events \in Seq(Event), Post(a, events)
    PROVE  /\ mail' \in [Agent -> Seq(Event)] /\ \A x \in Agent \ {a} : mail'[x] = mail[x]
           /\ ~Listens(a) \/ ear[a].deaf => mail'[a] = mail[a]
           /\ Listens(a) /\ ~ear[a].deaf =>
                \/ mail'[a] = <<"lag">>
                \/ mail[a] # <<"lag">> /\ mail'[a] = mail[a] \o events
<1>1. <<"lag">> \in Seq(Event)
    <2>1. "lag" \in Event
        BY DEF Event
    <2>2. QED
        BY <2>1
<1>2. mail[a] \in Seq(Event) /\ mail[a] \o events \in Seq(Event)
    BY OutsJoin DEF AgentTypeOK
<1>3. Posted(a, events) \in Seq(Event)
    BY <1>1, <1>2 DEF Posted
<1>4. mail'[a] = Posted(a, events) /\ mail' \in [Agent -> Seq(Event)]
      /\ \A x \in Agent \ {a} : mail'[x] = mail[x]
    BY <1>3 DEF Post, AgentTypeOK
<1>5. QED
    BY <1>4 DEF Posted

LEMMA AloneInMail ==
    ASSUME NEW x \in {"error", "lag"}
    PROVE  Brings(<<x>>, Parting) /\ \A i \in 1 .. Len(<<x>>) : <<x>>[i] # "complete"
<1>1. Len(<<x>>) = 1 /\ <<x>>[1] = x
    OBVIOUS
<1>2. 1 \in 1 .. Len(<<x>>) /\ \A i \in 1 .. Len(<<x>>) : i = 1
    BY <1>1
<1>3. QED
    BY <1>1, <1>2 DEF Brings, Parting

(* What is posted keeps what is known of the mail, when it is what was     *)
(* read or the end, and the end after everything was read.                 *)
LEMMA PostKeeps ==
    ASSUME AgentTypeOK, NEW a \in Agent, AgentInv(a), pipe' \in [Agent -> Nat],
           NEW events \in Seq(Event), Post(a, events), EarSame(a),
           ~Brings(events, {"lag"}), pipe[a] = pipe'[a] + Outs(events), printed'[a] = printed[a],
           \/ child'[a].state = child[a].state /\ readers'[a] = readers[a]
           \/ child[a].state # "ok",
           readers[a] = "done" => ~Brings(events, {"output"}),
           Brings(events, {"complete"}) =>
               child'[a].state = "ok" /\ readers'[a] = "done" /\ ~Brings(events, {"output"}),
           waiter'[a] \in {"told", "done"} => waiter[a] \in {"told", "done"} \/ Brings(events, Parting)
    PROVE  NothingLost(a)' /\ CompleteIsLast(a)' /\ EndIsTold(a)'
<1> DEFINE m == mail[a]
           n == mail'[a]
<1>0. m \in Seq(Event) /\ (Listens(a)' <=> Listens(a)) /\ EarSame(a)
      /\ ear[a].heard \in Nat /\ pipe[a] \in Nat /\ pipe'[a] \in Nat /\ printed[a] \in Nat
      /\ Outs(m) \in Nat /\ Outs(events) \in Nat
    BY OutsNat DEF AgentTypeOK, Ear, Listens, EarSame
<1>1. CASE ~Listens(a)
    BY <1>0, <1>1 DEF NothingLost, CompleteIsLast, EndIsTold, EarSame
<1>2. CASE Listens(a) /\ ear[a].deaf
    <2>1. n = <<"error">>
        BY <1>2, Posting DEF AgentInv, LoopFollows
    <2>3. Brings(n, Parting) /\ \A i \in 1 .. Len(n) : n[i] # "complete"
        BY <2>1, AloneInMail
    <2> HIDE DEF m, n
    <2>4. QED
        BY <1>0, <1>2, <2>3 DEF NothingLost, CompleteIsLast, EndIsTold, n, EarSame
<1>3. CASE n = <<"lag">>
    <2>2. Brings(n, Parting) /\ \A i \in 1 .. Len(n) : n[i] # "complete"
        BY <1>3, AloneInMail
    <2> HIDE DEF m, n
    <2>3. QED
        BY <1>0, <1>3, <2>2 DEF NothingLost, CompleteIsLast, EndIsTold, n, EarSame
<1>4. CASE Listens(a) /\ ~ear[a].deaf /\ m # <<"lag">> /\ n = m \o events
    <2>1. /\ Len(n) = Len(m) + Len(events) /\ Len(m) \in Nat /\ Len(events) \in Nat
          /\ \A i \in 1 .. Len(m) : n[i] = m[i]
          /\ \A i \in 1 .. Len(events) : n[Len(m) + i] = events[i]
          /\ Outs(n) = Outs(m) + Outs(events)
        BY <1>0, <1>4, OutsJoin, LenProperties
    <2>2. \A i \in 1 .. Len(n) :
            \/ i \in 1 .. Len(m) /\ n[i] = m[i]
            \/ i > Len(m) /\ i - Len(m) \in 1 .. Len(events) /\ n[i] = events[i - Len(m)]
        <3> SUFFICES ASSUME NEW i \in 1 .. Len(n), i > Len(m)
                     PROVE  i - Len(m) \in 1 .. Len(events) /\ n[i] = events[i - Len(m)]
            BY <2>1
        <3>1. i - Len(m) \in 1 .. Len(events) /\ Len(m) + (i - Len(m)) = i
            BY <2>1
        <3>2. QED
            BY <2>1, <3>1
    <2> HIDE DEF m, n
    <2>3. ear[a].heard + Outs(m) + pipe[a] = printed[a] /\ ~Brings(m, {"lag"})
        BY <1>4 DEF AgentInv, NothingLost, m
    <2>4. NothingLost(a)'
        <3>1. ~Brings(n, {"lag"})
            BY <2>2, <2>3 DEF Brings
        <3>2. ear[a].heard + Outs(n) + pipe'[a] = printed'[a]
            BY <1>0, <2>1, <2>3
        <3>3. QED
            BY <1>0, <3>1, <3>2 DEF NothingLost, n, EarSame
    <2>5. CompleteIsLast(a)'
        <3>1. ASSUME NEW i \in 1 .. Len(n), n[i] = "complete"
              PROVE  /\ child'[a].state = "ok" /\ readers'[a] = "done"
                     /\ ~Brings(events, {"output"})
                     /\ i \in 1 .. Len(m) =>
                            \A j \in 1 .. Len(m) : i < j => m[j] # "output"
            <4>1. CASE i \in 1 .. Len(m) /\ m[i] = "complete"
                BY <1>4, <4>1 DEF AgentInv, CompleteIsLast, m
            <4>2. CASE i > Len(m) /\ Brings(events, {"complete"})
                BY <2>1, <4>2
            <4>3. QED
                BY <2>2, <3>1, <4>1, <4>2 DEF Brings
        <3>2. \A i, j \in 1 .. Len(n) : n[i] = "complete" /\ i < j => n[j] # "output"
            <4> SUFFICES ASSUME NEW i \in 1 .. Len(n), NEW j \in 1 .. Len(n),
                                n[i] = "complete", i < j
                         PROVE  n[j] # "output"
                OBVIOUS
            <4>1. CASE j \in 1 .. Len(m)
                <5>1. i \in 1 .. Len(m) /\ n[j] = m[j]
                    BY <2>1, <4>1
                <5>2. QED
                    BY <3>1, <4>1, <5>1
            <4>2. CASE j - Len(m) \in 1 .. Len(events) /\ n[j] = events[j - Len(m)]
                BY <3>1, <4>2 DEF Brings
            <4>3. QED
                BY <2>2, <4>1, <4>2
        <3>3. QED
            BY <3>1, <3>2 DEF CompleteIsLast, n
    <2>6. EndIsTold(a)'
        <3>1. Brings(m, Parting) \/ Brings(events, Parting) => Brings(n, Parting)
            <4>1. \A i \in 1 .. Len(m) : i \in 1 .. Len(n)
                BY <2>1
            <4>2. \A i \in 1 .. Len(events) : Len(m) + i \in 1 .. Len(n)
                BY <2>1
            <4>3. QED
                BY <2>1, <4>1, <4>2 DEF Brings
        <3>2. QED
            BY <1>0, <3>1 DEF AgentInv, EndIsTold, m, n, EarSame
    <2>7. QED
        BY <2>4, <2>5, <2>6
<1>5. QED
    BY <1>1, <1>2, <1>3, <1>4, Posting
(* The quiet steps: of the process, of the tasks and of the kill left for  *)
(* later, which the loop does not see.                                     *)
LEMMA QuietKeeps ==
    ASSUME AgentTypeOK, NEW a \in Agent, AgentInv(a), pipe' \in [Agent -> Nat],
           printed' \in [Agent -> Nat], mail'[a] = mail[a], EarSame(a),
           pipe'[a] + printed[a] = pipe[a] + printed'[a],
           child[a].state = "ok" =>
               child'[a].state = "ok" /\ printed'[a] = printed[a] /\ pipe'[a] = pipe[a],
           readers[a] = "done" => readers'[a] = "done",
           waiter'[a] \in {"told", "done"} => waiter[a] \in {"told", "done"},
           waiter[a] = "done" => waiter'[a] = "done"
    PROVE  NothingLost(a)' /\ CompleteIsLast(a)' /\ EndIsTold(a)' /\ Concluded(a)'
<1>0. /\ ear[a].heard \in Nat /\ pipe[a] \in Nat /\ pipe'[a] \in Nat
      /\ printed[a] \in Nat /\ printed'[a] \in Nat /\ Outs(mail[a]) \in Nat
    BY OutsNat DEF AgentTypeOK, Ear
<1>1. NothingLost(a)'
    BY <1>0 DEF AgentInv, NothingLost, Listens, EarSame
<1>2. CompleteIsLast(a)'
    BY DEF AgentInv, CompleteIsLast, Listens, EarSame
<1>3. EndIsTold(a)'
    BY DEF AgentInv, EndIsTold, Listens, EarSame
<1>4. Concluded(a)'
    BY DEF AgentInv, Concluded, EarSame
<1>5. QED
    BY <1>1, <1>2, <1>3, <1>4

LEMMA PrintLineKeeps ==
    ASSUME AgentIInv, NEW a \in Agent, PrintLine(a)
    PROVE  AgentIInv'
<1>0. AgentTypeOK /\ AgentInv(a)
    BY DEF AgentIInv, AgentsInv
<1>1. /\ UNCHANGED <<listed, child, readers, waiter, killer, mail, ear>>
      /\ Runs(a) /\ printed' = [printed EXCEPT ![a] = @ + 1] /\ pipe' = [pipe EXCEPT ![a] = @ + 1]
      /\ printed'[a] = printed[a] + 1 /\ pipe'[a] = pipe[a] + 1 /\ child[a].state # "ok"
      /\ printed[a] \in Nat /\ pipe[a] \in Nat
    BY <1>0, TRUE DEF PrintLine, AgentTypeOK, processVars, adapterVars, Runs
<1>2. AgentTypeOK' /\ TouchesOnly(a)
    BY <1>0, <1>1 DEF AgentTypeOK, TouchesOnly, Untouched, ChildKept, Runs
<1>3. BeforeSend(a)' /\ WaiterKnows(a)' /\ LoopFollows(a)'
    BY <1>0, <1>1 DEF AgentInv, BeforeSend, WaiterKnows, LoopFollows, Runs, Listens, AgentTypeOK
<1>4. NothingLost(a)' /\ CompleteIsLast(a)' /\ EndIsTold(a)' /\ Concluded(a)'
    <2>1. pipe' \in [Agent -> Nat] /\ printed' \in [Agent -> Nat]
        BY <1>2 DEF AgentTypeOK
    <2>2. pipe'[a] + printed[a] = pipe[a] + printed'[a]
        BY <1>1
    <2>3. QED
        BY <1>0, <1>1, <2>1, <2>2, QuietKeeps DEF EarSame
<1>5. QED
    BY <1>1, <1>2, <1>3, <1>4, OneRunKeeps DEF AgentIInv, AgentInv

LEMMA ExitKeeps ==
    ASSUME AgentIInv, NEW a \in Agent, Exit(a)
    PROVE  AgentIInv'
<1>0. AgentTypeOK /\ AgentInv(a)
    BY DEF AgentIInv, AgentsInv
<1>1. /\ UNCHANGED <<listed, printed, pipe, readers, waiter, killer, mail, ear>>
      /\ Runs(a) /\ child' \in [Agent -> Child]
      /\ child'[a].state \in {"ok", "bad"} /\ child'[a].pid = child[a].pid
      /\ \A x \in Agent \ {a} : child'[x] = child[x]
    BY <1>0, ChildState DEF Exit, AgentTypeOK, processVars, adapterVars, Runs
<1>2. AgentTypeOK' /\ TouchesOnly(a)
    BY <1>0, <1>1 DEF AgentTypeOK, TouchesOnly, Untouched, ChildKept, Runs
<1>3. BeforeSend(a)' /\ WaiterKnows(a)' /\ LoopFollows(a)'
    BY <1>0, <1>1 DEF AgentInv, BeforeSend, WaiterKnows, LoopFollows, Runs, Listens, AgentTypeOK
<1>4. NothingLost(a)' /\ CompleteIsLast(a)' /\ EndIsTold(a)' /\ Concluded(a)'
    BY <1>0, <1>1, <1>2, QuietKeeps DEF AgentTypeOK, AgentInv, WaiterKnows, Runs, EarSame
<1>5. QED
    BY <1>1, <1>2, <1>3, <1>4, OneRunKeeps DEF AgentIInv, AgentInv

LEMMA EndReadersKeeps ==
    ASSUME AgentIInv, NEW a \in Agent, EndReaders(a)
    PROVE  AgentIInv'
<1>0. AgentTypeOK /\ AgentInv(a)
    BY DEF AgentIInv, AgentsInv
<1>1. /\ UNCHANGED <<listed, child, printed, pipe, waiter, killer, mail, ear>>
      /\ readers' = [readers EXCEPT ![a] = "done"] /\ ~Runs(a) /\ pipe[a] = 0 /\ readers[a] = "reading"
    BY <1>0, TRUE DEF EndReaders, AgentTypeOK, processVars, adapterVars, Runs
<1>2. AgentTypeOK' /\ TouchesOnly(a)
    BY <1>0, <1>1 DEF AgentTypeOK, TouchesOnly, Untouched, ChildKept, Runs
<1>3. BeforeSend(a)' /\ WaiterKnows(a)' /\ LoopFollows(a)'
    BY <1>0, <1>1 DEF AgentInv, BeforeSend, WaiterKnows, LoopFollows, Runs, Listens, AgentTypeOK
<1>4. NothingLost(a)' /\ CompleteIsLast(a)' /\ EndIsTold(a)' /\ Concluded(a)'
    BY <1>0, <1>1, <1>2, QuietKeeps DEF AgentTypeOK, AgentInv, WaiterKnows, Runs, EarSame
<1>5. QED
    BY <1>1, <1>2, <1>3, <1>4, OneRunKeeps DEF AgentIInv, AgentInv

LEMMA ReapKeeps ==
    ASSUME AgentIInv, NEW a \in Agent, Reap(a)
    PROVE  AgentIInv'
<1>0. AgentTypeOK /\ AgentInv(a)
    BY DEF AgentIInv, AgentsInv
<1>1. /\ UNCHANGED <<listed, printed, pipe, readers, killer, mail, ear>>
      /\ ~Runs(a) /\ child' \in [Agent -> Child]
      /\ child'[a].state = child[a].state /\ child'[a].pid = NoGroup
      /\ \A x \in Agent \ {a} : child'[x] = child[x]
      /\ waiter[a] = "waiting" /\ waiter' = [waiter EXCEPT ![a] = "exited"]
    BY <1>0, ChildPid DEF Reap, AgentTypeOK, processVars, adapterVars, Runs, Pid
<1>2. AgentTypeOK' /\ TouchesOnly(a)
    BY <1>0, <1>1 DEF AgentTypeOK, TouchesOnly, Untouched, ChildKept, Runs
<1>3. BeforeSend(a)' /\ WaiterKnows(a)' /\ LoopFollows(a)'
    BY <1>0, <1>1 DEF AgentInv, BeforeSend, WaiterKnows, LoopFollows, Runs, Listens, AgentTypeOK
<1>4. NothingLost(a)' /\ CompleteIsLast(a)' /\ EndIsTold(a)' /\ Concluded(a)'
    BY <1>0, <1>1, <1>2, QuietKeeps DEF AgentTypeOK, AgentInv, WaiterKnows, Runs, EarSame
<1>5. QED
    BY <1>1, <1>2, <1>3, <1>4, OneRunKeeps DEF AgentIInv, AgentInv

LEMMA ReapOrphanKeeps ==
    ASSUME AgentIInv, NEW a \in Agent, ReapOrphan(a)
    PROVE  AgentIInv'
<1>0. AgentTypeOK /\ AgentInv(a)
    BY DEF AgentIInv, AgentsInv
<1>1. /\ UNCHANGED <<listed, printed, pipe, readers, waiter, killer, mail, ear>>
      /\ child' \in [Agent -> Child] /\ child[a].state \in {"ok", "bad"}
      /\ child'[a].state = child[a].state /\ child'[a].pid = NoGroup
      /\ \A x \in Agent \ {a} : child'[x] = child[x]
      /\ waiter[a] \in {"none", "told", "done"}
    BY <1>0, ChildPid DEF ReapOrphan, AgentTypeOK, processVars, adapterVars, Runs, Pid
<1>2. AgentTypeOK' /\ TouchesOnly(a)
    BY <1>0, <1>1 DEF AgentTypeOK, TouchesOnly, Untouched, ChildKept, Runs
<1>3. BeforeSend(a)' /\ WaiterKnows(a)' /\ LoopFollows(a)'
    BY <1>0, <1>1 DEF AgentInv, BeforeSend, WaiterKnows, LoopFollows, Runs, Listens, AgentTypeOK
<1>4. NothingLost(a)' /\ CompleteIsLast(a)' /\ EndIsTold(a)' /\ Concluded(a)'
    BY <1>0, <1>1, <1>2, QuietKeeps DEF AgentTypeOK, AgentInv, WaiterKnows, Runs, EarSame
<1>5. QED
    BY <1>1, <1>2, <1>3, <1>4, OneRunKeeps DEF AgentIInv, AgentInv

LEMMA UnlistKeeps ==
    ASSUME AgentIInv, NEW a \in Agent, Unlist(a)
    PROVE  AgentIInv'
<1>0. AgentTypeOK /\ AgentInv(a)
    BY DEF AgentIInv, AgentsInv
<1>1. /\ UNCHANGED <<child, printed, pipe, readers, killer, mail, ear>>
      /\ listed' \in [Agent -> Listed]
      /\ listed'[a].chan = listed[a].chan /\ listed'[a].pid = NoGroup
      /\ \A x \in Agent \ {a} : listed'[x] = listed[x]
      /\ waiter[a] = "exited" /\ waiter' = [waiter EXCEPT ![a] = "unlisted"]
    <2>1. listed' = [listed EXCEPT ![a].pid = NoGroup] /\ NoGroup \in Pid
        BY DEF Unlist, Pid
    <2>2. QED
        BY <1>0, <2>1, ListedPid DEF Unlist, processVars
<1>2. AgentTypeOK' /\ TouchesOnly(a)
    BY <1>0, <1>1 DEF AgentTypeOK, TouchesOnly, Untouched, ChildKept, Runs
<1>3. BeforeSend(a)' /\ WaiterKnows(a)' /\ LoopFollows(a)'
    BY <1>0, <1>1 DEF AgentInv, BeforeSend, WaiterKnows, LoopFollows, Runs, Listens, AgentTypeOK
<1>4. NothingLost(a)' /\ CompleteIsLast(a)' /\ EndIsTold(a)' /\ Concluded(a)'
    BY <1>0, <1>1, <1>2, QuietKeeps DEF AgentTypeOK, AgentInv, WaiterKnows, Runs, EarSame
<1>5. QED
    BY <1>1, <1>2, <1>3, <1>4, OneRunKeeps DEF AgentIInv, AgentInv

LEMMA CloseRunKeeps ==
    ASSUME AgentIInv, NEW a \in Agent, CloseRun(a)
    PROVE  AgentIInv'
<1>0. AgentTypeOK /\ AgentInv(a)
    BY DEF AgentIInv, AgentsInv
<1>1. /\ UNCHANGED <<child, printed, pipe, readers, killer, mail, ear>>
      /\ listed' \in [Agent -> Listed]
      /\ listed'[a].chan = "closed" /\ listed'[a].pid = listed[a].pid
      /\ \A x \in Agent \ {a} : listed'[x] = listed[x]
      /\ waiter[a] = "told" /\ waiter' = [waiter EXCEPT ![a] = "done"]
    BY <1>0, ListedChan DEF CloseRun, AgentTypeOK, processVars, adapterVars, Runs
<1>2. AgentTypeOK' /\ TouchesOnly(a)
    BY <1>0, <1>1 DEF AgentTypeOK, TouchesOnly, Untouched, ChildKept, Runs
<1>3. BeforeSend(a)' /\ WaiterKnows(a)' /\ LoopFollows(a)'
    BY <1>0, <1>1 DEF AgentInv, BeforeSend, WaiterKnows, LoopFollows, Runs, Listens, AgentTypeOK
<1>4. NothingLost(a)' /\ CompleteIsLast(a)' /\ EndIsTold(a)' /\ Concluded(a)'
    BY <1>0, <1>1, <1>2, QuietKeeps DEF AgentTypeOK, AgentInv, WaiterKnows, Runs, EarSame
<1>5. QED
    BY <1>1, <1>2, <1>3, <1>4, OneRunKeeps DEF AgentIInv, AgentInv

LEMMA KillLaterKeeps ==
    ASSUME AgentIInv, NEW a \in Agent, KillLater(a)
    PROVE  AgentIInv'
<1>0. AgentTypeOK /\ AgentInv(a) /\ NoGroup \in Pid
    BY DEF AgentIInv, AgentsInv, Pid
<1>1. /\ UNCHANGED <<printed, pipe, readers, waiter, mail, ear>>
      /\ child' \in [Agent -> Child] /\ \A x \in Agent : ChildKept(x)
      /\ killer' = [killer EXCEPT ![a] = NoGroup]
      /\ listed' \in [Agent -> Listed] /\ \A x \in Agent \ {a} : listed'[x] = listed[x]
      /\ listed'[a].chan = listed[a].chan
      /\ \/ listed'[a].pid = listed[a].pid /\ child' = child
         \/ /\ listed'[a].pid = NoGroup
            /\ child[a].pid = killer[a] => child'[a].state # "running"
    <2>1. CASE UNCHANGED <<child, listed>>
        BY <1>0, <2>1 DEF KillLater, AgentTypeOK, ChildKept
    <2>2. CASE child' = Killed(killer[a]) /\ listed' = [listed EXCEPT ![a].pid = NoGroup]
        <3>1. killer[a] \in Pid
            BY <1>0 DEF AgentTypeOK
        <3>2. /\ child' \in [Agent -> Child] /\ \A x \in Agent : ChildKept(x)
              /\ child[a].pid = killer[a] => child'[a].state # "running"
            BY <1>0, <2>2, <3>1, KillEnds
        <3>3. /\ listed' \in [Agent -> Listed] /\ \A x \in Agent \ {a} : listed'[x] = listed[x]
              /\ listed'[a].pid = NoGroup /\ listed'[a].chan = listed[a].chan
            BY <1>0, <2>2, ListedPid
        <3>4. QED
            BY <3>2, <3>3 DEF KillLater
    <2>3. QED
        BY <2>1, <2>2 DEF KillLater
<1>2. AgentTypeOK' /\ TouchesOnly(a)
    BY <1>0, <1>1 DEF AgentTypeOK, TouchesOnly, Untouched
<1>3. BeforeSend(a)' /\ WaiterKnows(a)' /\ LoopFollows(a)'
    <2>1. ChildKept(a) /\ killer[a] # NoGroup
        BY <1>1 DEF KillLater
    <2>2. BeforeSend(a)' /\ LoopFollows(a)'
        BY <1>0, <1>1, <2>1
        DEF AgentInv, BeforeSend, LoopFollows, Runs, Listens, AgentTypeOK, ChildKept
    <2>3. WaiterKnows(a)'
        BY <1>0, <1>1, <2>1 DEF AgentInv, WaiterKnows, Runs, AgentTypeOK, ChildKept
    <2>4. QED
        BY <2>2, <2>3
<1>4. NothingLost(a)' /\ CompleteIsLast(a)' /\ EndIsTold(a)' /\ Concluded(a)'
    <2>1. ChildKept(a)
        BY <1>1
    <2>2. QED
        BY <1>0, <1>1, <1>2, <2>1, QuietKeeps DEF AgentTypeOK, Runs, ChildKept, EarSame
<1>5. QED
    <2>1. child'[a].pid = child[a].pid
        BY <1>1 DEF ChildKept
    <2>2. QED
        BY <1>2, <1>3, <1>4, <2>1, OneRunKeeps DEF AgentInv

(* The steps that post something.                                          *)
LEMMA OneEvent ==
    ASSUME NEW x \in Event
    PROVE  /\ <<x>> \in Seq(Event) /\ \A E : Brings(<<x>>, E) <=> x \in E
           /\ Outs(<<x>>) = IF x = "output" THEN 1 ELSE 0
<1>1. <<x>> \in Seq(Event) /\ Len(<<x>>) = 1 /\ <<x>>[1] = x
    OBVIOUS
<1>2. \A i : i \in 1 .. Len(<<x>>) <=> i = 1
    BY <1>1
<1>3. \A E : Brings(<<x>>, E) <=> x \in E
    BY <1>1, <1>2 DEF Brings
<1>4. Outs(<<x>>) = IF x = "output" THEN 1 ELSE 0
    BY <1>1, <1>3, OutsOne, OutsNone
<1>5. QED
    BY <1>1, <1>3, <1>4

LEMMA TwoEvents ==
    ASSUME NEW x \in Event, NEW y \in Event
    PROVE  /\ <<x, y>> \in Seq(Event) /\ \A E : Brings(<<x, y>>, E) <=> x \in E \/ y \in E
           /\ x # "output" /\ y # "output" => Outs(<<x, y>>) = 0
<1>1. <<x, y>> \in Seq(Event) /\ Len(<<x, y>>) = 2 /\ <<x, y>>[1] = x /\ <<x, y>>[2] = y
    OBVIOUS
<1>2. \A i : i \in 1 .. Len(<<x, y>>) <=> i \in {1, 2}
    BY <1>1
<1>3. \A E : Brings(<<x, y>>, E) <=> x \in E \/ y \in E
    BY <1>1, <1>2 DEF Brings
<1>4. x # "output" /\ y # "output" => Outs(<<x, y>>) = 0
    BY <1>1, <1>3, OutsNone
<1>5. QED
    BY <1>1, <1>3, <1>4

LEMMA SendPromptKeeps ==
    ASSUME AgentIInv, NEW a \in Agent, SendPrompt(a)
    PROVE  AgentIInv'
<1>0. AgentTypeOK /\ AgentInv(a)
    BY DEF AgentIInv, AgentsInv
<1>1. PICK p \in GroupId :
        /\ ~Exists(p) /\ child' = [child EXCEPT ![a] = [state |-> "running", pid |-> p]]
        /\ listed' = [listed EXCEPT ![a].pid = p]
    BY DEF SendPrompt
<1>2. /\ p \in Pid /\ p # NoGroup
      /\ child' \in [Agent -> Child] /\ child'[a].state = "running" /\ child'[a].pid = p
      /\ \A x \in Agent \ {a} : child'[x] = child[x]
    BY <1>0, <1>1, AgentAssumption DEF Pid, Child, AgentTypeOK
<1>3. /\ listed' \in [Agent -> Listed] /\ \A x \in Agent \ {a} : listed'[x] = listed[x]
      /\ listed'[a].pid = p /\ listed'[a].chan = listed[a].chan
    BY <1>0, <1>1, <1>2, ListedPid
<1>4. /\ UNCHANGED <<printed, pipe, killer, ear>> /\ Post(a, <<"status">>)
      /\ listed[a].chan = "open" /\ child[a].state = "none"
      /\ readers' = [readers EXCEPT ![a] = "reading"] /\ waiter' = [waiter EXCEPT ![a] = "waiting"]
    BY DEF SendPrompt, Sendable
<1>5. /\ <<"status">> \in Seq(Event) /\ Outs(<<"status">>) = 0
      /\ ~Brings(<<"status">>, {"lag"}) /\ ~Brings(<<"status">>, {"output"})
      /\ ~Brings(<<"status">>, {"complete"})
    <2>1. "status" \in Event
        BY DEF Event
    <2>2. QED
        BY <2>1, OneEvent
<1>6. mail' \in [Agent -> Seq(Event)] /\ \A x \in Agent \ {a} : mail'[x] = mail[x]
    BY <1>0, <1>4, <1>5, Posting
<1>7. AgentTypeOK' /\ TouchesOnly(a)
    BY <1>0, <1>2, <1>3, <1>4, <1>6 DEF AgentTypeOK, TouchesOnly, Untouched, ChildKept
<1>8. BeforeSend(a)' /\ WaiterKnows(a)' /\ LoopFollows(a)' /\ Concluded(a)'
    <2>1. readers'[a] = "reading" /\ waiter'[a] = "waiting"
        BY <1>0, <1>4 DEF AgentTypeOK
    <2>2. ear[a].at # "off"
        BY <1>0, <1>4 DEF AgentInv, LoopFollows
    <2>3. ear[a].deaf /\ Listens(a) => mail'[a] = <<"error">>
        BY <1>0, <1>4, <1>5, Posting DEF AgentInv, LoopFollows
    <2>4. QED
        BY <1>0, <1>2, <1>3, <1>4, <2>1, <2>2, <2>3
        DEF AgentInv, BeforeSend, WaiterKnows, LoopFollows, Concluded, Runs, Listens
<1>9. NothingLost(a)' /\ CompleteIsLast(a)' /\ EndIsTold(a)'
    <2>1. pipe' \in [Agent -> Nat] /\ pipe[a] = pipe'[a] + 0 /\ waiter'[a] = "waiting"
        BY <1>0, <1>4 DEF AgentTypeOK
    <2>2. QED
        BY <1>0, <1>2, <1>4, <1>5, <2>1, PostKeeps DEF EarSame
<1>10. QED
    <2>1. ~Exists(child'[a].pid)
        BY <1>1, <1>2
    <2>2. QED
        BY <1>7, <1>8, <1>9, <2>1, OneRunKeeps DEF AgentInv

LEMMA ReadLineKeeps ==
    ASSUME AgentIInv, NEW a \in Agent, ReadLine(a)
    PROVE  AgentIInv'
<1>0. AgentTypeOK /\ AgentInv(a)
    BY DEF AgentIInv, AgentsInv
<1>1. /\ UNCHANGED <<child, printed, readers, listed, waiter, killer, ear>>
      /\ Post(a, <<"output">>) /\ readers[a] = "reading"
      /\ pipe' \in [Agent -> Nat] /\ pipe[a] = pipe'[a] + 1
      /\ \A x \in Agent \ {a} : pipe'[x] = pipe[x]
    <2>1. pipe[a] > 0 /\ pipe[a] \in Nat /\ pipe' = [pipe EXCEPT ![a] = @ - 1]
        BY <1>0 DEF ReadLine, AgentTypeOK
    <2>2. pipe[a] - 1 \in Nat
        BY <2>1
    <2>3. pipe' \in [Agent -> Nat] /\ pipe'[a] = pipe[a] - 1
        BY <1>0, <2>1, <2>2 DEF AgentTypeOK
    <2>4. QED
        BY <1>0, <2>1, <2>3 DEF ReadLine, adapterVars, AgentTypeOK
<1>2. /\ <<"output">> \in Seq(Event) /\ Outs(<<"output">>) = 1
      /\ ~Brings(<<"output">>, {"lag"}) /\ ~Brings(<<"output">>, {"complete"})
    <2>1. "output" \in Event
        BY DEF Event
    <2>2. QED
        BY <2>1, OneEvent
<1>3. mail' \in [Agent -> Seq(Event)] /\ \A x \in Agent \ {a} : mail'[x] = mail[x]
    BY <1>0, <1>1, <1>2, Posting
<1>4. AgentTypeOK' /\ TouchesOnly(a)
    BY <1>0, <1>1, <1>3 DEF AgentTypeOK, TouchesOnly, Untouched, ChildKept
<1>5. BeforeSend(a)' /\ WaiterKnows(a)' /\ LoopFollows(a)' /\ Concluded(a)'
    <2>1. ear[a].deaf /\ Listens(a) => mail'[a] = <<"error">>
        BY <1>0, <1>1, <1>2, Posting DEF AgentInv, LoopFollows
    <2>2. child[a].state # "none" /\ pipe[a] # 0
        BY <1>0, <1>1 DEF AgentInv, BeforeSend, AgentTypeOK
    <2>3. QED
        BY <1>0, <1>1, <2>1, <2>2
        DEF AgentInv, BeforeSend, WaiterKnows, LoopFollows, Concluded, Runs, Listens
<1>6. NothingLost(a)' /\ CompleteIsLast(a)' /\ EndIsTold(a)'
    BY <1>0, <1>1, <1>2, PostKeeps DEF EarSame
<1>7. QED
    BY <1>0, <1>1, <1>4, <1>5, <1>6, OneRunKeeps DEF AgentInv

LEMMA FinishRunKeeps ==
    ASSUME AgentIInv, NEW a \in Agent, FinishRun(a)
    PROVE  AgentIInv'
<1>0. AgentTypeOK /\ AgentInv(a)
    BY DEF AgentIInv, AgentsInv
<1> DEFINE word == IF child[a].state = "ok" THEN "complete" ELSE "error"
<1>1. /\ UNCHANGED <<child, printed, pipe, readers, listed, killer, ear>>
      /\ waiter[a] = "unlisted" /\ readers[a] = "done"
      /\ waiter' = [waiter EXCEPT ![a] = "told"] /\ Post(a, <<word, "status">>)
    BY DEF FinishRun, ReadToEnd, processVars
<1>2. /\ <<word, "status">> \in Seq(Event) /\ Outs(<<word, "status">>) = 0
      /\ ~Brings(<<word, "status">>, {"lag"}) /\ ~Brings(<<word, "status">>, {"output"})
      /\ Brings(<<word, "status">>, Parting)
      /\ Brings(<<word, "status">>, {"complete"}) => child[a].state = "ok"
    <2>1. "status" \in Event /\ word \in Event /\ word \in Parting
        BY DEF Event, Parting
    <2>2. QED
        BY <2>1, TwoEvents
<1> HIDE DEF word
<1>3. mail' \in [Agent -> Seq(Event)] /\ \A x \in Agent \ {a} : mail'[x] = mail[x]
    BY <1>0, <1>1, <1>2, Posting
<1>4. AgentTypeOK' /\ TouchesOnly(a)
    BY <1>0, <1>1, <1>3 DEF AgentTypeOK, TouchesOnly, Untouched, ChildKept
<1>5. BeforeSend(a)' /\ WaiterKnows(a)' /\ LoopFollows(a)' /\ Concluded(a)'
    <2>1. ear[a].deaf /\ Listens(a) => mail'[a] = <<"error">>
        BY <1>0, <1>1, <1>2, Posting DEF AgentInv, LoopFollows
    <2>2. waiter'[a] = "told" /\ child[a].state # "none"
        BY <1>0, <1>1 DEF AgentInv, BeforeSend, AgentTypeOK
    <2>3. QED
        BY <1>0, <1>1, <2>1, <2>2
        DEF AgentInv, BeforeSend, WaiterKnows, LoopFollows, Concluded, Runs, Listens
<1>6. NothingLost(a)' /\ CompleteIsLast(a)' /\ EndIsTold(a)'
    <2>1. pipe' \in [Agent -> Nat] /\ pipe[a] = pipe'[a] + 0
        BY <1>0, <1>1 DEF AgentTypeOK
    <2>2. QED
        BY <1>0, <1>1, <1>2, <2>1, PostKeeps DEF EarSame
<1>7. QED
    BY <1>0, <1>1, <1>4, <1>5, <1>6, OneRunKeeps DEF AgentInv

LEMMA TimeOutRunKeeps ==
    ASSUME AgentIInv, NEW a \in Agent, TimeOutRun(a)
    PROVE  AgentIInv'
<1>0. AgentTypeOK /\ AgentInv(a) /\ NoGroup \in Pid
    BY DEF AgentIInv, AgentsInv, Pid
<1>1. /\ UNCHANGED <<printed, pipe, readers, killer, ear>>
      /\ waiter[a] = "waiting" /\ Runs(a) /\ listed[a].pid = child[a].pid
      /\ child[a].pid # NoGroup
      /\ waiter' = [waiter EXCEPT ![a] = "told"] /\ Post(a, <<"timed out", "status">>)
      /\ listed' = [listed EXCEPT ![a].pid = NoGroup] /\ child' = Killed(child[a].pid)
    BY <1>0 DEF TimeOutRun, TimeLimit, AgentInv, WaiterKnows
<1>2. /\ child' \in [Agent -> Child] /\ \A x \in Agent : ChildKept(x)
      /\ child'[a].state # "running"
    <2>1. child[a].pid \in Pid
        BY <1>0 DEF AgentTypeOK, Child
    <2>2. QED
        BY <1>0, <1>1, <2>1, KillEnds
<1>3. /\ listed' \in [Agent -> Listed] /\ \A x \in Agent \ {a} : listed'[x] = listed[x]
      /\ listed'[a].pid = NoGroup /\ listed'[a].chan = listed[a].chan
    BY <1>0, <1>1, ListedPid
<1> DEFINE word == "timed out"
           events == <<word, "status">>
<1>4. /\ events \in Seq(Event) /\ Outs(events) = 0 /\ ~Brings(events, {"lag"})
      /\ ~Brings(events, {"output"}) /\ ~Brings(events, {"complete"}) /\ Brings(events, Parting)
    <2>1. /\ "status" \in Event /\ word \in Event /\ word \in Parting
          /\ word \notin {"lag", "output", "complete"}
        BY DEF Event, Parting
    <2> HIDE DEF word
    <2>2. QED
        BY <2>1, TwoEvents
<1>5. Post(a, events) /\ pipe' = pipe
    BY <1>1
<1> HIDE DEF events
<1>6. mail' \in [Agent -> Seq(Event)] /\ \A x \in Agent \ {a} : mail'[x] = mail[x]
    BY <1>0, <1>4, <1>5, Posting
<1>7. AgentTypeOK' /\ TouchesOnly(a)
    BY <1>0, <1>1, <1>2, <1>3, <1>6 DEF AgentTypeOK, TouchesOnly, Untouched
<1>8. BeforeSend(a)' /\ WaiterKnows(a)' /\ LoopFollows(a)' /\ Concluded(a)'
    <2>1. ear[a].deaf /\ Listens(a) => mail'[a] = <<"error">>
        BY <1>0, <1>4, <1>5, Posting DEF AgentInv, LoopFollows
    <2>2. waiter'[a] = "told" /\ child[a].state = "running" /\ child'[a].state = "bad"
        BY <1>0, <1>1, <1>2 DEF AgentTypeOK, Runs, ChildKept
    <2>3. QED
        BY <1>0, <1>1, <1>2, <1>3, <2>1, <2>2
        DEF AgentInv, BeforeSend, WaiterKnows, LoopFollows, Concluded, Runs, Listens
<1>9. NothingLost(a)' /\ CompleteIsLast(a)' /\ EndIsTold(a)'
    <2>1. pipe' \in [Agent -> Nat] /\ pipe[a] = pipe'[a] + 0
        BY <1>0, <1>5 DEF AgentTypeOK
    <2>2. child[a].state # "ok"
        BY <1>1 DEF Runs
    <2>3. QED
        BY <1>0, <1>1, <1>4, <1>5, <2>1, <2>2, PostKeeps DEF EarSame
<1>10. QED
    <2>1. child'[a].pid = child[a].pid
        BY <1>2 DEF ChildKept
    <2>2. QED
        BY <1>7, <1>8, <1>9, <2>1, OneRunKeeps DEF AgentInv

(* The loop goes on: where it is, whether it is deaf, what it has retried  *)
(* and heard, and why it ended.                                            *)
EarIs(a, at, deaf, tries, got, why) ==
    /\ ear' \in [Agent -> Ear] /\ \A x \in Agent \ {a} : ear'[x] = ear[x]
    /\ ear'[a].at = at /\ (ear'[a].deaf <=> deaf) /\ ear'[a].tries = tries
    /\ ear'[a].heard = got /\ ear'[a].why = why
EarAt == {"off", "listening", "backoff", "ended"}
EarWhy == {"none", "aborted", "error", "complete", "lag", "closed", "stall"}
LEMMA EarMoves ==
    ASSUME AgentTypeOK, NEW a \in Agent, NEW at \in EarAt, NEW why \in EarWhy, NEW n \in Nat
    PROVE  LET e == ear[a]
           IN /\ ear' = [ear EXCEPT ![a].at = at] => EarIs(a, at, e.deaf, e.tries, e.heard, e.why)
              /\ ear' = [ear EXCEPT ![a].at = at, ![a].deaf = TRUE] =>
                    EarIs(a, at, TRUE, e.tries, e.heard, e.why)
              /\ ear' = [ear EXCEPT ![a].at = at, ![a].why = why] =>
                    EarIs(a, at, e.deaf, e.tries, e.heard, why)
              /\ ear' = [ear EXCEPT ![a].at = at, ![a].tries = n] =>
                    EarIs(a, at, e.deaf, n, e.heard, e.why)
              /\ ear' = [ear EXCEPT ![a].heard = n] => EarIs(a, e.at, e.deaf, e.tries, n, e.why)
              /\ ear' = [ear EXCEPT ![a].stalls = n] =>
                    EarIs(a, e.at, e.deaf, e.tries, e.heard, e.why)
<1> DEFINE e == ear[a]
<1>0. e \in Ear /\ ear \in [Agent -> Ear]
    BY DEF AgentTypeOK
<1>1. ASSUME NEW r \in Ear, ear' = [ear EXCEPT ![a] = r]
      PROVE  EarIs(a, r.at, r.deaf, r.tries, r.heard, r.why)
    BY <1>0, <1>1 DEF EarIs
<1>2. ASSUME ear' = [ear EXCEPT ![a].at = at]
      PROVE  EarIs(a, at, e.deaf, e.tries, e.heard, e.why)
    <2> DEFINE r == [e EXCEPT !.at = at]
    <2>1. /\ r \in Ear /\ r.at = at /\ r.deaf = e.deaf /\ r.tries = e.tries
          /\ r.heard = e.heard /\ r.why = e.why
        BY <1>0 DEF Ear, EarAt
    <2>2. ear' = [ear EXCEPT ![a] = r]
        BY <1>2
    <2> HIDE DEF e, r
    <2>3. QED
        BY <1>1, <2>1, <2>2
<1>3. ASSUME ear' = [ear EXCEPT ![a].at = at, ![a].deaf = TRUE]
      PROVE  EarIs(a, at, TRUE, e.tries, e.heard, e.why)
    <2> DEFINE r == [e EXCEPT !.at = at, !.deaf = TRUE]
    <2>1. /\ r \in Ear /\ r.at = at /\ r.deaf = TRUE /\ r.tries = e.tries
          /\ r.heard = e.heard /\ r.why = e.why
        BY <1>0 DEF Ear, EarAt
    <2>2. ear' = [ear EXCEPT ![a] = r]
        BY <1>0, <1>3
    <2> HIDE DEF e, r
    <2>3. QED
        BY <1>1, <2>1, <2>2
<1>4. ASSUME ear' = [ear EXCEPT ![a].at = at, ![a].why = why]
      PROVE  EarIs(a, at, e.deaf, e.tries, e.heard, why)
    <2> DEFINE r == [e EXCEPT !.at = at, !.why = why]
    <2>1. /\ r \in Ear /\ r.at = at /\ r.deaf = e.deaf /\ r.tries = e.tries
          /\ r.heard = e.heard /\ r.why = why
        BY <1>0 DEF Ear, EarAt, EarWhy
    <2>2. ear' = [ear EXCEPT ![a] = r]
        BY <1>0, <1>4
    <2> HIDE DEF e, r
    <2>3. QED
        BY <1>1, <2>1, <2>2
<1>5. ASSUME ear' = [ear EXCEPT ![a].at = at, ![a].tries = n]
      PROVE  EarIs(a, at, e.deaf, n, e.heard, e.why)
    <2> DEFINE r == [e EXCEPT !.at = at, !.tries = n]
    <2>1. /\ r \in Ear /\ r.at = at /\ r.deaf = e.deaf /\ r.tries = n
          /\ r.heard = e.heard /\ r.why = e.why
        BY <1>0 DEF Ear, EarAt
    <2>2. ear' = [ear EXCEPT ![a] = r]
        BY <1>0, <1>5
    <2> HIDE DEF e, r
    <2>3. QED
        BY <1>1, <2>1, <2>2
<1>6. ASSUME ear' = [ear EXCEPT ![a].heard = n]
      PROVE  EarIs(a, e.at, e.deaf, e.tries, n, e.why)
    <2> DEFINE r == [e EXCEPT !.heard = n]
    <2>1. /\ r \in Ear /\ r.at = e.at /\ r.deaf = e.deaf /\ r.tries = e.tries
          /\ r.heard = n /\ r.why = e.why
        BY <1>0 DEF Ear
    <2>2. ear' = [ear EXCEPT ![a] = r]
        BY <1>6
    <2> HIDE DEF e, r
    <2>3. QED
        BY <1>1, <2>1, <2>2
<1>7. ASSUME ear' = [ear EXCEPT ![a].stalls = n]
      PROVE  EarIs(a, e.at, e.deaf, e.tries, e.heard, e.why)
    <2> DEFINE r == [e EXCEPT !.stalls = n]
    <2>1. /\ r \in Ear /\ r.at = e.at /\ r.deaf = e.deaf /\ r.tries = e.tries
          /\ r.heard = e.heard /\ r.why = e.why
        BY <1>0 DEF Ear
    <2>2. ear' = [ear EXCEPT ![a] = r]
        BY <1>7
    <2> HIDE DEF e, r
    <2>3. QED
        BY <1>1, <2>1, <2>2
<1>8. QED
    BY <1>2, <1>3, <1>4, <1>5, <1>6, <1>7

LEMMA EndsLoop ==
    ASSUME AgentTypeOK, NEW a \in Agent, NEW why \in EarWhy, EndLoop(a, why)
    PROVE  EarIs(a, "ended", ear[a].deaf, ear[a].tries, ear[a].heard, why)
<1>1. "ended" \in EarAt /\ ear' = [ear EXCEPT ![a].at = "ended", ![a].why = why]
    BY DEF EndLoop, EarAt
<1>2. QED
    BY <1>1, EarMoves

(* The loop that has ended is told nothing and expects nothing.            *)
LEMMA EndedKeeps ==
    ASSUME NEW a \in Agent, ear'[a].at = "ended"
    PROVE  NothingLost(a)' /\ CompleteIsLast(a)' /\ EndIsTold(a)'
    BY DEF NothingLost, CompleteIsLast, EndIsTold, Listens

LEMMA MailMoves ==
    ASSUME AgentTypeOK, NEW a \in Agent, NEW m \in Seq(Event), mail' = [mail EXCEPT ![a] = m]
    PROVE  /\ mail' \in [Agent -> Seq(Event)] /\ mail'[a] = m
           /\ \A x \in Agent \ {a} : mail'[x] = mail[x]
    BY DEF AgentTypeOK

(* What is left of the mail when its first event is taken.                 *)
LEMMA TailOf ==
    ASSUME NEW m \in Seq(Event), m # <<>>
    PROVE  /\ Head(m) = m[1] /\ 1 \in 1 .. Len(m)
           /\ \A E : ~Brings(m, E) => ~Brings(Tail(m), E)
           /\ \A E : Brings(m, E) /\ Head(m) \notin E => Brings(Tail(m), E)
           /\ \A i \in 1 .. Len(Tail(m)) : Tail(m)[i] = m[i + 1] /\ i + 1 \in 1 .. Len(m)
           /\ \A i, j \in 1 .. Len(Tail(m)) : i < j => i + 1 < j + 1
<1> DEFINE t == Tail(m)
<1>1. Len(t) = Len(m) - 1 /\ Len(m) \in Nat /\ Len(m) > 0 /\ Head(m) = m[1]
    BY HeadTailProperties, EmptySeq, LenProperties
<1>2. \A i \in 1 .. Len(t) : t[i] = m[i + 1] /\ i + 1 \in 1 .. Len(m)
    BY <1>1, OutsTail
<1>3. \A E : ~Brings(m, E) => ~Brings(t, E)
    BY <1>2 DEF Brings
<1>4. ASSUME NEW E, Brings(m, E), Head(m) \notin E
      PROVE  Brings(t, E)
    <2>1. PICK i \in 1 .. Len(m) : m[i] \in E
        BY <1>4 DEF Brings
    <2>2. i # 1 /\ i - 1 \in 1 .. Len(t) /\ (i - 1) + 1 = i
        BY <1>1, <1>4, <2>1
    <2>3. t[i - 1] = m[i]
        BY <1>2, <2>2
    <2>4. QED
        BY <2>1, <2>2, <2>3 DEF Brings
<1>5. \A i, j \in 1 .. Len(t) : i < j => i + 1 < j + 1
    BY <1>1
<1>6. 1 \in 1 .. Len(m)
    BY <1>1
<1>7. QED
    BY <1>1, <1>2, <1>3, <1>4, <1>5, <1>6

LEMMA Carried ==
    \A g, h, x, y \in Nat : \A k \in {0, 1} : g = h + k /\ x = y + k => g + y = h + x
    OBVIOUS

(* What is heard of the mail, and does not end the loop, is accounted for. *)
LEMMA TailKeeps ==
    ASSUME AgentTypeOK, NEW a \in Agent, AgentInv(a), NextMail(a),
           Head(mail[a]) \notin {"complete", "lag", "error"},
           mail'[a] = Tail(mail[a]), Listens(a)', ear'[a].deaf <=> ear[a].deaf,
           NEW k \in {0, 1}, k = 1 <=> Head(mail[a]) = "output",
           ear'[a].heard = ear[a].heard + k,
           Head(mail[a]) \in Parting => ear'[a].tries > 0,
           ear[a].tries > 0 => ear'[a].tries > 0,
           UNCHANGED <<child, readers, pipe, printed, waiter>>
    PROVE  NothingLost(a)' /\ CompleteIsLast(a)' /\ EndIsTold(a)' /\ ~ear[a].deaf
<1> DEFINE m == mail[a]
           t == mail'[a]
<1>0. /\ m \in Seq(Event) /\ m # <<>> /\ Listens(a) /\ t = Tail(m)
      /\ ear[a].heard \in Nat /\ pipe[a] \in Nat /\ printed[a] \in Nat
    BY DEF AgentTypeOK, Ear, NextMail, Listens
<1>1. m \in Seq(Event) /\ Tail(m) \in Seq(Event)
    BY <1>0, OutsTail
<1>2. Outs(m) \in Nat /\ Outs(t) \in Nat
    BY <1>0, <1>1, OutsNat
<1>3. /\ Head(m) = "output" => Outs(m) = Outs(t) + 1
      /\ Head(m) # "output" => Outs(m) = Outs(t) + 0
      /\ Head(m) = m[1] /\ 1 \in 1 .. Len(m)
    BY <1>0, OutsTail, TailOf
<1>4. ~ear[a].deaf /\ m # <<"lag">>
    <2>1. <<"error">>[1] = "error" /\ <<"lag">>[1] = "lag"
        OBVIOUS
    <2>2. m # <<"error">> /\ m # <<"lag">>
        BY <1>3, <2>1
    <2>3. QED
        BY <1>0, <2>2 DEF AgentInv, LoopFollows
<1>5. ear[a].heard + Outs(m) + pipe[a] = printed[a] /\ ~Brings(m, {"lag"})
    BY <1>0, <1>4 DEF AgentInv, NothingLost
<1>6. ear'[a].heard + Outs(t) = ear[a].heard + Outs(m)
    <2>1. Outs(m) = Outs(t) + k
        BY <1>3
    <2>2. ear'[a].heard \in Nat
        BY <1>0
    <2>3. QED
        BY <1>0, <1>2, <2>1, <2>2, Carried
<1>7. NothingLost(a)'
    <2>1. ~Brings(t, {"lag"})
        BY <1>0, <1>5, TailOf
    <2>2. ear'[a].heard + Outs(t) + pipe'[a] = printed'[a]
        BY <1>5, <1>6
    <2> HIDE DEF m
    <2>3. QED
        BY <2>1, <2>2 DEF NothingLost
<1>8. CompleteIsLast(a)'
    <2>1. /\ \A i \in 1 .. Len(t) : t[i] = m[i + 1] /\ i + 1 \in 1 .. Len(m)
          /\ \A i, j \in 1 .. Len(t) : i < j => i + 1 < j + 1
        BY <1>0, TailOf
    <2>2. \A i \in 1 .. Len(m) : m[i] = "complete" =>
            /\ child[a].state = "ok" /\ readers[a] = "done"
            /\ \A j \in 1 .. Len(m) : i < j => m[j] # "output"
        BY <1>0 DEF AgentInv, CompleteIsLast
    <2> HIDE DEF m, t
    <2>3. \A i \in 1 .. Len(t) : t[i] = "complete" =>
            /\ child[a].state = "ok" /\ readers[a] = "done"
            /\ \A j \in 1 .. Len(t) : i < j => t[j] # "output"
        BY <2>1, <2>2
    <2>4. QED
        BY <2>3 DEF CompleteIsLast, t
<1>9. EndIsTold(a)'
    <2>1. Brings(m, Parting) /\ Head(m) \notin Parting => Brings(t, Parting)
        <3>1. Brings(m, Parting) /\ Head(m) \notin Parting => Brings(Tail(m), Parting)
            BY <1>0, <1>1, TailOf
        <3>2. QED
            BY <1>0, <3>1
    <2>2. Head(m) \in Parting => ear'[a].tries > 0
        OBVIOUS
    <2>3. QED
        BY <1>0, <2>1, <2>2 DEF AgentInv, EndIsTold
<1>10. QED
    BY <1>4, <1>7, <1>8, <1>9

(* The steps of the loop.                                                  *)
LEMMA HearLineKeeps ==
    ASSUME AgentIInv, NEW a \in Agent, HearLine(a)
    PROVE  AgentIInv'
<1>0. AgentTypeOK /\ AgentInv(a) /\ mail[a] \in Seq(Event) /\ ear[a].heard \in Nat
    BY DEF AgentIInv, AgentsInv, AgentTypeOK, Ear
<1> DEFINE more == ear[a].heard + (IF Head(mail[a]) = "output" THEN 1 ELSE 0)
<1>1. /\ NextMail(a) /\ Head(mail[a]) \in {"output", "status"}
      /\ ear' = [ear EXCEPT ![a].heard = more]
      /\ mail' = [mail EXCEPT ![a] = Tail(mail[a])]
      /\ UNCHANGED <<child, printed, pipe, readers, listed, waiter, killer>>
    BY DEF HearLine, Take, processVars, adapterVars
<1>2. EarIs(a, ear[a].at, ear[a].deaf, ear[a].tries, more, ear[a].why)
    <2>1. more \in Nat /\ "off" \in EarAt /\ "none" \in EarWhy
        BY <1>0 DEF EarAt, EarWhy
    <2> HIDE DEF more
    <2>2. QED
        BY <1>0, <1>1, <2>1, EarMoves
<1>3. mail' \in [Agent -> Seq(Event)] /\ mail'[a] = Tail(mail[a])
      /\ \A x \in Agent \ {a} : mail'[x] = mail[x]
    BY <1>0, <1>1, MailMoves, OutsTail DEF NextMail
<1>4. AgentTypeOK' /\ TouchesOnly(a)
    BY <1>0, <1>1, <1>2, <1>3 DEF AgentTypeOK, TouchesOnly, Untouched, ChildKept, EarIs
<1>5. NothingLost(a)' /\ CompleteIsLast(a)' /\ EndIsTold(a)' /\ ~ear[a].deaf
    <2> DEFINE k == IF Head(mail[a]) = "output" THEN 1 ELSE 0
    <2>1. k \in {0, 1} /\ (k = 1 <=> Head(mail[a]) = "output") /\ more = ear[a].heard + k
        OBVIOUS
    <2> HIDE DEF k, more
    <2>2. /\ ear'[a].heard = ear[a].heard + k /\ ear'[a].tries = ear[a].tries
          /\ Listens(a)' /\ (ear'[a].deaf <=> ear[a].deaf)
        BY <1>1, <1>2, <2>1 DEF EarIs, Listens, NextMail
    <2>3. QED
        BY <1>0, <1>1, <1>3, <2>1, <2>2, TailKeeps DEF Parting
<1>6. BeforeSend(a)' /\ WaiterKnows(a)' /\ LoopFollows(a)' /\ Concluded(a)'
    BY <1>0, <1>1, <1>2, <1>5
    DEF AgentInv, BeforeSend, WaiterKnows, LoopFollows, Concluded, Runs, Listens, EarIs, NextMail
<1>7. QED
    BY <1>0, <1>1, <1>4, <1>5, <1>6, OneRunKeeps DEF AgentInv

LEMMA HearErrorKeeps ==
    ASSUME AgentIInv, NEW a \in Agent, HearError(a)
    PROVE  AgentIInv'
<1>0. AgentTypeOK /\ AgentInv(a) /\ mail[a] \in Seq(Event) /\ ear[a].tries \in Nat
      /\ ear[a].heard \in Nat
    BY DEF AgentIInv, AgentsInv, AgentTypeOK, Ear
<1>1. /\ NextMail(a) /\ mail' = [mail EXCEPT ![a] = Tail(mail[a])]
      /\ UNCHANGED <<child, printed, pipe, readers, listed, waiter, killer>>
    BY DEF HearError, Take, processVars, adapterVars
<1>2. mail' \in [Agent -> Seq(Event)] /\ mail'[a] = Tail(mail[a])
      /\ \A x \in Agent \ {a} : mail'[x] = mail[x]
    BY <1>0, <1>1, MailMoves, OutsTail DEF NextMail
<1>3. CASE EndLoop(a, "error")
    <2>1. EarIs(a, "ended", ear[a].deaf, ear[a].tries, ear[a].heard, "error")
        BY <1>0, <1>3, EndsLoop DEF EarWhy
    <2>2. AgentTypeOK' /\ TouchesOnly(a)
        BY <1>0, <1>1, <1>2, <2>1 DEF AgentTypeOK, TouchesOnly, Untouched, ChildKept, EarIs
    <2>3. BeforeSend(a)' /\ WaiterKnows(a)' /\ LoopFollows(a)' /\ Concluded(a)'
        BY <1>0, <1>1, <2>1
        DEF AgentInv, BeforeSend, WaiterKnows, LoopFollows, Concluded, Runs, Listens, EarIs,
            NextMail
    <2>4. NothingLost(a)' /\ CompleteIsLast(a)' /\ EndIsTold(a)'
        BY <2>1, EndedKeeps DEF EarIs
    <2>5. QED
        BY <1>0, <1>1, <2>2, <2>3, <2>4, OneRunKeeps DEF AgentInv
<1>4. CASE /\ Head(mail[a]) = "timed out"
           /\ ear' = [ear EXCEPT ![a].at = "backoff", ![a].tries = @ + 1]
    <2> DEFINE more == ear[a].tries + 1
    <2>1. EarIs(a, "backoff", ear[a].deaf, more, ear[a].heard, ear[a].why)
        <3>1. more \in Nat /\ "backoff" \in EarAt /\ "none" \in EarWhy
            BY <1>0 DEF EarAt, EarWhy
        <3>2. ear' = [ear EXCEPT ![a].at = "backoff", ![a].tries = more]
            BY <1>0, <1>4 DEF AgentTypeOK, Ear
        <3> HIDE DEF more
        <3>3. QED
            BY <1>0, <3>1, <3>2, EarMoves
    <2>2. AgentTypeOK' /\ TouchesOnly(a)
        BY <1>0, <1>1, <1>2, <2>1 DEF AgentTypeOK, TouchesOnly, Untouched, ChildKept, EarIs
    <2>3. NothingLost(a)' /\ CompleteIsLast(a)' /\ EndIsTold(a)' /\ ~ear[a].deaf
        <3>1. ear'[a].tries > 0
            BY <1>0, <2>1 DEF EarIs
        <3>2. ear'[a].heard = ear[a].heard + 0 /\ Listens(a)' /\ (ear'[a].deaf <=> ear[a].deaf)
            BY <1>0, <2>1 DEF EarIs, Listens
        <3>3. Head(mail[a]) \notin {"complete", "lag", "error", "output"}
            BY <1>4
        <3>4. 0 \in {0, 1} /\ (0 = 1 <=> Head(mail[a]) = "output")
            BY <3>3
        <3>5. QED
            BY <1>0, <1>1, <1>2, <3>1, <3>2, <3>3, <3>4, TailKeeps
    <2>4. BeforeSend(a)' /\ WaiterKnows(a)' /\ LoopFollows(a)' /\ Concluded(a)'
        BY <1>0, <1>1, <2>1, <2>3
        DEF AgentInv, BeforeSend, WaiterKnows, LoopFollows, Concluded, Runs, Listens, EarIs,
            NextMail
    <2>5. QED
        BY <1>0, <1>1, <2>2, <2>3, <2>4, OneRunKeeps DEF AgentInv
<1>5. QED
    BY <1>3, <1>4 DEF HearError

LEMMA BackOffKeeps ==
    ASSUME AgentIInv, NEW a \in Agent, BackOff(a)
    PROVE  AgentIInv'
<1>0. AgentTypeOK /\ AgentInv(a)
    BY DEF AgentIInv, AgentsInv
<1>1. /\ UNCHANGED <<child, printed, pipe, readers, listed, waiter, killer, mail>>
      /\ ear[a].at = "backoff" /\ ear' = [ear EXCEPT ![a].at = "listening"]
    BY DEF BackOff, processVars, adapterVars
<1>2. EarIs(a, "listening", ear[a].deaf, ear[a].tries, ear[a].heard, ear[a].why)
    <2>1. 0 \in Nat /\ "listening" \in EarAt /\ "none" \in EarWhy
        BY DEF EarAt, EarWhy
    <2>2. QED
        BY <1>0, <1>1, <2>1, EarMoves
<1>3. AgentTypeOK' /\ TouchesOnly(a)
    BY <1>0, <1>1, <1>2 DEF AgentTypeOK, TouchesOnly, Untouched, ChildKept, EarIs
<1>4. BeforeSend(a)' /\ WaiterKnows(a)' /\ LoopFollows(a)' /\ Concluded(a)'
    BY <1>0, <1>1, <1>2
    DEF AgentInv, BeforeSend, WaiterKnows, LoopFollows, Concluded, Runs, Listens, EarIs
<1>5. NothingLost(a)' /\ CompleteIsLast(a)' /\ EndIsTold(a)'
    BY <1>0, <1>1, <1>2 DEF AgentInv, NothingLost, CompleteIsLast, EndIsTold, Listens, EarIs
<1>6. QED
    BY <1>0, <1>1, <1>3, <1>4, <1>5, OneRunKeeps DEF AgentInv

LEMMA HearEndKeeps ==
    ASSUME AgentIInv, NEW a \in Agent, HearEnd(a)
    PROVE  AgentIInv'
<1> DEFINE m == mail[a]
<1>0. AgentTypeOK /\ AgentInv(a) /\ m \in Seq(Event) /\ ear[a].heard \in Nat /\ pipe[a] \in Nat
    BY DEF AgentIInv, AgentsInv, AgentTypeOK, Ear
<1>1. /\ NextMail(a) /\ Head(m) \in {"complete", "lag"} /\ EndLoop(a, Head(m))
      /\ mail' = [mail EXCEPT ![a] = <<>>]
      /\ UNCHANGED <<child, printed, pipe, readers, listed, waiter, killer>>
    BY DEF HearEnd, processVars, adapterVars
<1>2. EarIs(a, "ended", ear[a].deaf, ear[a].tries, ear[a].heard, Head(m))
    BY <1>0, <1>1, EndsLoop DEF EarWhy
<1>3. mail' \in [Agent -> Seq(Event)] /\ \A x \in Agent \ {a} : mail'[x] = mail[x]
    <2>1. <<>> \in Seq(Event)
        OBVIOUS
    <2>2. QED
        BY <1>0, <1>1, <2>1, MailMoves
<1>4. AgentTypeOK' /\ TouchesOnly(a)
    BY <1>0, <1>1, <1>2, <1>3 DEF AgentTypeOK, TouchesOnly, Untouched, ChildKept, EarIs
<1>5. NothingLost(a)' /\ CompleteIsLast(a)' /\ EndIsTold(a)'
    BY <1>2, EndedKeeps DEF EarIs
<1>6. ASSUME Head(m) = "complete"
      PROVE  child[a].state = "ok" /\ ear[a].heard = printed[a] /\ pipe[a] = 0
    <2>1. /\ 1 \in 1 .. Len(m) /\ m[1] = "complete" /\ Listens(a)
          /\ \A i \in 1 .. Len(m) : i = 1 \/ 1 < i
        BY <1>0, <1>1, <1>6, HeadTailProperties, EmptySeq, LenProperties DEF NextMail, Listens
    <2>2. /\ child[a].state = "ok" /\ readers[a] = "done"
          /\ \A j \in 1 .. Len(m) : 1 < j => m[j] # "output"
        BY <1>0, <2>1 DEF AgentInv, CompleteIsLast
    <2>3. Outs(m) = 0
        BY <1>0, <2>1, <2>2, OutsNone DEF Brings
    <2>4. ~ear[a].deaf /\ m # <<"lag">>
        <3>1. <<"error">>[1] = "error" /\ <<"lag">>[1] = "lag"
            OBVIOUS
        <3>2. QED
            BY <1>0, <2>1, <3>1 DEF AgentInv, LoopFollows
    <2>5. pipe[a] = 0
        BY <1>0, <2>2 DEF AgentInv, WaiterKnows
    <2>6. ear[a].heard + 0 + 0 = printed[a]
        BY <1>0, <2>1, <2>3, <2>4, <2>5 DEF AgentInv, NothingLost
    <2>7. QED
        BY <1>0, <2>2, <2>5, <2>6
<1> HIDE DEF m
<1>7. BeforeSend(a)' /\ WaiterKnows(a)' /\ LoopFollows(a)' /\ Concluded(a)'
    BY <1>0, <1>1, <1>2, <1>6
    DEF AgentInv, BeforeSend, WaiterKnows, LoopFollows, Concluded, Runs, Listens, EarIs, NextMail
<1>8. QED
    BY <1>0, <1>1, <1>4, <1>5, <1>7, OneRunKeeps DEF AgentInv

LEMMA HearNothingKeeps ==
    ASSUME AgentIInv, NEW a \in Agent, HearNothing(a)
    PROVE  AgentIInv'
<1>0. AgentTypeOK /\ AgentInv(a)
    BY DEF AgentIInv, AgentsInv
<1>1. /\ UNCHANGED <<child, printed, pipe, readers, listed, waiter, killer, mail>>
      /\ ear[a].at = "listening" /\ mail[a] = <<>> /\ waiter[a] = "done" /\ EndLoop(a, "closed")
    BY DEF HearNothing, processVars, adapterVars
<1>2. EarIs(a, "ended", ear[a].deaf, ear[a].tries, ear[a].heard, "closed")
    BY <1>0, <1>1, EndsLoop DEF EarWhy
<1>3. AgentTypeOK' /\ TouchesOnly(a)
    BY <1>0, <1>1, <1>2 DEF AgentTypeOK, TouchesOnly, Untouched, ChildKept, EarIs
<1>4. NothingLost(a)' /\ CompleteIsLast(a)' /\ EndIsTold(a)'
    BY <1>2, EndedKeeps DEF EarIs
<1>5. ear[a].tries > 0
    <2>1. ~Brings(<<>>, Parting)
        BY DEF Brings
    <2>2. QED
        BY <1>0, <1>1, <2>1 DEF AgentInv, EndIsTold, Listens
<1>6. BeforeSend(a)' /\ WaiterKnows(a)' /\ LoopFollows(a)' /\ Concluded(a)'
    BY <1>0, <1>1, <1>2, <1>5
    DEF AgentInv, BeforeSend, WaiterKnows, LoopFollows, Concluded, Runs, Listens, EarIs
<1>7. QED
    BY <1>0, <1>1, <1>3, <1>4, <1>6, OneRunKeeps DEF AgentInv

LEMMA StallsKeeps ==
    ASSUME AgentIInv, NEW a \in Agent, Stalls(a)
    PROVE  AgentIInv'
<1>0. AgentTypeOK /\ AgentInv(a) /\ ear[a].stalls \in Nat
    BY DEF AgentIInv, AgentsInv, AgentTypeOK, Ear
<1>1. /\ UNCHANGED <<printed, pipe, readers, listed, waiter, killer>>
      /\ ear[a].at = "listening" /\ mail[a] = <<>>
    BY DEF Stalls, adapterVars
<1>2. CASE EndLoop(a, "stall") /\ UNCHANGED <<child, mail>>
    <2>1. EarIs(a, "ended", ear[a].deaf, ear[a].tries, ear[a].heard, "stall")
        BY <1>0, <1>2, EndsLoop DEF EarWhy
    <2>2. AgentTypeOK' /\ TouchesOnly(a)
        BY <1>0, <1>1, <1>2, <2>1 DEF AgentTypeOK, TouchesOnly, Untouched, ChildKept, EarIs
    <2>3. BeforeSend(a)' /\ WaiterKnows(a)' /\ LoopFollows(a)' /\ Concluded(a)'
        BY <1>0, <1>1, <1>2, <2>1
        DEF AgentInv, BeforeSend, WaiterKnows, LoopFollows, Concluded, Runs, Listens, EarIs
    <2>4. NothingLost(a)' /\ CompleteIsLast(a)' /\ EndIsTold(a)'
        BY <2>1, EndedKeeps DEF EarIs
    <2>5. QED
        BY <1>0, <1>2, <2>2, <2>3, <2>4, OneRunKeeps DEF AgentInv
<1>3. CASE /\ ear' = [ear EXCEPT ![a].stalls = @ + 1]
           /\ child' \in {child, Killed(listed[a].pid)}
           /\ Post(a, <<"status">>) \/ UNCHANGED mail
    <2>1. EarIs(a, ear[a].at, ear[a].deaf, ear[a].tries, ear[a].heard, ear[a].why)
        <3> DEFINE more == ear[a].stalls + 1
        <3>1. more \in Nat /\ "off" \in EarAt /\ "none" \in EarWhy
            BY <1>0 DEF EarAt, EarWhy
        <3>2. ear' = [ear EXCEPT ![a].stalls = more]
            BY <1>3
        <3> HIDE DEF more
        <3>3. QED
            BY <1>0, <3>1, <3>2, EarMoves
    <2>2. child' \in [Agent -> Child] /\ \A x \in Agent : ChildKept(x)
        <3>1. listed[a].pid \in Pid
            BY <1>0 DEF AgentTypeOK, Listed
        <3>2. CASE child' = child
            BY <1>0, <3>2 DEF AgentTypeOK, ChildKept
        <3>3. CASE child' = Killed(listed[a].pid)
            BY <1>0, <3>1, <3>3, KillEnds
        <3>4. QED
            BY <1>3, <3>2, <3>3
    <2>3. /\ <<"status">> \in Seq(Event) /\ Outs(<<"status">>) = 0
          /\ ~Brings(<<"status">>, {"lag"}) /\ ~Brings(<<"status">>, {"output"})
          /\ ~Brings(<<"status">>, {"complete"})
        <3>1. "status" \in Event
            BY DEF Event
        <3>2. QED
            BY <3>1, OneEvent
    <2>4. mail' \in [Agent -> Seq(Event)] /\ \A x \in Agent \ {a} : mail'[x] = mail[x]
        BY <1>0, <1>3, <2>3, Posting DEF AgentTypeOK
    <2>5. AgentTypeOK' /\ TouchesOnly(a)
        BY <1>0, <1>1, <2>1, <2>2, <2>4 DEF AgentTypeOK, TouchesOnly, Untouched, EarIs
    <2>6. ~ear[a].deaf
        BY <1>0, <1>1 DEF AgentInv, LoopFollows, Listens
    <2>7. ChildKept(a) /\ EarSame(a) /\ pipe' \in [Agent -> Nat] /\ printed' \in [Agent -> Nat]
          /\ pipe[a] = pipe'[a] + 0 /\ pipe'[a] + printed[a] = pipe[a] + printed'[a]
        BY <1>0, <1>1, <2>1, <2>2 DEF EarSame, EarIs, AgentTypeOK
    <2>8. BeforeSend(a)' /\ WaiterKnows(a)' /\ LoopFollows(a)' /\ Concluded(a)'
        BY <1>0, <1>1, <2>6, <2>7
        DEF AgentInv, BeforeSend, WaiterKnows, LoopFollows, Concluded, Runs, Listens, EarSame,
            ChildKept
    <2>9. NothingLost(a)' /\ CompleteIsLast(a)' /\ EndIsTold(a)'
        <3>1. /\ child[a].state = "ok" => child'[a].state = "ok"
              /\ child'[a].state = child[a].state \/ child[a].state # "ok"
            BY <2>7 DEF ChildKept, Runs
        <3>2. CASE Post(a, <<"status">>)
            BY <1>0, <1>1, <2>3, <2>7, <3>1, <3>2, PostKeeps
        <3>3. CASE UNCHANGED mail
            BY <1>0, <1>1, <2>7, <3>1, <3>3, QuietKeeps
        <3>4. QED
            BY <1>3, <3>2, <3>3
    <2>10. QED
        BY <1>0, <2>5, <2>7, <2>8, <2>9, OneRunKeeps DEF AgentInv, ChildKept
<1>4. QED
    BY <1>2, <1>3 DEF Stalls

(* The runner's steps: it opens the handle, fails to send, or stops.       *)
LEMMA SpawnHandleKeeps ==
    ASSUME AgentIInv, NEW a \in Agent, SpawnHandle(a)
    PROVE  AgentIInv'
<1>0. AgentTypeOK /\ AgentInv(a)
    BY DEF AgentIInv, AgentsInv
<1>1. /\ UNCHANGED <<child, printed, pipe, readers, waiter, killer>> /\ listed[a].chan = "none"
      /\ listed' = [listed EXCEPT ![a].chan = "open"]
      /\ ear[a].at = "off" /\ child[a].state = "none" /\ ear[a].heard = 0 /\ ~ear[a].deaf
      /\ mail[a] = <<>> /\ ear[a].why = "none" /\ waiter[a] = "none"
      /\ printed[a] = 0 /\ pipe[a] = 0
    BY <1>0 DEF SpawnHandle, processVars, AgentInv, LoopFollows, BeforeSend
<1>2. /\ listed' \in [Agent -> Listed] /\ \A x \in Agent \ {a} : listed'[x] = listed[x]
      /\ listed'[a].chan = "open" /\ listed'[a].pid = listed[a].pid
    BY <1>0, <1>1, ListedChan
<1>3. CASE ear' = [ear EXCEPT ![a].at = "listening"] /\ UNCHANGED mail
    <2>1. EarIs(a, "listening", ear[a].deaf, ear[a].tries, ear[a].heard, ear[a].why)
        <3>1. 0 \in Nat /\ "listening" \in EarAt /\ "none" \in EarWhy
            BY DEF EarAt, EarWhy
        <3>2. QED
            BY <1>0, <1>3, <3>1, EarMoves
    <2>2. AgentTypeOK' /\ TouchesOnly(a)
        BY <1>0, <1>1, <1>2, <1>3, <2>1
        DEF AgentTypeOK, TouchesOnly, Untouched, ChildKept, EarIs
    <2>3. BeforeSend(a)' /\ WaiterKnows(a)' /\ LoopFollows(a)' /\ Concluded(a)'
        BY <1>0, <1>1, <1>2, <1>3, <2>1
        DEF AgentInv, BeforeSend, WaiterKnows, LoopFollows, Concluded, Runs, Listens, EarIs
    <2>4. NothingLost(a)' /\ CompleteIsLast(a)' /\ EndIsTold(a)'
        <3>1. ~Brings(<<>>, {"lag"}) /\ ~Brings(<<>>, {"output"}) /\ \A i \in 1 .. Len(<<>>) : FALSE
            BY DEF Brings
        <3>2. <<>> \in Seq(Event)
            OBVIOUS
        <3>3. Outs(<<>>) = 0
            BY <3>1, <3>2, OutsNone
        <3>4. 0 + 0 + 0 = 0
            OBVIOUS
        <3>5. QED
            BY <3>3, <3>4, <1>1, <1>3, <2>1, <3>1 DEF NothingLost, CompleteIsLast, EndIsTold, EarIs
    <2>5. QED
        BY <1>0, <1>1, <2>2, <2>3, <2>4, OneRunKeeps DEF AgentInv
<1>4. CASE /\ ear' = [ear EXCEPT ![a].at = "listening", ![a].deaf = TRUE]
           /\ mail' = [mail EXCEPT ![a] = <<"error">>]
    <2>1. EarIs(a, "listening", TRUE, ear[a].tries, ear[a].heard, ear[a].why)
        <3>1. 0 \in Nat /\ "listening" \in EarAt /\ "none" \in EarWhy
            BY DEF EarAt, EarWhy
        <3>2. QED
            BY <1>0, <1>4, <3>1, EarMoves
    <2>2. mail' \in [Agent -> Seq(Event)] /\ mail'[a] = <<"error">>
          /\ \A x \in Agent \ {a} : mail'[x] = mail[x]
        <3>1. "error" \in Event
            BY DEF Event
        <3>2. <<"error">> \in Seq(Event)
            BY <3>1
        <3>3. QED
            BY <1>0, <1>4, <3>2, MailMoves
    <2>3. AgentTypeOK' /\ TouchesOnly(a)
        BY <1>0, <1>1, <1>2, <2>1, <2>2
        DEF AgentTypeOK, TouchesOnly, Untouched, ChildKept, EarIs
    <2>4. BeforeSend(a)' /\ WaiterKnows(a)' /\ LoopFollows(a)' /\ Concluded(a)'
        BY <1>0, <1>1, <1>2, <2>1, <2>2
        DEF AgentInv, BeforeSend, WaiterKnows, LoopFollows, Concluded, Runs, Listens, EarIs
    <2>5. NothingLost(a)' /\ CompleteIsLast(a)' /\ EndIsTold(a)'
        BY <1>1, <2>1, <2>2, AloneInMail DEF NothingLost, CompleteIsLast, EndIsTold, EarIs
    <2>6. QED
        BY <1>0, <1>1, <2>3, <2>4, <2>5, OneRunKeeps DEF AgentInv
<1>5. QED
    BY <1>3, <1>4 DEF SpawnHandle

LEMMA FailPromptKeeps ==
    ASSUME AgentIInv, NEW a \in Agent, FailPrompt(a)
    PROVE  AgentIInv'
<1>0. AgentTypeOK /\ AgentInv(a)
    BY DEF AgentIInv, AgentsInv
<1>1. /\ UNCHANGED <<printed, pipe, readers, waiter, killer>>
      /\ listed[a].chan = "open" /\ child[a].state = "none"
      /\ EndLoop(a, "aborted") /\ mail' = [mail EXCEPT ![a] = <<>>]
    BY DEF FailPrompt, Sendable
<1>2. EarIs(a, "ended", ear[a].deaf, ear[a].tries, ear[a].heard, "aborted")
    BY <1>0, <1>1, EndsLoop DEF EarWhy
<1>3. mail' \in [Agent -> Seq(Event)] /\ \A x \in Agent \ {a} : mail'[x] = mail[x]
    <2>1. <<>> \in Seq(Event)
        OBVIOUS
    <2>2. QED
        BY <1>0, <1>1, <2>1, MailMoves
<1>4. NothingLost(a)' /\ CompleteIsLast(a)' /\ EndIsTold(a)'
    BY <1>2, EndedKeeps DEF EarIs
<1>5. CASE UNCHANGED <<child, listed>>
    <2>1. AgentTypeOK' /\ TouchesOnly(a)
        BY <1>0, <1>1, <1>2, <1>3, <1>5
        DEF AgentTypeOK, TouchesOnly, Untouched, ChildKept, EarIs
    <2>2. BeforeSend(a)' /\ WaiterKnows(a)' /\ LoopFollows(a)' /\ Concluded(a)'
        BY <1>0, <1>1, <1>2, <1>5
        DEF AgentInv, BeforeSend, WaiterKnows, LoopFollows, Concluded, Runs, Listens, EarIs
    <2>3. QED
        BY <1>0, <1>4, <1>5, <2>1, <2>2, OneRunKeeps DEF AgentInv
<1>6. ASSUME NEW p \in GroupId, ~Exists(p), listed' = [listed EXCEPT ![a].pid = p],
             child' = [child EXCEPT ![a] = [state |-> "running", pid |-> p]]
      PROVE  AgentIInv'
    <2>1. /\ p \in Pid /\ p # NoGroup
          /\ child' \in [Agent -> Child] /\ child'[a].state = "running" /\ child'[a].pid = p
          /\ \A x \in Agent \ {a} : child'[x] = child[x]
        BY <1>0, <1>6, AgentAssumption DEF Pid, Child, AgentTypeOK
    <2>2. /\ listed' \in [Agent -> Listed] /\ \A x \in Agent \ {a} : listed'[x] = listed[x]
          /\ listed'[a].pid = p /\ listed'[a].chan = listed[a].chan
        BY <1>0, <1>6, <2>1, ListedPid
    <2>3. AgentTypeOK' /\ TouchesOnly(a)
        BY <1>0, <1>1, <1>2, <1>3, <2>1, <2>2
        DEF AgentTypeOK, TouchesOnly, Untouched, ChildKept, EarIs
    <2>4. BeforeSend(a)' /\ WaiterKnows(a)' /\ LoopFollows(a)' /\ Concluded(a)'
        BY <1>0, <1>1, <1>2, <2>1, <2>2
        DEF AgentInv, BeforeSend, WaiterKnows, LoopFollows, Concluded, Runs, Listens, EarIs
    <2>5. ~Exists(child'[a].pid)
        BY <1>6, <2>1
    <2>6. QED
        BY <1>4, <2>3, <2>4, <2>5, OneRunKeeps DEF AgentInv
<1>7. QED
    BY <1>5, <1>6 DEF FailPrompt

LEMMA StopRunKeeps ==
    ASSUME AgentIInv, NEW a \in Agent, StopRun(a)
    PROVE  AgentIInv'
<1>0. AgentTypeOK /\ AgentInv(a) /\ listed[a].pid \in Pid
    BY DEF AgentIInv, AgentsInv, AgentTypeOK, Listed
<1>1. /\ UNCHANGED <<printed, pipe, readers, listed, waiter>> /\ Listens(a)
      /\ killer[a] = NoGroup /\ EndLoop(a, "aborted") /\ mail' = [mail EXCEPT ![a] = <<>>]
    BY DEF StopRun
<1>2. EarIs(a, "ended", ear[a].deaf, ear[a].tries, ear[a].heard, "aborted")
    BY <1>0, <1>1, EndsLoop DEF EarWhy
<1>3. mail' \in [Agent -> Seq(Event)] /\ \A x \in Agent \ {a} : mail'[x] = mail[x]
    <2>1. <<>> \in Seq(Event)
        OBVIOUS
    <2>2. QED
        BY <1>0, <1>1, <2>1, MailMoves
<1>4. NothingLost(a)' /\ CompleteIsLast(a)' /\ EndIsTold(a)'
    BY <1>2, EndedKeeps DEF EarIs
<1>5. /\ child' \in [Agent -> Child] /\ \A x \in Agent : ChildKept(x)
      /\ killer' \in [Agent -> Pid] /\ \A x \in Agent \ {a} : killer'[x] = killer[x]
      /\ killer'[a] = listed[a].pid
    <2>1. CASE listed[a].pid = NoGroup /\ UNCHANGED <<child, killer>>
        BY <1>0, <1>1, <2>1 DEF AgentTypeOK, ChildKept
    <2>2. CASE /\ child' \in {child, Killed(listed[a].pid)}
               /\ killer' = [killer EXCEPT ![a] = listed[a].pid]
        <3>1. CASE child' = child
            BY <1>0, <2>2, <3>1 DEF AgentTypeOK, ChildKept
        <3>2. CASE child' = Killed(listed[a].pid)
            <4>1. child' \in [Agent -> Child] /\ \A x \in Agent : ChildKept(x)
                BY <1>0, <3>2, KillEnds
            <4>2. killer' = [killer EXCEPT ![a] = listed[a].pid]
                BY <2>2
            <4>3. QED
                BY <1>0, <4>1, <4>2 DEF AgentTypeOK
        <3>3. QED
            BY <2>2, <3>1, <3>2
    <2>3. QED
        BY <2>1, <2>2 DEF StopRun
<1>6. AgentTypeOK' /\ TouchesOnly(a)
    BY <1>0, <1>1, <1>2, <1>3, <1>5 DEF AgentTypeOK, TouchesOnly, Untouched, EarIs
<1>7. ChildKept(a)
    BY <1>5
<1>8. BeforeSend(a)' /\ WaiterKnows(a)' /\ LoopFollows(a)' /\ Concluded(a)'
    BY <1>0, <1>1, <1>2, <1>5, <1>7
    DEF AgentInv, BeforeSend, WaiterKnows, LoopFollows, Concluded, Runs, Listens, EarIs, ChildKept
<1>9. QED
    BY <1>0, <1>4, <1>6, <1>7, <1>8, OneRunKeeps DEF AgentInv, ChildKept

(* A run whose end was announced as complete has printed its last line and *)
(* was heard to it; interrupt, stop and the time limit reach the process   *)
(* that is waited for; the channel closes on no loop that was told         *)
(* nothing; and the adapter's maps are empty after the run.  For every     *)
(* number of agents, lines and process ids, whichever are used again.      *)
THEOREM RunsKept == AgentSpec => []RunsAccounted
<1>1. AgentInit => AgentIInv
    <2> SUFFICES ASSUME AgentInit PROVE AgentIInv
        OBVIOUS
    <2>1. AgentTypeOK
        BY DEF AgentInit, AgentTypeOK, Listed, Child, Ear, NewEar, Pid
    <2>2. PidsApart
        BY DEF AgentInit, PidsApart
    <2>3. ASSUME NEW a \in Agent
          PROVE  AgentInv(a)
        <3>1. /\ listed[a].chan = "none" /\ listed[a].pid = NoGroup
              /\ child[a].state = "none" /\ child[a].pid = NoGroup
              /\ printed[a] = 0 /\ pipe[a] = 0 /\ readers[a] = "none" /\ waiter[a] = "none"
              /\ killer[a] = NoGroup /\ mail[a] = <<>>
              /\ ear[a].at = "off" /\ ~ear[a].deaf /\ ear[a].heard = 0 /\ ear[a].why = "none"
            BY DEF AgentInit, NewEar
        <3>2. QED
            BY <3>1 DEF AgentInv, BeforeSend, WaiterKnows, LoopFollows, NothingLost,
                        CompleteIsLast, EndIsTold, Concluded, Runs, Listens
    <2>4. QED
        BY <2>1, <2>2, <2>3 DEF AgentIInv, AgentsInv
<1>2. AgentIInv /\ AgentNext => AgentIInv'
    BY SpawnHandleKeeps, SendPromptKeeps, FailPromptKeeps, PrintLineKeeps, ExitKeeps,
       ReadLineKeeps, EndReadersKeeps, ReapKeeps, ReapOrphanKeeps, UnlistKeeps, FinishRunKeeps,
       TimeOutRunKeeps, CloseRunKeeps, StopRunKeeps, KillLaterKeeps, HearLineKeeps,
       HearErrorKeeps, BackOffKeeps, HearEndKeeps, HearNothingKeeps, StallsKeeps DEF AgentNext
<1>3. AgentIInv /\ UNCHANGED agentVars => AgentIInv'
    <2> SUFFICES ASSUME AgentIInv, UNCHANGED agentVars PROVE AgentIInv'
        OBVIOUS
    <2>1. UNCHANGED <<listed, child, printed, pipe, readers, waiter, killer, mail, ear>>
        BY DEF agentVars, processVars, adapterVars
    <2>2. AgentTypeOK' /\ PidsApart' /\ \A a \in Agent : Untouched(a)
        BY <2>1 DEF AgentIInv, AgentTypeOK, PidsApart, Untouched, ChildKept
    <2>3. QED
        BY <2>2, UntouchedKeeps DEF AgentIInv, AgentsInv
<1>4. AgentIInv => RunsAccounted
    <2> SUFFICES ASSUME AgentIInv, NEW a \in Agent
                 PROVE  /\ ear[a].why = "complete" =>
                            child[a].state = "ok" /\ ear[a].heard = printed[a] /\ pipe[a] = 0
                        /\ waiter[a] = "waiting" /\ Runs(a) =>
                            listed[a].pid = child[a].pid /\ child[a].pid # NoGroup
                        /\ ear[a].why = "closed" => ear[a].tries > 0
                        /\ waiter[a] = "done" => listed[a] = [chan |-> "closed", pid |-> NoGroup]
        BY DEF RunsAccounted, CompleteIsAll, ReachesOwn, ClosedAfterError, MapsEmptied
    <2>1. AgentInv(a) /\ listed[a] \in Listed
        BY DEF AgentIInv, AgentsInv, AgentTypeOK
    <2>2. waiter[a] = "done" => listed[a] = [chan |-> "closed", pid |-> NoGroup]
        BY <2>1 DEF AgentInv, WaiterKnows, Listed
    <2>3. QED
        BY <2>1, <2>2 DEF AgentInv, WaiterKnows, Concluded
<1>5. QED
    BY <1>1, <1>2, <1>3, <1>4, PTL DEF AgentSpec

-----------------------------------------------------------------------------
(***************************************************************************)
(* CodexServer.                                                            *)
(***************************************************************************)

(* The fields of CodexServer.                                              *)
CallAt == {"idle", "queued", "calling", "answered", "expired", "over", "failed"}
CallState == [at : CallAt, id : Nat, result : Who \cup {Nobody_}]
Line == Nat \X (Who \cup {Nobody_})
ServerTypeOK ==
    /\ linked \subseteq Server /\ costs \subseteq Server /\ lockLine \in Seq(Who)
    /\ server \in [Server -> {"none", "up", "down"}]
    /\ stdout \in [Server -> {"none", "reading", "busy", "aborted", "over"}]
    /\ lastId \in [Server -> Nat \ {0}] /\ reports \in [Server -> Nat]
    /\ awaited \in [Server -> SUBSET Nat]
    /\ received \in [Server -> SUBSET (Nat \X Who)] /\ lines \in [Server -> Seq(Line)]
    /\ op \in [Who -> CallState]

(* Whoever waits for the lock is in its line, once.                        *)
LineKnown ==
    /\ \A i \in 1 .. Len(lockLine) : op[lockLine[i]].at = "queued"
    /\ \A i, j \in 1 .. Len(lockLine) : lockLine[i] = lockLine[j] => i = j

(* A handle is used once spawn has returned it.                            *)
SpawnFirst ==
    /\ \A s \in Server : server[s] = "none" => At_(<<s, "spawn">>, "idle") /\ lastId[s] = 1
    /\ \A w \in Who : w[2] # "spawn" /\ ~At_(w, "idle") => At_(<<w[1], "spawn">>, "over")

(* A connection stays until its stop begins, and its reader until then.    *)
LinkedUntilStop ==
    \A s \in Server :
        /\ s \in linked => op[<<s, "stop">>].at \in {"idle", "queued"}
        /\ stdout[s] = "aborted" => s \notin linked /\ At_(<<s, "spawn">>, "over")

(* A handle makes five calls at most: two of its spawn and three others.   *)
Made(w) == IF op[w].at \in {"idle", "queued"} THEN 0 ELSE 1
FewIds ==
    \A s \in Server :
        lastId[s] <= 3 + Made(<<s, "turn">>) + Made(<<s, "tool">>) + Made(<<s, "stop">>)
OwnIdsApart == OwnIds \cap (1 .. 5) = {}

(* A call that waits has an id given out before, and no request and no     *)
(* answer with that id is another's.                                       *)
IdGiven == \A w \in Who : At_(w, "calling") => op[w].id \in Nat \ {0} /\ op[w].id < lastId[w[1]]
IsFor(s, q, asked, last) ==
    /\ q[2] \in Who /\ q[2][1] = s /\ q[1] < last[s]
    /\ \A w \in Who : w[1] = s /\ asked[w].at = "calling" /\ asked[w].id = q[1] => w = q[2]
EntriesTrue ==
    \A s \in Server :
        /\ \A q \in received[s] : IsFor(s, q, op, lastId)
        /\ \A i \in 1 .. Len(lines[s]) :
            IsFor(s, lines[s][i], op, lastId) \/ lines[s][i][1] \in OwnIds \cup {0}

ServerInv ==
    /\ LineKnown /\ SpawnFirst /\ LinkedUntilStop /\ FewIds /\ IdGiven /\ EntriesTrue
    /\ LinksKept
ServerIInv == ServerTypeOK /\ ServerInv

-----------------------------------------------------------------------------
(* Callers.                                                                *)
LEMMA Callers ==
    /\ \A s \in Server, o \in Op : <<s, o>> \in Who /\ <<s, o>>[1] = s /\ <<s, o>>[2] = o
    /\ \A w \in Who : w[1] \in Server /\ w[2] \in Op /\ w = <<w[1], w[2]>>
    /\ "spawn" \in Op /\ "stop" \in Op /\ "turn" \in Op /\ "tool" \in Op
    /\ "spawn" \notin Reader /\ "stop" \notin Reader /\ Reader \subseteq Op
    BY DEF Who, Op, Reader

(* A caller goes on, alone.                                                *)
Goes(w, at, id, result) ==
    /\ op' \in [Who -> CallState] /\ \A v \in Who \ {w} : op'[v] = op[v]
    /\ op'[w].at = at /\ op'[w].id = id /\ op'[w].result = result
LEMMA Going ==
    ASSUME op \in [Who -> CallState], NEW w \in Who, NEW at \in CallAt
    PROVE  /\ op' = [op EXCEPT ![w].at = at] => Goes(w, at, op[w].id, op[w].result)
           /\ \A i \in Nat : op' = [op EXCEPT ![w] = [at |-> at, id |-> i, result |-> Nobody_]] =>
                Goes(w, at, i, Nobody_)
<1>1. ASSUME NEW r \in CallState, op' = [op EXCEPT ![w] = r]
      PROVE  Goes(w, r.at, r.id, r.result)
    BY <1>1 DEF Goes
<1>2. ASSUME op' = [op EXCEPT ![w].at = at]
      PROVE  Goes(w, at, op[w].id, op[w].result)
    <2> DEFINE r == [op[w] EXCEPT !.at = at]
    <2>1. r \in CallState /\ r.at = at /\ r.id = op[w].id /\ r.result = op[w].result
        BY DEF CallState
    <2>2. op' = [op EXCEPT ![w] = r]
        BY <1>2
    <2> HIDE DEF r
    <2>3. QED
        BY <1>1, <2>1, <2>2
<1>3. ASSUME NEW i \in Nat, op' = [op EXCEPT ![w] = [at |-> at, id |-> i, result |-> Nobody_]]
      PROVE  Goes(w, at, i, Nobody_)
    <2> DEFINE r == [at |-> at, id |-> i, result |-> Nobody_]
    <2>1. r \in CallState /\ r.at = at /\ r.id = i /\ r.result = Nobody_
        BY DEF CallState
    <2>2. op' = [op EXCEPT ![w] = r]
        BY <1>3
    <2> HIDE DEF r
    <2>3. QED
        BY <1>1, <2>1, <2>2
<1>4. QED
    BY <1>2, <1>3

(* What a step may do to the callers without a call being taken for        *)
(* another: whoever waits from now on waits for a new id.                  *)
NewCallsOnly ==
    /\ \A v \in Who : op'[v].at = "calling" =>
        \/ op[v].at = "calling" /\ op'[v].id = op[v].id
        \/ op'[v].id = lastId[v[1]] /\ lastId'[v[1]] = lastId[v[1]] + 1
    /\ \A s \in Server : lastId'[s] >= lastId[s]
LEMMA CallsStay ==
    ASSUME ServerTypeOK, ServerTypeOK', IdGiven, NewCallsOnly
    PROVE  /\ IdGiven'
           /\ \A s \in Server, q \in Line : IsFor(s, q, op, lastId) => IsFor(s, q, op', lastId')
<1>1. \A s \in Server : lastId[s] \in Nat \ {0} /\ lastId'[s] \in Nat
    BY DEF ServerTypeOK
<1>2. ASSUME NEW w \in Who, op'[w].at = "calling"
      PROVE  op'[w].id \in Nat \ {0} /\ op'[w].id < lastId'[w[1]]
    <2>1. w[1] \in Server /\ lastId'[w[1]] >= lastId[w[1]]
        BY Callers DEF NewCallsOnly
    <2>2. CASE op[w].at = "calling" /\ op'[w].id = op[w].id
        <3>1. op[w].id \in Nat \ {0} /\ op[w].id < lastId[w[1]]
            BY <2>2 DEF IdGiven, At_
        <3>2. QED
            BY <1>1, <2>1, <2>2, <3>1
    <2>3. CASE op'[w].id = lastId[w[1]] /\ lastId'[w[1]] = lastId[w[1]] + 1
        BY <1>1, <2>1, <2>3
    <2>4. QED
        BY <1>2, <2>2, <2>3 DEF NewCallsOnly
<1>3. ASSUME NEW s \in Server, NEW q \in Line, IsFor(s, q, op, lastId)
      PROVE  IsFor(s, q, op', lastId')
    <2>1. q[1] \in Nat /\ q[1] < lastId'[s] /\ q[1] < lastId[s]
        BY <1>1, <1>3 DEF IsFor, NewCallsOnly, Line
    <2>2. ASSUME NEW w \in Who, w[1] = s, op'[w].at = "calling", op'[w].id = q[1]
          PROVE  w = q[2]
        BY <1>1, <1>3, <2>1, <2>2 DEF IsFor, NewCallsOnly
    <2>3. QED
        BY <1>3, <2>1, <2>2 DEF IsFor
<1>4. QED
    BY <1>2, <1>3 DEF IdGiven, At_

(* Requests and answers go along the wires, whole.                         *)
CarriesOn(s) ==
    /\ \A q \in received'[s] : q \in received[s] \/ IsFor(s, q, op', lastId')
    /\ \A i \in 1 .. Len(lines'[s]) :
        \/ \E j \in 1 .. Len(lines[s]) : lines'[s][i] = lines[s][j]
        \/ lines'[s][i] \in received[s]
        \/ lines'[s][i][1] \in OwnIds \cup {0}
LEMMA EntriesStay ==
    ASSUME ServerTypeOK, ServerTypeOK', IdGiven, NewCallsOnly, EntriesTrue,
           \A s \in Server : CarriesOn(s)
    PROVE  EntriesTrue' /\ IdGiven'
<1>1. \A s \in Server :
        /\ received[s] \subseteq Line
        /\ \A j \in 1 .. Len(lines[s]) : lines[s][j] \in Line
    <2> SUFFICES ASSUME NEW s \in Server
                 PROVE  /\ received[s] \subseteq Line
                        /\ \A j \in 1 .. Len(lines[s]) : lines[s][j] \in Line
        OBVIOUS
    <2>1. received[s] \subseteq Nat \X Who /\ lines[s] \in Seq(Line)
        BY DEF ServerTypeOK
    <2>2. \A j \in 1 .. Len(lines[s]) : lines[s][j] \in Line
        BY <2>1, ElementOfSeq
    <2>3. QED
        BY <2>1, <2>2 DEF Line
<1>0. \A s \in Server, q \in Line : IsFor(s, q, op, lastId) => IsFor(s, q, op', lastId')
    BY CallsStay
<1>2. ASSUME NEW s \in Server, NEW q \in received'[s]
      PROVE  IsFor(s, q, op', lastId')
    <2>1. q \in received[s] \/ IsFor(s, q, op', lastId')
        BY DEF CarriesOn
    <2>2. ASSUME q \in received[s] PROVE IsFor(s, q, op', lastId')
        <3>1. IsFor(s, q, op, lastId)
            BY <2>2 DEF EntriesTrue
        <3>2. QED
            BY <1>0, <1>1, <2>2, <3>1
    <2>3. QED
        BY <2>1, <2>2
<1>3. ASSUME NEW s \in Server, NEW i \in 1 .. Len(lines'[s])
      PROVE  IsFor(s, lines'[s][i], op', lastId') \/ lines'[s][i][1] \in OwnIds \cup {0}
    <2>1. CASE \E j \in 1 .. Len(lines[s]) : lines'[s][i] = lines[s][j]
        <3> PICK j \in 1 .. Len(lines[s]) : lines'[s][i] = lines[s][j]
            BY <2>1
        <3>1. lines[s][j] \in Line
            BY <1>1
        <3>2. IsFor(s, lines[s][j], op, lastId) \/ lines[s][j][1] \in OwnIds \cup {0}
            BY DEF EntriesTrue
        <3>3. QED
            BY <1>0, <3>1, <3>2
    <2>2. CASE lines'[s][i] \in received[s]
        <3>1. lines'[s][i] \in Line /\ IsFor(s, lines'[s][i], op, lastId)
            BY <1>1, <2>2 DEF EntriesTrue
        <3>2. QED
            BY <1>0, <3>1
    <2>3. QED
        BY <2>1, <2>2 DEF CarriesOn
<1>4. IdGiven'
    BY CallsStay
<1>5. EntriesTrue'
    BY <1>2, <1>3 DEF EntriesTrue
<1>6. QED
    BY <1>4, <1>5

(* The parts of the invariant, when one caller goes on.                    *)
LineGoesOn(w, at) ==
    \/ lockLine' = lockLine /\ op[w].at # "queued"
    \/ lockLine' = Append(lockLine, w) /\ op[w].at # "queued" /\ at = "queued"
    \/ lockLine # <<>> /\ Head(lockLine) = w /\ lockLine' = Tail(lockLine)
LEMMA LineOnce ==
    ASSUME lockLine \in Seq(Who), LineKnown, NEW w \in Who, NEW at \in CallAt,
           NEW id \in Nat, NEW result, Goes(w, at, id, result), LineGoesOn(w, at)
    PROVE  LineKnown' /\ lockLine' \in Seq(Who)
<1>0. \A i \in 1 .. Len(lockLine) : lockLine[i] \in Who /\ op[lockLine[i]].at = "queued"
    BY ElementOfSeq DEF LineKnown
<1>1. CASE lockLine' = lockLine /\ op[w].at # "queued"
    BY <1>0, <1>1 DEF LineKnown, Goes
<1>2. CASE lockLine' = Append(lockLine, w) /\ op[w].at # "queued" /\ at = "queued"
    <2>1. /\ lockLine' \in Seq(Who) /\ Len(lockLine') = Len(lockLine) + 1
          /\ \A i \in 1 .. Len(lockLine) : lockLine'[i] = lockLine[i]
          /\ lockLine'[Len(lockLine) + 1] = w
        BY <1>2, AppendProperties
    <2>2. \A i \in 1 .. Len(lockLine') : i \in 1 .. Len(lockLine) \/ i = Len(lockLine) + 1
        BY <2>1
    <2>3. \A i \in 1 .. Len(lockLine) : lockLine[i] # w
        BY <1>0, <1>2
    <2>4. \A i \in 1 .. Len(lockLine') : op'[lockLine'[i]].at = "queued"
        BY <1>0, <1>2, <2>1, <2>2, <2>3 DEF Goes
    <2>5. \A i, j \in 1 .. Len(lockLine') : lockLine'[i] = lockLine'[j] => i = j
        BY <2>1, <2>2, <2>3 DEF LineKnown
    <2>6. QED
        BY <2>1, <2>4, <2>5 DEF LineKnown
<1>3. CASE lockLine # <<>> /\ Head(lockLine) = w /\ lockLine' = Tail(lockLine)
    <2>1. /\ lockLine' \in Seq(Who) /\ Len(lockLine') = Len(lockLine) - 1 /\ Len(lockLine) \in Nat
          /\ \A i \in 1 .. Len(lockLine') : lockLine'[i] = lockLine[i + 1]
          /\ lockLine[1] = w /\ 1 \in 1 .. Len(lockLine)
        BY <1>3, HeadTailProperties, EmptySeq
    <2>2. \A i \in 1 .. Len(lockLine') : i + 1 \in 1 .. Len(lockLine) /\ i + 1 # 1
        BY <2>1
    <2>3. \A i \in 1 .. Len(lockLine') : lockLine'[i] # w
        BY <2>1, <2>2 DEF LineKnown
    <2>4. \A i \in 1 .. Len(lockLine') : op'[lockLine'[i]].at = "queued"
        BY <1>0, <2>1, <2>2, <2>3 DEF Goes
    <2>5. ASSUME NEW i \in 1 .. Len(lockLine'), NEW j \in 1 .. Len(lockLine'),
                 lockLine'[i] = lockLine'[j]
          PROVE  i = j
        <3>1. i + 1 = j + 1
            BY <2>1, <2>2, <2>5 DEF LineKnown
        <3>2. QED
            BY <3>1
    <2>6. QED
        BY <2>1, <2>4, <2>5 DEF LineKnown
<1>4. QED
    BY <1>1, <1>2, <1>3 DEF LineGoesOn

LEMMA SpawnStaysFirst ==
    ASSUME SpawnFirst, NEW w \in Who, NEW at \in CallAt,
           NEW id \in Nat, NEW result, Goes(w, at, id, result),
           \A s \in Server : server'[s] = "none" =>
                server[s] = "none" /\ lastId'[s] = lastId[s] /\ w # <<s, "spawn">>,
           IF w[2] = "spawn" THEN op[w].at # "over" ELSE At_(<<w[1], "spawn">>, "over")
    PROVE  SpawnFirst'
<1>1. ASSUME NEW s \in Server, server'[s] = "none"
      PROVE  op'[<<s, "spawn">>].at = "idle" /\ lastId'[s] = 1
    BY <1>1, Callers DEF SpawnFirst, Goes, At_
<1>2. ASSUME NEW v \in Who, v[2] # "spawn", op'[v].at # "idle"
      PROVE  op'[<<v[1], "spawn">>].at = "over"
    <2>1. <<v[1], "spawn">> \in Who /\ <<v[1], "spawn">>[2] = "spawn" /\ <<v[1], "spawn">>[1] = v[1]
        BY Callers
    <2>2. CASE v = w
        BY <1>2, <2>1, <2>2 DEF Goes, At_
    <2>3. CASE v # w
        <3>1. op[<<v[1], "spawn">>].at = "over"
            BY <1>2, <2>3 DEF SpawnFirst, Goes, At_
        <3>2. <<v[1], "spawn">> # w
            BY <2>1, <3>1
        <3>3. QED
            BY <2>1, <3>1, <3>2 DEF Goes
    <2>4. QED
        BY <2>2, <2>3
<1>3. QED
    BY <1>1, <1>2 DEF SpawnFirst, At_

LEMMA IdsStayFew ==
    ASSUME ServerTypeOK, ServerTypeOK', FewIds, NEW w \in Who, NEW at \in CallAt,
           NEW id \in Nat, NEW result, Goes(w, at, id, result),
           op[w].at \in {"idle", "queued"} \/ at \notin {"idle", "queued"} \/ w[2] = "spawn",
           \A s \in Server :
              \/ lastId'[s] = lastId[s] \/ lastId'[s] <= 3
              \/ /\ w[1] = s /\ lastId'[s] = lastId[s] + 1 /\ w[2] # "spawn"
                 /\ op[w].at = "queued" /\ at = "calling"
    PROVE  FewIds'
<1> SUFFICES ASSUME NEW s \in Server
             PROVE  lastId'[s] <= 3 + Made(<<s, "turn">>)' + Made(<<s, "tool">>)'
                        + Made(<<s, "stop">>)'
    BY DEF FewIds
<1>1. \A v \in Who : Made(v) \in {0, 1} /\ Made(v)' \in {0, 1}
    BY DEF Made
<1>2. \A v \in Who : v[2] # "spawn" => Made(v) <= Made(v)'
    BY DEF Made, Goes
<1>3. /\ <<s, "turn">> \in Who /\ <<s, "tool">> \in Who /\ <<s, "stop">> \in Who
      /\ <<s, "turn">>[2] # "spawn" /\ <<s, "tool">>[2] # "spawn" /\ <<s, "stop">>[2] # "spawn"
      /\ w[1] = s /\ w[2] # "spawn" => w \in {<<s, "turn">>, <<s, "tool">>, <<s, "stop">>}
    <2>1. "turn" \in Op /\ "tool" \in Op /\ "stop" \in Op
        BY Callers
    <2>2. w = <<w[1], w[2]>> /\ w[2] \in Op
        BY Callers
    <2>3. Op = {"turn", "tool", "spawn", "stop"}
        BY DEF Op, Reader
    <2>4. w[1] = s /\ w[2] # "spawn" => w \in {<<s, "turn">>, <<s, "tool">>, <<s, "stop">>}
        BY <2>2, <2>3
    <2>5. QED
        BY <2>1, <2>4, Callers
<1>4. lastId[s] \in Nat /\ lastId'[s] \in Nat
    BY DEF ServerTypeOK
<1>5. lastId[s] <= 3 + Made(<<s, "turn">>) + Made(<<s, "tool">>) + Made(<<s, "stop">>)
    BY DEF FewIds
<1> DEFINE a == Made(<<s, "turn">>)
           b == Made(<<s, "tool">>)
           c == Made(<<s, "stop">>)
           A == Made(<<s, "turn">>)'
           B == Made(<<s, "tool">>)'
           C == Made(<<s, "stop">>)'
<1>6. /\ {a, b, c, A, B, C} \subseteq {0, 1} /\ a <= A /\ b <= B /\ c <= C
      /\ lastId[s] <= 3 + a + b + c
    BY <1>1, <1>2, <1>3, <1>5
<1>7. CASE lastId'[s] = lastId[s] \/ lastId'[s] <= 3
    <2> HIDE DEF a, b, c, A, B, C
    <2>1. lastId'[s] <= 3 + A + B + C
        BY <1>4, <1>6, <1>7
    <2>2. QED
        BY <2>1 DEF A, B, C
<1>8. CASE /\ w[1] = s /\ lastId'[s] = lastId[s] + 1 /\ w[2] # "spawn"
           /\ op[w].at = "queued" /\ at = "calling"
    <2>1. Made(w) = 0 /\ Made(w)' = 1
        BY <1>8 DEF Made, Goes
    <2>2. (a = 0 /\ A = 1) \/ (b = 0 /\ B = 1) \/ (c = 0 /\ C = 1)
        BY <1>3, <1>8, <2>1
    <2> HIDE DEF a, b, c, A, B, C
    <2>3. lastId'[s] <= 3 + A + B + C
        BY <1>4, <1>6, <1>8, <2>2
    <2>4. QED
        BY <2>3 DEF A, B, C
<1>9. QED
    BY <1>7, <1>8

(* A caller that is not the spawn goes on or a spawn does: what is linked  *)
(* and what is awaited.                                                    *)
LEMMA LinksStay ==
    ASSUME ServerTypeOK, LinkedUntilStop, SpawnFirst, CallersLinked,
           NEW w \in Who, NEW at \in CallAt,
           NEW id \in Nat, NEW result, Goes(w, at, id, result),
           linked' \subseteq linked \cup (IF w[2] = "spawn" THEN {w[1]} ELSE {}),
           w[2] = "stop" /\ at \notin {"idle", "queued"} => w[1] \notin linked',
           w[2] = "spawn" => op[w].at # "over",
           \A s \in Server : stdout'[s] = "aborted" =>
                \/ stdout[s] = "aborted"
                \/ w = <<s, "stop">> /\ op[w].at \in {"answered", "expired"},
           \A s \in linked \ linked' : \A v \in Who :
                v[1] = s /\ v[2] \in Reader => ~At_(v, "calling"),
           w[2] \in Reader /\ at = "calling" => w[1] \in linked'
    PROVE  LinkedUntilStop' /\ CallersLinked'
<1>1. \A s \in Server : /\ <<s, "stop">> \in Who /\ <<s, "stop">>[1] = s
                        /\ <<s, "stop">>[2] = "stop"
                        /\ <<s, "spawn">> \in Who /\ <<s, "spawn">>[1] = s
                        /\ <<s, "spawn">>[2] = "spawn"
    BY Callers
<1>2. \A s \in Server : stdout[s] = "aborted" => s \notin linked /\ At_(<<s, "spawn">>, "over")
    BY DEF LinkedUntilStop
<1>3. ASSUME NEW s \in Server, s \in linked'
      PROVE  op'[<<s, "stop">>].at \in {"idle", "queued"}
    <2>1. CASE w = <<s, "stop">>
        BY <1>1, <1>3, <2>1 DEF Goes
    <2>2. CASE w # <<s, "stop">> /\ s \in linked
        BY <1>1, <2>2 DEF LinkedUntilStop, Goes
    <2>3. CASE w[2] = "spawn" /\ w[1] = s
        <3>1. w = <<s, "spawn">>
            BY <2>3, Callers
        <3>2. At_(<<s, "stop">>, "idle")
            BY <1>1, <2>3, <3>1 DEF SpawnFirst, At_
        <3>3. QED
            BY <1>1, <3>1, <3>2 DEF Goes, At_
    <2>4. QED
        BY <1>3, <2>1, <2>2, <2>3
<1>4. ASSUME NEW s \in Server, stdout'[s] = "aborted"
      PROVE  s \notin linked' /\ op'[<<s, "spawn">>].at = "over"
    <2>1. s \notin linked /\ op[<<s, "spawn">>].at = "over"
        <3>1. CASE stdout[s] = "aborted"
            BY <1>2, <3>1 DEF At_
        <3>2. CASE w = <<s, "stop">> /\ op[w].at \in {"answered", "expired"}
            BY <1>1, <3>2 DEF LinkedUntilStop, SpawnFirst, At_
        <3>3. QED
            BY <1>4, <3>1, <3>2
    <2>2. w # <<s, "spawn">>
        BY <1>1, <2>1
    <2>3. ~(w[2] = "spawn" /\ w[1] = s)
        BY <2>2, Callers
    <2>4. QED
        BY <1>1, <2>1, <2>2, <2>3 DEF Goes
<1>5. ASSUME NEW v \in Who, v[2] \in Reader, op'[v].at = "calling"
      PROVE  v[1] \in linked' /\ stdout'[v[1]] # "aborted"
    <2>1. v[1] \in linked'
        <3>1. CASE v = w
            BY <1>5, <3>1, Callers DEF Goes, At_, LinkedUntilStop
        <3>2. CASE v # w
            BY <1>5, <3>2, Callers DEF Goes, At_, CallersLinked, Holders
        <3>3. QED
            BY <3>1, <3>2
    <2>2. QED
        BY <1>4, <2>1, Callers
<1>6. LinkedUntilStop'
    BY <1>3, <1>4 DEF LinkedUntilStop, At_
<1>7. CallersLinked'
    BY <1>5 DEF CallersLinked, Holders, At_
<1>8. QED
    BY <1>6, <1>7

(* What a step of one caller does, and the invariant after it.             *)
LinksGoOn(w, at) ==
    /\ linked' \subseteq linked \cup (IF w[2] = "spawn" THEN {w[1]} ELSE {})
    /\ w[2] = "stop" /\ at \notin {"idle", "queued"} => w[1] \notin linked'
    /\ \A s \in Server : stdout'[s] = "aborted" =>
        \/ stdout[s] = "aborted"
        \/ w = <<s, "stop">> /\ op[w].at \in {"answered", "expired"}
    /\ \A s \in linked \ linked' : \A v \in Who :
        v[1] = s /\ v[2] \in Reader => ~At_(v, "calling")
    /\ w[2] \in Reader /\ at = "calling" => w[1] \in linked'
IdsGoOn(w, at, id) ==
    \A s \in Server :
        \/ lastId'[s] = lastId[s] /\ (w[1] = s /\ at = "calling" => op[w].at = "calling" /\ id = op[w].id)
        \/ /\ w[1] = s /\ at = "calling" /\ id = lastId[s] /\ lastId'[s] = lastId[s] + 1
           /\ IF w[2] = "spawn" THEN lastId'[s] <= 3 ELSE op[w].at = "queued"
LEMMA CallerGoesOn ==
    ASSUME ServerIInv, ServerTypeOK', NEW w \in Who, NEW at \in CallAt,
           NEW id \in Nat, NEW result, Goes(w, at, id, result),
           LineGoesOn(w, at), LinksGoOn(w, at), IdsGoOn(w, at, id),
           \A s \in Server : server'[s] = "none" =>
                server[s] = "none" /\ lastId'[s] = lastId[s] /\ w # <<s, "spawn">>,
           IF w[2] = "spawn" THEN op[w].at # "over" ELSE At_(<<w[1], "spawn">>, "over"),
           op[w].at \in {"idle", "queued"} \/ at \notin {"idle", "queued"} \/ w[2] = "spawn",
           \A s \in Server : CarriesOn(s),
           at = "answered" => result = w
    PROVE  ServerInv'
<1>1. /\ ServerTypeOK /\ LineKnown /\ SpawnFirst /\ LinkedUntilStop /\ FewIds /\ IdGiven
      /\ EntriesTrue /\ CallersLinked /\ OkIsAnswer
    BY DEF ServerIInv, ServerInv, LinksKept
<1>2. LineKnown'
    BY <1>1, LineOnce DEF ServerTypeOK
<1>3. SpawnFirst'
    BY <1>1, SpawnStaysFirst
<1>4. FewIds'
    <2>1. \A s \in Server :
              \/ lastId'[s] = lastId[s] \/ lastId'[s] <= 3
              \/ /\ w[1] = s /\ lastId'[s] = lastId[s] + 1 /\ w[2] # "spawn"
                 /\ op[w].at = "queued" /\ at = "calling"
        BY DEF IdsGoOn
    <2>2. QED
        BY <1>1, <2>1, IdsStayFew
<1>5. LinkedUntilStop' /\ CallersLinked'
    BY <1>1, LinksStay DEF LinksGoOn
<1>6. NewCallsOnly
    <2>1. \A s \in Server : lastId[s] \in Nat /\ lastId'[s] \in Nat
        BY DEF ServerTypeOK, ServerIInv
    <2>2. \A s \in Server : lastId'[s] >= lastId[s]
        BY <2>1 DEF IdsGoOn
    <2>3. \A v \in Who : v[1] \in Server
        BY Callers
    <2>4. \A v \in Who : op'[v].at = "calling" =>
            \/ op[v].at = "calling" /\ op'[v].id = op[v].id
            \/ op'[v].id = lastId[v[1]] /\ lastId'[v[1]] = lastId[v[1]] + 1
        BY <2>3 DEF Goes, IdsGoOn
    <2>5. QED
        BY <2>2, <2>4 DEF NewCallsOnly
<1>7. EntriesTrue' /\ IdGiven'
    BY <1>1, <1>6, EntriesStay
<1>8. OkIsAnswer'
    BY <1>1 DEF OkIsAnswer, Goes, At_
<1>9. QED
    BY <1>2, <1>3, <1>4, <1>5, <1>7, <1>8 DEF ServerInv, LinksKept

(* A step of the server and of the task that reads it.                     *)
LEMMA WiresGoOn ==
    ASSUME ServerIInv, ServerTypeOK', op' = op, linked' = linked, lockLine' = lockLine,
           lastId' = lastId,
           \A s \in Server : server'[s] = "none" => server[s] = "none",
           \A s \in Server : stdout'[s] = "aborted" =>
                stdout[s] = "aborted" \/ At_(<<s, "stop">>, "over"),
           \A s \in Server : CarriesOn(s)
    PROVE  ServerInv'
<1>1. /\ ServerTypeOK /\ LineKnown /\ SpawnFirst /\ LinkedUntilStop /\ FewIds /\ IdGiven
      /\ EntriesTrue /\ CallersLinked /\ OkIsAnswer
    BY DEF ServerIInv, ServerInv, LinksKept
<1>2. LineKnown' /\ FewIds' /\ OkIsAnswer'
    BY <1>1 DEF LineKnown, FewIds, Made, OkIsAnswer, At_
<1>3. SpawnFirst'
    BY <1>1 DEF SpawnFirst, At_
<1>4. LinkedUntilStop'
    <2>1. \A s \in Server : stdout'[s] = "aborted" => s \notin linked /\ At_(<<s, "spawn">>, "over")
        <3> SUFFICES ASSUME NEW s \in Server, stdout'[s] = "aborted"
                     PROVE  s \notin linked /\ At_(<<s, "spawn">>, "over")
            OBVIOUS
        <3>1. CASE stdout[s] = "aborted"
            BY <1>1, <3>1 DEF LinkedUntilStop
        <3>2. CASE At_(<<s, "stop">>, "over")
            <4>1. <<s, "stop">> \in Who /\ <<s, "stop">>[1] = s /\ <<s, "stop">>[2] = "stop"
                BY Callers
            <4>2. s \notin linked
                BY <1>1, <3>2 DEF LinkedUntilStop, At_
            <4>3. At_(<<s, "spawn">>, "over")
                BY <1>1, <3>2, <4>1 DEF SpawnFirst, At_
            <4>4. QED
                BY <4>2, <4>3
        <3>3. QED
            BY <3>1, <3>2
    <2>2. QED
        BY <1>1, <2>1 DEF LinkedUntilStop, At_
<1>5. CallersLinked'
    <2>1. \A v \in Holders : v[2] \in Reader => v[1] \in linked'
        BY <1>1 DEF CallersLinked
    <2>2. Holders' = Holders
        BY DEF Holders, At_
    <2>3. \A v \in Who : v[1] \in linked' => stdout'[v[1]] # "aborted"
        BY <1>4, Callers DEF LinkedUntilStop
    <2>4. QED
        BY <2>1, <2>2, <2>3 DEF CallersLinked, Holders
<1>6. NewCallsOnly
    <2>1. \A s \in Server : lastId[s] \in Nat
        BY <1>1 DEF ServerTypeOK
    <2>2. QED
        BY <2>1 DEF NewCallsOnly
<1>7. EntriesTrue' /\ IdGiven'
    BY <1>1, <1>6, EntriesStay
<1>8. QED
    BY <1>2, <1>3, <1>4, <1>5, <1>7 DEF ServerInv, LinksKept

(* A call gets an id, an entry and a request.                              *)
LEMMA Asking ==
    ASSUME ServerIInv, NEW w \in Who, Asks(w)
    PROVE  /\ Goes(w, "calling", lastId[w[1]], Nobody_) /\ w[1] \in Server /\ lastId[w[1]] \in Nat
           /\ lastId' \in [Server -> Nat \ {0}] /\ awaited' \in [Server -> SUBSET Nat]
           /\ received' \in [Server -> SUBSET (Nat \X Who)]
           /\ lastId'[w[1]] = lastId[w[1]] + 1
           /\ \A s \in Server \ {w[1]} : lastId'[s] = lastId[s]
           /\ lines' = lines => \A s \in Server : CarriesOn(s)
<1> DEFINE i == lastId[w[1]]
<1>1. /\ lastId \in [Server -> Nat \ {0}] /\ awaited \in [Server -> SUBSET Nat] /\ w[1] \in Server
      /\ received \in [Server -> SUBSET (Nat \X Who)] /\ op \in [Who -> CallState]
      /\ i \in Nat \ {0}
    BY Callers DEF ServerIInv, ServerTypeOK
<1>2. /\ op' = [op EXCEPT ![w] = [at |-> "calling", id |-> i, result |-> Nobody_]]
      /\ lastId' = [lastId EXCEPT ![w[1]] = @ + 1]
      /\ awaited' = [awaited EXCEPT ![w[1]] = @ \cup {i}]
      /\ received' = received \/ received' = [received EXCEPT ![w[1]] = @ \cup {<<i, w>>}]
    BY DEF Asks, FreshId
<1> HIDE DEF i
<1>3. Goes(w, "calling", i, Nobody_)
    <2>1. "calling" \in CallAt
        BY DEF CallAt
    <2>2. QED
        BY <1>1, <1>2, <2>1, Going
<1>4. /\ lastId' \in [Server -> Nat \ {0}] /\ awaited' \in [Server -> SUBSET Nat]
      /\ lastId'[w[1]] = lastId[w[1]] + 1
      /\ \A s \in Server \ {w[1]} : lastId'[s] = lastId[s]
    <2>1. \A s \in Server : lastId[s] \in Nat \ {0} /\ lastId[s] + 1 \in Nat \ {0}
        BY <1>1
    <2>2. QED
        BY <1>1, <1>2, <2>1
<1>5. /\ received' \in [Server -> SUBSET (Nat \X Who)]
      /\ \A s \in Server : \A q \in received'[s] :
            q \in received[s] \/ (s = w[1] /\ q = <<i, w>>)
    <2>1. <<i, w>> \in Nat \X Who
        BY <1>1
    <2>2. QED
        BY <1>1, <1>2, <2>1
<1>6. IsFor(w[1], <<i, w>>, op', lastId')
    <2>1. <<i, w>>[1] = i /\ <<i, w>>[2] = w /\ i < lastId'[w[1]]
        BY <1>1, <1>4 DEF i
    <2>2. ASSUME NEW v \in Who, v[1] = w[1], op'[v].at = "calling", op'[v].id = i, v # w
          PROVE  FALSE
        <3>1. op[v].at = "calling" /\ op[v].id = i
            BY <1>3, <2>2 DEF Goes
        <3>2. op[v].id < lastId[v[1]]
            BY <3>1 DEF ServerIInv, ServerInv, IdGiven, At_
        <3>3. QED
            BY <1>1, <2>2, <3>1, <3>2 DEF i
    <2>3. QED
        BY <2>1, <2>2 DEF IsFor
<1>7. ASSUME lines' = lines, NEW s \in Server
      PROVE  CarriesOn(s)
    BY <1>5, <1>6, <1>7 DEF CarriesOn
<1>8. QED
    BY <1>1, <1>3, <1>4, <1>5, <1>7 DEF i

(* Requests and answers that stay where they are.                          *)
LEMMA WiresUntouched ==
    ASSUME received' = received, lines' = lines
    PROVE  \A s \in Server : CarriesOn(s)
BY DEF CarriesOn

-----------------------------------------------------------------------------
(* The steps.                                                              *)
LEMMA StartKeeps ==
    ASSUME ServerIInv, NEW s \in Server, StartServer(s)
    PROVE  ServerIInv'
<1> DEFINE w == <<s, "spawn">>
<1>1. /\ w \in Who /\ w[1] = s /\ w[2] = "spawn" /\ s \in Server
      /\ \A o \in {"calling", "failed"} : o \in CallAt
    BY Callers DEF CallAt
<1>2. /\ ServerTypeOK /\ op[w].at = "idle" /\ lastId[s] = 1 /\ server[s] = "none"
      /\ linked' = linked /\ lockLine' = lockLine /\ lines' = lines /\ reports' = reports
      /\ costs' = costs
    BY DEF StartServer, ServerIInv, ServerInv, SpawnFirst, At_
<1>3. CASE /\ server' = [server EXCEPT ![s] = "up"]
           /\ stdout' = [stdout EXCEPT ![s] = "reading"]
           /\ op' = [op EXCEPT ![w] = [at |-> "calling", id |-> 1, result |-> Nobody_]]
           /\ lastId' = [lastId EXCEPT ![s] = 2]
           /\ awaited' = [awaited EXCEPT ![s] = {1}]
           /\ received' = [received EXCEPT ![s] = {<<1, w>>}]
    <2>1. Goes(w, "calling", 1, Nobody_)
        BY <1>1, <1>2, <1>3, Going DEF ServerTypeOK
    <2>2. ServerTypeOK'
        <3>1. /\ server' \in [Server -> {"none", "up", "down"}]
              /\ stdout' \in [Server -> {"none", "reading", "busy", "aborted", "over"}]
              /\ lastId' \in [Server -> Nat \ {0}] /\ awaited' \in [Server -> SUBSET Nat]
            BY <1>2, <1>3 DEF ServerTypeOK
        <3>2. {<<1, w>>} \in SUBSET (Nat \X Who)
            BY <1>1
        <3>3. received' \in [Server -> SUBSET (Nat \X Who)]
            BY <1>2, <1>3, <3>2 DEF ServerTypeOK
        <3>4. QED
            BY <1>2, <2>1, <3>1, <3>3 DEF ServerTypeOK, Goes
    <2>3. /\ server'[s] = "up" /\ \A t \in Server \ {s} : server'[t] = server[t]
          /\ stdout'[s] = "reading" /\ \A t \in Server \ {s} : stdout'[t] = stdout[t]
          /\ lastId'[s] = 2 /\ \A t \in Server \ {s} : lastId'[t] = lastId[t]
          /\ received'[s] = {<<1, w>>} /\ \A t \in Server \ {s} : received'[t] = received[t]
        BY <1>2, <1>3 DEF ServerTypeOK
    <2>4. IsFor(s, <<1, w>>, op', lastId')
        <3>1. ASSUME NEW v \in Who, v[1] = s, v # w, op'[v].at = "calling"
              PROVE  FALSE
            <4>1. v[2] # "spawn"
                BY <3>1, Callers
            <4>2. QED
                BY <1>2, <2>1, <3>1, <4>1 DEF ServerIInv, ServerInv, SpawnFirst, Goes, At_
        <3>2. QED
            BY <1>1, <2>3, <3>1 DEF IsFor
    <2>5. \A t \in Server : CarriesOn(t)
        BY <1>2, <2>3, <2>4 DEF CarriesOn
    <2>6. LineGoesOn(w, "calling") /\ LinksGoOn(w, "calling") /\ IdsGoOn(w, "calling", 1)
        BY <1>1, <1>2, <2>3 DEF LineGoesOn, LinksGoOn, IdsGoOn, Reader
    <2> HIDE DEF w
    <2>7. ServerInv'
        <3>1. \A t \in Server : server'[t] = "none" =>
                server[t] = "none" /\ lastId'[t] = lastId[t] /\ w # <<t, "spawn">>
            BY <1>1, <2>3
        <3>2. QED
            BY <1>1, <1>2, <2>1, <2>2, <2>5, <2>6, <3>1, CallerGoesOn
    <2>8. QED
        BY <2>2, <2>7 DEF ServerIInv
<1>4. CASE /\ server' = [server EXCEPT ![s] = "down"]
           /\ Ends(w, "failed")
           /\ UNCHANGED <<stdout, lastId, awaited, received>>
    <2>1. Goes(w, "failed", op[w].id, op[w].result)
        BY <1>1, <1>2, <1>4, Going DEF ServerTypeOK, Ends
    <2>2. ServerTypeOK'
        BY <1>2, <1>4, <2>1 DEF ServerTypeOK, Goes
    <2>3. server'[s] = "down" /\ \A t \in Server \ {s} : server'[t] = server[t]
        BY <1>2, <1>4 DEF ServerTypeOK
    <2>5. \A t \in Server : CarriesOn(t)
        BY <1>2, <1>4, WiresUntouched
    <2>6. LineGoesOn(w, "failed") /\ LinksGoOn(w, "failed") /\ IdsGoOn(w, "failed", op[w].id)
        BY <1>1, <1>2, <1>4, <2>3 DEF LineGoesOn, LinksGoOn, IdsGoOn, Reader
    <2>7. op[w].id \in Nat
        BY <1>1, <1>2 DEF ServerTypeOK, CallState
    <2> HIDE DEF w
    <2>8. ServerInv'
        <3>1. \A t \in Server : server'[t] = "none" =>
                server[t] = "none" /\ lastId'[t] = lastId[t] /\ w # <<t, "spawn">>
            BY <1>1, <1>4, <2>3
        <3>2. QED
            BY <1>1, <1>2, <2>1, <2>2, <2>5, <2>6, <2>7, <3>1, CallerGoesOn
    <2>9. QED
        BY <2>2, <2>8 DEF ServerIInv
<1>5. QED
    BY <1>3, <1>4 DEF StartServer

(* A step of a caller that asks the server for nothing.                    *)
LEMMA PlainKeeps ==
    ASSUME ServerIInv, NEW w \in Who, NEW at \in CallAt \ {"calling", "answered"}, Turns(w, at),
           UNCHANGED <<server, lastId, awaited, received, lines, reports>>,
           stdout' \in [Server -> {"none", "reading", "busy", "aborted", "over"}],
           costs' \subseteq Server, linked' \subseteq Server,
           LineGoesOn(w, at), LinksGoOn(w, at),
           w[2] # "spawn" \/ op[w].at # "idle",
           IF w[2] = "spawn" THEN op[w].at # "over" ELSE At_(<<w[1], "spawn">>, "over"),
           op[w].at \in {"idle", "queued"} \/ at \notin {"idle", "queued"} \/ w[2] = "spawn"
    PROVE  ServerIInv'
<1>1. ServerTypeOK /\ SpawnFirst /\ LineKnown
    BY DEF ServerIInv, ServerInv
<1>2. Goes(w, at, op[w].id, op[w].result) /\ op[w].id \in Nat
    BY <1>1, Going DEF ServerTypeOK, CallState, Turns
<1>3. ServerTypeOK'
    <2>1. lockLine' \in Seq(Who)
        BY <1>1, <1>2, LineOnce DEF ServerTypeOK
    <2>2. QED
        BY <1>1, <1>2, <2>1 DEF ServerTypeOK, Goes
<1>4. \A s \in Server : server'[s] = "none" =>
        server[s] = "none" /\ lastId'[s] = lastId[s] /\ w # <<s, "spawn">>
    <2> SUFFICES ASSUME NEW s \in Server, server[s] = "none", w = <<s, "spawn">>
                 PROVE  FALSE
        OBVIOUS
    <2>1. w[2] = "spawn" /\ op[w].at = "idle"
        BY <1>1 DEF SpawnFirst, At_
    <2>2. QED
        BY <2>1
<1>5. IdsGoOn(w, at, op[w].id)
    BY DEF IdsGoOn
<1>6. \A s \in Server : CarriesOn(s)
    BY WiresUntouched
<1>7. ServerInv'
    BY <1>2, <1>3, <1>4, <1>5, <1>6, CallerGoesOn
<1>8. QED
    BY <1>3, <1>7 DEF ServerIInv

(* Who enters waited, and is not there twice.                              *)
LEMMA Entering ==
    ASSUME ServerIInv, NEW w, MayEnter(w), lockLine' = Tail(lockLine)
    PROVE  w \in Who /\ op[w].at = "queued" /\ \A at : LineGoesOn(w, at)
<1>1. lockLine \in Seq(Who) /\ lockLine # <<>> /\ Head(lockLine) = w
    BY DEF ServerIInv, ServerTypeOK, MayEnter
<1>2. w = lockLine[1] /\ 1 \in 1 .. Len(lockLine) /\ w \in Who
    BY <1>1, HeadTailProperties, EmptySeq
<1>3. op[w].at = "queued"
    BY <1>2 DEF ServerIInv, ServerInv, LineKnown
<1>4. QED
    BY <1>1, <1>2, <1>3 DEF LineGoesOn

LEMMA AskLinkKeeps ==
    ASSUME ServerIInv, NEW s \in Server, AskLink(s)
    PROVE  ServerIInv'
<1> DEFINE w == <<s, "spawn">>
<1>1. w \in Who /\ w[1] = s /\ w[2] = "spawn" /\ "queued" \in CallAt \ {"calling", "answered"}
    BY Callers DEF CallAt
<1>2. /\ op[w].at = "answered" /\ Turns(w, "queued") /\ lockLine' = Append(lockLine, w)
      /\ linked' = linked /\ UNCHANGED wireVars
    BY DEF AskLink, At_
<1>3. LineGoesOn(w, "queued") /\ LinksGoOn(w, "queued")
    BY <1>1, <1>2 DEF LineGoesOn, LinksGoOn, wireVars, Reader
<1> HIDE DEF w
<1>4. QED
    BY <1>1, <1>2, <1>3, PlainKeeps DEF wireVars, ServerIInv, ServerTypeOK

LEMMA LinkKeeps ==
    ASSUME ServerIInv, NEW s \in Server, Link(s)
    PROVE  ServerIInv'
<1> DEFINE w == <<s, "spawn">>
<1>1. w \in Who /\ w[1] = s /\ w[2] = "spawn" /\ "over" \in CallAt \ {"calling", "answered"}
    BY Callers DEF CallAt
<1>2. /\ MayEnter(w) /\ linked' = linked \cup {s} /\ lockLine' = Tail(lockLine)
      /\ Turns(w, "over") /\ UNCHANGED wireVars
    BY DEF Link, Ends, Turns
<1> HIDE DEF w
<1>3. op[w].at = "queued" /\ LineGoesOn(w, "over")
    BY <1>2, Entering
<1>4. LinksGoOn(w, "over")
    BY <1>1, <1>2 DEF LinksGoOn, wireVars, Reader
<1>5. QED
    BY <1>1, <1>2, <1>3, <1>4, PlainKeeps DEF wireVars, ServerIInv, ServerTypeOK

LEMMA CallKeeps ==
    ASSUME ServerIInv, NEW w \in Who, Call_(w)
    PROVE  ServerIInv'
<1>1. "queued" \in CallAt \ {"calling", "answered"}
    BY DEF CallAt
<1>2. /\ op[w].at = "idle" /\ At_(<<w[1], "spawn">>, "over") /\ Turns(w, "queued")
      /\ lockLine' = Append(lockLine, w) /\ linked' = linked /\ UNCHANGED wireVars
    BY DEF Call_, At_
<1>3. w[2] # "spawn"
    BY <1>2, Callers DEF At_
<1>4. LineGoesOn(w, "queued") /\ LinksGoOn(w, "queued")
    BY <1>2, <1>3 DEF LineGoesOn, LinksGoOn, wireVars
<1>5. QED
    BY <1>1, <1>2, <1>3, <1>4, PlainKeeps DEF wireVars, ServerIInv, ServerTypeOK

LEMMA FindNothingKeeps ==
    ASSUME ServerIInv, NEW w \in Who, FindNothing(w)
    PROVE  ServerIInv'
<1>1. PICK at \in {"over", "failed"} : Turns(w, at)
    BY DEF FindNothing, Ends, Turns
<1>2. /\ MayEnter(w) /\ w[2] # "spawn" /\ w[1] \notin linked /\ lockLine' = Tail(lockLine)
      /\ linked' = linked /\ UNCHANGED wireVars
    BY DEF FindNothing
<1>3. op[w].at = "queued" /\ LineGoesOn(w, at)
    BY <1>2, Entering
<1>4. at \in CallAt \ {"calling", "answered"}
    BY DEF CallAt
<1>5. LinksGoOn(w, at)
    BY <1>2 DEF LinksGoOn, wireVars
<1>6. At_(<<w[1], "spawn">>, "over")
    BY <1>2, <1>3 DEF ServerIInv, ServerInv, SpawnFirst, At_
<1>7. QED
    BY <1>1, <1>2, <1>3, <1>4, <1>5, <1>6, PlainKeeps DEF wireVars, ServerIInv, ServerTypeOK

LEMMA ExpireKeeps ==
    ASSUME ServerIInv, NEW w \in Who, Expire(w)
    PROVE  ServerIInv'
<1>1. PICK at \in {"expired", "failed"} : Turns(w, at)
    BY DEF Expire, Ends, Turns
<1>2. /\ op[w].at = "calling" /\ lockLine' = lockLine /\ linked' = linked /\ UNCHANGED wireVars
    BY DEF Expire, At_
<1>3. at \in CallAt \ {"calling", "answered"}
    BY DEF CallAt
<1>4. w[2] = "stop" => w[1] \notin linked
    <2>1. w = <<w[1], w[2]>> /\ w[1] \in Server
        BY Callers
    <2>2. QED
        BY <1>2, <2>1 DEF ServerIInv, ServerInv, LinkedUntilStop
<1>5. LineGoesOn(w, at) /\ LinksGoOn(w, at)
    BY <1>2, <1>4 DEF LinksGoOn, LineGoesOn, wireVars
<1>6. w[2] # "spawn" => At_(<<w[1], "spawn">>, "over")
    BY <1>2 DEF ServerIInv, ServerInv, SpawnFirst, At_
<1>7. QED
    BY <1>1, <1>2, <1>3, <1>5, <1>6, PlainKeeps DEF wireVars, ServerIInv, ServerTypeOK

LEMMA ConcludeKeeps ==
    ASSUME ServerIInv, NEW w \in Who, Conclude(w)
    PROVE  ServerIInv'
<1>1. /\ op[w].at = "answered" /\ w[2] \in Reader /\ lockLine' = lockLine /\ linked' = linked
      /\ Turns(w, "over") /\ UNCHANGED wireVars
    BY DEF Conclude, At_, Ends, Turns
<1>2. "over" \in CallAt \ {"calling", "answered"} /\ w[2] # "spawn" /\ w[2] # "stop"
    BY <1>1 DEF CallAt, Reader
<1>3. LineGoesOn(w, "over") /\ LinksGoOn(w, "over")
    BY <1>1, <1>2 DEF LinksGoOn, LineGoesOn, wireVars
<1>4. At_(<<w[1], "spawn">>, "over")
    BY <1>1, <1>2 DEF ServerIInv, ServerInv, SpawnFirst, At_
<1>5. QED
    BY <1>1, <1>2, <1>3, <1>4, PlainKeeps DEF wireVars, ServerIInv, ServerTypeOK

LEMMA EndStopKeeps ==
    ASSUME ServerIInv, NEW s \in Server, EndStop(s)
    PROVE  ServerIInv'
<1> DEFINE w == <<s, "stop">>
<1>1. w \in Who /\ w[1] = s /\ w[2] = "stop" /\ "over" \in CallAt \ {"calling", "answered"}
    BY Callers DEF CallAt
<1>2. /\ op[w].at \in {"answered", "expired"} /\ Turns(w, "over") /\ lockLine' = lockLine
      /\ linked' = linked /\ costs' = costs \ {s}
      /\ stdout' = [stdout EXCEPT ![s] = IF @ \in {"reading", "over"} THEN "aborted" ELSE @]
      /\ UNCHANGED <<server, lastId, awaited, received, lines, reports>>
    BY DEF EndStop, Ends, Turns
<1>3. /\ stdout' \in [Server -> {"none", "reading", "busy", "aborted", "over"}]
      /\ \A t \in Server \ {s} : stdout'[t] = stdout[t]
      /\ costs' \subseteq Server /\ linked' \subseteq Server
    BY <1>2 DEF ServerIInv, ServerTypeOK
<1>4. s \notin linked
    BY <1>2 DEF ServerIInv, ServerInv, LinkedUntilStop
<1>5. LineGoesOn(w, "over") /\ LinksGoOn(w, "over")
    BY <1>1, <1>2, <1>3, <1>4 DEF LinksGoOn, LineGoesOn, Reader
<1>6. At_(<<w[1], "spawn">>, "over")
    BY <1>1, <1>2 DEF ServerIInv, ServerInv, SpawnFirst, At_
<1> HIDE DEF w
<1>7. QED
    BY <1>1, <1>2, <1>3, <1>5, <1>6, PlainKeeps

(* A step of a caller that asks.                                           *)
LEMMA AskKeeps ==
    ASSUME ServerIInv, NEW w \in Who, Asks(w), UNCHANGED <<server, stdout, lines, reports, costs>>,
           linked' \subseteq linked, LineGoesOn(w, "calling"), LinksGoOn(w, "calling"),
           IF w[2] = "spawn" THEN lastId[w[1]] = 2 /\ op[w].at = "answered" ELSE op[w].at = "queued"
    PROVE  ServerIInv'
<1>1. /\ Goes(w, "calling", lastId[w[1]], Nobody_) /\ w[1] \in Server /\ lastId[w[1]] \in Nat
      /\ lastId' \in [Server -> Nat \ {0}] /\ awaited' \in [Server -> SUBSET Nat]
      /\ received' \in [Server -> SUBSET (Nat \X Who)]
      /\ lastId'[w[1]] = lastId[w[1]] + 1
      /\ \A s \in Server \ {w[1]} : lastId'[s] = lastId[s]
      /\ \A s \in Server : CarriesOn(s)
    BY Asking
<1>2. "calling" \in CallAt /\ ServerTypeOK /\ SpawnFirst /\ LineKnown
    BY DEF CallAt, ServerIInv, ServerInv
<1>3. ServerTypeOK'
    <2>1. lockLine' \in Seq(Who)
        BY <1>1, <1>2, LineOnce DEF ServerTypeOK
    <2>2. QED
        BY <1>1, <1>2, <2>1 DEF ServerTypeOK, Goes
<1>4. IdsGoOn(w, "calling", lastId[w[1]])
    BY <1>1 DEF IdsGoOn
<1>5. \A s \in Server : server'[s] = "none" =>
        server[s] = "none" /\ lastId'[s] = lastId[s] /\ w # <<s, "spawn">>
    <2> SUFFICES ASSUME NEW s \in Server, server[s] = "none"
                 PROVE  w[1] # s
        BY <1>1
    <2>1. op[<<s, "spawn">>].at = "idle"
        BY <1>2 DEF SpawnFirst, At_
    <2>2. w[2] # "spawn" => op[<<w[1], "spawn">>].at = "over"
        BY <1>2 DEF SpawnFirst, At_
    <2>3. w = <<w[1], w[2]>>
        BY Callers
    <2>4. QED
        BY <2>1, <2>2, <2>3
<1>6. w[2] # "spawn" => At_(<<w[1], "spawn">>, "over")
    BY <1>2 DEF SpawnFirst, At_
<1>7. ServerInv'
    BY <1>1, <1>2, <1>3, <1>4, <1>5, <1>6, CallerGoesOn
<1>8. QED
    BY <1>3, <1>7 DEF ServerIInv

LEMMA AskThreadKeeps ==
    ASSUME ServerIInv, NEW s \in Server, AskThread(s)
    PROVE  ServerIInv'
<1> DEFINE w == <<s, "spawn">>
<1>1. w \in Who /\ w[1] = s /\ w[2] = "spawn"
    BY Callers
<1>2. /\ op[w].at = "answered" /\ lastId[s] = 2 /\ Asks(w)
      /\ UNCHANGED <<linked, lockLine, server, stdout, lines, reports, costs>>
    BY DEF AskThread, At_
<1>3. LineGoesOn(w, "calling") /\ LinksGoOn(w, "calling")
    BY <1>1, <1>2 DEF LineGoesOn, LinksGoOn, Reader
<1> HIDE DEF w
<1>4. QED
    BY <1>1, <1>2, <1>3, AskKeeps

LEMMA AskServerKeeps ==
    ASSUME ServerIInv, NEW w \in Who, AskServer(w)
    PROVE  ServerIInv'
<1>1. /\ MayEnter(w) /\ w[2] \in Reader /\ w[1] \in linked /\ lockLine' = Tail(lockLine)
      /\ Asks(w) /\ UNCHANGED <<linked, server, stdout, lines, reports, costs>>
    BY DEF AskServer
<1>2. op[w].at = "queued" /\ LineGoesOn(w, "calling")
    BY <1>1, Entering
<1>3. w[2] # "spawn" /\ w[2] # "stop"
    BY <1>1 DEF Reader
<1>4. LinksGoOn(w, "calling")
    BY <1>1, <1>3 DEF LinksGoOn
<1>5. QED
    BY <1>1, <1>2, <1>3, <1>4, AskKeeps

(* Whoever stops a handle is alone: no call of it is under way.            *)
LEMMA BeginStopKeeps ==
    ASSUME ServerIInv, NEW s \in Server, BeginStop(s)
    PROVE  ServerIInv'
<1> DEFINE w == <<s, "stop">>
<1>1. w \in Who /\ w[1] = s /\ w[2] = "stop" /\ w[2] \notin Reader
    BY Callers DEF Reader
<1>2. /\ s \in linked /\ MayEnter(w) /\ lockLine' = Tail(lockLine) /\ linked' = linked \ {s}
      /\ Asks(w) /\ UNCHANGED <<server, stdout, lines, reports, costs>>
    BY DEF BeginStop, StopsAlone
<1>3. Holders = {}
    BY <1>1, <1>2 DEF MayEnter
<1>4. \A v \in Who : v[2] \in Reader => ~At_(v, "calling")
    BY <1>3 DEF Holders, Reader
<1> HIDE DEF w
<1>5. op[w].at = "queued" /\ LineGoesOn(w, "calling")
    BY <1>2, Entering
<1>6. LinksGoOn(w, "calling")
    BY <1>1, <1>2, <1>4 DEF LinksGoOn
<1>7. QED
    BY <1>1, <1>2, <1>5, <1>6, AskKeeps

-----------------------------------------------------------------------------
(* A line is added, or the first is taken.                                 *)
LEMMA LineAdded ==
    ASSUME lines \in [Server -> Seq(Line)], NEW s \in Server, NEW q \in Line,
           lines' = [lines EXCEPT ![s] = Append(@, q)],
           \A t \in Server : received'[t] \subseteq received[t],
           q \in received[s] \/ q[1] \in OwnIds \cup {0}
    PROVE  lines' \in [Server -> Seq(Line)] /\ \A t \in Server : CarriesOn(t)
<1>1. lines[s] \in Seq(Line) /\ \A t \in Server \ {s} : lines'[t] = lines[t]
    OBVIOUS
<1>2. lines'[s] = Append(lines[s], q)
    OBVIOUS
<1>3. /\ lines'[s] \in Seq(Line) /\ Len(lines'[s]) = Len(lines[s]) + 1 /\ Len(lines[s]) \in Nat
      /\ \A i \in 1 .. Len(lines[s]) : lines'[s][i] = lines[s][i]
      /\ lines'[s][Len(lines[s]) + 1] = q
    BY <1>1, <1>2, AppendProperties
<1>4. lines' \in [Server -> Seq(Line)]
    <2>1. Append(lines[s], q) \in Seq(Line)
        BY <1>2, <1>3
    <2>2. QED
        BY <2>1
<1>5. CarriesOn(s)
    <2>1. \A i \in 1 .. Len(lines'[s]) : i \in 1 .. Len(lines[s]) \/ i = Len(lines[s]) + 1
        BY <1>3
    <2>2. QED
        BY <1>3, <2>1 DEF CarriesOn
<1>6. \A t \in Server \ {s} : CarriesOn(t)
    BY <1>1 DEF CarriesOn
<1>7. QED
    BY <1>4, <1>5, <1>6

LEMMA LineTaken ==
    ASSUME lines \in [Server -> Seq(Line)], NEW s \in Server, Taken(s), lines[s] # <<>>,
           received' = received
    PROVE  lines' \in [Server -> Seq(Line)] /\ \A t \in Server : CarriesOn(t)
<1>1. lines[s] \in Seq(Line) /\ \A t \in Server \ {s} : lines'[t] = lines[t]
    BY DEF Taken
<1>2. lines'[s] = Tail(lines[s])
    BY DEF Taken
<1>3. /\ lines'[s] \in Seq(Line) /\ Len(lines'[s]) = Len(lines[s]) - 1 /\ Len(lines[s]) \in Nat
      /\ \A i \in 1 .. Len(lines'[s]) : lines'[s][i] = lines[s][i + 1]
    BY <1>1, <1>2, HeadTailProperties
<1>4. lines' \in [Server -> Seq(Line)]
    <2>1. Tail(lines[s]) \in Seq(Line)
        BY <1>2, <1>3
    <2>2. QED
        BY <2>1 DEF Taken
<1>5. CarriesOn(s)
    <2>1. \A i \in 1 .. Len(lines'[s]) : i + 1 \in 1 .. Len(lines[s])
        BY <1>3
    <2>2. QED
        BY <1>3, <2>1 DEF CarriesOn
<1>6. \A t \in Server \ {s} : CarriesOn(t)
    BY <1>1 DEF CarriesOn
<1>7. QED
    BY <1>4, <1>5, <1>6

LEMMA AnswerCallKeeps ==
    ASSUME ServerIInv, NEW s \in Server, AnswerCall(s)
    PROVE  ServerIInv'
<1>1. /\ ServerTypeOK
      /\ op' = op /\ linked' = linked /\ lockLine' = lockLine /\ lastId' = lastId
      /\ server' = server /\ stdout' = stdout /\ awaited' = awaited /\ reports' = reports
      /\ costs' = costs
    BY DEF AnswerCall, linkVars, ServerIInv
<1>2. PICK q \in received[s] : /\ received' = [received EXCEPT ![s] = @ \ {q}]
                              /\ lines' = [lines EXCEPT ![s] = Append(@, q)]
    BY DEF AnswerCall
<1>3. q \in Line
    BY <1>1 DEF ServerTypeOK, Line
<1>4. /\ \A t \in Server : received'[t] \subseteq received[t]
      /\ received' \in [Server -> SUBSET (Nat \X Who)]
    BY <1>1, <1>2 DEF ServerTypeOK
<1>5. lines' \in [Server -> Seq(Line)] /\ \A t \in Server : CarriesOn(t)
    BY <1>1, <1>2, <1>3, <1>4, LineAdded DEF ServerTypeOK
<1>6. ServerTypeOK'
    BY <1>1, <1>4, <1>5 DEF ServerTypeOK
<1>7. ServerInv'
    BY <1>1, <1>5, <1>6, WiresGoOn
<1>8. QED
    BY <1>6, <1>7 DEF ServerIInv

LEMMA UnaskedKeeps ==
    ASSUME ServerIInv, NEW s \in Server, AskBack(s) \/ ReportUsage(s)
    PROVE  ServerIInv'
<1>1. /\ ServerTypeOK /\ OwnIds \subseteq Nat
      /\ op' = op /\ linked' = linked /\ lockLine' = lockLine /\ lastId' = lastId
      /\ server' = server /\ stdout' = stdout /\ awaited' = awaited /\ received' = received
      /\ costs' = costs /\ reports' = [reports EXCEPT ![s] = @ + 1]
    BY ServerAssumption DEF AskBack, ReportUsage, linkVars, ServerIInv
<1>2. PICK i \in OwnIds \cup {0} : lines' = [lines EXCEPT ![s] = Append(@, <<i, Nobody_>>)]
    BY DEF AskBack, ReportUsage
<1> DEFINE q == <<i, Nobody_>>
<1>3. q \in Line /\ q[1] \in OwnIds \cup {0}
    BY <1>1 DEF Line
<1>4. lines' = [lines EXCEPT ![s] = Append(@, q)]
    BY <1>2
<1> HIDE DEF q
<1>5. lines' \in [Server -> Seq(Line)] /\ \A t \in Server : CarriesOn(t)
    BY <1>1, <1>3, <1>4, LineAdded DEF ServerTypeOK
<1>6. ServerTypeOK'
    <2>1. reports' \in [Server -> Nat]
        BY <1>1 DEF ServerTypeOK
    <2>2. QED
        BY <1>1, <1>5, <2>1 DEF ServerTypeOK
<1>7. ServerInv'
    BY <1>1, <1>5, <1>6, WiresGoOn
<1>8. QED
    BY <1>6, <1>7 DEF ServerIInv

(* A step of the task that reads, or the end of the server.                *)
LEMMA ReaderKeeps ==
    ASSUME ServerIInv, NEW s \in Server, Die(s) \/ ReadEnd(s) \/ WriteCost(s)
    PROVE  ServerIInv'
<1>1. /\ ServerTypeOK
      /\ op' = op /\ linked' = linked /\ lockLine' = lockLine /\ lastId' = lastId
      /\ awaited' = awaited /\ received' = received /\ lines' = lines /\ reports' = reports
    BY DEF Die, ReadEnd, WriteCost, linkVars, ServerIInv
<1>2. \A t \in Server : CarriesOn(t)
    BY <1>1, WiresUntouched
<1>3. /\ server' \in [Server -> {"none", "up", "down"}]
      /\ stdout' \in [Server -> {"none", "reading", "busy", "aborted", "over"}]
      /\ costs' \subseteq Server
      /\ \A t \in Server : server'[t] = "none" => server[t] = "none"
      /\ \A t \in Server : stdout'[t] = "aborted" =>
            stdout[t] = "aborted" \/ At_(<<t, "stop">>, "over")
    <2>1. CASE Die(s)
        BY <1>1, <2>1 DEF Die, ServerTypeOK
    <2>2. CASE ReadEnd(s)
        BY <1>1, <2>2 DEF ReadEnd, ServerTypeOK
    <2>3. CASE WriteCost(s)
        BY <1>1, <2>3 DEF WriteCost, ServerTypeOK, At_
    <2>4. QED
        BY <2>1, <2>2, <2>3
<1>4. ServerTypeOK'
    BY <1>1, <1>3 DEF ServerTypeOK
<1>5. ServerInv'
    BY <1>1, <1>2, <1>3, <1>4, WiresGoOn
<1>6. QED
    BY <1>4, <1>5 DEF ServerIInv

LEMMA ReadOtherKeeps ==
    ASSUME ServerIInv, NEW s \in Server, ReadOther(s)
    PROVE  ServerIInv'
<1>1. /\ ServerTypeOK /\ Taken(s) /\ lines[s] # <<>>
      /\ op' = op /\ linked' = linked /\ lockLine' = lockLine /\ lastId' = lastId
      /\ server' = server /\ awaited' = awaited /\ received' = received /\ reports' = reports
      /\ costs' = costs
    BY DEF ReadOther, linkVars, ServerIInv
<1>2. lines' \in [Server -> Seq(Line)] /\ \A t \in Server : CarriesOn(t)
    BY <1>1, LineTaken DEF ServerTypeOK
<1>3. PICK x \in {"busy", stdout[s]} : stdout' = [stdout EXCEPT ![s] = x]
    BY DEF ReadOther
<1>4. /\ stdout' \in [Server -> {"none", "reading", "busy", "aborted", "over"}]
      /\ \A t \in Server : stdout'[t] = "aborted" => stdout[t] = "aborted"
    BY <1>1, <1>3 DEF ServerTypeOK
<1>5. ServerTypeOK'
    BY <1>1, <1>2, <1>4 DEF ServerTypeOK
<1>6. ServerInv'
    BY <1>1, <1>2, <1>4, <1>5, WiresGoOn
<1>7. QED
    BY <1>5, <1>6 DEF ServerIInv

(* The answer that is read goes to the one caller it is for, if it waits.  *)
AnsweredBy(s) == {w \in Who : w[1] = s /\ At_(w, "calling") /\ op[w].id = Head(lines[s])[1]}
LEMMA AnswerOfOne ==
    ASSUME ServerIInv, OwnIdsApart, NEW s \in Server, lines[s] # <<>>, NEW w \in AnsweredBy(s)
    PROVE  w = Head(lines[s])[2]
<1>1. lines[s] \in Seq(Line)
    BY DEF ServerIInv, ServerTypeOK
<1>2. 1 \in 1 .. Len(lines[s]) /\ Head(lines[s]) = lines[s][1]
    BY <1>1, HeadTailProperties, EmptySeq
<1> DEFINE q == Head(lines[s])
<1>3. IsFor(s, q, op, lastId) \/ q[1] \in OwnIds \cup {0}
    BY <1>2 DEF ServerIInv, ServerInv, EntriesTrue
<1>4. w \in Who /\ w[1] = s /\ op[w].at = "calling" /\ op[w].id = q[1]
    BY DEF AnsweredBy, At_
<1>5. CASE IsFor(s, q, op, lastId)
    BY <1>4, <1>5 DEF IsFor
<1>6. CASE q[1] \in OwnIds \cup {0}
    <2>1. op[w].id \in Nat \ {0} /\ op[w].id < lastId[s]
        BY <1>4 DEF ServerIInv, ServerInv, IdGiven, At_
    <2>2. lastId[s] \in Nat /\ lastId[s] <= 6
        <3>1. lastId[s] <= 3 + Made(<<s, "turn">>) + Made(<<s, "tool">>) + Made(<<s, "stop">>)
            BY DEF ServerIInv, ServerInv, FewIds
        <3>2. \A v : Made(v) \in {0, 1}
            BY DEF Made
        <3>3. lastId[s] \in Nat
            BY DEF ServerIInv, ServerTypeOK
        <3>4. Made(<<s, "turn">>) \in {0, 1} /\ Made(<<s, "tool">>) \in {0, 1}
              /\ Made(<<s, "stop">>) \in {0, 1}
            BY <3>2
        <3> DEFINE a == Made(<<s, "turn">>)
                   b == Made(<<s, "tool">>)
                   c == Made(<<s, "stop">>)
        <3> HIDE DEF a, b, c
        <3>5. lastId[s] <= 6
            <4>1. a \in {0, 1} /\ b \in {0, 1} /\ c \in {0, 1} /\ lastId[s] <= 3 + a + b + c
                BY <3>1, <3>4 DEF a, b, c
            <4>2. QED
                BY <3>3, <4>1
        <3>6. QED
            BY <3>3, <3>5
    <2>3. op[w].id \in 1 .. 5
        BY <2>1, <2>2
    <2>4. QED
        BY <1>4, <1>6, <2>1, <2>3 DEF OwnIdsApart
<1>7. QED
    BY <1>3, <1>5, <1>6

LEMMA ReadAnswerKeeps ==
    ASSUME ServerIInv, OwnIdsApart, NEW s \in Server, ReadAnswer(s)
    PROVE  ServerIInv'
<1>1. /\ ServerTypeOK /\ Taken(s) /\ lines[s] # <<>>
      /\ linked' = linked /\ lockLine' = lockLine /\ lastId' = lastId /\ stdout' = stdout
      /\ server' = server /\ received' = received /\ reports' = reports /\ costs' = costs
      /\ awaited' = [awaited EXCEPT ![s] = @ \ {Head(lines[s])[1]}]
    BY DEF ReadAnswer, ServerIInv
<1>2. op' = [w \in Who |-> IF w \in AnsweredBy(s)
                THEN [op[w] EXCEPT !.at = "answered", !.result = Head(lines[s])[2]]
                ELSE op[w]]
    BY DEF ReadAnswer, AnsweredBy
<1>3. lines' \in [Server -> Seq(Line)] /\ \A t \in Server : CarriesOn(t)
    BY <1>1, LineTaken DEF ServerTypeOK
<1>4. awaited' \in [Server -> SUBSET Nat]
    BY <1>1 DEF ServerTypeOK
<1>5. CASE AnsweredBy(s) = {}
    <2>1. op' = op
        BY <1>1, <1>2, <1>5 DEF ServerTypeOK
    <2>2. ServerTypeOK'
        BY <1>1, <1>3, <1>4, <2>1 DEF ServerTypeOK
    <2>3. ServerInv'
        BY <1>1, <1>3, <2>1, <2>2, WiresGoOn
    <2>4. QED
        BY <2>2, <2>3 DEF ServerIInv
<1>6. CASE AnsweredBy(s) # {}
    <2> PICK w \in AnsweredBy(s) : TRUE
        BY <1>6
    <2>1. w \in Who /\ w[1] = s /\ op[w].at = "calling"
        BY DEF AnsweredBy, At_
    <2>2. AnsweredBy(s) = {w} /\ Head(lines[s])[2] = w
        BY <1>1, AnswerOfOne
    <2> DEFINE r == [op[w] EXCEPT !.at = "answered", !.result = w]
    <2>3. /\ r \in CallState /\ r.at = "answered" /\ r.id = op[w].id /\ r.result = w
          /\ op[w].id \in Nat
        BY <1>1, <2>1 DEF ServerTypeOK, CallState, CallAt
    <2>4. op' = [v \in Who |-> IF v = w THEN r ELSE op[v]]
        BY <1>2, <2>2
    <2> HIDE DEF r
    <2>5. op' \in [Who -> CallState] /\ Goes(w, "answered", op[w].id, w)
        BY <1>1, <2>1, <2>3, <2>4 DEF ServerTypeOK, Goes
    <2>6. ServerTypeOK'
        BY <1>1, <1>3, <1>4, <2>5 DEF ServerTypeOK
    <2>7. w[2] = "stop" => w[1] \notin linked
        <3>1. w = <<w[1], w[2]>> /\ w[1] \in Server
            BY <2>1, Callers
        <3>2. QED
            BY <2>1, <3>1 DEF ServerIInv, ServerInv, LinkedUntilStop
    <2>8. "answered" \in CallAt /\ LineGoesOn(w, "answered") /\ IdsGoOn(w, "answered", op[w].id)
        BY <1>1, <2>1 DEF CallAt, LineGoesOn, IdsGoOn
    <2>9. LinksGoOn(w, "answered")
        BY <1>1, <2>7 DEF LinksGoOn
    <2>10. w[2] # "spawn" => At_(<<w[1], "spawn">>, "over")
        BY <2>1 DEF ServerIInv, ServerInv, SpawnFirst, At_
    <2>11. \A t \in Server : server'[t] = "none" =>
            server[t] = "none" /\ lastId'[t] = lastId[t] /\ w # <<t, "spawn">>
        <3> SUFFICES ASSUME NEW t \in Server, server[t] = "none", w = <<t, "spawn">>
                     PROVE  FALSE
            BY <1>1
        <3>1. QED
            BY <2>1 DEF ServerIInv, ServerInv, SpawnFirst, At_
    <2>12. ServerInv'
        BY <1>3, <2>1, <2>3, <2>5, <2>6, <2>8, <2>9, <2>10, <2>11, CallerGoesOn
    <2>13. QED
        BY <2>6, <2>12 DEF ServerIInv
<1>7. QED
    BY <1>5, <1>6

-----------------------------------------------------------------------------
LEMMA ServerStarts == ServerInit => ServerIInv
<1> SUFFICES ASSUME ServerInit PROVE ServerIInv
    OBVIOUS
<1>1. \A w \in Who : op[w].at = "idle" /\ op[w] \in CallState
    <2>1. "idle" \in CallAt /\ 0 \in Nat /\ Uncalled = [at |-> "idle", id |-> 0, result |-> Nobody_]
        BY DEF CallAt, Uncalled
    <2>2. Uncalled \in CallState
        BY <2>1 DEF CallState
    <2>3. QED
        BY <2>1, <2>2 DEF ServerInit
<1>2. lines \in [Server -> Seq(Line)] /\ lockLine \in Seq(Who)
    <2>1. <<>> \in Seq(Line) /\ <<>> \in Seq(Who)
        OBVIOUS
    <2>2. QED
        BY <2>1 DEF ServerInit
<1>3. ServerTypeOK
    BY <1>1, <1>2 DEF ServerInit, ServerTypeOK
<1>4. LineKnown /\ SpawnFirst /\ IdGiven /\ OkIsAnswer /\ CallersLinked
    <2>1. Holders = {}
        BY <1>1 DEF Holders, At_
    <2>2. \A s \in Server : <<s, "spawn">> \in Who
        BY Callers
    <2>3. LineKnown
        BY DEF ServerInit, LineKnown
    <2>4. SpawnFirst
        BY <1>1, <2>2 DEF ServerInit, SpawnFirst, At_
    <2>5. QED
        BY <1>1, <2>1, <2>3, <2>4 DEF IdGiven, OkIsAnswer, CallersLinked, At_
<1>5. LinkedUntilStop /\ EntriesTrue
    BY DEF ServerInit, LinkedUntilStop, EntriesTrue
<1>6. FewIds
    <2>1. \A v : Made(v) \in {0, 1}
        BY DEF Made
    <2>2. \A a, b, c \in {0, 1} : 1 <= 3 + a + b + c
        OBVIOUS
    <2>3. \A s \in Server : lastId[s] = 1
        BY DEF ServerInit
    <2>4. QED
        BY <2>1, <2>2, <2>3 DEF FewIds
<1>7. QED
    BY <1>3, <1>4, <1>5, <1>6 DEF ServerIInv, ServerInv, LinksKept

LEMMA ServerKeeps ==
    ASSUME ServerIInv, OwnIdsApart, [ServerNext]_serverVars
    PROVE  ServerIInv'
<1>1. ASSUME NEW s \in Server,
             \/ StartServer(s) \/ AskThread(s) \/ AskLink(s) \/ Link(s)
             \/ BeginStop(s) \/ EndStop(s)
      PROVE  ServerIInv'
    BY <1>1, StartKeeps, AskThreadKeeps, AskLinkKeeps, LinkKeeps, BeginStopKeeps, EndStopKeeps
<1>2. ASSUME NEW s \in Server,
             \/ AnswerCall(s) \/ AskBack(s) \/ ReportUsage(s) \/ Die(s)
             \/ ReadAnswer(s) \/ ReadOther(s) \/ WriteCost(s) \/ ReadEnd(s)
      PROVE  ServerIInv'
    BY <1>2, AnswerCallKeeps, UnaskedKeeps, ReaderKeeps, ReadAnswerKeeps, ReadOtherKeeps
<1>3. ASSUME NEW w \in Who,
             \/ Call_(w) \/ FindNothing(w) \/ AskServer(w) \/ Expire(w) \/ Conclude(w)
      PROVE  ServerIInv'
    BY <1>3, CallKeeps, FindNothingKeeps, AskServerKeeps, ExpireKeeps, ConcludeKeeps
<1>4. CASE UNCHANGED serverVars
    BY <1>4 DEF serverVars, linkVars, wireVars, ServerIInv, ServerTypeOK, ServerInv, LineKnown,
        SpawnFirst, LinkedUntilStop, FewIds, Made, IdGiven, EntriesTrue, IsFor, LinksKept,
        CallersLinked, OkIsAnswer, Holders, At_
<1>5. QED
    BY <1>1, <1>2, <1>3, <1>4 DEF ServerNext

(* No stop takes the connection of a call away, and no caller takes an     *)
(* answer for its own that is another's, as long as the ids that a server  *)
(* gives its own requests are none of the first five (codex_v2.rs).        *)
THEOREM LinksHold == ASSUME OwnIdsApart PROVE ServerSpec => []LinksKept
<1>1. ServerInit => ServerIInv
    BY ServerStarts
<1>2. ServerIInv /\ [ServerNext]_serverVars => ServerIInv'
    BY ServerKeeps
<1>3. ServerIInv => LinksKept
    BY DEF ServerIInv, ServerInv
<1>4. QED
    BY <1>1, <1>2, <1>3, PTL DEF ServerSpec

-----------------------------------------------------------------------------
(* The agents of a project, whatever runs them: a run that counts as       *)
(* complete printed its last line and was heard, interrupt and stop reach  *)
(* its process, and a call to an app-server has its own answer (claude.rs, *)
(* codex.rs, codex_v2.rs).                                                 *)
THEOREM AgentsHold ==
    ASSUME OwnIdsApart
    PROVE  AgentSpec /\ ServerSpec => []AgentsAccounted
<1>1. RunsAccounted /\ LinksKept <=> AgentsAccounted
    BY DEF AgentsAccounted
<1>2. QED
    BY <1>1, RunsKept, LinksHold, PTL

-----------------------------------------------------------------------------
(*                            An agent team                                *)

(* The index a member is given is at most one more than there are members. *)
Index == 0 .. Cardinality(Member) + 1
Partly(Value) == UNION {[Some -> Value] : Some \in SUBSET Member}
SpawnAt == {"none", "counted", "spawned", "stored", "placed", "failed", "done", "registered",
            "looked", "subscribed", "heard", "timed out", "removed", "answered"}
CloseStage == {"idle", "killed", "removed", "paneless", "done", "not found"}
AnyMember == Member \cup {NoMember}

StoreFields ==
    /\ team \in [there : BOOLEAN, next : Nat, token : Partly(Nat)]
    /\ homes \subseteq Member /\ overtaken \in BOOLEAN
    /\ leader \in {"none", "live", "ended"}
RowFields ==
    /\ teamRows \in [Member -> {"none", "live", "complete"}]
    /\ panes \in Partly(Index)
    /\ reload \in [stage : {"none", "sessions", "panes"}, live : SUBSET Member,
                   index : Partly(Index)]
SessionFields ==
    /\ procs \in [Member -> {"none", "live", "detached", "ended"}]
    /\ unsent \subseteq Member /\ exits \in Seq(Member)
CallFields ==
    /\ spawns \in [Member -> [stage : SpawnAt, index : Index]]
    /\ closes \in [Closer -> [stage : CloseStage, m : AnyMember, row : BOOLEAN]]
    /\ bridge \in [stage : {"idle", "row", "pane"}, m : AnyMember]
    /\ bridge.stage # "idle" => bridge.m \in Member
    /\ \A c \in Closer : closes[c].stage # "idle" => closes[c].m \in Member
HistoryFields ==
    /\ closed \in [Member -> Nat] /\ missed \subseteq Member /\ orphans \subseteq Member
TeamFields == StoreFields /\ RowFields /\ SessionFields /\ CallFields /\ HistoryFields

(* Before its leader there is no team; before its pane is stored a member  *)
(* has none; and a pane is stored after the row.                           *)
LeaderFirst ==
    leader = "none" =>
        ~team.there /\ Members = {} /\ \A m \in Member : Spawning(m, "none")
PaneLast ==
    \A m \in Member :
        /\ m \in DOMAIN panes =>
             spawns[m].stage \notin {"none", "counted", "spawned", "stored"}
        /\ m \in DOMAIN panes \/ Spawning(m, "stored") => teamRows[m] # "none"

(* Who is taking m out of the team, and has not closed its pane.           *)
ToolTakes(m) == Spawning(m, "removed")
BridgeTakes(m) == bridge.stage = "pane" /\ bridge.m = m
CloserTakes(c, m) == CloseAt(c, "removed") /\ closes[c].m = m
TakenOut(m) == ToolTakes(m) \/ BridgeTakes(m) \/ \E c \in Closer : CloserTakes(c, m)
OneTakes(m) ==
    /\ ~(ToolTakes(m) /\ BridgeTakes(m))
    /\ \A c \in Closer : CloserTakes(c, m) =>
          /\ ~ToolTakes(m) /\ ~BridgeTakes(m)
          /\ \A d \in Closer : CloserTakes(d, m) => c = d

(* Members, and what is being removed, have a pane until it is announced;  *)
(* a pane is that of a member, or of one that comes or goes.               *)
Unregistered(m) == spawns[m].stage \in {"none", "counted", "spawned", "stored", "placed"}
PaneOf(m) ==
    /\ m \in Members \/ TakenOut(m) \/ Spawning(m, "placed") => m \in DOMAIN panes
    /\ m \in Members => ~TakenOut(m) /\ ~Unregistered(m) /\ ~Spawning(m, "answered")
    /\ TakenOut(m) => ~Unregistered(m)
    /\ m \in DOMAIN panes \ orphans /\ leader # "ended" =>
          Spawning(m, "placed") \/ m \in Members \/ m \in missed \/ TakenOut(m)
Closings(m) ==
    /\ m \in DOMAIN panes \/ Unregistered(m) => closed[m] = 0
    /\ closed[m] <= 1
    /\ \A c \in Closer : CloseAt(c, "paneless") /\ closes[c].m = m =>
          m \notin DOMAIN panes /\ ~Unregistered(m)
RowOf(m) ==
    teamRows[m] = "complete" /\ (m \in DOMAIN panes \/ Spawning(m, "stored")) =>
        procs[m] = "ended"
InStep(m) == OneTakes(m) /\ PaneOf(m) /\ Closings(m) /\ RowOf(m)

TeamIInv ==
    /\ TeamFields /\ NextIsFresh /\ HomesAgree /\ LeaderFirst /\ PaneLast
    /\ ~overtaken => \A m \in Member : InStep(m)

-----------------------------------------------------------------------------
(* The operators of AgentTeam.                                             *)
LEMMA PartlyMember ==
    ASSUME NEW Value, NEW f
    PROVE  f \in Partly(Value) <=> f \in [DOMAIN f -> Value] /\ DOMAIN f \subseteq Member
BY DEF Partly

Extends(g, f, m, v) ==
    DOMAIN g = DOMAIN f \cup {m} /\ g[m] = v /\ \A x \in DOMAIN f \ {m} : g[x] = f[x]
Lacks(g, f, m) ==
    DOMAIN g = DOMAIN f \ {m} /\ \A x \in DOMAIN f \ {m} : g[x] = f[x]

LEMMA WithIs ==
    ASSUME NEW Value, NEW f \in Partly(Value), NEW m \in Member, NEW v \in Value
    PROVE  With(f, m, v) \in Partly(Value) /\ Extends(With(f, m, v), f, m, v)
<1>1. f \in [DOMAIN f -> Value] /\ DOMAIN f \subseteq Member
    BY PartlyMember
<1>2. With(f, m, v) \in [DOMAIN f \cup {m} -> Value]
    BY <1>1 DEF With
<1>3. QED
    BY <1>1, <1>2 DEF With, Partly, Extends

LEMMA DroppedIs ==
    ASSUME NEW Value, NEW f \in Partly(Value), NEW m
    PROVE  Dropped(f, m) \in Partly(Value) /\ Lacks(Dropped(f, m), f, m)
<1>1. f \in [DOMAIN f -> Value] /\ DOMAIN f \subseteq Member
    BY PartlyMember
<1>2. Dropped(f, m) \in [DOMAIN f \ {m} -> Value]
    BY <1>1 DEF Dropped
<1>3. QED
    BY <1>1, <1>2 DEF Dropped, Partly, Lacks

LEMMA CountFits ==
    /\ Cardinality(Member) \in Nat
    /\ \A Some \in SUBSET Member : Cardinality(Some) + 1 \in Index
<1>1. IsFiniteSet(Member) /\ Cardinality(Member) \in Nat
    BY TeamAssumption, FS_CardinalityType
<1>2. ASSUME NEW Some \in SUBSET Member PROVE Cardinality(Some) + 1 \in Index
    <2>1. Cardinality(Some) \in Nat /\ Cardinality(Some) <= Cardinality(Member)
        BY <1>1, FS_Subset, FS_CardinalityType
    <2>2. QED
        BY <1>1, <2>1 DEF Index
<1>3. QED
    BY <1>1, <1>2

Below == {p \in Nat \X Nat : p[1] < p[2]}
LEMMA BelowWellFounded == IsWellFoundedOn(Below, Nat)
<1>1. Below = OpToRel(<, Nat)
    BY DEF Below, OpToRel
<1>2. QED
    BY <1>1, NatLessThanWellFounded

(* Numbers that are bounded have a largest among them.                     *)
LEMMA LargestOf ==
    ASSUME NEW n \in Nat, NEW Value \in SUBSET (0..n), Value # {}
    PROVE  \E m \in Value : \A k \in Value : k <= m
<1> DEFINE Some == {n - s : s \in Value}
<1>1. Some \subseteq Nat /\ Some # {}
    <2>1. \A s \in Value : s \in 0..n /\ n - s \in Nat
        OBVIOUS
    <2>2. QED
        BY <2>1
<1>2. PICK t \in Some : \A u \in Some : ~(<<u, t>> \in Below)
    BY <1>1, BelowWellFounded, WFMin
<1>3. PICK m \in Value : t = n - m
    OBVIOUS
<1>4. ASSUME NEW k \in Value PROVE k <= m
    <2>1. n - k \in Some /\ n - k \in Nat /\ t \in Nat
        BY <1>1
    <2>2. ~(n - k < t)
        BY <1>2, <2>1 DEF Below
    <2>3. QED
        BY <1>3, <2>2
<1>5. QED
    BY <1>4

LEMMA NextIsAfterAll ==
    ASSUME NEW f \in Partly(Index)
    PROVE  NextAfter(f) \in Nat /\ \A m \in DOMAIN f : f[m] \in Nat /\ f[m] < NextAfter(f)
<1> DEFINE Value == {f[m] : m \in DOMAIN f}
           bound == Cardinality(Member) + 1
<1>1. bound \in Nat /\ Index = 0..bound
    BY CountFits DEF Index
<1>2. Value \cup {0} \in SUBSET (0..bound) /\ Value \cup {0} # {}
    BY <1>1, PartlyMember
<1>3. \E n \in Value \cup {0} : \A k \in Value \cup {0} : k <= n
    BY <1>1, <1>2, LargestOf
<1>4. NextAfter(f) = Biggest(Value) + 1 /\ \A m \in DOMAIN f : f[m] \in Value
    BY DEF NextAfter
<1> HIDE DEF Value
<1>5. Biggest(Value) \in Value \cup {0} /\ \A k \in Value : k <= Biggest(Value)
    BY <1>3 DEF Biggest
<1>6. Biggest(Value) \in Nat /\ \A k \in Value : k \in Nat
    BY <1>1, <1>2, <1>5
<1>7. QED
    BY <1>4, <1>5, <1>6

-----------------------------------------------------------------------------
(* What a step leaves as it is.                                            *)
LEMMA FieldsStay ==
    ASSUME TeamFields
    PROVE  /\ UNCHANGED <<team, homes, overtaken, leader>> => StoreFields'
           /\ UNCHANGED <<teamRows, panes, reload>> => RowFields'
           /\ UNCHANGED <<procs, unsent, exits>> => SessionFields'
           /\ UNCHANGED <<spawns, closes, bridge>> => CallFields'
           /\ UNCHANGED <<closed, missed, orphans>> => HistoryFields'
<1>1. UNCHANGED <<team, homes, overtaken, leader>> => StoreFields'
    BY DEF TeamFields, StoreFields
<1>2. UNCHANGED <<teamRows, panes, reload>> => RowFields'
    BY DEF TeamFields, RowFields
<1>3. UNCHANGED <<procs, unsent, exits>> => SessionFields'
    BY DEF TeamFields, SessionFields
<1>4. UNCHANGED <<spawns, closes, bridge>> => CallFields'
    BY DEF TeamFields, CallFields
<1>5. UNCHANGED <<closed, missed, orphans>> => HistoryFields'
    BY DEF TeamFields, HistoryFields
<1>6. QED
    BY <1>1, <1>2, <1>3, <1>4, <1>5

LEMMA StoreStays ==
    ASSUME TeamIInv, UNCHANGED <<team, homes>>
    PROVE  NextIsFresh' /\ HomesAgree'
BY DEF TeamIInv, NextIsFresh, HomesAgree, Members

(* One spawning call goes on to a stage.                                   *)
LEMMA StageMoves ==
    ASSUME TeamFields, NEW m \in Member, NEW to \in SpawnAt, Spawned(m, to),
           UNCHANGED <<closes, bridge>>
    PROVE  /\ CallFields' /\ spawns'[m].stage = to
           /\ \A n \in Member \ {m} : spawns'[n] = spawns[n]
<1>1. spawns \in [Member -> [stage : SpawnAt, index : Index]]
    BY DEF TeamFields, CallFields
<1>2. spawns' = [spawns EXCEPT ![m].stage = to]
    BY DEF Spawned
<1>3. PICK w : w = [spawns[m] EXCEPT !.stage = to]
    OBVIOUS
<1>4. w \in [stage : SpawnAt, index : Index] /\ w.stage = to
    BY <1>1, <1>3
<1>5. spawns' = [spawns EXCEPT ![m] = w]
    BY <1>1, <1>2, <1>3
<1>6. /\ spawns' \in [Member -> [stage : SpawnAt, index : Index]]
      /\ spawns'[m] = w /\ \A n \in Member \ {m} : spawns'[n] = spawns[n]
    BY <1>1, <1>4, <1>5
<1>7. QED
    BY <1>4, <1>6 DEF TeamFields, CallFields

(* A member no other call is concerned with stays in step.                 *)
Onward ==
    /\ orphans \subseteq orphans' /\ missed \subseteq missed'
    /\ leader = "ended" => leader' = "ended"
LeftAlone(n) ==
    /\ spawns'[n] = spawns[n] /\ closed'[n] = closed[n]
    /\ teamRows'[n] = teamRows[n] /\ procs'[n] = procs[n]
    /\ n \in DOMAIN panes' <=> n \in DOMAIN panes
    /\ n \in Members' <=> n \in Members
    /\ BridgeTakes(n)' <=> BridgeTakes(n)
    /\ \A c \in Closer :
         /\ CloserTakes(c, n)' <=> CloserTakes(c, n)
         /\ CloseAt(c, "paneless")' /\ closes'[c].m = n =>
               CloseAt(c, "paneless") /\ closes[c].m = n

LEMMA OthersInStep ==
    ASSUME NEW n \in Member, InStep(n), LeftAlone(n), Onward
    PROVE  InStep(n)'
<1>1. /\ Unregistered(n)' <=> Unregistered(n)
      /\ ToolTakes(n)' <=> ToolTakes(n)
      /\ Spawning(n, "placed")' <=> Spawning(n, "placed")
      /\ Spawning(n, "stored")' <=> Spawning(n, "stored")
      /\ Spawning(n, "answered")' <=> Spawning(n, "answered")
    BY DEF LeftAlone, Unregistered, ToolTakes, Spawning
<1>2. TakenOut(n)' <=> TakenOut(n)
    BY <1>1 DEF LeftAlone, TakenOut
<1>3. OneTakes(n)'
    BY <1>1 DEF InStep, OneTakes, LeftAlone
<1>4. PaneOf(n)'
    BY <1>1, <1>2 DEF InStep, PaneOf, LeftAlone, Onward
<1>5. Closings(n)'
    BY <1>1 DEF InStep, Closings, LeftAlone
<1>6. RowOf(n)'
    BY <1>1 DEF InStep, RowOf, LeftAlone
<1>7. QED
    BY <1>3, <1>4, <1>5, <1>6 DEF InStep

LEMMA TeamGoesOn ==
    ASSUME TeamIInv, TeamFields', NextIsFresh', HomesAgree', LeaderFirst', PaneLast',
           NEW m, ~overtaken' => /\ ~overtaken /\ Onward
                                 /\ \A n \in Member \ {m} : LeftAlone(n)
                                 /\ m \in Member => InStep(m)'
    PROVE  TeamIInv'
<1>1. ASSUME ~overtaken', NEW n \in Member PROVE InStep(n)'
    <2>1. CASE n = m
        BY <1>1, <2>1
    <2>2. CASE n # m
        BY <1>1, <2>2, OthersInStep DEF TeamIInv
    <2>3. QED
        BY <2>1, <2>2
<1>2. QED
    BY <1>1 DEF TeamIInv

-----------------------------------------------------------------------------
(* The leader.                                                             *)
LEMMA Leading ==
    ASSUME TeamIInv
    PROVE  /\ Start => TeamIInv'
           /\ LeaderEnds => TeamIInv'
<1>1. TeamFields
    BY DEF TeamIInv
<1>2. ASSUME Start PROVE TeamIInv'
    <2>1. /\ leader = "none" /\ leader' = "live"
          /\ team' = [team EXCEPT !.there = TRUE]
          /\ UNCHANGED <<homes, procs, unsent, exits, teamRows, panes, spawns, closes,
                         bridge, reload, closed, missed, orphans, overtaken>>
        BY <1>2 DEF Start, history, calls, session, tables
    <2>2. /\ team' \in [there : BOOLEAN, next : Nat, token : Partly(Nat)]
          /\ team'.token = team.token /\ team'.next = team.next
        BY <1>1, <2>1 DEF TeamFields, StoreFields
    <2>3. StoreFields'
        BY <1>1, <2>1, <2>2 DEF TeamFields, StoreFields
    <2>4. TeamFields'
        BY <1>1, <2>1, <2>3, FieldsStay DEF TeamFields
    <2>5. Members' = Members
        BY <2>2 DEF Members
    <2>6. NextIsFresh' /\ HomesAgree' /\ LeaderFirst' /\ PaneLast'
        BY <2>1, <2>2, <2>5
            DEF TeamIInv, NextIsFresh, HomesAgree, LeaderFirst, PaneLast, Spawning
    <2>7. Onward /\ \A n \in Member : LeftAlone(n)
        BY <2>1, <2>5 DEF Onward, LeftAlone, BridgeTakes, CloserTakes, CloseAt
    <2>8. \A n \in Member : ~overtaken => InStep(n)'
        BY <2>7, OthersInStep DEF TeamIInv
    <2>9. QED
        BY <2>1, <2>4, <2>6, <2>8 DEF TeamIInv
<1>3. ASSUME LeaderEnds PROVE TeamIInv'
    <2>1. /\ leader = "live" /\ leader' = "ended"
          /\ UNCHANGED <<team, homes, procs, unsent, exits, teamRows, panes, spawns, closes,
                         bridge, reload, closed, missed, orphans, overtaken>>
        BY <1>3 DEF LeaderEnds, history, calls, session, store, tables
    <2>2. StoreFields'
        BY <1>1, <2>1 DEF TeamFields, StoreFields
    <2>3. TeamFields'
        BY <1>1, <2>1, <2>2, FieldsStay DEF TeamFields
    <2>4. NextIsFresh' /\ HomesAgree' /\ LeaderFirst' /\ PaneLast'
        BY <2>1 DEF TeamIInv, NextIsFresh, HomesAgree, LeaderFirst, PaneLast, Spawning, Members
    <2>5. Onward /\ \A n \in Member : LeftAlone(n)
        BY <2>1 DEF Onward, LeftAlone, BridgeTakes, CloserTakes, CloseAt, Members
    <2>6. \A n \in Member : ~overtaken => InStep(n)'
        BY <2>5, OthersInStep DEF TeamIInv
    <2>7. QED
        BY <2>1, <2>3, <2>4, <2>6 DEF TeamIInv
<1>4. QED
    BY <1>2, <1>3

(* A step that leaves everything but sessions and calls.                   *)
LEMMA RowsStay ==
    ASSUME TeamIInv, UNCHANGED <<team, homes, teamRows, panes, leader>>,
           NEW m \in Member, \A n \in Member \ {m} : spawns'[n] = spawns[n],
           Spawning(m, "none") => team.there \/ Spawning(m, "none")',
           spawns'[m].stage \in {"none", "counted", "spawned", "stored"} =>
               spawns[m].stage \in {"none", "counted", "spawned", "stored"},
           Spawning(m, "stored")' => Spawning(m, "stored")
    PROVE  NextIsFresh' /\ HomesAgree' /\ LeaderFirst' /\ PaneLast'
<1>1. NextIsFresh' /\ HomesAgree'
    BY StoreStays
<1>2. LeaderFirst'
    BY DEF TeamIInv, LeaderFirst, Members, Spawning
<1>3. PaneLast'
    BY DEF TeamIInv, PaneLast, Spawning
<1>4. QED
    BY <1>1, <1>2, <1>3

-----------------------------------------------------------------------------
(* Spawning a member.                                                      *)
LEMMA Configured ==
    ASSUME TeamIInv, NEW m \in Member, Configure(m)
    PROVE  TeamIInv'
<1>1. /\ TeamFields /\ Spawning(m, "none") /\ team.there
      /\ UNCHANGED <<team, homes, procs, unsent, exits, teamRows, panes, leader, closes,
                     bridge, reload, closed, missed, orphans, overtaken>>
    BY DEF TeamIInv, Configure, history, session, store, tables
<1>2. Members \subseteq Member
    BY <1>1, PartlyMember DEF TeamFields, StoreFields, Members
<1>3. PICK w : w = [stage |-> "counted", index |-> Cardinality(Members) + 1]
    OBVIOUS
<1>4. w \in [stage : SpawnAt, index : Index] /\ w.stage = "counted"
    BY <1>2, <1>3, CountFits DEF SpawnAt
<1>5. spawns' = [spawns EXCEPT ![m] = w]
    BY <1>3 DEF Configure
<1>6. /\ spawns' \in [Member -> [stage : SpawnAt, index : Index]]
      /\ spawns'[m] = w /\ \A n \in Member \ {m} : spawns'[n] = spawns[n]
    BY <1>1, <1>4, <1>5 DEF TeamFields, CallFields
<1>7. CallFields'
    BY <1>1, <1>6 DEF TeamFields, CallFields
<1>8. TeamFields'
    BY <1>1, <1>7, FieldsStay DEF TeamFields
<1>9. NextIsFresh' /\ HomesAgree' /\ LeaderFirst' /\ PaneLast'
    BY <1>1, <1>4, <1>6, RowsStay DEF Spawning
<1>10. Onward /\ \A n \in Member \ {m} : LeftAlone(n)
    BY <1>1, <1>6 DEF Onward, LeftAlone, BridgeTakes, CloserTakes, CloseAt, Members
<1>11. ASSUME ~overtaken PROVE InStep(m)'
    <2>1. InStep(m)
        BY <1>11 DEF TeamIInv
    <2>2. /\ Unregistered(m) /\ Unregistered(m)' /\ ~TakenOut(m)
          /\ m \notin Members /\ m \notin DOMAIN panes
        BY <1>1, <1>4, <1>6, <2>1
            DEF TeamIInv, PaneLast, Unregistered, Spawning, InStep, PaneOf
    <2>3. ~TakenOut(m)'
        BY <1>1, <1>4, <1>6, <2>2
            DEF TakenOut, ToolTakes, BridgeTakes, CloserTakes, CloseAt, Spawning
    <2>4. OneTakes(m)'
        BY <2>3 DEF OneTakes, TakenOut
    <2>5. PaneOf(m)'
        BY <1>1, <1>4, <1>6, <2>2, <2>3 DEF PaneOf, Spawning, Members
    <2>6. Closings(m)'
        BY <1>1, <2>1, <2>2 DEF InStep, Closings, CloseAt
    <2>7. RowOf(m)'
        BY <1>1, <1>4, <1>6, <2>2 DEF RowOf, Spawning
    <2>8. QED
        BY <2>4, <2>5, <2>6, <2>7 DEF InStep
<1>12. QED
    BY <1>1, <1>8, <1>9, <1>10, <1>11, TeamGoesOn

(* A step that registers nobody, removes nobody and closes no pane.        *)
Early(m) == spawns[m].stage \in {"none", "counted", "spawned", "stored"}
StageKept(m) ==
    /\ Early(m)' => Early(m)
    /\ Spawning(m, "placed")' <=> Spawning(m, "placed")
    /\ ToolTakes(m)' <=> ToolTakes(m)
    /\ Spawning(m, "answered")' => Spawning(m, "answered") \/ m \notin Members
    /\ Spawning(m, "none") => team.there \/ Spawning(m, "none")'
TakersKept ==
    \A n \in Member :
        /\ BridgeTakes(n)' <=> BridgeTakes(n)
        /\ \A c \in Closer :
             /\ CloserTakes(c, n)' <=> CloserTakes(c, n)
             /\ CloseAt(c, "paneless")' /\ closes'[c].m = n =>
                   CloseAt(c, "paneless") /\ closes[c].m = n

LEMMA Quietly ==
    ASSUME TeamIInv, TeamFields', TakersKept, NEW m \in Member, StageKept(m),
           UNCHANGED <<team, homes, panes, closed, missed, overtaken, leader>>,
           orphans \subseteq orphans',
           \A n \in Member \ {m} :
               spawns'[n] = spawns[n] /\ teamRows'[n] = teamRows[n] /\ procs'[n] = procs[n],
           m \in DOMAIN panes \/ Spawning(m, "stored")' => teamRows'[m] # "none",
           ~overtaken => RowOf(m)'
    PROVE  TeamIInv'
<1>1. NextIsFresh' /\ HomesAgree'
    BY StoreStays
<1>2. LeaderFirst'
    BY DEF TeamIInv, LeaderFirst, Members, Spawning, StageKept
<1>3. PaneLast'
    BY DEF TeamIInv, PaneLast, Spawning, StageKept, Early
<1>4. Onward /\ Members' = Members /\ \A n \in Member \ {m} : LeftAlone(n)
    BY DEF Onward, LeftAlone, TakersKept, Members
<1>5. ASSUME ~overtaken PROVE InStep(m)'
    <2>1. InStep(m)
        BY <1>5 DEF TeamIInv
    <2>2. TakenOut(m)' <=> TakenOut(m)
        BY DEF StageKept, TakersKept, TakenOut
    <2>3. Unregistered(m)' => Unregistered(m)
        BY DEF StageKept, Early, Unregistered, Spawning
    <2>4. OneTakes(m)'
        BY <2>1 DEF InStep, OneTakes, StageKept, TakersKept
    <2>5. PaneOf(m)'
        BY <1>4, <2>1, <2>2, <2>3 DEF InStep, PaneOf, StageKept
    <2>6. Closings(m)'
        BY <2>1, <2>3 DEF InStep, Closings, TakersKept
    <2>7. QED
        BY <1>5, <2>4, <2>5, <2>6 DEF InStep
<1>6. QED
    BY <1>1, <1>2, <1>3, <1>4, <1>5, TeamGoesOn

LEMMA ShellSpawned ==
    ASSUME TeamIInv, NEW m \in Member, SpawnShell(m)
    PROVE  TeamIInv'
<1>1. /\ TeamFields /\ Spawning(m, "counted") /\ Spawned(m, "spawned")
      /\ procs' = [procs EXCEPT ![m] = "live"]
      /\ UNCHANGED <<team, homes, unsent, exits, teamRows, panes, leader, closes,
                     bridge, reload, closed, missed, orphans, overtaken>>
    BY DEF TeamIInv, SpawnShell, history, store, tables
<1>2. /\ CallFields' /\ spawns'[m].stage = "spawned"
      /\ \A n \in Member \ {m} : spawns'[n] = spawns[n]
    BY <1>1, StageMoves DEF SpawnAt
<1>3. SessionFields' /\ \A n \in Member \ {m} : procs'[n] = procs[n]
    BY <1>1 DEF TeamFields, SessionFields
<1>4. TeamFields'
    BY <1>1, <1>2, <1>3, FieldsStay DEF TeamFields
<1>5. TakersKept
    BY <1>1 DEF TakersKept, BridgeTakes, CloserTakes, CloseAt
<1>6. StageKept(m)
    BY <1>1, <1>2 DEF StageKept, Early, ToolTakes, Spawning
<1>7. m \notin DOMAIN panes /\ ~Spawning(m, "stored")'
    BY <1>1, <1>2 DEF TeamIInv, PaneLast, Spawning
<1>8. RowOf(m)'
    BY <1>1, <1>7 DEF RowOf
<1>9. QED
    BY <1>1, <1>2, <1>3, <1>4, <1>5, <1>6, <1>7, <1>8, Quietly

LEMMA SessionStored ==
    ASSUME TeamIInv, NEW m \in Member, StoreSession(m)
    PROVE  TeamIInv'
<1>1. /\ TeamFields /\ Spawning(m, "spawned") /\ Spawned(m, "stored")
      /\ teamRows' = [teamRows EXCEPT ![m] = "live"]
      /\ UNCHANGED <<team, homes, procs, unsent, exits, panes, leader, closes,
                     bridge, reload, closed, missed, orphans, overtaken>>
    BY DEF TeamIInv, StoreSession, history, store, session
<1>2. /\ CallFields' /\ spawns'[m].stage = "stored"
      /\ \A n \in Member \ {m} : spawns'[n] = spawns[n]
    BY <1>1, StageMoves DEF SpawnAt
<1>3. /\ RowFields' /\ teamRows'[m] = "live"
      /\ \A n \in Member \ {m} : teamRows'[n] = teamRows[n]
    BY <1>1 DEF TeamFields, RowFields
<1>4. TeamFields'
    BY <1>1, <1>2, <1>3, FieldsStay DEF TeamFields
<1>5. TakersKept
    BY <1>1 DEF TakersKept, BridgeTakes, CloserTakes, CloseAt
<1>6. StageKept(m)
    BY <1>1, <1>2 DEF StageKept, Early, ToolTakes, Spawning
<1>7. RowOf(m)'
    BY <1>3 DEF RowOf
<1>8. QED
    BY <1>1, <1>2, <1>3, <1>4, <1>5, <1>6, <1>7, Quietly

LEMMA SpawnFailed ==
    ASSUME TeamIInv, NEW m \in Member, SpawnFails(m)
    PROVE  TeamIInv'
<1>1. /\ TeamFields /\ spawns[m].stage \in {"spawned", "stored"} /\ Spawned(m, "failed")
      /\ orphans' = orphans \cup {m}
      /\ UNCHANGED <<team, homes, procs, unsent, exits, teamRows, panes, leader, closes,
                     bridge, reload, closed, missed, overtaken>>
    BY DEF TeamIInv, SpawnFails, store, session, tables
<1>2. /\ CallFields' /\ spawns'[m].stage = "failed"
      /\ \A n \in Member \ {m} : spawns'[n] = spawns[n]
    BY <1>1, StageMoves DEF SpawnAt
<1>3. HistoryFields'
    BY <1>1 DEF TeamFields, HistoryFields
<1>4. TeamFields'
    BY <1>1, <1>2, <1>3, FieldsStay DEF TeamFields
<1>5. TakersKept
    BY <1>1 DEF TakersKept, BridgeTakes, CloserTakes, CloseAt
<1>6. StageKept(m)
    BY <1>1, <1>2 DEF StageKept, Early, ToolTakes, Spawning
<1>7. m \notin DOMAIN panes /\ ~Spawning(m, "stored")'
    BY <1>1, <1>2 DEF TeamIInv, PaneLast, Spawning
<1>8. RowOf(m)'
    BY <1>1, <1>7 DEF RowOf
<1>9. QED
    BY <1>1, <1>2, <1>4, <1>5, <1>6, <1>7, <1>8, Quietly

LEMMA PaneStored ==
    ASSUME TeamIInv, NEW m \in Member, StorePane(m)
    PROVE  TeamIInv'
<1>1. /\ TeamFields /\ Spawning(m, "stored") /\ Spawned(m, "placed")
      /\ panes' = With(panes, m, spawns[m].index)
      /\ UNCHANGED <<team, homes, procs, unsent, exits, teamRows, leader, closes,
                     bridge, reload, closed, missed, orphans, overtaken>>
    BY DEF TeamIInv, StorePane, history, store, session
<1>2. /\ CallFields' /\ spawns'[m].stage = "placed"
      /\ \A n \in Member \ {m} : spawns'[n] = spawns[n]
    BY <1>1, StageMoves DEF SpawnAt
<1>3. panes \in Partly(Index) /\ spawns[m].index \in Index
    BY <1>1 DEF TeamFields, RowFields, CallFields
<1>4. panes' \in Partly(Index) /\ DOMAIN panes' = DOMAIN panes \cup {m}
    <2>1. PICK f : f = panes
        OBVIOUS
    <2>2. PICK v : v = spawns[m].index
        OBVIOUS
    <2>3. With(f, m, v) \in Partly(Index) /\ Extends(With(f, m, v), f, m, v)
        BY <1>3, <2>1, <2>2, WithIs
    <2>4. QED
        BY <1>1, <2>1, <2>2, <2>3 DEF Extends
<1>5. RowFields'
    BY <1>1, <1>4 DEF TeamFields, RowFields
<1>6. TeamFields'
    BY <1>1, <1>2, <1>5, FieldsStay DEF TeamFields
<1>7. NextIsFresh' /\ HomesAgree' /\ Members' = Members
    BY <1>1, StoreStays DEF Members
<1>8. LeaderFirst' /\ PaneLast'
    BY <1>1, <1>2, <1>4 DEF TeamIInv, LeaderFirst, PaneLast, Members, Spawning
<1>9. Onward /\ \A n \in Member \ {m} : LeftAlone(n)
    BY <1>1, <1>2, <1>4 DEF Onward, LeftAlone, BridgeTakes, CloserTakes, CloseAt, Members
<1>10. ASSUME ~overtaken PROVE InStep(m)'
    <2>1. InStep(m) /\ Unregistered(m) /\ Unregistered(m)'
        BY <1>1, <1>2, <1>10 DEF TeamIInv, Unregistered, Spawning
    <2>2. ~TakenOut(m) /\ m \notin Members
        BY <2>1 DEF InStep, PaneOf
    <2>3. ~TakenOut(m)'
        BY <1>1, <1>2, <2>2
            DEF TakenOut, ToolTakes, BridgeTakes, CloserTakes, CloseAt, Spawning
    <2>4. OneTakes(m)'
        BY <2>3 DEF OneTakes, TakenOut
    <2>5. PaneOf(m)'
        BY <1>2, <1>4, <1>7, <2>2, <2>3 DEF PaneOf, Spawning
    <2>6. Closings(m)'
        BY <1>1, <2>1 DEF InStep, Closings, CloseAt
    <2>7. RowOf(m)'
        BY <1>1, <2>1 DEF InStep, RowOf
    <2>8. QED
        BY <2>4, <2>5, <2>6, <2>7 DEF InStep
<1>11. QED
    BY <1>1, <1>6, <1>7, <1>8, <1>9, <1>10, TeamGoesOn

LEMMA MemberRegistered ==
    ASSUME TeamIInv, NEW m \in Member, RegisterMember(m)
    PROVE  TeamIInv'
<1>1. /\ TeamFields /\ Spawning(m, "placed")
      /\ UNCHANGED <<procs, unsent, exits, teamRows, panes, leader, closes,
                     bridge, reload, closed, missed, overtaken>>
    BY DEF TeamIInv, RegisterMember, session, tables
<1>2. PICK to \in {"registered", "done", "failed"} :
          /\ Spawned(m, to)
          /\ to = "failed" => ~team.there /\ orphans' = orphans \cup {m} /\ UNCHANGED store
          /\ to # "failed" => team.there /\ Register(m) /\ UNCHANGED orphans
    BY DEF RegisterMember
<1>3. /\ CallFields' /\ spawns'[m].stage = to
      /\ \A n \in Member \ {m} : spawns'[n] = spawns[n]
    BY <1>1, <1>2, StageMoves DEF SpawnAt
<1>4. HistoryFields' /\ orphans \subseteq orphans'
    BY <1>1, <1>2 DEF TeamFields, HistoryFields
<1>5. team.token \in Partly(Nat) /\ team.next \in Nat /\ team.there \in BOOLEAN
    BY <1>1 DEF TeamFields, StoreFields
<1>6. /\ StoreFields' /\ NextIsFresh' /\ HomesAgree' /\ (team.there => team'.there)
      /\ Members' = IF to = "failed" THEN Members ELSE Members \cup {m}
    <2>1. CASE to = "failed"
        BY <1>1, <1>2, <2>1, StoreStays DEF TeamFields, StoreFields, store, Members
    <2>2. CASE to # "failed"
        <3>1. PICK token : token = With(team.token, m, team.next)
            OBVIOUS
        <3>2. /\ token \in Partly(Nat) /\ DOMAIN token = Members \cup {m}
              /\ token[m] = team.next /\ \A x \in Members \ {m} : token[x] = team.token[x]
            <4>1. PICK f : f = team.token
                OBVIOUS
            <4>2. PICK n : n = team.next
                OBVIOUS
            <4>3. With(f, m, n) \in Partly(Nat) /\ Extends(With(f, m, n), f, m, n)
                BY <1>5, <4>1, <4>2, WithIs
            <4>4. QED
                BY <3>1, <4>1, <4>2, <4>3 DEF Members, Extends
        <3>3. /\ team' = [team EXCEPT !.next = @ + 1, !.token = token]
              /\ homes' = homes \cup {m}
            BY <1>2, <2>2, <3>1 DEF Register
        <3>4. /\ team' \in [there : BOOLEAN, next : Nat, token : Partly(Nat)]
              /\ team'.token = token /\ team'.next = team.next + 1
              /\ team'.there = team.there
            <4>1. team \in [there : BOOLEAN, next : Nat, token : Partly(Nat)]
                BY <1>1 DEF TeamFields, StoreFields
            <4>2. team.next + 1 \in Nat
                BY <1>5
            <4>3. QED
                BY <3>2, <3>3, <4>1, <4>2
        <3>5. StoreFields'
            BY <1>1, <3>3, <3>4 DEF TeamFields, StoreFields
        <3>6. Members' = Members \cup {m} /\ HomesAgree'
            BY <3>2, <3>3, <3>4 DEF Members, TeamIInv, HomesAgree
        <3>7. \A x \in Members : team.token[x] \in Nat
            BY <1>5, PartlyMember DEF Members
        <3>8. NextIsFresh'
            <4> SUFFICES ASSUME NEW x \in Members' PROVE team'.token[x] < team'.next
                BY DEF NextIsFresh
            <4>1. x = m \/ x \in Members \ {m}
                BY <3>6
            <4>2. CASE x = m
                BY <1>5, <3>2, <3>4, <4>2
            <4>3. CASE x \in Members \ {m}
                BY <1>5, <3>2, <3>4, <3>7, <4>3 DEF TeamIInv, NextIsFresh
            <4>4. QED
                BY <4>1, <4>2, <4>3
        <3>9. QED
            BY <2>2, <3>4, <3>5, <3>6, <3>8
    <2>3. QED
        BY <2>1, <2>2
<1>7. TeamFields'
    BY <1>1, <1>3, <1>4, <1>6, FieldsStay DEF TeamFields
<1>8. LeaderFirst' /\ PaneLast'
    BY <1>1, <1>3 DEF TeamIInv, LeaderFirst, PaneLast, Spawning
<1>9. Onward /\ \A n \in Member \ {m} : LeftAlone(n)
    BY <1>1, <1>3, <1>4, <1>6 DEF Onward, LeftAlone, BridgeTakes, CloserTakes, CloseAt
<1>10. ASSUME ~overtaken PROVE InStep(m)'
    <2>1. InStep(m) /\ Unregistered(m) /\ ~Unregistered(m)'
        BY <1>1, <1>3, <1>10 DEF TeamIInv, Unregistered, Spawning
    <2>2. ~TakenOut(m) /\ m \notin Members /\ m \in DOMAIN panes
        BY <1>1, <2>1 DEF InStep, PaneOf
    <2>3. ~TakenOut(m)'
        BY <1>1, <1>3, <2>2
            DEF TakenOut, ToolTakes, BridgeTakes, CloserTakes, CloseAt, Spawning
    <2>4. OneTakes(m)'
        BY <2>3 DEF OneTakes, TakenOut
    <2>5. PaneOf(m)'
        BY <1>1, <1>2, <1>3, <1>6, <2>1, <2>2, <2>3 DEF PaneOf, Spawning
    <2>6. Closings(m)'
        BY <1>1, <2>1 DEF InStep, Closings, CloseAt
    <2>7. RowOf(m)'
        BY <1>1, <2>1, <2>2, <1>3 DEF InStep, RowOf, Spawning
    <2>8. QED
        BY <2>4, <2>5, <2>6, <2>7 DEF InStep
<1>11. QED
    BY <1>1, <1>6, <1>7, <1>8, <1>9, <1>10, TeamGoesOn

-----------------------------------------------------------------------------
(* The sessions of members, and the tool that waits for one.               *)
LEMMA SessionsEnd ==
    ASSUME TeamIInv, NEW m \in Member
    PROVE  /\ End(m) => TeamIInv'
           /\ Detach(m) => TeamIInv'
<1>1. TeamFields
    BY DEF TeamIInv
<1>2. ASSUME NEW s \in {"ended", "detached"}, procs[m] # "ended" \/ s = "ended",
             procs' = [procs EXCEPT ![m] = s], unsent' = unsent \cup {m},
             UNCHANGED <<team, homes, exits, teamRows, panes, leader, spawns, closes,
                         bridge, reload, closed, missed, orphans, overtaken>>
      PROVE  TeamIInv'
    <2>1. /\ SessionFields' /\ procs'[m] = s
          /\ \A n \in Member \ {m} : procs'[n] = procs[n]
        BY <1>1, <1>2 DEF TeamFields, SessionFields
    <2>2. TeamFields'
        BY <1>1, <1>2, <2>1, FieldsStay DEF TeamFields
    <2>3. TakersKept
        BY <1>2 DEF TakersKept, BridgeTakes, CloserTakes, CloseAt
    <2>4. StageKept(m)
        BY <1>2 DEF StageKept, Early, ToolTakes, Spawning
    <2>5. m \in DOMAIN panes \/ Spawning(m, "stored")' => teamRows'[m] # "none"
        BY <1>2 DEF TeamIInv, PaneLast, Spawning
    <2>6. ~overtaken => RowOf(m)'
        BY <1>2, <2>1 DEF TeamIInv, InStep, RowOf, Spawning
    <2>7. QED
        BY <1>2, <2>1, <2>2, <2>3, <2>4, <2>5, <2>6, Quietly
<1>3. ASSUME End(m) PROVE TeamIInv'
    BY <1>2, <1>3 DEF End, history, calls, store, tables
<1>4. ASSUME Detach(m) PROVE TeamIInv'
    BY <1>2, <1>4 DEF Detach, history, calls, store, tables
<1>5. QED
    BY <1>3, <1>4

(* A waiting call goes from one stage to another on its way.               *)
Later == {"registered", "looked", "subscribed", "heard", "timed out"}

LEMMA WaitGoesOn ==
    ASSUME TeamIInv, NEW m \in Member, spawns[m].stage \in Later,
           NEW to \in Later \cup {"answered"}, Spawned(m, to),
           to = "answered" => m \notin Members, SessionFields',
           UNCHANGED <<team, homes, procs, teamRows, panes, leader, closes,
                       bridge, reload, closed, missed, orphans, overtaken>>
    PROVE  TeamIInv'
<1>1. TeamFields
    BY DEF TeamIInv
<1>2. /\ CallFields' /\ spawns'[m].stage = to
      /\ \A n \in Member \ {m} : spawns'[n] = spawns[n]
    BY <1>1, StageMoves DEF SpawnAt, Later
<1>3. TeamFields'
    BY <1>1, <1>2, FieldsStay DEF TeamFields
<1>4. TakersKept
    BY DEF TakersKept, BridgeTakes, CloserTakes, CloseAt
<1>5. StageKept(m)
    BY <1>2 DEF StageKept, Early, ToolTakes, Spawning, Later
<1>6. m \in DOMAIN panes \/ Spawning(m, "stored")' => teamRows'[m] # "none"
    BY <1>2 DEF TeamIInv, PaneLast, Spawning, Later
<1>7. ~overtaken => RowOf(m)'
    BY <1>2 DEF TeamIInv, InStep, RowOf, Spawning, Later
<1>8. QED
    BY <1>2, <1>3, <1>4, <1>5, <1>6, <1>7, Quietly

LEMMA Waits ==
    ASSUME TeamIInv, NEW m \in Member
    PROVE  /\ LookAtMember(m) => TeamIInv'
           /\ Listen(m) => TeamIInv'
           /\ WaitTimesOut(m) => TeamIInv'
<1>1. TeamFields
    BY DEF TeamIInv
<1>2. ASSUME LookAtMember(m) PROVE TeamIInv'
    <2>1. /\ spawns[m].stage = "registered"
          /\ \E to \in {"heard", "looked"} : Spawned(m, to)
          /\ UNCHANGED <<team, homes, procs, unsent, exits, teamRows, panes, leader, closes,
                         bridge, reload, closed, missed, orphans, overtaken>>
        BY <1>2 DEF LookAtMember, Spawning, history, session, store, tables
    <2>2. QED
        BY <1>1, <2>1, FieldsStay, WaitGoesOn DEF Later
<1>3. ASSUME Listen(m) PROVE TeamIInv'
    <2>1. /\ spawns[m].stage = "looked" /\ Spawned(m, "subscribed")
          /\ UNCHANGED <<team, homes, procs, unsent, exits, teamRows, panes, leader, closes,
                         bridge, reload, closed, missed, orphans, overtaken>>
        BY <1>3 DEF Listen, Spawning, history, session, store, tables
    <2>2. QED
        BY <1>1, <2>1, FieldsStay, WaitGoesOn DEF Later
<1>4. ASSUME WaitTimesOut(m) PROVE TeamIInv'
    <2>1. /\ spawns[m].stage = "subscribed" /\ Spawned(m, "timed out")
          /\ UNCHANGED <<team, homes, procs, unsent, exits, teamRows, panes, leader, closes,
                         bridge, reload, closed, missed, orphans, overtaken>>
        BY <1>4 DEF WaitTimesOut, Spawning, history, session, store, tables
    <2>2. QED
        BY <1>1, <2>1, FieldsStay, WaitGoesOn DEF Later
<1>5. QED
    BY <1>2, <1>3, <1>4

(* A step that leaves the store, the rows and the calls of every member.   *)
LEMMA RestStays ==
    ASSUME TeamIInv, TeamFields', TakersKept,
           UNCHANGED <<team, homes, teamRows, panes, procs, leader, spawns, closed, overtaken>>,
           orphans \subseteq orphans', missed \subseteq missed'
    PROVE  TeamIInv'
<1>1. NextIsFresh' /\ HomesAgree'
    BY StoreStays
<1>2. LeaderFirst' /\ PaneLast'
    BY DEF TeamIInv, LeaderFirst, PaneLast, Members, Spawning
<1>3. Onward /\ \A n \in Member : LeftAlone(n)
    BY DEF Onward, LeftAlone, TakersKept, Members
<1>4. \A n \in Member : ~overtaken' => InStep(n)'
    BY <1>3, OthersInStep DEF TeamIInv
<1>5. QED
    BY <1>1, <1>2, <1>4 DEF TeamIInv

LEMMA ExitSent ==
    ASSUME TeamIInv, NEW m \in Member, SendExited(m)
    PROVE  TeamIInv'
<1>1. TeamFields /\ exits \in Seq(Member) /\ unsent \subseteq Member
    BY DEF TeamIInv, TeamFields, SessionFields
<1>2. /\ unsent' = unsent \ {m} /\ exits' = Append(exits, m)
      /\ UNCHANGED <<team, homes, procs, teamRows, panes, leader, closes,
                     bridge, reload, closed, missed, orphans, overtaken>>
    BY DEF SendExited, history, store, tables
<1>3. exits' \in Seq(Member) /\ unsent' \subseteq Member
    BY <1>1, <1>2
<1>4. SessionFields'
    BY <1>1, <1>2, <1>3 DEF TeamFields, SessionFields
<1>5. CASE Spawning(m, "subscribed")
    <2>1. spawns[m].stage = "subscribed" /\ Spawned(m, "heard")
        BY <1>5 DEF SendExited, Spawning
    <2>2. QED
        BY <1>2, <1>4, <2>1, WaitGoesOn DEF Later
<1>6. CASE ~Spawning(m, "subscribed")
    <2>1. UNCHANGED spawns
        BY <1>6 DEF SendExited
    <2>2. TeamFields'
        BY <1>1, <1>2, <1>4, <2>1, FieldsStay DEF TeamFields
    <2>3. TakersKept
        BY <1>2 DEF TakersKept, BridgeTakes, CloserTakes, CloseAt
    <2>4. QED
        BY <1>2, <2>1, <2>2, <2>3, RestStays
<1>7. QED
    BY <1>5, <1>6

LEMMA RowsRead ==
    ASSUME TeamIInv
    PROVE  /\ ReadSessions => TeamIInv'
           /\ ReadPanes => TeamIInv'
<1>1. /\ TeamFields
      /\ reload \in [stage : {"none", "sessions", "panes"}, live : SUBSET Member,
                     index : Partly(Index)]
      /\ panes \in Partly(Index)
    BY DEF TeamIInv, TeamFields, RowFields
<1>2. ASSUME NEW r \in [stage : {"none", "sessions", "panes"}, live : SUBSET Member,
                        index : Partly(Index)],
             reload' = r,
             UNCHANGED <<team, homes, procs, unsent, exits, teamRows, panes, leader, spawns,
                         closes, bridge, closed, missed, orphans, overtaken>>
      PROVE  TeamIInv'
    <2>1. RowFields'
        BY <1>1, <1>2 DEF TeamFields, RowFields
    <2>2. TeamFields'
        BY <1>1, <1>2, <2>1, FieldsStay DEF TeamFields
    <2>3. TakersKept
        BY <1>2 DEF TakersKept, BridgeTakes, CloserTakes, CloseAt
    <2>4. QED
        BY <1>2, <2>2, <2>3, RestStays
<1>3. ASSUME ReadSessions PROVE TeamIInv'
    <2>1. PICK r : r = [stage |-> "sessions", live |-> MembersLive, index |-> <<>>]
        OBVIOUS
    <2>2. <<>> \in Partly(Index)
        <3>1. <<>> \in [{} -> Index]
            OBVIOUS
        <3>2. QED
            BY <3>1 DEF Partly
    <2>3. r \in [stage : {"none", "sessions", "panes"}, live : SUBSET Member,
                 index : Partly(Index)]
        BY <2>1, <2>2 DEF MembersLive
    <2>4. QED
        BY <1>2, <1>3, <2>1, <2>3 DEF ReadSessions, session, store, tables
<1>4. ASSUME ReadPanes PROVE TeamIInv'
    <2>1. PICK index : index = [m \in DOMAIN panes \cap reload.live |-> panes[m]]
        OBVIOUS
    <2>2. index \in Partly(Index)
        <3>1. panes \in [DOMAIN panes -> Index] /\ DOMAIN panes \subseteq Member
            BY <1>1, PartlyMember
        <3>2. index \in [DOMAIN panes \cap reload.live -> Index]
            BY <2>1, <3>1
        <3>3. QED
            BY <3>1, <3>2 DEF Partly
    <2>3. PICK r : r = [reload EXCEPT !.stage = "panes", !.index = index]
        OBVIOUS
    <2>4. r \in [stage : {"none", "sessions", "panes"}, live : SUBSET Member,
                 index : Partly(Index)]
        BY <1>1, <2>2, <2>3
    <2>5. reload' = r
        BY <1>4, <2>1, <2>3 DEF ReadPanes
    <2>6. QED
        BY <1>2, <1>4, <2>4, <2>5 DEF ReadPanes, history, session, store, tables
<1>5. QED
    BY <1>3, <1>4

-----------------------------------------------------------------------------
(* Who takes a member out of the team, and closes its pane.                *)
LEMMA Removes ==
    ASSUME TeamIInv, NEW m \in Member, RemoveMember(m), UNCHANGED <<leader, overtaken>>
    PROVE  /\ StoreFields' /\ NextIsFresh' /\ HomesAgree'
           /\ Members' = Members \ {m} /\ team'.there = team.there
<1>1. /\ team \in [there : BOOLEAN, next : Nat, token : Partly(Nat)]
      /\ homes \subseteq Member /\ overtaken \in BOOLEAN /\ leader \in {"none", "live", "ended"}
    BY DEF TeamIInv, TeamFields, StoreFields
<1>2. PICK f : f = team.token
    OBVIOUS
<1>3. PICK token : token = Dropped(f, m)
    OBVIOUS
<1>4. token \in Partly(Nat) /\ Lacks(token, f, m)
    BY <1>1, <1>2, <1>3, DroppedIs
<1>5. team' = [team EXCEPT !.token = token] /\ homes' = homes \ {m}
    BY <1>2, <1>3 DEF RemoveMember
<1>6. /\ team' \in [there : BOOLEAN, next : Nat, token : Partly(Nat)]
      /\ team'.token = token /\ team'.next = team.next /\ team'.there = team.there
    BY <1>1, <1>4, <1>5
<1>7. StoreFields'
    BY <1>1, <1>5, <1>6 DEF StoreFields
<1>8. /\ Members' = Members \ {m}
      /\ \A x \in Members' : team'.token[x] = team.token[x]
    BY <1>2, <1>4, <1>6 DEF Members, Lacks
<1>9. NextIsFresh' /\ HomesAgree'
    BY <1>5, <1>6, <1>8 DEF TeamIInv, NextIsFresh, HomesAgree
<1>10. QED
    BY <1>6, <1>7, <1>8, <1>9

LEMMA TakesOut ==
    ASSUME TeamIInv, ~overtaken, NEW m \in Members, m \in Member, m \notin Members',
           TakenOut(m)', OneTakes(m)', ~Unregistered(m)', ~Spawning(m, "answered")',
           UNCHANGED <<panes, teamRows, procs, closed>>,
           \A c \in Closer : CloseAt(c, "paneless")' /\ closes'[c].m = m =>
               CloseAt(c, "paneless") /\ closes[c].m = m
    PROVE  InStep(m)'
<1>1. InStep(m)
    BY DEF TeamIInv
<1>2. m \in DOMAIN panes /\ ~Unregistered(m)
    BY <1>1 DEF InStep, PaneOf
<1>3. PaneOf(m)'
    BY <1>2 DEF PaneOf, Unregistered, Spawning
<1>4. Closings(m)'
    BY <1>1, <1>2 DEF InStep, Closings
<1>5. RowOf(m)'
    BY <1>1, <1>2 DEF InStep, RowOf
<1>6. QED
    BY <1>3, <1>4, <1>5 DEF InStep

LEMMA Announces ==
    ASSUME TeamIInv, NEW m \in Member, Announce(m), UNCHANGED <<teamRows, reload, missed, orphans>>
    PROVE  /\ RowFields' /\ HistoryFields' /\ DOMAIN panes' = DOMAIN panes \ {m}
           /\ closed'[m] = closed[m] + 1 /\ \A n \in Member \ {m} : closed'[n] = closed[n]
<1>1. panes \in Partly(Index) /\ closed \in [Member -> Nat] /\ TeamFields
    BY DEF TeamIInv, TeamFields, RowFields, HistoryFields
<1>2. PICK f : f = panes
    OBVIOUS
<1>3. Dropped(f, m) \in Partly(Index) /\ Lacks(Dropped(f, m), f, m)
    BY <1>1, <1>2, DroppedIs
<1>4. panes' \in Partly(Index) /\ DOMAIN panes' = DOMAIN panes \ {m}
    BY <1>2, <1>3 DEF Announce, Lacks
<1>5. RowFields'
    BY <1>1, <1>4 DEF TeamFields, RowFields
<1>6. /\ closed' \in [Member -> Nat] /\ closed'[m] = closed[m] + 1
      /\ \A n \in Member \ {m} : closed'[n] = closed[n]
    BY <1>1 DEF Announce
<1>7. HistoryFields'
    BY <1>1, <1>6 DEF TeamFields, HistoryFields
<1>8. QED
    BY <1>4, <1>5, <1>6, <1>7

(* The one that took the member out announces it, and there is no other.   *)
LEMMA Announced ==
    ASSUME TeamIInv, NEW m \in Member, TeamFields', UNCHANGED <<team, homes, leader, overtaken>>,
           UNCHANGED <<teamRows, procs>>, orphans \subseteq orphans', missed \subseteq missed',
           DOMAIN panes' = DOMAIN panes \ {m}, closed'[m] = closed[m] + 1,
           \A n \in Member \ {m} :
               /\ closed'[n] = closed[n] /\ spawns'[n] = spawns[n]
               /\ BridgeTakes(n)' <=> BridgeTakes(n)
               /\ \A c \in Closer : /\ CloserTakes(c, n)' <=> CloserTakes(c, n)
                                    /\ CloseAt(c, "paneless")' /\ closes'[c].m = n =>
                                          CloseAt(c, "paneless") /\ closes[c].m = n,
           TakenOut(m), ~overtaken => ~TakenOut(m)',
           \/ spawns'[m] = spawns[m]
           \/ spawns[m].stage = "removed" /\ spawns'[m].stage = "answered"
    PROVE  TeamIInv'
<1>1. NextIsFresh' /\ HomesAgree' /\ Members' = Members
    BY StoreStays DEF Members
<1>2. LeaderFirst' /\ PaneLast'
    BY <1>1 DEF TeamIInv, LeaderFirst, PaneLast, Spawning
<1>3. Onward /\ \A n \in Member \ {m} : LeftAlone(n)
    BY <1>1 DEF Onward, LeftAlone
<1>4. ASSUME ~overtaken PROVE InStep(m)'
    <2>1. InStep(m)
        BY <1>4 DEF TeamIInv
    <2>2. /\ ~Unregistered(m) /\ m \in DOMAIN panes /\ m \notin Members
          /\ closed[m] = 0 /\ closed'[m] = 1
        BY <2>1 DEF InStep, PaneOf, Closings
    <2>3. ~Unregistered(m)' /\ ~Spawning(m, "placed")' /\ ~Spawning(m, "stored")'
        BY <2>2 DEF Unregistered, Spawning
    <2>4. OneTakes(m)'
        BY <1>4 DEF OneTakes, TakenOut
    <2>5. PaneOf(m)'
        BY <1>1, <1>4, <2>2, <2>3 DEF PaneOf
    <2>6. Closings(m)'
        BY <2>2, <2>3 DEF Closings
    <2>7. RowOf(m)'
        BY <2>3 DEF RowOf
    <2>8. QED
        BY <2>4, <2>5, <2>6, <2>7 DEF InStep
<1>5. QED
    BY <1>1, <1>2, <1>3, <1>4, TeamGoesOn

(* The tool that waited.                                                   *)
LEMMA ToolGoesOn ==
    ASSUME TeamIInv, NEW m \in Member
    PROVE  /\ ToolRemoves(m) => TeamIInv'
           /\ ToolClosesPane(m) => TeamIInv'
<1>1. TeamFields /\ homes = Members
    BY DEF TeamIInv, HomesAgree
<1>2. ASSUME ToolRemoves(m) PROVE TeamIInv'
    <2>1. /\ spawns[m].stage = "heard"
          /\ UNCHANGED <<procs, unsent, exits, teamRows, panes, leader, closes,
                         bridge, reload, closed, missed, orphans, overtaken>>
        BY <1>2 DEF ToolRemoves, Spawning, history, session, tables
    <2>2. CASE m \notin homes
        <3>1. Spawned(m, "answered") /\ UNCHANGED store
            BY <1>2, <2>2 DEF ToolRemoves
        <3>2. QED
            BY <1>1, <2>1, <2>2, <3>1, FieldsStay, WaitGoesOn DEF Later, store
    <2>3. CASE m \in homes
        <3>1. Spawned(m, "removed") /\ RemoveMember(m)
            BY <1>2, <2>3 DEF ToolRemoves
        <3>2. /\ CallFields' /\ spawns'[m].stage = "removed"
              /\ \A n \in Member \ {m} : spawns'[n] = spawns[n]
            BY <1>1, <2>1, <3>1, StageMoves DEF SpawnAt
        <3>3. /\ StoreFields' /\ NextIsFresh' /\ HomesAgree'
              /\ Members' = Members \ {m} /\ team'.there = team.there
            BY <2>1, <3>1, Removes
        <3>4. TeamFields'
            BY <1>1, <2>1, <3>2, <3>3, FieldsStay DEF TeamFields
        <3>5. LeaderFirst' /\ PaneLast'
            BY <2>1, <3>2, <3>3 DEF TeamIInv, LeaderFirst, PaneLast, Spawning
        <3>6. Onward /\ \A n \in Member \ {m} : LeftAlone(n)
            BY <2>1, <3>2, <3>3 DEF Onward, LeftAlone, BridgeTakes, CloserTakes, CloseAt
        <3>7. ASSUME ~overtaken PROVE InStep(m)'
            <4>1. InStep(m) /\ m \in Members
                BY <1>1, <2>3, <3>7 DEF TeamIInv
            <4>2. ~TakenOut(m)
                BY <4>1 DEF InStep, PaneOf
            <4>3. ToolTakes(m)' /\ ~BridgeTakes(m)' /\ \A c \in Closer : ~CloserTakes(c, m)'
                BY <2>1, <3>2, <4>2
                    DEF TakenOut, ToolTakes, BridgeTakes, CloserTakes, CloseAt, Spawning
            <4>4. TakenOut(m)' /\ OneTakes(m)'
                BY <4>3 DEF TakenOut, OneTakes
            <4>5. ~Unregistered(m)' /\ ~Spawning(m, "answered")'
                BY <3>2 DEF Unregistered, Spawning
            <4>6. QED
                BY <2>1, <3>3, <3>7, <4>1, <4>4, <4>5, TakesOut DEF CloseAt
        <3>8. QED
            BY <2>1, <3>3, <3>4, <3>5, <3>6, <3>7, TeamGoesOn
    <2>4. QED
        BY <2>2, <2>3
<1>3. ASSUME ToolClosesPane(m) PROVE TeamIInv'
    <2>1. /\ spawns[m].stage = "removed" /\ Spawned(m, "answered") /\ Announce(m)
          /\ UNCHANGED <<team, homes, procs, unsent, exits, teamRows, leader, closes,
                         bridge, reload, missed, orphans, overtaken>>
        BY <1>3 DEF ToolClosesPane, Spawning, session, store
    <2>2. /\ CallFields' /\ spawns'[m].stage = "answered"
          /\ \A n \in Member \ {m} : spawns'[n] = spawns[n]
        BY <1>1, <2>1, StageMoves DEF SpawnAt
    <2>3. /\ RowFields' /\ HistoryFields' /\ DOMAIN panes' = DOMAIN panes \ {m}
          /\ closed'[m] = closed[m] + 1 /\ \A n \in Member \ {m} : closed'[n] = closed[n]
        BY <2>1, Announces
    <2>4. TeamFields'
        BY <1>1, <2>1, <2>2, <2>3, FieldsStay DEF TeamFields
    <2>5. ToolTakes(m) /\ ~ToolTakes(m)' /\ TakenOut(m)
        BY <2>1, <2>2 DEF ToolTakes, TakenOut, Spawning
    <2>6. \A n \in Member : /\ BridgeTakes(n)' <=> BridgeTakes(n)
                            /\ \A c \in Closer : CloserTakes(c, n)' <=> CloserTakes(c, n)
        BY <2>1 DEF BridgeTakes, CloserTakes, CloseAt
    <2>7. ~overtaken => ~TakenOut(m)'
        BY <2>5, <2>6 DEF TeamIInv, InStep, OneTakes, TakenOut
    <2>8. QED
        BY <2>1, <2>2, <2>3, <2>4, <2>5, <2>6, <2>7, Announced DEF CloseAt
<1>4. QED
    BY <1>2, <1>3

(* The bridge.                                                             *)
LEMMA BridgeGoesOn ==
    ASSUME TeamIInv
    PROVE  /\ BridgeReceives => TeamIInv'
           /\ BridgeRemoves => TeamIInv'
           /\ BridgeClosesPane => TeamIInv'
<1>1. TeamFields /\ homes = Members
    BY DEF TeamIInv, HomesAgree
<1>2. ASSUME BridgeReceives PROVE TeamIInv'
    <2>1. /\ bridge.stage = "idle" /\ exits # <<>> /\ exits \in Seq(Member)
          /\ exits' = Tail(exits)
          /\ UNCHANGED <<team, homes, procs, unsent, panes, leader, spawns, closes,
                         reload, closed, missed, orphans, overtaken>>
        BY <1>1, <1>2 DEF BridgeReceives, TeamFields, SessionFields, history, store
    <2>2. PICK m \in Member :
              /\ bridge' = [stage |-> "row", m |-> m]
              /\ teamRows' = [teamRows EXCEPT ![m] =
                    IF procs[m] = "ended" THEN "complete" ELSE "live"]
        <3>1. Head(exits) \in Member
            BY <2>1
        <3>2. QED
            BY <1>2, <3>1 DEF BridgeReceives
    <2>3. SessionFields'
        <3>1. exits' \in Seq(Member)
            BY <2>1
        <3>2. QED
            BY <1>1, <2>1, <3>1 DEF TeamFields, SessionFields
    <2>4. /\ RowFields' /\ \A n \in Member \ {m} : teamRows'[n] = teamRows[n]
          /\ teamRows'[m] = IF procs[m] = "ended" THEN "complete" ELSE "live"
        BY <1>1, <2>1, <2>2 DEF TeamFields, RowFields
    <2>5. CallFields' /\ bridge'.stage = "row"
        BY <1>1, <2>1, <2>2 DEF TeamFields, CallFields, AnyMember
    <2>6. TeamFields'
        BY <1>1, <2>1, <2>3, <2>4, <2>5, FieldsStay DEF TeamFields
    <2>7. TakersKept
        BY <2>1, <2>5 DEF TakersKept, BridgeTakes, CloserTakes, CloseAt
    <2>8. StageKept(m)
        BY <2>1 DEF StageKept, Early, ToolTakes, Spawning
    <2>9. RowOf(m)' /\ teamRows'[m] # "none"
        BY <2>1, <2>4 DEF RowOf
    <2>10. QED
        BY <2>1, <2>4, <2>6, <2>7, <2>8, <2>9, Quietly
<1>3. ASSUME BridgeRemoves PROVE TeamIInv'
    <2>1. /\ bridge.stage = "row" /\ bridge.m \in Member
          /\ UNCHANGED <<procs, unsent, exits, teamRows, panes, leader, spawns, closes,
                         reload, closed, orphans, overtaken>>
          /\ missed' = missed \cup (IF bridge.m \in Members THEN {} ELSE {bridge.m})
        BY <1>1, <1>3 DEF BridgeRemoves, TeamFields, CallFields, session, tables
    <2>2. HistoryFields' /\ missed \subseteq missed'
        BY <1>1, <2>1 DEF TeamFields, HistoryFields
    <2>3. CASE bridge.m \notin homes
        <3>1. UNCHANGED <<team, homes>> /\ bridge' = [stage |-> "idle", m |-> NoMember]
            BY <1>3, <2>3 DEF BridgeRemoves, IsMember, store
        <3>2. CallFields'
            BY <1>1, <2>1, <3>1 DEF TeamFields, CallFields, AnyMember
        <3>3. TeamFields'
            BY <1>1, <2>1, <2>2, <3>1, <3>2, FieldsStay DEF TeamFields
        <3>4. TakersKept
            BY <2>1, <3>1 DEF TakersKept, BridgeTakes, CloserTakes, CloseAt
        <3>5. QED
            BY <2>1, <2>2, <3>1, <3>3, <3>4, RestStays
    <2>4. CASE bridge.m \in homes
        <3>1. PICK m \in Member : m = bridge.m
            BY <2>1
        <3>2. RemoveMember(m) /\ bridge' = [bridge EXCEPT !.stage = "pane"]
            BY <1>3, <2>4, <3>1 DEF BridgeRemoves, IsMember
        <3>3. CallFields' /\ bridge'.stage = "pane" /\ bridge'.m = m
            BY <1>1, <2>1, <3>1, <3>2 DEF TeamFields, CallFields
        <3>4. /\ StoreFields' /\ NextIsFresh' /\ HomesAgree'
              /\ Members' = Members \ {m} /\ team'.there = team.there
            BY <2>1, <3>2, Removes
        <3>5. TeamFields'
            BY <1>1, <2>1, <2>2, <3>3, <3>4, FieldsStay DEF TeamFields
        <3>6. LeaderFirst' /\ PaneLast'
            BY <2>1, <3>4 DEF TeamIInv, LeaderFirst, PaneLast, Spawning
        <3>7. Onward /\ \A n \in Member \ {m} : LeftAlone(n)
            BY <2>1, <2>2, <3>3, <3>4 DEF Onward, LeftAlone, BridgeTakes, CloserTakes, CloseAt
        <3>8. ASSUME ~overtaken PROVE InStep(m)'
            <4>1. InStep(m) /\ m \in Members
                BY <1>1, <2>4, <3>1, <3>8 DEF TeamIInv
            <4>2. ~TakenOut(m) /\ ~Unregistered(m) /\ ~Spawning(m, "answered")
                BY <4>1 DEF InStep, PaneOf
            <4>3. BridgeTakes(m)' /\ ~ToolTakes(m)' /\ \A c \in Closer : ~CloserTakes(c, m)'
                BY <2>1, <3>3, <4>2
                    DEF TakenOut, ToolTakes, BridgeTakes, CloserTakes, CloseAt, Spawning
            <4>4. TakenOut(m)' /\ OneTakes(m)'
                BY <4>3 DEF TakenOut, OneTakes
            <4>5. ~Unregistered(m)' /\ ~Spawning(m, "answered")'
                BY <2>1, <4>2 DEF Unregistered, Spawning
            <4>6. QED
                BY <2>1, <3>4, <3>8, <4>1, <4>4, <4>5, TakesOut DEF CloseAt
        <3>9. QED
            BY <2>1, <3>4, <3>5, <3>6, <3>7, <3>8, TeamGoesOn
    <2>5. QED
        BY <2>3, <2>4
<1>4. ASSUME BridgeClosesPane PROVE TeamIInv'
    <2>1. /\ bridge.stage = "pane" /\ bridge.m \in Member
          /\ bridge' = [stage |-> "idle", m |-> NoMember]
          /\ UNCHANGED <<team, homes, procs, unsent, exits, teamRows, leader, spawns, closes,
                         reload, missed, orphans, overtaken>>
        BY <1>1, <1>4 DEF BridgeClosesPane, TeamFields, CallFields, session, store
    <2>2. PICK m \in Member : m = bridge.m
        BY <2>1
    <2>3. Announce(m)
        BY <1>4, <2>2 DEF BridgeClosesPane
    <2>4. CallFields'
        BY <1>1, <2>1 DEF TeamFields, CallFields, AnyMember
    <2>5. /\ RowFields' /\ HistoryFields' /\ DOMAIN panes' = DOMAIN panes \ {m}
          /\ closed'[m] = closed[m] + 1 /\ \A n \in Member \ {m} : closed'[n] = closed[n]
        BY <2>1, <2>3, Announces
    <2>6. TeamFields'
        BY <1>1, <2>1, <2>4, <2>5, FieldsStay DEF TeamFields
    <2>7. BridgeTakes(m) /\ TakenOut(m) /\ \A n \in Member : ~BridgeTakes(n)'
        BY <2>1, <2>2 DEF BridgeTakes, TakenOut
    <2>8. /\ \A n \in Member \ {m} : BridgeTakes(n)' <=> BridgeTakes(n)
          /\ \A n \in Member : /\ ToolTakes(n)' <=> ToolTakes(n)
                               /\ \A c \in Closer : CloserTakes(c, n)' <=> CloserTakes(c, n)
        BY <2>1, <2>2 DEF ToolTakes, BridgeTakes, CloserTakes, CloseAt, Spawning
    <2>9. ~overtaken => ~TakenOut(m)'
        BY <2>7, <2>8 DEF TeamIInv, InStep, OneTakes, TakenOut
    <2>10. QED
        BY <2>1, <2>5, <2>6, <2>7, <2>8, <2>9, Announced DEF CloseAt
<1>5. QED
    BY <1>2, <1>3, <1>4

-----------------------------------------------------------------------------
(* Closing a member.                                                       *)
LEMMA CloseMoves ==
    ASSUME TeamFields, NEW c \in Closer, closes[c].stage # "idle",
           NEW to \in CloseStage, Closes(c, to), UNCHANGED <<spawns, bridge>>
    PROVE  /\ CallFields' /\ closes'[c].stage = to /\ closes'[c].m = closes[c].m
           /\ \A d \in Closer \ {c} : closes'[d] = closes[d]
<1>1. closes \in [Closer -> [stage : CloseStage, m : AnyMember, row : BOOLEAN]]
    BY DEF TeamFields, CallFields
<1>2. closes' = [closes EXCEPT ![c].stage = to]
    BY DEF Closes
<1>3. PICK w : w = [closes[c] EXCEPT !.stage = to]
    OBVIOUS
<1>4. /\ w \in [stage : CloseStage, m : AnyMember, row : BOOLEAN]
      /\ w.stage = to /\ w.m = closes[c].m
    BY <1>1, <1>3
<1>5. closes' = [closes EXCEPT ![c] = w]
    BY <1>1, <1>2, <1>3
<1>6. /\ closes' \in [Closer -> [stage : CloseStage, m : AnyMember, row : BOOLEAN]]
      /\ closes'[c] = w /\ \A d \in Closer \ {c} : closes'[d] = closes[d]
    BY <1>1, <1>4, <1>5
<1>7. QED
    BY <1>4, <1>6 DEF TeamFields, CallFields

LEMMA AskedToClose ==
    ASSUME TeamIInv, NEW c \in Closer, NEW m \in Member, AskToClose(c, m)
    PROVE  TeamIInv'
<1>1. /\ TeamFields /\ closes[c].stage = "idle"
      /\ UNCHANGED <<team, homes, procs, unsent, exits, teamRows, panes, leader, spawns,
                     bridge, reload, closed, missed, orphans, overtaken>>
    BY DEF TeamIInv, AskToClose, CloseAt, history, session, store, tables
<1>2. PICK w : w = [stage |-> "killed", m |-> m, row |-> teamRows[m] # "none"]
    OBVIOUS
<1>3. w \in [stage : CloseStage, m : AnyMember, row : BOOLEAN] /\ w.stage = "killed" /\ w.m = m
    BY <1>2 DEF CloseStage, AnyMember
<1>4. closes' = [closes EXCEPT ![c] = w]
    BY <1>2 DEF AskToClose
<1>5. /\ closes' \in [Closer -> [stage : CloseStage, m : AnyMember, row : BOOLEAN]]
      /\ closes'[c] = w /\ \A d \in Closer \ {c} : closes'[d] = closes[d]
    BY <1>1, <1>3, <1>4 DEF TeamFields, CallFields
<1>6. CallFields'
    BY <1>1, <1>3, <1>5 DEF TeamFields, CallFields
<1>7. TeamFields'
    BY <1>1, <1>6, FieldsStay DEF TeamFields
<1>8. TakersKept
    BY <1>1, <1>3, <1>5 DEF TakersKept, BridgeTakes, CloserTakes, CloseAt
<1>9. QED
    BY <1>1, <1>7, <1>8, RestStays

LEMMA ClosingGoesOn ==
    ASSUME TeamIInv, NEW c \in Closer
    PROVE  /\ CloseRemoves(c) => TeamIInv'
           /\ CloseClosesPane(c) => TeamIInv'
           /\ CloseStoresRow(c) => TeamIInv'
<1>1. TeamFields
    BY DEF TeamIInv
<1>2. ASSUME closes[c].stage # "idle" PROVE closes[c].m \in Member
    BY <1>1, <1>2 DEF TeamFields, CallFields
<1>3. ASSUME CloseRemoves(c) PROVE TeamIInv'
    <2>1. /\ closes[c].stage = "killed"
          /\ UNCHANGED <<procs, unsent, exits, teamRows, panes, leader, spawns, bridge,
                         reload, closed, missed, orphans, overtaken>>
        BY <1>3 DEF CloseRemoves, CloseAt, history, session, tables
    <2>2. PICK m \in Member : m = closes[c].m
        BY <1>2, <2>1
    <2>3. CASE m \notin Members
        <3>1. UNCHANGED <<team, homes>> /\ Closes(c, "not found")
            BY <1>3, <2>2, <2>3 DEF CloseRemoves, store
        <3>2. /\ CallFields' /\ closes'[c].stage = "not found"
              /\ \A d \in Closer \ {c} : closes'[d] = closes[d]
            BY <1>1, <2>1, <3>1, CloseMoves DEF CloseStage
        <3>3. TeamFields'
            BY <1>1, <2>1, <3>1, <3>2, FieldsStay DEF TeamFields
        <3>4. TakersKept
            BY <2>1, <3>2 DEF TakersKept, BridgeTakes, CloserTakes, CloseAt
        <3>5. QED
            BY <2>1, <3>1, <3>3, <3>4, RestStays
    <2>4. CASE m \in Members
        <3>1. RemoveMember(m) /\ Closes(c, "removed")
            BY <1>3, <2>2, <2>4 DEF CloseRemoves
        <3>2. /\ CallFields' /\ closes'[c].stage = "removed" /\ closes'[c].m = m
              /\ \A d \in Closer \ {c} : closes'[d] = closes[d]
            BY <1>1, <2>1, <2>2, <3>1, CloseMoves DEF CloseStage
        <3>3. /\ StoreFields' /\ NextIsFresh' /\ HomesAgree'
              /\ Members' = Members \ {m} /\ team'.there = team.there
            BY <2>1, <3>1, Removes
        <3>4. TeamFields'
            BY <1>1, <2>1, <3>2, <3>3, FieldsStay DEF TeamFields
        <3>5. LeaderFirst' /\ PaneLast'
            BY <2>1, <3>3 DEF TeamIInv, LeaderFirst, PaneLast, Spawning
        <3>6. Onward /\ \A n \in Member \ {m} : LeftAlone(n)
            BY <2>1, <3>2, <3>3 DEF Onward, LeftAlone, BridgeTakes, CloserTakes, CloseAt
        <3>7. ASSUME ~overtaken PROVE InStep(m)'
            <4>1. InStep(m)
                BY <3>7 DEF TeamIInv
            <4>2. ~TakenOut(m) /\ ~Unregistered(m) /\ ~Spawning(m, "answered")
                BY <2>4, <4>1 DEF InStep, PaneOf
            <4>3. /\ CloserTakes(c, m)' /\ ~ToolTakes(m)' /\ ~BridgeTakes(m)'
                  /\ \A d \in Closer \ {c} : ~CloserTakes(d, m)'
                BY <2>1, <3>2, <4>2
                    DEF TakenOut, ToolTakes, BridgeTakes, CloserTakes, CloseAt, Spawning
            <4>4. TakenOut(m)' /\ OneTakes(m)'
                BY <4>3 DEF TakenOut, OneTakes
            <4>5. ~Unregistered(m)' /\ ~Spawning(m, "answered")'
                BY <2>1, <4>2 DEF Unregistered, Spawning
            <4>6. \A d \in Closer : CloseAt(d, "paneless")' /\ closes'[d].m = m =>
                      CloseAt(d, "paneless") /\ closes[d].m = m
                BY <3>2 DEF CloseAt
            <4>7. QED
                BY <2>1, <2>4, <3>3, <3>7, <4>4, <4>5, <4>6, TakesOut
        <3>8. QED
            BY <2>1, <3>3, <3>4, <3>5, <3>6, <3>7, TeamGoesOn
    <2>5. QED
        BY <2>3, <2>4
<1>4. ASSUME CloseClosesPane(c) PROVE TeamIInv'
    <2>1. /\ closes[c].stage = "removed" /\ Closes(c, "paneless")
          /\ UNCHANGED <<team, homes, procs, unsent, exits, teamRows, leader, spawns, bridge,
                         reload, missed, orphans, overtaken>>
        BY <1>4 DEF CloseClosesPane, CloseAt, session, store
    <2>2. PICK m \in Member : m = closes[c].m
        BY <1>2, <2>1
    <2>3. Announce(m)
        BY <1>4, <2>2 DEF CloseClosesPane
    <2>4. /\ CallFields' /\ closes'[c].stage = "paneless" /\ closes'[c].m = m
          /\ \A d \in Closer \ {c} : closes'[d] = closes[d]
        BY <1>1, <2>1, <2>2, CloseMoves DEF CloseStage
    <2>5. /\ RowFields' /\ HistoryFields' /\ DOMAIN panes' = DOMAIN panes \ {m}
          /\ closed'[m] = closed[m] + 1 /\ \A n \in Member \ {m} : closed'[n] = closed[n]
        BY <2>1, <2>3, Announces
    <2>6. TeamFields'
        BY <1>1, <2>1, <2>4, <2>5, FieldsStay DEF TeamFields
    <2>7. CloserTakes(c, m) /\ TakenOut(m) /\ \A n \in Member : ~CloserTakes(c, n)'
        BY <2>1, <2>2, <2>4 DEF CloserTakes, CloseAt, TakenOut
    <2>8. /\ \A n \in Member : /\ ToolTakes(n)' <=> ToolTakes(n)
                               /\ BridgeTakes(n)' <=> BridgeTakes(n)
                               /\ \A d \in Closer \ {c} : CloserTakes(d, n)' <=> CloserTakes(d, n)
          /\ \A n \in Member \ {m}, d \in Closer :
                /\ CloserTakes(d, n)' <=> CloserTakes(d, n)
                /\ CloseAt(d, "paneless")' /\ closes'[d].m = n =>
                      CloseAt(d, "paneless") /\ closes[d].m = n
        BY <2>1, <2>2, <2>4 DEF ToolTakes, BridgeTakes, CloserTakes, CloseAt, Spawning
    <2>9. ~overtaken => ~TakenOut(m)'
        BY <2>7, <2>8 DEF TeamIInv, InStep, OneTakes, TakenOut
    <2>10. QED
        BY <2>1, <2>5, <2>6, <2>7, <2>8, <2>9, Announced
<1>5. ASSUME CloseStoresRow(c) PROVE TeamIInv'
    <2>1. /\ closes[c].stage = "paneless" /\ Closes(c, "done")
          /\ UNCHANGED <<team, homes, procs, unsent, exits, panes, leader, spawns, bridge,
                         reload, closed, missed, orphans, overtaken>>
        BY <1>5 DEF CloseStoresRow, CloseAt, history, session, store
    <2>2. PICK m \in Member : m = closes[c].m
        BY <1>2, <2>1
    <2>3. /\ RowFields' /\ \A n \in Member \ {m} : teamRows'[n] = teamRows[n]
          /\ teamRows'[m] \in {teamRows[m], "complete"}
        BY <1>1, <1>5, <2>1, <2>2 DEF CloseStoresRow, TeamFields, RowFields
    <2>4. /\ CallFields' /\ closes'[c].stage = "done" /\ closes'[c].m = m
          /\ \A d \in Closer \ {c} : closes'[d] = closes[d]
        BY <1>1, <2>1, <2>2, CloseMoves DEF CloseStage
    <2>5. TeamFields'
        BY <1>1, <2>1, <2>3, <2>4, FieldsStay DEF TeamFields
    <2>6. TakersKept
        BY <2>1, <2>4 DEF TakersKept, BridgeTakes, CloserTakes, CloseAt
    <2>7. StageKept(m)
        BY <2>1 DEF StageKept, Early, ToolTakes, Spawning
    <2>8. m \in DOMAIN panes \/ Spawning(m, "stored")' => teamRows'[m] # "none"
        BY <2>1, <2>3 DEF TeamIInv, PaneLast, Spawning
    <2>9. ~overtaken => RowOf(m)'
        <3>1. ~overtaken => m \notin DOMAIN panes /\ ~Unregistered(m)
            BY <2>1, <2>2 DEF TeamIInv, InStep, Closings, CloseAt
        <3>2. QED
            BY <2>1, <3>1 DEF RowOf, Unregistered, Spawning
    <2>10. QED
        BY <2>1, <2>3, <2>5, <2>6, <2>7, <2>8, <2>9, Quietly
<1>6. QED
    BY <1>3, <1>4, <1>5

-----------------------------------------------------------------------------
(* The team made again from its rows.                                      *)
LEMMA MadeAgain ==
    ASSUME TeamIInv, NEW index \in Partly(Index), UNCHANGED leader, overtaken' \in BOOLEAN,
           IF leader = "live"
           THEN /\ team' = [there |-> TRUE, next |-> NextAfter(index), token |-> index]
                /\ homes' = DOMAIN index
           ELSE team' = NoTeam /\ homes' = {}
    PROVE  /\ StoreFields' /\ NextIsFresh' /\ HomesAgree'
           /\ Members' = IF leader = "live" THEN DOMAIN index ELSE {}
           /\ leader = "none" => ~team'.there
<1>1. leader \in {"none", "live", "ended"}
    BY DEF TeamIInv, TeamFields, StoreFields
<1>2. CASE leader = "live"
    <2>1. index \in [DOMAIN index -> Index] /\ DOMAIN index \subseteq Member
        BY PartlyMember
    <2>2. NextAfter(index) \in Nat /\ \A m \in DOMAIN index : index[m] \in Nat /\ index[m] < NextAfter(index)
        BY NextIsAfterAll
    <2>3. index \in Partly(Nat)
        BY <2>1, <2>2 DEF Partly
    <2>4. /\ team'.there = TRUE /\ team'.next = NextAfter(index) /\ team'.token = index
          /\ team' \in [there : BOOLEAN, next : Nat, token : Partly(Nat)]
        <3>1. PICK next \in Nat : next = NextAfter(index)
            BY <2>2
        <3>2. team' = [there |-> TRUE, next |-> next, token |-> index]
            BY <1>2, <3>1
        <3>3. QED
            BY <2>3, <3>1, <3>2
    <2>5. QED
        BY <1>1, <1>2, <2>1, <2>2, <2>4 DEF StoreFields, NextIsFresh, HomesAgree, Members
<1>3. CASE leader # "live"
    <2>1. PICK none : none = <<>>
        OBVIOUS
    <2>2. DOMAIN none = {} /\ none \in Partly(Nat)
        <3>1. none \in [{} -> Nat] /\ DOMAIN none = {}
            BY <2>1
        <3>2. QED
            BY <3>1 DEF Partly
    <2>3. /\ team'.there = FALSE /\ team'.token = none
          /\ team' \in [there : BOOLEAN, next : Nat, token : Partly(Nat)]
        <3>1. team' = [there |-> FALSE, next |-> 1, token |-> none]
            BY <1>3, <2>1 DEF NoTeam
        <3>2. QED
            BY <2>2, <3>1
    <2>4. QED
        BY <1>1, <1>3, <2>2, <2>3 DEF StoreFields, NextIsFresh, HomesAgree, Members
<1>4. QED
    BY <1>2, <1>3

LEMMA Reloaded ==
    ASSUME TeamIInv, Reload
    PROVE  TeamIInv'
<1>1. /\ TeamFields /\ reload.index \in Partly(Index) /\ leader' = leader
      /\ UNCHANGED <<procs, unsent, exits, teamRows, panes, leader, spawns, closes, bridge,
                     closed, missed, orphans>>
    BY DEF TeamIInv, TeamFields, RowFields, Reload, session, tables
<1>2. /\ overtaken' \in BOOLEAN
      /\ ~overtaken' => ~overtaken /\ DOMAIN reload.index = Members /\ AllSettled
    BY DEF Reload
<1>3. /\ StoreFields' /\ NextIsFresh' /\ HomesAgree'
      /\ Members' = IF leader = "live" THEN DOMAIN reload.index ELSE {}
      /\ leader = "none" => ~team'.there
    <2>1. PICK index : index = reload.index
        OBVIOUS
    <2>2. IF leader = "live"
          THEN /\ team' = [there |-> TRUE, next |-> NextAfter(index), token |-> index]
               /\ homes' = DOMAIN index
          ELSE team' = NoTeam /\ homes' = {}
        BY <2>1 DEF Reload
    <2>3. index \in Partly(Index)
        BY <1>1, <2>1
    <2>4. QED
        BY <1>1, <1>2, <2>1, <2>2, <2>3, MadeAgain
<1>4. RowFields'
    <2>1. <<>> \in Partly(Index)
        <3>1. <<>> \in [{} -> Index]
            OBVIOUS
        <3>2. QED
            BY <3>1 DEF Partly
    <2>2. reload' = [stage |-> "none", live |-> {}, index |-> <<>>]
        BY DEF Reload, NoReload
    <2>3. QED
        BY <1>1, <2>1, <2>2 DEF TeamFields, RowFields
<1>5. TeamFields'
    BY <1>1, <1>3, <1>4, FieldsStay DEF TeamFields
<1>6. LeaderFirst' /\ PaneLast'
    BY <1>1, <1>3 DEF TeamIInv, LeaderFirst, PaneLast, Spawning
<1>7. ASSUME ~overtaken', NEW n \in Member PROVE InStep(n)'
    <2>1. InStep(n) /\ Members' \subseteq Members
        BY <1>2, <1>3, <1>7 DEF TeamIInv
    <2>2. /\ TakenOut(n)' <=> TakenOut(n)
          /\ OneTakes(n)' <=> OneTakes(n)
          /\ Unregistered(n)' <=> Unregistered(n)
          /\ Closings(n)' <=> Closings(n)
          /\ RowOf(n)' <=> RowOf(n)
          /\ \A s \in SpawnAt : Spawning(n, s)' <=> Spawning(n, s)
        BY <1>1 DEF TakenOut, OneTakes, Unregistered, Closings, RowOf, ToolTakes, BridgeTakes,
                    CloserTakes, CloseAt, Spawning
    <2>3. PaneOf(n)'
        <3>1. leader # "live" => leader = "ended" \/ n \notin DOMAIN panes
            BY <1>1 DEF TeamIInv, TeamFields, StoreFields, LeaderFirst, PaneLast, Spawning
        <3>2. n \in Members' => n \in Members
            BY <2>1
        <3>3. leader = "live" => Members' = Members
            BY <1>2, <1>3, <1>7
        <3>4. /\ Spawning(n, "placed")' <=> Spawning(n, "placed")
              /\ Spawning(n, "answered")' <=> Spawning(n, "answered")
            BY <1>1 DEF Spawning
        <3>5. QED
            BY <1>1, <2>1, <2>2, <3>1, <3>2, <3>3, <3>4 DEF InStep, PaneOf
    <2>4. QED
        BY <2>1, <2>2, <2>3 DEF InStep
<1>8. QED
    BY <1>3, <1>5, <1>6, <1>7 DEF TeamIInv

(* The project is opened again: nothing is under way.                      *)
LEMMA Reopened ==
    ASSUME TeamIInv, Reopen
    PROVE  TeamIInv'
<1>1. /\ TeamFields /\ leader' = leader
      /\ UNCHANGED <<panes, procs, leader, closed, missed, overtaken>>
      /\ unsent' = {} /\ exits' = <<>>
      /\ bridge' = [stage |-> "idle", m |-> NoMember]
    BY DEF TeamIInv, Reopen
<1>2. PICK ended : ended = {m \in Member : procs[m] = "ended"}
    OBVIOUS
<1>3. PICK found : found = [m \in Member |-> IF m \in ended /\ teamRows[m] = "live" THEN "complete"
                                           ELSE teamRows[m]]
    OBVIOUS
<1>4. PICK index : index = [m \in {n \in DOMAIN panes : found[n] = "live"} |-> panes[m]]
    OBVIOUS
<1>5. PICK lost : lost = {m \in Member : spawns[m].stage \in {"spawned", "stored", "placed", "removed"}}
                \cup {closes[c].m : c \in {d \in Closer : closes[d].stage \in {"removed", "paneless"}}}
                \cup (IF bridge.stage = "pane" THEN {bridge.m} ELSE {})
    OBVIOUS
<1>6. /\ teamRows' = found /\ orphans' = orphans \cup ended \cup lost
      /\ IF leader = "live"
         THEN /\ team' = [there |-> TRUE, next |-> NextAfter(index), token |-> index]
              /\ homes' = DOMAIN index
         ELSE team' = NoTeam /\ homes' = {}
    BY <1>2, <1>3, <1>4, <1>5 DEF Reopen
<1>7. /\ found \in [Member -> {"none", "live", "complete"}]
      /\ \A n \in Member : found[n] = IF procs[n] = "ended" /\ teamRows[n] = "live" THEN "complete"
                                     ELSE teamRows[n]
    BY <1>1, <1>2, <1>3 DEF TeamFields, RowFields
<1>8. index \in Partly(Index) /\ DOMAIN index = {n \in DOMAIN panes : found[n] = "live"}
    <2>1. panes \in [DOMAIN panes -> Index] /\ DOMAIN panes \subseteq Member
        BY <1>1, PartlyMember DEF TeamFields, RowFields
    <2>2. index \in [{n \in DOMAIN panes : found[n] = "live"} -> Index]
        BY <1>4, <2>1
    <2>3. QED
        BY <2>1, <2>2 DEF Partly
<1>9. /\ StoreFields' /\ NextIsFresh' /\ HomesAgree'
      /\ Members' = IF leader = "live" THEN DOMAIN index ELSE {}
      /\ leader = "none" => ~team'.there
    <2>1. overtaken' \in BOOLEAN
        BY <1>1 DEF TeamFields, StoreFields
    <2>2. QED
        BY <1>1, <1>6, <1>8, <2>1, MadeAgain
<1>10. /\ spawns' \in [Member -> [stage : SpawnAt, index : Index]]
       /\ \A n \in Member : spawns'[n].stage = IF Spawning(n, "none") THEN "none" ELSE "failed"
    <2>1. spawns \in [Member -> [stage : SpawnAt, index : Index]]
        BY <1>1 DEF TeamFields, CallFields
    <2>2. spawns' = [m \in Member |-> IF Spawning(m, "none") THEN spawns[m]
                                       ELSE [spawns[m] EXCEPT !.stage = "failed"]]
        BY DEF Reopen
    <2>3. ASSUME NEW n \in Member
          PROVE  /\ spawns'[n] \in [stage : SpawnAt, index : Index]
                 /\ spawns'[n].stage = IF Spawning(n, "none") THEN "none" ELSE "failed"
        BY <2>1, <2>2 DEF SpawnAt, Spawning
    <2>4. QED
        BY <2>2, <2>3
<1>11. /\ closes' \in [Closer -> [stage : CloseStage, m : AnyMember, row : BOOLEAN]]
       /\ \A c \in Closer : /\ closes'[c].stage = IF CloseAt(c, "idle") THEN "idle" ELSE "not found"
                            /\ closes'[c].m = closes[c].m
    <2>1. closes \in [Closer -> [stage : CloseStage, m : AnyMember, row : BOOLEAN]]
        BY <1>1 DEF TeamFields, CallFields
    <2>2. closes' = [c \in Closer |-> IF CloseAt(c, "idle") THEN closes[c]
                                       ELSE [closes[c] EXCEPT !.stage = "not found"]]
        BY DEF Reopen
    <2>3. ASSUME NEW c \in Closer
          PROVE  /\ closes'[c] \in [stage : CloseStage, m : AnyMember, row : BOOLEAN]
                 /\ closes'[c].stage = IF CloseAt(c, "idle") THEN "idle" ELSE "not found"
                 /\ closes'[c].m = closes[c].m
        BY <2>1, <2>2 DEF CloseStage, CloseAt
    <2>4. QED
        BY <2>2, <2>3
<1>12. TeamFields'
    <2>1. RowFields'
        <3>1. <<>> \in Partly(Index)
            <4>1. <<>> \in [{} -> Index]
                OBVIOUS
            <4>2. QED
                BY <4>1 DEF Partly
        <3>2. reload' = [stage |-> "none", live |-> {}, index |-> <<>>]
            BY DEF Reopen, NoReload
        <3>3. QED
            BY <1>1, <1>6, <1>7, <3>1, <3>2 DEF TeamFields, RowFields
    <2>2. SessionFields'
        BY <1>1 DEF TeamFields, SessionFields
    <2>3. CallFields'
        BY <1>1, <1>10, <1>11 DEF TeamFields, CallFields, AnyMember, CloseAt
    <2>4. HistoryFields'
        <3>1. lost \subseteq Member
            BY <1>1, <1>5 DEF TeamFields, CallFields
        <3>2. QED
            BY <1>1, <1>2, <1>6, <3>1 DEF TeamFields, HistoryFields
    <2>5. QED
        BY <1>9, <2>1, <2>2, <2>3, <2>4 DEF TeamFields
<1>13. LeaderFirst' /\ PaneLast'
    <2>1. LeaderFirst'
        BY <1>1, <1>9, <1>10 DEF TeamIInv, LeaderFirst, Spawning
    <2>2. ASSUME NEW n \in Member
          PROVE  /\ n \in DOMAIN panes' =>
                      spawns'[n].stage \notin {"none", "counted", "spawned", "stored"}
                 /\ n \in DOMAIN panes' \/ spawns'[n].stage = "stored" => teamRows'[n] # "none"
        BY <1>1, <1>6, <1>7, <1>10 DEF TeamIInv, PaneLast, Spawning
    <2>3. QED
        BY <2>1, <2>2 DEF PaneLast, Spawning
<1>14. ASSUME ~overtaken', NEW n \in Member PROVE InStep(n)'
    <2>1. InStep(n)
        BY <1>1, <1>14 DEF TeamIInv
    <2>2. /\ ~TakenOut(n)' /\ OneTakes(n)'
          /\ Unregistered(n)' <=> Spawning(n, "none")
          /\ ~Spawning(n, "answered")' /\ ~Spawning(n, "placed")' /\ ~Spawning(n, "stored")'
          /\ \A c \in Closer : ~CloseAt(c, "paneless")'
        BY <1>1, <1>10, <1>11 DEF TakenOut, OneTakes, ToolTakes, BridgeTakes, CloserTakes, CloseAt,
                                  Unregistered, Spawning
    <2>3. n \in DOMAIN panes => ~Spawning(n, "none") /\ teamRows[n] # "none"
        BY DEF TeamIInv, PaneLast, Spawning
    <2>4. ASSUME n \in DOMAIN panes \ orphans', leader # "ended"
          PROVE  n \in Members' \/ n \in missed'
        <3>1. leader = "live"
            BY <1>1, <2>3, <2>4 DEF TeamIInv, TeamFields, StoreFields, LeaderFirst
        <3>2. procs[n] # "ended"
            BY <1>2, <1>6, <2>4
        <3>3. found[n] = "live"
            BY <1>1, <1>7, <2>1, <2>3, <2>4, <3>2 DEF InStep, RowOf, TeamFields, RowFields
        <3>4. QED
            BY <1>8, <1>9, <2>4, <3>1, <3>3
    <2>5. PaneOf(n)'
        BY <1>1, <1>8, <1>9, <2>2, <2>3, <2>4 DEF PaneOf
    <2>6. Closings(n)'
        BY <1>1, <2>1, <2>2 DEF InStep, Closings, Unregistered, Spawning
    <2>7. RowOf(n)'
        BY <1>1, <1>6, <1>7, <2>1, <2>2 DEF InStep, RowOf
    <2>8. QED
        BY <2>2, <2>5, <2>6, <2>7 DEF InStep
<1>15. QED
    BY <1>9, <1>12, <1>13, <1>14 DEF TeamIInv

-----------------------------------------------------------------------------
LEMMA TeamStarts == TeamInit => TeamIInv
<1> SUFFICES ASSUME TeamInit PROVE TeamIInv
    OBVIOUS
<1>1. PICK none : none = <<>>
    OBVIOUS
<1>2. \A Value : none \in Partly(Value) /\ DOMAIN none = {}
    <2>1. \A Value : none \in [{} -> Value] /\ DOMAIN none = {}
        BY <1>1
    <2>2. QED
        BY <2>1 DEF Partly
<1>3. /\ team = [there |-> FALSE, next |-> 1, token |-> none] /\ panes = none
      /\ reload = [stage |-> "none", live |-> {}, index |-> none] /\ exits = <<>>
      /\ Members = {}
    BY <1>1, <1>2 DEF TeamInit, NoTeam, NoReload, Members
<1>4. TeamFields
    <2>1. StoreFields
        <3>1. team \in [there : BOOLEAN, next : Nat, token : Partly(Nat)]
            BY <1>2, <1>3
        <3>2. QED
            BY <3>1 DEF TeamInit, StoreFields
    <2>2. RowFields
        BY <1>2, <1>3 DEF TeamInit, RowFields
    <2>3. SessionFields
        BY DEF TeamInit, SessionFields
    <2>4. 0 \in Index
        BY CountFits DEF Index
    <2>5. CallFields
        BY <2>4 DEF TeamInit, CallFields, SpawnAt, CloseStage, AnyMember
    <2>6. HistoryFields
        BY DEF TeamInit, HistoryFields
    <2>7. QED
        BY <2>1, <2>2, <2>3, <2>5, <2>6 DEF TeamFields
<1>5. NextIsFresh /\ HomesAgree
    BY <1>3 DEF TeamInit, NextIsFresh, HomesAgree
<1>6. LeaderFirst /\ PaneLast
    BY <1>2, <1>3 DEF TeamInit, LeaderFirst, PaneLast, Spawning
<1>7. ASSUME NEW n \in Member PROVE InStep(n)
    <2>1. ~TakenOut(n) /\ OneTakes(n) /\ n \notin DOMAIN panes /\ n \notin Members
        BY <1>2, <1>3 DEF TeamInit, TakenOut, OneTakes, ToolTakes, BridgeTakes, CloserTakes, CloseAt,
                          Spawning
    <2>2. Spawning(n, "none") /\ closed[n] = 0 /\ \A c \in Closer : CloseAt(c, "idle")
        BY DEF TeamInit, Spawning, CloseAt
    <2>3. PaneOf(n)
        BY <2>1, <2>2 DEF PaneOf, Spawning
    <2>4. Closings(n)
        BY <2>1, <2>2 DEF Closings, CloseAt
    <2>5. RowOf(n)
        BY <2>1, <2>2 DEF RowOf, Spawning
    <2>6. QED
        BY <2>1, <2>3, <2>4, <2>5 DEF InStep
<1>8. QED
    BY <1>4, <1>5, <1>6, <1>7 DEF TeamIInv

LEMMA TeamSteps == TeamIInv /\ [TeamNext]_teamVars => TeamIInv'
<1> SUFFICES ASSUME TeamIInv, [TeamNext]_teamVars PROVE TeamIInv'
    OBVIOUS
<1>1. CASE UNCHANGED teamVars
    <2>1. UNCHANGED <<team, homes, procs, unsent, exits, teamRows, panes, leader, spawns, closes,
                      bridge, reload, closed, missed, orphans, overtaken>>
        BY <1>1 DEF teamVars, store, tables, session, calls, history
    <2>2. TeamFields' /\ TakersKept
        BY <2>1, FieldsStay DEF TeamIInv, TeamFields, TakersKept, BridgeTakes, CloserTakes, CloseAt
    <2>3. QED
        BY <2>1, <2>2, RestStays
<1>2. CASE Start \/ LeaderEnds
    BY <1>2, Leading
<1>3. ASSUME NEW m \in Member, SpawnStep(m) PROVE TeamIInv'
    BY <1>3, Configured, ShellSpawned, SessionStored, PaneStored, SpawnFailed, MemberRegistered
        DEF SpawnStep
<1>4. ASSUME NEW m \in Member, WaitStep(m) PROVE TeamIInv'
    BY <1>4, Waits, ToolGoesOn DEF WaitStep
<1>5. ASSUME NEW m \in Member, End(m) \/ Detach(m) \/ SendExited(m) PROVE TeamIInv'
    BY <1>5, SessionsEnd, ExitSent
<1>6. CASE BridgeStep
    BY <1>6, BridgeGoesOn DEF BridgeStep
<1>7. ASSUME NEW c \in Closer, CloseMember(c) PROVE TeamIInv'
    BY <1>7, AskedToClose, ClosingGoesOn DEF CloseMember
<1>8. CASE ReadSessions \/ ReadPanes \/ Reload \/ Reopen
    BY <1>8, RowsRead, Reloaded, Reopened
<1>9. QED
    BY <1>1, <1>2, <1>3, <1>4, <1>5, <1>6, <1>7, <1>8 DEF TeamNext

LEMMA InStepAgrees == TeamIInv => TeamAgrees
<1> SUFFICES ASSUME TeamIInv PROVE TeamAgrees
    OBVIOUS
<1>1. PanesAreMembers
    <2> SUFFICES ASSUME AllSettled, ~overtaken, leader # "ended", NEW m \in DOMAIN panes \ orphans
                 PROVE  m \in Members \/ m \in missed
        BY DEF PanesAreMembers
    <2>1. m \in Member
        BY PartlyMember DEF TeamIInv, TeamFields, RowFields
    <2>2. PaneOf(m)
        BY <2>1 DEF TeamIInv, InStep
    <2>3. ~TakenOut(m) /\ ~Spawning(m, "placed")
        BY <2>1 DEF AllSettled, TakenOut, ToolTakes, BridgeTakes, CloserTakes, CloseAt, Spawning
    <2>4. QED
        BY <2>2, <2>3 DEF PaneOf
<1>2. ClosedOnce
    BY DEF TeamIInv, InStep, Closings, ClosedOnce
<1>3. AnsweredIsGone
    BY DEF TeamIInv, InStep, PaneOf, AnsweredIsGone
<1>4. QED
    BY <1>1, <1>2, <1>3 DEF TeamIInv, TeamAgrees, RemovedOnce

(* Team, sessions and panes agree about who is a member, for any set of    *)
(* members and of calls that close them: tokens are unique, each live pane *)
(* is a member's, and a member is removed and announced once, whichever of *)
(* the bridge, the tool that waits and the user comes first.               *)
(* (register_member, spawn_member_with_runtime, remove_member,             *)
(* close_member_with_runtime, handle_member_session_exit,                  *)
(* rehydrate_all_teams_with_runtime)                                       *)
THEOREM TeamHolds == TeamSpec => []TeamAgrees
<1>1. TeamSpec => []TeamIInv
    BY TeamStarts, TeamSteps, PTL DEF TeamSpec
<1>2. QED
    BY <1>1, InStepAgrees, PTL
=============================================================================
