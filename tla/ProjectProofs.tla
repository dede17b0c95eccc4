---------------------------- MODULE ProjectProofs ----------------------------
(***************************************************************************)
(* Theorems about what is made when a project or a workspace is opened,    *)
(* and about the accounts it is opened with.                               *)
(* ProjectLifecycle: whatever openings, the closing and the tasks that     *)
(* start servers overlap, and wherever an opening fails, no server of an   *)
(* earlier opening serves on.  WorkspaceOpener: an item has one usable     *)
(* workspace.  For every number of openings, requests, items and tasks.    *)
(* GitHubAuth: the accounts shown are never older than those shown before, *)
(* whatever refreshes, logins and switches overlap.  FfiBridge: what the   *)
(* application hands to the bridge comes back once, for any number of      *)
(* calls and registrations.                                                *)
(***************************************************************************)
EXTENDS ProjectLifecycle, WorkspaceOpener, GitHubAuth, FfiBridge, FiniteSetTheorems, TLAPS

(* The places of the calls, in the order in which they are passed.         *)
OpenAt == {"none", "stop", "stopping", "replace", "install", "opened", "done", "failed"}
CloseAt == {"none", "take", "abort", "stop", "bump", "stop again", "stop remote", "done"}
Unstarted == {"none", "spawned", "stop", "stop remote", "look", "bind"}
Starting == {"bound", "store"}
Unserved == {"stored", "read", "bind remote"}
StartingRemote == {"remote bound", "store remote"}
SyncAt == Unstarted \cup Starting \cup Unserved \cup StartingRemote \cup {"remote stored", "done"}
AnyPlace == OpenAt \cup CloseAt \cup SyncAt
Place == [at : AnyPlace, waits : Gen \cup {0}, saw : BOOLEAN]
ServerState == {"none", "bound", "ending", "over"}

(* The fields of ProjectLifecycle, and the places a call can be at.        *)
LifeTypeOK ==
    /\ face \in {"closed", "opening", "open", "failed", "gone"}
    /\ issued \in 0 .. MaxOpens /\ overlapped \in BOOLEAN /\ generation \in Nat
    /\ {current, runtimeSlot} \subseteq Opens \cup {0} /\ runtimes \subseteq Opens
    /\ {controlSlot, remoteSlot} \subseteq Gen \cup {0}
    /\ control \in [Gen -> ServerState] /\ remote \in [Gen -> ServerState]
    /\ proc \in [Proc -> Place]

PlacesOK ==
    /\ \A k \in Opens : proc[OpenOf(k)].at \in OpenAt
    /\ \A g \in Gen : proc[SyncOf(g)].at \in SyncAt
    /\ proc[Close].at \in CloseAt

Done == {k \in Opens : Is(OpenOf(k), {"done"})}
Bumped == Is(Close, {"stop again", "stop remote", "done"})

(* Generations are given out one by one, one for every open that succeeded *)
(* and one for the closing: there are never more than MaxOpens + 1.        *)
GenerationsCounted ==
    /\ generation = Cardinality(Done) + (IF Bumped THEN 1 ELSE 0)
    /\ \A g \in Gen : g > generation => Is(SyncOf(g), {"none"})

(* Before the closing takes it, the open project is there once one open    *)
(* has put it in place.                                                    *)
CurrentIsThere ==
    Is(Close, {"none", "take"}) /\ current = 0 =>
        \A k \in Opens : ~Is(OpenOf(k), {"install", "opened", "done"})

(* A server that serves is the one in the slot or about to be put there.   *)
ControlHeld ==
    \A g \in Gen :
        /\ control[g] = "bound" => controlSlot = g \/ Is(SyncOf(g), Starting)
        /\ Is(SyncOf(g), Starting) => control[g] = "bound"
        /\ controlSlot = g => control[g] = "bound" /\ ~Is(SyncOf(g), Unstarted \cup Starting)
RemoteHeld ==
    \A g \in Gen :
        /\ remote[g] = "bound" => remoteSlot = g \/ Is(SyncOf(g), StartingRemote)
        /\ Is(SyncOf(g), Unstarted \cup Starting \cup Unserved) => remote[g] = "none"
        /\ remoteSlot = g => remote[g] = "bound" /\ Is(SyncOf(g), {"remote stored", "done"})

(* When the closing is past its generation and no open has put a project   *)
(* in place since, nobody starts servers for the newest generation.        *)
NothingToServe ==
    current = 0 /\ Bumped =>
        \A g \in Gen : g = generation => Is(SyncOf(g), {"none", "spawned", "done"})

(* Who has still to stop the server of an earlier generation.              *)
ClosingStops == Is(Close, {"abort", "stop", "bump", "stop again"})
NewestStops(places) ==
    /\ generation \in Gen /\ Is(SyncOf(generation), places)
    /\ current = 0 => ~Bumped
StaleIsStopped ==
    /\ controlSlot \notin {0, generation} =>
           Is(SyncOf(controlSlot), {"stored"}) \/ ClosingStops \/ NewestStops({"spawned", "stop"})
    /\ remoteSlot \notin {0, generation} =>
           \/ Is(SyncOf(remoteSlot), {"remote stored"})
           \/ ClosingStops \/ Is(Close, {"stop remote"})
           \/ NewestStops({"spawned", "stop", "stop remote"})

(* Nothing that serves for the newest generation while nothing is open.    *)
ClosedServesNothing ==
    current = 0 /\ Bumped =>
        /\ controlSlot # 0 => Is(Close, {"stop again"}) \/ controlSlot # generation
        /\ remoteSlot # 0 => Is(Close, {"stop again", "stop remote"}) \/ remoteSlot # generation

(* The tasks of the open project run, or an open is about to replace it.   *)
RuntimesHeld ==
    /\ \A k \in runtimes : Is(OpenOf(k), {"opened", "done"})
    /\ Is(Close, {"none"}) /\ current # 0 =>
           \/ current \in runtimes \/ Is(OpenOf(current), {"install"})
           \/ \E k \in Opens : Is(OpenOf(k), {"replace"})

(* Calls that do not overlap: one open at a time, then the closing.        *)
InTurn ==
    /\ \A k \in Opens : k > issued => Is(OpenOf(k), {"none"})
    /\ ~Is(Close, {"none"}) => face = "gone"
    /\ ~overlapped =>
        /\ \A j, k \in Opening : j = k
        /\ runtimes \subseteq {runtimeSlot} \ {0}
        /\ \A k \in Opens : Is(OpenOf(k), {"replace", "install"}) => runtimes = {}
        /\ ~Is(Close, {"none"}) => Opening = {}
        /\ ~Is(Close, {"none", "take"}) => current = 0
        /\ ~Is(Close, {"none", "take", "abort"}) => runtimes = {}

LifeIInv ==
    /\ LifeTypeOK /\ PlacesOK /\ GenerationsCounted /\ CurrentIsThere
    /\ ControlHeld /\ RemoteHeld
    /\ NothingToServe /\ StaleIsStopped /\ ClosedServesNothing /\ RuntimesHeld /\ InTurn

(* The calls are different, and none is another's.                         *)
LEMMA Calls ==
    /\ Close \in Proc
    /\ \A k \in Opens : k \in Nat /\ k # 0 /\ k \in Gen /\ OpenOf(k) \in Proc /\ OpenOf(k) # Close
    /\ \A g \in Gen : g \in Nat /\ g # 0 /\ SyncOf(g) \in Proc /\ SyncOf(g) # Close
    /\ \A k \in Opens, g \in Gen : OpenOf(k) # SyncOf(g)
    /\ \A j, k \in Opens : OpenOf(j) = OpenOf(k) => j = k
    /\ \A g, h \in Gen : SyncOf(g) = SyncOf(h) => g = h
    BY LifecycleAssumption DEF Opens, Gen, OpenOf, SyncOf, Close, Proc

(* A call goes on, and the others stay where they are.                     *)
OpenMoves(k, place) ==
    /\ \A j \in Opens : proc'[OpenOf(j)].at = IF j = k THEN place ELSE proc[OpenOf(j)].at
    /\ \A g \in Gen : proc'[SyncOf(g)].at = proc[SyncOf(g)].at
    /\ proc'[Close].at = proc[Close].at /\ proc' \in [Proc -> Place]
SyncMoves(g, place) ==
    /\ \A h \in Gen : proc'[SyncOf(h)].at = IF h = g THEN place ELSE proc[SyncOf(h)].at
    /\ \A k \in Opens : proc'[OpenOf(k)].at = proc[OpenOf(k)].at
    /\ proc'[Close].at = proc[Close].at /\ proc' \in [Proc -> Place]
CloseMoves(place) ==
    /\ \A g \in Gen : proc'[SyncOf(g)].at = proc[SyncOf(g)].at
    /\ \A k \in Opens : proc'[OpenOf(k)].at = proc[OpenOf(k)].at
    /\ proc'[Close].at = place /\ proc' \in [Proc -> Place]

Step(p, place) ==
    \/ proc' = [proc EXCEPT ![p].at = place]
    \/ \E w \in Gen \cup {0} : proc' = [proc EXCEPT ![p].at = place, ![p].waits = w]
    \/ \E b \in BOOLEAN : proc' = [proc EXCEPT ![p].at = place, ![p].saw = b]
(* Where a step of a call leads.                                           *)
LEMMA Moves ==
    ASSUME proc \in [Proc -> Place], NEW place \in AnyPlace
    PROVE  /\ \A k \in Opens : Step(OpenOf(k), place) => OpenMoves(k, place)
           /\ \A g \in Gen : Step(SyncOf(g), place) => SyncMoves(g, place)
           /\ Step(Close, place) => CloseMoves(place)
<1>1. ASSUME NEW p \in Proc, Step(p, place)
      PROVE  /\ proc' \in [Proc -> Place]
             /\ \A q \in Proc : proc'[q].at = IF q = p THEN place ELSE proc[q].at
    BY <1>1 DEF Step, Place
<1>2. QED
    BY <1>1, Calls DEF OpenMoves, SyncMoves, CloseMoves

(* What the starting of the servers leaves alone.                          *)
LEMMA SyncFrame ==
    ASSUME LifeIInv, NEW g \in Gen, NEW place \in SyncAt \ {"none"}, SyncMoves(g, place),
           ~Is(SyncOf(g), {"none"}), UNCHANGED <<faceVars, stateVars, generation>>
    PROVE  (PlacesOK /\ GenerationsCounted /\ CurrentIsThere /\ RuntimesHeld /\ InTurn)'
<1> USE DEF LifeIInv, Is, faceVars, stateVars
<1>1. Done' = Done /\ (Bumped' <=> Bumped) /\ Opening' = Opening
    BY DEF SyncMoves, Done, Bumped, Opening
<1>2. PlacesOK'
    BY DEF PlacesOK, SyncMoves
<1>3. GenerationsCounted'
    BY <1>1 DEF GenerationsCounted, SyncMoves
<1>4. CurrentIsThere'
    BY DEF CurrentIsThere, SyncMoves
<1>5. RuntimesHeld'
    BY Calls DEF RuntimesHeld, SyncMoves, LifeTypeOK
<1>6. InTurn'
    BY <1>1 DEF InTurn, SyncMoves
<1>7. QED
    BY <1>2, <1>3, <1>4, <1>5, <1>6

(* Before the closing, a project is open once a generation was given out.  *)
LEMMA NothingYet ==
    ASSUME LifeIInv, current = 0, Is(Close, {"none", "take"})
    PROVE  generation = 0
<1>1. Done = {} /\ ~Bumped
    BY DEF LifeIInv, CurrentIsThere, Done, Bumped, Is
<1>2. QED
    BY <1>1, FS_EmptySet DEF LifeIInv, GenerationsCounted

(* An open, up to its answer.                                              *)
LEMMA OpenKeeps ==
    ASSUME LifeIInv, NEW k \in Opens
    PROVE  OpenStops(k) \/ OpenErrs(k) \/ OpenAborts(k) \/ Replace(k) \/
           Install(k) \/ HearAnswer(k) \/ StopWaiting(k)
           => LifeIInv'
<1> USE LifecycleAssumption DEF LifeIInv, Is, faceVars, stateVars, controls, remotes,
        Bumped, ClosingStops, NewestStops, Unstarted, Starting, Unserved, StartingRemote
<1>0. /\ proc \in [Proc -> Place] /\ generation \in Nat
      /\ {current, runtimeSlot} \subseteq Opens \cup {0} /\ runtimes \subseteq Opens
      /\ {controlSlot, remoteSlot} \subseteq Gen \cup {0}
      /\ control \in [Gen -> ServerState] /\ remote \in [Gen -> ServerState]
      /\ \A j \in Opens : j \in Nat /\ j # 0 /\ j \in Gen
      /\ \A h \in Gen : h \in Nat /\ h # 0
    BY Calls DEF LifeTypeOK
<1>1. ASSUME OpenStops(k)
      PROVE  LifeIInv'
    <2>a. /\ control' \in [Gen -> ServerState] /\ controlSlot' = 0
           /\ \A h \in Gen : control'[h] = IF h = controlSlot THEN "ending" ELSE control[h]
        BY <1>0, <1>1 DEF OpenStops, TakeControl, Told, ServerState
    <2>1. OpenMoves(k, "stopping")
        BY <1>0, <1>1, <2>a, Moves
           DEF OpenStops, Step, Go, AnyPlace, OpenAt, CloseAt, SyncAt, TakeControl, Told
    <2>2. (LifeTypeOK /\ PlacesOK)'
        BY <1>0, <1>1, <2>1, <2>a
           DEF OpenStops, OpenMoves, LifeTypeOK, PlacesOK, ServerState, Opens, Gen, OpenAt,
               SyncAt, CloseAt
    <2>3. Done' = Done /\ (Bumped' <=> Bumped)
        BY <1>0, <1>1, <2>1, <2>a DEF OpenStops, OpenMoves, Done
    <2>4. GenerationsCounted'
        BY <1>0, <1>1, <2>1, <2>a, <2>3 DEF OpenStops, OpenMoves, GenerationsCounted
    <2>5. (CurrentIsThere /\ RuntimesHeld /\ InTurn)'
        BY <1>0, <1>1, <2>1, <2>a
           DEF OpenStops, OpenMoves, CurrentIsThere, RuntimesHeld, InTurn, Opening, Closing
    <2>6. (ControlHeld /\ RemoteHeld /\ NothingToServe
         /\ StaleIsStopped /\ ClosedServesNothing)'
        <3>1. ControlHeld'
            BY <1>0, <1>1, <2>1, <2>a DEF OpenStops, OpenMoves, ControlHeld
        <3>2. RemoteHeld'
            BY <1>0, <1>1, <2>1, <2>a DEF OpenStops, OpenMoves, RemoteHeld
        <3>3. NothingToServe'
            BY <1>0, <1>1, <2>1, <2>a DEF OpenStops, OpenMoves, NothingToServe
        <3>4. StaleIsStopped'
            BY <1>0, <1>1, <2>1, <2>a DEF OpenStops, OpenMoves, StaleIsStopped
        <3>5. ClosedServesNothing'
            BY <1>0, <1>1, <2>1, <2>a DEF OpenStops, OpenMoves, ClosedServesNothing
        <3> QED
            BY <3>1, <3>2, <3>3, <3>4, <3>5
    <2> QED
        BY <2>2, <2>4, <2>5, <2>6 DEF LifeIInv
<1>2. ASSUME OpenErrs(k)
      PROVE  LifeIInv'
    <2>1. OpenMoves(k, "failed")
        BY <1>0, <1>2, Moves
           DEF OpenErrs, Step, Go, AnyPlace, OpenAt, CloseAt, SyncAt
    <2>2. (LifeTypeOK /\ PlacesOK)'
        BY <1>0, <1>2, <2>1
           DEF OpenErrs, OpenMoves, LifeTypeOK, PlacesOK, ServerState, Opens, Gen, OpenAt,
               SyncAt, CloseAt
    <2>3. Done' = Done /\ (Bumped' <=> Bumped)
        BY <1>0, <1>2, <2>1 DEF OpenErrs, OpenMoves, Done
    <2>4. GenerationsCounted'
        BY <1>0, <1>2, <2>1, <2>3 DEF OpenErrs, OpenMoves, GenerationsCounted
    <2>5. (CurrentIsThere /\ RuntimesHeld /\ InTurn)'
        BY <1>0, <1>2, <2>1
           DEF OpenErrs, OpenMoves, CurrentIsThere, RuntimesHeld, InTurn, Opening, Closing
    <2>6. (ControlHeld /\ RemoteHeld /\ NothingToServe
         /\ StaleIsStopped /\ ClosedServesNothing)'
        BY <1>0, <1>2, <2>1
           DEF OpenErrs, OpenMoves, ControlHeld, RemoteHeld, NothingToServe, StaleIsStopped,
               ClosedServesNothing
    <2> QED
        BY <2>2, <2>4, <2>5, <2>6 DEF LifeIInv
<1>3. ASSUME OpenAborts(k)
      PROVE  LifeIInv'
    <2>1. OpenMoves(k, "replace")
        BY <1>0, <1>3, Moves
           DEF OpenAborts, Step, Go, AnyPlace, OpenAt, CloseAt, SyncAt, AbortRuntime
    <2>2. (LifeTypeOK /\ PlacesOK)'
        BY <1>0, <1>3, <2>1
           DEF OpenAborts, AbortRuntime, OpenMoves, LifeTypeOK, PlacesOK, ServerState, Opens,
               Gen, OpenAt, SyncAt, CloseAt
    <2>3. Done' = Done /\ (Bumped' <=> Bumped)
        BY <1>0, <1>3, <2>1 DEF OpenAborts, OpenMoves, Done
    <2>4. GenerationsCounted'
        BY <1>0, <1>3, <2>1, <2>3
           DEF OpenAborts, AbortRuntime, OpenMoves, GenerationsCounted
    <2>5. (CurrentIsThere /\ RuntimesHeld /\ InTurn)'
        BY <1>0, <1>3, <2>1
           DEF OpenAborts, AbortRuntime, OpenMoves, CurrentIsThere, RuntimesHeld, InTurn,
               Opening, Closing
    <2>6. (ControlHeld /\ RemoteHeld /\ NothingToServe
         /\ StaleIsStopped /\ ClosedServesNothing)'
        BY <1>0, <1>3, <2>1
           DEF OpenAborts, AbortRuntime, OpenMoves, ControlHeld, RemoteHeld, NothingToServe,
               StaleIsStopped, ClosedServesNothing
    <2> QED
        BY <2>2, <2>4, <2>5, <2>6 DEF LifeIInv
<1>4. ASSUME Replace(k)
      PROVE  LifeIInv'
    <2>1. OpenMoves(k, "install")
        BY <1>0, <1>4, Moves
           DEF Replace, Step, Go, AnyPlace, OpenAt, CloseAt, SyncAt
    <2>2. (LifeTypeOK /\ PlacesOK)'
        BY <1>0, <1>4, <2>1
           DEF Replace, OpenMoves, LifeTypeOK, PlacesOK, ServerState, Opens, Gen, OpenAt,
               SyncAt, CloseAt
    <2>3. Done' = Done /\ (Bumped' <=> Bumped)
        BY <1>0, <1>4, <2>1 DEF Replace, OpenMoves, Done
    <2>4. GenerationsCounted'
        BY <1>0, <1>4, <2>1, <2>3 DEF Replace, OpenMoves, GenerationsCounted
    <2>5. (CurrentIsThere /\ RuntimesHeld /\ InTurn)'
        BY <1>0, <1>4, <2>1
           DEF Replace, OpenMoves, CurrentIsThere, RuntimesHeld, InTurn, Opening, Closing
    <2>6. (ControlHeld /\ RemoteHeld /\ NothingToServe
         /\ StaleIsStopped /\ ClosedServesNothing)'
        BY <1>0, <1>4, <2>1
           DEF Replace, OpenMoves, ControlHeld, RemoteHeld, NothingToServe, StaleIsStopped,
               ClosedServesNothing
    <2> QED
        BY <2>2, <2>4, <2>5, <2>6 DEF LifeIInv
<1>5. ASSUME Install(k)
      PROVE  LifeIInv'
    <2>1. OpenMoves(k, "opened")
        BY <1>0, <1>5, Moves
           DEF Install, Step, Go, AnyPlace, OpenAt, CloseAt, SyncAt
    <2>2. (LifeTypeOK /\ PlacesOK)'
        BY <1>0, <1>5, <2>1
           DEF Install, OpenMoves, LifeTypeOK, PlacesOK, ServerState, Opens, Gen, OpenAt,
               SyncAt, CloseAt
    <2>3. Done' = Done /\ (Bumped' <=> Bumped)
        BY <1>0, <1>5, <2>1 DEF Install, OpenMoves, Done
    <2>4. GenerationsCounted'
        BY <1>0, <1>5, <2>1, <2>3 DEF Install, OpenMoves, GenerationsCounted
    <2>5. (CurrentIsThere /\ RuntimesHeld /\ InTurn)'
        BY <1>0, <1>5, <2>1
           DEF Install, OpenMoves, CurrentIsThere, RuntimesHeld, InTurn, Opening, Closing
    <2>6. (ControlHeld /\ RemoteHeld /\ NothingToServe
         /\ StaleIsStopped /\ ClosedServesNothing)'
        BY <1>0, <1>5, <2>1
           DEF Install, OpenMoves, ControlHeld, RemoteHeld, NothingToServe, StaleIsStopped,
               ClosedServesNothing
    <2> QED
        BY <2>2, <2>4, <2>5, <2>6 DEF LifeIInv
<1>6. ASSUME HearAnswer(k)
      PROVE  LifeIInv'
    <2>1. proc' = proc
        BY <1>6 DEF HearAnswer, Hear
    <2>2. (LifeTypeOK /\ PlacesOK)'
        BY <1>0, <1>6, <2>1
           DEF HearAnswer, Hear, LifeTypeOK, PlacesOK, ServerState, Opens, Gen, OpenAt,
               SyncAt, CloseAt
    <2>3. Done' = Done /\ (Bumped' <=> Bumped)
        BY <1>0, <1>6, <2>1 DEF HearAnswer, Done
    <2>4. GenerationsCounted'
        BY <1>0, <1>6, <2>1, <2>3 DEF HearAnswer, Hear, GenerationsCounted
    <2>5. (CurrentIsThere /\ RuntimesHeld /\ InTurn)'
        BY <1>0, <1>6, <2>1
           DEF HearAnswer, Hear, CurrentIsThere, RuntimesHeld, InTurn, Opening, Closing
    <2>6. (ControlHeld /\ RemoteHeld /\ NothingToServe
         /\ StaleIsStopped /\ ClosedServesNothing)'
        <3>1. ControlHeld'
            BY <1>0, <1>6, <2>1 DEF HearAnswer, Hear, ControlHeld
        <3>2. RemoteHeld'
            BY <1>0, <1>6, <2>1 DEF HearAnswer, Hear, RemoteHeld
        <3>3. NothingToServe'
            BY <1>0, <1>6, <2>1 DEF HearAnswer, Hear, NothingToServe
        <3>4. StaleIsStopped'
            BY <1>0, <1>6, <2>1 DEF HearAnswer, Hear, StaleIsStopped
        <3>5. ClosedServesNothing'
            BY <1>0, <1>6, <2>1 DEF HearAnswer, Hear, ClosedServesNothing
        <3> QED
            BY <3>1, <3>2, <3>3, <3>4, <3>5
    <2> QED
        BY <2>2, <2>4, <2>5, <2>6 DEF LifeIInv
<1>7. ASSUME StopWaiting(k)
      PROVE  LifeIInv'
    <2>1. proc' = proc
        BY <1>7 DEF StopWaiting, Hear
    <2>2. (LifeTypeOK /\ PlacesOK)'
        BY <1>0, <1>7, <2>1
           DEF StopWaiting, Hear, LifeTypeOK, PlacesOK, ServerState, Opens, Gen, OpenAt,
               SyncAt, CloseAt
    <2>3. Done' = Done /\ (Bumped' <=> Bumped)
        BY <1>0, <1>7, <2>1 DEF StopWaiting, Done
    <2>4. GenerationsCounted'
        BY <1>0, <1>7, <2>1, <2>3 DEF StopWaiting, Hear, GenerationsCounted
    <2>5. (CurrentIsThere /\ RuntimesHeld /\ InTurn)'
        BY <1>0, <1>7, <2>1
           DEF StopWaiting, Hear, CurrentIsThere, RuntimesHeld, InTurn, Opening, Closing
    <2>6. (ControlHeld /\ RemoteHeld /\ NothingToServe
         /\ StaleIsStopped /\ ClosedServesNothing)'
        BY <1>0, <1>7, <2>1
           DEF StopWaiting, Hear, ControlHeld, RemoteHeld, NothingToServe, StaleIsStopped,
               ClosedServesNothing
    <2> QED
        BY <2>2, <2>4, <2>5, <2>6 DEF LifeIInv
<1> QED
    BY <1>0, <1>1, <1>2, <1>3, <1>4, <1>5, <1>6, <1>7

(* The closing, but for its new generation.                                *)
LEMMA CloseKeeps ==
    ASSUME LifeIInv
    PROVE  CloseTakes \/ CloseAborts \/ CloseStops \/ CloseStopsRemote
           => LifeIInv'
<1> USE LifecycleAssumption DEF LifeIInv, Is, faceVars, stateVars, controls, remotes,
        Bumped, ClosingStops, NewestStops, Unstarted, Starting, Unserved, StartingRemote
<1>0. /\ proc \in [Proc -> Place] /\ generation \in Nat
      /\ {current, runtimeSlot} \subseteq Opens \cup {0} /\ runtimes \subseteq Opens
      /\ {controlSlot, remoteSlot} \subseteq Gen \cup {0}
      /\ control \in [Gen -> ServerState] /\ remote \in [Gen -> ServerState]
      /\ \A j \in Opens : j \in Nat /\ j # 0 /\ j \in Gen
      /\ \A h \in Gen : h \in Nat /\ h # 0
    BY Calls DEF LifeTypeOK
<1>1. ASSUME CloseTakes, current = 0
      PROVE  LifeIInv'
    <2>1. CloseMoves("stop")
        BY <1>0, <1>1, Moves
           DEF CloseTakes, Step, Go, AnyPlace, OpenAt, CloseAt, SyncAt
    <2>2. (LifeTypeOK /\ PlacesOK)'
        BY <1>0, <1>1, <2>1
           DEF CloseTakes, CloseMoves, LifeTypeOK, PlacesOK, ServerState, Opens, Gen, OpenAt,
               SyncAt, CloseAt
    <2>3. Done' = Done /\ (Bumped' <=> Bumped)
        BY <1>0, <1>1, <2>1 DEF CloseTakes, CloseMoves, Done
    <2>4. GenerationsCounted'
        BY <1>0, <1>1, <2>1, <2>3 DEF CloseTakes, CloseMoves, GenerationsCounted
    <2>5. Opening' = Opening
        BY <1>0, <1>1, <2>1 DEF CloseTakes, CloseMoves, Opening
    <2>6. (CurrentIsThere /\ RuntimesHeld /\ InTurn)'
        BY <1>0, <1>1, <2>1, <2>5
           DEF CloseTakes, CloseMoves, CurrentIsThere, RuntimesHeld, InTurn, Closing
    <2>7. (ControlHeld /\ RemoteHeld /\ NothingToServe
         /\ StaleIsStopped /\ ClosedServesNothing)'
        BY <1>0, <1>1, <2>1
           DEF CloseTakes, CloseMoves, ControlHeld, RemoteHeld, NothingToServe,
               StaleIsStopped, ClosedServesNothing
    <2> QED
        BY <2>2, <2>4, <2>6, <2>7 DEF LifeIInv
<1>2. ASSUME CloseTakes, current # 0
      PROVE  LifeIInv'
    <2>1. CloseMoves("abort")
        BY <1>0, <1>2, Moves
           DEF CloseTakes, Step, Go, AnyPlace, OpenAt, CloseAt, SyncAt
    <2>2. (LifeTypeOK /\ PlacesOK)'
        BY <1>0, <1>2, <2>1
           DEF CloseTakes, CloseMoves, LifeTypeOK, PlacesOK, ServerState, Opens, Gen, OpenAt,
               SyncAt, CloseAt
    <2>3. Done' = Done /\ (Bumped' <=> Bumped)
        BY <1>0, <1>2, <2>1 DEF CloseTakes, CloseMoves, Done
    <2>4. GenerationsCounted'
        BY <1>0, <1>2, <2>1, <2>3 DEF CloseTakes, CloseMoves, GenerationsCounted
    <2>5. Opening' = Opening
        BY <1>0, <1>2, <2>1 DEF CloseTakes, CloseMoves, Opening
    <2>6. (CurrentIsThere /\ RuntimesHeld /\ InTurn)'
        BY <1>0, <1>2, <2>1, <2>5
           DEF CloseTakes, CloseMoves, CurrentIsThere, RuntimesHeld, InTurn, Closing
    <2>7. (ControlHeld /\ RemoteHeld /\ NothingToServe
         /\ StaleIsStopped /\ ClosedServesNothing)'
        BY <1>0, <1>2, <2>1
           DEF CloseTakes, CloseMoves, ControlHeld, RemoteHeld, NothingToServe,
               StaleIsStopped, ClosedServesNothing
    <2> QED
        BY <2>2, <2>4, <2>6, <2>7 DEF LifeIInv
<1>3. ASSUME CloseAborts
      PROVE  LifeIInv'
    <2>1. CloseMoves("stop")
        BY <1>0, <1>3, Moves
           DEF CloseAborts, Step, Go, AnyPlace, OpenAt, CloseAt, SyncAt, AbortRuntime
    <2>2. (LifeTypeOK /\ PlacesOK)'
        BY <1>0, <1>3, <2>1
           DEF CloseAborts, AbortRuntime, CloseMoves, LifeTypeOK, PlacesOK, ServerState,
               Opens, Gen, OpenAt, SyncAt, CloseAt
    <2>3. Done' = Done /\ (Bumped' <=> Bumped)
        BY <1>0, <1>3, <2>1 DEF CloseAborts, CloseMoves, Done
    <2>4. GenerationsCounted'
        BY <1>0, <1>3, <2>1, <2>3
           DEF CloseAborts, AbortRuntime, CloseMoves, GenerationsCounted
    <2>5. Opening' = Opening
        BY <1>0, <1>3, <2>1 DEF CloseAborts, CloseMoves, Opening
    <2>6. (CurrentIsThere /\ RuntimesHeld /\ InTurn)'
        BY <1>0, <1>3, <2>1, <2>5
           DEF CloseAborts, AbortRuntime, CloseMoves, CurrentIsThere, RuntimesHeld, InTurn,
               Closing
    <2>7. (ControlHeld /\ RemoteHeld /\ NothingToServe
         /\ StaleIsStopped /\ ClosedServesNothing)'
        BY <1>0, <1>3, <2>1
           DEF CloseAborts, AbortRuntime, CloseMoves, ControlHeld, RemoteHeld, NothingToServe,
               StaleIsStopped, ClosedServesNothing
    <2> QED
        BY <2>2, <2>4, <2>6, <2>7 DEF LifeIInv
<1>4. ASSUME CloseStops, Is(Close, {"stop"})
      PROVE  LifeIInv'
    <2>1. CloseMoves("bump")
        BY <1>0, <1>4, Moves
           DEF CloseStops, Step, Go, AnyPlace, OpenAt, CloseAt, SyncAt, TakeControl, Told
    <2>2. (LifeTypeOK /\ PlacesOK)'
        BY <1>0, <1>4, <2>1
           DEF CloseStops, TakeControl, Told, CloseMoves, LifeTypeOK, PlacesOK, ServerState,
               Opens, Gen, OpenAt, SyncAt, CloseAt
    <2>3. Done' = Done /\ (Bumped' <=> Bumped)
        BY <1>0, <1>4, <2>1 DEF CloseStops, CloseMoves, Done
    <2>4. GenerationsCounted'
        BY <1>0, <1>4, <2>1, <2>3
           DEF CloseStops, TakeControl, Told, CloseMoves, GenerationsCounted
    <2>5. Opening' = Opening
        BY <1>0, <1>4, <2>1 DEF CloseStops, CloseMoves, Opening
    <2>6. (CurrentIsThere /\ RuntimesHeld /\ InTurn)'
        BY <1>0, <1>4, <2>1, <2>5
           DEF CloseStops, TakeControl, Told, CloseMoves, CurrentIsThere, RuntimesHeld,
               InTurn, Closing
    <2>7. (ControlHeld /\ RemoteHeld /\ NothingToServe
         /\ StaleIsStopped /\ ClosedServesNothing)'
        <3>1. ControlHeld'
            BY <1>0, <1>4, <2>1
               DEF CloseStops, TakeControl, Told, CloseMoves, ControlHeld
        <3>2. RemoteHeld'
            BY <1>0, <1>4, <2>1
               DEF CloseStops, TakeControl, Told, CloseMoves, RemoteHeld
        <3>3. NothingToServe'
            BY <1>0, <1>4, <2>1
               DEF CloseStops, TakeControl, Told, CloseMoves, NothingToServe
        <3>4. StaleIsStopped'
            BY <1>0, <1>4, <2>1
               DEF CloseStops, TakeControl, Told, CloseMoves, StaleIsStopped
        <3>5. ClosedServesNothing'
            BY <1>0, <1>4, <2>1
               DEF CloseStops, TakeControl, Told, CloseMoves, ClosedServesNothing
        <3> QED
            BY <3>1, <3>2, <3>3, <3>4, <3>5
    <2> QED
        BY <2>2, <2>4, <2>6, <2>7 DEF LifeIInv
<1>5. ASSUME CloseStops, Is(Close, {"stop again"})
      PROVE  LifeIInv'
    <2>1. CloseMoves("stop remote")
        BY <1>0, <1>5, Moves
           DEF CloseStops, Step, Go, AnyPlace, OpenAt, CloseAt, SyncAt, TakeControl, Told
    <2>2. (LifeTypeOK /\ PlacesOK)'
        BY <1>0, <1>5, <2>1
           DEF CloseStops, TakeControl, Told, CloseMoves, LifeTypeOK, PlacesOK, ServerState,
               Opens, Gen, OpenAt, SyncAt, CloseAt
    <2>3. Done' = Done /\ (Bumped' <=> Bumped)
        BY <1>0, <1>5, <2>1 DEF CloseStops, CloseMoves, Done
    <2>4. GenerationsCounted'
        BY <1>0, <1>5, <2>1, <2>3
           DEF CloseStops, TakeControl, Told, CloseMoves, GenerationsCounted
    <2>5. Opening' = Opening
        BY <1>0, <1>5, <2>1 DEF CloseStops, CloseMoves, Opening
    <2>6. (CurrentIsThere /\ RuntimesHeld /\ InTurn)'
        BY <1>0, <1>5, <2>1, <2>5
           DEF CloseStops, TakeControl, Told, CloseMoves, CurrentIsThere, RuntimesHeld,
               InTurn, Closing
    <2>7. (ControlHeld /\ RemoteHeld /\ NothingToServe
         /\ StaleIsStopped /\ ClosedServesNothing)'
        <3>1. ControlHeld'
            BY <1>0, <1>5, <2>1
               DEF CloseStops, TakeControl, Told, CloseMoves, ControlHeld
        <3>2. RemoteHeld'
            BY <1>0, <1>5, <2>1
               DEF CloseStops, TakeControl, Told, CloseMoves, RemoteHeld
        <3>3. NothingToServe'
            BY <1>0, <1>5, <2>1
               DEF CloseStops, TakeControl, Told, CloseMoves, NothingToServe
        <3>4. StaleIsStopped'
            BY <1>0, <1>5, <2>1
               DEF CloseStops, TakeControl, Told, CloseMoves, StaleIsStopped
        <3>5. ClosedServesNothing'
            BY <1>0, <1>5, <2>1
               DEF CloseStops, TakeControl, Told, CloseMoves, ClosedServesNothing
        <3> QED
            BY <3>1, <3>2, <3>3, <3>4, <3>5
    <2> QED
        BY <2>2, <2>4, <2>6, <2>7 DEF LifeIInv
<1>6. ASSUME CloseStopsRemote
      PROVE  LifeIInv'
    <2>1. CloseMoves("done")
        BY <1>0, <1>6, Moves
           DEF CloseStopsRemote, Step, Go, AnyPlace, OpenAt, CloseAt, SyncAt, TakeRemote, Told
    <2>2. (LifeTypeOK /\ PlacesOK)'
        BY <1>0, <1>6, <2>1
           DEF CloseStopsRemote, TakeRemote, Told, CloseMoves, LifeTypeOK, PlacesOK,
               ServerState, Opens, Gen, OpenAt, SyncAt, CloseAt
    <2>3. Done' = Done /\ (Bumped' <=> Bumped)
        BY <1>0, <1>6, <2>1 DEF CloseStopsRemote, CloseMoves, Done
    <2>4. GenerationsCounted'
        BY <1>0, <1>6, <2>1, <2>3
           DEF CloseStopsRemote, TakeRemote, Told, CloseMoves, GenerationsCounted
    <2>5. Opening' = Opening
        BY <1>0, <1>6, <2>1 DEF CloseStopsRemote, CloseMoves, Opening
    <2>6. (CurrentIsThere /\ RuntimesHeld /\ InTurn)'
        BY <1>0, <1>6, <2>1, <2>5
           DEF CloseStopsRemote, TakeRemote, Told, CloseMoves, CurrentIsThere, RuntimesHeld,
               InTurn, Closing
    <2>7. (ControlHeld /\ RemoteHeld /\ NothingToServe
         /\ StaleIsStopped /\ ClosedServesNothing)'
        BY <1>0, <1>6, <2>1
           DEF CloseStopsRemote, TakeRemote, Told, CloseMoves, ControlHeld, RemoteHeld,
               NothingToServe, StaleIsStopped, ClosedServesNothing
    <2> QED
        BY <2>2, <2>4, <2>6, <2>7 DEF LifeIInv
<1> QED
    BY <1>0, <1>1, <1>2, <1>3, <1>4, <1>5, <1>6 DEF CloseStops

(* The starting of the servers, and their end.                             *)
LEMMA SyncKeeps ==
    ASSUME LifeIInv, NEW g \in Gen
    PROVE  SyncBegins(g) \/ SyncStops(g) \/ SyncStopsRemote(g) \/
           Look(g) \/ Bind(g) \/ Keep(g) \/ Store(g) \/ Stored(g) \/
           ReadRemote(g) \/ BindRemote(g) \/ KeepRemote(g) \/
           StoreRemote(g) \/ RemoteStored(g)
           => LifeIInv'
<1> USE LifecycleAssumption DEF LifeIInv, Is, faceVars, stateVars, controls, remotes,
        Bumped, ClosingStops, NewestStops, Unstarted, Starting, Unserved, StartingRemote
<1>0. /\ proc \in [Proc -> Place] /\ generation \in Nat
      /\ {current, runtimeSlot} \subseteq Opens \cup {0} /\ runtimes \subseteq Opens
      /\ {controlSlot, remoteSlot} \subseteq Gen \cup {0}
      /\ control \in [Gen -> ServerState] /\ remote \in [Gen -> ServerState]
      /\ \A j \in Opens : j \in Nat /\ j # 0 /\ j \in Gen
      /\ \A h \in Gen : h \in Nat /\ h # 0
    BY Calls DEF LifeTypeOK
<1>1. ASSUME SyncBegins(g), generation = g, current # 0
      PROVE  LifeIInv'
    <2>1. SyncMoves(g, "stop")
        BY <1>0, <1>1, Moves
           DEF SyncBegins, Step, Go, AnyPlace, OpenAt, CloseAt, SyncAt, Newest
    <2>2. (PlacesOK /\ GenerationsCounted /\ CurrentIsThere /\ RuntimesHeld /\ InTurn)'
        BY <1>0, <1>1, <2>1, SyncFrame DEF SyncBegins, SyncAt
    <2>3. LifeTypeOK'
        BY <1>0, <1>1, <2>1
           DEF SyncBegins, Newest, SyncMoves, LifeTypeOK, ServerState, Opens, Gen
    <2>4. (ControlHeld /\ RemoteHeld)'
        BY <1>0, <1>1, <2>1
           DEF SyncBegins, Newest, SyncMoves, ControlHeld, RemoteHeld
    <2>5. (NothingToServe /\ StaleIsStopped /\ ClosedServesNothing)'
        BY <1>0, <1>1, <2>1
           DEF SyncBegins, Newest, SyncMoves, NothingToServe, StaleIsStopped,
               ClosedServesNothing
    <2> QED
        BY <2>2, <2>3, <2>4, <2>5 DEF LifeIInv
<1>2. ASSUME SyncBegins(g), generation = g, current = 0
      PROVE  LifeIInv'
    <2>a. ~Is(Close, {"none", "take"})
        BY <1>0, <1>2, NothingYet
    <2>1. SyncMoves(g, "done")
        BY <1>0, <1>2, <2>a, Moves
           DEF SyncBegins, Step, Go, AnyPlace, OpenAt, CloseAt, SyncAt, Newest
    <2>2. (PlacesOK /\ GenerationsCounted /\ CurrentIsThere /\ RuntimesHeld /\ InTurn)'
        BY <1>0, <1>2, <2>1, SyncFrame DEF SyncBegins, SyncAt
    <2>3. LifeTypeOK'
        BY <1>0, <1>2, <2>1, <2>a
           DEF SyncBegins, Newest, SyncMoves, LifeTypeOK, ServerState, Opens, Gen
    <2>4. (ControlHeld /\ RemoteHeld)'
        BY <1>0, <1>2, <2>1, <2>a
           DEF SyncBegins, Newest, SyncMoves, ControlHeld, RemoteHeld
    <2>5. (NothingToServe /\ StaleIsStopped /\ ClosedServesNothing)'
        BY <1>0, <1>2, <2>1, <2>a
           DEF SyncBegins, Newest, SyncMoves, NothingToServe, StaleIsStopped,
               ClosedServesNothing, PlacesOK, CloseAt
    <2> QED
        BY <2>2, <2>3, <2>4, <2>5 DEF LifeIInv
<1>3. ASSUME SyncBegins(g), generation # g
      PROVE  LifeIInv'
    <2>1. SyncMoves(g, "done")
        BY <1>0, <1>3, Moves
           DEF SyncBegins, Step, Go, AnyPlace, OpenAt, CloseAt, SyncAt, Newest
    <2>2. (PlacesOK /\ GenerationsCounted /\ CurrentIsThere /\ RuntimesHeld /\ InTurn)'
        BY <1>0, <1>3, <2>1, SyncFrame DEF SyncBegins, SyncAt
    <2>3. LifeTypeOK'
        BY <1>0, <1>3, <2>1
           DEF SyncBegins, Newest, SyncMoves, LifeTypeOK, ServerState, Opens, Gen
    <2>4. (ControlHeld /\ RemoteHeld)'
        BY <1>0, <1>3, <2>1
           DEF SyncBegins, Newest, SyncMoves, ControlHeld, RemoteHeld
    <2>5. (NothingToServe /\ StaleIsStopped /\ ClosedServesNothing)'
        BY <1>0, <1>3, <2>1
           DEF SyncBegins, Newest, SyncMoves, NothingToServe, StaleIsStopped,
               ClosedServesNothing
    <2> QED
        BY <2>2, <2>3, <2>4, <2>5 DEF LifeIInv
<1>4. ASSUME SyncStops(g)
      PROVE  LifeIInv'
    <2>a. /\ control' \in [Gen -> ServerState] /\ controlSlot' = 0
           /\ \A h \in Gen : control'[h] = IF h = controlSlot THEN "ending" ELSE control[h]
        BY <1>0, <1>4 DEF SyncStops, TakeControl, Told, ServerState
    <2>1. SyncMoves(g, "stop remote")
        BY <1>0, <1>4, <2>a, Moves
           DEF SyncStops, Step, Go, AnyPlace, OpenAt, CloseAt, SyncAt, TakeControl, Told
    <2>2. (PlacesOK /\ GenerationsCounted /\ CurrentIsThere /\ RuntimesHeld /\ InTurn)'
        BY <1>0, <1>4, <2>1, SyncFrame
           DEF SyncStops, TakeControl, TakeRemote, SyncAt
    <2>3. LifeTypeOK'
        BY <1>0, <1>4, <2>1, <2>a
           DEF SyncStops, SyncMoves, LifeTypeOK, ServerState, Opens, Gen
    <2>4. (ControlHeld /\ RemoteHeld)'
        <3>1. ControlHeld'
            BY <1>0, <1>4, <2>1, <2>a DEF SyncStops, SyncMoves, ControlHeld
        <3>2. RemoteHeld'
            BY <1>0, <1>4, <2>1, <2>a DEF SyncStops, SyncMoves, RemoteHeld
        <3> QED
            BY <3>1, <3>2
    <2>5. (NothingToServe /\ StaleIsStopped /\ ClosedServesNothing)'
        BY <1>0, <1>4, <2>1, <2>a
           DEF SyncStops, SyncMoves, NothingToServe, StaleIsStopped, ClosedServesNothing
    <2> QED
        BY <2>2, <2>3, <2>4, <2>5 DEF LifeIInv
<1>5. ASSUME SyncStopsRemote(g), generation = g
      PROVE  LifeIInv'
    <2>1. SyncMoves(g, "look")
        BY <1>0, <1>5, Moves
           DEF SyncStopsRemote, Step, Go, AnyPlace, OpenAt, CloseAt, SyncAt, TakeRemote, Told,
               Newest
    <2>2. (PlacesOK /\ GenerationsCounted /\ CurrentIsThere /\ RuntimesHeld /\ InTurn)'
        BY <1>0, <1>5, <2>1, SyncFrame
           DEF SyncStopsRemote, TakeControl, TakeRemote, SyncAt
    <2>3. LifeTypeOK'
        BY <1>0, <1>5, <2>1
           DEF SyncStopsRemote, TakeRemote, Told, Newest, SyncMoves, LifeTypeOK, ServerState,
               Opens, Gen
    <2>4. (ControlHeld /\ RemoteHeld)'
        BY <1>0, <1>5, <2>1
           DEF SyncStopsRemote, TakeRemote, Told, Newest, SyncMoves, ControlHeld, RemoteHeld
    <2>5. (NothingToServe /\ StaleIsStopped /\ ClosedServesNothing)'
        BY <1>0, <1>5, <2>1
           DEF SyncStopsRemote, TakeRemote, Told, Newest, SyncMoves, NothingToServe,
               StaleIsStopped, ClosedServesNothing
    <2> QED
        BY <2>2, <2>3, <2>4, <2>5 DEF LifeIInv
<1>6. ASSUME SyncStopsRemote(g), generation # g
      PROVE  LifeIInv'
    <2>1. SyncMoves(g, "done")
        BY <1>0, <1>6, Moves
           DEF SyncStopsRemote, Step, Go, AnyPlace, OpenAt, CloseAt, SyncAt, TakeRemote, Told,
               Newest
    <2>2. (PlacesOK /\ GenerationsCounted /\ CurrentIsThere /\ RuntimesHeld /\ InTurn)'
        BY <1>0, <1>6, <2>1, SyncFrame
           DEF SyncStopsRemote, TakeControl, TakeRemote, SyncAt
    <2>3. LifeTypeOK'
        BY <1>0, <1>6, <2>1
           DEF SyncStopsRemote, TakeRemote, Told, Newest, SyncMoves, LifeTypeOK, ServerState,
               Opens, Gen
    <2>4. (ControlHeld /\ RemoteHeld)'
        BY <1>0, <1>6, <2>1
           DEF SyncStopsRemote, TakeRemote, Told, Newest, SyncMoves, ControlHeld, RemoteHeld
    <2>5. (NothingToServe /\ StaleIsStopped /\ ClosedServesNothing)'
        BY <1>0, <1>6, <2>1
           DEF SyncStopsRemote, TakeRemote, Told, Newest, SyncMoves, NothingToServe,
               StaleIsStopped, ClosedServesNothing
    <2> QED
        BY <2>2, <2>3, <2>4, <2>5 DEF LifeIInv
<1>7. ASSUME Look(g)
      PROVE  LifeIInv'
    <2>a. /\ control' = control /\ controlSlot' = controlSlot /\ generation' = generation
           /\ proc[SyncOf(g)].at = "look"
        BY <1>0, <1>7 DEF Look
    <2>1. SyncMoves(g, "bind")
        BY <1>0, <1>7, <2>a, Moves
           DEF Look, Step, Go, AnyPlace, OpenAt, CloseAt, SyncAt
    <2>2. (PlacesOK /\ GenerationsCounted /\ CurrentIsThere /\ RuntimesHeld /\ InTurn)'
        BY <1>0, <1>7, <2>1, SyncFrame DEF Look, SyncAt
    <2>3. LifeTypeOK'
        BY <1>0, <1>7, <2>1, <2>a
           DEF Look, SyncMoves, LifeTypeOK, ServerState, Opens, Gen
    <2>4. ControlHeld'
        BY <1>0, <1>7, <2>1, <2>a DEF SyncMoves, ControlHeld
    <2>5. RemoteHeld'
        BY <1>0, <1>7, <2>1, <2>a, ZenonT(30) DEF Look, SyncMoves, RemoteHeld
    <2>6. (NothingToServe /\ StaleIsStopped /\ ClosedServesNothing)'
        BY <1>0, <1>7, <2>1, <2>a
           DEF Look, SyncMoves, NothingToServe, StaleIsStopped, ClosedServesNothing
    <2> QED
        BY <2>2, <2>3, <2>4, <2>5, <2>6 DEF LifeIInv
<1>8. ASSUME Bind(g), proc[SyncOf(g)].saw = (socket # 0)
      PROVE  LifeIInv'
    <2>1. SyncMoves(g, "bound")
        BY <1>0, <1>8, Moves DEF Bind, Step, Go, AnyPlace, OpenAt, CloseAt, SyncAt
    <2>2. (PlacesOK /\ GenerationsCounted /\ CurrentIsThere /\ RuntimesHeld /\ InTurn)'
        BY <1>0, <1>8, <2>1, SyncFrame DEF Bind, SyncAt
    <2>3. LifeTypeOK'
        BY <1>0, <1>8, <2>1 DEF Bind, SyncMoves, LifeTypeOK, ServerState, Opens, Gen
    <2>4. (ControlHeld /\ RemoteHeld)'
        <3>1. ControlHeld'
            BY <1>0, <1>8, <2>1 DEF Bind, SyncMoves, ControlHeld
        <3>2. RemoteHeld'
            BY <1>0, <1>8, <2>1 DEF Bind, SyncMoves, RemoteHeld
        <3> QED
            BY <3>1, <3>2
    <2>5. (NothingToServe /\ StaleIsStopped /\ ClosedServesNothing)'
        BY <1>0, <1>8, <2>1
           DEF Bind, SyncMoves, NothingToServe, StaleIsStopped, ClosedServesNothing
    <2> QED
        BY <2>2, <2>3, <2>4, <2>5 DEF LifeIInv
<1>9. ASSUME Bind(g), proc[SyncOf(g)].saw # (socket # 0)
      PROVE  LifeIInv'
    <2>1. SyncMoves(g, "done")
        BY <1>0, <1>9, Moves DEF Bind, Step, Go, AnyPlace, OpenAt, CloseAt, SyncAt
    <2>2. (PlacesOK /\ GenerationsCounted /\ CurrentIsThere /\ RuntimesHeld /\ InTurn)'
        BY <1>0, <1>9, <2>1, SyncFrame DEF Bind, SyncAt
    <2>3. LifeTypeOK'
        BY <1>0, <1>9, <2>1 DEF Bind, SyncMoves, LifeTypeOK, ServerState, Opens, Gen
    <2>4. (ControlHeld /\ RemoteHeld)'
        BY <1>0, <1>9, <2>1 DEF Bind, SyncMoves, ControlHeld, RemoteHeld
    <2>5. (NothingToServe /\ StaleIsStopped /\ ClosedServesNothing)'
        BY <1>0, <1>9, <2>1
           DEF Bind, SyncMoves, NothingToServe, StaleIsStopped, ClosedServesNothing
    <2> QED
        BY <2>2, <2>3, <2>4, <2>5 DEF LifeIInv
<1>10. ASSUME Keep(g), generation = g
      PROVE  LifeIInv'
    <2>1. SyncMoves(g, "store")
        BY <1>0, <1>10, Moves
           DEF Keep, Step, Go, AnyPlace, OpenAt, CloseAt, SyncAt, Newest
    <2>2. (PlacesOK /\ GenerationsCounted /\ CurrentIsThere /\ RuntimesHeld /\ InTurn)'
        BY <1>0, <1>10, <2>1, SyncFrame DEF Keep, SyncAt
    <2>3. LifeTypeOK'
        BY <1>0, <1>10, <2>1
           DEF Keep, Newest, SyncMoves, LifeTypeOK, ServerState, Opens, Gen
    <2>4. (ControlHeld /\ RemoteHeld)'
        BY <1>0, <1>10, <2>1 DEF Keep, Newest, SyncMoves, ControlHeld, RemoteHeld
    <2>5. (NothingToServe /\ StaleIsStopped /\ ClosedServesNothing)'
        BY <1>0, <1>10, <2>1
           DEF Keep, Newest, SyncMoves, NothingToServe, StaleIsStopped, ClosedServesNothing
    <2> QED
        BY <2>2, <2>3, <2>4, <2>5 DEF LifeIInv
<1>11. ASSUME Keep(g), generation # g
      PROVE  LifeIInv'
    <2>1. SyncMoves(g, "done")
        BY <1>0, <1>11, Moves
           DEF Keep, Step, Go, AnyPlace, OpenAt, CloseAt, SyncAt, Told, Newest
    <2>2. (PlacesOK /\ GenerationsCounted /\ CurrentIsThere /\ RuntimesHeld /\ InTurn)'
        BY <1>0, <1>11, <2>1, SyncFrame DEF Keep, SyncAt
    <2>3. LifeTypeOK'
        BY <1>0, <1>11, <2>1
           DEF Keep, Told, Newest, SyncMoves, LifeTypeOK, ServerState, Opens, Gen
    <2>4. (ControlHeld /\ RemoteHeld)'
        <3>1. ControlHeld'
            BY <1>0, <1>11, <2>1 DEF Keep, Told, Newest, SyncMoves, ControlHeld
        <3>2. RemoteHeld'
            BY <1>0, <1>11, <2>1 DEF Keep, Told, Newest, SyncMoves, RemoteHeld
        <3> QED
            BY <3>1, <3>2
    <2>5. (NothingToServe /\ StaleIsStopped /\ ClosedServesNothing)'
        BY <1>0, <1>11, <2>1
           DEF Keep, Told, Newest, SyncMoves, NothingToServe, StaleIsStopped,
               ClosedServesNothing
    <2> QED
        BY <2>2, <2>3, <2>4, <2>5 DEF LifeIInv
<1>12. ASSUME Store(g)
      PROVE  LifeIInv'
    <2>1. SyncMoves(g, "stored")
        BY <1>0, <1>12, Moves
           DEF Store, Step, Go, AnyPlace, OpenAt, CloseAt, SyncAt, Told
    <2>2. (PlacesOK /\ GenerationsCounted /\ CurrentIsThere /\ RuntimesHeld /\ InTurn)'
        BY <1>0, <1>12, <2>1, SyncFrame DEF Store, SyncAt
    <2>3. LifeTypeOK'
        BY <1>0, <1>12, <2>1
           DEF Store, Told, SyncMoves, LifeTypeOK, ServerState, Opens, Gen
    <2>4. (ControlHeld /\ RemoteHeld)'
        BY <1>0, <1>12, <2>1 DEF Store, Told, SyncMoves, ControlHeld, RemoteHeld
    <2>5. (NothingToServe /\ StaleIsStopped /\ ClosedServesNothing)'
        BY <1>0, <1>12, <2>1
           DEF Store, Told, SyncMoves, NothingToServe, StaleIsStopped, ClosedServesNothing
    <2> QED
        BY <2>2, <2>3, <2>4, <2>5 DEF LifeIInv
<1>13. ASSUME Stored(g), generation = g
      PROVE  LifeIInv'
    <2>1. SyncMoves(g, "read")
        BY <1>0, <1>13, Moves
           DEF Stored, Step, Go, AnyPlace, OpenAt, CloseAt, SyncAt, Newest
    <2>2. (PlacesOK /\ GenerationsCounted /\ CurrentIsThere /\ RuntimesHeld /\ InTurn)'
        BY <1>0, <1>13, <2>1, SyncFrame DEF Stored, SyncAt
    <2>3. LifeTypeOK'
        BY <1>0, <1>13, <2>1
           DEF Stored, Newest, SyncMoves, LifeTypeOK, ServerState, Opens, Gen
    <2>4. (ControlHeld /\ RemoteHeld)'
        <3>1. ControlHeld'
            BY <1>0, <1>13, <2>1 DEF Stored, Newest, SyncMoves, ControlHeld
        <3>2. RemoteHeld'
            BY <1>0, <1>13, <2>1 DEF Stored, Newest, SyncMoves, RemoteHeld
        <3> QED
            BY <3>1, <3>2
    <2>5. (NothingToServe /\ StaleIsStopped /\ ClosedServesNothing)'
        BY <1>0, <1>13, <2>1
           DEF Stored, Newest, SyncMoves, NothingToServe, StaleIsStopped, ClosedServesNothing
    <2> QED
        BY <2>2, <2>3, <2>4, <2>5 DEF LifeIInv
<1>14. ASSUME Stored(g), generation # g, controlSlot = g
      PROVE  LifeIInv'
    <2>a. /\ control' \in [Gen -> ServerState] /\ controlSlot' = 0
           /\ proc[SyncOf(g)].at = "stored"
           /\ \A h \in Gen : control'[h] = IF h = controlSlot THEN "ending" ELSE control[h]
        BY <1>0, <1>14 DEF Stored, TakeControl, Told, Newest, ServerState
    <2>b. proc' = [proc EXCEPT ![SyncOf(g)].at = "done", ![SyncOf(g)].waits = controlSlot]
        BY <1>0, <1>14 DEF Stored, Newest, TakeControl
    <2>1. SyncMoves(g, "done")
        BY <1>0, <1>14, <2>a, <2>b, Moves
           DEF Stored, Step, Go, AnyPlace, OpenAt, CloseAt, SyncAt, TakeControl, Told, Newest
    <2>2. (PlacesOK /\ GenerationsCounted /\ CurrentIsThere /\ RuntimesHeld /\ InTurn)'
        BY <1>0, <1>14, <2>1, SyncFrame DEF Stored, TakeControl, TakeRemote, SyncAt
    <2>3. LifeTypeOK'
        BY <1>0, <1>14, <2>1, <2>a
           DEF Stored, SyncMoves, LifeTypeOK, ServerState, Opens, Gen
    <2>4. ControlHeld'
        BY <1>0, <1>14, <2>1, <2>a DEF SyncMoves, ControlHeld
    <2>5. RemoteHeld'
        BY <1>0, <1>14, <2>1, <2>a DEF Stored, SyncMoves, RemoteHeld
    <2>6. (NothingToServe /\ StaleIsStopped /\ ClosedServesNothing)'
        BY <1>0, <1>14, <2>1, <2>a
           DEF Stored, SyncMoves, NothingToServe, StaleIsStopped, ClosedServesNothing
    <2> QED
        BY <2>2, <2>3, <2>4, <2>5, <2>6 DEF LifeIInv
<1>15. ASSUME Stored(g), generation # g, controlSlot # g
      PROVE  LifeIInv'
    <2>1. SyncMoves(g, "done")
        BY <1>0, <1>15, Moves
           DEF Stored, Step, Go, AnyPlace, OpenAt, CloseAt, SyncAt, Newest
    <2>2. (PlacesOK /\ GenerationsCounted /\ CurrentIsThere /\ RuntimesHeld /\ InTurn)'
        BY <1>0, <1>15, <2>1, SyncFrame DEF Stored, SyncAt
    <2>3. LifeTypeOK'
        BY <1>0, <1>15, <2>1
           DEF Stored, Newest, SyncMoves, LifeTypeOK, ServerState, Opens, Gen
    <2>4. (ControlHeld /\ RemoteHeld)'
        <3>1. ControlHeld'
            BY <1>0, <1>15, <2>1 DEF Stored, Newest, SyncMoves, ControlHeld
        <3>2. RemoteHeld'
            BY <1>0, <1>15, <2>1 DEF Stored, Newest, SyncMoves, RemoteHeld
        <3> QED
            BY <3>1, <3>2
    <2>5. (NothingToServe /\ StaleIsStopped /\ ClosedServesNothing)'
        BY <1>0, <1>15, <2>1
           DEF Stored, Newest, SyncMoves, NothingToServe, StaleIsStopped, ClosedServesNothing
    <2> QED
        BY <2>2, <2>3, <2>4, <2>5 DEF LifeIInv
<1>16. ASSUME ReadRemote(g), current = 0
      PROVE  LifeIInv'
    <2>1. SyncMoves(g, "remote bound")
        BY <1>0, <1>16, Moves
           DEF ReadRemote, Step, Go, AnyPlace, OpenAt, CloseAt, SyncAt
    <2>2. (PlacesOK /\ GenerationsCounted /\ CurrentIsThere /\ RuntimesHeld /\ InTurn)'
        BY <1>0, <1>16, <2>1, SyncFrame DEF ReadRemote, SyncAt
    <2>3. LifeTypeOK'
        BY <1>0, <1>16, <2>1
           DEF ReadRemote, SyncMoves, LifeTypeOK, ServerState, Opens, Gen
    <2>4. (ControlHeld /\ RemoteHeld)'
        BY <1>0, <1>16, <2>1 DEF ReadRemote, SyncMoves, ControlHeld, RemoteHeld
    <2>5. (NothingToServe /\ StaleIsStopped /\ ClosedServesNothing)'
        BY <1>0, <1>16, <2>1
           DEF ReadRemote, SyncMoves, NothingToServe, StaleIsStopped, ClosedServesNothing
    <2> QED
        BY <2>2, <2>3, <2>4, <2>5 DEF LifeIInv
<1>17. ASSUME ReadRemote(g), current # 0
      PROVE  LifeIInv'
    <2>1. SyncMoves(g, "bind remote")
        BY <1>0, <1>17, Moves
           DEF ReadRemote, Step, Go, AnyPlace, OpenAt, CloseAt, SyncAt
    <2>2. (PlacesOK /\ GenerationsCounted /\ CurrentIsThere /\ RuntimesHeld /\ InTurn)'
        BY <1>0, <1>17, <2>1, SyncFrame DEF ReadRemote, SyncAt
    <2>3. LifeTypeOK'
        BY <1>0, <1>17, <2>1
           DEF ReadRemote, SyncMoves, LifeTypeOK, ServerState, Opens, Gen
    <2>4. (ControlHeld /\ RemoteHeld)'
        BY <1>0, <1>17, <2>1 DEF ReadRemote, SyncMoves, ControlHeld, RemoteHeld
    <2>5. (NothingToServe /\ StaleIsStopped /\ ClosedServesNothing)'
        BY <1>0, <1>17, <2>1
           DEF ReadRemote, SyncMoves, NothingToServe, StaleIsStopped, ClosedServesNothing
    <2> QED
        BY <2>2, <2>3, <2>4, <2>5 DEF LifeIInv
<1>18. ASSUME BindRemote(g)
      PROVE  LifeIInv'
    <2>1. SyncMoves(g, "remote bound")
        BY <1>0, <1>18, Moves
           DEF BindRemote, Step, Go, AnyPlace, OpenAt, CloseAt, SyncAt
    <2>2. (PlacesOK /\ GenerationsCounted /\ CurrentIsThere /\ RuntimesHeld /\ InTurn)'
        BY <1>0, <1>18, <2>1, SyncFrame DEF BindRemote, SyncAt
    <2>3. LifeTypeOK'
        BY <1>0, <1>18, <2>1
           DEF BindRemote, SyncMoves, LifeTypeOK, ServerState, Opens, Gen
    <2>4. (ControlHeld /\ RemoteHeld)'
        <3>1. ControlHeld'
            BY <1>0, <1>18, <2>1 DEF BindRemote, SyncMoves, ControlHeld
        <3>2. RemoteHeld'
            BY <1>0, <1>18, <2>1, ZenonT(30) DEF BindRemote, SyncMoves, RemoteHeld
        <3> QED
            BY <3>1, <3>2
    <2>5. (NothingToServe /\ StaleIsStopped /\ ClosedServesNothing)'
        BY <1>0, <1>18, <2>1
           DEF BindRemote, SyncMoves, NothingToServe, StaleIsStopped, ClosedServesNothing
    <2> QED
        BY <2>2, <2>3, <2>4, <2>5 DEF LifeIInv
<1>19. ASSUME KeepRemote(g), generation = g
      PROVE  LifeIInv'
    <2>1. SyncMoves(g, "store remote")
        BY <1>0, <1>19, Moves
           DEF KeepRemote, Step, Go, AnyPlace, OpenAt, CloseAt, SyncAt, Newest
    <2>2. (PlacesOK /\ GenerationsCounted /\ CurrentIsThere /\ RuntimesHeld /\ InTurn)'
        BY <1>0, <1>19, <2>1, SyncFrame DEF KeepRemote, SyncAt
    <2>3. LifeTypeOK'
        BY <1>0, <1>19, <2>1
           DEF KeepRemote, Newest, SyncMoves, LifeTypeOK, ServerState, Opens, Gen
    <2>4. (ControlHeld /\ RemoteHeld)'
        <3>1. ControlHeld'
            BY <1>0, <1>19, <2>1 DEF KeepRemote, Newest, SyncMoves, ControlHeld
        <3>2. RemoteHeld'
            BY <1>0, <1>19, <2>1 DEF KeepRemote, Newest, SyncMoves, RemoteHeld
        <3> QED
            BY <3>1, <3>2
    <2>5. (NothingToServe /\ StaleIsStopped /\ ClosedServesNothing)'
        BY <1>0, <1>19, <2>1
           DEF KeepRemote, Newest, SyncMoves, NothingToServe, StaleIsStopped,
               ClosedServesNothing
    <2> QED
        BY <2>2, <2>3, <2>4, <2>5 DEF LifeIInv
<1>20. ASSUME KeepRemote(g), generation # g
      PROVE  LifeIInv'
    <2>1. SyncMoves(g, "done")
        BY <1>0, <1>20, Moves
           DEF KeepRemote, Step, Go, AnyPlace, OpenAt, CloseAt, SyncAt, Told, Has, Newest
    <2>2. (PlacesOK /\ GenerationsCounted /\ CurrentIsThere /\ RuntimesHeld /\ InTurn)'
        BY <1>0, <1>20, <2>1, SyncFrame DEF KeepRemote, SyncAt
    <2>3. LifeTypeOK'
        BY <1>0, <1>20, <2>1
           DEF KeepRemote, Told, Has, Newest, SyncMoves, LifeTypeOK, ServerState, Opens, Gen
    <2>4. (ControlHeld /\ RemoteHeld)'
        <3>1. ControlHeld'
            BY <1>0, <1>20, <2>1
               DEF KeepRemote, Told, Has, Newest, SyncMoves, ControlHeld
        <3>2. RemoteHeld'
            BY <1>0, <1>20, <2>1, ZenonT(30)
               DEF KeepRemote, Told, Has, Newest, SyncMoves, RemoteHeld
        <3> QED
            BY <3>1, <3>2
    <2>5. (NothingToServe /\ StaleIsStopped /\ ClosedServesNothing)'
        BY <1>0, <1>20, <2>1
           DEF KeepRemote, Told, Has, Newest, SyncMoves, NothingToServe, StaleIsStopped,
               ClosedServesNothing
    <2> QED
        BY <2>2, <2>3, <2>4, <2>5 DEF LifeIInv
<1>21. ASSUME StoreRemote(g)
      PROVE  LifeIInv'
    <2>1. SyncMoves(g, "remote stored")
        BY <1>0, <1>21, Moves
           DEF StoreRemote, Step, Go, AnyPlace, OpenAt, CloseAt, SyncAt, Told, Has
    <2>2. (PlacesOK /\ GenerationsCounted /\ CurrentIsThere /\ RuntimesHeld /\ InTurn)'
        BY <1>0, <1>21, <2>1, SyncFrame DEF StoreRemote, SyncAt
    <2>3. LifeTypeOK'
        BY <1>0, <1>21, <2>1
           DEF StoreRemote, Told, Has, SyncMoves, LifeTypeOK, ServerState, Opens, Gen
    <2>4. (ControlHeld /\ RemoteHeld)'
        <3>1. ControlHeld'
            BY <1>0, <1>21, <2>1 DEF StoreRemote, Told, Has, SyncMoves, ControlHeld
        <3>2. RemoteHeld'
            BY <1>0, <1>21, <2>1 DEF StoreRemote, Told, Has, SyncMoves, RemoteHeld
        <3> QED
            BY <3>1, <3>2
    <2>5. (NothingToServe /\ StaleIsStopped /\ ClosedServesNothing)'
        BY <1>0, <1>21, <2>1
           DEF StoreRemote, Told, Has, SyncMoves, NothingToServe, StaleIsStopped,
               ClosedServesNothing
    <2> QED
        BY <2>2, <2>3, <2>4, <2>5 DEF LifeIInv
<1>22. ASSUME RemoteStored(g), ~Newest(g), remoteSlot = g
      PROVE  LifeIInv'
    <2>1. SyncMoves(g, "done")
        BY <1>0, <1>22, Moves
           DEF RemoteStored, Step, Go, AnyPlace, OpenAt, CloseAt, SyncAt, TakeRemote, Told,
               Newest
    <2>2. (PlacesOK /\ GenerationsCounted /\ CurrentIsThere /\ RuntimesHeld /\ InTurn)'
        BY <1>0, <1>22, <2>1, SyncFrame
           DEF RemoteStored, TakeControl, TakeRemote, SyncAt
    <2>3. LifeTypeOK'
        BY <1>0, <1>22, <2>1
           DEF RemoteStored, TakeRemote, Told, Newest, SyncMoves, LifeTypeOK, ServerState,
               Opens, Gen
    <2>4. (ControlHeld /\ RemoteHeld)'
        <3>1. ControlHeld'
            BY <1>0, <1>22, <2>1
               DEF RemoteStored, TakeRemote, Told, Newest, SyncMoves, ControlHeld
        <3>2. RemoteHeld'
            BY <1>0, <1>22, <2>1, ZenonT(30)
               DEF RemoteStored, TakeRemote, Told, Newest, SyncMoves, RemoteHeld
        <3> QED
            BY <3>1, <3>2
    <2>5. (NothingToServe /\ StaleIsStopped /\ ClosedServesNothing)'
        BY <1>0, <1>22, <2>1
           DEF RemoteStored, TakeRemote, Told, Newest, SyncMoves, NothingToServe,
               StaleIsStopped, ClosedServesNothing
    <2> QED
        BY <2>2, <2>3, <2>4, <2>5 DEF LifeIInv
<1>23. ASSUME RemoteStored(g), Newest(g) \/ remoteSlot # g
      PROVE  LifeIInv'
    <2>1. SyncMoves(g, "done")
        BY <1>0, <1>23, Moves
           DEF RemoteStored, Step, Go, AnyPlace, OpenAt, CloseAt, SyncAt, Newest
    <2>2. (PlacesOK /\ GenerationsCounted /\ CurrentIsThere /\ RuntimesHeld /\ InTurn)'
        BY <1>0, <1>23, <2>1, SyncFrame DEF RemoteStored, SyncAt
    <2>3. LifeTypeOK'
        BY <1>0, <1>23, <2>1
           DEF RemoteStored, Newest, SyncMoves, LifeTypeOK, ServerState, Opens, Gen
    <2>4. (ControlHeld /\ RemoteHeld)'
        <3>1. ControlHeld'
            BY <1>0, <1>23, <2>1 DEF RemoteStored, Newest, SyncMoves, ControlHeld
        <3>2. RemoteHeld'
            BY <1>0, <1>23, <2>1 DEF RemoteStored, Newest, SyncMoves, RemoteHeld
        <3> QED
            BY <3>1, <3>2
    <2>5. (NothingToServe /\ StaleIsStopped /\ ClosedServesNothing)'
        BY <1>0, <1>23, <2>1
           DEF RemoteStored, Newest, SyncMoves, NothingToServe, StaleIsStopped,
               ClosedServesNothing
    <2> QED
        BY <2>2, <2>3, <2>4, <2>5 DEF LifeIInv
<1> QED
    BY <1>0, <1>1, <1>2, <1>3, <1>4, <1>5, <1>6, <1>7, <1>8, <1>9, <1>10, <1>11, <1>12, <1>13,
       <1>14, <1>15, <1>16, <1>17, <1>18, <1>19, <1>20, <1>21, <1>22, <1>23

(* The end of a server.                                                    *)
LEMMA EndKeeps ==
    ASSUME LifeIInv, NEW g \in Gen
    PROVE  EndControl(g) \/ EndRemote(g)
           => LifeIInv'
<1> USE LifecycleAssumption DEF LifeIInv, Is, faceVars, stateVars, controls, remotes,
        Bumped, ClosingStops, NewestStops, Unstarted, Starting, Unserved, StartingRemote
<1>0. /\ proc \in [Proc -> Place] /\ generation \in Nat
      /\ {current, runtimeSlot} \subseteq Opens \cup {0} /\ runtimes \subseteq Opens
      /\ {controlSlot, remoteSlot} \subseteq Gen \cup {0}
      /\ control \in [Gen -> ServerState] /\ remote \in [Gen -> ServerState]
      /\ \A j \in Opens : j \in Nat /\ j # 0 /\ j \in Gen
      /\ \A h \in Gen : h \in Nat /\ h # 0
    BY Calls DEF LifeTypeOK
<1>1. ASSUME EndControl(g)
      PROVE  LifeIInv'
    <2>1. proc' = proc
        BY <1>1 DEF EndControl
    <2>2. (LifeTypeOK /\ PlacesOK)'
        BY <1>0, <1>1, <2>1
           DEF EndControl, LifeTypeOK, PlacesOK, ServerState, Opens, Gen, OpenAt, SyncAt,
               CloseAt
    <2>3. Done' = Done /\ (Bumped' <=> Bumped)
        BY <1>0, <1>1, <2>1 DEF EndControl, Done
    <2>4. GenerationsCounted'
        BY <1>0, <1>1, <2>1, <2>3 DEF EndControl, GenerationsCounted
    <2>5. (CurrentIsThere /\ RuntimesHeld /\ InTurn)'
        BY <1>0, <1>1, <2>1
           DEF EndControl, CurrentIsThere, RuntimesHeld, InTurn, Opening, Closing
    <2>6. (ControlHeld /\ RemoteHeld /\ NothingToServe
         /\ StaleIsStopped /\ ClosedServesNothing)'
        BY <1>0, <1>1, <2>1
           DEF EndControl, ControlHeld, RemoteHeld, NothingToServe, StaleIsStopped,
               ClosedServesNothing
    <2> QED
        BY <2>2, <2>4, <2>5, <2>6 DEF LifeIInv
<1>2. ASSUME EndRemote(g)
      PROVE  LifeIInv'
    <2>1. proc' = proc
        BY <1>2 DEF EndRemote
    <2>2. (LifeTypeOK /\ PlacesOK)'
        BY <1>0, <1>2, <2>1
           DEF EndRemote, LifeTypeOK, PlacesOK, ServerState, Opens, Gen, OpenAt, SyncAt,
               CloseAt
    <2>3. Done' = Done /\ (Bumped' <=> Bumped)
        BY <1>0, <1>2, <2>1 DEF EndRemote, Done
    <2>4. GenerationsCounted'
        BY <1>0, <1>2, <2>1, <2>3 DEF EndRemote, GenerationsCounted
    <2>5. (CurrentIsThere /\ RuntimesHeld /\ InTurn)'
        BY <1>0, <1>2, <2>1
           DEF EndRemote, CurrentIsThere, RuntimesHeld, InTurn, Opening, Closing
    <2>6. (ControlHeld /\ RemoteHeld /\ NothingToServe
         /\ StaleIsStopped /\ ClosedServesNothing)'
        BY <1>0, <1>2, <2>1
           DEF EndRemote, ControlHeld, RemoteHeld, NothingToServe, StaleIsStopped,
               ClosedServesNothing
    <2> QED
        BY <2>2, <2>4, <2>5, <2>6 DEF LifeIInv
<1> QED
    BY <1>0, <1>1, <1>2

(* What the application begins.                                            *)
LEMMA FaceKeeps ==
    ASSUME LifeIInv
    PROVE  BeginOpen \/ Teardown \/ Destroy
           => LifeIInv'
<1> USE LifecycleAssumption DEF LifeIInv, Is, faceVars, stateVars, controls, remotes,
        Bumped, ClosingStops, NewestStops, Unstarted, Starting, Unserved, StartingRemote
<1>0. /\ proc \in [Proc -> Place] /\ generation \in Nat
      /\ {current, runtimeSlot} \subseteq Opens \cup {0} /\ runtimes \subseteq Opens
      /\ {controlSlot, remoteSlot} \subseteq Gen \cup {0}
      /\ control \in [Gen -> ServerState] /\ remote \in [Gen -> ServerState]
      /\ \A j \in Opens : j \in Nat /\ j # 0 /\ j \in Gen
      /\ \A h \in Gen : h \in Nat /\ h # 0
    BY Calls DEF LifeTypeOK
<1>1. ASSUME BeginOpen
      PROVE  LifeIInv'
    <2>a. issued + 1 \in Opens
        BY <1>0, <1>1 DEF BeginOpen, LifeTypeOK, Opens
    <2>b. Is(OpenOf(issued + 1), {"none"}) /\ Is(Close, {"none"})
        BY <1>0, <1>1, <2>a DEF BeginOpen, InTurn, LifeTypeOK, Opens
    <2>c. ~overlapped' => ~overlapped /\ Opening = {}
        BY <1>0, <1>1 DEF BeginOpen
    <2>1. OpenMoves(issued + 1, "stop")
        BY <1>0, <1>1, <2>a, <2>b, <2>c, Moves
           DEF BeginOpen, Step, Go, AnyPlace, OpenAt, CloseAt, SyncAt
    <2>2. LifeTypeOK'
        BY <1>0, <1>1, <2>1, <2>a, <2>b, <2>c
           DEF BeginOpen, OpenMoves, LifeTypeOK, ServerState, Opens, Gen
    <2>3. PlacesOK'
        BY <1>0, <1>1, <2>1, <2>a, <2>b, <2>c
           DEF BeginOpen, OpenMoves, PlacesOK, OpenAt, SyncAt, CloseAt
    <2>4. Done' = Done /\ (Bumped' <=> Bumped)
        BY <1>0, <1>1, <2>1, <2>a, <2>b, <2>c DEF BeginOpen, OpenMoves, Done
    <2>5. GenerationsCounted'
        BY <1>0, <1>1, <2>1, <2>a, <2>b, <2>c, <2>4
           DEF BeginOpen, OpenMoves, GenerationsCounted
    <2>6. (CurrentIsThere /\ RuntimesHeld /\ InTurn)'
        BY <1>0, <1>1, <2>1, <2>a, <2>b, <2>c
           DEF BeginOpen, OpenMoves, CurrentIsThere, RuntimesHeld, InTurn, Opening, Closing,
               LifeTypeOK, Opens
    <2>7. (ControlHeld /\ RemoteHeld /\ NothingToServe
         /\ StaleIsStopped /\ ClosedServesNothing)'
        BY <1>0, <1>1, <2>1, <2>a, <2>b, <2>c
           DEF BeginOpen, OpenMoves, ControlHeld, RemoteHeld, NothingToServe, StaleIsStopped,
               ClosedServesNothing
    <2> QED
        BY <2>2, <2>3, <2>5, <2>6, <2>7 DEF LifeIInv
<1>2. ASSUME Teardown, face = "open"
      PROVE  LifeIInv'
    <2>a. Is(Close, {"none"})
        BY <1>0, <1>2 DEF InTurn, Teardown
    <2>b. ~overlapped' => ~overlapped /\ Opening = {}
        BY <1>0, <1>2 DEF Teardown
    <2>1. CloseMoves("take")
        BY <1>0, <1>2, <2>a, <2>b, Moves
           DEF Teardown, Step, Go, AnyPlace, OpenAt, CloseAt, SyncAt
    <2>2. (LifeTypeOK /\ PlacesOK)'
        BY <1>0, <1>2, <2>1, <2>a, <2>b
           DEF Teardown, CloseMoves, LifeTypeOK, PlacesOK, ServerState, Opens, Gen, OpenAt,
               SyncAt, CloseAt
    <2>3. Done' = Done /\ (Bumped' <=> Bumped)
        BY <1>0, <1>2, <2>1, <2>a, <2>b DEF Teardown, CloseMoves, Done
    <2>4. GenerationsCounted'
        BY <1>0, <1>2, <2>1, <2>a, <2>b, <2>3
           DEF Teardown, CloseMoves, GenerationsCounted
    <2>5. (CurrentIsThere /\ RuntimesHeld /\ InTurn)'
        BY <1>0, <1>2, <2>1, <2>a, <2>b
           DEF Teardown, CloseMoves, CurrentIsThere, RuntimesHeld, InTurn, Opening, Closing
    <2>6. (ControlHeld /\ RemoteHeld /\ NothingToServe
         /\ StaleIsStopped /\ ClosedServesNothing)'
        BY <1>0, <1>2, <2>1, <2>a, <2>b
           DEF Teardown, CloseMoves, ControlHeld, RemoteHeld, NothingToServe, StaleIsStopped,
               ClosedServesNothing
    <2> QED
        BY <2>2, <2>4, <2>5, <2>6 DEF LifeIInv
<1>3. ASSUME Teardown, face # "open"
      PROVE  LifeIInv'
    <2>1. proc' = proc
        BY <1>3 DEF Teardown
    <2>2. (LifeTypeOK /\ PlacesOK)'
        BY <1>0, <1>3, <2>1
           DEF Teardown, LifeTypeOK, PlacesOK, ServerState, Opens, Gen, OpenAt, SyncAt,
               CloseAt
    <2>3. Done' = Done /\ (Bumped' <=> Bumped)
        BY <1>0, <1>3, <2>1 DEF Teardown, Done
    <2>4. GenerationsCounted'
        BY <1>0, <1>3, <2>1, <2>3 DEF Teardown, GenerationsCounted
    <2>5. (CurrentIsThere /\ RuntimesHeld /\ InTurn)'
        BY <1>0, <1>3, <2>1
           DEF Teardown, CurrentIsThere, RuntimesHeld, InTurn, Opening, Closing
    <2>6. (ControlHeld /\ RemoteHeld /\ NothingToServe
         /\ StaleIsStopped /\ ClosedServesNothing)'
        BY <1>0, <1>3, <2>1
           DEF Teardown, ControlHeld, RemoteHeld, NothingToServe, StaleIsStopped,
               ClosedServesNothing
    <2> QED
        BY <2>2, <2>4, <2>5, <2>6 DEF LifeIInv
<1>4. ASSUME Destroy
      PROVE  LifeIInv'
    <2>1. proc' = proc
        BY <1>4 DEF Destroy
    <2>2. (LifeTypeOK /\ PlacesOK)'
        BY <1>0, <1>4, <2>1
           DEF Destroy, LifeTypeOK, PlacesOK, ServerState, Opens, Gen, OpenAt, SyncAt, CloseAt
    <2>3. Done' = Done /\ (Bumped' <=> Bumped)
        BY <1>0, <1>4, <2>1 DEF Destroy, Done
    <2>4. GenerationsCounted'
        BY <1>0, <1>4, <2>1, <2>3 DEF Destroy, GenerationsCounted
    <2>5. (CurrentIsThere /\ RuntimesHeld /\ InTurn)'
        BY <1>0, <1>4, <2>1
           DEF Destroy, CurrentIsThere, RuntimesHeld, InTurn, Opening, Closing
    <2>6. (ControlHeld /\ RemoteHeld /\ NothingToServe
         /\ StaleIsStopped /\ ClosedServesNothing)'
        BY <1>0, <1>4, <2>1
           DEF Destroy, ControlHeld, RemoteHeld, NothingToServe, StaleIsStopped,
               ClosedServesNothing
    <2> QED
        BY <2>2, <2>4, <2>5, <2>6 DEF LifeIInv
<1> QED
    BY <1>0, <1>1, <1>2, <1>3, <1>4

(* Never more than MaxOpens + 1 generations.                               *)
LEMMA DoneBounded ==
    ASSUME LifeIInv
    PROVE  /\ IsFiniteSet(Done) /\ Cardinality(Done) \in 0 .. MaxOpens
           /\ \A k \in Opens : ~Is(OpenOf(k), {"done"}) => Cardinality(Done) < MaxOpens
<1>1. IsFiniteSet(Opens) /\ Cardinality(Opens) = MaxOpens
    BY LifecycleAssumption, FS_Interval DEF Opens
<1>2. Done \subseteq Opens
    BY DEF Done
<1>3. /\ IsFiniteSet(Done) /\ Cardinality(Done) \in Nat /\ Cardinality(Done) <= MaxOpens
      /\ Cardinality(Done) = MaxOpens => Done = Opens
    BY <1>1, <1>2, FS_Subset, FS_CardinalityType
<1>4. QED
    BY <1>3, LifecycleAssumption DEF Done

(* The steps that give out a generation.                                   *)
LEMMA GenerationKeeps ==
    ASSUME LifeIInv
    PROVE  (\E k \in Opens : Opened(k)) \/ Bump => LifeIInv'
<1> USE LifecycleAssumption DEF LifeIInv, Is, faceVars, stateVars, controls, remotes
<1>0. /\ proc \in [Proc -> Place] /\ generation \in Nat
      /\ {current, runtimeSlot} \subseteq Opens \cup {0} /\ runtimes \subseteq Opens
      /\ {controlSlot, remoteSlot} \subseteq Gen \cup {0}
      /\ control \in [Gen -> ServerState] /\ remote \in [Gen -> ServerState]
      /\ \A j \in Opens : j \in Nat /\ j # 0 /\ j \in Gen
      /\ \A h \in Gen : h \in Nat /\ h # 0
    BY Calls DEF LifeTypeOK
<1>1. ASSUME NEW k \in Opens, Opened(k) PROVE LifeIInv'
    <2>a. /\ generation + 1 \in Gen /\ proc[OpenOf(k)].at = "opened" /\ generation' = generation + 1
          /\ proc[SyncOf(generation + 1)].at = "none" /\ generation \in Gen \cup {0}
        BY <1>0, <1>1, DoneBounded DEF Opened, GenerationsCounted, Gen
    <2>1. /\ \A j \in Opens : proc'[OpenOf(j)].at = IF j = k THEN "done" ELSE proc[OpenOf(j)].at
          /\ \A h \in Gen : proc'[SyncOf(h)].at = IF h = generation + 1 THEN "spawned" ELSE proc[SyncOf(h)].at
          /\ proc'[Close].at = proc[Close].at /\ proc' \in [Proc -> Place]
        <3>1. PICK s \in Proc : s = SyncOf(generation + 1)
            BY <2>a, Calls
        <3>2. OpenOf(k) \in Proc /\ OpenOf(k) # s
              /\ "done" \in AnyPlace /\ "spawned" \in AnyPlace
            BY <2>a, <3>1, Calls DEF AnyPlace, OpenAt, SyncAt, Unstarted
        <3>3. proc' = [proc EXCEPT ![OpenOf(k)].at = "done", ![s].at = "spawned"]
            BY <1>1, <3>1 DEF Opened
        <3>4. /\ proc' \in [Proc -> Place]
              /\ \A q \in Proc : proc'[q].at = IF q = OpenOf(k) THEN "done"
                                                ELSE IF q = s THEN "spawned" ELSE proc[q].at
            <4>1. proc \in [Proc -> Place]
                BY <1>0
            <4>2. [proc EXCEPT ![OpenOf(k)].at = "done"] \in [Proc -> Place]
                BY <3>2, <4>1 DEF Place
            <4>3. QED
                BY <4>1, <4>2, <3>2, <3>3 DEF Place
        <3>5. QED
            BY <3>1, <3>4, <2>a, Calls
    <2>u. /\ UNCHANGED <<current, runtimes, controlSlot, remoteSlot, control, remote>>
          /\ UNCHANGED <<issued, face, overlapped, runtimeSlot>>
        BY <1>1 DEF Opened
    <2>o. Opening' = Opening \ {k}
        BY <2>1, <2>a DEF Opening
    <2>b. Done' = Done \cup {k} /\ k \notin Done /\ (Bumped' <=> Bumped)
        BY <1>0, <2>1, <2>a DEF Done, Bumped
    <2>c. Cardinality(Done') = Cardinality(Done) + 1
        BY <2>b, DoneBounded, FS_AddElement
    <2>d. GenerationsCounted'
        BY <1>0, <2>1, <2>a, <2>b, <2>c, DoneBounded DEF GenerationsCounted
    <2>2. LifeTypeOK'
        BY <1>0, <1>1, <2>1, <2>a, <2>u, <2>o DEF LifeTypeOK, Opens, Gen
    <2>3. PlacesOK'
        BY <1>0, <1>1, <2>1, <2>a, <2>u, <2>o
           DEF PlacesOK, OpenAt, SyncAt, CloseAt, Unstarted, Starting, Unserved,
               StartingRemote
    <2>4. CurrentIsThere'
        BY <1>0, <1>1, <2>1, <2>a, <2>u, <2>o DEF CurrentIsThere
    <2>5. ControlHeld'
        BY <1>0, <1>1, <2>1, <2>a, <2>u, <2>o
           DEF ControlHeld, GenerationsCounted, Unstarted, Starting, Unserved, StartingRemote
    <2>6. RemoteHeld'
        BY <1>0, <1>1, <2>1, <2>a, <2>u, <2>o
           DEF RemoteHeld, GenerationsCounted, Unstarted, Starting, Unserved, StartingRemote
    <2>7. NothingToServe'
        BY <1>0, <1>1, <2>1, <2>a, <2>u, <2>o
           DEF NothingToServe, GenerationsCounted, Unstarted, Starting, Unserved,
               StartingRemote, NewestStops, ClosingStops, Bumped
    <2>8. StaleIsStopped'
        BY <1>0, <1>1, <2>1, <2>a, <2>u, <2>o
           DEF StaleIsStopped, GenerationsCounted, Unstarted, Starting, Unserved,
               StartingRemote, NewestStops, ClosingStops, Bumped, ClosedServesNothing
    <2>9. ClosedServesNothing'
        BY <1>0, <1>1, <2>1, <2>a, <2>u, <2>o
           DEF ClosedServesNothing, GenerationsCounted, Unstarted, Starting, Unserved,
               StartingRemote, NewestStops, ClosingStops, Bumped, ControlHeld, RemoteHeld
    <2>10. RuntimesHeld'
        BY <1>0, <1>1, <2>1, <2>a, <2>u, <2>o DEF RuntimesHeld
    <2>11. InTurn'
        BY <1>0, <1>1, <2>1, <2>a, <2>u, <2>o DEF InTurn, Opening, Closing
    <2> QED
        BY <2>2, <2>3, <2>d, <2>4, <2>5, <2>6, <2>7, <2>8, <2>9, <2>10, <2>11
           DEF LifeIInv
<1>2. ASSUME Bump PROVE LifeIInv'
    <2>0. proc[Close].at = "bump" /\ ~Bumped /\ generation' = generation + 1
        BY <1>2 DEF Bump, Bumped
    <2>a. /\ generation + 1 \in Gen /\ generation = Cardinality(Done)
          /\ proc[SyncOf(generation + 1)].at = "none" /\ generation \in Gen \cup {0}
        BY <1>0, <2>0, DoneBounded DEF GenerationsCounted, Gen
    <2>1. CloseMoves("stop again")
        BY <1>0, <1>2, Moves DEF Bump, Step, Go, AnyPlace, CloseAt
    <2>b. Done' = Done /\ Bumped' /\ ~Bumped
        BY <1>0, <2>0, <2>1, <2>a DEF Done, Bumped, CloseMoves
    <2>d. GenerationsCounted'
        <3>0. \A g \in Gen : g > generation => proc[SyncOf(g)].at = "none"
            BY DEF GenerationsCounted
        <3>1. generation' = Cardinality(Done') + (IF Bumped' THEN 1 ELSE 0)
            BY <1>0, <2>0, <2>a, <2>b, DoneBounded
        <3>2. \A g \in Gen : g > generation' => proc'[SyncOf(g)].at = "none"
            <4>1. \A g \in Gen : g > generation' => g > generation
                BY <1>0, <2>0
            <4>2. QED
                BY <2>1, <3>0, <4>1 DEF CloseMoves
        <3>3. QED
            BY <3>1, <3>2 DEF GenerationsCounted
    <2>2. LifeTypeOK'
        BY <1>0, <1>2, <2>0, <2>1, <2>a DEF Bump, CloseMoves, LifeTypeOK, Opens, Gen
    <2>3. PlacesOK'
        BY <1>0, <1>2, <2>0, <2>1, <2>a
           DEF Bump, CloseMoves, PlacesOK, OpenAt, SyncAt, CloseAt, Unstarted, Starting,
               Unserved, StartingRemote
    <2>4. CurrentIsThere'
        BY <1>0, <1>2, <2>0, <2>1, <2>a DEF Bump, CloseMoves, CurrentIsThere
    <2>5. ControlHeld'
        BY <1>0, <1>2, <2>0, <2>1, <2>a
           DEF Bump, CloseMoves, ControlHeld, GenerationsCounted, Unstarted, Starting,
               Unserved, StartingRemote
    <2>6. RemoteHeld'
        BY <1>0, <1>2, <2>0, <2>1, <2>a
           DEF Bump, CloseMoves, RemoteHeld, GenerationsCounted, Unstarted, Starting,
               Unserved, StartingRemote
    <2>7. NothingToServe'
        BY <1>0, <1>2, <2>0, <2>1, <2>a
           DEF Bump, CloseMoves, NothingToServe, GenerationsCounted, Unstarted, Starting,
               Unserved, StartingRemote, NewestStops, ClosingStops, Bumped
    <2>8. StaleIsStopped'
        BY <1>0, <1>2, <2>0, <2>1, <2>a
           DEF Bump, CloseMoves, StaleIsStopped, GenerationsCounted, Unstarted, Starting,
               Unserved, StartingRemote, NewestStops, ClosingStops, Bumped,
               ClosedServesNothing
    <2>9. ClosedServesNothing'
        BY <1>0, <1>2, <2>0, <2>1, <2>a
           DEF Bump, CloseMoves, ClosedServesNothing, GenerationsCounted, Unstarted, Starting,
               Unserved, StartingRemote, NewestStops, ClosingStops, Bumped, ControlHeld,
               RemoteHeld
    <2>10. RuntimesHeld'
        BY <1>0, <1>2, <2>0, <2>1, <2>a DEF Bump, CloseMoves, RuntimesHeld
    <2>11. InTurn'
        BY <1>0, <1>2, <2>0, <2>1, <2>a, ZenonT(30)
           DEF Bump, CloseMoves, InTurn, Opening, Closing
    <2> QED
        BY <2>2, <2>3, <2>d, <2>4, <2>5, <2>6, <2>7, <2>8, <2>9, <2>10, <2>11
           DEF LifeIInv
<1>3. QED
    BY <1>1, <1>2

(* ServicesFollowProject: whatever calls of project.open and project.close *)
(* overlap, no server of an earlier opening serves on, the open project    *)
(* has its runtime, and a project closed in turn leaves nothing behind.    *)
THEOREM ServicesFollow == LifeSpec => []ServicesFollowProject
<1>1. LifeInit => LifeIInv
    <2>1. ASSUME LifeInit
          PROVE  /\ proc \in [Proc -> Place] /\ \A p \in Proc : proc[p].at = "none"
                 /\ generation = 0 /\ MaxOpens \in Nat
        BY <2>1, LifecycleAssumption DEF LifeInit, Place, AnyPlace, OpenAt
    <2>2. LifeInit => Done = {} /\ ~Bumped /\ Opening = {}
        BY <2>1, Calls DEF Done, Bumped, Opening, Is
    <2>3. LifeInit => LifeTypeOK /\ PlacesOK /\ GenerationsCounted
        <3>1. LifeInit => LifeTypeOK
            <4>1. LifeInit => control \in [Gen -> ServerState] /\ remote \in [Gen -> ServerState]
                BY DEF LifeInit, ServerState
            <4>2. LifeInit => issued \in 0 .. MaxOpens /\ generation \in Nat
                BY LifecycleAssumption DEF LifeInit
            <4>3. QED
                BY <2>1, <4>1, <4>2 DEF LifeInit, LifeTypeOK
        <3>2. LifeInit => PlacesOK
            BY <2>1, Calls DEF PlacesOK, OpenAt, SyncAt, CloseAt, Unstarted
        <3>3. LifeInit => GenerationsCounted
            <4>1. LifeInit => generation = Cardinality(Done) + (IF Bumped THEN 1 ELSE 0)
                BY <2>1, <2>2, FS_EmptySet
            <4>2. LifeInit => \A g \in Gen : proc[SyncOf(g)].at = "none"
                BY <2>1, Calls
            <4>3. QED
                BY <4>1, <4>2 DEF GenerationsCounted, Is
        <3>4. QED
            BY <3>1, <3>2, <3>3
    <2>4. LifeInit => CurrentIsThere /\ ControlHeld /\ RemoteHeld
        BY <2>1, Calls
           DEF LifeInit, CurrentIsThere, ControlHeld, RemoteHeld, Is, Starting,
               StartingRemote
    <2>5. LifeInit => NothingToServe /\ StaleIsStopped /\ ClosedServesNothing
        BY <2>1, <2>2
           DEF LifeInit, NothingToServe, StaleIsStopped, ClosedServesNothing
    <2>6. LifeInit => RuntimesHeld /\ InTurn
        BY <2>1, <2>2, Calls DEF LifeInit, RuntimesHeld, InTurn, Is
    <2>7. QED
        BY <2>3, <2>4, <2>5, <2>6 DEF LifeIInv
<1>2. LifeIInv /\ [LifeNext]_lifeVars => LifeIInv'
    <2>1. ASSUME LifeIInv, UNCHANGED lifeVars
          PROVE  LifeIInv'
        <3>1. /\ UNCHANGED <<face, issued, overlapped, current, runtimeSlot, runtimes, proc>>
              /\ UNCHANGED <<controlSlot, remoteSlot, generation, control, remote>>
            BY <2>1 DEF lifeVars, faceVars, stateVars, controls, remotes
        <3>2. Done' = Done /\ Opening' = Opening
            BY <3>1 DEF Done, Opening, Is
        <3>3. (LifeTypeOK /\ PlacesOK /\ GenerationsCounted)'
            BY <2>1, <3>1, <3>2
               DEF LifeIInv, LifeTypeOK, PlacesOK, GenerationsCounted, Is, Bumped
        <3>4. (CurrentIsThere /\ ControlHeld /\ RemoteHeld /\ NothingToServe)'
            BY <2>1, <3>1
               DEF LifeIInv, CurrentIsThere, ControlHeld, RemoteHeld, NothingToServe, Is,
                   Bumped
        <3>5. (StaleIsStopped /\ ClosedServesNothing /\ RuntimesHeld)'
            BY <2>1, <3>1
               DEF LifeIInv, StaleIsStopped, ClosedServesNothing, RuntimesHeld, Is, Bumped,
                   ClosingStops, NewestStops
        <3>6. InTurn'
            BY <2>1, <3>1, <3>2 DEF LifeIInv, InTurn, Is
        <3>7. QED
            BY <3>3, <3>4, <3>5, <3>6 DEF LifeIInv
    <2>2. QED
        BY <2>1, OpenKeeps, CloseKeeps, SyncKeeps, EndKeeps, FaceKeeps, GenerationKeeps
           DEF LifeNext, OpenStep, CloseStep, SyncStep
<1>3. LifeIInv => ServicesFollowProject
    <2> SUFFICES ASSUME LifeIInv PROVE ServicesFollowProject
        OBVIOUS
    <2> USE DEF LifeIInv, Is
    <2>0. ASSUME Settled
          PROVE  /\ \A g \in Gen : proc[SyncOf(g)].at \in {"none", "done"}
                 /\ \A k \in Opens : proc[OpenOf(k)].at \in {"none", "done", "failed"}
                 /\ proc[Close].at \in {"none", "done"}
                 /\ controlSlot \in Gen \cup {0} /\ remoteSlot \in Gen \cup {0}
                 /\ current \in Opens \cup {0}
                 /\ \A g \in Gen : g # 0
        BY <2>0, Calls DEF Settled, Opening, Closing, LifeTypeOK
    <2>1. NoStaleServer
        <3>1. ASSUME Settled
              PROVE  {controlSlot, remoteSlot} \subseteq {0, generation}
            BY <2>0, <3>1 DEF StaleIsStopped, ClosingStops, NewestStops
        <3>2. ASSUME Settled
              PROVE  /\ Serving(control) = {controlSlot} \ {0}
                     /\ Serving(remote) = {remoteSlot} \ {0}
            BY <2>0, <3>2
               DEF Serving, ControlHeld, RemoteHeld, Starting, StartingRemote
        <3>3. QED
            BY <3>1, <3>2 DEF NoStaleServer
    <2>2. CurrentHasRuntime
        BY <2>0 DEF CurrentHasRuntime, RuntimesHeld
    <2>3. ClosedIsQuiet
        BY <2>0
           DEF ClosedIsQuiet, InTurn, ClosedServesNothing, StaleIsStopped, ClosingStops,
               NewestStops, Bumped
    <2>4. QED
        BY <2>1, <2>2, <2>3 DEF ServicesFollowProject
<1>4. QED
    BY <1>1, <1>2, <1>3, PTL DEF LifeSpec

-----------------------------------------------------------------------------
(* What the record of a request holds at each place.                       *)
HasTicket == {"source", "fetch", "add", "row", "link"}
Linked == {"fetch", "add", "row", "link"}
OpenerRecord == [item : Item, tree : Ticket \cup {Nothing}]
LaunchRecord ==
    {Resting} \cup [at : {"look", "task"}, item : Item]
              \cup [at : HasTicket \cup {"answered"}, item : Item, ticket : Ticket]
              \cup [at : {"branch", "answered"}, branch : Branch, item : {Nothing}]

OpenerTypeOK ==
    /\ tickets \in [Ticket -> OpenerRecord \cup {Nothing}]
    /\ sourceOf \in [Item -> Ticket \cup {Nothing}]
    /\ treeRow \subseteq Ticket
    /\ launch \in [Launcher -> LaunchRecord]
    /\ DOMAIN checkout = Ticket /\ checkout = [t \in Ticket |-> checkout[t]]

Busy(c) == launch[c].at \notin {"resting", "answered", "branch"}
Usable(t) == tickets[t] # Nothing /\ tickets[t].tree = t /\ checkout[t] # Nothing

(* Requests under way are for different items, one a pull request.         *)
ItemsApart ==
    \A c, d \in Launcher : Busy(c) /\ Busy(d) /\ c # d =>
        /\ launch[c].item # launch[d].item
        /\ ~(launch[c].item \in PullRequest /\ launch[d].item \in PullRequest)
        /\ launch[c].at \in HasTicket /\ launch[d].at \in HasTicket
               => launch[c].ticket # launch[d].ticket

(* What a request has done so far, if its task was not deleted.            *)
TicketsHeld ==
    \A c \in Launcher : launch[c].at \in HasTicket /\ tickets[launch[c].ticket] # Nothing =>
            /\ tickets[launch[c].ticket].item = launch[c].item
            /\ tickets[launch[c].ticket].tree = Nothing
            /\ launch[c].at = "link" /\ checkout[launch[c].ticket] # Nothing
                   => launch[c].ticket \in treeRow
            /\ launch[c].at \in Linked => sourceOf[launch[c].item] = launch[c].ticket
HeadFetched ==
    \A c \in Launcher :
        /\ launch[c].at = "fetch" => launch[c].item \in PullRequest
        /\ launch[c].at = "add" /\ launch[c].item \in PullRequest => fetchHead = launch[c].item

(* The task an item points to is its own, and the usable one if any is;    *)
(* who is about to make another found none.                                *)
SourcesTrue ==
    /\ \A i \in Item : sourceOf[i] # Nothing =>
           tickets[sourceOf[i]] # Nothing /\ tickets[sourceOf[i]].item = i
    /\ \A t \in Ticket : tickets[t] # Nothing /\ tickets[t].tree # Nothing => tickets[t].tree = t
    /\ \A t \in Ticket : Usable(t) => sourceOf[tickets[t].item] = t /\ t \in treeRow
NoneUsable ==
    \A c \in Launcher, t \in Ticket :
        launch[c].at \in {"task"} \cup HasTicket /\ Usable(t) => tickets[t].item # launch[c].item

OpenerIInv ==
    /\ OpenerTypeOK /\ ItemsApart /\ TicketsHeld /\ HeadFetched /\ SourcesTrue /\ NoneUsable
    /\ ContentIsMeant

(* What a request's record holds at each place.                            *)
LEMMA Records ==
    ASSUME OpenerTypeOK, NEW c \in Launcher
    PROVE  /\ launch[c] \in LaunchRecord
           /\ launch[c].at \in {"look", "task"} \cup HasTicket => launch[c].item \in Item
           /\ launch[c].at \in HasTicket =>
                  launch[c].ticket \in Ticket /\ "ticket" \in DOMAIN launch[c]
<1>1. launch[c] \in LaunchRecord
    BY DEF OpenerTypeOK
<1>2. QED
    BY <1>1 DEF LaunchRecord, Resting, HasTicket

(* A request that has its task goes on with it, while the others stay.     *)
LEMMA Onward ==
    ASSUME OpenerTypeOK, NEW c \in Launcher, launch[c].at \in HasTicket,
           NEW at \in HasTicket \cup {"answered"}, To(c, at)
    PROVE  /\ launch' \in [Launcher -> LaunchRecord]
           /\ launch'[c].at = at /\ launch'[c].item = launch[c].item
           /\ launch'[c].ticket = launch[c].ticket
           /\ \A d \in Launcher \ {c} : launch'[d] = launch[d]
<1>1. launch[c] \in [at : HasTicket \cup {"answered"}, item : Item, ticket : Ticket]
    BY Records DEF LaunchRecord, Resting, HasTicket
<1>2. [launch[c] EXCEPT !.at = at] \in [at : HasTicket \cup {"answered"}, item : Item, ticket : Ticket]
    BY <1>1
<1>3. QED
    BY <1>1, <1>2 DEF To, OpenerTypeOK, LaunchRecord

(* The steps of a request for an issue or a pull request.                  *)
LEMMA TicketKeeps ==
    ASSUME OpenerIInv, Apart, NEW c \in Launcher
    PROVE  BeginLaunch(c) \/ LookForLaunch(c) \/ CreateTicket(c) \/ LinkTicket(c) \/ Fetch(c)
           \/ AddCheckout(c) \/ StoreCheckout(c) \/ AnswerLaunch(c) => OpenerIInv'
<1> USE OpenerAssumption DEF OpenerIInv, Stage, HasTicket, Linked, Busy, Usable
<1>0. /\ launch \in [Launcher -> LaunchRecord] /\ tickets \in [Ticket -> OpenerRecord \cup {Nothing}]
      /\ sourceOf \in [Item -> Ticket \cup {Nothing}] /\ treeRow \subseteq Ticket
      /\ DOMAIN checkout = Ticket /\ checkout = [t \in Ticket |-> checkout[t]]
      /\ Nothing \notin Item /\ Nothing \notin Ticket /\ Nothing \notin OpenerRecord
      /\ \A d \in Launcher :
             /\ launch[d].at \in {"look", "task"} \cup HasTicket => launch[d].item \in Item
             /\ launch[d].at \in HasTicket =>
                    launch[d].ticket \in Ticket /\ "ticket" \in DOMAIN launch[d]
    BY Records DEF OpenerTypeOK, OpenerRecord
<1>1. ASSUME BeginLaunch(c)
      PROVE  OpenerIInv'
    <2>1. PICK i \in Item : MayStart(c, i) /\ launch' = [launch EXCEPT ![c] = [at |-> "look", item |-> i]]
        BY <1>0, <1>1 DEF BeginLaunch
    <2>2. /\ launch' \in [Launcher -> LaunchRecord] /\ launch'[c] = [at |-> "look", item |-> i]
          /\ \A d \in Launcher \ {c} : launch'[d] = launch[d]
        BY <1>0, <1>1, <2>1 DEF LaunchRecord
    <2>3. OpenerTypeOK'
        BY <1>0, <1>1, <2>1, <2>2 DEF BeginLaunch, MayStart, OpenerTypeOK
    <2>4. ItemsApart'
        BY <1>0, <1>1, <2>1, <2>2 DEF BeginLaunch, MayStart, ItemsApart
    <2>5. TicketsHeld'
        BY <1>0, <1>1, <2>1, <2>2 DEF BeginLaunch, MayStart, TicketsHeld
    <2>6. HeadFetched'
        BY <1>0, <1>1, <2>1, <2>2 DEF BeginLaunch, MayStart, HeadFetched
    <2>7. SourcesTrue'
        BY <1>0, <1>1, <2>1, <2>2 DEF BeginLaunch, MayStart, SourcesTrue
    <2>8. NoneUsable'
        BY <1>0, <1>1, <2>1, <2>2 DEF BeginLaunch, MayStart, NoneUsable
    <2>9. ContentIsMeant'
        BY <1>0, <1>1, <2>1, <2>2 DEF BeginLaunch, MayStart, ContentIsMeant
    <2> QED
        BY <2>3, <2>4, <2>5, <2>6, <2>7, <2>8, <2>9
<1>2. ASSUME LookForLaunch(c)
      PROVE  OpenerIInv'
    <2>1. launch[c].item \in Item /\ (Existing(launch[c].item) => sourceOf[launch[c].item] \in Ticket)
        BY <1>0, <1>2 DEF LookForLaunch, Existing
    <2>2. /\ launch' \in [Launcher -> LaunchRecord] /\ launch'[c] = IF Existing(launch[c].item)
                THEN [at |-> "answered", item |-> launch[c].item, ticket |-> sourceOf[launch[c].item]]
                ELSE [at |-> "task", item |-> launch[c].item]
          /\ \A d \in Launcher \ {c} : launch'[d] = launch[d]
        BY <1>0, <1>2, <2>1 DEF LookForLaunch, LaunchRecord
    <2>3. OpenerTypeOK'
        BY <1>0, <1>2, <2>1, <2>2 DEF LookForLaunch, OpenerTypeOK
    <2>4. ItemsApart'
        BY <1>0, <1>2, <2>1, <2>2 DEF LookForLaunch, ItemsApart
    <2>5. TicketsHeld'
        BY <1>0, <1>2, <2>1, <2>2 DEF LookForLaunch, TicketsHeld
    <2>6. HeadFetched'
        BY <1>0, <1>2, <2>1, <2>2 DEF LookForLaunch, HeadFetched
    <2>7. SourcesTrue'
        BY <1>0, <1>2, <2>1, <2>2 DEF LookForLaunch, SourcesTrue
    <2>8. NoneUsable'
        BY <1>0, <1>2, <2>1, <2>2
           DEF LookForLaunch, NoneUsable, Existing, SourcesTrue
    <2>9. ContentIsMeant'
        BY <1>0, <1>2, <2>1, <2>2 DEF LookForLaunch, ContentIsMeant
    <2> QED
        BY <2>3, <2>4, <2>5, <2>6, <2>7, <2>8, <2>9
<1>3. ASSUME CreateTicket(c)
      PROVE  OpenerIInv'
    <2>1. PICK t \in Ticket :
              /\ tickets[t] = Nothing /\ checkout[t] = Nothing
              /\ \A d \in Launcher : "ticket" \in DOMAIN launch[d] => launch[d].ticket # t
              /\ tickets' = [tickets EXCEPT ![t] = [item |-> launch[c].item, tree |-> Nothing]]
              /\ launch' = [launch EXCEPT ![c] = [at |-> "source", item |-> launch[c].item, ticket |-> t]]
        BY <1>0, <1>3 DEF CreateTicket
    <2>2. launch[c].at = "task" /\ launch[c].item \in Item
        BY <1>0, <1>3, <2>1 DEF CreateTicket
    <2>3. /\ launch' \in [Launcher -> LaunchRecord]
          /\ launch'[c] = [at |-> "source", item |-> launch[c].item, ticket |-> t]
          /\ \A d \in Launcher \ {c} : launch'[d] = launch[d]
        BY <1>0, <1>3, <2>1, <2>2 DEF LaunchRecord
    <2>4. OpenerTypeOK'
        BY <1>0, <1>3, <2>1, <2>2, <2>3 DEF CreateTicket, OpenerTypeOK, OpenerRecord
    <2>5. ItemsApart'
        BY <1>0, <1>3, <2>1, <2>2, <2>3 DEF CreateTicket, ItemsApart
    <2>6. TicketsHeld'
        BY <1>0, <1>3, <2>1, <2>2, <2>3 DEF CreateTicket, TicketsHeld
    <2>7. HeadFetched'
        BY <1>0, <1>3, <2>1, <2>2, <2>3 DEF CreateTicket, HeadFetched
    <2>8. SourcesTrue'
        BY <1>0, <1>3, <2>1, <2>2, <2>3 DEF CreateTicket, SourcesTrue
    <2>9. NoneUsable'
        BY <1>0, <1>3, <2>1, <2>2, <2>3 DEF CreateTicket, NoneUsable
    <2>10. ContentIsMeant'
        BY <1>0, <1>3, <2>1, <2>2, <2>3 DEF CreateTicket, ContentIsMeant
    <2> QED
        BY <2>4, <2>5, <2>6, <2>7, <2>8, <2>9, <2>10
<1>4. ASSUME LinkTicket(c)
      PROVE  OpenerIInv'
    <2>1. launch[c].at = "source"
        BY <1>0, <1>4 DEF LinkTicket
    <2>2. /\ launch' \in [Launcher -> LaunchRecord]
          /\ launch'[c].at = (IF launch[c].item \in PullRequest THEN "fetch" ELSE "add")
          /\ launch'[c].item = launch[c].item
          /\ launch'[c].ticket = launch[c].ticket
          /\ \A d \in Launcher \ {c} : launch'[d] = launch[d]
        BY <1>0, <1>4, <2>1, Onward DEF LinkTicket
    <2>3. OpenerTypeOK'
        BY <1>0, <1>4, <2>1, <2>2 DEF LinkTicket, LinkOf, OpenerTypeOK
    <2>4. ItemsApart'
        BY <1>0, <1>4, <2>1, <2>2 DEF LinkTicket, LinkOf, ItemsApart
    <2>5. TicketsHeld'
        BY <1>0, <1>4, <2>1, <2>2 DEF LinkTicket, LinkOf, TicketsHeld, ItemsApart
    <2>6. HeadFetched'
        BY <1>0, <1>4, <2>1, <2>2 DEF LinkTicket, LinkOf, HeadFetched
    <2>7. SourcesTrue'
        BY <1>0, <1>4, <2>1, <2>2
           DEF LinkTicket, LinkOf, SourcesTrue, TicketsHeld, NoneUsable
    <2>8. NoneUsable'
        BY <1>0, <1>4, <2>1, <2>2 DEF LinkTicket, LinkOf, NoneUsable
    <2>9. ContentIsMeant'
        BY <1>0, <1>4, <2>1, <2>2 DEF LinkTicket, LinkOf, ContentIsMeant
    <2> QED
        BY <2>3, <2>4, <2>5, <2>6, <2>7, <2>8, <2>9
<1>5. ASSUME Fetch(c)
      PROVE  OpenerIInv'
    <2>1. launch[c].at = "fetch"
        BY <1>0, <1>5 DEF Fetch
    <2>2. /\ launch' \in [Launcher -> LaunchRecord]
          /\ launch'[c].at = "add" /\ launch'[c].item = launch[c].item
          /\ launch'[c].ticket = launch[c].ticket
          /\ \A d \in Launcher \ {c} : launch'[d] = launch[d]
        BY <1>0, <1>5, <2>1, Onward DEF Fetch
    <2>3. OpenerTypeOK'
        BY <1>0, <1>5, <2>1, <2>2 DEF Fetch, OpenerTypeOK
    <2>4. ItemsApart'
        BY <1>0, <1>5, <2>1, <2>2 DEF Fetch, ItemsApart
    <2>5. TicketsHeld'
        BY <1>0, <1>5, <2>1, <2>2 DEF Fetch, TicketsHeld
    <2>6. HeadFetched'
        BY <1>0, <1>5, <2>1, <2>2 DEF Fetch, HeadFetched, ItemsApart
    <2>7. SourcesTrue'
        BY <1>0, <1>5, <2>1, <2>2 DEF Fetch, SourcesTrue
    <2>8. NoneUsable'
        BY <1>0, <1>5, <2>1, <2>2 DEF Fetch, NoneUsable
    <2>9. ContentIsMeant'
        BY <1>0, <1>5, <2>1, <2>2 DEF Fetch, ContentIsMeant
    <2> QED
        BY <2>3, <2>4, <2>5, <2>6, <2>7, <2>8, <2>9
<1>6. ASSUME AddCheckout(c)
      PROVE  OpenerIInv'
    <2>1. launch[c].at = "add"
        BY <1>0, <1>6 DEF AddCheckout
    <2>2. /\ launch' \in [Launcher -> LaunchRecord]
          /\ launch'[c].at = "row" /\ launch'[c].item = launch[c].item
          /\ launch'[c].ticket = launch[c].ticket
          /\ \A d \in Launcher \ {c} : launch'[d] = launch[d]
        BY <1>0, <1>6, <2>1, Onward DEF AddCheckout
    <2>3. OpenerTypeOK'
        BY <1>0, <1>6, <2>1, <2>2 DEF AddCheckout, StartPoint, OpenerTypeOK
    <2>4. ItemsApart'
        BY <1>0, <1>6, <2>1, <2>2 DEF AddCheckout, StartPoint, ItemsApart
    <2>5. TicketsHeld'
        BY <1>0, <1>6, <2>1, <2>2
           DEF AddCheckout, StartPoint, TicketsHeld, ItemsApart
    <2>6. HeadFetched'
        BY <1>0, <1>6, <2>1, <2>2 DEF AddCheckout, StartPoint, HeadFetched
    <2>7. SourcesTrue'
        BY <1>0, <1>6, <2>1, <2>2
           DEF AddCheckout, StartPoint, SourcesTrue, TicketsHeld
    <2>8. NoneUsable'
        BY <1>0, <1>6, <2>1, <2>2
           DEF AddCheckout, StartPoint, NoneUsable, TicketsHeld
    <2>9. ContentIsMeant'
        BY <1>0, <1>6, <2>1, <2>2
           DEF AddCheckout, StartPoint, ContentIsMeant, Meant, HeadFetched, TicketsHeld
    <2> QED
        BY <2>3, <2>4, <2>5, <2>6, <2>7, <2>8, <2>9
<1>7. ASSUME StoreCheckout(c)
      PROVE  OpenerIInv'
    <2>1. launch[c].at = "row"
        BY <1>0, <1>7 DEF StoreCheckout
    <2>2. /\ launch' \in [Launcher -> LaunchRecord]
          /\ launch'[c].at = "link" /\ launch'[c].item = launch[c].item
          /\ launch'[c].ticket = launch[c].ticket
          /\ \A d \in Launcher \ {c} : launch'[d] = launch[d]
        BY <1>0, <1>7, <2>1, Onward DEF StoreCheckout
    <2>3. OpenerTypeOK'
        BY <1>0, <1>7, <2>1, <2>2 DEF StoreCheckout, OpenerTypeOK
    <2>4. ItemsApart'
        BY <1>0, <1>7, <2>1, <2>2 DEF StoreCheckout, ItemsApart
    <2>5. TicketsHeld'
        BY <1>0, <1>7, <2>1, <2>2 DEF StoreCheckout, TicketsHeld
    <2>6. HeadFetched'
        BY <1>0, <1>7, <2>1, <2>2 DEF StoreCheckout, HeadFetched
    <2>7. SourcesTrue'
        BY <1>0, <1>7, <2>1, <2>2 DEF StoreCheckout, SourcesTrue
    <2>8. NoneUsable'
        BY <1>0, <1>7, <2>1, <2>2 DEF StoreCheckout, NoneUsable
    <2>9. ContentIsMeant'
        BY <1>0, <1>7, <2>1, <2>2 DEF StoreCheckout, ContentIsMeant
    <2> QED
        BY <2>3, <2>4, <2>5, <2>6, <2>7, <2>8, <2>9
<1>8. ASSUME AnswerLaunch(c)
      PROVE  OpenerIInv'
    <2>1. launch[c].at = "link"
        BY <1>0, <1>8 DEF AnswerLaunch
    <2>2. /\ launch' \in [Launcher -> LaunchRecord]
          /\ launch'[c].at = "answered" /\ launch'[c].item = launch[c].item
          /\ launch'[c].ticket = launch[c].ticket
          /\ \A d \in Launcher \ {c} : launch'[d] = launch[d]
        BY <1>0, <1>8, <2>1, Onward DEF AnswerLaunch
    <2>3. OpenerTypeOK'
        BY <1>0, <1>8, <2>1, <2>2 DEF AnswerLaunch, OpenerTypeOK, OpenerRecord
    <2>4. ItemsApart'
        BY <1>0, <1>8, <2>1, <2>2 DEF AnswerLaunch, ItemsApart
    <2>5. TicketsHeld'
        BY <1>0, <1>8, <2>1, <2>2
           DEF AnswerLaunch, TicketsHeld, ItemsApart, OpenerRecord
    <2>6. HeadFetched'
        BY <1>0, <1>8, <2>1, <2>2 DEF AnswerLaunch, HeadFetched
    <2>7. SourcesTrue'
        BY <1>0, <1>8, <2>1, <2>2
           DEF AnswerLaunch, SourcesTrue, TicketsHeld, OpenerRecord
    <2>8. NoneUsable'
        BY <1>0, <1>8, <2>1, <2>2
           DEF AnswerLaunch, NoneUsable, TicketsHeld, ItemsApart, OpenerRecord
    <2>9. ContentIsMeant'
        BY <1>0, <1>8, <2>1, <2>2 DEF AnswerLaunch, ContentIsMeant, OpenerRecord
    <2> QED
        BY <2>3, <2>4, <2>5, <2>6, <2>7, <2>8, <2>9
<1> QED
    BY <1>1, <1>2, <1>3, <1>4, <1>5, <1>6, <1>7, <1>8

(* A request fails, opens a branch; tasks and directories go.              *)
LEMMA OtherKeeps ==
    ASSUME OpenerIInv, Apart
    PROVE  (\/ \E c \in Launcher : FailLaunch(c)
            \/ \E c \in Launcher : OpenBranch(c)
            \/ \E c \in Launcher : AddBranchTree(c)
            \/ \E t \in Ticket : CleanTicket(t)
            \/ \E t \in Ticket : DeleteTicket(t)
            \/ LoseCheckout) => OpenerIInv'
<1> USE OpenerAssumption DEF OpenerIInv, Stage, HasTicket, Linked, Busy, Usable
<1>0. /\ launch \in [Launcher -> LaunchRecord] /\ tickets \in [Ticket -> OpenerRecord \cup {Nothing}]
      /\ sourceOf \in [Item -> Ticket \cup {Nothing}] /\ treeRow \subseteq Ticket
      /\ DOMAIN checkout = Ticket /\ checkout = [t \in Ticket |-> checkout[t]]
      /\ Nothing \notin Item /\ Nothing \notin Ticket /\ Nothing \notin OpenerRecord
      /\ \A d \in Launcher :
             /\ launch[d].at \in {"look", "task"} \cup HasTicket => launch[d].item \in Item
             /\ launch[d].at \in HasTicket =>
                    launch[d].ticket \in Ticket /\ "ticket" \in DOMAIN launch[d]
    BY Records DEF OpenerTypeOK, OpenerRecord
<1>1. ASSUME (\E c \in Launcher : FailLaunch(c))
      PROVE  OpenerIInv'
    <2>1. PICK c \in Launcher : FailLaunch(c)
        BY <1>0, <1>1
    <2>2. /\ launch' \in [Launcher -> LaunchRecord] /\ launch'[c] = Resting
          /\ \A d \in Launcher \ {c} : launch'[d] = launch[d]
        BY <1>0, <1>1, <2>1 DEF FailLaunch, LaunchRecord
    <2>3. OpenerTypeOK'
        BY <1>0, <1>1, <2>1, <2>2 DEF FailLaunch, Resting, OpenerTypeOK
    <2>4. ItemsApart'
        BY <1>0, <1>1, <2>1, <2>2 DEF FailLaunch, Resting, ItemsApart
    <2>5. TicketsHeld'
        BY <1>0, <1>1, <2>1, <2>2 DEF FailLaunch, Resting, TicketsHeld
    <2>6. HeadFetched'
        BY <1>0, <1>1, <2>1, <2>2 DEF FailLaunch, Resting, HeadFetched
    <2>7. SourcesTrue'
        BY <1>0, <1>1, <2>1, <2>2 DEF FailLaunch, Resting, SourcesTrue
    <2>8. NoneUsable'
        BY <1>0, <1>1, <2>1, <2>2 DEF FailLaunch, Resting, NoneUsable
    <2>9. ContentIsMeant'
        BY <1>0, <1>1, <2>1, <2>2 DEF FailLaunch, Resting, ContentIsMeant
    <2> QED
        BY <2>3, <2>4, <2>5, <2>6, <2>7, <2>8, <2>9
<1>2. ASSUME (\E c \in Launcher : OpenBranch(c))
      PROVE  OpenerIInv'
    <2>1. PICK c \in Launcher : OpenBranch(c)
        BY <1>0, <1>2
    <2>2. PICK b \in Branch :
              launch' = [launch EXCEPT ![c] =
                            [at |-> IF branchTree[b] = "none" THEN "branch" ELSE "answered",
                             branch |-> b, item |-> Nothing]]
        BY <1>0, <1>2, <2>1 DEF OpenBranch
    <2>3. /\ launch' \in [Launcher -> LaunchRecord]
          /\ launch'[c] = [at |-> IF branchTree[b] = "none" THEN "branch" ELSE "answered",
                           branch |-> b, item |-> Nothing]
          /\ \A d \in Launcher \ {c} : launch'[d] = launch[d]
        BY <1>0, <1>2, <2>1, <2>2 DEF LaunchRecord
    <2>4. OpenerTypeOK'
        BY <1>0, <1>2, <2>1, <2>2, <2>3 DEF OpenBranch, OpenerTypeOK
    <2>5. ItemsApart'
        BY <1>0, <1>2, <2>1, <2>2, <2>3 DEF OpenBranch, ItemsApart
    <2>6. TicketsHeld'
        BY <1>0, <1>2, <2>1, <2>2, <2>3 DEF OpenBranch, TicketsHeld
    <2>7. HeadFetched'
        BY <1>0, <1>2, <2>1, <2>2, <2>3 DEF OpenBranch, HeadFetched
    <2>8. SourcesTrue'
        BY <1>0, <1>2, <2>1, <2>2, <2>3 DEF OpenBranch, SourcesTrue
    <2>9. NoneUsable'
        BY <1>0, <1>2, <2>1, <2>2, <2>3 DEF OpenBranch, NoneUsable
    <2>10. ContentIsMeant'
        BY <1>0, <1>2, <2>1, <2>2, <2>3 DEF OpenBranch, ContentIsMeant
    <2> QED
        BY <2>4, <2>5, <2>6, <2>7, <2>8, <2>9, <2>10
<1>3. ASSUME (\E c \in Launcher : AddBranchTree(c))
      PROVE  OpenerIInv'
    <2>1. PICK c \in Launcher : AddBranchTree(c)
        BY <1>0, <1>3
    <2>2. launch[c] \in [at : {"branch", "answered"}, branch : Branch, item : {Nothing}]
        BY <1>0, <1>3, <2>1 DEF AddBranchTree, LaunchRecord, Resting
    <2>3. /\ launch' \in [Launcher -> LaunchRecord] /\ launch'[c].at = "answered"
          /\ \A d \in Launcher \ {c} : launch'[d] = launch[d]
        BY <1>0, <1>3, <2>1, <2>2 DEF AddBranchTree, To, LaunchRecord
    <2>4. OpenerTypeOK'
        BY <1>0, <1>3, <2>1, <2>2, <2>3 DEF AddBranchTree, OpenerTypeOK
    <2>5. ItemsApart'
        BY <1>0, <1>3, <2>1, <2>2, <2>3 DEF AddBranchTree, ItemsApart
    <2>6. TicketsHeld'
        BY <1>0, <1>3, <2>1, <2>2, <2>3 DEF AddBranchTree, TicketsHeld
    <2>7. HeadFetched'
        BY <1>0, <1>3, <2>1, <2>2, <2>3 DEF AddBranchTree, HeadFetched
    <2>8. SourcesTrue'
        BY <1>0, <1>3, <2>1, <2>2, <2>3 DEF AddBranchTree, SourcesTrue
    <2>9. NoneUsable'
        BY <1>0, <1>3, <2>1, <2>2, <2>3 DEF AddBranchTree, NoneUsable
    <2>10. ContentIsMeant'
        BY <1>0, <1>3, <2>1, <2>2, <2>3 DEF AddBranchTree, ContentIsMeant
    <2> QED
        BY <2>4, <2>5, <2>6, <2>7, <2>8, <2>9, <2>10
<1>4. ASSUME (\E t \in Ticket : CleanTicket(t))
      PROVE  OpenerIInv'
    <2>1. PICK t \in Ticket : CleanTicket(t)
        BY <1>0, <1>4
    <2>2. [tickets[t] EXCEPT !.tree = Nothing] \in OpenerRecord
        BY <1>0, <1>4, <2>1 DEF CleanTicket, OpenerRecord
    <2>3. OpenerTypeOK'
        BY <1>0, <1>4, <2>1, <2>2 DEF CleanTicket, OpenerTypeOK, OpenerRecord
    <2>4. ItemsApart'
        BY <1>0, <1>4, <2>1, <2>2 DEF CleanTicket, ItemsApart
    <2>5. TicketsHeld'
        BY <1>0, <1>4, <2>1, <2>2 DEF CleanTicket, TicketsHeld, OpenerRecord
    <2>6. HeadFetched'
        BY <1>0, <1>4, <2>1, <2>2 DEF CleanTicket, HeadFetched
    <2>7. SourcesTrue'
        BY <1>0, <1>4, <2>1, <2>2 DEF CleanTicket, SourcesTrue, OpenerRecord
    <2>8. NoneUsable'
        BY <1>0, <1>4, <2>1, <2>2 DEF CleanTicket, NoneUsable, OpenerRecord
    <2>9. ContentIsMeant'
        BY <1>0, <1>4, <2>1, <2>2 DEF CleanTicket, ContentIsMeant, OpenerRecord
    <2> QED
        BY <2>3, <2>4, <2>5, <2>6, <2>7, <2>8, <2>9
<1>5. ASSUME (\E t \in Ticket : DeleteTicket(t))
      PROVE  OpenerIInv'
    <2>1. PICK t \in Ticket : DeleteTicket(t)
        BY <1>0, <1>5
    <2>2. OpenerTypeOK'
        BY <1>0, <1>5, <2>1 DEF DeleteTicket, OpenerTypeOK, OpenerRecord
    <2>3. ItemsApart'
        BY <1>0, <1>5, <2>1 DEF DeleteTicket, ItemsApart
    <2>4. TicketsHeld'
        BY <1>0, <1>5, <2>1 DEF DeleteTicket, TicketsHeld
    <2>5. HeadFetched'
        BY <1>0, <1>5, <2>1 DEF DeleteTicket, HeadFetched
    <2>6. SourcesTrue'
        BY <1>0, <1>5, <2>1 DEF DeleteTicket, SourcesTrue, OpenerRecord
    <2>7. NoneUsable'
        BY <1>0, <1>5, <2>1 DEF DeleteTicket, NoneUsable
    <2>8. ContentIsMeant'
        BY <1>0, <1>5, <2>1 DEF DeleteTicket, ContentIsMeant
    <2> QED
        BY <2>2, <2>3, <2>4, <2>5, <2>6, <2>7, <2>8
<1>6. ASSUME LoseCheckout
      PROVE  OpenerIInv'
    <2>1. /\ tickets' = tickets /\ sourceOf' = sourceOf /\ treeRow' = treeRow /\ launch' = launch
          /\ fetchHead' = fetchHead /\ DOMAIN checkout' = Ticket
          /\ \A t \in Ticket : checkout'[t] = checkout[t] \/ checkout'[t] = Nothing
          /\ checkout' = [t \in Ticket |-> checkout'[t]]
        BY <1>0, <1>6 DEF LoseCheckout
    <2>2. OpenerTypeOK'
        BY <1>0, <1>6, <2>1 DEF LoseCheckout, OpenerTypeOK
    <2>3. ItemsApart'
        BY <1>0, <1>6, <2>1 DEF LoseCheckout, ItemsApart
    <2>4. TicketsHeld'
        BY <1>0, <1>6, <2>1 DEF LoseCheckout, TicketsHeld
    <2>5. HeadFetched'
        BY <1>0, <1>6, <2>1 DEF LoseCheckout, HeadFetched
    <2>6. SourcesTrue'
        BY <1>0, <1>6, <2>1 DEF LoseCheckout, SourcesTrue
    <2>7. NoneUsable'
        BY <1>0, <1>6, <2>1 DEF LoseCheckout, NoneUsable
    <2>8. ContentIsMeant'
        BY <1>0, <1>6, <2>1 DEF LoseCheckout, ContentIsMeant
    <2> QED
        BY <2>2, <2>3, <2>4, <2>5, <2>6, <2>7, <2>8
<1> QED
    BY <1>1, <1>2, <1>3, <1>4, <1>5, <1>6

(* One usable workspace, the one its item points to.                       *)
LEMMA OneEach == OpenerIInv => OneWorkspaceEach
<1> SUFFICES ASSUME OpenerIInv, NEW i \in Item
             PROVE  Cardinality({t \in Ticket : tickets[t] # Nothing /\ tickets[t].item = i
                                     /\ tickets[t].tree = t /\ checkout[t] # Nothing}) <= 1
    BY DEF OneWorkspaceEach
<1> DEFINE S == {t \in Ticket : tickets[t] # Nothing /\ tickets[t].item = i
                                     /\ tickets[t].tree = t /\ checkout[t] # Nothing}
<1>1. S \subseteq {sourceOf[i]}
    BY DEF OpenerIInv, SourcesTrue, Usable
<1>2. S = {} \/ S = {sourceOf[i]}
    BY <1>1
<1> HIDE DEF S
<1>3. Cardinality(S) <= 1
    <2>1. Cardinality({}) = 0 /\ Cardinality({sourceOf[i]}) = 1
        BY FS_EmptySet, FS_Singleton
    <2>2. QED
        BY <1>2, <2>1
<1> QED
    BY <1>3 DEF S

(* WorkspacesKept, while requests that overlap are for different items and *)
(* at most one of them fetches a pull request: whatever fails, an item has *)
(* one usable workspace, made from what the user meant.                    *)
THEOREM Workspaces == ASSUME Apart PROVE OpenerSpec => []WorkspacesKept
<1>1. OpenerInit => OpenerIInv
    BY OpenerAssumption
       DEF OpenerInit, OpenerIInv, OpenerTypeOK, ItemsApart, TicketsHeld, HeadFetched, SourcesTrue,
           NoneUsable, ContentIsMeant, Busy, Usable, Resting, LaunchRecord, HasTicket
<1>2. OpenerIInv /\ [OpenerNext]_openerVars => OpenerIInv'
    <2>1. OpenerIInv /\ UNCHANGED openerVars => OpenerIInv'
        BY DEF openerVars, OpenerIInv, OpenerTypeOK, ItemsApart, TicketsHeld, HeadFetched,
           SourcesTrue,
           NoneUsable, ContentIsMeant, Busy, Usable
    <2>2. QED
        BY <2>1, TicketKeeps, OtherKeeps DEF OpenerNext
<1>3. OpenerIInv => WorkspacesKept
    BY OneEach DEF OpenerIInv, WorkspacesKept
<1>4. QED
    BY <1>1, <1>2, <1>3, PTL DEF OpenerSpec

-----------------------------------------------------------------------------
(***************************************************************************)
(* GitHubAuth.                                                             *)
(***************************************************************************)
(* The fields of GitHubAuth that the accounts shown depend on.             *)
AccountAt == {"idle", "asked", "due", "cached", "inspected", "noted", "result", "claimed",
              "starting", "waiting", "loggedIn", "refused", "asking", "failed", "failing", "over"}
Shown == [there : BOOLEAN, seen : Nat, job : {"none", "running", "failed"}, old : BOOLEAN]
AccountsTypeOK ==
    /\ hosts \in Nat /\ snap \in Shown
    /\ doing \in [Actor -> [at : AccountAt, cached : Shown, seen : Nat]]

(* Whoever refreshes has the lock, and the accounts it has inspected are   *)
(* no older than those shown or kept by an update of the job.              *)
HasInspected(a) == doing[a].at \in {"inspected", "noted", "result"}
RefreshesInTurn ==
    /\ \A a \in Actor : HasInspected(a) \/ Is_(a, "cached") => HasLock(a)
    /\ snap.seen <= hosts
    /\ \A a \in Actor : doing[a].cached.seen <= hosts /\ doing[a].seen <= hosts
    /\ \A a \in Actor : HasInspected(a) =>
        /\ snap.seen <= doing[a].seen
        /\ \A b \in Actor : doing[b].cached.seen <= doing[a].seen

AccountsIInv == AccountsTypeOK /\ RefreshesInTurn

(* An actor goes on: where it stands then, how old the snapshot is that it *)
(* keeps and how old the accounts are that it has inspected.               *)
Stands(a, place, kept, read) ==
    \A b \in Actor :
        /\ doing'[b].at = IF b = a THEN place ELSE doing[b].at
        /\ doing'[b].cached.seen = IF b = a THEN kept ELSE doing[b].cached.seen
        /\ doing'[b].seen = IF b = a THEN read ELSE doing[b].seen
Record == [at : AccountAt, cached : Shown, seen : Nat]
LEMMA Standing ==
    ASSUME doing \in [Actor -> Record], NEW a \in Actor, NEW r \in Record,
           doing' = [doing EXCEPT ![a] = r]
    PROVE  doing' \in [Actor -> Record] /\ Stands(a, r.at, r.cached.seen, r.seen)
    BY DEF Stands

LEMMA LeavingRests ==
    ASSUME doing \in [Actor -> Record], NEW a \in Actor, NEW place \in AccountAt,
           Leaves(a, place)
    PROVE  doing' \in [Actor -> Record] /\ Stands(a, place, 0, 0)
<1>1. [Rested EXCEPT !.at = place] = [at |-> place, cached |-> NoSnap, seen |-> 0]
    BY DEF Rested
<1>2. NoSnap \in Shown /\ NoSnap.seen = 0
    BY DEF NoSnap, Shown
<1>3. QED
    BY <1>1, <1>2, Standing DEF Leaves, Record

(* A place, a snapshot or an inspection is all that a step changes.        *)
LEMMA OneField ==
    ASSUME doing \in [Actor -> Record], NEW a \in Actor, NEW place \in AccountAt
    PROVE  /\ doing' = [doing EXCEPT ![a].at = place] =>
                doing' \in [Actor -> Record] /\ Stands(a, place, doing[a].cached.seen, doing[a].seen)
           /\ \A job \in {"none", "running", "failed"} :
                doing' = [doing EXCEPT ![a].at = place, ![a].cached.job = job] =>
                doing' \in [Actor -> Record] /\ Stands(a, place, doing[a].cached.seen, doing[a].seen)
           /\ \A s \in Shown : doing' = [doing EXCEPT ![a].at = place, ![a].cached = s] =>
                doing' \in [Actor -> Record] /\ Stands(a, place, s.seen, doing[a].seen)
           /\ \A n \in Nat : doing' = [doing EXCEPT ![a].at = place, ![a].seen = n] =>
                doing' \in [Actor -> Record] /\ Stands(a, place, doing[a].cached.seen, n)
<1> DEFINE d == doing[a]
<1>0. d \in Record /\ d.cached \in Shown
    BY DEF Record
<1>1. ASSUME doing' = [doing EXCEPT ![a].at = place]
      PROVE  doing' \in [Actor -> Record] /\ Stands(a, place, d.cached.seen, d.seen)
    <2>1. [d EXCEPT !.at = place] \in Record
        BY <1>0 DEF Record
    <2>2. doing' = [doing EXCEPT ![a] = [d EXCEPT !.at = place]]
        BY <1>1
    <2>3. QED
        BY <2>1, <2>2, <1>0, Standing DEF Record
<1>2. ASSUME NEW job \in {"none", "running", "failed"},
             doing' = [doing EXCEPT ![a].at = place, ![a].cached.job = job]
      PROVE  doing' \in [Actor -> Record] /\ Stands(a, place, d.cached.seen, d.seen)
    <2> DEFINE c == [d.cached EXCEPT !.job = job]
               r == [d EXCEPT !.at = place, !.cached = c]
    <2>1. c \in Shown /\ c.seen = d.cached.seen
        BY <1>0 DEF Shown
    <2>2. r \in Record /\ r.at = place /\ r.cached = c /\ r.seen = d.seen
        BY <2>1, <1>0 DEF Record
    <2>3. doing' = [doing EXCEPT ![a] = r]
        BY <1>2, <1>0 DEF Record
    <2>4. QED
        BY <2>1, <2>2, <2>3, Standing
<1>3. ASSUME NEW s \in Shown, doing' = [doing EXCEPT ![a].at = place, ![a].cached = s]
      PROVE  doing' \in [Actor -> Record] /\ Stands(a, place, s.seen, d.seen)
    <2> DEFINE r == [d EXCEPT !.at = place, !.cached = s]
    <2>1. r \in Record /\ r.at = place /\ r.cached = s /\ r.seen = d.seen
        BY <1>0 DEF Record
    <2>2. doing' = [doing EXCEPT ![a] = r]
        BY <1>3, <1>0 DEF Record
    <2>3. QED
        BY <2>1, <2>2, Standing
<1>4. ASSUME NEW n \in Nat, doing' = [doing EXCEPT ![a].at = place, ![a].seen = n]
      PROVE  doing' \in [Actor -> Record] /\ Stands(a, place, d.cached.seen, n)
    <2> DEFINE r == [d EXCEPT !.at = place, !.seen = n]
    <2>1. r \in Record /\ r.at = place /\ r.cached = d.cached /\ r.seen = n
        BY <1>0 DEF Record
    <2>2. doing' = [doing EXCEPT ![a] = r]
        BY <1>4, <1>0 DEF Record
    <2>3. QED
        BY <2>1, <2>2, Standing
<1>5. QED
    BY <1>1, <1>2, <1>3, <1>4

(* What those steps mean for the order of the refreshes, kept apart from   *)
(* the records they are made of.                                           *)
Ordered ==
    /\ hosts \in Nat /\ snap.seen \in Nat
    /\ \A a \in Actor : doing[a].cached.seen \in Nat /\ doing[a].seen \in Nat
    /\ RefreshesInTurn

LEMMA TypeOrders ==
    /\ AccountsIInv => Ordered
    /\ Ordered' /\ AccountsTypeOK' => AccountsIInv'
    BY DEF AccountsIInv, AccountsTypeOK, Ordered, Shown

(* Every step keeps who refreshes and how old what it has is.              *)
LEMMA RefreshKeeps ==
    ASSUME AccountsIInv, NEW a \in Actor, RefreshStep(a)
    PROVE  AccountsIInv' /\ snap'.seen >= snap.seen
<1>0. /\ hosts \in Nat /\ snap \in Shown /\ doing \in [Actor -> Record] /\ Ordered
      /\ snap.job \in {"none", "running", "failed"} /\ doing[a].seen \in Nat
      /\ doing[a].cached.job \in {"none", "running", "failed"}
    BY TypeOrders DEF AccountsIInv, AccountsTypeOK, Record, Shown
<1> USE DEF Ordered, RefreshesInTurn, HasInspected, Is_, HasLock
<1>1. CASE AskRefresh(a)
    <2>1. doing' \in [Actor -> Record] /\ Stands(a, "asked", doing[a].cached.seen, doing[a].seen)
        BY <1>0, <1>1, OneField DEF AskRefresh, Heads, AccountAt
    <2>2. Ordered'
        BY <1>0, <1>1, <2>1 DEF AskRefresh, Stands
    <2>3. QED
        BY <1>0, <1>1, <2>1, <2>2, TypeOrders DEF AskRefresh, AccountsTypeOK, Record
<1>2. CASE ReadCached(a)
    <2>1. doing' \in [Actor -> Record] /\ Stands(a, "cached", doing[a].cached.seen, doing[a].seen)
        BY <1>0, <1>2, OneField DEF ReadCached, AccountAt
    <2>2. Ordered'
        BY <1>0, <1>2, <2>1 DEF ReadCached, Stands, Locks
    <2>3. QED
        BY <1>0, <1>2, <2>1, <2>2, TypeOrders DEF ReadCached, AccountsTypeOK, Record
<1>3. CASE Inspect(a)
    <2>1. doing' \in [Actor -> Record] /\ Stands(a, "inspected", doing[a].cached.seen, hosts)
        BY <1>0, <1>3, OneField DEF Inspect, AccountAt
    <2>2. \A b \in Actor : HasInspected(b) \/ Is_(b, "cached") => b = a
        BY <1>0, <1>3 DEF Inspect, InspectsAlone
    <2>3. UNCHANGED <<hosts, snap, refreshLock>> /\ refreshLock = {a}
        BY <1>3 DEF Inspect, InspectsAlone
    <2>4. Ordered'
        BY <1>0, <2>1, <2>2, <2>3 DEF Stands
    <2>5. QED
        BY <1>0, <1>3, <2>1, <2>4, TypeOrders DEF Inspect, AccountsTypeOK, Record
<1>4. CASE NoteMtime(a)
    <2>1. PICK place \in {"noted", "result"} :
            doing' \in [Actor -> Record] /\ Stands(a, place, doing[a].cached.seen, doing[a].seen)
        BY <1>0, <1>4, OneField DEF NoteMtime, Heads, AccountAt
    <2>2. Ordered'
        BY <1>0, <1>4, <2>1 DEF NoteMtime, Stands
    <2>3. QED
        BY <1>0, <1>4, <2>1, <2>2, TypeOrders DEF NoteMtime, AccountsTypeOK, Record
<1>5. CASE StoreSnapshot(a)
    <2>1. snap' \in Shown /\ snap'.seen = doing[a].seen
        BY <1>0, <1>5 DEF StoreSnapshot, Shown
    <2>2. PICK place \in {"claimed", "idle"} : doing' \in [Actor -> Record] /\ Stands(a, place, 0, 0)
        BY <1>0, <1>5, LeavingRests DEF StoreSnapshot, AccountAt
    <2>3. hosts' = hosts /\ refreshLock' = {} /\ doing[a].at = "noted"
        BY <1>5 DEF StoreSnapshot
    <2>4. \A b \in Actor : HasInspected(b) \/ Is_(b, "cached") => b = a
        BY <1>0, <2>3
    <2>5. Ordered' /\ snap'.seen >= snap.seen
        BY <1>0, <2>1, <2>2, <2>3, <2>4 DEF Stands
    <2>6. QED
        BY <1>0, <2>1, <2>2, <2>3, <2>5, TypeOrders DEF AccountsTypeOK, Record
<1>6. QED
    BY <1>1, <1>2, <1>3, <1>4, <1>5 DEF RefreshStep

(* So does every step of a login; its message alone may go back.           *)
LEMMA LoginKeeps ==
    ASSUME AccountsIInv, NEW l \in Login,
           ClaimJob(l) \/ RefuseJob(l) \/ LogIn(l) \/ FailLogin(l) \/ LoginStep(l)
    PROVE  AccountsIInv' /\ (snap'.seen >= snap.seen \/ ShowJob(l) \/ ShowFailure(l))
<1>0. /\ hosts \in Nat /\ snap \in Shown /\ doing \in [Actor -> Record] /\ Ordered
      /\ l \in Actor /\ doing[l].seen \in Nat
      /\ doing[l].cached \in Shown
    BY TypeOrders DEF AccountsIInv, AccountsTypeOK, Record, Actor
<1> USE DEF Ordered, RefreshesInTurn, HasInspected, Is_, HasLock
<1>1. ASSUME hosts' \in Nat, hosts' >= hosts, UNCHANGED <<snap, refreshLock>>,
             NEW place \in AccountAt \ {"inspected", "noted", "result", "cached"},
             \/ UNCHANGED doing
             \/ doing' \in [Actor -> Record] /\ Stands(l, place, doing[l].cached.seen, doing[l].seen)
      PROVE  AccountsIInv' /\ snap'.seen >= snap.seen
    <2>1. Ordered' /\ snap'.seen >= snap.seen
        BY <1>0, <1>1 DEF Stands
    <2>2. QED
        BY <1>0, <1>1, <2>1, TypeOrders DEF AccountsTypeOK, Record
<1>2. CASE \/ ClaimJob(l) \/ RefuseJob(l) \/ LogIn(l) \/ FailLogin(l)
           \/ GiveUpLogin(l) \/ FreeJob(l)
    <2>1. hosts' \in Nat /\ hosts' >= hosts /\ UNCHANGED <<snap, refreshLock>>
        BY <1>0, <1>2 DEF ClaimJob, RefuseJob, LogIn, FailLogin, GiveUpLogin, FreeJob
    <2> DEFINE places == {"claimed", "over", "loggedIn", "refused", "asking", "failed"}
    <2>2. UNCHANGED doing \/ \E place \in places : doing' = [doing EXCEPT ![l].at = place]
        BY <1>2 DEF ClaimJob, RefuseJob, LogIn, FailLogin, GiveUpLogin, FreeJob, Heads
    <2>3. CASE UNCHANGED doing
        BY <1>1, <2>1, <2>3 DEF AccountAt
    <2>4. ASSUME NEW place \in places, doing' = [doing EXCEPT ![l].at = place]
          PROVE  doing' \in [Actor -> Record]
                 /\ Stands(l, place, doing[l].cached.seen, doing[l].seen)
        BY <1>0, <2>4, OneField DEF AccountAt
    <2>5. \A place \in places : place \in AccountAt \ {"inspected", "noted", "result", "cached"}
        BY DEF AccountAt
    <2>6. QED
        BY <1>1, <2>1, <2>2, <2>3, <2>4, <2>5
<1>3. CASE LockForResult(l)
    <2>1. doing' \in [Actor -> Record] /\ Stands(l, "cached", doing[l].cached.seen, doing[l].seen)
        BY <1>0, <1>3, OneField DEF LockForResult, Heads, AccountAt
    <2>2. Ordered'
        BY <1>0, <1>3, <2>1 DEF LockForResult, Locks, Stands
    <2>3. QED
        BY <1>0, <1>3, <2>1, <2>2, TypeOrders DEF LockForResult, AccountsTypeOK, Record
<1>4. CASE ReadForJob(l)
    <2>1. PICK place \in {"failing", "starting"} :
            doing' \in [Actor -> Record] /\ Stands(l, place, snap.seen, doing[l].seen)
        BY <1>0, <1>4, OneField DEF ReadForJob, AccountAt
    <2>2. Ordered'
        BY <1>0, <1>4, <2>1 DEF ReadForJob, Stands
    <2>3. QED
        BY <1>0, <1>4, <2>1, <2>2, TypeOrders DEF ReadForJob, AccountsTypeOK, Record
<1>5. CASE ShowJob(l) \/ ShowFailure(l)
    <2>1. snap' \in Shown /\ snap'.seen = doing[l].cached.seen
        BY <1>0, <1>5 DEF ShowJob, ShowFailure, Shown
    <2>2. PICK place \in {"waiting", "over"} : doing' \in [Actor -> Record] /\ Stands(l, place, 0, 0)
        BY <1>0, <1>5, LeavingRests DEF ShowJob, ShowFailure, AccountAt
    <2>3. hosts' = hosts /\ refreshLock' = refreshLock
        BY <1>5 DEF ShowJob, ShowFailure
    <2>4. Ordered'
        BY <1>0, <2>1, <2>2, <2>3 DEF Stands
    <2>5. QED
        BY <1>0, <1>5, <2>1, <2>2, <2>3, <2>4, TypeOrders DEF AccountsTypeOK, Record
<1>6. CASE StoreResult(l)
    <2>1. snap' \in Shown /\ snap'.seen = doing[l].seen
        BY <1>0, <1>6 DEF StoreResult, Shown
    <2>2. doing' \in [Actor -> Record] /\ Stands(l, "over", 0, 0)
        BY <1>0, <1>6, LeavingRests DEF StoreResult, AccountAt
    <2>3. hosts' = hosts /\ refreshLock' = {} /\ doing[l].at = "result"
        BY <1>6 DEF StoreResult
    <2>4. \A b \in Actor : HasInspected(b) \/ Is_(b, "cached") => b = l
        BY <1>0, <2>3
    <2>5. Ordered' /\ snap'.seen >= snap.seen
        BY <1>0, <2>1, <2>2, <2>3, <2>4 DEF Stands
    <2>6. QED
        BY <1>0, <2>1, <2>2, <2>3, <2>5, TypeOrders DEF AccountsTypeOK, Record
<1>7. QED
    BY <1>2, <1>3, <1>4, <1>5, <1>6 DEF LoginStep

(* The world outside and the monitor's timer change nothing of it.         *)
LEMMA OutsideKeeps ==
    ASSUME AccountsIInv, Change \/ Age \/ LookAtHosts
    PROVE  AccountsIInv' /\ snap'.seen >= snap.seen
<1>0. /\ hosts \in Nat /\ snap \in Shown /\ doing \in [Actor -> Record] /\ Ordered
      /\ Watch \in Actor
    BY TypeOrders DEF AccountsIInv, AccountsTypeOK, Record, Actor
<1> USE DEF Ordered, RefreshesInTurn, HasInspected, Is_, HasLock
<1>1. CASE Change \/ Age
    <2>1. /\ hosts' \in Nat /\ hosts' >= hosts /\ UNCHANGED <<doing, refreshLock>>
          /\ snap' \in Shown /\ snap'.seen = snap.seen
        <3>1. CASE Change
            BY <1>0, <3>1 DEF Change
        <3>2. CASE Age
            <4>1. snap' = [snap EXCEPT !.old = TRUE] /\ UNCHANGED <<hosts, doing, refreshLock>>
                BY <3>2 DEF Age
            <4>2. snap \in Shown /\ hosts \in Nat
                BY <1>0
            <4>3. [snap EXCEPT !.old = TRUE] \in Shown /\ [snap EXCEPT !.old = TRUE].seen = snap.seen
                BY <4>2 DEF Shown
            <4>4. QED
                BY <4>1, <4>2, <4>3
        <3>3. QED
            BY <1>1, <3>1, <3>2
    <2>2. Ordered'
        BY <1>0, <2>1
    <2>3. QED
        BY <1>0, <2>1, <2>2, TypeOrders DEF AccountsTypeOK, Record
<1>2. CASE LookAtHosts
    <2>1. PICK place \in {"due", "idle"} :
            doing' \in [Actor -> Record] /\ Stands(Watch, place, doing[Watch].cached.seen, doing[Watch].seen)
        BY <1>0, <1>2, OneField DEF LookAtHosts, Heads, AccountAt
    <2>2. Ordered'
        BY <1>0, <1>2, <2>1 DEF LookAtHosts, Stands
    <2>3. QED
        BY <1>0, <1>2, <2>1, <2>2, TypeOrders DEF LookAtHosts, AccountsTypeOK, Record
<1>3. QED
    BY <1>1, <1>2

(* However refreshes of requests, of the monitor and of logins overlap,    *)
(* and however the files of the GitHub CLI change meanwhile, none puts     *)
(* back accounts older than those shown: refresh_lock is held from before  *)
(* they are inspected until they are stored, and no update of a job, made  *)
(* without it, keeps accounts newer than those inspected.                  *)
THEOREM ShownAdvances == AccountsSpec => ShownForward
<1>1. AccountsInit => AccountsIInv
    BY DEF AccountsInit, AccountsIInv, AccountsTypeOK, RefreshesInTurn, NoSnap, Rested, Shown,
        AccountAt, HasInspected, Is_
<1>2. AccountsIInv /\ AccountsNext
        => AccountsIInv' /\ (\/ snap'.seen >= snap.seen
                            \/ \E l \in Login : ShowJob(l) \/ ShowFailure(l))
    BY RefreshKeeps, LoginKeeps, OutsideKeeps DEF AccountsNext
<1>3. AccountsIInv /\ UNCHANGED accountVars => AccountsIInv'
    BY DEF accountVars, AccountsIInv, AccountsTypeOK, RefreshesInTurn, HasInspected, Is_, HasLock
<1>4. QED
    BY <1>1, <1>2, <1>3, PTL DEF AccountsSpec, ShownForward

-----------------------------------------------------------------------------
(* FfiBridge.  The invariant says where the context of a call is at each   *)
(* stage: with the submission, in the map of pending callbacks, with the   *)
(* destruction, with the task that took it out of the map, or released;    *)
(* never in two of these places.  For the output it says that a            *)
(* registration that is done with is in no slot, and is never put into one *)
(* again.                                                                  *)
Stages == {"idle", "entered", "running", "taken", "calling", "called", "over"}

TypeOK ==
    /\ inflight \subseteq AsyncCall /\ callbacks \subseteq AsyncCall
    /\ drained \subseteq AsyncCall /\ cancelled \subseteq AsyncCall
    /\ stage \in [AsyncCall -> Stages]
    /\ called \in [AsyncCall -> Nat] /\ freed \in [AsyncCall -> Nat]
    /\ shuttingDown \in BOOLEAN /\ setting \in BOOLEAN /\ leaving \in BOOLEAN
    /\ sets \in 0 .. MaxSets /\ slot \in 0 .. MaxSets /\ retiring \in 0 .. MaxSets
    /\ quiet \subseteq 0 .. MaxSets
    /\ loop \in [Registration ->
                   {"none", "seeking", "listening", "holding", "over"}]
    /\ holds \in [Registration -> 0 .. MaxSets]
    /\ destroyer \in {"none", "waiting", "marked", "clearing", "draining",
                      "releasing", "gone"}

(* Where the context of call c is.                                         *)
Placed(c) ==
    /\ c \in callbacks => stage[c] = "running" /\ freed[c] = 0 /\ c \notin drained
    /\ c \in drained => stage[c] \in {"running", "over"} /\ freed[c] = 0
    /\ stage[c] \in {"idle", "entered", "taken", "calling", "called"} => freed[c] = 0
    /\ stage[c] \in {"idle", "entered", "running", "taken", "calling"} => called[c] = 0
    /\ stage[c] = "running" /\ c \notin callbacks /\ c \notin drained => freed[c] = 1
    /\ stage[c] = "over" /\ c \notin drained => freed[c] = 1
    /\ freed[c] <= 1 /\ called[c] <= 1
    /\ stage[c] = "entered" => c \in inflight

(* What the shutdown has cut off.                                          *)
Cut ==
    /\ cancelled # {} => shuttingDown
    /\ shuttingDown => callbacks \subseteq cancelled
    /\ \A c \in cancelled : called[c] = 0 /\ stage[c] \in {"running", "taken", "over"}
    /\ shuttingDown <=> destroyer \notin {"none", "waiting"}
    /\ shuttingDown => inflight = {} /\ ~setting /\ leaving
    /\ destroyer = "none" <=> ~leaving
    /\ destroyer \in {"releasing", "gone"} => callbacks = {}
    /\ destroyer \notin {"releasing"} => drained = {}

(* Which registrations are where.                                          *)
Retired ==
    /\ slot # 0 => slot \notin quiet /\ slot <= sets /\ ~setting
    /\ retiring # 0 => retiring \notin quiet /\ retiring <= sets /\ slot = 0
    /\ setting => sets \notin quiet /\ sets # 0 /\ slot = 0 /\ retiring # sets
    /\ \A x \in quiet : x <= sets
    /\ \A l \in Registration : loop[l] = "holding" => holds[l] \notin quiet \ {0}

IInv == TypeOK /\ (\A c \in AsyncCall : Placed(c)) /\ Cut /\ Retired

-----------------------------------------------------------------------------
USE DEF Registration

LEMMA InitIInv == FfiInit => IInv
<1> SUFFICES ASSUME FfiInit PROVE IInv
  OBVIOUS
<1>1. TypeOK
  <2>1. holds \in [Registration -> 0 .. MaxSets]
    BY FfiAssumption DEF FfiInit
  <2>2. /\ stage \in [AsyncCall -> Stages]
        /\ called \in [AsyncCall -> Nat] /\ freed \in [AsyncCall -> Nat]
    BY DEF FfiInit, Stages
  <2>3. loop \in [Registration -> {"none", "seeking", "listening", "holding", "over"}]
    BY DEF FfiInit
  <2>4. inflight = {} /\ callbacks = {} /\ drained = {} /\ cancelled = {} /\ quiet = {}
    BY DEF FfiInit
  <2>5. /\ shuttingDown = FALSE /\ setting = FALSE /\ leaving = FALSE
        /\ destroyer = "none" /\ sets = 0 /\ slot = 0 /\ retiring = 0
    BY DEF FfiInit
  <2>6. 0 \in 0 .. MaxSets
    BY FfiAssumption
  <2> QED  BY <2>1, <2>2, <2>3, <2>4, <2>5, <2>6 DEF TypeOK
<1>2. (\A c \in AsyncCall : Placed(c)) /\ Cut
  BY DEF FfiInit, Placed, Cut
<1>3. Retired
  BY DEF FfiInit, Retired
<1> QED  BY <1>1, <1>2, <1>3 DEF IInv

(* A step that leaves the calls and the destruction alone leaves what is   *)
(* known of them.                                                          *)
LEMMA CallsStay ==
  ASSUME IInv, UNCHANGED <<asyncVars, endVars>>, setting' => setting \/ ~leaving
  PROVE  (\A c \in AsyncCall : Placed(c))' /\ Cut'
  BY DEF IInv, Placed, Cut, asyncVars, endVars

(* The same of the registrations.                                          *)
LEMMA OutputStays ==
  ASSUME IInv, UNCHANGED <<registryVars, forwardVars>>
  PROVE  Retired'
  BY DEF IInv, Retired, registryVars, forwardVars

(* The steps of a call, its task, and the release of what was drained.     *)
LEMMA AsyncStepIInv ==
  ASSUME IInv, NEW c \in AsyncCall, AsyncStep(c)
  PROVE  IInv'
<1>0. UNCHANGED <<registryVars, forwardVars>> /\ Retired'
  BY OutputStays DEF AsyncStep, Enter, RefuseCall, InsertCallback, Return, Finish,
     Decide, CallBack, ReleaseContext, ReleaseDrained
<1> USE DEF IInv, asyncVars, endVars, registryVars, forwardVars
<1>1. CASE Enter(c)
  <2>1. TypeOK'
    BY <1>1, <1>0 DEF TypeOK, Stages, Enter
  <2>2. (\A d \in AsyncCall : Placed(d))'
    BY <1>1 DEF TypeOK, Stages, Placed, Cut, Enter
  <2>3. Cut'
    BY <1>1, <1>0 DEF TypeOK, Stages, Placed, Cut, Enter
  <2> QED  BY <1>0, <2>1, <2>2, <2>3
<1>2. CASE RefuseCall(c)
  <2>1. TypeOK'
    BY <1>2, <1>0 DEF TypeOK, Stages, RefuseCall
  <2>2. (\A d \in AsyncCall : Placed(d))'
    BY <1>2 DEF TypeOK, Stages, Placed, Cut, RefuseCall
  <2>3. Cut'
    BY <1>2, <1>0 DEF TypeOK, Stages, Placed, Cut, RefuseCall
  <2> QED  BY <1>0, <2>1, <2>2, <2>3
<1>3. CASE InsertCallback(c)
  <2>1. TypeOK'
    BY <1>3, <1>0 DEF TypeOK, Stages, InsertCallback
  <2>2. (\A d \in AsyncCall : Placed(d))'
    BY <1>3 DEF TypeOK, Stages, Placed, Cut, InsertCallback
  <2>3. Cut'
    BY <1>3, <1>0 DEF TypeOK, Stages, Placed, Cut, InsertCallback
  <2> QED  BY <1>0, <2>1, <2>2, <2>3
<1>4. CASE Return(c)
  <2>1. TypeOK'
    BY <1>4, <1>0 DEF TypeOK, Stages, Return
  <2>2. (\A d \in AsyncCall : Placed(d))'
    BY <1>4 DEF TypeOK, Stages, Placed, Cut, Return
  <2>3. Cut'
    BY <1>4, <1>0 DEF TypeOK, Stages, Placed, Cut, Return
  <2> QED  BY <1>0, <2>1, <2>2, <2>3
<1>5. CASE Finish(c)
  <2>1. TypeOK'
    BY <1>5, <1>0 DEF TypeOK, Stages, Finish, Remaining
  <2>2. (\A d \in AsyncCall : Placed(d))'
    BY <1>5 DEF TypeOK, Stages, Placed, Cut, Finish, Remaining
  <2>3. Cut'
    BY <1>5, <1>0 DEF TypeOK, Stages, Placed, Cut, Finish, Remaining
  <2> QED  BY <1>0, <2>1, <2>2, <2>3
<1>6. CASE Decide(c)
  <2>1. TypeOK'
    <3>1. CASE shuttingDown
      <4>1. stage' \in [AsyncCall -> Stages] /\ freed' \in [AsyncCall -> Nat]
        <5>1. /\ stage' = [stage EXCEPT ![c] = "over"]
              /\ freed' = [freed EXCEPT ![c] = freed[c] + 1]
          BY <1>6, <3>1 DEF Decide
        <5> QED  BY <5>1 DEF TypeOK, Stages
      <4>2. UNCHANGED <<inflight, callbacks, called, endVars>>
        BY <1>6 DEF Decide
      <4> QED  BY <1>0, <4>1, <4>2 DEF TypeOK
    <3>2. CASE ~shuttingDown
      BY <1>6, <1>0, <3>2 DEF TypeOK, Stages, Decide
    <3> QED  BY <3>1, <3>2
  <2>2. (\A d \in AsyncCall : Placed(d))'
    BY <1>6 DEF TypeOK, Stages, Placed, Cut, Decide
  <2>3. Cut'
    BY <1>6, <1>0 DEF TypeOK, Stages, Placed, Cut, Decide
  <2> QED  BY <1>0, <2>1, <2>2, <2>3
<1>7. CASE CallBack(c)
  <2>1. TypeOK'
    BY <1>7, <1>0 DEF TypeOK, Stages, CallBack
  <2>2. (\A d \in AsyncCall : Placed(d))'
    BY <1>7 DEF TypeOK, Stages, Placed, Cut, CallBack
  <2>3. Cut'
    BY <1>7, <1>0 DEF TypeOK, Stages, Placed, Cut, CallBack
  <2> QED  BY <1>0, <2>1, <2>2, <2>3
<1>8. CASE ReleaseContext(c)
  <2>1. TypeOK'
    BY <1>8, <1>0 DEF TypeOK, Stages, ReleaseContext
  <2>2. (\A d \in AsyncCall : Placed(d))'
    BY <1>8 DEF TypeOK, Stages, Placed, Cut, ReleaseContext
  <2>3. Cut'
    BY <1>8, <1>0 DEF TypeOK, Stages, Placed, Cut, ReleaseContext
  <2> QED  BY <1>0, <2>1, <2>2, <2>3
<1>9. CASE ReleaseDrained(c)
  <2>1. TypeOK'
    BY <1>9, <1>0 DEF TypeOK, Stages, ReleaseDrained
  <2>2. (\A d \in AsyncCall : Placed(d))'
    BY <1>9 DEF TypeOK, Stages, Placed, Cut, ReleaseDrained
  <2>3. Cut'
    BY <1>9, <1>0 DEF TypeOK, Stages, Placed, Cut, ReleaseDrained
  <2> QED  BY <1>0, <2>1, <2>2, <2>3
<1> QED  BY <1>1, <1>2, <1>3, <1>4, <1>5, <1>6, <1>7, <1>8, <1>9 DEF AsyncStep

(* The steps of a forward loop.                                            *)
LEMMA LoopStepIInv ==
  ASSUME IInv, NEW l \in Registration, LoopStep(l)
  PROVE  IInv'
<1>1. UNCHANGED <<asyncVars, endVars, registryVars>>
  BY DEF LoopStep, FindProject, Snapshot, Invoked, ChannelCloses, LoopEnds
<1>2. (\A c \in AsyncCall : Placed(c))' /\ Cut'
  BY <1>1, CallsStay DEF registryVars
<1>3. TypeOK'
  BY <1>1 DEF IInv, TypeOK, LoopStep, FindProject, Snapshot, Invoked, ChannelCloses,
     LoopEnds, asyncVars, endVars, registryVars
<1>4. Retired'
  BY <1>1 DEF IInv, TypeOK, Retired, LoopStep, FindProject, Snapshot, Invoked,
     ChannelCloses, LoopEnds, registryVars
<1> QED  BY <1>2, <1>3, <1>4 DEF IInv

(* Registering a callback for the output.                                  *)
LEMMA SetIInv ==
  ASSUME IInv, BeginSet \/ PutWhenQuiet \/ PutAnyway
  PROVE  IInv'
<1>1. UNCHANGED <<asyncVars, endVars>> /\ (setting' => setting \/ ~leaving)
  BY DEF BeginSet, PutWhenQuiet, PutAnyway, Put
<1>2. (\A c \in AsyncCall : Placed(c))' /\ Cut'
  BY <1>1, CallsStay
<1>3. CASE BeginSet
  <2>1. TypeOK'
    BY <1>1, <1>3, FfiAssumption DEF IInv, TypeOK, BeginSet, TakeSlot, asyncVars,
       endVars, forwardVars
  <2>2. Retired'
    BY <1>3, FfiAssumption DEF IInv, TypeOK, Retired, BeginSet, TakeSlot, forwardVars
  <2> QED  BY <1>2, <2>1, <2>2 DEF IInv
<1>4. CASE PutWhenQuiet
  <2>1. TypeOK'
    BY <1>1, <1>4, FfiAssumption DEF IInv, TypeOK, Retired, PutWhenQuiet, Put,
       asyncVars, endVars
  <2>2. Retired'
    BY <1>4, FfiAssumption DEF IInv, TypeOK, Retired, PutWhenQuiet, Put, Quiesced, Held
  <2> QED  BY <1>2, <2>1, <2>2 DEF IInv
<1>5. CASE PutAnyway
  <2>1. TypeOK'
    BY <1>1, <1>5, FfiAssumption DEF IInv, TypeOK, Retired, PutAnyway, Put,
       asyncVars, endVars
  <2>2. Retired'
    BY <1>5, FfiAssumption DEF IInv, TypeOK, Retired, PutAnyway, Put
  <2> QED  BY <1>2, <2>1, <2>2 DEF IInv
<1> QED  BY <1>3, <1>4, <1>5

(* The steps of the destruction.                                           *)
LEMMA EndStepIInv ==
  ASSUME IInv, EndStep
  PROVE  IInv'
<1> USE DEF IInv, asyncVars, endVars, registryVars, forwardVars
<1>1. CASE BeginDestroy
  <2>1. TypeOK'
    BY <1>1 DEF TypeOK, BeginDestroy
  <2>2. (\A c \in AsyncCall : Placed(c))'
    BY <1>1 DEF TypeOK, Placed, Cut, BeginDestroy
  <2>3. Cut'
    BY <1>1 DEF TypeOK, Placed, Cut, BeginDestroy
  <2>4. Retired'
    BY <1>1 DEF TypeOK, Cut, Retired, BeginDestroy
  <2> QED  BY <2>1, <2>2, <2>3, <2>4
<1>2. CASE Mark
  <2>1. TypeOK'
    BY <1>2 DEF TypeOK, Mark
  <2>2. (\A c \in AsyncCall : Placed(c))'
    BY <1>2 DEF TypeOK, Placed, Cut, Mark
  <2>3. Cut'
    BY <1>2 DEF TypeOK, Placed, Cut, Mark
  <2>4. Retired'
    BY <1>2 DEF TypeOK, Cut, Retired, Mark
  <2> QED  BY <2>1, <2>2, <2>3, <2>4
<1>3. CASE Clear
  <2>1. TypeOK'
    BY <1>3, FfiAssumption DEF TypeOK, Clear, TakeSlot
  <2>2. (\A c \in AsyncCall : Placed(c))'
    BY <1>3 DEF TypeOK, Placed, Cut, Clear
  <2>3. Cut'
    BY <1>3 DEF TypeOK, Placed, Cut, Clear
  <2>4. Retired'
    BY <1>3 DEF TypeOK, Cut, Retired, Clear, TakeSlot
  <2> QED  BY <2>1, <2>2, <2>3, <2>4
<1>4. CASE Cleared
  <2>1. TypeOK'
    BY <1>4, FfiAssumption DEF TypeOK, Cleared
  <2>2. (\A c \in AsyncCall : Placed(c))'
    BY <1>4 DEF TypeOK, Placed, Cut, Cleared
  <2>3. Cut'
    BY <1>4 DEF TypeOK, Placed, Cut, Cleared
  <2>4. Retired'
    BY <1>4 DEF TypeOK, Cut, Retired, Cleared, Quiesced, Held
  <2> QED  BY <2>1, <2>2, <2>3, <2>4
<1>5. CASE Drain
  <2>1. TypeOK'
    BY <1>5 DEF TypeOK, Drain
  <2>2. (\A c \in AsyncCall : Placed(c))'
    BY <1>5 DEF TypeOK, Placed, Cut, Drain
  <2>3. Cut'
    BY <1>5 DEF TypeOK, Placed, Cut, Drain
  <2>4. Retired'
    BY <1>5 DEF TypeOK, Cut, Retired, Drain
  <2> QED  BY <2>1, <2>2, <2>3, <2>4
<1>6. CASE Destroyed
  <2>1. TypeOK'
    BY <1>6 DEF TypeOK, Destroyed
  <2>2. (\A c \in AsyncCall : Placed(c))'
    BY <1>6 DEF TypeOK, Placed, Cut, Destroyed
  <2>3. Cut'
    BY <1>6 DEF TypeOK, Placed, Cut, Destroyed
  <2>4. Retired'
    BY <1>6 DEF TypeOK, Cut, Retired, Destroyed
  <2> QED  BY <2>1, <2>2, <2>3, <2>4
<1> QED  BY <1>1, <1>2, <1>3, <1>4, <1>5, <1>6 DEF EndStep

LEMMA NextIInv == IInv /\ [FfiNext]_ffiVars => IInv'
<1> SUFFICES ASSUME IInv, [FfiNext]_ffiVars PROVE IInv'
  OBVIOUS
<1>1. CASE FfiNext
  BY <1>1, AsyncStepIInv, LoopStepIInv, SetIInv, EndStepIInv DEF FfiNext
<1>2. CASE UNCHANGED ffiVars
  BY <1>2 DEF ffiVars, asyncVars, endVars, registryVars, forwardVars, IInv, TypeOK,
     Placed,
              Cut, Retired
<1> QED  BY <1>1, <1>2

LEMMA IInvKeepsPointers == IInv => PointersKept
<1> SUFFICES ASSUME IInv PROVE PointersKept
  OBVIOUS
<1>1. ReleasedOnce /\ NoneLeaks
  BY DEF IInv, TypeOK, Placed, Cut, ReleasedOnce, NoneLeaks
<1>2. CancelledIsSilent
  BY DEF IInv, Cut, CancelledIsSilent
<1>3. OldOutputQuiet
  BY DEF IInv, Retired, OldOutputQuiet, Held
<1> QED  BY <1>1, <1>2, <1>3 DEF PointersKept

(* Whatever a call, its task, the registrations and the destruction of the *)
(* handle do in which order: every context handed to Rust is released once *)
(* and not used afterwards, what was pending at the shutdown is not called *)
(* back, and a registration that was given up is not called.               *)
THEOREM Pointers == FfiSpec => []PointersKept
<1>1. FfiInit => IInv
  BY InitIInv
<1>2. IInv /\ [FfiNext]_ffiVars => IInv'
  BY NextIInv
<1>3. IInv => PointersKept
  BY IInvKeepsPointers
<1> QED  BY <1>1, <1>2, <1>3, PTL DEF FfiSpec
=============================================================================
