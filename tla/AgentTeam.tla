------------------------------ MODULE AgentTeam ------------------------------
(***************************************************************************)
(* An agent team: a leader whose agent spawns members, each a terminal     *)
(* session with a pane (pnevma-commands: agent_teams.rs, team_tools.rs,    *)
(* and what the session bridge of commands/mod.rs does for members).       *)
(*                                                                         *)
(* The team is in memory, behind one lock; sessions and panes are rows.    *)
(* Spawning, closing, the bridge, the tool that waits for a member and the *)
(* rehydration of the team from its rows run at once, and are cut where    *)
(* they await.  One team: teams share nothing but the map they are in.     *)
(***************************************************************************)
EXTENDS Naturals, FiniteSets, Sequences

CONSTANTS
    Member,      \* sessions that are ever spawned for the team
    Waiting,     \* members whose tool call waits for their end
    Durable,     \* members whose session outlives its client
    Closer,      \* calls of close_member
    MaxReloads,  \* bound: calls of rehydrate_all_teams
    MaxReopens,  \* bound: how often the project is opened again
    NoMember     \* no member

ASSUME TeamAssumption == IsFiniteSet(Member)

VARIABLES
    team,       \* AgentTeamStore.teams: next_member_index and the members' tokens
    homes,      \* AgentTeamStore.member_sessions
    procs,      \* each session in the supervisor
    unsent,     \* sessions whose Exited the exit task has yet to send
    exits,      \* Exited events the bridge has yet to receive
    teamRows,   \* the sessions rows: are they those of live sessions?
    panes,      \* panes rows: the index in each member's metadata
    leader,     \* whether the leader's session is live
    spawns,     \* the call that spawns each member: its stage, the index it counted
    closes,     \* calls of close_member
    bridge,     \* the member whose exit the bridge handles
    reload,     \* a rehydration: what it has read
    closed,     \* agent_team_member_closed events of each member
    missed,     \* members whose exit came when they were in no team
    orphans,    \* members whose spawning was cut off, or that ended unseen
    overtaken,      \* whether a rehydration has been overtaken
    reloads, opened

store == <<team, homes>>
tables == <<teamRows, panes>>
session == <<procs, unsent, exits>>
calls == <<spawns, closes, bridge, reload>>
history == <<closed, missed, orphans, overtaken, reloads, opened>>
teamVars == <<store, tables, session, calls, history, leader>>

NoTeam == [there |-> FALSE, next |-> 1, token |-> <<>>]
Members == DOMAIN team.token
NoReload == [stage |-> "none", live |-> {}, index |-> <<>>]
Dropped(f, m) == [x \in DOMAIN f \ {m} |-> f[x]]
With(f, m, v) == [x \in DOMAIN f \cup {m} |-> IF x = m THEN v ELSE f[x]]
Spawning(m, stage) == spawns[m].stage = stage
Spawned(m, stage) == spawns' = [spawns EXCEPT ![m].stage = stage]

-----------------------------------------------------------------------------
(* The store, each operation under its lock                                *)

(* AgentTeamStore::start, when the leader's agent has started.             *)
Start ==
    /\ leader = "none" /\ leader' = "live"
    /\ team' = [team EXCEPT !.there = TRUE]
    /\ UNCHANGED <<history, calls, session, tables, homes>>

LeaderEnds ==
    /\ leader = "live" /\ leader' = "ended"
    /\ UNCHANGED <<history, calls, session, store, tables>>

Register(m) ==
    /\ team' = [team EXCEPT !.next = @ + 1, !.token = With(@, m, team.next)]
    /\ homes' = homes \cup {m}

\* slip: the session is still taken for a member's
RemoveFromTeam(m) ==
    /\ team' = [team EXCEPT !.token = Dropped(@, m)]
    /\ UNCHANGED homes

RemoveMember(m) ==
    /\ team' = [team EXCEPT !.token = Dropped(@, m)]
    /\ homes' = homes \ {m}

Biggest(S) == CHOOSE n \in S \cup {0} : \A k \in S : k <= n

\* slip: the next index is that of a team that never lost a member
NextAfterCount(index) == Cardinality(DOMAIN index) + 1

NextAfter(index) == Biggest({index[m] : m \in DOMAIN index}) + 1

-----------------------------------------------------------------------------
(* spawn_member_with_runtime                                               *)

(* The index of the environment and the pane is the count of members; the  *)
(* token in the store comes from its own counter, later.                   *)
Configure(m) ==
    /\ Spawning(m, "none") /\ team.there
    /\ spawns' = [spawns EXCEPT ![m] = [stage |-> "counted", index |-> Cardinality(Members) + 1]]
    /\ UNCHANGED <<history, session, store, tables, leader, closes, bridge,
                   reload>>

SpawnShell(m) ==
    /\ Spawning(m, "counted") /\ Spawned(m, "spawned")
    /\ procs' = [procs EXCEPT ![m] = "live"]
    /\ UNCHANGED <<history, store, tables, unsent, exits, leader, closes,
                   bridge, reload>>

(* The row is that of the metadata spawn_shell returned.                   *)
StoreSession(m) ==
    /\ Spawning(m, "spawned") /\ Spawned(m, "stored")
    /\ teamRows' = [teamRows EXCEPT ![m] = "live"]
    /\ UNCHANGED <<history, session, store, panes, leader, closes, bridge,
                   reload>>

StorePane(m) ==
    /\ Spawning(m, "stored") /\ Spawned(m, "placed")
    /\ panes' = With(panes, m, spawns[m].index)
    /\ UNCHANGED <<history, session, store, teamRows, leader, closes, bridge,
                   reload>>

(* An error on the way undoes nothing.                                     *)
SpawnFails(m) ==
    /\ spawns[m].stage \in {"spawned", "stored"}
    /\ Spawned(m, "failed")
    /\ orphans' = orphans \cup {m}
    /\ UNCHANGED <<session, store, tables, leader, closes, bridge, reload,
                   closed, missed, overtaken, reloads, opened>>

RegisterMember(m) ==
    /\ Spawning(m, "placed")
    /\ IF team.there
       THEN /\ Register(m)
            /\ Spawned(m, IF m \in Waiting THEN "registered" ELSE "done")
            /\ UNCHANGED orphans
       ELSE /\ Spawned(m, "failed") /\ orphans' = orphans \cup {m}
            /\ UNCHANGED store
    /\ UNCHANGED <<session, tables, leader, closes, bridge, reload, closed,
                   missed, overtaken, reloads, opened>>

-----------------------------------------------------------------------------
(* The session of a member: the exit task sets its status, and sends       *)
(* Exited some awaits later.  It does so too when only the client of a     *)
(* durable backend has gone.                                               *)
End(m) ==
    /\ procs[m] \in {"live", "detached"} /\ m \notin unsent
    /\ procs' = [procs EXCEPT ![m] = "ended"] /\ unsent' = unsent \cup {m}
    /\ UNCHANGED <<history, calls, store, tables, exits, leader>>

Detach(m) ==
    /\ m \in Durable /\ procs[m] = "live" /\ m \notin unsent
    /\ procs' = [procs EXCEPT ![m] = "detached"] /\ unsent' = unsent \cup {m}
    /\ UNCHANGED <<history, calls, store, tables, exits, leader>>

SendExited(m) ==
    /\ m \in unsent /\ unsent' = unsent \ {m}
    /\ exits' = Append(exits, m)
    /\ IF Spawning(m, "subscribed") THEN Spawned(m, "heard") ELSE UNCHANGED spawns
    /\ UNCHANGED <<history, store, tables, procs, leader, closes, bridge,
                   reload>>

-----------------------------------------------------------------------------
(* handle_member_session_exit, which the bridge calls for every Exited and *)
(* the waiting tool for its member: the first of them removes it.          *)

BridgeReceives ==
    /\ bridge = [stage |-> "idle", m |-> NoMember] /\ exits # <<>>
    /\ bridge' = [stage |-> "row", m |-> Head(exits)] /\ exits' = Tail(exits)
    /\ teamRows' = [teamRows EXCEPT ![Head(exits)] =
          IF procs[Head(exits)] = "ended" THEN "complete" ELSE "live"]
    /\ UNCHANGED <<history, store, panes, procs, unsent, leader, spawns,
                   closes, reload>>

\* slip: only a member that is not spawned any more is removed
BridgeKnows(m) == m \in homes /\ spawns[m].stage = "done"

IsMember(m) == m \in homes

BridgeRemoves ==
    /\ bridge.stage = "row"
    /\ IF IsMember(bridge.m)
       THEN RemoveMember(bridge.m) /\ bridge' = [bridge EXCEPT !.stage = "pane"]
       ELSE UNCHANGED store /\ bridge' = [stage |-> "idle", m |-> NoMember]
    /\ missed' = IF bridge.m \in Members THEN missed ELSE missed \cup {bridge.m}
    /\ UNCHANGED <<session, tables, leader, spawns, closes, reload, closed,
                   orphans, overtaken, reloads, opened>>

\* slip: the pane of the member stays
AnnounceOnly(m) == closed' = [closed EXCEPT ![m] = @ + 1] /\ UNCHANGED panes

Announce(m) ==
    /\ panes' = Dropped(panes, m)
    /\ closed' = [closed EXCEPT ![m] = @ + 1]

BridgeClosesPane ==
    /\ bridge.stage = "pane"
    /\ Announce(bridge.m) /\ bridge' = [stage |-> "idle", m |-> NoMember]
    /\ UNCHANGED <<session, store, teamRows, leader, spawns, closes, reload,
                   missed, orphans, overtaken, reloads, opened>>

(* wait_for_member_exit: the status is looked at, then events are.         *)
LookAtMember(m) ==
    /\ Spawning(m, "registered")
    /\ Spawned(m, IF procs[m] = "ended" THEN "heard" ELSE "looked")
    /\ UNCHANGED <<history, session, store, tables, leader, closes, bridge,
                   reload>>

Listen(m) ==
    /\ Spawning(m, "looked") /\ Spawned(m, "subscribed")
    /\ UNCHANGED <<history, session, store, tables, leader, closes, bridge,
                   reload>>

WaitTimesOut(m) ==
    /\ Spawning(m, "subscribed") /\ Spawned(m, "timed out")
    /\ UNCHANGED <<history, session, store, tables, leader, closes, bridge,
                   reload>>

\* slip: the tool leaves the removal to the bridge
ToolOnlyAnswers(m) ==
    /\ Spawning(m, "heard") /\ Spawned(m, "answered")
    /\ UNCHANGED <<history, session, store, tables, leader, closes, bridge,
                   reload>>

ToolRemoves(m) ==
    /\ Spawning(m, "heard")
    /\ IF m \in homes THEN RemoveMember(m) /\ Spawned(m, "removed")
       ELSE UNCHANGED store /\ Spawned(m, "answered")
    /\ UNCHANGED <<history, session, tables, leader, closes, bridge, reload>>

ToolClosesPane(m) ==
    /\ Spawning(m, "removed") /\ Spawned(m, "answered")
    /\ Announce(m)
    /\ UNCHANGED <<session, store, teamRows, leader, closes, bridge, reload,
                   missed, orphans, overtaken, reloads, opened>>

-----------------------------------------------------------------------------
(* close_member_with_runtime.  Killing the session is asked for, and its   *)
(* failure is not looked at: the session ends when it does.                *)
CloseAt(c, stage) == closes[c].stage = stage
Closes(c, stage) == closes' = [closes EXCEPT ![c].stage = stage]

AskToClose(c, m) ==
    /\ CloseAt(c, "idle") /\ team.there /\ procs[m] # "none"
    /\ closes' = [closes EXCEPT ![c] = [stage |-> "killed", m |-> m, row |-> teamRows[m] # "none"]]
    /\ UNCHANGED <<history, session, store, tables, leader, spawns, bridge,
                   reload>>

\* slip: that the member is there is not asked
CloseAnyway(c) ==
    /\ CloseAt(c, "killed")
    /\ RemoveMember(closes[c].m) /\ Closes(c, "removed")
    /\ UNCHANGED <<history, session, tables, leader, spawns, bridge, reload>>

CloseRemoves(c) ==
    /\ CloseAt(c, "killed")
    /\ IF closes[c].m \in Members
       THEN RemoveMember(closes[c].m) /\ Closes(c, "removed")
       ELSE UNCHANGED store /\ Closes(c, "not found")
    /\ UNCHANGED <<history, session, tables, leader, spawns, bridge, reload>>

CloseClosesPane(c) ==
    /\ CloseAt(c, "removed") /\ Closes(c, "paneless")
    /\ Announce(closes[c].m)
    /\ UNCHANGED <<session, store, teamRows, leader, spawns, bridge, reload,
                   missed, orphans, overtaken, reloads, opened>>

CloseStoresRow(c) ==
    /\ CloseAt(c, "paneless") /\ Closes(c, "done")
    /\ teamRows' = IF closes[c].row THEN [teamRows EXCEPT ![closes[c].m] = "complete"] ELSE teamRows
    /\ UNCHANGED <<history, session, store, panes, leader, spawns, bridge,
                   reload>>

-----------------------------------------------------------------------------
(* rehydrate_all_teams_with_runtime: the sessions are read, then the panes,*)
(* and the store is replaced by the team they show.                        *)
MembersLive == {m \in Member : teamRows[m] = "live"}

ReadSessions ==
    /\ reload.stage = "none" /\ reloads < MaxReloads /\ reloads' = reloads + 1
    /\ reload' = [stage |-> "sessions", live |-> MembersLive, index |-> <<>>]
    /\ UNCHANGED <<session, store, tables, leader, spawns, closes, bridge,
                   closed, missed, orphans, overtaken, opened>>

ReadPanes ==
    /\ reload.stage = "sessions"
    /\ reload' = [reload EXCEPT !.stage = "panes",
          !.index = [m \in DOMAIN panes \cap reload.live |-> panes[m]]]
    /\ UNCHANGED <<history, session, store, tables, leader, spawns, closes,
                   bridge>>

(* No call is between a change of the store and one of the rows.           *)
AllSettled ==
    /\ \A m \in Member : spawns[m].stage \notin {"spawned", "stored", "placed", "removed"}
    /\ \A c \in Closer : closes[c].stage \notin {"removed", "paneless"}
    /\ bridge.stage = "idle"

Reload ==
    /\ reload.stage = "panes"
    /\ IF leader = "live"
       THEN /\ team' = [there |-> TRUE, next |-> NextAfter(reload.index), token |-> reload.index]
            /\ homes' = DOMAIN reload.index
       ELSE team' = NoTeam /\ homes' = {}
    /\ reload' = NoReload
    /\ overtaken' = (overtaken \/ DOMAIN reload.index # Members \/ ~AllSettled)
    /\ UNCHANGED <<session, tables, leader, spawns, closes, bridge, closed,
                   missed, orphans, reloads, opened>>

(* The project is opened again: what was under way is gone, sessions on a  *)
(* durable backend go on, the rows of those that ended are put right, and  *)
(* the team is rehydrated before anything else runs.                       *)
Reopen ==
    LET ended == {m \in Member : procs[m] = "ended"}
        lost == {m \in Member : spawns[m].stage \in {"spawned", "stored", "placed", "removed"}}
                \cup {closes[c].m : c \in {d \in Closer : closes[d].stage \in {"removed", "paneless"}}}
                \cup (IF bridge.stage = "pane" THEN {bridge.m} ELSE {})
        rows == [m \in Member |-> IF m \in ended /\ teamRows[m] = "live" THEN "complete" ELSE teamRows[m]]
        index == [m \in {n \in DOMAIN panes : rows[n] = "live"} |-> panes[m]]
    IN  /\ opened < MaxReopens /\ opened' = opened + 1
        /\ teamRows' = rows
        /\ IF leader = "live"
           THEN /\ team' = [there |-> TRUE, next |-> NextAfter(index), token |-> index]
                /\ homes' = DOMAIN index
           ELSE team' = NoTeam /\ homes' = {}
        /\ unsent' = {} /\ exits' = <<>>
        /\ spawns' = [m \in Member |-> IF Spawning(m, "none") THEN spawns[m]
                                       ELSE [spawns[m] EXCEPT !.stage = "failed"]]
        /\ closes' = [c \in Closer |-> IF CloseAt(c, "idle") THEN closes[c]
                                       ELSE [closes[c] EXCEPT !.stage = "not found"]]
        /\ bridge' = [stage |-> "idle", m |-> NoMember] /\ reload' = NoReload
        /\ orphans' = orphans \cup ended \cup lost
        /\ UNCHANGED <<panes, procs, leader, closed, missed, overtaken, reloads>>

-----------------------------------------------------------------------------
TeamInit ==
    /\ team = NoTeam /\ homes = {} /\ leader = "none"
    /\ procs = [m \in Member |-> "none"] /\ unsent = {} /\ exits = <<>>
    /\ teamRows = [m \in Member |-> "none"] /\ panes = <<>>
    /\ spawns = [m \in Member |-> [stage |-> "none", index |-> 0]]
    /\ closes = [c \in Closer |-> [stage |-> "idle", m |-> NoMember, row |-> FALSE]]
    /\ bridge = [stage |-> "idle", m |-> NoMember] /\ reload = NoReload
    /\ closed = [m \in Member |-> 0]
    /\ missed = {} /\ orphans = {} /\ overtaken = FALSE /\ reloads = 0 /\ opened = 0

SpawnStep(m) ==
    \/ Configure(m) \/ SpawnShell(m) \/ StoreSession(m) \/ StorePane(m)
    \/ SpawnFails(m) \/ RegisterMember(m)
WaitStep(m) ==
    LookAtMember(m) \/ Listen(m) \/ WaitTimesOut(m) \/ ToolRemoves(m)
    \/ ToolClosesPane(m)
BridgeStep == BridgeReceives \/ BridgeRemoves \/ BridgeClosesPane
CloseMember(c) ==
    \/ \E m \in Member : AskToClose(c, m)
    \/ CloseRemoves(c) \/ CloseClosesPane(c) \/ CloseStoresRow(c)

TeamNext ==
    \/ Start \/ LeaderEnds
    \/ \E m \in Member : SpawnStep(m) \/ WaitStep(m) \/ End(m) \/ Detach(m) \/ SendExited(m)
    \/ BridgeStep
    \/ \E c \in Closer : CloseMember(c)
    \/ ReadSessions \/ ReadPanes \/ Reload \/ Reopen

(* The exit task and the bridge are tasks of the runtime.                  *)
TeamFair ==
    /\ \A m \in Member : WF_teamVars(SendExited(m))
    /\ WF_teamVars(BridgeStep)

TeamSpec == TeamInit /\ [][TeamNext]_teamVars /\ TeamFair

-----------------------------------------------------------------------------
(* The next index is beyond the token of every member, also after the team *)
(* has been rehydrated from panes whose indices are counts: a new member   *)
(* gets a token no other has.                                              *)
NextIsFresh == \A m \in Members : team.token[m] < team.next

(* A session is known to be a member's just as long as it is one.          *)
HomesAgree == homes = Members

(* When no call is half-way, each live session with a member's pane is in  *)
(* the team, unless its spawning was cut off, its client detached, or a    *)
(* rehydration overtaken.                                                  *)
PanesAreMembers ==
    AllSettled /\ ~overtaken /\ leader # "ended" =>
        \A m \in DOMAIN panes \ orphans : m \in Members \/ m \in missed

(* A member is removed, and its closing announced, once, whoever comes     *)
(* first: the user's close, the bridge, or the tool that waited.           *)
ClosedOnce == ~overtaken => \A m \in Member : closed[m] <= 1

(* When the tool has answered that its member ended, the member is gone    *)
(* from the team, also when it ended before it was registered.             *)
AnsweredIsGone ==
    ~overtaken => \A m \in Member : Spawning(m, "answered") => m \notin Members

(* Three ways to remove a member make one removal.                         *)
RemovedOnce == ClosedOnce /\ AnsweredIsGone

(* Team, sessions and panes agree about who is a member; the closing of a  *)
(* member is announced once, whoever comes first, and a member a tool      *)
(* answered for is gone.  (register_member, spawn_member_with_runtime,     *)
(* close_member_with_runtime, remove_member)                               *)
TeamAgrees == NextIsFresh /\ HomesAgree /\ PanesAreMembers /\ RemovedOnce

(* A member whose session has ended leaves the team, unless its exit came  *)
(* before it was registered.                                               *)
Dead(m) == m \in Members /\ procs[m] = "ended"
Excused(m) == m \notin Members \/ m \in missed \/ overtaken
DeadMembersLeave == \A m \in Member : Dead(m) ~> Excused(m)

(* What the code does not keep: the token a member's own environment and   *)
(* pane carry is the one the team knows it by.                             *)
OwnToken == \A m \in Members \cap DOMAIN panes : panes[m] = team.token[m]

(* "Optional wait timeout", "wait for the teammate to exit": the tool does *)
(* not wait on a member that has ended and been announced.                 *)
WaiterHears ==
    \A m \in Member : Spawning(m, "subscribed") /\ procs[m] = "ended" => m \in unsent
=============================================================================
