---------------------------- MODULE RemoteDurable ----------------------------
(***************************************************************************)
(* Sessions that live on another host and are reached by ssh: what the     *)
(* host has and what the project's rows say of it (commands/mod.rs,        *)
(* commands/ssh.rs and commands/project/sessions.rs).  A command reads the *)
(* rows, asks the host, and writes a whole row back; nothing is locked in  *)
(* between.  Every question and order may fail, done or not.               *)
(***************************************************************************)
EXTENDS Naturals, FiniteSets

CONSTANTS
    MaxSessions,   \* ids handed out at most
    Viewer,        \* list_live_session_views, get_session_binding, restore
    Reattacher,    \* reattach_session and its recovery option
    Connector,     \* connect_ssh
    Disconnector,  \* disconnect_ssh
    Restarter,     \* restart_session
    MaxErrors      \* ssh calls that may fail

ASSUME DurableAssumption == MaxSessions \in Nat

VARIABLES
    host,    \* what each session is on the host
    row,     \* what its row says
    handedOut,    \* ids handed out so far
    flow,    \* where each command is
    errors,
    doubted, \* sessions an ssh call about which has failed
    ended,   \* sessions a command ended, host and row
    stale    \* those of them some command had asked about before

durableVars == <<host, row, handedOut, flow, errors, doubted, ended, stale>>
ghosts == <<doubted, ended, stale>>

Sid == 1..MaxSessions
Flow == Viewer \cup Reattacher \cup Connector \cup Disconnector \cup Restarter
Resting == [at |-> "idle", todo |-> {}, s |-> 0, answer |-> "none"]
Newest(rows) == CHOOSE s \in rows : \A other \in rows : other <= s

\* remote_session_is_live
LiveRows == {s \in Sid : row[s] = "live"}

To(f, place) == flow' = [flow EXCEPT ![f].at = place]

\* A failing ssh call about s.
CallFails(s) ==
    /\ errors < MaxErrors
    /\ errors' = errors + 1
    /\ doubted' = doubted \cup {s}
Working == UNCHANGED <<errors, doubted>>

\* Writing a row forgets whatever another command wrote meanwhile.
WriteRow(s, says) == row' = [row EXCEPT ![s] = says]

-----------------------------------------------------------------------------
(* refresh_remote_session_row                                              *)

\* remote_session_status, with the state as it is then.
HostSays(s) == CASE host[s] = "live" -> {"live"}
               [] host[s] = "over" -> {"exited"}
               [] OTHER -> {"exited", "lost"}
Ask(f) ==
    /\ flow[f].at = "ask"
    /\ \/ /\ \E a \in HostSays(flow[f].s) :
                flow' = [flow EXCEPT ![f].at = "write", ![f].answer = a]
          /\ Working
       \/ /\ flow' = [flow EXCEPT ![f].at = "write", ![f].answer = "error"]
          /\ CallFails(flow[f].s)
    /\ UNCHANGED <<host, row, handedOut, ended, stale>>

\* slip: a session the host does not know keeps its row
SaidIfKnown(answer) == IF answer \in {"live", "lost"} THEN "live"
                       ELSE IF answer = "error" THEN "lost" ELSE answer

\* apply_remote_session_status, or mark_remote_session_row_lost.
Said(answer) == IF answer = "error" THEN "lost" ELSE answer
WriteAnswer(f) == WriteRow(flow[f].s, Said(flow[f].answer))

-----------------------------------------------------------------------------
(* The commands that look                                                  *)

\* slip: the latest session stands for all
LooksAtNewest(s) == LiveRows # {} /\ s = Newest(LiveRows)

\* Only rows that say live are asked about...
Looks(s) == row[s] = "live"
View(v, s) ==
    /\ flow[v] = Resting /\ Looks(s)
    /\ flow' = [flow EXCEPT ![v].at = "ask", ![v].s = s]
    /\ UNCHANGED <<host, row, handedOut, errors, ghosts>>

\* ...except by reattaching.
Reattach(r, s) ==
    /\ flow[r] = Resting /\ row[s] # "none"
    /\ flow' = [flow EXCEPT ![r].at = "ask", ![r].s = s]
    /\ UNCHANGED <<host, row, handedOut, errors, ghosts>>

Looked(f) ==
    /\ f \in Viewer \cup Reattacher /\ flow[f].at = "write"
    /\ WriteAnswer(f)
    /\ flow' = [flow EXCEPT ![f] = Resting]
    /\ UNCHANGED <<host, handedOut, errors, ghosts>>

-----------------------------------------------------------------------------
(* create_remote_managed_session                                           *)

Fresh == handedOut + 1

\* The session is created on the host, or that fails, perhaps after the
\* fact; its row is written when the answer is there.
Create(f) ==
    /\ flow[f].at = "create" /\ handedOut < MaxSessions
    /\ handedOut' = Fresh
    /\ \/ /\ host' = [host EXCEPT ![Fresh] = "live"]
          /\ flow' = [flow EXCEPT ![f].at = "record", ![f].s = Fresh]
          /\ Working
       \/ /\ \/ host' = [host EXCEPT ![Fresh] = "live"]
             \/ UNCHANGED host
          /\ flow' = [flow EXCEPT ![f] = Resting]
          /\ CallFails(Fresh)
    /\ UNCHANGED <<row, ended, stale>>

Record(f) ==
    /\ flow[f].at = "record"
    /\ WriteRow(flow[f].s, "live")
    /\ flow' = [flow EXCEPT ![f] = Resting]
    /\ UNCHANGED <<host, handedOut, errors, ghosts>>

(* connect_ssh: the newest session the host still has, or one more.        *)
ConnectSsh(c) ==
    /\ flow[c] = Resting /\ c \in Connector
    /\ flow' = [flow EXCEPT ![c].at = "choose", ![c].todo = LiveRows]
    /\ UNCHANGED <<host, row, handedOut, errors, ghosts>>

Choose(c) ==
    /\ flow[c].at = "choose"
    /\ IF flow[c].todo = {} THEN To(c, "create")
       ELSE flow' = [flow EXCEPT ![c].at = "ask",
                                 ![c].s = Newest(flow[c].todo)]
    /\ UNCHANGED <<host, row, handedOut, errors, ghosts>>

Chosen(c) ==
    /\ c \in Connector /\ flow[c].at = "write"
    /\ WriteAnswer(c)
    /\ flow' = [flow EXCEPT ![c] =
                 IF @.answer = "live" THEN Resting
                 ELSE [Resting EXCEPT !.at = "choose",
                                   !.todo = flow[c].todo \ {flow[c].s}]]
    /\ UNCHANGED <<host, handedOut, errors, ghosts>>

-----------------------------------------------------------------------------
(* The commands that end                                                   *)

\* disconnect_ssh: every session whose row says live.
Disconnect(d) ==
    /\ flow[d] = Resting /\ d \in Disconnector
    /\ flow' = [flow EXCEPT ![d].at = "next", ![d].todo = LiveRows]
    /\ UNCHANGED <<host, row, handedOut, errors, ghosts>>

NextToEnd(d) ==
    /\ flow[d].at = "next"
    /\ IF flow[d].todo = {} THEN flow' = [flow EXCEPT ![d] = Resting]
       ELSE LET s == Newest(flow[d].todo)
            IN  flow' = [flow EXCEPT ![d].at = "end", ![d].s = s,
                                     ![d].todo = @ \ {s}]
    /\ UNCHANGED <<host, row, handedOut, errors, ghosts>>

\* restart_session: one session, whatever its row says.
Restart(r, s) ==
    /\ flow[r] = Resting /\ row[s] # "none"
    /\ flow' = [flow EXCEPT ![r].at = "end", ![r].s = s]
    /\ UNCHANGED <<host, row, handedOut, errors, ghosts>>

\* slip: the row is closed and the session left alone
LeftAlone(s) == host

\* terminate_remote_session, whose error is only logged.
Terminated(s) == [host EXCEPT ![s] = IF @ = "none" THEN @ ELSE "killed"]
Terminate(f) ==
    /\ flow[f].at = "end"
    /\ \/ host' = Terminated(flow[f].s) /\ Working
       \/ host' \in {host, Terminated(flow[f].s)} /\ CallFails(flow[f].s)
    /\ To(f, "ended")
    /\ UNCHANGED <<row, handedOut, ended, stale>>

\* The row is written over, whatever became of the session; a command that
\* was told that it lives, and has not written that, is still to come.
Told(s) == {f \in Flow : flow[f].at \in {"ask", "write"} /\ flow[f].s = s}
Ended(f) ==
    LET s == flow[f].s
    IN  /\ flow[f].at = "ended"
        /\ WriteRow(s, "exited")
        /\ flow' = [flow EXCEPT ![f] =
             IF f \in Restarter THEN [Resting EXCEPT !.at = "create"]
             ELSE [Resting EXCEPT !.at = "next", !.todo = flow[f].todo]]
        /\ ended' = IF host[s] = "killed" THEN ended \cup {s} ELSE ended
        /\ stale' = IF Told(s) = {} THEN stale ELSE stale \cup {s}
        /\ UNCHANGED <<host, handedOut, errors, doubted>>

\* A session's command ends by itself.
Exit(s) ==
    /\ host[s] = "live"
    /\ host' = [host EXCEPT ![s] = "over"]
    /\ UNCHANGED <<row, handedOut, flow, errors, ghosts>>

-----------------------------------------------------------------------------
DurableInit ==
    /\ host = [s \in Sid |-> "none"]
    /\ row = [s \in Sid |-> "none"]
    /\ handedOut = 0
    /\ flow = [f \in Flow |-> Resting]
    /\ errors = 0 /\ doubted = {} /\ ended = {} /\ stale = {}

Step(f) == Ask(f) \/ Looked(f) \/ Create(f) \/ Record(f) \/ Choose(f)
           \/ Chosen(f) \/ NextToEnd(f) \/ Terminate(f) \/ Ended(f)
DurableNext ==
    \/ \E f \in Flow : Step(f)
    \/ \E s \in Sid :
         \/ \E v \in Viewer : View(v, s)
         \/ \E r \in Reattacher : Reattach(r, s)
         \/ \E r \in Restarter : Restart(r, s)
         \/ Exit(s)
    \/ \E c \in Connector : ConnectSsh(c)
    \/ \E d \in Disconnector : Disconnect(d)

\* Commands go on, and the live sessions are listed again and again.
Views(s) == \E v \in Viewer : View(v, s)
DurableFair ==
    /\ \A f \in Flow : WF_durableVars(Step(f))
    /\ \A s \in Sid : SF_durableVars(Views(s))
DurableSpec == DurableInit /\ [][DurableNext]_durableVars /\ DurableFair

-----------------------------------------------------------------------------
\* No session runs on the host behind the user's back: one that lives there
\* is being created or has a row that says so, unless an ssh call about it
\* failed.  (mark_remote_session_row_lost and the ending commands)
UnderWay == {s \in Sid : \E f \in Flow : flow[f].at = "record"
                                             /\ flow[f].s = s}
NothingRunsUnseen ==
    \A s \in Sid \ (doubted \cup UnderWay) :
        host[s] = "live" => row[s] = "live"

\* A session the user ended is not shown as live again, unless some command
\* had been asking about it meanwhile.  (disconnect_ssh, restart_session)
EndedStaysEnded == \A s \in ended \ stale : row[s] # "live"

\* The rows follow the host where no call fails and no commands overlap.
RowsTrue == NothingRunsUnseen /\ EndedStaysEnded

\* A row that says live of a session that is gone is put right, as long as
\* the sessions are listed again and again.  (list_live_session_views)
GoneIsNoticed ==
    \A s \in Sid : host[s] \in {"over", "killed"} ~> row[s] # "live"

\* Refuted: with no command under way, two sessions are never live at one
\* host when only connect_ssh creates them.
OneEach == (\A f \in Flow : flow[f] = Resting)
               => Cardinality({s \in Sid : host[s] = "live"}) <= 1

\* Refuted: a session that was ended is never shown as live again.
EndedStaysEndedEver == \A s \in ended : row[s] # "live"

\* Refuted: what lives on the host has a row that says so.
NothingRunsUnseenEver == \A s \in Sid \ UnderWay :
    host[s] = "live" => row[s] = "live"
=============================================================================
