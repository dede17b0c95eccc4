------------------------------ MODULE GitHubAuth -----------------------------
(***************************************************************************)
(* What the application shows of the user's GitHub accounts                *)
(* (pnevma-commands/src/github_auth.rs): a snapshot of what the GitHub CLI *)
(* reports, refreshed on request and by a monitor, and the login job,      *)
(* which runs in the background and is shown in the same snapshot.         *)
(*                                                                         *)
(* The CLI's files belong to the outside world: terminals change them too. *)
(* Their content and their modification time are one counter of changes.   *)
(***************************************************************************)
EXTENDS Naturals, FiniteSets

CONSTANTS
    Refresher,      \* github.auth.status, refresh, switch and fix requests
    Login,          \* logins asked for
    Watch,          \* the monitor
    MaxChanges      \* bound: changes of the CLI's files

ASSUME AccountsAssumption ==
    /\ Refresher \cap Login = {} /\ Watch \notin Refresher \cup Login
    /\ MaxChanges \in Nat

VARIABLES
    hosts,          \* changes of the CLI's files so far
    gh,             \* logins whose gh process is running
    snap,           \* snapshot: whether there is one, the change it shows,
                    \* the login job, and whether it is over a minute old
    knownMtime,     \* last_hosts_mtime
    jobRunning,     \* auth_job_running
    refreshLock,    \* who holds refresh_lock, in the order asked for
    doing           \* of each actor: where it is and what it has read

accountVars == <<hosts, gh, snap, knownMtime, jobRunning, refreshLock, doing>>

Actor == Refresher \cup Login \cup {Watch}
NoSnap == [there |-> FALSE, seen |-> 0, job |-> "none", old |-> TRUE]
Rested == [at |-> "idle", cached |-> NoSnap, seen |-> 0]
Is_(a, at) == doing[a].at = at
Heads(a, at) == doing' = [doing EXCEPT ![a].at = at]
Leaves(a, at) == doing' = [doing EXCEPT ![a] = [Rested EXCEPT !.at = at]]

\* A mutex: free, or whoever asked next.
HasLock(a) == refreshLock = {a}
Locks(a) == refreshLock = {} /\ refreshLock' = {a}

-----------------------------------------------------------------------------
(* The world outside.                                                      *)
Change ==
    /\ hosts < MaxChanges /\ hosts' = hosts + 1
    /\ UNCHANGED <<gh, snap, knownMtime, jobRunning, refreshLock, doing>>

Age ==
    /\ snap.there /\ ~snap.old /\ snap' = [snap EXCEPT !.old = TRUE]
    /\ UNCHANGED <<hosts, gh, knownMtime, jobRunning, refreshLock, doing>>

-----------------------------------------------------------------------------
(* refresh_github_auth_status_locked.  A login without a snapshot does it  *)
(* too before it begins.                                                   *)
AskRefresh(a) ==
    /\ \/ a \in Refresher /\ Is_(a, "idle")
       \/ a \in Login /\ Is_(a, "claimed") /\ ~snap.there
       \/ a = Watch /\ Is_(a, "due")
    /\ Heads(a, "asked")
    /\ UNCHANGED <<hosts, gh, snap, knownMtime, jobRunning, refreshLock>>

\* slip: the accounts are inspected before it is the caller's turn
InspectsAsked(a) == Is_(a, "asked")

InspectsAlone(a) == Is_(a, "cached") /\ HasLock(a)

ReadCached(a) ==
    /\ Is_(a, "asked") /\ Locks(a)
    /\ doing' = [doing EXCEPT ![a].at = "cached", ![a].cached.job = snap.job]
    /\ UNCHANGED <<hosts, gh, snap, knownMtime, jobRunning>>

Inspect(a) ==
    /\ InspectsAlone(a)
    /\ doing' = [doing EXCEPT ![a].at = "inspected", ![a].seen = hosts]
    /\ UNCHANGED <<hosts, gh, snap, knownMtime, jobRunning, refreshLock>>

NoteMtime(a) ==
    /\ Is_(a, "inspected")
    /\ knownMtime' = hosts
    /\ Heads(a, IF a \in Login /\ a \notin jobRunning THEN "result" ELSE "noted")
    /\ UNCHANGED <<hosts, gh, snap, jobRunning, refreshLock>>

\* merge_with_cached_job: the job is the one that was cached before.
StoreSnapshot(a) ==
    /\ Is_(a, "noted")
    /\ snap' = [there |-> TRUE, seen |-> doing[a].seen,
                job |-> doing[a].cached.job, old |-> FALSE]
    /\ refreshLock' = {}
    /\ Leaves(a, IF a \in Login THEN "claimed" ELSE "idle")
    /\ UNCHANGED <<hosts, gh, knownMtime, jobRunning>>

-----------------------------------------------------------------------------
(* ensure_monitor_started: every fifteen seconds.                          *)
\* slip: the snapshot is left as it is while the files look the same
MtimeChanged == hosts # knownMtime

DueForRefresh == snap.old \/ hosts # knownMtime

LookAtHosts ==
    /\ Is_(Watch, "idle")
    /\ Heads(Watch, IF DueForRefresh THEN "due" ELSE "idle")
    /\ UNCHANGED <<hosts, gh, snap, knownMtime, jobRunning, refreshLock>>

-----------------------------------------------------------------------------
(* start_github_auth_login, one at a time by auth_job_running.             *)
ClaimJob(l) ==
    /\ Is_(l, "idle") /\ jobRunning = {}
    /\ jobRunning' = {l}
    /\ Heads(l, "claimed")
    /\ UNCHANGED <<hosts, gh, snap, knownMtime, refreshLock>>

\* Another login is under way: its snapshot is returned.
RefuseJob(l) ==
    /\ Is_(l, "idle") /\ jobRunning # {}
    /\ Heads(l, "over")
    /\ UNCHANGED <<hosts, gh, snap, knownMtime, jobRunning, refreshLock>>

\* update_auth_job reads the snapshot and writes it back, without the lock
\* that refreshes hold.
ReadForJob(l) ==
    /\ \/ Is_(l, "claimed") /\ snap.there
       \/ Is_(l, "failed")
    /\ doing' = [doing EXCEPT ![l].at = IF Is_(l, "failed") THEN "failing" ELSE "starting",
                              ![l].cached = snap]
    /\ UNCHANGED <<hosts, gh, snap, knownMtime, jobRunning, refreshLock>>

ShowJob(l) ==
    /\ Is_(l, "starting")
    /\ snap' = [doing[l].cached EXCEPT !.there = TRUE, !.job = "running"]
    /\ gh' = gh \cup {l}
    /\ Leaves(l, "waiting")
    /\ UNCHANGED <<hosts, knownMtime, jobRunning, refreshLock>>

\* gh logs in, and may add an account; or fails; or takes five minutes, in
\* which case it is given up but not ended.
LogIn(l) ==
    /\ l \in gh /\ gh' = gh \ {l}
    /\ \E added \in 0 .. 1 : hosts + added <= MaxChanges /\ hosts' = hosts + added
    /\ IF Is_(l, "waiting") THEN Heads(l, "loggedIn") ELSE UNCHANGED doing
    /\ UNCHANGED <<snap, knownMtime, jobRunning, refreshLock>>

FailLogin(l) ==
    /\ l \in gh /\ gh' = gh \ {l}
    /\ IF Is_(l, "waiting") THEN Heads(l, "refused") ELSE UNCHANGED doing
    /\ UNCHANGED <<hosts, snap, knownMtime, jobRunning, refreshLock>>

GiveUpLogin(l) ==
    /\ Is_(l, "waiting") /\ Heads(l, "refused")
    /\ UNCHANGED <<hosts, gh, snap, knownMtime, jobRunning, refreshLock>>

\* The flag is cleared before the result is shown.
FreeJob(l) ==
    /\ Is_(l, "loggedIn") \/ Is_(l, "refused")
    /\ jobRunning' = {}
    /\ Heads(l, IF Is_(l, "loggedIn") THEN "asking" ELSE "failed")
    /\ UNCHANGED <<hosts, gh, snap, knownMtime, refreshLock>>

LockForResult(l) ==
    /\ Is_(l, "asking") /\ Locks(l)
    /\ Heads(l, "cached")
    /\ UNCHANGED <<hosts, gh, snap, knownMtime, jobRunning>>

\* No new account counts as a failure of the job.
StoreResult(l) ==
    /\ Is_(l, "result")
    /\ \E job \in {"none", "failed"} :
        snap' = [there |-> TRUE, seen |-> doing[l].seen, job |-> job, old |-> FALSE]
    /\ refreshLock' = {}
    /\ Leaves(l, "over")
    /\ UNCHANGED <<hosts, gh, knownMtime, jobRunning>>

ShowFailure(l) ==
    /\ Is_(l, "failing")
    /\ snap' = [doing[l].cached EXCEPT !.there = TRUE, !.job = "failed"]
    /\ Leaves(l, "over")
    /\ UNCHANGED <<hosts, gh, knownMtime, jobRunning, refreshLock>>

-----------------------------------------------------------------------------
AccountsInit ==
    /\ hosts = 0 /\ gh = {} /\ snap = NoSnap /\ knownMtime = 0
    /\ jobRunning = {} /\ refreshLock = {}
    /\ doing = [a \in Actor |-> Rested]

RefreshStep(a) ==
    AskRefresh(a) \/ ReadCached(a) \/ Inspect(a) \/ NoteMtime(a) \/ StoreSnapshot(a)

LoginStep(l) ==
    \/ ReadForJob(l) \/ ShowJob(l) \/ GiveUpLogin(l) \/ FreeJob(l)
    \/ LockForResult(l) \/ StoreResult(l) \/ ShowFailure(l)

AccountsNext ==
    \/ Change \/ Age \/ LookAtHosts
    \/ \E a \in Actor : RefreshStep(a)
    \/ \E l \in Login :
        ClaimJob(l) \/ RefuseJob(l) \/ LogIn(l) \/ FailLogin(l) \/ LoginStep(l)

\* The monitor's timer fires, a minute passes, and what has begun goes on;
\* nobody need ask for anything or log in.
AccountsFair ==
    /\ WF_accountVars(Age) /\ WF_accountVars(LookAtHosts /\ Is_(Watch, "due")')
    /\ \A a \in Actor : WF_accountVars(~Is_(a, "idle") /\ RefreshStep(a))
    /\ \A l \in Login : WF_accountVars(LoginStep(l))

AccountsSpec == AccountsInit /\ [][AccountsNext]_accountVars

-----------------------------------------------------------------------------
(* However refreshes of requests, of the monitor and of logins overlap,    *)
(* none puts back accounts older than those already shown; only a job's    *)
(* own message, written without the lock, may.                             *)
ShownForward ==
    [][\/ snap'.seen >= snap.seen
       \/ \E l \in Login : ShowJob(l) \/ ShowFailure(l)]_accountVars

(* In the end, the files having changed for the last time, the accounts    *)
(* shown are the ones there are: a change made while they were inspected   *)
(* is not missed for good.                                                 *)
AccountsCatchUp == <>[](snap.there /\ snap.seen = hosts)

-----------------------------------------------------------------------------
(* What the code does not keep.                                            *)

\* A job shown as running runs: a refresh that read it writes it back after
\* its end, and nothing corrects it.
ShownJobRuns ==
    snap.job = "running" => \E l \in Login : doing[l].at # "over" /\ doing[l].at # "idle"

\* One login process: one given up after five minutes goes on.
OneProcess == Cardinality(gh) <= 1
=============================================================================
