--------------------------- MODULE WorkspaceOpener ---------------------------
(***************************************************************************)
(* Opening a workspace from a GitHub issue, a pull request or a branch     *)
(* (pnevma-commands/src/commands/project/overview.rs).  For an issue or a  *)
(* pull request the handler creates a task, remembers in                   *)
(* task_external_sources which item it stands for, adds a git worktree and *)
(* its row, and writes the worktree into the task; asked again, it answers *)
(* with what is there.  Nothing is undone when one of these steps fails.   *)
(*                                                                         *)
(* A worktree of a pull request starts at FETCH_HEAD, which belongs to the *)
(* repository: every fetch sets it.                                        *)
(***************************************************************************)
EXTENDS Naturals, FiniteSets

CONSTANTS
    Launcher,       \* requests under way
    IssueItem, PullRequest,
    Branch,         \* branches the user picks or names
    Ticket,         \* ids of tasks; a worktree carries its task's id
    Base,           \* the content of the target branch
    Nothing,
    Apart,          \* whether requests that overlap are for different items,
                    \* at most one of them a pull request
    MaxFaults       \* bound: steps that fail, and checkouts lost

Item == IssueItem \cup PullRequest

ASSUME OpenerAssumption ==
    /\ Apart \in BOOLEAN /\ MaxFaults \in Nat
    /\ Nothing \notin Item \cup Ticket \cup [item : Item, tree : Ticket \cup {Nothing}]

VARIABLES
    tickets,        \* the tasks: which item, which worktree
    sourceOf,         \* task_external_sources: the task of an item
    treeRow,        \* tasks with a row in worktrees
    checkout,       \* what the worktree of a task was made from, if on disk
    fetchHead,
    branchTree,     \* branches git has a worktree for, and whether it is on disk
    launch,         \* of each request: where it is
    faults

openerVars == <<tickets, sourceOf, treeRow, checkout, fetchHead, branchTree, launch, faults>>

Resting == [at |-> "resting"]
Stage(c, at) == launch[c].at = at
To(c, at) == launch' = [launch EXCEPT ![c].at = at]

\* The content the user means by an item.
Meant(i) == IF i \in PullRequest THEN i ELSE Base

\* The checkout an earlier launch left for the item
\* (workspace_opener_existing_launch_result): source, task, row, directory.
Existing(i) ==
    /\ sourceOf[i] # Nothing /\ tickets[sourceOf[i]] # Nothing
    /\ tickets[sourceOf[i]].tree = sourceOf[i] /\ sourceOf[i] \in treeRow
    /\ checkout[sourceOf[i]] # Nothing

-----------------------------------------------------------------------------
(* create_workspace_from_issue, create_workspace_from_pull_request         *)
MayStart(c, i) ==
    Apart => \A d \in Launcher \ {c} :
                 ~Stage(d, "resting") /\ ~Stage(d, "answered") =>
                     /\ launch[d].item # i
                     /\ ~(launch[d].item \in PullRequest /\ i \in PullRequest)

BeginLaunch(c) ==
    /\ Stage(c, "resting") \/ Stage(c, "answered")
    /\ \E i \in Item : MayStart(c, i) /\ launch' = [launch EXCEPT ![c] = [at |-> "look", item |-> i]]
    /\ UNCHANGED <<tickets, sourceOf, treeRow, checkout, fetchHead, branchTree, faults>>

LookForLaunch(c) ==
    /\ Stage(c, "look")
    /\ LET i == launch[c].item IN
       launch' = [launch EXCEPT ![c] =
           IF Existing(i) THEN [at |-> "answered", item |-> i, ticket |-> sourceOf[i]]
                          ELSE [at |-> "task", item |-> i]]
    /\ UNCHANGED <<tickets, sourceOf, treeRow, checkout, fetchHead, branchTree, faults>>

CreateTicket(c) ==
    /\ Stage(c, "task")
    /\ \E t \in Ticket :
           /\ tickets[t] = Nothing /\ checkout[t] = Nothing
           /\ \A d \in Launcher : "ticket" \in DOMAIN launch[d] => launch[d].ticket # t
           /\ tickets' = [tickets EXCEPT ![t] = [item |-> launch[c].item, tree |-> Nothing]]
           /\ launch' = [launch EXCEPT ![c] = [at |-> "source", item |-> launch[c].item, ticket |-> t]]
    /\ UNCHANGED <<sourceOf, treeRow, checkout, fetchHead, branchTree, faults>>

\* upsert_task_external_source: the item's row points to the new task.
\* slip: on conflict the row stays as it is
LinkOnce(i, t) == IF sourceOf[i] = Nothing THEN t ELSE sourceOf[i]

LinkOf(i, t) == t

LinkTicket(c) ==
    /\ Stage(c, "source")
    /\ tickets[launch[c].ticket] # Nothing
    /\ sourceOf' = [sourceOf EXCEPT ![launch[c].item] = LinkOf(launch[c].item, launch[c].ticket)]
    /\ To(c, IF launch[c].item \in PullRequest THEN "fetch" ELSE "add")
    /\ UNCHANGED <<tickets, treeRow, checkout, fetchHead, branchTree, faults>>

\* git fetch of the head of the pull request
Fetch(c) ==
    /\ Stage(c, "fetch") /\ fetchHead' = launch[c].item /\ To(c, "add")
    /\ UNCHANGED <<tickets, sourceOf, treeRow, checkout, branchTree, faults>>

\* git worktree add, from FETCH_HEAD or from the target branch
\* slip: a pull request starts where the others do
StartAtBase(i) == Base

StartPoint(i) == IF i \in PullRequest THEN fetchHead ELSE Base

AddCheckout(c) ==
    /\ Stage(c, "add")
    /\ checkout' = [checkout EXCEPT ![launch[c].ticket] = StartPoint(launch[c].item)]
    /\ To(c, "row")
    /\ UNCHANGED <<tickets, sourceOf, treeRow, fetchHead, branchTree, faults>>

StoreCheckout(c) ==
    /\ Stage(c, "row")
    /\ tickets[launch[c].ticket] # Nothing /\ checkout[launch[c].ticket] # Nothing
    /\ treeRow' = treeRow \cup {launch[c].ticket} /\ To(c, "link")
    /\ UNCHANGED <<tickets, sourceOf, checkout, fetchHead, branchTree, faults>>

AnswerLaunch(c) ==
    /\ Stage(c, "link")
    /\ tickets[launch[c].ticket] # Nothing
    /\ tickets' = [tickets EXCEPT ![launch[c].ticket].tree = launch[c].ticket]
    /\ To(c, "answered")
    /\ UNCHANGED <<sourceOf, treeRow, checkout, fetchHead, branchTree, faults>>

-----------------------------------------------------------------------------
(* create_workspace_from_branch: the worktree git lists for the branch, or *)
(* a new one; git refuses a second worktree of a branch.                   *)
OpenBranch(c) ==
    /\ Stage(c, "resting") \/ Stage(c, "answered")
    /\ \E b \in Branch :
           launch' = [launch EXCEPT ![c] = [at |-> IF branchTree[b] = "none" THEN "branch" ELSE "answered",
                                            branch |-> b, item |-> Nothing]]
    /\ UNCHANGED <<tickets, sourceOf, treeRow, checkout, fetchHead, branchTree, faults>>

AddBranchTree(c) ==
    /\ Stage(c, "branch")
    /\ branchTree[launch[c].branch] = "none"
    /\ branchTree' = [branchTree EXCEPT ![launch[c].branch] = "there"]
    /\ To(c, "answered")
    /\ UNCHANGED <<tickets, sourceOf, treeRow, checkout, fetchHead, faults>>

-----------------------------------------------------------------------------
(* A step fails, for one of its own reasons or because the task or the     *)
(* directory is gone by now; what was done so far stays.                   *)
Thwarted(c) ==
    \/ Stage(c, "branch") /\ branchTree[launch[c].branch] # "none"
    \/ launch[c].at \in {"source", "row", "link"} /\ tickets[launch[c].ticket] = Nothing
    \/ Stage(c, "row") /\ checkout[launch[c].ticket] = Nothing

FailLaunch(c) ==
    /\ ~Stage(c, "resting") /\ ~Stage(c, "answered")
    /\ IF Thwarted(c) THEN UNCHANGED faults
                      ELSE faults < MaxFaults /\ faults' = faults + 1
    /\ launch' = [launch EXCEPT ![c] = Resting]
    /\ UNCHANGED <<tickets, sourceOf, treeRow, checkout, fetchHead, branchTree>>

\* cleanup_task_worktree, by hand or because the task is over: the directory,
\* the row, and what the task says of it.
CleanTicket(t) ==
    /\ tickets[t] # Nothing /\ t \in treeRow
    /\ checkout' = [checkout EXCEPT ![t] = Nothing]
    /\ treeRow' = treeRow \ {t}
    /\ tickets' = [tickets EXCEPT ![t].tree = Nothing]
    /\ UNCHANGED <<sourceOf, fetchHead, branchTree, launch, faults>>

\* delete_task: clean up, then the row, and with it the rows that refer to it.
DeleteTicket(t) ==
    /\ tickets[t] # Nothing
    /\ tickets' = [tickets EXCEPT ![t] = Nothing]
    /\ sourceOf' = [i \in Item |-> IF sourceOf[i] = t THEN Nothing ELSE sourceOf[i]]
    /\ checkout' = IF t \in treeRow THEN [checkout EXCEPT ![t] = Nothing] ELSE checkout
    /\ treeRow' = treeRow \ {t}
    /\ UNCHANGED <<fetchHead, branchTree, launch, faults>>

\* Someone removes a directory; git goes on listing it.
LoseCheckout ==
    /\ faults < MaxFaults /\ faults' = faults + 1
    /\ \/ \E t \in Ticket : checkout[t] # Nothing /\ checkout' = [checkout EXCEPT ![t] = Nothing]
                            /\ UNCHANGED branchTree
       \/ \E b \in Branch : branchTree[b] = "there" /\ branchTree' = [branchTree EXCEPT ![b] = "lost"]
                            /\ UNCHANGED checkout
    /\ UNCHANGED <<tickets, sourceOf, treeRow, fetchHead, launch>>

OpenerInit ==
    /\ tickets = [t \in Ticket |-> Nothing] /\ sourceOf = [i \in Item |-> Nothing]
    /\ treeRow = {} /\ checkout = [t \in Ticket |-> Nothing]
    /\ fetchHead = Nothing /\ branchTree = [b \in Branch |-> "none"]
    /\ launch = [c \in Launcher |-> Resting] /\ faults = 0

OpenerNext ==
    \/ \E c \in Launcher :
           \/ BeginLaunch(c) \/ LookForLaunch(c) \/ CreateTicket(c) \/ LinkTicket(c) \/ Fetch(c)
           \/ AddCheckout(c) \/ StoreCheckout(c) \/ AnswerLaunch(c)
           \/ OpenBranch(c) \/ AddBranchTree(c) \/ FailLaunch(c)
    \/ \E t \in Ticket : CleanTicket(t) \/ DeleteTicket(t)
    \/ LoseCheckout

OpenerSpec == OpenerInit /\ [][OpenerNext]_openerVars

-----------------------------------------------------------------------------
\* A checkout recorded for an item was made from what the user meant: the
\* head of that pull request, or the target branch.
\* (git fetch and FETCH_HEAD in create_workspace_from_pull_request)
ContentIsMeant ==
    \A t \in Ticket : tickets[t] # Nothing /\ checkout[t] # Nothing
                          => checkout[t] = Meant(tickets[t].item)

\* However often an item is opened, and whatever failed before, it has one
\* usable workspace: a task with a worktree row and a directory.
\* (workspace_opener_existing_launch_result, upsert_task_external_source)
OneWorkspaceEach ==
    \A i \in Item : Cardinality({t \in Ticket : tickets[t] # Nothing /\ tickets[t].item = i
                                     /\ tickets[t].tree = t /\ checkout[t] # Nothing}) <= 1

WorkspacesKept == ContentIsMeant /\ OneWorkspaceEach

=============================================================================
