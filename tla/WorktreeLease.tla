---------------------------- MODULE WorktreeLease ----------------------------
(***************************************************************************)
(* The worktree of a task: its directory, what git knows of it, its branch,*)
(* the in-memory lease that keeps two creations apart (pnevma-git,         *)
(* service.rs), and the worktrees row by which it is found again           *)
(* (runner.rs, overview.rs, commands/mod.rs).                              *)
(*                                                                         *)
(* A call is one creation or one clean-up; it is cut where the code awaits *)
(* git, the file system, the lease map or the database.  Git's answers are *)
(* those of `git branch`, `worktree add | remove | prune`, `update-ref`.   *)
(***************************************************************************)
EXTENDS Naturals, FiniteSets

CONSTANTS
    Task,         \* tasks that have a worktree of their own
    Slug,         \* slugs of the titles a task may have: they name its branch
    Creator,      \* calls of create_worktree_from_start_point and its callers
    Cleaner,      \* calls of cleanup_task_worktree
    Eraser,       \* calls of cleanup_task_worktree_and_branch
    Failing,      \* what may fail: "root", "git", "db"
    Tidying,      \* whether the user may delete a worktree's directory
    MaxRestarts,  \* bound: how often the process is started again
    Nil           \* no slug, no task

VARIABLES
    leases,    \* GitService.leases: none, a placeholder or a lease
    disk,      \* the branch checked out in the task's directory
    known,     \* the branch of the worktree git has registered at that path
    branches,  \* slugs of the branches pnevma/<task>/<slug>
    rows,      \* slugs of the worktrees rows of the task
    call,      \* where each call stands
    cut,       \* tasks with a call that ended half-way
    raced,     \* tasks with a creation and a clean-up under way at once
    restarts

files == <<disk, known, branches>>
treeVars == <<leases, files, rows, call, cut, raced, restarts>>

Worker == Creator \cup Cleaner \cup Eraser
Cleaning == Cleaner \cup Eraser
Ended == {"idle", "done", "refused"}
Stands(c, stage) == call[c].stage = stage
Advance(c, stage) == call' = [call EXCEPT ![c].stage = stage]
T(c) == call[c].task
S(c) == call[c].slug
On(t) == {c \in Worker : call[c].task = t /\ call[c].stage \notin Ended}

-----------------------------------------------------------------------------
(* Creation                                                                *)

(* The placeholder goes in under the lock, before any input or output.     *)
Reserve(c, t, s) ==
    /\ c \in Creator /\ Stands(c, "idle")
    /\ raced' = IF On(t) \cap Cleaning = {} THEN raced ELSE raced \cup {t}
    /\ IF leases[t] = "none"
       THEN /\ leases' = [leases EXCEPT ![t] = "placeholder"]
            /\ call' = [call EXCEPT ![c] = [@ EXCEPT !.task = t, !.slug = s, !.stage = "reserved"]]
       ELSE /\ call' = [call EXCEPT ![c] = [@ EXCEPT !.task = t, !.slug = s, !.stage = "refused"]]
            /\ UNCHANGED leases
    /\ UNCHANGED <<files, rows, cut, restarts>>

MakeRoot(c) ==
    /\ Stands(c, "reserved") /\ Advance(c, "rooted")
    /\ UNCHANGED <<leases, files, rows, cut, raced, restarts>>

(* The `?` of create_dir_all leaves the placeholder where it is.           *)
RootFails(c) ==
    /\ "root" \in Failing /\ Stands(c, "reserved") /\ Advance(c, "refused")
    /\ cut' = cut \cup {T(c)}
    /\ UNCHANGED <<leases, files, rows, raced, restarts>>

AddBranch(c) ==
    /\ Stands(c, "rooted") /\ S(c) \notin branches[T(c)]
    /\ branches' = [branches EXCEPT ![T(c)] = @ \cup {S(c)}]
    /\ Advance(c, "branched")
    /\ UNCHANGED <<leases, disk, known, rows, cut, raced, restarts>>

(* git worktree add wants a free path, also in its own records, and the    *)
(* branch it is to check out.                                              *)
Addable(c) == disk[T(c)] = Nil /\ known[T(c)] = Nil /\ S(c) \in branches[T(c)]

AddTree(c) ==
    /\ Stands(c, "branched") /\ Addable(c)
    /\ disk' = [disk EXCEPT ![T(c)] = S(c)] /\ known' = [known EXCEPT ![T(c)] = S(c)]
    /\ Advance(c, "added")
    /\ UNCHANGED <<leases, branches, rows, cut, raced, restarts>>

(* A git command fails, or the directory is gone before it is looked at.   *)
GiveUp(c) ==
    /\ \/ Stands(c, "rooted") /\ S(c) \in branches[T(c)]
       \/ Stands(c, "branched") /\ ~Addable(c)
       \/ Stands(c, "rooted") /\ "git" \in Failing
       \/ Stands(c, "branched") /\ "git" \in Failing
       \/ Stands(c, "added") /\ disk[T(c)] = Nil
    /\ Advance(c, "undoing")
    /\ UNCHANGED <<leases, files, rows, cut, raced, restarts>>

\* slip: the error is returned at once
UndoNothing(c) ==
    /\ Stands(c, "undoing") /\ Advance(c, "refused")
    /\ UNCHANGED <<leases, files, rows, cut, raced, restarts>>

Undo(c) ==
    /\ Stands(c, "undoing") /\ Advance(c, "refused")
    /\ leases' = [leases EXCEPT ![T(c)] = "none"]
    /\ UNCHANGED <<files, rows, cut, raced, restarts>>

Hold(c) ==
    /\ Stands(c, "added") /\ disk[T(c)] # Nil
    /\ leases' = [leases EXCEPT ![T(c)] = "lease"]
    /\ Advance(c, "held")
    /\ UNCHANGED <<files, rows, cut, raced, restarts>>

(* The caller resolves the path once more and writes the row.              *)
StoreRow(c) ==
    /\ Stands(c, "held") /\ disk[T(c)] # Nil
    /\ rows' = [rows EXCEPT ![T(c)] = @ \cup {S(c)}]
    /\ Advance(c, "done")
    /\ UNCHANGED <<leases, files, cut, raced, restarts>>

RowFails(c) ==
    /\ Stands(c, "held") /\ (disk[T(c)] = Nil \/ "db" \in Failing)
    /\ Advance(c, "refused") /\ cut' = cut \cup {T(c)}
    /\ UNCHANGED <<leases, files, rows, raced, restarts>>

-----------------------------------------------------------------------------
(* Clean-up                                                                *)

(* Without a row there is nothing to clean; hooks run after it is found.   *)
Find(c, t) ==
    /\ c \in Cleaning /\ Stands(c, "idle") /\ rows[t] # {}
    /\ raced' = IF On(t) \cap Creator = {} THEN raced ELSE raced \cup {t}
    /\ \E s \in rows[t] :
          call' = [call EXCEPT ![c] = [@ EXCEPT !.task = t, !.slug = s, !.stage = "found"]]
    /\ UNCHANGED <<leases, files, rows, cut, restarts>>

Forget(c) ==
    /\ Stands(c, "found") /\ Advance(c, "forgotten")
    /\ leases' = [leases EXCEPT ![T(c)] = "none"]
    /\ UNCHANGED <<files, rows, cut, raced, restarts>>

Err(c, stage) == call' = [call EXCEPT ![c].stage = stage, ![c].err = TRUE]

(* A directory that is gone cannot be canonicalized: that is the error,    *)
(* and neither git worktree remove nor prune are tried.                    *)
PathGone(c) ==
    /\ Stands(c, "forgotten") /\ disk[T(c)] = Nil
    /\ Err(c, "checking")
    /\ UNCHANGED <<leases, files, rows, cut, raced, restarts>>

\* slip: a removal that failed is taken for one that was not needed
RemoveFailsUnseen(c) ==
    /\ Stands(c, "forgotten") /\ disk[T(c)] # Nil
    /\ known[T(c)] = Nil \/ "git" \in Failing
    /\ Advance(c, "checking")
    /\ UNCHANGED <<leases, files, rows, cut, raced, restarts>>

(* git worktree remove fails on a directory it does not know.              *)
RemoveFails(c) ==
    /\ Stands(c, "forgotten") /\ disk[T(c)] # Nil
    /\ known[T(c)] = Nil \/ "git" \in Failing
    /\ Err(c, "checking")
    /\ UNCHANGED <<leases, files, rows, cut, raced, restarts>>

\* slip: only the directory is removed
RemoveDirectory(c) ==
    /\ Stands(c, "forgotten") /\ disk[T(c)] # Nil /\ known[T(c)] # Nil
    /\ disk' = [disk EXCEPT ![T(c)] = Nil]
    /\ Advance(c, IF c \in Eraser THEN "removed" ELSE "checking")
    /\ UNCHANGED <<leases, known, branches, rows, cut, raced, restarts>>

RemoveTree(c) ==
    /\ Stands(c, "forgotten") /\ disk[T(c)] # Nil /\ known[T(c)] # Nil
    /\ disk' = [disk EXCEPT ![T(c)] = Nil] /\ known' = [known EXCEPT ![T(c)] = Nil]
    /\ Advance(c, IF c \in Eraser THEN "removed" ELSE "checking")
    /\ UNCHANGED <<leases, branches, rows, cut, raced, restarts>>

(* git branch -D refuses a branch that is checked out; update-ref does not.*)
EraseBranch(c) ==
    /\ Stands(c, "removed") /\ Advance(c, "checking")
    /\ branches' = [branches EXCEPT ![T(c)] = @ \ {S(c)}]
    /\ UNCHANGED <<leases, disk, known, rows, cut, raced, restarts>>

EraseFails(c) ==
    /\ Stands(c, "removed") /\ "git" \in Failing
    /\ Err(c, "checking")
    /\ UNCHANGED <<leases, files, rows, cut, raced, restarts>>

(* An eraser prunes worktrees whose directory is gone, and sees to it      *)
(* itself that the branch is.                                              *)
Recheck(c) ==
    /\ Stands(c, "checking")
    /\ IF c \in Eraser
       THEN /\ known' = [t \in Task |-> IF disk[t] = Nil THEN Nil ELSE known[t]]
            /\ branches' = [branches EXCEPT ![T(c)] = @ \ {S(c)}]
       ELSE UNCHANGED <<known, branches>>
    /\ Advance(c, "checked")
    /\ UNCHANGED <<leases, disk, rows, cut, raced, restarts>>

RecheckFails(c) ==
    /\ c \in Eraser /\ "git" \in Failing /\ Stands(c, "checking")
    /\ Err(c, "checked")
    /\ UNCHANGED <<leases, files, rows, cut, raced, restarts>>

(* All rows of the task go, whatever became of its files.                  *)
DropRows(c) ==
    /\ Stands(c, "checked") /\ Advance(c, "done")
    /\ rows' = [rows EXCEPT ![T(c)] = {}]
    /\ cut' = IF disk[T(c)] # Nil /\ call[c].err THEN cut \cup {T(c)} ELSE cut
    /\ UNCHANGED <<leases, files, raced, restarts>>

-----------------------------------------------------------------------------
Tidy(t) ==
    /\ Tidying /\ disk[t] # Nil
    /\ disk' = [disk EXCEPT ![t] = Nil]
    /\ UNCHANGED <<leases, known, branches, rows, call, cut, raced, restarts>>

NoWork == [stage |-> "idle", task |-> Nil, slug |-> Nil, err |-> FALSE]

(* The process ends and a project is opened again: GitService::new has no  *)
(* leases.                                                                 *)
Restart ==
    /\ restarts < MaxRestarts /\ restarts' = restarts + 1
    /\ leases' = [t \in Task |-> "none"]
    /\ cut' = cut \cup {T(c) : c \in {d \in Worker : call[d].stage \notin Ended}}
    /\ call' = [c \in Worker |-> IF call[c].stage \in Ended THEN call[c] ELSE [call[c] EXCEPT !.stage = "refused"]]
    /\ UNCHANGED <<files, rows, raced>>

TreeInit ==
    /\ leases = [t \in Task |-> "none"]
    /\ disk = [t \in Task |-> Nil] /\ known = [t \in Task |-> Nil]
    /\ branches = [t \in Task |-> {}] /\ rows = [t \in Task |-> {}]
    /\ call = [c \in Worker |-> NoWork]
    /\ cut = {} /\ raced = {} /\ restarts = 0

Create(c) ==
    \/ \E t \in Task, s \in Slug : Reserve(c, t, s)
    \/ MakeRoot(c) \/ RootFails(c) \/ AddBranch(c) \/ AddTree(c) \/ GiveUp(c) \/ Undo(c)
    \/ Hold(c) \/ StoreRow(c) \/ RowFails(c)

CleanUp(c) ==
    \/ \E t \in Task : Find(c, t)
    \/ Forget(c) \/ PathGone(c) \/ RemoveFails(c) \/ RemoveTree(c)
    \/ EraseBranch(c) \/ EraseFails(c) \/ Recheck(c) \/ RecheckFails(c) \/ DropRows(c)

TreeNext ==
    \/ \E c \in Worker : Create(c) \/ CleanUp(c)
    \/ \E t \in Task : Tidy(t)
    \/ Restart

TreeSpec == TreeInit /\ [][TreeNext]_treeVars

-----------------------------------------------------------------------------
TreeTypeOK ==
    /\ leases \in [Task -> {"none", "placeholder", "lease"}]
    /\ disk \in [Task -> Slug \cup {Nil}] /\ known \in [Task -> Slug \cup {Nil}]
    /\ branches \in [Task -> SUBSET Slug] /\ rows \in [Task -> SUBSET Slug]
    /\ \A c \in Worker : call[c].stage # "idle" => T(c) \in Task /\ S(c) \in Slug

(* A placeholder is somebody's, so that a task whose creation failed can be*)
(* tried again: every error after the reservation gives it back, except    *)
(* the first, that of create_dir_all.                                      *)
PlaceholderIsSomeones ==
    \A t \in Task \ cut :
        leases[t] = "placeholder" => On(t) \cap Creator # {}

(* A directory nobody works on has a row by which it is found and removed  *)
(* later, unless a call on the task was cut off, git would not remove it,  *)
(* or a creation and a clean-up of the task were under way at once.        *)
NoStrayTree ==
    \A t \in Task \ (cut \cup raced) : On(t) = {} /\ disk[t] # Nil => rows[t] # {}

(* Leases, directories and rows are found again when nobody works on them. *)
TreesAccounted == PlaceholderIsSomeones /\ NoStrayTree

(* A clean-up that had the task to itself and reports no error has left    *)
(* neither directory nor registration, and an eraser no branch.            *)
CleanMeansClean ==
    [][\A c \in Cleaning :
          LET t == T(c)
          IN  DropRows(c) /\ t \notin raced /\ ~call[c].err =>
                  disk[t] = Nil /\ known[t] = Nil /\ (c \in Eraser => S(c) \notin branches[t])]_treeVars

(* No lease, row, directory or branch is left that nobody accounts for, and*)
(* a clean-up that says so has cleaned                                     *)
(* (create_worktree_from_start_point, cleanup_task_worktree_inner).        *)
WorktreesKept == []TreesAccounted /\ CleanMeansClean

(* What the code does not keep: the same when they race.                   *)
NoStrayTreeEver ==
    \A t \in Task \ cut : On(t) = {} /\ disk[t] # Nil => rows[t] # {}

(* "The path may already be gone after a manual cleanup or failed run"     *)
(* (service.rs:312): when a clean-up is over and no command of git's       *)
(* failed, git has no worktree of the task any more.                       *)
GoneIsCleaned ==
    \A t \in Task :
        On(t) = {} /\ (\E c \in Cleaning : Stands(c, "done") /\ T(c) = t) => known[t] = Nil
=============================================================================
