------------------------------ MODULE MCProject ------------------------------
(* The parts an open project is made of besides its tasks: its services    *)
(* and the application that drives them, the processes of its agents, and  *)
(* what commands do to worktrees, secrets and GitHub's accounts.  As in    *)
(* MCServices a behaviour picks one part and lets it alone take steps.     *)
EXTENDS TLC, WorktreeLease, FfiBridge, ProjectLifecycle, AgentRun, CodexServer,
        GitHubAuth, ProjectSecrets, WorkspaceOpener

CONSTANTS p1, p2, r1, r2, b1, c1, d1, e1, g1, g2, i1, k1, l1, n1, o1, v1, w1, w2, z1

VARIABLE part

\* One agent that prints a line, and one that is silent.
FirstPrints == [a \in Agent |-> IF a = g1 THEN 1 ELSE 0]

\* Two app-servers, one of which is used and reports something.
FirstIsUsed == {<<w1, "tool">>, <<w1, "stop">>}
FirstReports == [s \in Server |-> IF s = w1 THEN 1 ELSE 0]

\* Swapping either pair everywhere changes nothing.
Symmetric == Permutations({p1, p2}) \cup Permutations({r1, r2})

ProjectInit ==
    /\ part \in {"tree", "ffi", "life", "agent", "codex", "github", "secrets", "opener"}
    /\ TreeInit /\ FfiInit /\ LifeInit /\ AgentInit /\ ServerInit /\ AccountsInit
    /\ SecretsInit /\ OpenerInit

ProjectNext ==
    /\ UNCHANGED part
    /\ IF part = "tree" THEN TreeNext ELSE UNCHANGED treeVars
    /\ IF part = "ffi" THEN FfiNext ELSE UNCHANGED ffiVars
    /\ IF part = "life" THEN LifeNext ELSE UNCHANGED lifeVars
    /\ IF part = "agent" THEN AgentNext ELSE UNCHANGED agentVars
    /\ IF part = "codex" THEN ServerNext ELSE UNCHANGED serverVars
    /\ IF part = "github" THEN AccountsNext ELSE UNCHANGED accountVars
    /\ IF part = "secrets" THEN SecretsNext ELSE UNCHANGED secretVars
    /\ IF part = "opener" THEN OpenerNext ELSE UNCHANGED openerVars

ProjectSpec ==
    ProjectInit /\ [][ProjectNext]_<<part, treeVars, ffiVars, lifeVars, agentVars,
                                     serverVars, accountVars, secretVars, openerVars>>

-----------------------------------------------------------------------------
\* AgentRun and CodexServer: a run that is complete has printed its last
\* line and was heard, interrupt and stop reach its process, and a call to
\* an app-server has the answer to itself or none.
\* (send, run_event_loop, rpc_call, stop)
AgentsAccounted == RunsAccounted /\ LinksKept
=============================================================================
