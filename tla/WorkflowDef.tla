---------------------------- MODULE WorkflowDef -----------------------------
(***************************************************************************)
(* A workflow definition (pnevma-core/src/workflow.rs): a sequence of      *)
(* steps, each with the steps it depends on, whether it dispatches itself, *)
(* and, for a gate, the step its loop goes back to.  Steps are numbered    *)
(* from 1 here and from 0 in the source.                                   *)
(***************************************************************************)
EXTENDS Naturals, Sequences, FiniteSets

(* WorkflowStep and LoopConfig.                                            *)
StepDef == [deps : SUBSET Nat, auto : BOOLEAN,
            loop : [mode : {"none", "on_failure", "until_complete"}, target : Nat, max : Nat]]
NoLoop == [mode |-> "none", target |-> 0, max |-> 0]

(* What is reached from a set of nodes along edges, at any distance.  A    *)
(* path visits a node at most once, so Cardinality(node) rounds suffice.   *)
Reached(node, succ, from) ==
    LET grow[k \in 0 .. Cardinality(node)] ==
            IF k = 0 THEN from
            ELSE grow[k - 1] \cup UNION {succ[n] : n \in grow[k - 1]}
    IN  grow[Cardinality(node)]

(* Some node lies on a cycle.                                              *)
Cyclic(node, succ) == \E n \in node : n \in Reached(node, succ, succ[n])

(* WorkflowDef::validate, as far as it is about the order of the steps.    *)
LoopAllowed(lp, i) ==
    \/ lp.mode = "none"
    \/ /\ lp.target \in 1 .. IF lp.mode = "until_complete" THEN i ELSE i - 1
       /\ lp.max \in 1 .. 20

Valid(steps) ==
    /\ steps # <<>>
    /\ \A i \in DOMAIN steps :
          /\ steps[i].deps \subseteq DOMAIN steps \ {i}
          /\ LoopAllowed(steps[i].loop, i)
    /\ ~Cyclic(DOMAIN steps, [i \in DOMAIN steps |-> steps[i].deps])
=============================================================================
