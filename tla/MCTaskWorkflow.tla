-------------------------- MODULE MCTaskWorkflow ----------------------------
(* Small workflow definitions for TaskWorkflow.                            *)
EXTENDS TaskWorkflow, TLC

CONSTANTS c1, c2

Step(deps, auto, loop) == [deps |-> deps, auto |-> auto, loop |-> loop]
Loop(mode, target, max) == [mode |-> mode, target |-> target, max |-> max]

(* A gate in the middle that loops back when it fails.                     *)
OnFailure == << Step({}, TRUE, NoLoop), Step({1}, TRUE, Loop("on_failure", 1, 1)),
                Step({2}, TRUE, NoLoop) >>
(* A step that loops on itself until its agent is content, a step beside   *)
(* it, and one that waits for both.                                        *)
UntilComplete == << Step({}, TRUE, Loop("until_complete", 1, 1)), Step({}, FALSE, NoLoop),
                    Step({1, 2}, TRUE, NoLoop) >>
(* A step dispatched by hand that waits for one that loops on itself.      *)
ByHand == << Step({}, TRUE, Loop("until_complete", 1, 1)), Step({1}, FALSE, NoLoop) >>
(* A step declared before the one it depends on.                           *)
Forward == << Step({2}, TRUE, NoLoop), Step({}, TRUE, NoLoop) >>
(* Two gates whose loops overlap.                                          *)
Nested == << Step({}, TRUE, NoLoop), Step({1}, TRUE, Loop("on_failure", 1, 1)),
             Step({2}, TRUE, Loop("on_failure", 1, 1)) >>

Loops == {OnFailure, UntilComplete}
OnlyUntilComplete == {UntilComplete}
OnlyOnFailure == {OnFailure}
OnlyByHand == {ByHand}
OnlyForward == {Forward}
OnlyNested == {Nested}

AllOps == {"instantiate", "finish", "approve", "reject", "merge", "update", "create", "delete"}
BaseOps == {"instantiate", "finish", "approve", "merge"}
ReviewMoves == {<<"Review", "Done">>, <<"Review", "Failed">>}
TakenBack == ReviewMoves \cup {<<"Done", "Looped">>, <<"Looped", "Planned">>}
IntoReview == ReviewMoves \cup {<<"InProgress", "Review">>}
OnFirst == {{1}}

Symmetric == Permutations({c1, c2})
=============================================================================
