---------------------------- MODULE PermitBudget ----------------------------
(***************************************************************************)
(* What DispatchPool promises its callers, with nothing of how it keeps    *)
(* the promise: a slot is held by a known owner, at most MaxActive slots   *)
(* are held at once, and a slot comes back at most once.                       *)
(***************************************************************************)
EXTENDS Naturals, FiniteSets

CONSTANTS Caller,     \* the dispatch attempts that may hold a slot
          MaxActive   \* agents.max_concurrent of pnevma.toml

VARIABLE slots        \* the callers that hold a slot

Init == slots = {}

Take(c) ==
    /\ c \notin slots
    /\ Cardinality(slots) < MaxActive
    /\ slots' = slots \cup {c}

GiveBack(c) ==
    /\ c \in slots
    /\ slots' = slots \ {c}

(* Opening the project builds a new pool; no owner survives it.            *)
Renew == slots' = {}

Next == Renew \/ \E c \in Caller : Take(c) \/ GiveBack(c)

Spec == Init /\ [][Next]_slots
=============================================================================
