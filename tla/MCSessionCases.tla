---------------------------- MODULE MCSessionCases ---------------------------
(* A restored session in two situations.                                   *)
(*   caught  reattached twice and killed, and its clients may be lost      *)
(*   fed     reattached, fed and killed by three calls, nothing is lost    *)
EXTENDS MCSessionSupervisor

VARIABLE part

Fed == INSTANCE SessionSupervisor WITH Ops <- Feeding, Faults <- {}

caseVars == <<part, vars>>

CasesInit == part \in {"caught", "fed"} /\ Init

CasesNext ==
    \/ part = "caught" /\ Next /\ UNCHANGED part
    \/ part = "fed" /\ Fed!Next /\ UNCHANGED part

(* What is fair does not depend on the situation.                          *)
CasesSpec == CasesInit /\ [][CasesNext]_caseVars /\ Fed!Fairness

(* SessionSupervisor's liveness, each in its situation.                    *)
StuckShows == part = "caught" => StuckIsShown
KillIsFinal == part = "fed" => Fed!KilledEnds
=============================================================================
