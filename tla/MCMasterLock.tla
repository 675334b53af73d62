----------------------------- MODULE MCMasterLock -----------------------------
(***************************************************************************)
(* Two requests and one reader at a time, in a master with one agent.      *)
(***************************************************************************)
EXTENDS MasterLock

CONSTANTS a1, t1, t2, r1, r2, g1, fw, cpu

OnOne == [t \in Task |-> a1]
Docker == [t \in Task |-> "DOCKER"]
OneFramework == [t \in Task |-> fw]
OneEach == [t \in Task |-> [r \in Resource |-> 1]]
Steady  == {[r \in Resource |-> 2]}
=============================================================================
