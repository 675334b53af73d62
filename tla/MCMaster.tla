------------------------------ MODULE MCMaster ------------------------------
(***************************************************************************)
(* Small instances of Master: two tasks that differ in their identity only *)
(* on one agent, offers that expire, kills, any reports and a restart.     *)
(***************************************************************************)
EXTENDS Master, TLC

CONSTANTS a1, t1, t2, fw, cpu, cam

OneAgent  == [t \in Task |-> a1]
AllDocker == [t \in Task |-> "DOCKER"]
OneFramework == [t \in Task |-> fw]

\* Each task wants one unit of cpu and the camera.
OneEach == [t \in Task |-> [r \in Resource |-> 1]]
Steady  == {[r \in Resource |-> IF r = cpu THEN 2 ELSE 1]}
Single  == {[r \in Resource |-> 1]}
\* psutil measures what is free: the cpu an agent reports varies.
Varying == {[r \in Resource |-> IF r = cpu THEN n ELSE 1] : n \in 1..2}

Alike == Permutations({t1, t2})
=============================================================================
