------------------------------ MODULE MCCluster ------------------------------
(***************************************************************************)
(* Small deployments: docker tasks t1 and t2 on a1, t3 on a2, and a WASM   *)
(* task wherever one is placed by mistake.  One resource, enough for all.  *)
(***************************************************************************)
EXTENDS Cluster, TLC

CONSTANTS a1, a2, t1, t2, t3, wasm, fw, cpu

Placement == [t \in Task |-> IF t = t3 THEN a2 ELSE a1]
Kinds     == [t \in Task |-> IF t = wasm THEN "WASM" ELSE "DOCKER"]
OneFramework == [t \in Task |-> fw]
OneEach == [t \in Task |-> [r \in Resource |-> 1]]
Steady  == {[r \in Resource |-> 2]}
Never     == [a \in Agent |-> {FALSE}]
Either    == [a \in Agent |-> BOOLEAN]
OneStart  == [a \in Agent |-> 1]
TwoStarts == [a \in Agent |-> IF a = a1 THEN 2 ELSE 1]
Alike   == Permutations({t1, t2})
=============================================================================
