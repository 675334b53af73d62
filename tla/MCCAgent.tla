------------------------------ MODULE MCCAgent ------------------------------
(***************************************************************************)
(* A device with two slots and three WASM tasks, so that slots are reused, *)
(* and a docker task, which it refuses.                                    *)
(***************************************************************************)
EXTENDS CAgent, TLC

CONSTANTS a1, w1, w2, w3, img

OneAgent == [t \in Task |-> a1]
Kinds    == [t \in Task |-> IF t = img THEN "DOCKER" ELSE "WASM"]
Alike    == Permutations({w1, w2, w3})
=============================================================================
