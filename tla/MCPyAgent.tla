------------------------------ MODULE MCPyAgent ------------------------------
(***************************************************************************)
(* PyAgent against any master: one agent, whatever order of runs, re-sends *)
(* and kills its pongs ask for.                                            *)
(***************************************************************************)
EXTENDS PyAgent, TLC

CONSTANTS a1, t1, t2, wasm, env, bad

OneAgent == [t \in Task |-> a1]
Kinds    == [t \in Task |-> IF t \in {wasm, env} THEN "WASM" ELSE "DOCKER"]
ThreeStarts == [a \in Agent |-> 3]
Either   == [a \in Agent |-> BOOLEAN]
Alike    == Permutations({t1, t2})
=============================================================================
