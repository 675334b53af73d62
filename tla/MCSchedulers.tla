----------------------------- MODULE MCSchedulers -----------------------------
(***************************************************************************)
(* Two runs of scheduler programs, on an agent with a domain, which may    *)
(* host servers, and one with a device.  A task is what its request says   *)
(* and a number: <<name, framework, agent, cpu, cam, number>>; ids are the *)
(* requests the programs can make.                                         *)
(***************************************************************************)
EXTENDS Schedulers, TLC

CONSTANTS a1, a2, s1, s2, cpu, cam, Runs

Searches(p) ==
  CASE p = "map-reduce" -> {"server", "map"}
    [] p = "profiler"   -> {"server", "profile"}
    [] p = "ddflow"     -> {"server", "device"}
    [] p = "sensor"     -> {"server", "map"}
    [] OTHER            -> {"server", "classify", "camera"}
Hosts(v) == CASE v \in {"server", "classify"} -> {a1}
              [] v \in {"camera", "map"}      -> {a2}
              [] OTHER                        -> Agent
Requestable ==
  {<<x[2], x[1], x[3], x[4], IF x[2] \in {"camera", "map"} THEN 1 ELSE 0, x[5]>> :
     x \in {y \in Programs \X Search \X Agent \X (1..2) \X (1..Runs) :
              y[2] \in Searches(y[1]) /\ y[3] \in Hosts(y[2])}}
Amount(n, m) == [r \in Resource |-> IF r = cpu THEN n ELSE m]
Placed    == [t \in Requestable |-> t[3]]
InDocker  == [t \in Requestable |-> "DOCKER"]
OwnedBy   == [t \in Requestable |-> t[2]]
NamedBy   == [t \in Requestable |-> t[1]]
Needed    == [t \in Requestable |-> Amount(t[4], t[5])]
Wanted    == [v \in Search |->
                CASE v \in {"server", "profile"} -> Amount(1, 0)
                  [] v \in {"classify", "device"} -> Amount(2, 0)
                  [] v \in {"camera", "map"} -> Amount(1, 1)]
Checked   == [v \in Search |-> IF v = "camera" THEN Amount(0, 0) ELSE Amount(1, 0)]
AskedFor  == [v \in Search |-> CASE v = "camera" -> Amount(1, 1)
                                  [] v = "classify" -> Amount(2, 0)
                                  [] OTHER -> Amount(1, 0)]
Suitable  == [v \in Search |-> Hosts(v)]
\* Two runs of one program.
Twice     == {[s \in Scheduler |-> p] : p \in Programs}

\* TLC evaluates what a .cfg names anew at each use, but the above only once.
AllTasks == Requestable
Place  == Placed
Docker == InDocker
Owner  == OwnedBy
Name   == NamedBy
Needs  == Needed
Wants  == Wanted
Checks == Checked
Asking == AskedFor
Fits   == Suitable
Pairs  == Twice
Has    == {Amount(2, 1)}
Swap   == Permutations(Scheduler)
=============================================================================
