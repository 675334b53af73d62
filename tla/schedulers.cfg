SPECIFICATION SchedulersSpec
CONSTANTS
  a1 = a1 a2 = a2 cpu = cpu cam = cam s1 = s1 s2 = s2
  NoTask = NoTask
  Runs = 1
  Agent = {a1, a2}
  Task <- AllTasks
  AgentOf <- Place
  ContainerType <- Docker
  Programs = {"camera", "sensor", "profiler", "ddflow", "map-reduce", "file"}
  Framework = {"camera", "sensor", "profiler", "ddflow", "map-reduce", "file"}
  FrameworkOf <- Owner
  Resource = {cpu, cam}
  Device = {cam}
  Demand <- Needs
  Reportable <- Has
  OfferTimeout = 1
  StaleAfter = 1
  MaxTime = 2
  MaxRounds = 2
  MaxRestarts = 0
  Scheduler = {s1, s2}
  NameOf <- Name
  Want <- Wants
  Suits <- Fits
  Check <- Checks
  Ask <- Asking
  Casts <- Pairs
  Spoken = {"RUNNING", "COMPLETED"}
INVARIANTS SchedulersTypeOK FoundIsRedeemable MatchedAreKilled FileIsTrue
SYMMETRY Swap
CHECK_DEADLOCK FALSE
