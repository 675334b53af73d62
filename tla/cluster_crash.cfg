SPECIFICATION Spec
CONSTANTS
  a1 = a1 a2 = a2 t1 = t1 t2 = t2 t3 = t3 wasm = wasm fw = fw cpu = cpu
  NoTask = NoTask
  Agent = {a1}
  Task = {t1, t2}
  AgentOf <- Placement
  ContainerType <- Kinds
  Framework = {fw}
  FrameworkOf <- OneFramework
  Resource = {cpu}
  Device = {}
  Demand <- OneEach
  Reportable <- Steady
  OfferTimeout = 1
  StaleAfter = 1
  MaxTime = 0
  MaxRounds = 1
  MaxRestarts = 1
  Unlaunchable = {}
  LoadWasm <- Never
  MaxBoots <- TwoStarts
  MaxGiveUps = 1
  MaxLate = 1
INVARIANTS TypeOK OnlyRequestedKills OutcomesHappened
PROPERTY MasterSpec
SYMMETRY Alike
CHECK_DEADLOCK FALSE
