SPECIFICATION FairSpec
CONSTANTS
  a1 = a1 a2 = a2 t1 = t1 t2 = t2 t3 = t3 wasm = wasm fw = fw cpu = cpu
  NoTask = NoTask
  Agent = {a1}
  Task = {t1, wasm}
  AgentOf <- Placement
  ContainerType <- Kinds
  Framework = {fw}
  FrameworkOf <- OneFramework
  Resource = {cpu}
  Device = {}
  Demand <- OneEach
  Reportable <- Steady
  OfferTimeout = 1
  StaleAfter = 1
  MaxTime = 1
  MaxRounds = 1
  MaxRestarts = 0
  Unlaunchable = {}
  LoadWasm <- Either
  MaxBoots <- OneStart
  MaxGiveUps = 1
  MaxLate = 1
INVARIANT NeverReloaded
PROPERTIES AcceptedIsLaunched KillTakesEffect
CHECK_DEADLOCK FALSE
