SPECIFICATION MasterSpec
CONSTANTS
  a1 = a1 t1 = t1 t2 = t2 fw = fw cpu = cpu cam = cam
  NoTask = NoTask
  Agent = {a1}
  Task = {t1, t2}
  AgentOf <- OneAgent
  ContainerType <- AllDocker
  Framework = {fw}
  FrameworkOf <- OneFramework
  Resource = {cpu, cam}
  Device = {cam}
  Demand <- OneEach
  Reportable <- Single
  OfferTimeout = 1
  StaleAfter = 1
  MaxTime = 0
  MaxRounds = 1
  MaxRestarts = 0
INVARIANT ResourcesPartitioned
CHECK_DEADLOCK FALSE
