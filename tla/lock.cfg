SPECIFICATION FairLockSpec
CONSTANTS
  a1 = a1 t1 = t1 t2 = t2 r1 = r1 r2 = r2 g1 = g1 fw = fw cpu = cpu
  NoTask = NoTask Nobody = Nobody NoAgent = NoAgent
  Agent = {a1}
  Task = {t1}
  AgentOf <- OnOne
  ContainerType <- Docker
  Framework = {fw}
  FrameworkOf <- OneFramework
  Resource = {cpu}
  Device = {}
  Demand <- OneEach
  Reportable <- Steady
  OfferTimeout = 0
  StaleAfter = 0
  MaxTime = 1
  MaxRounds = 1
  MaxRestarts = 1
  Slot = {r1, r2}
  Reader = {g1}
  TextTimeout = {TRUE, FALSE}
INVARIANTS LockTypeOK ListedWasSettled
PROPERTIES HandlersAreAtomic LockGoesOn
CHECK_DEADLOCK FALSE
