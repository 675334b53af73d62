SPECIFICATION MasterSpec
CONSTANTS
  a1 = a1 t1 = t1 t2 = t2 fw = fw cpu = cpu cam = cam
  NoTask = NoTask
  Agent = {a1}
  Task = {t1, t2}
  AgentOf <- OneAgent
  ContainerType <- AllDocker
  Framework = {fw}
  FrameworkOf <- OneFramework
  Resource = {cpu, cam}
  Device = {cam}
  Demand <- OneEach
  Reportable <- Varying
  OfferTimeout = 1
  StaleAfter = 1
  MaxTime = 2
  MaxRounds = 2
  MaxRestarts = 1
INVARIANTS MasterTypeOK NoOvertaking KillingIsOnRecord PongsFitPings
PROPERTIES OffersAreBacked NeverHandedOutAgain
SYMMETRY Alike
CHECK_DEADLOCK FALSE
