SPECIFICATION CAgentSpec
CONSTANTS
  a1 = a1 w1 = w1 w2 = w2 w3 = w3 img = img
  NoTask = NoTask
  Agent = {a1}
  Me = a1
  Task = {w1, w2, w3, img}
  AgentOf <- OneAgent
  ContainerType <- Kinds
  NumSlots = 2
  MaxLate = 1
INVARIANTS CAgentTypeOK SlotKeepsItsTask RunningIsReported OnlyStraysDouble
PROPERTY KillAbortsItsTask
SYMMETRY Alike
CHECK_DEADLOCK FALSE
