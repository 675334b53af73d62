SPECIFICATION CAgentSpec
CONSTANTS
  a1 = a1 w1 = w1 w2 = w2 w3 = w3 img = img
  NoTask = NoTask
  Agent = {a1}
  Me = a1
  Task = {w1, img}
  AgentOf <- OneAgent
  ContainerType <- Kinds
  NumSlots = 1
  MaxLate = 0
INVARIANT RefusedIsErrored
CHECK_DEADLOCK FALSE
