SPECIFICATION AgentSpec
CONSTANTS
  a1 = a1 t1 = t1 t2 = t2 wasm = wasm env = env bad = bad
  NoTask = NoTask
  Agent = {a1}
  Task = {t1, t2, wasm, env, bad}
  AgentOf <- OneAgent
  ContainerType <- Kinds
  Unlaunchable = {env, bad}
  LoadWasm <- Either
  MaxBoots <- ThreeStarts
INVARIANTS AgentTypeOK HandlesCoverDocker ModulesAreStored
SYMMETRY Alike
CHECK_DEADLOCK FALSE
