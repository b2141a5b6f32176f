SPECIFICATION DeploymentSpec
CONSTANTS
  a = a
  b = b
  ScriptIds = {a, b}
  Provisioned <- MCProvisioned
  Priorities <- MCPriorities
  ErrorLimit = 5
  Absent = Absent
  Torn = Torn
  Idle = Idle
  MaxScripts = 1
  Programs <- MCPrograms
  NoProgram = NoProgram
  Pending = Pending
INVARIANTS DeploymentOK AckedIsStored ProgramIsDeployed RollbackOnce
