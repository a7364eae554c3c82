SPECIFICATION Spec
CONSTANTS
  Name <- MCName
  Path <- MCPath
  Root <- Agent
  Arg <- MCArg
  Agents <- MCAgents
  Site <- MCSite
  Program <- MCProgram
  Bodies <- MCBodies
  Data <- MCData
  MaxChildren = 2
INVARIANTS
  OutsideStaysUnseen
  RequestsPermitted
  WasmStreamWhole
  NoProcessLeft
PROPERTIES
  OnlyScopeChanges
  PermissionsHold
CHECK_DEADLOCK FALSE
