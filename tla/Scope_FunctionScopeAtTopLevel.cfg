CONSTANTS
  Name <- MCName
  Func <- MCFunc
  Data = {d1}
  MaxScopes = 6
SPECIFICATION Spec
PROPERTY FunctionScopeAtTopLevel
CHECK_DEADLOCK FALSE
