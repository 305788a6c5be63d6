\* The scope discipline over all programs with one function and one variable.
CONSTANTS
  Name <- MCName
  Func <- MCFunc
  Data = {d1}
  MaxScopes = 5
SPECIFICATION Spec
INVARIANTS
  TypeOK
  ScopeChain
  LeaksAccumulate
  OnlyReturnsLeak
  ResolvesToNewest
PROPERTIES
  ExitRestoresUnlessReturned
  OlderScopesKeepTheirNames
\* A run of the interpreter ends: by an error, a crash or a stray return.
CHECK_DEADLOCK FALSE
