\* Two loggers, scopes within a scope.
SPECIFICATION Spec
CONSTANTS
  Names = {main, motor}
  Levels = {trace, info, err}
  LOG_LEVEL = info
  None = None
  MaxScopes = 2
INVARIANT ScopeRestoresLevel
