CONSTANTS
  app = app
  user = user
  Actors = {app, user}
  Dirs = {app}
  MaxConfigures <- MCMaxConfigures
  Options <- MCOptions
SPECIFICATION Spec
INVARIANTS AdviceHelps
CHECK_DEADLOCK FALSE
