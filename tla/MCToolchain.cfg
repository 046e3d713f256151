CONSTANTS
  app = app
  user = user
  Actors = {app, user}
  Dirs = {app}
  MaxConfigures <- MCMaxConfigures
  Options <- MCOptions
SPECIFICATION Spec
INVARIANTS TypeOK ExecutableIsWhole ModeIsKept ErrorsAreFatal
CHECK_DEADLOCK FALSE
