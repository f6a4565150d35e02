CONSTANTS
  null = null  cwd = cwd  lib = lib  main = main  util = util  ext = ext
  X = X  Y = Y  y = y  init = init  f1 = f1  f2 = f2
  None = null
  Names = {main, util, ext, lib, X, Y, y, init, f1}
  Roots = {cwd, lib}
  Paths = {main, util, ext}
  Files = {f1, f2}
  Public = {X, Y}
  InitName = init
  Disks <- MCDisks
  Saves <- MCSaves
  Setups <- MCSetups
  MaxErrors = 1
  MaxClock = 2
  MaxEdits = 1
  MaxRuns = 2
SPECIFICATION Spec
CHECK_DEADLOCK FALSE
INVARIANTS Consistent ImagesTrue FollowsRules
PROPERTY RunEnds
