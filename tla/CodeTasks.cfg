SPECIFICATION Spec
CONSTANTS
  np = np  npConstrained = npConstrained  old = old  os = os  utils = utils
  main = main  util = util  v1 = v1  v2 = v2  v3 = v3
  NoContainer = NoContainer
  Requirement = {np, npConstrained, old, os, utils}
  Stdlib = {os}
  Local = {utils}
  Malformed = {npConstrained}
  Root <- MCRoot
  Compatible <- MCCompatible
  Projects <- MCProjects
  File = {main, util}
  Content = {v1, v2}
  Original <- MCOriginal
  MaxInstalls = 3
  MaxRuns = 3
  MaxRepairs = 2
  MaxPatchFiles = 3
  MaxContainers = 3
  MaxFaults = 2
INVARIANTS
  PreparedRuntimeIsLive
  EditsAreTransactional
PROPERTIES
  AttemptsSettle
CHECK_DEADLOCK FALSE
