SPECIFICATION Spec
CONSTANTS
  t1 = t1
  t2 = t2
  NoTask = NoTask
  Tasks = {t1}
  ResourceSize = 2
  Opt <- OneOpt
  Commands = {"CancelTask"}
  MaxCommands = 1
  PayloadType <- AsBuilt
  CurlFaults = {}
INVARIANTS NeverAborts
