SPECIFICATION Spec
CONSTANTS
  t1 = t1
  t2 = t2
  NoTask = NoTask
  Tasks = {t1}
  ResourceSize = 3
  Opt <- LimitedOpts
  Commands = {}
  MaxCommands = 0
  PayloadType <- AsBuilt
  CurlFaults = {}
PROPERTIES FailsOnlyWithCurl
