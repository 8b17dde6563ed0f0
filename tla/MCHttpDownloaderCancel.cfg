SPECIFICATION Spec
CONSTANTS
  t1 = t1
  t2 = t2
  NoTask = NoTask
  Tasks = {t1, t2}
  ResourceSize = 2
  Opt <- PlainOpts
  Commands = {"CancelTask"}
  MaxCommands = 2
  PayloadType <- AsExpected
  CurlFaults = {"perform", "poll"}
INVARIANTS TypeOK NoOrphanTransfer EndIsNotified NeverAborts NoLostWakeup
PROPERTIES KeepsContract FailsOnlyWithCurl
