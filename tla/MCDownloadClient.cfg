SPECIFICATION FairClientSpec
CONSTANTS
  t1 = t1
  t2 = t2
  NoTask = NoTask
  Tasks = {t1, t2}
  ResourceSize = 2
  Opt <- PlainOpts
  Commands = {"CancelTask"}
  MaxCommands = 1
  PayloadType <- AsExpected
  CurlFaults = {}
  Unwritable = {t1}
INVARIANTS SuccessIsWhole ChainIsQueue ReaderIsAlone
PROPERTIES EveryUrlReported EveryTaskEnds
