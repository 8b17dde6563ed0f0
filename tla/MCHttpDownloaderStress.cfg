SPECIFICATION Spec
CONSTANTS
  t1 = t1
  t2 = t2
  NoTask = NoTask
  Tasks = {t1}
  ResourceSize = 3
  Opt <- LimitedOpts
  Commands = {"CancelTask", "PauseTask", "ResumeTask"}
  MaxCommands = 2
  PayloadType <- AsExpected
  CurlFaults = {"add_handle", "perform", "poll"}
INVARIANT OnlyPausedLeaveSilently
CHECK_DEADLOCK FALSE
