SPECIFICATION FairSpec
CONSTANTS
  c1 = c1
  c2 = c2
  Callers = {c1, c2}
  NoOne = NoOne
INVARIANTS TypeOK OneManagerRuns DescribesGathered
PROPERTIES OneAtATime 
