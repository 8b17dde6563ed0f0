SPECIFICATION LoginSpec
CONSTANTS
  peerId = peerId
  token = token
  Key = {peerId, token}
  MaxIssue = 2
  Value = {0, 1, 2}
  Empty = 0
  Absent = Absent
INVARIANT SavedIsLoaded
