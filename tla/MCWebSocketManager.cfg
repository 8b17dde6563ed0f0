SPECIFICATION Spec
CONSTANTS
  FirstStatus = {"Idle", "Connecting", "Connected", "Closed", "other"}
  Messages <- AnyMessage
  MaxMessages = 2
INVARIANTS TypeOK AcksFollow ConnectsAfresh ClosedIsTold
PROPERTIES KeepsTrying AckedWhileOpen
