SPECIFICATION Spec
CONSTANTS
  Client = {c1, c2}
  Handle = {h1, h2}
  Null = Null
  Choice = {"TIMEOUT_MS"}
  Size = {0, 1}
  Char = {":", " ", "CR", "LF", "a"}
  Line <- Lines
  Colon = ":"
  Space = " "
  LineEnd = {"CR", "LF"}
  MaxCalls = 2
INVARIANTS OwnHandle TransferIsOfCall FieldsAsSent
PROPERTY AnnouncesItsBody
SYMMETRY Symmetry
