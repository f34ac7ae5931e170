SPECIFICATION MCSpec
CONSTANTS
  c1 = c1
  c2 = c2
  m1 = m1
  Copies = {c1, c2}
  MsgOf <- OneMessage
  HasBcc = {c2}
  Flags = {"plain", "seen"}
  MaxChanges = 2
  MaxSnaps = 2
  MaxFaults = 1
  Attempts = 1
INVARIANTS QuietWalkExact 
PROPERTIES PreviewsStay IndexConverges
CHECK_DEADLOCK FALSE
