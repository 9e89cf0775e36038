SPECIFICATION Spec
CONSTANTS
  Docs = {a, b}
  Texts = {blank, x}
  Blank = blank
  Slots = {s1}
  MaxVersion = 2
  Patient = TRUE
  None = None
  Sent = Sent
SYMMETRY EditorSymmetry
CHECK_DEADLOCK FALSE
INVARIANTS TypeOK ListTellsTheTruth
PROPERTIES SavesReplaceSeenText
