SPECIFICATION FairSpec
CONSTANTS
  Docs = {a}
  Texts = {blank, x}
  Blank = blank
  Slots = {s1, s2}
  MaxVersion = 3
  Patient = TRUE
  None = None
  Sent = Sent
CHECK_DEADLOCK FALSE
INVARIANTS SavedMeansSaved
PROPERTIES KeystrokesStay KeptDraftIsTheDraft EditsSettle
