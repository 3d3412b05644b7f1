SPECIFICATION StartSpec
CONSTANTS
  hint = hint
  Forms = {f1}
  Texts = {hint}
  Readings <- Meanings
  Refused = Refused
  Nothing = Nothing
  ProfileBlind = {"diagnostic"}
  NoQuestions = {}
  Visitors = {v1}
  MaxLearned = 0
  MaxStops = 1
PROPERTY FormsSettle
CHECK_DEADLOCK FALSE
