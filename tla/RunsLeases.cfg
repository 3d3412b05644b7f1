CONSTANTS
  t1 = t1  t2 = t2  f1 = f1  f2 = f2
  NoRef = NoRef  NoOwner = NoOwner
  Checksums = {c1}  Baselines = {b1}
  Threads <- Pair  Flows <- TwoFlows  FlowOf <- DistinctFlows
  Ops <- SubmitOps  KindOf <- SubmitKind  PaperOf <- SubmitPaper
  LegacyOps = {}
  LeaseLen = 1  MaxTime = 2  MaxVersion <- SubmitVersions  MaxState = 1
  v1 = v1  v2 = v2  hint = hint  free = free
  Forms = {g1}  Texts = {hint, free}  Readings <- Meanings
  Refused = Refused  Nothing = Nothing
  ProfileBlind = {"diagnostic"}  NoQuestions <- NothingToPractise
  Visitors = {v1, v2}  MaxLearned = 1  MaxStops = 1
SPECIFICATION RunsSpec
CHECK_DEADLOCK FALSE
INVARIANT RunsTypeOK
INVARIANT AnswersRecoverable
INVARIANT SoleHolder
PROPERTY LiveRunFenced
PROPERTY CompletedResultsFinal
SYMMETRY VisitorSymmetry
