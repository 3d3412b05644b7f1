SPECIFICATION RecordsSpec
CONSTANTS
  NoRef = NoRef
  NoOwner = NoOwner
  t1 = t1
  t2 = t2
  f1 = f1
  f2 = f2
  a1 = a1
  a2 = a2
  q1 = q1
  q2 = q2
  c1 = c1
  c2 = c2
  r1 = r1
  r2 = r2
  Checksums = {c1}
  Baselines = {b1, b2}
  Threads <- Pair
  Flows <- TwoFlows
  FlowOf <- DistinctFlows
  Ops <- PaperOps
  KindOf <- PaperKind
  PaperOf <- PaperPaper
  LegacyOps = {"s"}
  LeaseLen = 1
  MaxTime = 0
  MaxVersion <- PaperVersions
  MaxState = 1
  Attempts = {a1, a2}
  Items = {q1, q2}
  Concepts = {c1, c2}
  ItemsOf <- TwoPapers
  ConceptsOf <- Links
  Requests = {r1, r2}
  MaxResults = 3
  MaxPractice = 1
  MaxWithdrawn = 1
  Plans <- AllPlans
  PaperSize = 3
INVARIANT RecordsTypeOK
INVARIANT ProfileMatchesReceipts
INVARIANT RowsReloadable
INVARIANT PaperExclusive
INVARIANT SectionExact
INVARIANT StagePaperFair
PROPERTY SavedBaselineKept
CONSTRAINT ProfileBound
SYMMETRY RequestSymmetry
CHECK_DEADLOCK FALSE
