SPECIFICATION RacingSpec
CONSTANTS
  t1 = t1
  t2 = t2
  s1 = s1
  ra = ra
  rb = rb
  rb2 = rb2
  rc = rc
  rx = rx
  NoRef = NoRef
  NoOwner = NoOwner
  NoRequest = NoRequest
  Submit = Submit
  Submissions <- OneSubmission
  Target <- TargetOf
  Audits <- TwoItems
  Threads <- TwoThreads
  Reviews = {ra, rb, rb2}
  Rescores = {rx}
  Verdict <- RejectB
  FirstScores <- AllPending
  Faults = 1
  OtherPosts = 1
SYMMETRY ThreadSymmetry
INVARIANT TypeOK
INVARIANT CompletedReviewsKept
PROPERTY PostsOnce
PROPERTY NothingOverwritten
