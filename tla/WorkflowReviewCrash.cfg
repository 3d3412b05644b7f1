SPECIFICATION FairSpec
CONSTANTS
  t1 = t1
  t2 = t2
  s1 = s1
  ra = ra
  rb = rb
  rb2 = rb2
  rc = rc
  rx = rx
  NoRef = NoRef
  NoOwner = NoOwner
  NoRequest = NoRequest
  Submit = Submit
  Submissions <- OneSubmission
  Target <- TargetOf
  Audits <- TwoItems
  Threads <- OneThread
  Reviews = {ra, rb}
  Rescores = {}
  Verdict <- Approve
  FirstScores <- AllPending
  Faults = 1
  OtherPosts = 0
PROPERTY FailedReviewsSettle
