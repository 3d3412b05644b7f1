SPECIFICATION Spec
CONSTANTS
  t1 = t1
  t2 = t2
  s1 = s1
  ra = ra
  rb = rb
  rb2 = rb2
  rc = rc
  rx = rx
  NoRef = NoRef
  NoOwner = NoOwner
  NoRequest = NoRequest
  Submit = Submit
  Submissions <- OneSubmission
  Target <- TargetOf
  Audits <- ThreeItems
  Threads <- TwoThreads
  Reviews = {ra, rb, rc}
  Rescores = {}
  Verdict <- Approve
  FirstScores <- AllPending
  Faults = 0
  OtherPosts = 0
INVARIANT PendingNeverPosted
