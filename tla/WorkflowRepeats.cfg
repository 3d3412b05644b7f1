SPECIFICATION RepeatedSpec
CONSTANTS
  t1 = t1
  t2 = t2
  s1 = s1
  ra = ra
  rb = rb
  rb2 = rb2
  rc = rc
  rx = rx
  NoRef = NoRef
  NoOwner = NoOwner
  NoRequest = NoRequest
  Submit = Submit
  Submissions <- OneSubmission
  Target <- TargetOf
  Audits <- TwoItems
  Threads <- OneThread
  Reviews = {ra, rb, rb2}
  Rescores = {}
  Verdict <- Approve
  FirstScores <- AnyScores
  Faults = 2
  OtherPosts = 1
PROPERTY RecordedFormsEnd
