\* One command, one step of others or of time.
CONSTANTS
  Nobody = Nobody
  Proposals = {p1, p2, p3, p4, p5}
  p1 = p1
  p2 = p2
  p3 = p3
  p4 = p4
  p5 = p5
  Beginnings <- MCBeginnings
  Ops = {"upvote", "revokeupvote", "dequeue"}
  Concurrent = 1
  MaxUpvotes = 2
  MaxNoise = 1
  MaxRuns = 1
SPECIFICATION QueueSpec
INVARIANT UpvoteGoesThrough
INVARIANT FreshHintsFit
