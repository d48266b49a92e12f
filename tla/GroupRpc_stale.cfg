SPECIFICATION Spec
CONSTANTS
  None = None
  Proposals = {}
  Background = {b1, b2}
  Managers = {m1}
  Closers = {}
  MaxIncarnations = 2
  MaxFailures = 1
  MaxCancels = 0
  proposal_concurrency = 1
INVARIANT WakesTheCorrectCall
CHECK_DEADLOCK FALSE
