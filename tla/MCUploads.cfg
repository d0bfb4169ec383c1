\* Three chunks are the fewest that can land in a wrong order and still have
\* the right size; four leave one on its way as well.  Two sessions, so that
\* the wipe of the first can run late.  Uploads share only the directory the
\* wipe empties, so one id shows what two would.
SPECIFICATION Spec
CONSTANTS
  Asks = {}
  MaxSessions = 2
  Ids = {u1}
  Sizes = {3, 4, 5}
  MaxUploadBytes = 4
  MaxSessionBytes = 5
  Concurrent = 1
  Faults = TRUE
  None = None
INVARIANT CompleteIsIntact
CHECK_DEADLOCK FALSE
