\* Two questions are the fewest in which one displaces the other; the file
\* that may answer a chooser is one chunk (module Uploads has a run of its
\* own).  One session, with the gaps before and after it: what a torn-down
\* session leaves behind is what the next one would find.
SPECIFICATION Spec
CONSTANTS
  Asks = {a1, a2}
  MaxSessions = 1
  Ids = {u1}
  Sizes = {1}
  MaxUploadBytes = 1
  MaxSessionBytes = 1
  Concurrent = 1
  Faults = FALSE
  None = None
PROPERTIES KeepsPromise UploadAnswered
CHECK_DEADLOCK FALSE
