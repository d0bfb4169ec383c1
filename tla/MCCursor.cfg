CONSTANTS
  Types = {"kPointer", "kHand"}
  Points = {0, 1, 2}
  MaxEdges = 3
  MaxSessions = 2
  NoCursor = NoCursor
SPECIFICATION CursorSpec
INVARIANTS
  CursorArrives
PROPERTIES
  SeqIncreases
CHECK_DEADLOCK FALSE
