SPECIFICATION Spec
CONSTANTS
  Jobs <- AllJobs
  Paths = {"b", "p", "q"}
  Empty = ""
  Absent = "none"
  MaxOffset = 2
  MaxChanges = 0
  Times <- Moments
INVARIANT OverlaysDisabled
