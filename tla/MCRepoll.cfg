\* The feeds of MCRecords.cfg, for what is said of one that is polled again.
CONSTANTS
  None = None
  Episodes = {g1, g2}
  GuidOf <- MCGuidOf
  Encs = {u1, u2}
  Texts = {t1}
  MaxItems = 2
  MaxRows = 2
  Queries = {q1, q2}
  Faults = {"leave", "put", "insert", "delete", "list"}
  MaxFaults = 2
  MaxDeletions = 2
  Links = {l1, l2}
  FormatOf <- MCFormatOf
  MaxVersion = 2
  MaxLost = 2
  Shows = {s1}
  Day = 2
  Window = 2
  Concurrency = 2
  MaxTime = 2
  MaxStarts = 2
  MaxFailures = 1
  MaxAttempts = 2
SPECIFICATION Spec
SYMMETRY Symmetry
CHECK_DEADLOCK FALSE
INVARIANT RepollIsNoop
