\* Feeds of two items over two episodes, polled over up to two rows; two searches
\* of a session, deleted twice, two faults; an episode with transcripts of two
\* formats, each replaced once, two faults; a worker of two jobs, started twice in
\* a day of two periods, one fault.
CONSTANTS
  None = None
  Episodes = {g1, g2}
  GuidOf <- MCGuidOf
  Encs = {u1, u2}
  Texts = {t1}
  MaxItems = 2
  MaxRows = 2
  Queries = {q1, q2}
  Faults = {"leave", "put", "insert", "delete", "list"}
  MaxFaults = 2
  MaxDeletions = 2
  Links = {l1, l2}
  FormatOf <- MCFormatOf
  MaxVersion = 2
  MaxLost = 2
  Shows = {s1}
  Day = 2
  Window = 2
  Concurrency = 2
  MaxTime = 2
  MaxStarts = 2
  MaxFailures = 1
  MaxAttempts = 2
SPECIFICATION Spec
SYMMETRY Symmetry
CHECK_DEADLOCK FALSE
INVARIANTS OneRowPerEpisode EveryItemStored ChangesAreExact DeletedMeansGone DeletionOrphansNothing RowIsBacked ChainUnbroken
