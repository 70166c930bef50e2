\* Three jobs over a retention of two: the third finds a full directory, and may
\* have failed itself. One write after the first version tells a backup from what
\* it no longer holds.
CONSTANTS
  Keep = 2
  Engines = {"sqlite", "postgres"}
  MaxJobs = 3
  MaxVersion = 2
SPECIFICATION Spec
INVARIANTS HonestHeartbeat ReplacedIsKept
PROPERTIES PrunedForNewer
