\* Two processes, two versions; every operation may fail, every step may be the last.
\* Three edits, commits, verifications or recordings around and during generations.
\* Three edits of the configuration.
SPECIFICATION MCSpec
CONSTANTS
  Publishers = {p1, p2}
  Versions = {v1, v2}
  Absent = Absent
  Partial = Partial
  Bytes = {0, 1}
  MaxChanges = 3
  MaxEdits = 3
INVARIANTS Recoverable ProductionIsCommitted LabelsAreEarned RecordingIsOfSample
  CopiesAreApproved LinksAreServed LiveIsQualified SuccessMeansLive GreenMainIsLive
PROPERTIES PublishesAtomically LiveNeverGoesBack
\* Edits and pushes are bounded.
CHECK_DEADLOCK FALSE
