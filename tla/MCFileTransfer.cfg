\* Four chunks, two streams, the offset recorded every second chunk
CONSTANTS
  None = None
  Size = 4
  Streams = 2
  RecordEvery = 2
  MaxFaults = 4
SPECIFICATION FairSpec
INVARIANTS TypeOK LandedVerified ResumesNoHoles
PROPERTIES RetriesLand
CHECK_DEADLOCK FALSE
