CONSTANTS
    MaxFiles = 3
    PlaylistLength = 2
    Cap = 5
    DrainPolls = 1
    Full = 1
    MaxSegments = 5
    MaxSessions = 2
SPECIFICATION Spec
INVARIANTS TypeOK RecordedIsStored DrainCompletes
PROPERTIES EvictionSparesDisk OnlyEndMissing
