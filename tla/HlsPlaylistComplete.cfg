CONSTANTS
    MaxFiles = 3
    PlaylistLength = 2
    Cap = 5
    DrainPolls = 2
    Full = 2
    MaxSegments = 4
    MaxSessions = 1
SPECIFICATION Spec
INVARIANT PlaylistComplete
