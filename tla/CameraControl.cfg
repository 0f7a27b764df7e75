SPECIFICATION FairSpec
INVARIANTS TypeOK CameraPresent OwnConfiguration BuffersOutliveCapture PausedSkips OnlyPhotoFindsVideo
PROPERTIES CancelledByRollback CallsReturn ImplementsCalls
CHECK_DEADLOCK FALSE
