CONSTANT DrainPolls = 1
SPECIFICATION FairSpec
INVARIANTS TypeOK OneSession ExitedIsReapable RecoveryBeforeStart ReinitAlone VideoModeOwned HandleHandedOver
PROPERTIES ImplementsLifecycle ShutdownCompletes EmergencyEndsSession FinishedIsReaped
