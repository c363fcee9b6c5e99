SPECIFICATION FairSpec
CONSTANTS
    Commands <- MCCommands
    MaxReboots = 1
    MaxSevers = 1
INVARIANTS CancelledNeverReady NoDoubleRun HealthyNotPaused RebootHonoured ExitCodeIsCurrent WatchdogSparesRelaunched
PROPERTIES ShutdownStops ExitEnds AsksEnd
