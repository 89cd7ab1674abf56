SPECIFICATION ServicesSpec
CONSTANTS
    MaxStarts = 2
    MaxListens = 3
    NumChecks = 2
PROPERTIES CancelledLoopEnds HealthStopReturns StartedServes AddressFreed
