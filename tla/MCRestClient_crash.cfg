CONSTANTS
    MaxRequests = 1
    Bodies <- SimulatorBody
SPECIFICATION Spec
INVARIANT NeverCrashes
CHECK_DEADLOCK FALSE
