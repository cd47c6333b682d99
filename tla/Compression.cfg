SPECIFICATION EngineFairSpec
CONSTANT Faults = 2
INVARIANTS EngineInv OutputFitsAnswer
PROPERTIES SettledIsFinal AbortsEnd
CHECK_DEADLOCK FALSE
