\* Every plan of three entries: SetupStorage runs once and the executor
\* construction then either continues or has thrown, so the run ends there.
CONSTANTS NumEntries = 3
SPECIFICATION Spec
INVARIANTS StorageTypeOK PoolMatchesReference PoolCoversEntry
CHECK_DEADLOCK FALSE
