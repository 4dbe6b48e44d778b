CONSTANTS NumEntries = 3
SPECIFICATION Spec
INVARIANT ZeroBytePoolNonEmpty
CHECK_DEADLOCK FALSE
