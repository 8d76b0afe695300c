\* A build with EXECUTABLE_MEMORY_LIMIT defined.
CONSTANTS
    NoLimit = NoLimit

SPECIFICATION Spec

INVARIANT PressureSignalsAgree
INVARIANT RoundingMatchesReference
