SPECIFICATION Spec
CONSTANT MaxCalls = 1
PROPERTY RevokedStaysRevoked
CHECK_DEADLOCK FALSE
