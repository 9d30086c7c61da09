SPECIFICATION Spec
CONSTANTS
    Voter = {"v1", "v2", "v3", "v4", "v5"}
    Key <- MCKey
INVARIANT
    ReturnsElected
CHECK_DEADLOCK FALSE
