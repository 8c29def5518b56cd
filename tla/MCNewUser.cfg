CONSTANTS
    Names = {"alice", "bob"}
    MaxCalls = 2
SPECIFICATION NUSpec
\* the calls are made: after the last one nothing is left to do
CHECK_DEADLOCK FALSE
INVARIANTS NewUserAddsUser
