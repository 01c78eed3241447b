\* The suite against a server whose every call may raise, and whose writes
\* may take effect and still raise.  The script ends, so a final state
\* without successor is expected.
CONSTANTS
    MayFail = TRUE
    MayTimeOut = TRUE
SPECIFICATION Spec
CHECK_DEADLOCK FALSE
INVARIANT TypeOK
INVARIANT NothingForgotten
