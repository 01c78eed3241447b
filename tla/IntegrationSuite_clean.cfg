\* The instance of IntegrationSuite.cfg: does a successful exit mean the suite
\* left no test document behind?  The script ends, so a final state
\* without successor is expected.
CONSTANTS
    MayFail = TRUE
    MayTimeOut = TRUE
SPECIFICATION Spec
CHECK_DEADLOCK FALSE

INVARIANT SuccessMeansClean
