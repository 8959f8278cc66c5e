\* A turn paused for approval is committed and then reported as failed.
SPECIFICATION Spec
CONSTANT Registry = {"sensitive_read"}
INVARIANT FailedTurnCommitsNothing
CHECK_DEADLOCK FALSE
