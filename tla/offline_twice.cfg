SPECIFICATION Spec
CONSTANTS
    Sales = {1}
    Calls = {11, 12}
    Batch = 20
    Failures = {"timeout"}
CHECK_DEADLOCK FALSE
INVARIANT RecordedOnce
