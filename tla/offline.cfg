SPECIFICATION LiveSpec
CONSTANTS
    Sales = {1, 2}
    Calls = {11, 12}
    Batch = 1
    Failures = {"crash", "timeout", "database", "till"}
CHECK_DEADLOCK FALSE
INVARIANTS SyncedIsRecorded RefusedIsNotRecorded
PROPERTY EverySaleIsAnswered
