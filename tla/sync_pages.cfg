SPECIFICATION Spec
CONSTANTS
    Devices = {d1}
    Server = Server
    Parent = Parent
    Child = Child
    PullPage = 1
    PushPage = 1
    Retention = 1
    Deletes = FALSE
    MaxEdits = 0
    Absent = Absent
    None = None
CHECK_DEADLOCK FALSE
INVARIANT EveryRowArrives
