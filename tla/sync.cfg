SPECIFICATION Spec
CONSTANTS
    Devices = {d1, d2}
    Server = Server
    Parent = Parent
    Child = Child
    PullPage = 2
    PushPage = 2
    Retention = 1
    Deletes = TRUE
    MaxEdits = 2
    Absent = Absent
    None = None
SYMMETRY Symmetry
CHECK_DEADLOCK FALSE
INVARIANTS Converges NewestWins
PROPERTY NeverOlder
