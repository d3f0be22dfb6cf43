SPECIFICATION FairSpec
CONSTANTS
    Path = {app}
    WholeCard = {}
    Data = {d1, d2}
    Blank = d1
    Synth = Synth
    Absent = Absent
    Truncated = Truncated
    NoPath = NoPath
    NoState = NoState
    Faults = {"write", "move"}
    UserOps = {"save", "load"}
INVARIANTS
    BackupIsOriginal
    EditNotForgotten
PROPERTIES
    OnlyEditsReachDisk
    EditReachesDisk
