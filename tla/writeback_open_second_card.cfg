SPECIFICATION Spec
CONSTANTS
    Path = {card, card2}
    WholeCard = {card, card2}
    Data = {d1, d2}
    Blank = d1
    Synth = Synth
    Absent = Absent
    Truncated = Truncated
    NoPath = NoPath
    NoState = NoState
    Faults = {}
    UserOps = {"open"}
PROPERTIES
    OnlyEditsReachDisk
