SPECIFICATION Spec
CONSTANTS
    Path = {card}
    WholeCard = {card}
    Data = {d1, d2}
    Blank = d1
    Synth = Synth
    Absent = Absent
    Truncated = Truncated
    NoPath = NoPath
    NoState = NoState
    Faults = {"copy", "move", "state"}
    UserOps = {"open", "reset", "save", "load"}
PROPERTIES
    ImplementsAtomicFile
