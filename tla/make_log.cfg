SPECIFICATION Spec
CONSTANTS
    p1 = p1
    p2 = p2
    p3 = p3
    Procs = {p1, p2, p3}
    Lines <- MCLines
    Faults = {"mkdir", "open", "dies"}
INVARIANTS
    TypeOK
    LostHasCause
    RacesBounded
    NoDirectoryAbandoned
