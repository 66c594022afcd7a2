SPECIFICATION FairSpec
CONSTANTS
    p1 = p1
    p2 = p2
    p3 = p3
    r1 = r1
    r2 = r2
    r3 = r3
    r4 = r4
    n1 = n1
    n2 = n2
    i1 = i1
    i2 = i2
    i3 = i3
    i4 = i4
    Procs = {p1, p2, p3}
    Root = p1
    NoProc = NoProc
    NoReq = NoReq
    NoId = NoId
    NoFile = NoFile
    Requests = {r1, r2, r3, r4}
    Form <- MixedForm
    Names = {n1, n2}
    Name <- MixedName
    FileIds = {i1}
    FdLimit = 20
    ToolFds = 2
    Faults <- CallFaults
PROPERTIES
    RequestsClose
