SPECIFICATION Spec
CONSTANTS
    u1 = u1
    u2 = u2
    u3 = u3
    r1 = r1
    r2 = r2
    r3 = r3
    r4 = r4
    r5 = r5
    Uploads = {u1, u3}
    Fields <- GapFields
    NoUpload = NoUpload
    Requests = {r1, r2, r3, r4, r5}
    NoReq = NoReq
    Cmd <- MixedCmd
    From <- MixedFrom
    Count <- MixedCount
    Clicked <- ClickOnFirst
    Garbage = Garbage
    NoPage = NoPage
    Faults <- AllFaults
INVARIANTS
    TypeOK
    PageIsBlock
PROPERTIES
    ImplementsCounter
