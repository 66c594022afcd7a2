SPECIFICATION FairSpec
CONSTANTS
    c1 = c1
    c2 = c2
    k1 = k1
    v1 = v1
    v2 = v2
    secret = secret
    wrong = wrong
    Clients = {c1, c2}
    Keys = {k1}
    Dbs = {0, 1}
    Password = secret
    Calls <- MCCalls
    MaxCalls <- MCMaxCalls
    NoCall = NoCall
    Crash = Crash
    Faults = {"lost", "connect", "append", "malloc"}
INVARIANTS
    TypeOK
    RepliesInStep
    CrashHasCause
PROPERTIES
    ReturnIsExact
    CallsReturn
