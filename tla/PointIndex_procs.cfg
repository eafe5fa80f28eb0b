SPECIFICATION FairSpec
CONSTANTS
    w1 = w1
    w2 = w2
    p1 = p1
    p2 = p2
    Workers = {w1, w2}
    Procs = {p1, p2}
    Fields = {f1, f2}
    home <- TwoProcesses
    MaxBuilds = 4
    MaxCrashes = 0
    MaxCleans = 1
    MaxExtracts = 2
PROPERTY EventuallyWhole
