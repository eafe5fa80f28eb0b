SPECIFICATION Spec
CONSTANTS
    w1 = w1
    w2 = w2
    p1 = p1
    p2 = p2
    Workers = {w1, w2}
    Procs = {p1}
    Fields = {f1}
    home <- OneProcess
    MaxBuilds = 2
    MaxCrashes = 0
    MaxCleans = 0
    MaxExtracts = 1
INVARIANT LookUpFinds
