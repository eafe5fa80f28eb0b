SPECIFICATION FairSpec
CONSTANTS
    w1 = w1
    w2 = w2
    p1 = p1
    p2 = p2
    Workers = {w1, w2}
    Procs = {p1}
    Fields = {f1, f2}
    home <- OneProcess
    MaxBuilds = 3
    MaxCrashes = 2
    MaxCleans = 0
    MaxExtracts = 2
PROPERTY ExtractsReturn
INVARIANT TypeOK
INVARIANT ServedWhole
INVARIANT GribBeforeTree
INVARIANT RenamesItsOwn
PROPERTY SharesOneIndex
