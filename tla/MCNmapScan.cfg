SPECIFICATION FairSpec
CONSTANTS
    m1 = m1
    lower1 = lower1
    MACs = {m1}
    IPs = {i1}
    Collectors = {p1}
    Checker = checker
    Crashes = TRUE
    None = None
    Keys = {m1, lower1}
    Norm <- OneDevice
    Jobs = {j1, j2}
INVARIANTS TypeOK AllSubscribed OneScanPerKey
PROPERTIES NewDeviceIsScanned ScansEnd
