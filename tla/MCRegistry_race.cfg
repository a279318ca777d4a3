SPECIFICATION Spec
CONSTANTS
    MACs = {m1}
    IPs = {i1}
    Names = {}
    Services = {v1, v2}
    Categories = {}
    Urls = {}
    Priorities = {FALSE}
    Senders = {s1, mdns}
    MdnsSender = mdns
    Requests = {"add"}
    OfflineTimeout = 3
    Crashes = TRUE
    None = None
INVARIANTS TypeOK DebounceConsistent
PROPERTIES DroppedOnlyWhenFresh NewExactlyOnInsert ServicesOnlyGrow
SYMMETRY ServiceSymmetry
