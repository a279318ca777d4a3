SPECIFICATION PSpec
CONSTANTS
    MACs = {m1}
    IPs = {i1}
    Names = {}
    Services = {}
    Categories = {"virtual"}
    Urls = {}
    Priorities = {FALSE}
    Senders = {s1, s2}
    MdnsSender = mdns
    Requests = {}
    OfflineTimeout = 6
    Crashes = FALSE
    None = None
    Intervals = {3, 4}
SYMMETRY Symmetry
INVARIANT LagBounded
PROPERTY NeverLost
