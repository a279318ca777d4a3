SPECIFICATION Spec
CONSTANTS
    MACs = {m1}
    IPs = {}
    Names = {}
    Services = {}
    Categories = {}
    Urls = {}
    Priorities = {FALSE}
    Senders = {s1}
    MdnsSender = mdns
    Requests = {}
    OfflineTimeout = 1
    Crashes = FALSE
    None = None
PROPERTY BackExactlyOnReturn
