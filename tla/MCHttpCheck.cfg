SPECIFICATION HFairSpec
CONSTANTS
    MACs = {m1}
    IPs = {}
    Names = {}
    Services = {}
    Categories = {}
    Urls = {u1}
    Priorities = {FALSE}
    Senders = {s1, http}
    MdnsSender = mdns
    HttpSender = http
    MaxFailures = 2
    Requests = {"pause"}
    OfflineTimeout = 1
    Crashes = TRUE
    None = None
INVARIANT HTypeOK
PROPERTIES ImplementsRegistry HttpLostIsReal LostAfterMisses DeadServiceGoesOffline LiveServiceComesOnline
