SPECIFICATION FairSpec
CONSTANTS
    MACs = {m1}
    IPs = {i1}
    Names = {n1, n2}
    Services = {}
    Categories = {}
    Urls = {}
    Priorities = {FALSE}
    Senders = {s1}
    MdnsSender = mdns
    Requests = {"add", "import"}
    OfflineTimeout = 3
    Crashes = TRUE
    None = None
PROPERTIES ExpiredGoesOffline HeardComesOnline NoSilentLoss NameNotOverwritten
