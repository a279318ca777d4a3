SPECIFICATION FairSpec
CONSTANTS
    MACs = {m1}
    Handlers = {h1, h2}
    Enabled = {"priority_offline", "service_down", "new_device"}
    Cooldown <- DefaultCooldown
    CleanupAge = 1
    BatchWindow = 1
    BatchLimit = 2
    MaxMute = 2
    Horizon = 2
    None = None
INVARIANTS TypeOK TimerIffPending
PROPERTIES ThrottleSpec BatchIsAnnounced MaintenanceSilences
