SPECIFICATION Spec
CONSTANTS
    Clients = {c1, c2}
    Channels = {url1}
    Pollers = {p1}
    Unset = Unset
    Configured = Unset
    Failures = TRUE
SYMMETRY Symmetry
INVARIANTS TypeOK SavedIsInForce
PROPERTY RestartKeeps
