SPECIFICATION Spec
CONSTANTS
    Clients = {c1, c2}
    Codes = {k1, k2}
    Tokens = {t1, t2, t3}
    Duration = 2
    Failures = TRUE
    Broken = Broken
    None = None
SYMMETRY Symmetry
INVARIANT ServedWhileLoggedIn
PROPERTY RestartKeepsCode
