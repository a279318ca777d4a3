SPECIFICATION Spec
CONSTANTS
    MACs = {m1, m2}
    Groups = {g1}
    Clients = {c1, c2}
    Porters = {c1}
    None = None
SYMMETRY Symmetry
INVARIANTS TypeOK LinksBounded LeftoversAreLate BackupKeepsRelations
