SPECIFICATION Spec
CONSTANTS
    Groups = {1, 2, 3}
    Clients = {c1, c2}
    MaxOrder = 3
    MaxFile = 2
    None = None
SYMMETRY Symmetry
INVARIANTS TypeOK PlacesDistinct
PROPERTIES ListSpec RestoreKeepsOrder
CONSTRAINT Undisturbed
