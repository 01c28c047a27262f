SPECIFICATION Spec
CONSTANTS
    Objects = {o1, o2, o3}
    Links = {k1, k2, k3}
    Vars = {v1, v2}
    MaxElements = 2
    Programs <- SmallPrograms
    NoObject = NoObject
    NoLink = NoLink
    Beyond = Beyond
SYMMETRY Symmetry
INVARIANTS
    CountsMatch
    LiveWhileHeld
    LinksFormLists
    CursorsAreOwn
