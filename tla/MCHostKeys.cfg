SPECIFICATION Spec
CONSTANTS
    Hosts = {controller, node1, node2}
    Controller = controller
    Keys = {k1, k2}
    None = None
    MayCrash = TRUE
INVARIANTS
    TypeOK
    DictionariesAgree
PROPERTIES
    SavedKeysAreEnforced
    TrustsOnFirstUse
