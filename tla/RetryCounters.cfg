SPECIFICATION Spec
CONSTANTS
    Radios = {r1}
    MaxCount = 3
    None = None
INVARIANT TypeOK
PROPERTIES
    FailuresNotOverstated
    ExactWhileAssociated
