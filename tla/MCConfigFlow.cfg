CONSTANTS
    Native = {n1, n2}
    Semaphore = {s1}
    Tokens = {t1, t2}
    Slots = {e1, e2}
    Flows = {f1, f2}
    None = None
SPECIFICATION Spec
SYMMETRY Interchangeable
CHECK_DEADLOCK FALSE
INVARIANTS
    TypeOK
    UniqueIds
    StaleSetupIsReloaded
PROPERTIES
    StoredTogetherValidatedTogether
