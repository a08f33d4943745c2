SPECIFICATION Spec
CONSTANTS
    e1 = e1
    e2 = e2
    m1 = m1
    m2 = m2
    a = a
    b = b
    NoVector = NoVector
    Calls = {e1, e2}
    Texts = {a, b}
    Models = {m1, m2}
    MaxTexts = 3
    Digests = {1, 2}
    Digest <- MCDigest
INVARIANTS
    CacheIsSound
    ReturnedInOrder
CHECK_DEADLOCK FALSE
