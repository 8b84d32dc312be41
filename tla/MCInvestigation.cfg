SPECIFICATION Spec
CONSTANTS
    u1 = u1
    u2 = u2
    i1 = i1
    i2 = i2
    a1 = a1
    g1 = g1
    t1 = t1
    t2 = t2
    e1 = e1
    e2 = e2
    x1 = x1
    q1 = q1
    q2 = q2
    User = {u1, u2}
    Inv = {i1, i2}
    Annotation = {a1}
    Tag = {g1}
    Token = {t1, t2}
    Title = {"title"}
    Entity = {e1, e2}
    EntityId = {x1}
    Keys <- MCKeys
    Request = {q1, q2}
    NoUser = NoUser
    NoToken = NoToken
    NoInv = NoInv
    NoTitle = NoTitle
    Ttl = 1
    MaxNow = 1
SYMMETRY Interchangeable
INVARIANTS
    WellKept
PROPERTIES
    TokenNeverRevives
    StrayOnlyByRace
    OnlyOwnerWrites
    ImplementsBook
\* The pools of uuids are finite: a request may find none left.
CHECK_DEADLOCK FALSE
