SPECIFICATION SessionSpec
CONSTANTS
    User = {u1, u2}
    NoUser = NoUser
    MaxRequests = 4
    MaxReloads = 2
INVARIANTS
    SessionIsOne
    SignedOutStaysOut
