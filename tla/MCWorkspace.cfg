SPECIFICATION Spec
CONSTANTS
    User = {u1, u2}
    NoUser = NoUser
    MaxRequests = 3
    MaxBusy = 1
    MaxMade = 2
    MaxChanges = 1
SYMMETRY Symmetry
INVARIANTS
    ListIsTheirs
    NotesAreOfActive
