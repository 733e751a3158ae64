SPECIFICATION Spec
CONSTANTS
    Users = {1, 2, 3}
    Admins = {2, 3}
    Requests = {q1, q2}
    MaxChanges = 2
    None = None
SYMMETRY RequestSymmetry
INVARIANT NoDeadlock
