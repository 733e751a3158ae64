SPECIFICATION Spec
CONSTANTS
    Users = {1, 2, 3}
    Admins = {1, 2}
    Requests = {q1, q2}
    MaxChanges = 2
    None = None
SYMMETRY RequestSymmetry
INVARIANTS
    TypeOK
    AnAdminRemains
    LockedAdminsAreCurrent
    LastAdminNeverAnswered
PROPERTY ChangedByACurrentAdmin
