SPECIFICATION Spec
CONSTANTS
    Emails = {e1}
    Passwords = {p1, p2}
    Tokens = {t1, t2}
    Sessions = {s1}
    Requests = {q1, q2}
    MaxVersion = 3
    None = None
SYMMETRY Symmetry
INVARIANT TokenUsedOnce
