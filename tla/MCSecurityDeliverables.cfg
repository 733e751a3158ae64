SPECIFICATION Spec
CONSTANTS
    Sessions = {s1, s2}
    Consultants = {k1, k2}
    Findings = {f1}
    Reports = {r1, r2}
    Texts = {t1, t2}
    Contents = {Blank, c1}
    Blank = Blank
    MaxWrites = 5
    None = None
SYMMETRY Symmetry
INVARIANT TypeOK
PROPERTIES
    JudgedAsShown
    KeepsThePromise
