SPECIFICATION Spec
CONSTANTS
    s1 = s1
    s2 = s2
    g1 = g1
    own = own
    other = other
    Session = {s1, s2}
    Impl = {own, other}
    Group = {g1}
    Framework = {f1}
    Request = {r1, r2}
    ImplOf <- Projects
    GroupImpl <- GroupProject
    NoGroup = NoGroup
    NoImpl = NoImpl
    Cap = 2
    MaxVersion = 2
INVARIANTS
    TypeOK
    CountedOnce
PROPERTIES
    FactsNotRolledBack
SYMMETRY Alike
