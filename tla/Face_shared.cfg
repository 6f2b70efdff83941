\* Two ingests and two sessions on one face, with photos of every grade.
SPECIFICATION Spec
CONSTANTS
    i1 = i1
    i2 = i2
    s1 = s1
    s2 = s2
    Ingests = {i1, i2}
    Sessions = {s1, s2}
    Photos <- PhotoSet
    Grade <- GradeOf
    NoPhoto = "none"
    Sims = {1, 2}
    MaxChecks = 1
SYMMETRY Alike
INVARIANTS
    ProfileAgrees
    OneIdentity
    ProfileInv
    CataloguedOnce
CHECK_DEADLOCK FALSE
