SPECIFICATION Spec
CONSTANTS
    s1 = s1
    s2 = s2
    Shells = {s1, s2}
    Lines <- MCLines
    Patterns <- MCPatterns
    LowerCase <- MCLowerCase
    MaxRows = 2
SYMMETRY Symmetry
INVARIANTS
    OrderKept
    SearchesFind
PROPERTIES
    RepeatsOnlyRaced
