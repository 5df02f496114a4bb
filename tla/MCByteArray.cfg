SPECIFICATION Spec
CONSTANTS
    Arrays = {a1, a2, a3}
    Bytes = {0, 1}
    Texts <- SomeTexts
    MaxLength = 3
    MaxSize = 7
    Addresses = {p1, p2, p3, p4}
    Null = Null
SYMMETRY AnyNames
INVARIANTS
    TypeOK
    RefCounts
PROPERTIES
    ImplementsValues
CHECK_DEADLOCK FALSE
