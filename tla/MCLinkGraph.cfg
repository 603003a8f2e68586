SPECIFICATION Spec
CONSTANTS
    r1 = r1
    r2 = r2
    v = v
    w = w
    k1 = k1
    k2 = k2
    Client = {r1, r2, v, w}
    Worker = {r1, r2}
    MaxWrites = 2
    Key = {k1, k2}
    KeyOrder <- MCKeyOrder
    Content <- MCContent
    Block = {"head", "tail", "whole"}
    Type = {"html", "json"}
    Hole = "hole"
    Default = "octet-stream"
    File = {1, 2, 3, 4, 5, 6}
    NoFile = NoFile
    Absent = Absent
    Unknown = Unknown
INVARIANTS
    GraphIsComplete
PROPERTIES
    ImplementsSafeStorage
SYMMETRY Symmetry
CHECK_DEADLOCK FALSE
