CONSTANTS
    Children = {c, d}
    Parents = {p, q}
    Nobody = Nobody
    NoId = NoId
    Gone = Gone
    NoKey = NoKey
    LiveReaders = {relation}
    QueryReaders = {first, second}
    MaxMounted = 2
SYMMETRY Symmetry
SPECIFICATION Spec
INVARIANTS
    RelationIsCurrent
    QueryIsCurrent
