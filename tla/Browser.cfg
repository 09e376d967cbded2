SPECIFICATION Spec
CONSTANTS
    None = None
    Tasks = {1, 2}
    Queries = {q1, q2}
    q1 = q1
    q2 = q2
    PageSize = 1
    MaxRevision = 2
SYMMETRY Symmetry
INVARIANTS
    OffOnlyForCause
PROPERTIES
    RowsNeverGoBack
