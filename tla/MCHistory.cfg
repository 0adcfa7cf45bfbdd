SPECIFICATION Spec
CONSTANTS
    qa = qa
    qb = qb
    Searchers = {s1, s2}
    Queries = {qa, qb}
    Filters <- MCFilters
    Limits = {0, 1, 2}
    Bound = 2
    MaxClock = 2
    MaxAppends = 4
INVARIANTS BufferIsNewest
PROPERTIES ListIsExact
