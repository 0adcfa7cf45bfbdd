SPECIFICATION Spec
CONSTANTS
    web = web
    github = github
    pypi = pypi
    Callers = {c1, c2}
    Tools = {web, github, pypi}
    Family <- FamilyOf
    Texts = {t1}
    Blank = blank
    Params = {open, closed}
    Requests <- MCRequests
    t1 = t1
    blank = blank
    open = open
    closed = closed
    TTL = 2
    DegradedTTL = 1
    MaxClock = 2
    MaxSearches = 3
SYMMETRY Symmetry
CHECK_DEADLOCK FALSE
INVARIANTS AnswersTheRequest DegradedSoonGone DegradationVisible HistoryTruthful
PROPERTIES UsesTheCache
