SPECIFICATION Spec
CONSTANTS
    web = web
    github = github
    pypi = pypi
    t1 = t1
    blank = blank
    open = open
    closed = closed
    Callers = {c1}
    Tools = {web, github, pypi}
    Family <- FamilyOf
    Texts = {t1, blank}
    Blank = blank
    Params = {open, closed}
    Requests <- DocRequests
    TTL = 2
    DegradedTTL = 1
    MaxClock = 2
    MaxSearches = 2
INVARIANTS ParamsRespected
