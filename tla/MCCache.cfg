SPECIFICATION FairSpec
CONSTANTS
    Goroutines = {g1, g2}
    Keys = {k1, k2}
    TTL = 2
    Caps = {1}
    NoOne = NoOne
    MaxClock = 2
    MaxStores = 2
INVARIANTS HeldIsCurrent OneObserver MissMeansGone
PROPERTIES Refinement CallReturns
