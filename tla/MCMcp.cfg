SPECIFICATION McpFairSpec
CONSTANTS
    Clients = {c1, c2}
    MaxAttempts = 2
    c1 = c1
    c2 = c2
    k1 = k1
    k2 = k2
    Keys = {k1, k2}
    NoKey = NoKey
    HttpRequests <- MCHttpRequests
    MaxTurns <- MCMaxTurns
    Stdin = Stdin
    Lines <- MCLines
    MaxLines = 2
INVARIANTS McpTypeOK RepliesInOrder OneLineBehind ServedHasKey NoDoubleClose CleanStopAnswers CleanStopCounts
PROPERTIES AgreedVersionAccepted KeepsPromise RequestsSettle Stops
CHECK_DEADLOCK FALSE
