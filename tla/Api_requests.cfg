SPECIFICATION Spec
CONSTANTS
    h1 = h1
    ip1 = ip1
    ip2 = ip2
    Handler <- OneHandler
    IP <- TwoIPs
    Request <- FewRequests
    Reads <- TwoReads
    MaxDown = 1
INVARIANT PersonalizedForAReason
INVARIANT AnswersAreTrue
INVARIANT RefusedChangesNothing
INVARIANT HealthIsTrue
