\* Two calls with two messages to send at either end, one beside fairness.
CONSTANTS
    Rpcs = {1, 2}
    Clients = {1, 2}
    MaxSends = 2
    MaxWrites = 2
    FewSends = 1
SPECIFICATION FairSpec
INVARIANTS NoTagOfDestroyed ClientInOrder
PROPERTIES OneFinish EndStops DeadCallsLeave
CHECK_DEADLOCK FALSE
