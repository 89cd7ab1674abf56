CONSTANTS
    p1 = p1
    p2 = p2
    Peers = {p1}
    Costs = {0, 3, 5, 6}
    Window = 0
    Rate = 2
    Burst = 5
    Minute = 3
    Millisecond = 3
    NumShards = 1
    ShardOf <- MCShardOf
    MaxTime = 8
SPECIFICATION Spec
INVARIANTS RetryHintHonoured SustainedRate
PROPERTIES ForgettingChangesNoDecision
