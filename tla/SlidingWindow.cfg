SPECIFICATION Spec
CONSTANTS
    p1 = p1
    p2 = p2
    Peers = {p2}
    Buckets = {"read", "write"}
    Costs = {0, 1, 2}
    Window = 2
    NumShards = 2
    MaxTime = 3
    ShardOf <- MCShardOf
    MaxRequests <- MCMaxRequests
INVARIANT WindowRespected
PROPERTY ForgettingChangesNoAnswer
