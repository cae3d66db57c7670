SPECIFICATION StoreSpec
CONSTANTS
    o1 = o1
    o2 = o2
    h1 = h1
    h2 = h2
    Names = {n1}
    Objects = {o1, o2}
    Hashes = {h1, h2}
    BlocksOf <- SharedBlock
    MaxGen = 1
    Writers = {w1, w2}
    Environments = {"any"}
    MaxOps = 2
    MaxSweeps = 1
    MaxKills = 0
INVARIANT NoLostLiveBlock
CHECK_DEADLOCK FALSE
