SPECIFICATION StoreSpec
CONSTANTS
    o1 = o1
    o2 = o2
    h1 = h1
    h2 = h2
    Names = {n1}
    Objects = {o1, o2}
    Hashes = {h1, h2}
    BlocksOf <- SharedBlock
    MaxGen = 1
    Writers = {w1, w2}
    Environments = {"steady", "recovery", "any"}
    MaxOps = 3
    MaxSweeps = 2
    MaxKills = 1
INVARIANT CountsCoverHolders
PROPERTY ImplementsNameStore
CHECK_DEADLOCK FALSE
SYMMETRY WriterSymmetry
