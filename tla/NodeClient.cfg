SPECIFICATION Spec
CONSTANTS
    g0 = g0  a1 = a1  b1 = b1  b2 = b2
    Blocks <- MCBlocks
    Genesis = g0
    Parent <- MCParent
    Height <- MCHeight
    Branch <- MCBranch
    Callers = {k1, k2}
    Txs = {t1}
    Heights = {1}
    Data = Data
    Zero = Zero
    None = None
INVARIANTS
    SuccessIsTrue
PROPERTIES
    BlockReadsAreAtomic
    EveryCallEnds
