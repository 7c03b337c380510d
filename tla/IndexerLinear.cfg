SPECIFICATION FairSpec
CONSTANTS
    g0 = g0  a1 = a1  a2 = a2  a3 = a3
    c1 = c1  d1 = d1  c2 = c2  e2 = e2  c3 = c3
    t1 = t1  t2 = t2  t3 = t3
    Blocks <- MCBlocks
    Genesis = g0
    Parent <- MCParent
    Height <- MCHeight
    Branch <- MCBranch
    Coins <- MCCoins
    Txs = {t1, t2, t3}
    TxOf <- MCTxOf
    Creates <- MCCreates
    Spends <- MCSpends
    Fetchers = {f1, f2, f3}
    Sequencer = seq
    SemSize = 1
    MaxRestarts = 1
    NoBlock = NoBlock
    NoCoin = NoCoin
    OrphanHead = OrphanHead
INVARIANTS
    SeenCoinsAreCached
    NothingLeftBehind
PROPERTIES
    HeadNeverMovesBack
    CatchesUp
