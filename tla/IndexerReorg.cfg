SPECIFICATION FairSpec
CONSTANTS
    g0 = g0  r1 = r1  a2 = a2  a3 = a3  b2 = b2  b3 = b3  b4 = b4
    v = v  w = w  x = x  y = y  u = u  txr = txr  txx = txx  txy = txy  txu = txu
    Blocks <- MCBlocks
    Genesis = g0
    Parent <- MCParent
    Height <- MCHeight
    Branch <- MCBranch
    Coins <- MCCoins
    Txs = {txr, txx, txy, txu}
    TxOf <- MCTxOf
    Creates <- MCCreatesCommon
    Spends <- MCSpendsCommon
    Fetchers = {f1, f2}
    Sequencer = seq
    SemSize = 2
    MaxRestarts = 1
    NoBlock = NoBlock
    NoCoin = NoCoin
    OrphanHead = OrphanHead
PROPERTIES
    CatchesUp
