SPECIFICATION Spec
CONSTANTS
    g0 = g0  r1 = r1  a2 = a2  a3 = a3  b2 = b2  b3 = b3  b4 = b4
    v = v  w = w  x = x  y = y  u = u  txr = txr  txx = txx  txy = txy  txu = txu
    alice = alice  bob = bob
    Blocks <- MCBlocks
    Genesis = g0
    Parent <- MCParent
    Height <- MCHeight
    Branch <- MCBranch
    Coins <- MCCoins
    Txs = {txr, txx, txy, txu}
    TxOf <- MCTxOf
    Creates <- MCDataCreates
    Spends <- MCDataSpends
    Requests = {q1}
    Accounts = {alice, bob}
    Owner <- MCOwner
    inlineFetchLimit = 2
    NoBlock = NoBlock
    NoAccount = NoAccount
INVARIANTS
    BlockAnswersAreWhole
    BalancesMatchBlock
    DataInv
