SPECIFICATION Spec
CONSTANTS
    k1 = k1  k2 = k2  k3 = k3  t1 = t1  t2 = t2  t3 = t3
    a1 = a1  a2 = a2
    c1 = c1  c2 = c2  c3 = c3  p = p  q = q  r = r  s = s
    Txs = {k1, k2, k3, t1, t2, t3}
    Coinbases = {k1, k2, k3}
    Coins = {c1, c2, c3, p, q, r, s}
    TxOf <- MCTxOf
    Vout <- MCVout
    Value <- MCValue
    NullData = {q}
    Addresses <- MCAddresses
    Hex <- MCHex
    Accounts <- MCAccounts
    Blank = Blank
    SkipAt <- MCSkipAt
    MaxBlocks = 4
    MaxTxs = 3
INVARIANTS
    AccountingInv
    NeverWaitsForItself
    ParseNeverFails
    StorageFollowsNode
    BalancesAreCoins
    CoinsHaveScripts
