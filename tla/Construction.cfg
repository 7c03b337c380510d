SPECIFICATION Spec
CONSTANTS
    alice = alice  bob = bob  carol = carol  nobody = nobody
    c1 = c1  c2 = c2  c3 = c3
    Coins = {c1, c2, c3}
    Accounts = {alice, bob, carol, nobody}
    Decodable = {alice, bob, carol}
    CoinAccount <- MCCoinAccount
    CoinAmount <- MCCoinAmount
    CoinClass <- MCCoinClass
    ScriptLen <- MCScriptLen
    DustLimit <- MCDustLimit
    CountLimit = 3
    Intents <- MCIntents
    Rates = {0, 1500, 3000}
    Multipliers = {50, 100, 200}
    Modulus = 8192
    NoCoin = NoCoin
    None = None
INVARIANTS
    AcceptedAsIntended
    ParseTellsOutputs
    ParsesAgree
    HonestIsValid
