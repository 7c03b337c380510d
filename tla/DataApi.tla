--------------------------------- MODULE DataApi ---------------------------------
(* The data endpoints of services/ that read the indexer's storage, while the     *)
(* syncer stores blocks it has fetched ahead and moves the head along the block   *)
(* tree.  /block reads a block and then its transactions, each in a database      *)
(* transaction of its own, or leaves it to the caller to ask for them with        *)
(* /block/transaction; /account/balance reads a block and a balance inside one;   *)
(* /account/coins takes one read.                                                 *)
(*                                                                                *)
(* A balance is the set of coins it is made of: what they are worth is module     *)
(* BlockParser.                                                                   *)
EXTENDS Chain

CONSTANTS
    Requests,          \* the requests being served
    Accounts,          \* the accounts asked for
    Owner,             \* Owner[c]: the account of coin c
    inlineFetchLimit,  \* more transactions are left to the caller
    NoBlock,           \* no head, no block
    NoAccount          \* the request is for no account

ASSUME DataApiConstants ==
    /\ Owner \in [Coins -> Accounts]
    /\ inlineFetchLimit \in Nat
    /\ IsFiniteSet(Coins)
    /\ NoBlock \notin Blocks
    /\ NoAccount \notin Accounts

VARIABLES
    head,     \* head block in storage
    seen,     \* the blocks that block storage holds under their hash
    pc,       \* pc[r]: where request r is, see PCs
    asked,    \* asked[r]: the PartialBlockIdentifier of request r
    account,  \* account[r]: the account it asks for
    snap,     \* snap[r]: the storage its database transaction sees
    found,    \* found[r]: the block it has read
    todo,     \* todo[r]: OtherTransactions it has still to read
    got,      \* got[r]: the transactions it has read, each with its block
    coins     \* coins[r]: the coins it answers with

storage == <<head, seen>>
request == <<pc, asked, account, snap, found, todo, got, coins>>
vars == <<storage, request>>

(* No identifier stands for the head.                                             *)
Latest == [by |-> "head", key |-> NoBlock]
Identifiers == {Latest} \cup [by : {"index"}, key : Nat] \cup [by : {"hash"}, key : Blocks]
Storages == [head : Blocks \cup {NoBlock}, seen : SUBSET Blocks]
Empty == [head |-> NoBlock, seen |-> {}]
PCs == {"idle", "lazy", "txs", "begin", "block", "balance", "coins",
        "listed", "whole", "paid", "failed"}

TypeOK ==
    /\ head \in Blocks \cup {NoBlock} /\ seen \subseteq Blocks
    /\ pc \in [Requests -> PCs]
    /\ asked \in [Requests -> Identifiers]
    /\ account \in [Requests -> Accounts \cup {NoAccount}]
    /\ snap \in [Requests -> Storages]
    /\ found \in [Requests -> Blocks \cup {NoBlock}]
    /\ todo \in [Requests -> SUBSET Txs]
    /\ got \in [Requests -> SUBSET (Txs \X Blocks)]
    /\ coins \in [Requests -> SUBSET Coins]

Init ==
    /\ head = NoBlock /\ seen = {}
    /\ pc = [r \in Requests |-> "idle"]
    /\ asked = [r \in Requests |-> Latest]
    /\ account = [r \in Requests |-> NoAccount]
    /\ snap = [r \in Requests |-> Empty]
    /\ found = [r \in Requests |-> NoBlock]
    /\ todo = [r \in Requests |-> {}]
    /\ got = [r \in Requests |-> {}]
    /\ coins = [r \in Requests |-> {}]

--------------------------------------------------------------------------------
(* The syncer                                                                     *)

(* BlockSeen stores a block that was fetched, which is ahead of the head, under   *)
(* its hash, with its transactions.                                               *)
BlockSeen ==
    /\ \E b \in Blocks \ seen :
          /\ head # NoBlock => Height[b] > Height[head]
          /\ seen' = seen \cup {b}
    /\ UNCHANGED <<head, request>>

(* BlockAdded makes a block that was seen the head and stores its height.         *)
BlockAdded ==
    /\ head' \in {b \in seen : IF head = NoBlock THEN b = Genesis
                               ELSE b # Genesis /\ Parent[b] = head}
    /\ UNCHANGED <<seen, request>>

BlockRemoved ==
    /\ head \notin {NoBlock, Genesis}
    /\ head' = Parent[head]
    /\ seen' = seen \ {head}
    /\ UNCHANGED request

--------------------------------------------------------------------------------
Now == [head |-> head, seen |-> seen]

(* The blocks that have been added and not removed when the head is h             *)
Stored(h) == IF h = NoBlock THEN {} ELSE Branch[h]

(* The block that identifier i names in storage s, none or one.  A height names a *)
(* block that has been added, a hash any block that is stored.                    *)
Lookup(s, i) ==
    {b \in Blocks : \/ i.by = "head" /\ b = s.head
                    \/ i.by = "index" /\ b \in Stored(s.head) /\ Height[b] = i.key
                    \/ i.by = "hash" /\ b \in s.seen /\ b = i.key}

(* The last block added up to height n, to which balance storage has its entries  *)
LastUpTo(s, n) ==
    {b \in Stored(s.head) : /\ Height[b] <= n
                            /\ \A d \in Stored(s.head) :
                                   Height[d] <= n => Height[d] <= Height[b]}

(* The coins of account a when block b has been added                             *)
CoinsAt(b, a) == {c \in Utxo(b) : Owner[c] = a}

--------------------------------------------------------------------------------
(* A request arrives.                                                             *)
Ask(r, start, i, a) ==
    /\ pc[r] = "idle"
    /\ pc' = [pc EXCEPT ![r] = start]
    /\ asked' = [asked EXCEPT ![r] = i]
    /\ account' = [account EXCEPT ![r] = a]
    /\ UNCHANGED <<storage, snap, found, todo, got, coins>>

(* The storage returned an error.                                                 *)
Fail(r) ==
    /\ pc' = [pc EXCEPT ![r] = "failed"]
    /\ UNCHANGED <<found, todo, got, coins>>

(* /block: Indexer.GetBlockLazy.  A block with many transactions is the answer as *)
(* it is.                                                                         *)
GetBlockLazy(r) ==
    /\ pc[r] = "lazy"
    /\ \/ /\ Lookup(Now, asked[r]) = {}
          /\ Fail(r)
       \/ \E b \in Lookup(Now, asked[r]) :
             /\ found' = [found EXCEPT ![r] = b]
             /\ todo' = [todo EXCEPT ![r] = TxsIn(b)]
             /\ pc' = [pc EXCEPT ![r] =
                          IF Cardinality(TxsIn(b)) > inlineFetchLimit THEN "listed"
                          ELSE IF TxsIn(b) = {} THEN "whole" ELSE "txs"]
             /\ UNCHANGED <<got, coins>>
    /\ UNCHANGED <<storage, asked, account, snap>>

(* Mutant: the transaction is looked up by its own hash only.                     *)
TransactionByHash(r, t) == {b \in seen : t \in TxsIn(b)}

(* The block, if it is stored, in which transaction t of r's block is found       *)
TransactionIn(r, t) == {b \in seen : b = found[r] /\ t \in TxsIn(b)}

(* Indexer.GetBlockTransaction, for one of the transactions that are left.  It    *)
(* fails if the block has been removed since it was read.                         *)
GetBlockTransaction(r) ==
    \E t \in todo[r] :
        \/ /\ TransactionIn(r, t) = {}
           /\ Fail(r)
        \/ \E b \in TransactionIn(r, t) :
              /\ got' = [got EXCEPT ![r] = @ \cup {<<t, b>>}]
              /\ todo' = [todo EXCEPT ![r] = @ \ {t}]
              /\ pc' = [pc EXCEPT ![r] = IF todo[r] = {t} THEN "whole" ELSE @]
              /\ UNCHANGED <<found, coins>>

(* /block reads the next of its transactions.                                     *)
InlineTransaction(r) ==
    /\ pc[r] = "txs"
    /\ GetBlockTransaction(r)
    /\ UNCHANGED <<storage, asked, account, snap>>

(* /block/transaction: the caller has got the block and asks for one of its       *)
(* transactions, giving the identifiers of both.                                  *)
BlockTransaction(r) ==
    /\ pc[r] = "listed"
    /\ GetBlockTransaction(r)
    /\ UNCHANGED <<storage, asked, account, snap>>

(* /account/balance: Indexer.GetBalance opens its database transaction.           *)
ReadTransaction(r) ==
    /\ pc[r] = "begin"
    /\ snap' = [snap EXCEPT ![r] = Now]
    /\ pc' = [pc EXCEPT ![r] = "block"]
    /\ UNCHANGED <<storage, asked, account, found, todo, got, coins>>

(* Mutant: the block is read before the database transaction sees it.             *)
BalanceBlockAtHead(r) ==
    /\ pc[r] = "block"
    /\ \E b \in Lookup(Now, asked[r]) :
          /\ found' = [found EXCEPT ![r] = b]
          /\ pc' = [pc EXCEPT ![r] = "balance"]
    /\ UNCHANGED <<storage, asked, account, snap, todo, got, coins>>

(* GetBlockLazyTransactional                                                      *)
BalanceBlock(r) ==
    /\ pc[r] = "block"
    /\ \/ /\ Lookup(snap[r], asked[r]) = {}
          /\ Fail(r)
       \/ \E b \in Lookup(snap[r], asked[r]) :
             /\ found' = [found EXCEPT ![r] = b]
             /\ pc' = [pc EXCEPT ![r] = "balance"]
             /\ UNCHANGED <<todo, got, coins>>
    /\ UNCHANGED <<storage, asked, account, snap>>

(* The coins of r's account at the last block of storage s up to the height of    *)
(* r's block                                                                      *)
BalanceIn(s, r) ==
    {c \in Coins : \E b \in LastUpTo(s, Height[found[r]]) : c \in CoinsAt(b, account[r])}

(* Mutant: the balance is read outside of the database transaction.               *)
BalanceOutside(r) == BalanceIn(Now, r)

(* GetBalanceTransactional: the balance as of the height of the block.  An        *)
(* account without a balance is worth nothing.                                    *)
BalanceInside(r) == BalanceIn(snap[r], r)

GetBalance(r) ==
    /\ pc[r] = "balance"
    /\ coins' = [coins EXCEPT ![r] = BalanceInside(r)]
    /\ pc' = [pc EXCEPT ![r] = "paid"]
    /\ UNCHANGED <<storage, asked, account, snap, found, todo, got>>

(* /account/coins: coin storage reads the coins and the head in one transaction.  *)
GetCoins(r) ==
    /\ pc[r] = "coins"
    /\ \/ /\ head = NoBlock
          /\ Fail(r)
       \/ /\ head # NoBlock
          /\ found' = [found EXCEPT ![r] = head]
          /\ coins' = [coins EXCEPT ![r] = CoinsAt(head, account[r])]
          /\ pc' = [pc EXCEPT ![r] = "paid"]
          /\ UNCHANGED <<todo, got>>
    /\ UNCHANGED <<storage, asked, account, snap>>

--------------------------------------------------------------------------------
(* The requests: /block, /account/balance and /account/coins, at the head or, but *)
(* for the last, at a height or for the hash of a block                           *)
Arrive(r) ==
    \/ \E i \in {Latest} \cup [by : {"index"}, key : {Height[b] : b \in Blocks}]
                         \cup [by : {"hash"}, key : Blocks] :
          \/ Ask(r, "lazy", i, NoAccount)
          \/ \E a \in Accounts : Ask(r, "begin", i, a)
    \/ \E a \in Accounts : Ask(r, "coins", Latest, a)

Serve(r) ==
    \/ GetBlockLazy(r) \/ InlineTransaction(r) \/ BlockTransaction(r)
    \/ ReadTransaction(r) \/ BalanceBlock(r) \/ GetBalance(r) \/ GetCoins(r)

Next ==
    \/ BlockSeen \/ BlockAdded \/ BlockRemoved
    \/ \E r \in Requests : Arrive(r) \/ Serve(r)

Spec == Init /\ [][Next]_vars

--------------------------------------------------------------------------------
(* A block with its transactions, inlined or fetched one by one, has all of the   *)
(* block's transactions, each as it is in that block, however the head moved      *)
(* between the reads: a transaction may be in one block before a reorg and in     *)
(* another after.                                                                 *)
BlockAnswersAreWhole ==
    \A r \in Requests :
        pc[r] = "whole" => got[r] = {<<t, found[r]>> : t \in TxsIn(found[r])}

(* The answer of r is the balance or the coins at the block it names.             *)
BalanceMatches(r) == pc[r] = "paid" => coins[r] = CoinsAt(found[r], account[r])

(* The block r has found had been added when r looked, and not only been seen.    *)
WasAdded(r) == found[r] \in Stored(snap[r].head)

(* The coins or the balance of an account are those at the block they are         *)
(* answered with, however the head moved between the reads, and also when the     *)
(* block is asked for by its hash, as long as that is one that has been added.    *)
(* For a block that was only seen GetBalance finds the last balance up to its     *)
(* height, which is the one at the head.                                          *)
BalancesMatchBlock ==
    \A r \in Requests : (asked[r].by = "hash" => WasAdded(r)) => BalanceMatches(r)

(* What a request has read so far.                                                *)
RequestOK(r) ==
    /\ pc[r] \in {"idle", "lazy"} => got[r] = {}
    /\ pc[r] \in {"txs", "listed"} =>
           /\ found[r] \in Blocks
           /\ todo[r] \subseteq TxsIn(found[r])
           /\ got[r] = {<<t, found[r]>> : t \in TxsIn(found[r]) \ todo[r]}
    /\ pc[r] = "balance" => /\ found[r] \in Blocks
                            /\ asked[r].by # "hash" => WasAdded(r)

(* The inductive invariant of the readers                                         *)
DataInv ==
    /\ TypeOK
    /\ Stored(head) \subseteq seen
    /\ \A r \in Requests : RequestOK(r)
    /\ BlockAnswersAreWhole
    /\ BalancesMatchBlock
================================================================================
