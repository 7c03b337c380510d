# A verification project for mesh-bitcoin

mesh-bitcoin (rosetta-bitcoin) runs `bitcoind`, follows its best chain into a
database of blocks, coins and balances, and serves the Rosetta/Mesh Data and
Construction APIs from it.  This directory holds TLA+ modules translated from the
Go source, TLC configurations that check them on small instances, and proofs that
TLAPS checks for every value of the constants.

## The system

| part | state | operations | talks to |
|---|---|---|---|
| sync pipeline, `indexer/indexer.go` | head and coins in storage; `coinCache`, `seen`, `waiter` in memory | `Block`, `findCoins`, `findCoin`, `checkHeaderMatch`, `BlockSeen`, `BlockAdded`, `BlockRemoved`, `NetworkStatus`, `Sync` | called by the syncer's goroutines; reads the node |
| wait table, `indexer/wait_table.go` | transaction hash -> entry (listeners, channel, aborted, earliest block) | `Get`, `Set`, `Delete`, lock | the shared state of all goroutines that look for coins |
| syncer (rosetta-sdk-go, external) | next index, cache of results, reorg start | fetchers, `sequenceBlocks`, `processBlocks` | calls the pipeline's handlers |
| pruner, `Indexer.Prune` | none of its own | ticker | head of storage, `pruneblockchain` of the node |
| Bitcoin client, `bitcoin/client.go`, `types.go` | none | `post`; `GetRawBlock`, `NetworkStatus`, `GetPeers`, `SendRawTransaction`, `SuggestedFeeRate`, `PruneBlockchain`, `RawMempool`; `ParseBlock` | the node, over HTTP |
| storage (rosetta-sdk-go, external) | blocks, coins, balances | add and remove a block, reads | written by the pipeline, read by the services |
| process, `main.go`, `bitcoin/node.go`, `utils/utils.go` | errgroup, context, child process, database handle | start, signals, cancellation, close | owns everything |
| data services, `services/block_service.go`, `account_service.go` | none | `/block`, `/block/transaction`, `/account/balance`, `/account/coins` | storage |
| construction service, `services/construction_service.go` | none, it travels with the client | preprocess, metadata, payloads, parse, combine, hash, submit, derive | the index for scripts, the node for fee rate and submission |
| configuration, `configuration/configuration.go` | constants once loaded | `LoadConfiguration` | the environment |
| network and mempool services, router, logger, errors | none | pass-through | client, storage |

What is hard in this code:

* blocks are fetched *ahead* of the head by several goroutines, while parsing a
  block needs the outputs of earlier blocks that may not have been fetched yet:
  goroutines wait for each other through the wait table, and every lookup races
  with a block being seen, added or removed;
* the node may reorganise between any two calls, so results of two branches mix;
* the pruner deletes blocks in the node that the syncer may want again;
* an operation of the client is several exchanges with a node that moves on, and any
  of them may break after the node has acted;
* the process may end between any two steps, and only storage survives;
* cancellation has to reach every goroutine, or the process never ends;
* answers are put together from several reads while the head moves;
* construction is a protocol of stateless calls whose data is matched by position.

`PROJECT.json` lists these hazards one by one, at their lines, with the properties
that would catch each.

## Modules

| module | models |
|---|---|
| `BlockTree` | the block tree as constants |
| `Chain` | the coins its blocks create and spend, and what consensus guarantees about them |
| `WaitTable` | the critical sections on the wait table |
| `Indexer` | the sync pipeline: extends `Chain` and `WaitTable` |
| `Ledger` | abstract specification: what storage promises, one block added or removed at a time |
| `IndexerProperties` | properties and inductive invariants of `Indexer` |
| `IndexerProofs` | theorems about storage and wait table, about heights, wakeups and the refinement of `Ledger`, about a chain without forks, and about the composition with the pruner |
| `Pruner`, `PrunerProofs` | `Indexer.Prune` against a moving head and node, on heights |
| `PrunedIndexer` | composition: `Indexer` and `Pruner` in one process |
| `BlockSource` | abstract specification: what the indexer takes the client's block reads to be |
| `NodeClient`, `NodeClientProofs` | the RPC client: `post` and the operations made of it, implements `BlockSource` |
| `BlockParser`, `BlockParserProofs` | `GetRawBlock`, `ParseBlock` and the workers of storage on the operations, and the way of `GetScriptPubKeys` from a coin back to its script |
| `Lifecycle`, `LifecycleProofs` | `LoadConfiguration`, `main` in both modes, `bitcoind` as a child, the status call and the retry loop of Sync and the errors that end it, requests, shutdown |
| `DataApi`, `DataApiProofs` | `/block`, `/block/transaction`, `/account/balance`, `/account/coins` against a moving head and blocks stored ahead of it |
| `Construction`, `ConstructionProofs` | the construction calls, a client and what the node accepts |
| `Sums` | lemmas on sums of a function over a finite set, by induction on its size |
| `MCForkTree` | a small tree with two branches, for the runs |
| `MCIndexerLinear`, `MCIndexerFork`, `MCPrunedIndexer`, `MCNodeClient`, `MCBlockParser`, `MCDataApi`, `MCConstruction` | constants of the runs |

### Indexer

One action is what a goroutine does between two points at which another one can
see or change what it depends on.  A fetcher walks through `pc`:

| `pc` | code |
|---|---|
| `rawBlock` | the call of `client.GetRawBlock` in `Block` |
| `header` | `checkHeaderMatch` |
| `find`, `storage`, `cache`, `register` | `findCoin`: read `seen`; read head and coin in one database transaction; read `coinCache`; lock the table, look at head and seen again and register |
| `await`, `leave` | `findCoins`: wait for the channel; lock the table and give the listener up |
| `load`, `count`, `close` | `BlockSeen`: fill `coinCache`, increment `seen`, close the channels |
| `deliver` | the result is on its way to the sequencer |

The sequencer's `seqPc` follows `processBlocks`: `process` takes the next result
and commits it or removes the head; `clean` and `abort` are the rest of
`BlockAdded`, after its database transaction; `fetching` is the fetch of a block
that a reorg needs again, for which the sequencer itself runs `Block`.  `Restart`
keeps storage and forgets the rest, at any point.

Abstractions.  A coin, a transaction and a block are values; `TxOf` stands for
cutting the index off a coin identifier.  The counter `seen` is replaced by the set
`moved` of goroutines whose copy is out of date, which is all that is ever asked of
it.  `RemoveBlock` covers the genesis block as the code would, though all branches share
it.  A wait table entry has no channel: it is only ever
closed.

### The other modules

`Pruner` keeps heights only: of the tip, of the head, of what is requested and what
is pruned, and the number of past blocks.  How deep a reorg may go is not the node's
choice: the syncer removes only blocks of its `pastBlocks`, at most
`DefaultPastBlockLimit` of them, which `Sync` loads from storage when the process
starts.  `PrunedIndexer` runs `Next` of `Indexer` and the pruner's steps side by side
and instantiates `Pruner` with the heights of the pipeline (`Heights == INSTANCE
Pruner WITH ...`).  A reorg deeper than the past blocks ends the process in the
syncer and is no step of it.

`NodeClient` has one record per caller: the operation, the RPC method that is posted,
the reply, and what the operation has learnt so far.  The node serves, accepts,
prunes or refuses.  Asked to prune it may delete less, for it deletes whole files and
keeps its newest blocks, and answers with success all the same: what success says is
that the request was carried out (`prunes`).  `Timeout` ends an exchange without a
reply; `Break` is everything else that makes `httpClient.Do` or the decoding of the
body fail, before or after the node has acted.  `Source == INSTANCE
BlockSource WITH ...` takes the block that was looked at to be the one in the reply
that brings the hash: from there on a reorg changes nothing, for blocks are
immutable.

`BlockParser` lets the node mine any valid block of a few
transactions, transaction by transaction, and follows it through both loops of the
client into coin and balance storage; it may take blocks back again.  Operations
carry both of their numbers, for `GetScriptPubKeys` looks a coin up by one of them.
`Account` follows the code of `parseOutputAccount`: the script itself unless it
encodes exactly one address, although the comment above it speaks of the first.

`Lifecycle` has a process for each goroutine of the errgroup and for each fetcher, and walks
`main` through loading the configuration, launching `bitcoind`, opening the database
and starting the server, each of which may fail while the goroutines started before
already run.  Sync waits for the node, then alternates between the status call of the
syncer, which is not retried (`NetworkStatusFails`), and a range of blocks.  What
`Block` does after it has a block is one step, which may return an error
(`FindCoins`), as may the handlers that the sequencer calls (`SequencerFails`);
`broken` remembers that such an error was no consequence of a cancellation.

`DataApi` interleaves the reads of a request with `BlockSeen`, `BlockAdded` and
`BlockRemoved`, seen from storage.  A request names no block, a height or a hash.  A
hash finds what `BlockSeen` stored, whether it has been added or not; a height only
what has been added; a balance is the last one stored up to a height.

In `Construction` the client is free to hand each call something else than the call before it was
about; index and node may be anything at each call.  Amounts wrap at `Modulus`, which
stands for 2^64: three of the intents name amounts that do not fit.  `MatchOperations`
is the parser's loop over the operations as a recursive function of the position; the
inputs and outputs it collects are matched with coins and scripts by position only.
`MoneySupply` says that the coins a client may spend are together worth less than an
int64 can count; 2^63 satoshis are more than 4000 times the money there will ever be.
An account stands for its key.  In the code a key has several addresses, and `/parse`
of a signed transaction gives the witness address of the signer
(`src/services/construction_service.go:663-690`): where the properties say that two
accounts are the same, their keys are.  The node checks witnesses, the dust limit of
each output and the minimum relay fee for the virtual size, in which a count of
`CountLimit` (253) or more takes three bytes; it has no maximum fee, for
`SendRawTransaction` passes 0 for `maxfeerate` (`src/bitcoin/client.go:271-274`).

## Runs

| run | what it shows | bounds |
|---|---|---|
| `indexer_linear` | no fork: coins of seen blocks can be found until storage has them, no good head is removed, nothing is left behind, the indexer catches up | 4 blocks, 3 fetchers, semaphore 1, 1 restart |
| `indexer_fork` | inductive invariant `PipelineInv` (types included), storage = unspent coins, exact listener counts, no missing entry, lowest earliest block, no lost wakeup, fetches ahead of the head, refinement of `Ledger` | 7 blocks on 2 branches, 3 fetchers, semaphore 2, 1 restart; fetchers are symmetric |
| `indexer_reorg` | the indexer catches up after reorgs | as above, 2 fetchers; blocks of the branches depend on their common part |
| `indexer_stuck_wait` | **violated**: a wait that never ends | 2 fetchers, no restart |
| `lifecycle` | inductive invariant `LifecycleInv`; both modes and every failure at startup: database closed after its users, exact retry limit, no stop without a reason, no `bitcoind` left by an orderly stop; a cancelled context, and an exit of bitcoind, end the process, also while a request is handled | 1 fetcher, 2 retries, 3 faults |
| `lifecycle_close` | **violated**: the database is not always closed | 1 fetcher |
| `pruner` | nothing is pruned that is needed, requests are acceptable | depth 4, 2 past blocks, 1 restart, tip up to 10 |
| `pruned_indexer` | pipeline and pruner together: no fetch of a pruned block, refinement of `Pruner` | the fork, 2 fetchers, 1 restart, depth 2, 1 past block |
| `node_client` | block reads are single looks (refinement of `BlockSource`), success is true, every call ends | 4 blocks on 2 branches, 2 callers, height 1, 1 transaction |
| `block_parser` | inductive invariant `AccountingInv`, no wait for the block itself, no parse error, storage follows the node, balances are coins, every unspent coin leads to its own script | 4 blocks of up to 3 of 6 transactions, one mined twice |
| `data_api` | whole blocks, balances that match their block if it has been added | 7 blocks on 2 branches, 1 request by head, height or hash |
| `construction` | only what was asked for is accepted, the parse tells what is paid even if an amount wrapped, parses agree, an honest client at the suggested fee is accepted | 3 coins, 17 intents, 3 rates, 3 multipliers, amounts modulo 8192, counts of 3 and more in 3 bytes |

The bounds are chosen for the cases to happen.  On the linear chain two fetchers
wait on one entry (two outputs of a transaction spent by two blocks), one waits for
two transactions, and a block spends an output of its own.  On the fork a coin is
spent on both branches, one transaction is in both at different heights, and blocks
depend on blocks of their branch, with three blocks in flight above a head that is
removed.  A restart may come at every step.  `data_api` has one request, for
requests share nothing but storage; its proofs are for any number.  The pruner's
tip reaches beyond minimum height, depth and the past blocks of two processes.  In
`pruned_indexer` the reorg is one block deeper than the past blocks, so that it takes
a restart to get through it.  In `node_client` two callers are enough for one to
prune what the other is about to read; its tree has a reorg at height 1, which is the
height that is asked for and pruned.  `lifecycle` allows one fault more than the
retry limit.  It has one fetcher: the sequencer fails and cancels the pipeline under
it, as another fetcher would, and its safety theorems are for any number.
`construction` pays outputs above and below their dust limit, and fees at, above and
below the minimum; the count that takes three bytes is scaled down to 3, as `Modulus`
scales 2^64 down, and one intent has as many outputs.

Deadlock is checked in `indexer_linear`, `indexer_reorg`, `pruner`, `node_client`,
`block_parser`, `data_api` and `construction`.  The process of `Lifecycle` ends;
`indexer_fork` and `pruned_indexer` contain the stuck
wait of the first finding.

Refinements.  `indexer_fork` checks that the pipeline implements `Ledger`,
`pruned_indexer` that the pipeline with its past blocks moves as `Pruner` says, so
that what is proved of `Pruner` holds of it, and `node_client` that the client
implements `BlockSource`, which is what `Indexer` takes its calls of the client to be
(`GetRawBlock` and `StartRange` are single steps there).

Fairness.  `Indexer` and `Lifecycle` assume weak fairness of each goroutine: the Go
scheduler is preemptive, mutexes and the semaphore are granted in turn, and calls
to the node return (they have a timeout).  Nothing is assumed of the node's finding
blocks, of faults or of restarts, except that an interrupted `bitcoind` ends.  In
`NodeClient` each exchange is fair, not the operation: the HTTP client has a timeout
of 100 seconds, after which a request without a reply fails (`Timeout`), and the
goroutine of a caller that has its reply goes on (`GoOn`).  That an operation of up to
three exchanges ends is what `EveryCallEnds` then says.

## Two findings

1. *A wait that is never released* (`indexer_stuck_wait`).  A fetcher has block
   N+1 of the new branch and passes `checkHeaderMatch` while the head is N-1.  The
   sequencer adds block N of the old branch, and its abort pass for N+1 finds
   nothing.  Then the fetcher looks for a coin of the new branch, with head and seen
   unchanged since it read them, and registers.  Only the block that creates the
   coin, which nobody fetches before N is removed, or the next abort pass for N+1
   could release it; the sequencer waits for this fetch before it does either.  The
   comment at `src/indexer/indexer.go:393-395` promises that such waits are aborted.
2. *A nil block on shutdown* (`lifecycle_close`).  The retry loop of `Block`
   (`src/indexer/indexer.go:764`) ends without a block when the context is cancelled
   before the first attempt or between two, and `checkHeaderMatch` dereferences it.
   In the trace a signal comes after the syncer has its status and before a fetcher
   starts its call.  The panic keeps `main` from closing the database, against the
   comment at `src/main.go:194-195`.

Two limits of the code are written into the properties instead, each as a named
condition; without it TLC finds a counterexample at once.

* `WasAdded` in `BalancesMatchBlock`.  `BlockSeen` stores a block under its hash
  (`src/indexer/indexer.go:461`) before it is added, if it ever is.  A balance asked
  for by that hash is answered with that block and with the last balance up to its
  height (`src/indexer/indexer.go:938`), which is the one at the head.
* `CountsFit` in `HonestIsValid`.  `TransactionOverhead` (`src/bitcoin/types.go:86`) has
  one byte for the number of outputs, which takes three from 253 on; the estimate has
  less than that to spare.  At the minimum rate the suggested fee is then a satoshi
  below what `bitcoind` relays for.

## Proofs

Each proof module rests on one inductive invariant, a conjunction of named parts that
TLC checks first.  There is one lemma per action, lemmas on the operators the model
is made of, and the properties are corollaries.  Nothing is proved about the bounds
of the runs: the theorems hold for every value of the constants that satisfies the
`ASSUME`s of the modules.

### The sync pipeline

`IndexerProofs` proves `Spec => []Inv` for any block tree that satisfies the
assumptions of `Chain` (shape of the tree, what a valid block may spend), any finite
set of fetchers and any number of restarts.  `StorageIsUtxo` alone is not
inductive: that a block is added to its parent's coins needs the result in hand to
be of the next height (`SequencerOK`), and `ListenersExact` needs to know which
coins a goroutine listens for at each point (`LocalOK`: at the entry of a wait it
listens for what remains, outside of `findCoins` for nothing).  The listener count is
the cardinality of the set of waits.

The second part of the module adds three parts to it (`PipelineInv`):

* `RangeOK`: heights being handed out, fetched and kept are distinct and ahead of the
  head.  `FetchesAreAhead` follows.
* `OrphansOK`: only a block of height 2 or more waits or is taken for an orphan, for
  what the block after genesis spends is in storage.  Hence genesis is never removed,
  which the refinement of `Ledger` needs.
* `WakeupsOK`: a coin that got into `coinCache` after `findCoin` looked there is about
  to change `seen`, so the second look under the lock notices it.  That is what
  `NoLostWakeup` needs between the two critical sections of `BlockSeen`.

`FollowsLedger` is proved from these: the initial states map to initial states, and
every step is a step of `Ledger` or leaves head and coins alone.

The theorems on `SeenCoinsAreCached`, `NothingLeftBehind` and `HeadNeverMovesBack`
have the hypothesis `NoForks`, one block at every height, of any length: after a
reorg they do not hold, nor does the code promise them.  `LinearInv` says that nothing
is taken for an orphan or aborted, that a coin somebody waits for on an open channel
has not been seen, that `coinCache` is exactly what was seen and not yet added, and
that no height of the range is missing.  The parts need each other: that nothing is
aborted needs the wait of the next block to be closed before its abort pass, which
needs the block that creates the coin, one below, to have been seen.

### Pruner and composition

`PrunerProofs` proves that nothing needed is pruned for every depth, minimum height,
past-block limit and number of restarts with `(MaxRestarts + 1) * PastLimit <=
Depth`; in the code that is 10000 against 100, good for 99 restarts.  `NeededIsServed`
is not inductive.  The head never goes below `Floor`, the head minus the past blocks,
in this process, and a restart lowers the floor by a past-block limit at most;
`PrunerInv` says that request and pruned height keep a `Reserve` of one limit for
every restart to come below the floor.

`IndexerProofs` shows at its end that every step of the composition is a step of `Pruner`
under the mapping of heights (`FollowsPruner`), with `PipelineInv` for the facts about
head and range.  It takes the preservation of the pruner's invariant from
`PrunerProofs` through `INSTANCE` under the same mapping, and `FetchesAreServed`
follows from both invariants: a fetch is ahead of the head or of the reorg, and what
is pruned is below the floor.  `CompositionConstants` repeats the assumption on depth
and restarts and says that the tree has a highest block.

### The RPC client

`NodeClientProofs` proves `SuccessIsTrue` and the refinement of `BlockSource`, for any
tree and any number of callers.  `ClientInv` says for each caller which method belongs
to the operation it is in, that a reply is an error or an answer to this method (to
`pruneblockchain`: that the node carried the request out, however much it deleted), and
that the hash a block is asked for with is the one that was looked up.  The
refinement has one lemma per action: a look happens in the step that brings the hash,
and all others leave what was looked at alone, reorganisations included.

### The block parser

`BlockParserProofs` proves for any finite set of coins, any valid chain and any
removals that no block waits for itself, that parsing never fails, that coin storage
is the node's set of unspent coins and that scripts are found.  None of these is
inductive.  `ParserInv` keeps the whole history: the operations of every stored block
lead from the unspent coins before it to those after it, and back (`LinkOK`), so that
`RemoveBlock` can be undone as far as one likes.  `BlockOK` says what the block of the
node does, transaction by transaction; `ScanOK` and `ParseOK` say what both loops of
the client have got up to `pos`.  The duplicates of `skipTransactionOperations` create
nothing, which is where `BlockOK` tells them from other transactions.

Balances need more (`AccountingInv`).  A balance is the sum of the differences of all
stored blocks, so a second operation on a coin would be counted twice where a set of
coins would hide it.  `FreshOK` says that a transaction or a coin does not
come twice in the node's block and that a transaction is skipped exactly if it was
mined before; `OnceOK`, that a coin is created, spent or burnt by one successful
operation of its block; `TallyOK`, the same of every stored block, `OP_RETURN` outputs
included, which are worth something to the balance and are no coin.  A block then
changes a balance by what it creates and burns minus what it spends (`DeltaIs`), and
`BalanceOK` keeps a balance equal to the coins held and burnt at that height, on the
way back through `RemoveBlock` too.

`Sums` has the facts this needs: the sum over a union of disjoint sets, over the image
of an injective map, of a negated function, and of functions that agree.  They are by
induction on the cardinality.  The library's induction theorems take a predicate as a
parameter; here the induction is stated with a set `Good` of numbers instead, and
proved from the well-foundedness of the naturals.

### Lifecycle and data endpoints

`LifecycleProofs` proves for any number of fetchers and faults and any retry limit that the database is
closed after its users, that the retry limit is exact, that the context is cancelled
for a reason only and that `bitcoind` does not outlive an orderly stop.  The order in
which `main` starts things carries the argument (`StartupOK`): what has not been
started need not be waited for.  `RetriesOK` counts the faults behind each retry.
The reasons are a signal, the end of `bitcoind`, a server that ended, a `Block` that
gave up and an error of Sync that nothing retries, a single failed status call of the
syncer among them; a failed `GetRawBlock` within the limit is none.

`DataApiProofs` proves for any tree and any number of requests that answers made of
several reads belong to one block.  `RequestOK` says what has been read so far.  A
balance asked for by hash is included if the block had been added when it was looked
up (`WasAdded`).

### Construction

`ConstructionProofs` proves for any coins, intents, rates and multipliers, and a
client that hands over what it likes, that the node accepts only what the intent
asked for if its amounts fit, that a parse tells what is paid, that the parses before
and after signing agree, and that an honest client that pays no dust and has fewer
than `CountLimit` inputs and outputs is accepted.  None is inductive, for each call sees
only what the client brings.  `ConstructionInv` says of everything the client holds
before a call that it belongs to the operations it was made from.  Three things
carry the argument:

* a digest commits to the transaction and to the index of its input, so signatures
  in another order or of another transaction do not fit;
* what `MatchOperations` collects up to each position is proved by induction over the
  positions, so inputs and outputs are those of the operations, in their order;
* the fee an honest client leaves is at least the rate times the estimated size, which
  is at least the virtual size as long as the counts take one byte each; and its
  outputs do not wrap, for they are worth less than its coins (`MoneySupply`).

### Only model-checked

Liveness is out of the prover's reach: `CatchesUp`, `EveryCallEnds` and `StopEnds` hold
on the instances of their runs, and no theorem states them.  Every
safety property of a passing run is stated by a theorem.

## Not modelled

* The syncer's adaptive concurrency and its cache limit, and a reorg deeper than its
  past blocks, which ends the process.
* Errors of the database, other than ending the process (`Restart`, and `broken` in
  `Lifecycle`).
* Reasons of the node to refuse a transaction other than coins, witnesses, dust and
  the minimum fee: the submission may fail for any reason (`Fail`).
* What a request reads that is still served while the database is closed: badger
  decides it, and the answer is dropped with the process.
* JSON, the conversion of amounts from floating point, and metadata other than
  scripts.
* The network and mempool services, which check the mode and pass on one answer of
  the client or the head of storage; router, logger and error texts, which hold no
  state; `/construction/derive`, a function of the public key; and the mocks.

## Plan

Done: the sync pipeline with its abstract specification, the pruner and their
composition, the RPC client with its abstract specification, the block parser and
the scripts of coins, the lifecycle from configuration to exit, the data endpoints
and the construction endpoints; the inductive invariants of all of them, balances
included, and the refinements.

Next: a version of `Register` that looks for the abort pass, to show what repairs the
first finding, and the liveness of waits on the general fork under it.
