--------------------------------- MODULE Indexer ---------------------------------
(* The sync pipeline of indexer/indexer.go.  The syncer (rosetta-sdk-go, external) *)
(* runs fetcher goroutines that call Indexer.Block and Indexer.BlockSeen ahead of  *)
(* the chain's head, and one sequencer goroutine that calls BlockAdded and         *)
(* BlockRemoved in height order.  To parse a block a fetcher needs the coins its   *)
(* inputs spend.  It looks for them in storage and in the cache of coins of seen   *)
(* blocks, and otherwise waits, through the wait table, for the block that creates *)
(* them.                                                                           *)
(*                                                                                 *)
(* An action is what a goroutine does between two points where another one can     *)
(* see or change what it depends on: a critical section, a database transaction, a *)
(* call to the node.                                                               *)
EXTENDS Chain, WaitTable

CONSTANTS
    Fetchers,      \* the syncer's fetching goroutines
    Sequencer,     \* the goroutine that runs sequenceBlocks
    SemSize,       \* weight of seenSemaphore: runtime.NumCPU()
    MaxRestarts,   \* bound: how often the process is killed and started again
    NoBlock,       \* no head block yet
    NoCoin,        \* the goroutine looks for no coin
    OrphanHead     \* syncer.ErrOrphanHead as the result of a fetch

Procs == Fetchers \cup {Sequencer}
Results == Blocks \cup {OrphanHead}

ASSUME IndexerConstants ==
    /\ Sequencer \notin Fetchers
    /\ IsFiniteSet(Fetchers)
    /\ IsFiniteSet(Coins)
    /\ SemSize \in Nat \ {0}
    /\ MaxRestarts \in Nat
    /\ NoBlock \notin Blocks
    /\ NoCoin \notin Coins
    /\ OrphanHead \notin Blocks \cup {NoBlock}

VARIABLES
    best,        \* the node's best block
    head,        \* head block in block storage
    coins,       \* coins in coin storage, written in the same transaction as head
    coinCache,   \* keys of Indexer.coinCache
    waiter,      \* Indexer.waiter
    moved,       \* goroutines whose startSeen differs from Indexer.seen
    pc,          \* pc[p]: where goroutine p is, see PCs
    index,       \* index[p]: the height p was asked to fetch
    block,       \* block[p]: the raw block p works on
    pending,     \* pending[p]: coins findCoins has still to look up in this pass
    remaining,   \* remaining[p]: remainingCoins of this pass
    listening,   \* listening[p]: those whose listener p has not given up yet
    cur,         \* cur[p]: the coin p looks up or waits for
    snap,        \* snap[p]: head block in p's read transaction (coinHeadBlock)
    orphan,      \* orphan[p]: p's fetch ends in ErrOrphanHead
    seqPc,       \* where the sequencer is in sequenceBlocks, see SeqPCs
    endIndex,    \* last height of the range being synced
    nextFetch,   \* next height handed to a fetcher
    fetched,     \* the syncer's cache of fetch results, by height
    reorgStart,  \* height at which processBlocks saw a reorg, -1: none
    restarts     \* how often the process was restarted

node == <<best>>
store == <<head, coins>>
shared == <<coinCache, waiter, moved>>
lookup == <<pending, remaining, listening, cur, snap>>
local == <<pc, index, block, orphan, lookup>>
syncer == <<seqPc, endIndex, nextFetch, fetched, reorgStart>>
vars == <<node, store, shared, local, syncer, restarts>>

PCs == {"idle", "rawBlock", "header", "find", "storage", "cache", "register",
        "await", "leave", "load", "count", "close", "deliver", "failed"}
SeqPCs == {"recv", "process", "fetching", "clean", "abort"}

TypeOK ==
    /\ best \in Blocks
    /\ head \in Blocks \cup {NoBlock}
    /\ coins \subseteq Coins
    /\ coinCache \subseteq Coins
    /\ IsTable(waiter, Txs)
    /\ moved \subseteq Procs
    /\ pc \in [Procs -> PCs]
    /\ index \in [Procs -> Nat]
    /\ block \in [Procs -> Blocks \cup {NoBlock}]
    /\ pending \in [Procs -> SUBSET Coins]
    /\ remaining \in [Procs -> SUBSET Coins]
    /\ listening \in [Procs -> SUBSET Coins]
    /\ cur \in [Procs -> Coins \cup {NoCoin}]
    /\ snap \in [Procs -> Blocks \cup {NoBlock}]
    /\ orphan \in [Procs -> BOOLEAN]
    /\ seqPc \in SeqPCs
    /\ endIndex \in Nat \cup {-1}
    /\ nextFetch \in Nat
    /\ DOMAIN fetched \subseteq Nat
    /\ fetched \in [DOMAIN fetched -> Results]
    /\ reorgStart \in Nat \cup {-1}
    /\ restarts \in 0 .. MaxRestarts

(* The syncer's nextIndex.  It follows head: Sync starts it at head.Index + 1,     *)
(* adding a block moves it past the block and removing one moves it to the block.  *)
nextIndex == IF head = NoBlock THEN 0 ELSE Height[head] + 1

--------------------------------------------------------------------------------
(* An empty database, a node that has at least its genesis block, and a process    *)
(* that has just called Sync.                                                      *)
Init ==
    /\ best \in Blocks
    /\ head = NoBlock
    /\ coins = {}
    /\ coinCache = {}
    /\ waiter = EmptyTable
    /\ moved = {}
    /\ pc = [p \in Procs |-> "idle"]
    /\ index = [p \in Procs |-> 0]
    /\ block = [p \in Procs |-> NoBlock]
    /\ pending = [p \in Procs |-> {}]
    /\ remaining = [p \in Procs |-> {}]
    /\ listening = [p \in Procs |-> {}]
    /\ cur = [p \in Procs |-> NoCoin]
    /\ snap = [p \in Procs |-> NoBlock]
    /\ orphan = [p \in Procs |-> FALSE]
    /\ seqPc = "recv"
    /\ endIndex = -1
    /\ nextFetch = 0
    /\ fetched = EmptyTable
    /\ reorgStart = -1
    /\ restarts = 0

--------------------------------------------------------------------------------
(* The node                                                                        *)

(* The node adopts a longer branch.                                                *)
NodeAdvance ==
    /\ best' \in {b \in Blocks : Height[b] > Height[best]}
    /\ UNCHANGED <<store, shared, local, syncer, restarts>>

--------------------------------------------------------------------------------
(* Indexer.Block, run by a fetcher or, during a reorg, by the sequencer            *)

(* client.GetRawBlock: the block at this height on the node's best branch.         *)
GetRawBlock(p) ==
    /\ pc[p] = "rawBlock"
    /\ \E b \in Branch[best] :
          /\ Height[b] = index[p]
          /\ block' = [block EXCEPT ![p] = b]
          /\ pending' = [pending EXCEPT ![p] = Needs(b)]
    /\ pc' = [pc EXCEPT ![p] = "header"]
    /\ UNCHANGED <<node, store, shared, index, remaining, listening, cur, snap,
                   orphan, syncer, restarts>>

(* Where findCoins goes next when toFind is still to be looked up and toAwait was  *)
(* not found: the next coin, the first wait, or the end of Block.  The order of a  *)
(* block's inputs is arbitrary.                                                    *)
ProceedWith(p, toFind, toAwait) ==
    /\ pc' = [pc EXCEPT ![p] = IF toFind # {} THEN "find"
                               ELSE IF toAwait # {} THEN "await" ELSE "load"]
    /\ \E c \in IF toFind # {} THEN toFind
                ELSE IF toAwait # {} THEN toAwait ELSE {NoCoin} :
          cur' = [cur EXCEPT ![p] = c]

(* b is the next block but does not extend the head.                               *)
Disconnected(b) ==
    /\ head # NoBlock
    /\ Height[b] = Height[head] + 1
    /\ Parent[b] # head

(* checkHeaderMatch, at the start of every pass of findCoins                       *)
CheckHeaderMatch(p) ==
    /\ pc[p] = "header"
    /\ \/ /\ Disconnected(block[p])
          /\ pc' = [pc EXCEPT ![p] = "deliver"]
          /\ orphan' = [orphan EXCEPT ![p] = TRUE]
          /\ pending' = [pending EXCEPT ![p] = {}]
          /\ UNCHANGED cur
       \/ /\ ~Disconnected(block[p])
          /\ ProceedWith(p, pending[p], {})
          /\ UNCHANGED <<orphan, pending>>
    /\ UNCHANGED <<node, store, shared, index, block, remaining, listening, snap,
                   syncer, restarts>>

(* findCoin: startSeen := i.seen                                                   *)
ReadSeen(p) ==
    /\ pc[p] = "find"
    /\ moved' = moved \ {p}
    /\ pc' = [pc EXCEPT ![p] = "storage"]
    /\ UNCHANGED <<node, store, coinCache, waiter, index, block, orphan, lookup,
                   syncer, restarts>>

(* The coin p looks up is found.                                                   *)
Found(p) ==
    /\ ProceedWith(p, pending[p] \ {cur[p]}, remaining[p])
    /\ pending' = [pending EXCEPT ![p] = @ \ {cur[p]}]
    /\ snap' = [snap EXCEPT ![p] = NoBlock]

(* findCoin: head block and coin are read in one database transaction.  Without a  *)
(* head block the goroutine sleeps and starts over.                                *)
ReadStorage(p) ==
    /\ pc[p] = "storage"
    /\ \/ /\ head = NoBlock
          /\ pc' = [pc EXCEPT ![p] = "find"]
          /\ UNCHANGED lookup
       \/ /\ head # NoBlock
          /\ cur[p] \in coins
          /\ Found(p)
          /\ UNCHANGED <<remaining, listening>>
       \/ /\ head # NoBlock
          /\ cur[p] \notin coins
          /\ pc' = [pc EXCEPT ![p] = "cache"]
          /\ snap' = [snap EXCEPT ![p] = head]
          /\ UNCHANGED <<pending, remaining, listening, cur>>
    /\ UNCHANGED <<node, store, shared, index, block, orphan, syncer, restarts>>

(* findCoin: look into coinCache, under its own mutex.                             *)
ReadCache(p) ==
    /\ pc[p] = "cache"
    /\ \/ /\ cur[p] \in coinCache
          /\ Found(p)
          /\ UNCHANGED <<remaining, listening>>
       \/ /\ cur[p] \notin coinCache
          /\ pc' = [pc EXCEPT ![p] = "register"]
          /\ UNCHANGED lookup
    /\ UNCHANGED <<node, store, shared, index, block, orphan, syncer, restarts>>

(* Mutant: seen is not compared again.                                             *)
CurrentHeadOnly(p) == head = snap[p]

(* Mutant: the head is not compared again.                                         *)
CurrentSeenOnly(p) == p \notin moved

(* What p has read of head and seen is still the case.                             *)
Current(p) == head = snap[p] /\ p \notin moved

(* findCoin, with the wait table locked: start over if the head or seen changed    *)
(* since they were read, otherwise become a listener.                              *)
Register(p) ==
    /\ pc[p] = "register"
    /\ snap' = [snap EXCEPT ![p] = NoBlock]
    /\ \/ /\ ~Current(p)
          /\ pc' = [pc EXCEPT ![p] = "find"]
          /\ UNCHANGED <<waiter, pending, remaining, listening, cur>>
       \/ /\ Current(p)
          /\ waiter' = Join(waiter, TxOf[cur[p]], Height[block[p]])
          /\ pending' = [pending EXCEPT ![p] = @ \ {cur[p]}]
          /\ remaining' = [remaining EXCEPT ![p] = @ \cup {cur[p]}]
          /\ listening' = [listening EXCEPT ![p] = @ \cup {cur[p]}]
          /\ ProceedWith(p, pending[p] \ {cur[p]}, listening[p] \cup {cur[p]})
    /\ UNCHANGED <<node, store, coinCache, moved, index, block, orphan, syncer,
                   restarts>>

(* findCoins gets the entry of cur[p] and waits for its channel.  An entry that is  *)
(* gone is the error "not in waiter", which stops the syncer.                      *)
Await(p) ==
    LET tx == TxOf[cur[p]] IN
    /\ pc[p] = "await"
    /\ tx \in DOMAIN waiter => waiter[tx].closed
    /\ pc' = [pc EXCEPT ![p] = IF tx \in DOMAIN waiter THEN "leave" ELSE "failed"]
    /\ UNCHANGED <<node, store, shared, index, block, orphan, lookup, syncer, restarts>>

(* The channel is closed: findCoins locks the table, gets the entry again and      *)
(* gives up its listener.  After the last one an aborted wait makes the fetch an   *)
(* orphan; otherwise findCoins calls itself for the remaining coins.               *)
StopListening(p) ==
    LET tx == TxOf[cur[p]]
        present == tx \in DOMAIN waiter
        left == listening[p] \ {cur[p]}
        abort == orphan[p] \/ (present /\ waiter[tx].aborted)
        again == present /\ left = {} /\ ~abort
    IN
    /\ pc[p] = "leave"
    /\ waiter' = IF present THEN Leave(waiter, tx) ELSE waiter
    /\ listening' = [listening EXCEPT ![p] = left]
    /\ orphan' = [orphan EXCEPT ![p] = abort]
    /\ pc' = [pc EXCEPT ![p] = IF ~present THEN "failed"
                               ELSE IF left # {} THEN "await"
                               ELSE IF abort THEN "deliver" ELSE "header"]
    /\ \E c \in IF left # {} THEN left ELSE {NoCoin} :
          cur' = [cur EXCEPT ![p] = c]
    /\ pending' = [pending EXCEPT ![p] = IF again THEN remaining[p] ELSE {}]
    /\ remaining' = [remaining EXCEPT ![p] = IF left = {} THEN {} ELSE @]
    /\ UNCHANGED <<node, store, coinCache, moved, index, block, snap, syncer,
                   restarts>>

--------------------------------------------------------------------------------
(* Indexer.BlockSeen, called by the syncer for every fetched block                 *)

(* Acquire seenSemaphore and load the block's new coins into coinCache.            *)
LoadCache(p) ==
    /\ pc[p] = "load"
    /\ Cardinality({q \in Procs : pc[q] \in {"count", "close"}}) < SemSize
    /\ coinCache' = coinCache \cup Creates[block[p]]
    /\ pc' = [pc EXCEPT ![p] = "count"]
    /\ UNCHANGED <<node, store, waiter, moved, index, block, orphan, lookup,
                   syncer, restarts>>

(* i.seen++ and SeeBlock: no one's startSeen is current any more.                  *)
CountSeen(p) ==
    /\ pc[p] = "count"
    /\ moved' = Procs
    /\ pc' = [pc EXCEPT ![p] = "close"]
    /\ UNCHANGED <<node, store, coinCache, waiter, index, block, orphan, lookup,
                   syncer, restarts>>

(* Close the channels of the block's transactions and release the semaphore.       *)
CloseChannels(p) ==
    /\ pc[p] = "close"
    /\ waiter' = CloseAll(waiter, TxsIn(block[p]))
    /\ pc' = [pc EXCEPT ![p] = "deliver"]
    /\ UNCHANGED <<node, store, coinCache, moved, index, block, orphan, lookup,
                   syncer, restarts>>

--------------------------------------------------------------------------------
(* The syncer: handing out heights and collecting results                          *)

(* The fetchers have nothing left to do and their results are processed.           *)
RangeDone ==
    /\ seqPc = "recv"
    /\ nextFetch > endIndex
    /\ \A f \in Fetchers : pc[f] = "idle"

(* Mutant: Sync starts at the head's own height.                                   *)
StartRangeAtHead ==
    /\ RangeDone
    /\ Height[best] >= nextIndex
    /\ endIndex' = Height[best]
    /\ nextFetch' = IF head = NoBlock THEN 0 ELSE Height[head]
    /\ fetched' = EmptyTable
    /\ UNCHANGED <<node, store, shared, local, seqPc, reorgStart, restarts>>

(* The next range reaches up to the tip NetworkStatus reports.                     *)
StartRange ==
    /\ RangeDone
    /\ Height[best] >= nextIndex
    /\ endIndex' = Height[best]
    /\ nextFetch' = nextIndex
    /\ fetched' = EmptyTable
    /\ UNCHANGED <<node, store, shared, local, seqPc, reorgStart, restarts>>

(* Nothing to sync: the syncer sleeps and asks the node again.                     *)
AtTip ==
    /\ RangeDone
    /\ Height[best] < nextIndex
    /\ UNCHANGED vars

TakeIndex(f) ==
    /\ pc[f] = "idle"
    /\ nextFetch <= endIndex
    /\ index' = [index EXCEPT ![f] = nextFetch]
    /\ nextFetch' = nextFetch + 1
    /\ pc' = [pc EXCEPT ![f] = "rawBlock"]
    /\ UNCHANGED <<node, store, shared, block, orphan, lookup, seqPc, endIndex,
                   fetched, reorgStart, restarts>>

Result(p) == IF orphan[p] THEN OrphanHead ELSE block[p]

(* p has handed over its result and forgets about the block.                       *)
Forget(p) ==
    /\ pc' = [pc EXCEPT ![p] = "idle"]
    /\ index' = [index EXCEPT ![p] = 0]
    /\ block' = [block EXCEPT ![p] = NoBlock]
    /\ orphan' = [orphan EXCEPT ![p] = FALSE]
    /\ UNCHANGED lookup

(* A fetcher's result reaches sequenceBlocks, which calls processBlocks.           *)
Deliver(f) ==
    /\ pc[f] = "deliver"
    /\ seqPc = "recv"
    /\ fetched' = [h \in DOMAIN fetched \cup {index[f]} |->
                      IF h = index[f] THEN Result(f) ELSE fetched[h]]
    /\ reorgStart' = -1
    /\ seqPc' = "process"
    /\ Forget(f)
    /\ UNCHANGED <<node, store, shared, endIndex, nextFetch, restarts>>

--------------------------------------------------------------------------------
(* processBlocks and the handlers it calls                                         *)

(* Mutant: spent coins stay in storage.                                            *)
AddBlockKeepsSpent(b) ==
    /\ head' = b
    /\ coins' = coins \cup Creates[b]

(* BlockAdded commits the block: head and coins change in one transaction.         *)
AddBlock(b) ==
    /\ head' = b
    /\ coins' = (coins \cup Creates[b]) \ Spends[b]

(* Mutant: the coins the removed block spent do not come back.                     *)
RemoveBlockLosesSpent(b) ==
    /\ head' = IF b = Genesis THEN NoBlock ELSE Parent[b]
    /\ coins' = coins \ Creates[b]

(* BlockRemoved: the head goes back to its parent, its coins are taken out and the *)
(* coins it spent come back.                                                       *)
RemoveBlock(b) ==
    /\ head' = IF b = Genesis THEN NoBlock ELSE Parent[b]
    /\ coins' = (coins \cup Spends[b]) \ Creates[b]

(* r is a block that can be put on top of the head.                                *)
Extends(r) == r # OrphanHead /\ (head = NoBlock \/ Parent[r] = head)

(* processBlock: an orphan, or a block that does not extend the head, removes the  *)
(* head; any other block is added.                                                 *)
ProcessBlock(r) ==
    \/ /\ head # NoBlock
       /\ ~Extends(r)
       /\ RemoveBlock(head)
       /\ reorgStart' = IF reorgStart = -1 THEN nextIndex ELSE reorgStart
       /\ seqPc' = "process"
    \/ /\ Extends(r)
       /\ AddBlock(r)
       /\ seqPc' = "clean"
       /\ UNCHANGED reorgStart

(* The next result is in the syncer's cache.                                       *)
ProcessCached ==
    /\ seqPc = "process"
    /\ nextIndex <= endIndex
    /\ nextIndex \in DOMAIN fetched
    /\ ProcessBlock(fetched[nextIndex])
    /\ fetched' = [h \in DOMAIN fetched \ {nextIndex} |-> fetched[h]]
    /\ UNCHANGED <<node, shared, local, endIndex, nextFetch, restarts>>

(* It is not, and the height was processed before: fetch it again.                 *)
Refetch ==
    /\ seqPc = "process"
    /\ nextIndex <= endIndex
    /\ nextIndex \notin DOMAIN fetched
    /\ reorgStart >= nextIndex
    /\ index' = [index EXCEPT ![Sequencer] = nextIndex]
    /\ pc' = [pc EXCEPT ![Sequencer] = "rawBlock"]
    /\ seqPc' = "fetching"
    /\ UNCHANGED <<node, store, shared, block, orphan, lookup, endIndex, nextFetch,
                   fetched, reorgStart, restarts>>

ProcessRefetched ==
    /\ seqPc = "fetching"
    /\ pc[Sequencer] = "deliver"
    /\ ProcessBlock(Result(Sequencer))
    /\ Forget(Sequencer)
    /\ UNCHANGED <<node, shared, endIndex, nextFetch, fetched, restarts>>

(* It is not, and some fetcher will bring it.                                      *)
WaitForResults ==
    /\ seqPc = "process"
    /\ \/ nextIndex > endIndex
       \/ nextIndex \notin DOMAIN fetched /\ reorgStart < nextIndex
    /\ seqPc' = "recv"
    /\ UNCHANGED <<node, store, shared, local, endIndex, nextFetch, fetched,
                   reorgStart, restarts>>

(* Mutant: the whole cache is emptied.                                             *)
CleanWholeCache ==
    /\ seqPc = "clean"
    /\ coinCache' = {}
    /\ seqPc' = "abort"
    /\ UNCHANGED <<node, store, waiter, moved, local, endIndex, nextFetch, fetched,
                   reorgStart, restarts>>

(* Mutant: the coins the block spends are taken out instead.                       *)
CleanSpentCoins ==
    /\ seqPc = "clean"
    /\ coinCache' = coinCache \ Spends[head]
    /\ seqPc' = "abort"
    /\ UNCHANGED <<node, store, waiter, moved, local, endIndex, nextFetch, fetched,
                   reorgStart, restarts>>

(* BlockAdded: take the added block's coins out of coinCache.                      *)
CleanCache ==
    /\ seqPc = "clean"
    /\ coinCache' = coinCache \ Creates[head]
    /\ seqPc' = "abort"
    /\ UNCHANGED <<node, store, waiter, moved, local, endIndex, nextFetch, fetched,
                   reorgStart, restarts>>

(* BlockAdded: abort the waits of the block after it.                              *)
AbortWaits ==
    /\ seqPc = "abort"
    /\ waiter' = AbortNext(waiter, Height[head] + 1)
    /\ seqPc' = "process"
    /\ UNCHANGED <<node, store, coinCache, moved, local, endIndex, nextFetch,
                   fetched, reorgStart, restarts>>

(* The process is killed or exits with an error and is started again: storage      *)
(* survives, everything else is new.                                               *)
Restart ==
    /\ restarts < MaxRestarts
    /\ restarts' = restarts + 1
    /\ coinCache' = {}
    /\ waiter' = EmptyTable
    /\ moved' = {}
    /\ pc' = [p \in Procs |-> "idle"]
    /\ index' = [p \in Procs |-> 0]
    /\ block' = [p \in Procs |-> NoBlock]
    /\ pending' = [p \in Procs |-> {}]
    /\ remaining' = [p \in Procs |-> {}]
    /\ listening' = [p \in Procs |-> {}]
    /\ cur' = [p \in Procs |-> NoCoin]
    /\ snap' = [p \in Procs |-> NoBlock]
    /\ orphan' = [p \in Procs |-> FALSE]
    /\ seqPc' = "recv"
    /\ endIndex' = -1
    /\ nextFetch' = 0
    /\ fetched' = EmptyTable
    /\ reorgStart' = -1
    /\ UNCHANGED <<node, store>>

--------------------------------------------------------------------------------
(* A step of Indexer.Block or Indexer.BlockSeen in goroutine p                     *)
ProcStep(p) ==
    \/ GetRawBlock(p) \/ CheckHeaderMatch(p) \/ ReadSeen(p) \/ ReadStorage(p)
    \/ ReadCache(p) \/ Register(p) \/ Await(p) \/ StopListening(p)
    \/ LoadCache(p) \/ CountSeen(p) \/ CloseChannels(p)

FetcherStep(f) == TakeIndex(f) \/ Deliver(f)

SequencerStep ==
    \/ ProcessCached \/ Refetch \/ ProcessRefetched \/ WaitForResults
    \/ CleanCache \/ AbortWaits

Next ==
    \/ NodeAdvance
    \/ \E p \in Procs : ProcStep(p)
    \/ \E f \in Fetchers : FetcherStep(f)
    \/ SequencerStep \/ StartRange \/ AtTip
    \/ Restart

Spec == Init /\ [][Next]_vars

(* Every goroutine is scheduled.  The node need not find blocks and the process    *)
(* need not be restarted.                                                          *)
Fairness ==
    /\ \A p \in Procs : WF_vars(ProcStep(p))
    /\ \A f \in Fetchers : WF_vars(FetcherStep(f))
    /\ WF_vars(SequencerStep)
    /\ WF_vars(StartRange)

FairSpec == Spec /\ Fairness
================================================================================
