--------------------------- MODULE IndexerProperties ---------------------------
(* What makes the sync pipeline correct.  The first group holds whatever the node *)
(* does; the second is about a chain without forks, where no reorg can excuse a   *)
(* lost coin or a retry; the third says that the indexer gets where it should.    *)
EXTENDS Indexer

--------------------------------------------------------------------------------
(* Coin storage is exactly the set of unspent coins of the head's branch, through *)
(* every sequence of BlockAdded, BlockRemoved and restarts.                       *)
StorageIsUtxo == coins = IF head = NoBlock THEN {} ELSE Utxo(head)

(* The waits of the goroutines for transaction t: one per coin.                   *)
Waits(t) == {w \in Procs \X Coins : w[2] \in listening[w[1]] /\ TxOf[w[2]] = t}

(* The listeners count of a wait table entry is the number of waits that still    *)
(* rely on it, and an entry exists exactly as long as there is one: findCoins     *)
(* neither deletes an entry under another listener nor leaves one behind.         *)
ListenersExact ==
    \A t \in Txs : /\ t \in DOMAIN waiter <=> Waits(t) # {}
                   /\ t \in DOMAIN waiter =>
                          waiter[t].listeners = Cardinality(Waits(t))

(* The error "transaction not in waiter" of findCoins (whose second return keeps  *)
(* the wait table locked) is never taken.                                         *)
NoMissingEntry == \A p \in Procs : pc[p] # "failed"

(* As long as a channel is open, earliestBlock is the lowest height that waits    *)
(* for it.  BlockAdded compares it with the next height only, so an entry with    *)
(* any other value would never be aborted.                                        *)
EarliestIsLowest ==
    \A t \in DOMAIN waiter :
        ~waiter[t].closed =>
            /\ \E w \in Waits(t) : Height[block[w[1]]] = waiter[t].earliest
            /\ \A w \in Waits(t) : Height[block[w[1]]] >= waiter[t].earliest

(* No wakeup is lost: when a coin is in coinCache and somebody still waits for    *)
(* its transaction on an open channel, a BlockSeen of a block with that           *)
(* transaction is on its way to closing the channel.                              *)
NoLostWakeup ==
    \A p \in Procs : \A c \in listening[p] \cap coinCache :
        ~waiter[TxOf[c]].closed =>
            \E q \in Procs : pc[q] \in {"count", "close"} /\ c \in Creates[block[q]]

(* Every height a fetcher works on, and every result that was kept, is still      *)
(* ahead of the head: no result can be applied to a chain that has already passed *)
(* its height.                                                                    *)
FetchesAreAhead ==
    /\ \A f \in Fetchers : pc[f] # "idle" => index[f] >= nextIndex
    /\ \A h \in DOMAIN fetched : seqPc \in {"recv", "process"} => h >= nextIndex

(* The storage the indexer writes behaves like the ledger.                        *)
Promise == INSTANCE Ledger WITH head <- head, coins <- coins
FollowsLedger == Promise!LedgerSpec

--------------------------------------------------------------------------------
(* Where a goroutine is looking up coins.                                         *)
Looking == {"find", "storage", "cache", "register"}

(* What the program counter of a goroutine says about its local variables.        *)
LocalOK(p) ==
    /\ pc[p] \notin {"idle", "rawBlock"} =>
           block[p] \in Blocks /\ Height[block[p]] = index[p]
    /\ pc[p] \in Looking => cur[p] \in pending[p]
    /\ pc[p] \in Looking => remaining[p] = listening[p]
    /\ pc[p] \in {"await", "leave"} => cur[p] \in listening[p]
    /\ pc[p] \notin Looking \cup {"await", "leave"} =>
           listening[p] = {} /\ remaining[p] = {}
    /\ pending[p] \cap listening[p] = {}
    /\ pc[p] # "failed"

(* What the sequencer's program counter says.                                     *)
SequencerOK ==
    /\ seqPc \in {"clean", "abort"} => head # NoBlock
    /\ seqPc = "fetching" <=> pc[Sequencer] # "idle"
    /\ seqPc = "fetching" => index[Sequencer] = nextIndex
    /\ \A h \in DOMAIN fetched :
           fetched[h] # OrphanHead => Height[fetched[h]] = h

(* The inductive invariant.  StorageIsUtxo needs to know that the block that is   *)
(* added has the height of the next block; ListenersExact needs to know which     *)
(* coins a goroutine listens for at each point of findCoins.                      *)
Inv ==
    /\ TypeOK
    /\ \A p \in Procs : LocalOK(p)
    /\ SequencerOK
    /\ StorageIsUtxo
    /\ ListenersExact

(* A goroutine that fetches the height n is ahead of the head and of the reorg    *)
(* that is being processed, and the syncer does not have its result yet.          *)
Ahead(n) ==
    /\ nextIndex <= n /\ reorgStart < n
    /\ n < nextFetch /\ n <= endIndex

(* The heights of a range: those still to be handed out, those being fetched and  *)
(* those whose result is kept are distinct and ahead of the head.  Only heights   *)
(* up to the start of a reorg are fetched again.                                  *)
RangeOK ==
    /\ endIndex <= Height[best] /\ reorgStart <= endIndex
    /\ nextFetch <= endIndex => nextIndex <= nextFetch /\ reorgStart < nextFetch
    /\ seqPc = "recv" => reorgStart < nextIndex
    /\ seqPc = "fetching" => nextIndex <= reorgStart
    /\ \A f \in Fetchers :
           pc[f] # "idle" => Ahead(index[f]) /\ index[f] \notin DOMAIN fetched
    /\ \A f, g \in Fetchers :
           f # g /\ pc[f] # "idle" /\ pc[g] # "idle" => index[f] # index[g]
    /\ \A h \in DOMAIN fetched : Ahead(h)

(* Only blocks above the first two wait for a coin or are taken for an orphan:    *)
(* what the block after genesis spends is in storage as soon as there is a head.  *)
OrphanOK(p) ==
    /\ pc[p] \notin {"idle", "rawBlock"} =>
           pending[p] \cup remaining[p] \cup listening[p] \subseteq Needs(block[p])
    /\ pc[p] \in {"cache", "register"} => snap[p] \in Blocks /\ cur[p] \notin Utxo(snap[p])
    /\ listening[p] # {} => index[p] >= 2
    /\ orphan[p] => pc[p] \notin {"idle", "rawBlock"} /\ index[p] >= 2

(* Genesis is never removed.                                                      *)
OrphansOK ==
    /\ \A p \in Procs : OrphanOK(p)
    /\ \A h \in DOMAIN fetched : fetched[h] = OrphanHead => h >= 2

(* What findCoin has decided before it takes the lock of the wait table still     *)
(* counts: a coin that got into coinCache meanwhile is about to change seen, and  *)
(* a channel that was closed stays closed.                                        *)
WakeOK(p) ==
    /\ pc[p] = "leave" => waiter[TxOf[cur[p]]].closed
    /\ pc[p] = "register" /\ cur[p] \in coinCache /\ p \notin moved =>
           \E q \in Procs : pc[q] = "count" /\ cur[p] \in Creates[block[q]]

WakeupsOK ==
    /\ \A p \in Procs : WakeOK(p)
    /\ EarliestIsLowest
    /\ NoLostWakeup

(* The inductive invariant with the parts about heights, orphans and wakeups.     *)
PipelineInv == Inv /\ RangeOK /\ OrphansOK /\ WakeupsOK

--------------------------------------------------------------------------------
(* On a chain without forks BlockRemoved is never called, so no fetch was taken   *)
(* for an orphan by mistake: the head never moves back.                           *)
HeadNeverMovesBack ==
    [][head # NoBlock => head' # NoBlock /\ Height[head'] >= Height[head]]_vars

(* On a chain without forks, the coins of a block whose result waits to be added  *)
(* can be found: they stay in coinCache until storage has them.                   *)
SeenCoinsAreCached ==
    \A h \in DOMAIN fetched :
        fetched[h] # OrphanHead => Creates[fetched[h]] \subseteq coinCache

(* When a range of a chain without forks is done nothing is left behind: no wait  *)
(* table entry, no cached coin, no result that was fetched and dropped.           *)
NothingLeftBehind ==
    RangeDone => waiter = EmptyTable /\ coinCache = {} /\ fetched = EmptyTable

(* The chain has no forks: one block at every height.                             *)
NoForks == \A a, b \in Blocks : Height[a] = Height[b] => a = b

(* Without forks there are no orphans, no aborted waits and nothing is fetched    *)
(* again.                                                                         *)
NoOrphans ==
    /\ reorgStart = -1 /\ pc[Sequencer] = "idle"
    /\ \A p \in Procs : ~orphan[p]
    /\ \A h \in DOMAIN fetched : fetched[h] # OrphanHead
    /\ \A t \in DOMAIN waiter : ~waiter[t].aborted

(* No block that creates c has been seen, as far as its BlockSeen has got past    *)
(* the points in late.                                                            *)
NotSeen(c, late) ==
    /\ \A h \in DOMAIN fetched : c \notin Creates[fetched[h]]
    /\ \A q \in Procs : pc[q] \in late => c \notin Creates[block[q]]

(* A coin somebody waits for, on an open channel, has yet to be seen.  The head   *)
(* findCoin has read is the head or below it.                                     *)
WaitsAreJustified ==
    \A p \in Procs :
        /\ \A c \in listening[p] :
               ~waiter[TxOf[c]].closed =>
                   /\ NotSeen(c, {"deliver"})
                   /\ \A a \in Blocks : c \in Creates[a] => Height[a] >= nextIndex
        /\ pc[p] = "register" /\ Current(p) => NotSeen(cur[p], {"close", "deliver"})
        /\ pc[p] \in {"cache", "register"} => Height[snap[p]] < nextIndex

(* coinCache holds the coins of the blocks that are seen and not added yet.       *)
Loaded == {"count", "close", "deliver"}
CacheIsExact ==
    /\ SeenCoinsAreCached
    /\ \A q \in Procs : pc[q] \in Loaded => Creates[block[q]] \subseteq coinCache
    /\ \A c \in coinCache :
           \/ \E h \in DOMAIN fetched : c \in Creates[fetched[h]]
           \/ \E q \in Procs : pc[q] \in Loaded /\ c \in Creates[block[q]]
           \/ seqPc = "clean" /\ c \in Creates[head]

(* Every height of the range is still to be handed out, being fetched, or kept,   *)
(* and the sequencer waits only for a height it does not have.                    *)
RangeIsCovered ==
    /\ \A n \in nextIndex .. endIndex :
           \/ n >= nextFetch
           \/ n \in DOMAIN fetched
           \/ \E f \in Fetchers : pc[f] # "idle" /\ index[f] = n
    /\ seqPc = "recv" /\ nextIndex <= endIndex => nextIndex \notin DOMAIN fetched

(* The inductive invariant of a chain without forks.                              *)
LinearInv == PipelineInv /\ NoOrphans /\ WaitsAreJustified /\ CacheIsExact /\ RangeIsCovered

--------------------------------------------------------------------------------
(* The indexer catches up with the node and stays there once the node stops.      *)
CatchesUp == <>[](head = best)

(* A goroutine that waits for a transaction does not wait forever: BlockSeen or   *)
(* the abort in BlockAdded releases it.                                           *)
EveryWaitEnds == \A p \in Procs : pc[p] = "await" ~> pc[p] # "await"
================================================================================
