-------------------------------- MODULE WaitTable --------------------------------
(* The wait table of indexer/wait_table.go: a map from a transaction hash to the  *)
(* entry of the goroutines that wait for the transaction to be seen.  A table is  *)
(* a function whose domain is the set of keys of the Go map.  Every operator here *)
(* is one critical section of the table's lock.                                   *)
EXTENDS Integers

(* waitTableEntry.  The channel is only ever closed, so closed stands for it.     *)
Entry == [listeners : Nat, closed : BOOLEAN, aborted : BOOLEAN, earliest : Nat]

(* A wait table whose keys are in txs.                                            *)
IsTable(table, txs) ==
    DOMAIN table \subseteq txs /\ table \in [DOMAIN table -> Entry]

EmptyTable == [t \in {} |-> FALSE]

(* waitTable.Set                                                                  *)
Set(table, tx, e) ==
    [t \in DOMAIN table \cup {tx} |-> IF t = tx THEN e ELSE table[t]]

(* waitTable.Delete                                                               *)
Delete(table, tx) == [t \in DOMAIN table \ {tx} |-> table[t]]

(* Mutant: a listener that finds an entry does not count itself.                  *)
JoinUncounted(table, tx, height) ==
    IF tx \in DOMAIN table
    THEN table
    ELSE Set(table, tx, [listeners |-> 1, closed |-> FALSE,
                         aborted |-> FALSE, earliest |-> height])

(* Mutant: earliestBlock stays that of the first listener.                        *)
JoinKeepsEarliest(table, tx, height) ==
    IF tx \in DOMAIN table
    THEN Set(table, tx, [table[tx] EXCEPT !.listeners = @ + 1])
    ELSE Set(table, tx, [listeners |-> 1, closed |-> FALSE,
                         aborted |-> FALSE, earliest |-> height])

(* findCoin, once it has decided to wait: one more listener of tx, on behalf of a *)
(* block of the given height.                                                     *)
Join(table, tx, height) ==
    IF tx \in DOMAIN table
    THEN Set(table, tx,
             [table[tx] EXCEPT !.listeners = @ + 1,
                               !.earliest = IF @ > height THEN height ELSE @])
    ELSE Set(table, tx, [listeners |-> 1, closed |-> FALSE,
                         aborted |-> FALSE, earliest |-> height])

(* Mutant: the first listener to leave deletes the entry.                         *)
LeaveDeletes(table, tx) == Delete(table, tx)

(* findCoins, once the channel is closed: the last listener deletes the entry.    *)
Leave(table, tx) ==
    IF table[tx].listeners = 1
    THEN Delete(table, tx)
    ELSE Set(table, tx, [table[tx] EXCEPT !.listeners = @ - 1])

(* BlockSeen: release everyone who waits for one of these transactions.           *)
CloseAll(table, txs) ==
    [t \in DOMAIN table |->
        IF t \in txs THEN [table[t] EXCEPT !.closed = TRUE] ELSE table[t]]

(* Mutant: BlockAdded aborts the waits of every later block.                      *)
AbortLater(table, height) ==
    [t \in DOMAIN table |->
        IF table[t].earliest >= height /\ ~table[t].closed
        THEN [table[t] EXCEPT !.closed = TRUE, !.aborted = TRUE]
        ELSE table[t]]

(* BlockAdded: give up the open waits of the block at the given height.           *)
AbortNext(table, height) ==
    [t \in DOMAIN table |->
        IF table[t].earliest = height /\ ~table[t].closed
        THEN [table[t] EXCEPT !.closed = TRUE, !.aborted = TRUE]
        ELSE table[t]]
================================================================================
