------------------------------- MODULE NodeClient -------------------------------
(* bitcoin.Client as a caller of bitcoind's JSON-RPC interface.  An operation of  *)
(* the client is one exchange after the other; the node goes on working between   *)
(* them, may refuse a request, and an exchange may break at any time, before or   *)
(* after the node has done what it was asked to.  The node is external.           *)
(*                                                                                *)
(* Peers, fee rates and mempool entries are passed on unread: Data stands for     *)
(* them.                                                                          *)
EXTENDS BlockTree

CONSTANTS
    Callers,   \* goroutines that use the client
    Txs,       \* transactions that may be submitted
    Heights,   \* heights that are asked for or pruned up to
    Data,      \* an answer whose content does not matter
    Zero,      \* the zero value that Result has when there is no result
    None       \* nothing

ASSUME ClientConstants ==
    /\ Heights \subseteq Nat
    /\ {Data, Zero, None} \cap (Blocks \cup Nat \cup Txs) = {}
    /\ Data # Zero /\ Zero # None /\ None # Data

VARIABLES
    best,      \* the node's best block
    pruned,    \* the node has deleted blocks up to this height
    accepted,  \* the transactions the node has accepted
    prunes,    \* the heights of the pruneblockchain requests it has carried out
    op,        \* op[c]: the operation of the client that c is in
    method,    \* method[c]: the RPC method that c has posted
    reply,     \* reply[c]: the node's reply to it
    hash,      \* hash[c]: the block hash that getBlock has got
    block,     \* block[c]: the block that NetworkStatus has got
    done       \* done[c]: the operation that returned without error, with its result,
               \* until c calls another one

node == <<best, pruned, accepted, prunes>>
call == <<op, method, reply, hash, block, done>>
vars == <<node, call>>

Values == Blocks \cup Heights \cup Txs \cup {Data, Zero, None}
Replies == [status : {200, 500}, error : BOOLEAN, result : Values]
Errors == [status : {200, 500}, error : {TRUE}, result : {Zero}]
NoReply == [status |-> 200, error |-> FALSE, result |-> None]

(* The operations of the client and the method with which each of them starts.    *)
(* A block is asked for by height, by hash or, in NetworkStatus, as the tip.      *)
Operations ==
    [by : {"index", "prune"}, key : Heights] \cup [by : {"hash"}, key : Blocks]
    \cup [by : {"tip", "peers", "fee", "mempool"}, key : {None}]
    \cup [by : {"send"}, key : Txs]
ASSUME NoneIsNoOperation == None \notin Operations

NoOperation == [by |-> "none", key |-> None]
Methods == {"none", "getblockchaininfo", "getblockhash", "getblock", "getpeerinfo",
            "estimatesmartfee", "getrawmempool", "sendrawtransaction", "pruneblockchain"}
Nothing == [op |-> NoOperation, result |-> None]

TypeOK ==
    /\ best \in Blocks /\ pruned \in Nat \cup {-1} /\ accepted \subseteq Txs
    /\ prunes \subseteq Heights
    /\ op \in [Callers -> Operations \cup {NoOperation}]
    /\ method \in [Callers -> Methods]
    /\ reply \in [Callers -> Replies]
    /\ hash \in [Callers -> Blocks \cup {None}]
    /\ block \in [Callers -> Blocks \cup {None}]
    /\ done \in [Callers -> [op : Operations \cup {NoOperation},
                             result : Values \ {Zero}]]

Init ==
    /\ best \in Blocks /\ pruned = -1 /\ accepted = {} /\ prunes = {}
    /\ op = [c \in Callers |-> NoOperation]
    /\ method = [c \in Callers |-> "none"]
    /\ reply = [c \in Callers |-> NoReply]
    /\ hash = [c \in Callers |-> None]
    /\ block = [c \in Callers |-> None]
    /\ done = [c \in Callers |-> Nothing]

--------------------------------------------------------------------------------
(* The node                                                                       *)

NodeAdvance ==
    /\ best' \in {b \in Blocks : Height[b] > Height[best]}
    /\ UNCHANGED <<pruned, accepted, prunes, call>>

Posted(c) == method[c] # "none" /\ reply[c] = NoReply

Result(c, r) ==
    reply' = [reply EXCEPT ![c] = [status |-> 200, error |-> FALSE, result |-> r]]

(* Methods that only read.  A block that is off the best branch is still served,  *)
(* a block that is pruned is not.                                                 *)
Serve(c) ==
    /\ Posted(c)
    /\ \/ method[c] = "getblockchaininfo" /\ Result(c, best)
       \/ /\ method[c] = "getblockhash"
          /\ \E b \in Branch[best] : Height[b] = op[c].key /\ Result(c, b)
       \/ method[c] = "getblock" /\ Height[hash[c]] > pruned /\ Result(c, hash[c])
       \/ /\ method[c] \in {"getpeerinfo", "estimatesmartfee", "getrawmempool"}
          /\ Result(c, Data)
    /\ UNCHANGED <<node, op, method, hash, block, done>>

Accept(c) ==
    /\ Posted(c) /\ method[c] = "sendrawtransaction"
    /\ accepted' = accepted \cup {op[c].key}
    /\ Result(c, op[c].key)
    /\ UNCHANGED <<best, pruned, prunes, op, method, hash, block, done>>

(* The node deletes whole block files and keeps its newest blocks, so it may      *)
(* delete less than it was asked to, or nothing, and still reports success.  The  *)
(* height it answers is only logged by the caller: Data stands for it.            *)
PruneTo(c) ==
    /\ Posted(c) /\ method[c] = "pruneblockchain" /\ op[c].key <= Height[best]
    /\ pruned' \in {pruned} \cup (pruned + 1 .. op[c].key)
    /\ prunes' = prunes \cup {op[c].key}
    /\ Result(c, Data)
    /\ UNCHANGED <<best, accepted, op, method, hash, block, done>>

(* The node may refuse any request: it is starting, overloaded, does not have the *)
(* block or does not want the transaction.  The error comes with either status.   *)
Refuse(c) ==
    /\ Posted(c)
    /\ \E e \in Errors : reply' = [reply EXCEPT ![c] = e]
    /\ UNCHANGED <<node, op, method, hash, block, done>>

--------------------------------------------------------------------------------
(* Client                                                                         *)

(* Err of the responses: the reply holds an error object.                         *)
Err(r) == r.error

(* Mutant: error objects in a reply with status 200 are not looked at.            *)
PostIgnoresErr(r) == r.status = 200

(* post returns no error.                                                         *)
PostOK(r) == r.status = 200 /\ ~Err(r)

(* c posts the next request of its operation.                                     *)
Post(c, m) ==
    /\ method' = [method EXCEPT ![c] = m]
    /\ reply' = [reply EXCEPT ![c] = NoReply]

Leave(c) ==
    /\ op' = [op EXCEPT ![c] = NoOperation]
    /\ hash' = [hash EXCEPT ![c] = None]
    /\ block' = [block EXCEPT ![c] = None]
    /\ Post(c, "none")

Return(c, r) ==
    /\ done' = [done EXCEPT ![c] = [op |-> op[c], result |-> r]]
    /\ Leave(c)

Fail(c) == Leave(c) /\ UNCHANGED done

(* Mutant: a height that is not known is taken for the tip.                       *)
StartAtTip(c, o) ==
    /\ hash' = [hash EXCEPT ![c] = IF o.by = "hash" THEN o.key ELSE None]
    /\ Post(c, IF o.by = "hash" THEN "getblock" ELSE "getblockchaininfo")

(* getBlockHash: the hash of the identifier, or the request that gets it          *)
GetBlockHash(c, o) ==
    /\ hash' = [hash EXCEPT ![c] = IF o.by = "hash" THEN o.key ELSE None]
    /\ Post(c, CASE o.by = "tip" -> "getblockchaininfo"
                 [] o.by = "hash" -> "getblock"
                 [] o.by = "index" -> "getblockhash")

(* GetRawBlock and NetworkStatus                                                  *)
CallBlock(c) ==
    /\ op[c] = NoOperation
    /\ \E o \in {x \in Operations : x.by \in {"index", "hash", "tip"}} :
           /\ op' = [op EXCEPT ![c] = o]
           /\ GetBlockHash(c, o)
    /\ done' = [done EXCEPT ![c] = Nothing]
    /\ UNCHANGED <<node, block>>

(* GetPeers, SuggestedFeeRate, RawMempool, SendRawTransaction, PruneBlockchain    *)
CallOther(c) ==
    /\ op[c] = NoOperation
    /\ \E o \in Operations :
           /\ op' = [op EXCEPT ![c] = o]
           /\ \/ o.by = "peers" /\ Post(c, "getpeerinfo")
              \/ o.by = "fee" /\ Post(c, "estimatesmartfee")
              \/ o.by = "mempool" /\ Post(c, "getrawmempool")
              \/ o.by = "send" /\ Post(c, "sendrawtransaction")
              \/ o.by = "prune" /\ Post(c, "pruneblockchain")
    /\ done' = [done EXCEPT ![c] = Nothing]
    /\ UNCHANGED <<node, hash, block>>

Replied(c) == method[c] # "none" /\ reply[c] # NoReply

(* getBlock goes on with the hash.                                                *)
GotHash(c) ==
    /\ Replied(c) /\ PostOK(reply[c])
    /\ method[c] \in {"getblockchaininfo", "getblockhash"}
    /\ hash' = [hash EXCEPT ![c] = reply[c].result]
    /\ Post(c, "getblock")
    /\ UNCHANGED <<node, op, block, done>>

(* GetRawBlock has its block; NetworkStatus goes on with the peers.               *)
GotBlock(c) ==
    /\ Replied(c) /\ PostOK(reply[c]) /\ method[c] = "getblock"
    /\ IF op[c].by = "tip"
       THEN /\ block' = [block EXCEPT ![c] = reply[c].result]
            /\ Post(c, "getpeerinfo")
            /\ UNCHANGED <<op, hash, done>>
       ELSE Return(c, reply[c].result)
    /\ UNCHANGED node

(* The last exchange of the other operations                                      *)
GotResult(c) ==
    /\ Replied(c) /\ PostOK(reply[c])
    /\ method[c] \notin {"getblockchaininfo", "getblockhash", "getblock"}
    /\ Return(c, IF op[c].by = "tip" THEN block[c] ELSE reply[c].result)
    /\ UNCHANGED node

(* Mutant: a request that was refused is posted again.                            *)
PostAgain(c) ==
    /\ Replied(c) /\ ~PostOK(reply[c])
    /\ Post(c, method[c])
    /\ UNCHANGED <<node, op, hash, block, done>>

PostFails(c) ==
    /\ Replied(c) /\ ~PostOK(reply[c])
    /\ Fail(c)
    /\ UNCHANGED node

(* The HTTP client's timeout ends an exchange that has no reply.                  *)
Timeout(c) ==
    /\ Posted(c)
    /\ Fail(c)
    /\ UNCHANGED node

(* The exchange breaks: no connection, the caller's context is cancelled, a body  *)
(* that cannot be decoded.  What the node did it has done.                        *)
Break(c) ==
    /\ method[c] # "none"
    /\ Fail(c)
    /\ UNCHANGED node

--------------------------------------------------------------------------------
(* What the goroutine of c does once the reply has come                           *)
GoOn(c) == GotHash(c) \/ GotBlock(c) \/ GotResult(c) \/ PostFails(c)

ClientStep(c) ==
    \/ CallBlock(c) \/ CallOther(c)
    \/ GoOn(c) \/ Timeout(c) \/ Break(c)

NodeStep(c) == Serve(c) \/ Accept(c) \/ PruneTo(c) \/ Refuse(c)

Next == NodeAdvance \/ \E c \in Callers : ClientStep(c) \/ NodeStep(c)

(* The HTTP client gives up on an exchange after defaultTimeout, and a goroutine  *)
(* that has its reply goes on.  Nothing is assumed of the node, of further breaks *)
(* or of an operation as a whole, for which the code sets no time.                *)
Spec ==
    /\ Init /\ [][Next]_vars
    /\ \A c \in Callers : WF_vars(Timeout(c)) /\ WF_vars(GoOn(c))

--------------------------------------------------------------------------------
(* The reply to a request for a hash, when it has come                            *)
HashReply(c) ==
    IF method[c] \in {"getblockchaininfo", "getblockhash"} /\ ~Err(reply[c])
    THEN reply[c].result ELSE None

BlockOps == {"index", "hash", "tip"}

(* The request, the block and the answer that the indexer sees of the client.     *)
Asked == [c \in Callers |-> IF op[c].by \in BlockOps THEN op[c] ELSE None]
Looked == [c \in Callers |-> IF hash[c] # None THEN hash[c] ELSE HashReply(c)]
Answer == [c \in Callers |-> IF done[c].op.by \in BlockOps THEN done[c].result ELSE None]

Source == INSTANCE BlockSource WITH asked <- Asked, looked <- Looked, answer <- Answer

(* GetRawBlock and NetworkStatus, although they are two and three exchanges with  *)
(* a node that reorganises and prunes between them, look at the best branch once. *)
BlockReadsAreAtomic == Source!SourceSpec

(* An operation that returns no error was carried out by the node: a submitted    *)
(* transaction was accepted, a request to prune up to the height was carried out  *)
(* (how much of it the node deleted is its own choice), a block is a block.       *)
CarriedOut(o, r) ==
    /\ o.by = "send" => r \in accepted
    /\ o.by = "prune" => o.key \in prunes
    /\ o.by \in BlockOps => r \in Blocks
SuccessIsTrue == \A c \in Callers : CarriedOut(done[c].op, done[c].result)

(* r is what the node answers to the request of c.                                *)
Answers(c, r) ==
    /\ method[c] \in {"getblockchaininfo", "getblockhash"} => r \in Blocks
    /\ method[c] = "getblock" => r = hash[c]
    /\ method[c] = "sendrawtransaction" => r = op[c].key /\ r \in accepted
    /\ method[c] = "pruneblockchain" => op[c].key \in prunes
    /\ r \in Values \ {Zero, None}

(* What c has posted belongs to its operation.                                    *)
MethodOK(c) ==
    \/ op[c] = NoOperation /\ method[c] = "none" /\ reply[c] = NoReply
    \/ op[c].by = "tip" /\ method[c] \in {"getblockchaininfo", "getblock", "getpeerinfo"}
    \/ op[c].by = "index" /\ method[c] \in {"getblockhash", "getblock"}
    \/ op[c].by = "hash" /\ method[c] = "getblock"
    \/ op[c].by = "peers" /\ method[c] = "getpeerinfo"
    \/ op[c].by = "fee" /\ method[c] = "estimatesmartfee"
    \/ op[c].by = "mempool" /\ method[c] = "getrawmempool"
    \/ op[c].by = "send" /\ method[c] = "sendrawtransaction"
    \/ op[c].by = "prune" /\ method[c] = "pruneblockchain"

(* A reply is an error or an answer.                                              *)
ReplyOK(c) ==
    \/ reply[c] = NoReply
    \/ reply[c] \in Errors
    \/ \E r \in Values : /\ Answers(c, r)
                         /\ reply[c] = [status |-> 200, error |-> FALSE, result |-> r]

(* getBlock and NetworkStatus keep the one block they have looked up, and nothing *)
(* is returned before the last exchange.                                          *)
CallOK(c) ==
    /\ MethodOK(c)
    /\ ReplyOK(c)
    /\ op[c] # NoOperation => done[c] = Nothing
    /\ hash[c] # None <=> \/ method[c] = "getblock"
                          \/ op[c].by = "tip" /\ method[c] = "getpeerinfo"
    /\ op[c].by = "tip" /\ method[c] = "getpeerinfo" => block[c] = hash[c]

(* The inductive invariant.                                                       *)
ClientInv == TypeOK /\ SuccessIsTrue /\ \A c \in Callers : CallOK(c)

(* Every operation of the client ends, even if the node never answers or refuses  *)
(* everything: an operation is a bounded chain of exchanges, none of which is     *)
(* repeated, and each exchange ends with a reply or with the timeout.             *)
EveryCallEnds == \A c \in Callers : op[c] # NoOperation ~> op[c] = NoOperation
================================================================================
