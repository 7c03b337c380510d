---------------------------- MODULE NodeClientProofs ----------------------------
(* Proofs about bitcoin.Client, for every block tree, any number of callers and   *)
(* whatever the node refuses, prunes or reorganises between two exchanges.        *)
EXTENDS NodeClient, TLAPS

--------------------------------------------------------------------------------
(* Operations and replies                                                         *)

(* What an operation asks for follows from its kind.                              *)
LEMMA OperationKeys ==
    ASSUME NEW o \in Operations \cup {NoOperation}
    PROVE  /\ o.by \in {"index", "prune"} => o.key \in Heights
           /\ o.by = "hash" => o.key \in Blocks
           /\ o.by = "send" => o.key \in Txs
           /\ o.by = "tip" => o.key = None
           /\ o = NoOperation <=> o.by = "none"
           /\ o.by \in {"none", "index", "prune", "hash", "tip", "peers", "fee",
                       "mempool", "send"}
  <1>1. CASE o \in [by : {"index", "prune"}, key : Heights]
    BY <1>1 DEF NoOperation
  <1>2. CASE o \in [by : {"hash"}, key : Blocks]
    BY <1>2 DEF NoOperation
  <1>3. CASE o \in [by : {"tip", "peers", "fee", "mempool"}, key : {None}]
    BY <1>3 DEF NoOperation
  <1>4. CASE o \in [by : {"send"}, key : Txs]
    BY <1>4 DEF NoOperation
  <1>5. CASE o = NoOperation
    BY <1>5 DEF NoOperation
  <1> QED
    BY <1>1, <1>2, <1>3, <1>4, <1>5 DEF Operations

(* An answer is no error and is told from a reply that has not come.              *)
LEMMA ReplyShape ==
    ASSUME NEW c \in Callers, CallOK(c), Replied(c)
    PROVE  /\ PostOK(reply[c]) => /\ Answers(c, reply[c].result)
                                  /\ reply[c].error = FALSE
           /\ op[c] # NoOperation /\ op[c].by # "none"
           /\ done[c] = Nothing
  <1>1. method[c] # "none" /\ reply[c] # NoReply
    BY DEF Replied
  <1>2. op[c] # NoOperation /\ op[c].by # "none"
    BY <1>1 DEF CallOK, MethodOK, NoOperation
  <1>3. ASSUME PostOK(reply[c])
        PROVE  Answers(c, reply[c].result) /\ reply[c].error = FALSE
    <2>1. reply[c] \notin Errors
      BY <1>3 DEF PostOK, Err, Errors
    <2>2. PICK r \in Values : /\ Answers(c, r)
                              /\ reply[c] = [status |-> 200, error |-> FALSE, result |-> r]
      BY <1>1, <2>1 DEF CallOK, ReplyOK
    <2>3. reply[c].result = r /\ reply[c].error = FALSE
      BY <2>2
    <2> QED
      BY <2>2, <2>3
  <1> QED
    BY <1>1, <1>2, <1>3 DEF CallOK

--------------------------------------------------------------------------------
(* Steps of one caller                                                            *)

(* What the node has accepted and carried out stays so, and with it what holds of *)
(* the other callers.                                                             *)
LEMMA OneMoves ==
    ASSUME ClientInv, NEW c \in Callers, TypeOK',
           prunes \subseteq prunes', accepted \subseteq accepted',
           \A d \in Callers \ {c} :
               /\ op'[d] = op[d] /\ method'[d] = method[d] /\ reply'[d] = reply[d]
               /\ hash'[d] = hash[d] /\ block'[d] = block[d] /\ done'[d] = done[d],
           CallOK(c)', CarriedOut(done[c].op, done[c].result)'
    PROVE  ClientInv'
  <1>2. ASSUME NEW d \in Callers \ {c} PROVE CallOK(d)'
    <2>1. \A r : Answers(d, r) => Answers(d, r)'
      BY DEF Answers, Values
    <2>2. ReplyOK(d)'
      <3>1. CASE \E r \in Values :
                   /\ Answers(d, r)
                   /\ reply[d] = [status |-> 200, error |-> FALSE, result |-> r]
        BY <2>1, <3>1 DEF ReplyOK, Values
      <3>2. CASE reply[d] = NoReply \/ reply[d] \in Errors
        BY <3>2 DEF ReplyOK, NoReply, Errors
      <3> QED
        BY <3>1, <3>2 DEF ClientInv, CallOK, ReplyOK
    <2>3. MethodOK(d)'
      <3>1. NoOperation' = NoOperation /\ NoReply' = NoReply
        BY DEF NoOperation, NoReply
      <3>2. MethodOK(d)
        BY DEF ClientInv, CallOK
      <3> QED
        BY <3>1, <3>2 DEF MethodOK
    <2> QED
      BY <2>2, <2>3 DEF ClientInv, CallOK, NoOperation, Nothing
  <1>3. ASSUME NEW d \in Callers \ {c} PROVE CarriedOut(done[d].op, done[d].result)'
    BY DEF ClientInv, SuccessIsTrue, CarriedOut
  <1> QED
    BY <1>2, <1>3 DEF ClientInv, SuccessIsTrue

(* A request that is posted has no reply yet.                                     *)
LEMMA PostFacts ==
    ASSUME TypeOK, NEW c \in Callers, NEW m \in Methods, Post(c, m)
    PROVE  /\ method' \in [Callers -> Methods] /\ reply' \in [Callers -> Replies]
           /\ method'[c] = m /\ reply'[c] = NoReply
           /\ \A d \in Callers \ {c} : method'[d] = method[d] /\ reply'[d] = reply[d]
  <1>1. NoReply \in Replies
    BY DEF NoReply, Replies, Values
  <1> QED
    BY <1>1 DEF TypeOK, Post

(* What an operation leaves behind is what it returns, if that is true.           *)
LEMMA LeaveInv ==
    ASSUME ClientInv, NEW c \in Callers, Leave(c), UNCHANGED node,
           NEW v \in [op : Operations \cup {NoOperation}, result : Values \ {Zero}],
           CarriedOut(v.op, v.result), done' = [done EXCEPT ![c] = v]
    PROVE  ClientInv'
  <1> USE DEF ClientInv
  <1>1. UNCHANGED <<best, pruned, accepted, prunes>>
    BY DEF node, TypeOK
  <1>2. "none" \in Methods /\ Post(c, "none")
    BY DEF Methods, Leave
  <1>3. /\ method' \in [Callers -> Methods] /\ reply' \in [Callers -> Replies]
        /\ method'[c] = "none" /\ reply'[c] = NoReply
        /\ \A d \in Callers \ {c} : method'[d] = method[d] /\ reply'[d] = reply[d]
    BY <1>2, PostFacts
  <1>4. /\ op' \in [Callers -> Operations \cup {NoOperation}]
        /\ hash' \in [Callers -> Blocks \cup {None}] /\ block' \in [Callers -> Blocks \cup {None}]
        /\ done' \in [Callers -> [op : Operations \cup {NoOperation}, result : Values \ {Zero}]]
        /\ op'[c] = NoOperation /\ hash'[c] = None /\ block'[c] = None /\ done'[c] = v
        /\ \A d \in Callers \ {c} : /\ op'[d] = op[d] /\ hash'[d] = hash[d]
                                    /\ block'[d] = block[d] /\ done'[d] = done[d]
    BY DEF Leave, TypeOK
  <1>5. TypeOK'
    BY <1>1, <1>3, <1>4
       DEF TypeOK, Operations, NoOperation, Replies, Values, Methods
  <1>6. CallOK(c)'
    <2>1. MethodOK(c)'
      BY <1>3, <1>4 DEF MethodOK, NoOperation, NoReply
    <2>2. ReplyOK(c)'
      BY <1>3 DEF ReplyOK, NoReply
    <2>3. op'[c].by = "none" /\ NoOperation' = NoOperation
      BY <1>4 DEF NoOperation
    <2> QED
      BY <1>3, <1>4, <2>1, <2>2, <2>3 DEF CallOK
  <1>7. CarriedOut(done[c].op, done[c].result)'
    BY <1>1, <1>4 DEF CarriedOut, BlockOps
  <1> QED
    BY <1>1, <1>3, <1>4, <1>5, <1>6, <1>7, OneMoves

(* A failed operation returns nothing.                                            *)
LEMMA FailInv ==
    ASSUME ClientInv, NEW c \in Callers, Fail(c), UNCHANGED node
    PROVE  ClientInv'
  <1>1. PICK v \in [op : Operations \cup {NoOperation}, result : Values \ {Zero}] : v = done[c]
    BY DEF ClientInv, TypeOK
  <1>2. CarriedOut(v.op, v.result)
    BY <1>1 DEF ClientInv, SuccessIsTrue
  <1>3. done' = [done EXCEPT ![c] = v]
    BY <1>1 DEF Fail, ClientInv, TypeOK
  <1> QED
    BY <1>2, <1>3, LeaveInv DEF Fail

(* c goes on with another exchange of the same or a new operation.                *)
LEMMA PostInv ==
    ASSUME ClientInv, NEW c \in Callers, UNCHANGED node,
           NEW o \in Operations, NEW m \in Methods \ {"none"},
           NEW h \in Blocks \cup {None}, NEW b \in Blocks \cup {None},
           Post(c, m), op' = [op EXCEPT ![c] = o], hash' = [hash EXCEPT ![c] = h],
           block' = [block EXCEPT ![c] = b], done' = [done EXCEPT ![c] = Nothing],
           \/ o.by = "tip" /\ m \in {"getblockchaininfo", "getblock", "getpeerinfo"}
           \/ o.by = "index" /\ m \in {"getblockhash", "getblock"}
           \/ o.by = "hash" /\ m = "getblock"
           \/ o.by = "peers" /\ m = "getpeerinfo"
           \/ o.by = "fee" /\ m = "estimatesmartfee"
           \/ o.by = "mempool" /\ m = "getrawmempool"
           \/ o.by = "send" /\ m = "sendrawtransaction"
           \/ o.by = "prune" /\ m = "pruneblockchain",
           h # None <=> (m = "getblock" \/ (o.by = "tip" /\ m = "getpeerinfo")),
           o.by = "tip" /\ m = "getpeerinfo" => b = h
    PROVE  ClientInv'
  <1> USE DEF ClientInv
  <1>1. UNCHANGED <<best, pruned, accepted, prunes>>
    BY DEF node, TypeOK
  <1>2. /\ method' \in [Callers -> Methods] /\ reply' \in [Callers -> Replies]
        /\ method'[c] = m /\ reply'[c] = NoReply
        /\ \A d \in Callers \ {c} : method'[d] = method[d] /\ reply'[d] = reply[d]
    BY PostFacts
  <1>3. Nothing \in [op : Operations \cup {NoOperation}, result : Values \ {Zero}]
    BY ClientConstants DEF Nothing, Values
  <1>4. /\ op' \in [Callers -> Operations \cup {NoOperation}]
        /\ hash' \in [Callers -> Blocks \cup {None}] /\ block' \in [Callers -> Blocks \cup {None}]
        /\ done' \in [Callers -> [op : Operations \cup {NoOperation}, result : Values \ {Zero}]]
        /\ op'[c] = o /\ hash'[c] = h /\ block'[c] = b /\ done'[c] = Nothing
        /\ \A d \in Callers \ {c} : /\ op'[d] = op[d] /\ hash'[d] = hash[d]
                                    /\ block'[d] = block[d] /\ done'[d] = done[d]
    BY <1>3 DEF TypeOK
  <1>5. TypeOK'
    BY <1>1, <1>2, <1>4
       DEF TypeOK, Operations, NoOperation, Replies, Values, Methods
  <1>6. CallOK(c)'
    <2>1. MethodOK(c)'
      BY <1>2, <1>4 DEF MethodOK
    <2>2. ReplyOK(c)'
      BY <1>2 DEF ReplyOK, NoReply
    <2>3. Nothing' = Nothing
      BY DEF Nothing, NoOperation
    <2> QED
      BY <1>2, <1>4, <2>1, <2>2, <2>3 DEF CallOK
  <1>7. CarriedOut(done[c].op, done[c].result)'
    BY <1>4 DEF CarriedOut, BlockOps, Nothing, NoOperation
  <1> QED
    BY <1>1, <1>2, <1>4, <1>5, <1>6, <1>7, OneMoves

(* A caller that is not in an operation has no hash and no block; the kinds of    *)
(* operation are all there are.                                                   *)
LEMMA CallInv ==
    ASSUME ClientInv, NEW c \in Callers, CallBlock(c) \/ CallOther(c)
    PROVE  ClientInv'
  <1> USE DEF ClientInv
  <1>1. hash[c] = None /\ block[c] \in Blocks \cup {None}
    BY DEF CallOK, MethodOK, CallBlock, CallOther, NoOperation, TypeOK
  <1>2. UNCHANGED node /\ done' = [done EXCEPT ![c] = Nothing]
        /\ block' = [block EXCEPT ![c] = block[c]]
    BY DEF CallBlock, CallOther, TypeOK
  <1>3. CASE CallBlock(c)
    <2>1. PICK o \in Operations : /\ o.by \in {"index", "hash", "tip"}
                                  /\ op' = [op EXCEPT ![c] = o] /\ GetBlockHash(c, o)
      BY <1>3 DEF CallBlock
    <2>2. o.by = "hash" => o.key \in Blocks /\ o.key # None
      BY OperationKeys, ClientConstants
    <2>3. PICK h \in Blocks \cup {None} : h = IF o.by = "hash" THEN o.key ELSE None
      BY <2>2
    <2>4. PICK m \in Methods \ {"none"} :
             m = CASE o.by = "tip" -> "getblockchaininfo"
                   [] o.by = "hash" -> "getblock"
                   [] o.by = "index" -> "getblockhash"
      BY <2>1 DEF Methods
    <2>5. hash' = [hash EXCEPT ![c] = h] /\ Post(c, m)
      BY <2>1, <2>3, <2>4 DEF GetBlockHash
    <2>6. /\ o.by = "tip" => m = "getblockchaininfo" /\ h = None
          /\ o.by = "hash" => m = "getblock" /\ h # None
          /\ o.by = "index" => m = "getblockhash" /\ h = None
      BY <2>2, <2>3, <2>4
    <2> QED
      BY <1>1, <1>2, <2>1, <2>5, <2>6, PostInv
  <1>4. CASE CallOther(c)
    <2>1. PICK o \in Operations, m \in Methods \ {"none"} :
            /\ op' = [op EXCEPT ![c] = o] /\ Post(c, m)
            /\ \/ o.by = "peers" /\ m = "getpeerinfo"
               \/ o.by = "fee" /\ m = "estimatesmartfee"
               \/ o.by = "mempool" /\ m = "getrawmempool"
               \/ o.by = "send" /\ m = "sendrawtransaction"
               \/ o.by = "prune" /\ m = "pruneblockchain"
      BY <1>4 DEF CallOther, Methods
    <2>2. hash' = [hash EXCEPT ![c] = None]
      BY <1>1, <1>4 DEF CallOther, TypeOK
    <2> QED
      BY <1>1, <1>2, <2>1, <2>2, PostInv
  <1> QED
    BY <1>3, <1>4

(* getBlock goes on with the hash that the node gave it.                          *)
LEMMA GotHashInv ==
    ASSUME ClientInv, NEW c \in Callers, GotHash(c)
    PROVE  ClientInv'
  <1> USE DEF ClientInv
  <1>1. Answers(c, reply[c].result) /\ op[c] # NoOperation /\ done[c] = Nothing
    BY ReplyShape DEF GotHash
  <1>2. PICK h \in Blocks : h = reply[c].result
    BY <1>1 DEF GotHash, Answers
  <1>3. PICK o \in Operations : o = op[c]
    BY <1>1 DEF TypeOK
  <1>4. o.by = "tip" \/ o.by = "index"
    BY <1>3 DEF GotHash, CallOK, MethodOK
  <1>5. PICK b \in Blocks \cup {None} : b = block[c]
    BY DEF TypeOK
  <1>6. /\ Post(c, "getblock") /\ op' = [op EXCEPT ![c] = o] /\ hash' = [hash EXCEPT ![c] = h]
        /\ block' = [block EXCEPT ![c] = b] /\ done' = [done EXCEPT ![c] = Nothing]
        /\ UNCHANGED node
    BY <1>1, <1>2, <1>3, <1>5 DEF GotHash, TypeOK
  <1>7. "getblock" \in Methods \ {"none"} /\ h # None
    BY ClientConstants DEF Methods
  <1> QED
    BY <1>4, <1>6, <1>7, PostInv

(* The block that getBlock got is the one it asked for.                           *)
LEMMA GotBlockInv ==
    ASSUME ClientInv, NEW c \in Callers, GotBlock(c)
    PROVE  ClientInv'
  <1> USE DEF ClientInv
  <1>1. Answers(c, reply[c].result) /\ op[c] # NoOperation /\ done[c] = Nothing
    BY ReplyShape DEF GotBlock
  <1>2. PICK h \in Blocks : h = reply[c].result /\ h = hash[c]
    BY <1>1 DEF GotBlock, Answers, CallOK, TypeOK
  <1>3. PICK o \in Operations : o = op[c] /\ o.by \in {"tip", "index", "hash"}
    BY <1>1 DEF TypeOK, GotBlock, CallOK, MethodOK
  <1>4. h # None /\ h # Zero
    BY ClientConstants
  <1>5. CASE o.by = "tip"
    <2>1. /\ Post(c, "getpeerinfo") /\ op' = [op EXCEPT ![c] = o]
          /\ hash' = [hash EXCEPT ![c] = h] /\ block' = [block EXCEPT ![c] = h]
          /\ done' = [done EXCEPT ![c] = Nothing] /\ UNCHANGED node
      BY <1>1, <1>2, <1>3, <1>5 DEF GotBlock, TypeOK
    <2>2. "getpeerinfo" \in Methods \ {"none"}
      BY DEF Methods
    <2> QED
      BY <1>4, <1>5, <2>1, <2>2, PostInv
  <1>6. CASE o.by # "tip"
    <2>1. PICK v \in [op : Operations \cup {NoOperation}, result : Values \ {Zero}] :
             v = [op |-> o, result |-> h]
      BY <1>4 DEF Values
    <2>2. CarriedOut(v.op, v.result)
      BY <1>3, <2>1 DEF CarriedOut
    <2>3. Leave(c) /\ UNCHANGED node /\ done' = [done EXCEPT ![c] = v]
      BY <1>2, <1>3, <1>6, <2>1 DEF GotBlock, Return
    <2> QED
      BY <2>2, <2>3, LeaveInv
  <1> QED
    BY <1>5, <1>6

(* The other operations return what the node has done.                            *)
LEMMA GotResultInv ==
    ASSUME ClientInv, NEW c \in Callers, GotResult(c)
    PROVE  ClientInv'
  <1> USE DEF ClientInv
  <1>1. Answers(c, reply[c].result) /\ op[c] # NoOperation /\ method[c] # "none"
    BY ReplyShape DEF GotResult, Replied
  <1>2. PICK o \in Operations : o = op[c]
    BY <1>1 DEF TypeOK
  <1>3. /\ o.by \in {"tip", "peers", "fee", "mempool", "send", "prune"}
        /\ o.by = "tip" => method[c] = "getpeerinfo"
        /\ o.by = "send" => method[c] = "sendrawtransaction"
        /\ o.by = "prune" => method[c] = "pruneblockchain"
    BY <1>1, <1>2 DEF GotResult, CallOK, MethodOK
  <1>4. PICK r : r = IF o.by = "tip" THEN block[c] ELSE reply[c].result
    OBVIOUS
  <1>5. r \in Values \ {Zero} /\ (o.by = "tip" => r \in Blocks)
    <2>1. CASE o.by = "tip"
      <3>1. r = hash[c] /\ r # None
        BY <1>2, <1>3, <1>4, <2>1 DEF CallOK
      <3> QED
        BY <3>1, ClientConstants DEF TypeOK, Values
    <2>2. CASE o.by # "tip"
      BY <1>1, <1>4, <2>2 DEF Answers
    <2> QED
      BY <2>1, <2>2
  <1>6. PICK v \in [op : Operations \cup {NoOperation}, result : Values \ {Zero}] :
             v = [op |-> o, result |-> r]
    BY <1>5
  <1>7. CarriedOut(v.op, v.result)
    BY <1>1, <1>2, <1>3, <1>4, <1>5, <1>6 DEF CarriedOut, Answers, BlockOps
  <1>8. Leave(c) /\ UNCHANGED node /\ done' = [done EXCEPT ![c] = v]
    BY <1>2, <1>4, <1>6 DEF GotResult, Return
  <1> QED
    BY <1>7, <1>8, LeaveInv

--------------------------------------------------------------------------------
(* Steps of the node                                                              *)

(* A reply to c changes nothing else of what c has.                               *)
LEMMA ReplyInv ==
    ASSUME ClientInv, NEW c \in Callers, Posted(c), NEW s \in Replies,
           UNCHANGED <<best, op, method, hash, block, done>>,
           reply' = [reply EXCEPT ![c] = s],
           pruned' \in Nat \cup {-1}, prunes \subseteq prunes', prunes' \subseteq Heights,
           accepted \subseteq accepted', accepted' \subseteq Txs,
           \/ s \in Errors
           \/ \E r \in Values : /\ Answers(c, r)'
                                /\ s = [status |-> 200, error |-> FALSE, result |-> r]
    PROVE  ClientInv'
  <1> USE DEF ClientInv
  <1>1. reply' \in [Callers -> Replies] /\ reply'[c] = s
        /\ \A d \in Callers \ {c} : reply'[d] = reply[d]
    BY DEF TypeOK
  <1>2. TypeOK'
    BY <1>1 DEF TypeOK, Operations, NoOperation, Replies, Values, Methods
  <1>o. op[c] # NoOperation /\ method[c] # "none" /\ MethodOK(c)
    BY DEF Posted, CallOK, MethodOK, NoOperation
  <1>3. CallOK(c)'
    <2>1. NoOperation' = NoOperation
      BY DEF NoOperation
    <2>2. MethodOK(c)'
      BY <1>o, <2>1 DEF MethodOK
    <2>3. ReplyOK(c)'
      BY <1>1 DEF ReplyOK, Values, Errors
    <2> QED
      BY <2>2, <2>3 DEF CallOK, NoOperation, Nothing
  <1>4. CarriedOut(done[c].op, done[c].result)'
    <2>1. done[c] = Nothing
      BY <1>o DEF CallOK
    <2> QED
      BY <2>1 DEF CarriedOut, BlockOps, Nothing, NoOperation
  <1> QED
    BY <1>1, <1>2, <1>3, <1>4, OneMoves

(* The node answers what it was asked, or refuses.                                *)
LEMMA NodeStepInv ==
    ASSUME ClientInv, NEW c \in Callers, NodeStep(c)
    PROVE  ClientInv'
  <1> USE DEF ClientInv
  <1>p. Posted(c) /\ pruned \in Nat \cup {-1} /\ prunes \subseteq Heights
    BY DEF NodeStep, Serve, Accept, PruneTo, Refuse, TypeOK
  <1>1. CASE Serve(c)
    <2>1. UNCHANGED <<best, op, method, hash, block, done, pruned, accepted, prunes>>
      BY <1>1 DEF Serve, node
    <2>2. PICK r \in Values \ {Zero, None} : Result(c, r) /\ Answers(c, r)
      <3>1. CASE method[c] = "getblockchaininfo" /\ Result(c, best)
        BY <3>1, ClientConstants DEF Answers, Values, TypeOK
      <3>2. ASSUME NEW b \in Branch[best], method[c] = "getblockhash", Result(c, b)
            PROVE  \E r \in Values \ {Zero, None} : Result(c, r) /\ Answers(c, r)
        <4>1. b \in Blocks
          BY BranchShape DEF TypeOK
        <4> QED
          BY <3>2, <4>1, ClientConstants DEF Answers, Values
      <3>3. CASE method[c] = "getblock" /\ Result(c, hash[c])
        <4>1. hash[c] \in Blocks
          BY <3>3 DEF CallOK, TypeOK
        <4> QED
          BY <3>3, <4>1, ClientConstants DEF Answers, Values
      <3>4. CASE /\ method[c] \in {"getpeerinfo", "estimatesmartfee", "getrawmempool"}
                 /\ Result(c, Data)
        BY <3>4, ClientConstants DEF Answers, Values
      <3> QED
        BY <1>1, <3>1, <3>2, <3>3, <3>4 DEF Serve
    <2>3. PICK s \in Replies : s = [status |-> 200, error |-> FALSE, result |-> r]
      BY DEF Replies
    <2>4. Answers(c, r)'
      BY <2>1, <2>2 DEF Answers, Values
    <2>5. reply' = [reply EXCEPT ![c] = s]
      BY <2>2, <2>3 DEF Result
    <2> QED
      BY <1>p, <2>1, <2>3, <2>4, <2>5, ReplyInv DEF TypeOK
  <1>2. CASE Accept(c)
    <2>1. op[c].by = "send"
      BY <1>2 DEF Accept, CallOK, MethodOK
    <2>2. PICK t \in Txs : t = op[c].key
      BY <2>1, OperationKeys DEF TypeOK
    <2>3. PICK s \in Replies : s = [status |-> 200, error |-> FALSE, result |-> t]
      BY DEF Replies, Values
    <2>4. /\ UNCHANGED <<best, op, method, hash, block, done, pruned, prunes>>
          /\ accepted' = accepted \cup {t} /\ reply' = [reply EXCEPT ![c] = s]
          /\ method[c] = "sendrawtransaction"
      BY <1>2, <2>2, <2>3 DEF Accept, Result
    <2>5. Answers(c, t)'
      BY <2>2, <2>4, ClientConstants DEF Answers, Values
    <2>6. t \in Values
      BY DEF Values
    <2> QED
      BY <1>p, <2>3, <2>4, <2>5, <2>6, ReplyInv DEF TypeOK
  <1>3. CASE PruneTo(c)
    <2>1. op[c].by = "prune"
      BY <1>3 DEF PruneTo, CallOK, MethodOK
    <2>2. PICK k \in Heights : k = op[c].key
      BY <2>1, OperationKeys DEF TypeOK
    <2>3. PICK s \in Replies : s = [status |-> 200, error |-> FALSE, result |-> Data]
      BY DEF Replies, Values
    <2>4. /\ UNCHANGED <<best, op, method, hash, block, done, accepted>>
          /\ pruned' \in {pruned} \cup (pruned + 1 .. k) /\ prunes' = prunes \cup {k}
          /\ reply' = [reply EXCEPT ![c] = s] /\ method[c] = "pruneblockchain"
      BY <1>3, <2>2, <2>3 DEF PruneTo, Result
    <2>5. k \in Nat /\ Data \in Values \ {Zero, None}
      BY ClientConstants DEF Values
    <2>6. pruned' \in Nat \cup {-1}
      BY <1>p, <2>4, <2>5
    <2>7. Answers(c, Data)'
      BY <2>2, <2>4, <2>5 DEF Answers, Values
    <2> QED
      BY <1>p, <2>2, <2>3, <2>4, <2>5, <2>6, <2>7, ReplyInv DEF TypeOK
  <1>4. CASE Refuse(c)
    <2>1. UNCHANGED <<best, op, method, hash, block, done, pruned, accepted, prunes>>
      BY <1>4 DEF Refuse, node
    <2>2. PICK s \in Errors : reply' = [reply EXCEPT ![c] = s]
      BY <1>4 DEF Refuse
    <2>3. s \in Replies
      BY DEF Replies, Values, Errors
    <2> QED
      BY <1>p, <2>1, <2>2, <2>3, ReplyInv DEF TypeOK
  <1> QED
    BY <1>1, <1>2, <1>3, <1>4 DEF NodeStep

--------------------------------------------------------------------------------
(* The invariant                                                                  *)

(* At first nobody has called the client.                                         *)
LEMMA ClientInit == Init => ClientInv
  <1> SUFFICES ASSUME Init PROVE ClientInv
    OBVIOUS
  <1>1. NoReply \in Replies /\ "none" \in Methods
    BY DEF NoReply, Replies, Values, Methods
  <1>2. Nothing \in [op : Operations \cup {NoOperation}, result : Values \ {Zero}]
    BY ClientConstants DEF Nothing, Values
  <1>3. TypeOK
    BY <1>1, <1>2 DEF Init, TypeOK
  <1>4. ASSUME NEW c \in Callers
        PROVE  /\ op[c] = NoOperation /\ method[c] = "none" /\ reply[c] = NoReply
               /\ hash[c] = None /\ done[c] = Nothing /\ op[c].by = "none"
    BY DEF Init, NoOperation
  <1>5. ASSUME NEW c \in Callers PROVE CallOK(c)
    BY <1>4 DEF CallOK, MethodOK, ReplyOK
  <1>6. ASSUME NEW c \in Callers PROVE CarriedOut(done[c].op, done[c].result)
    BY <1>4 DEF CarriedOut, Nothing, NoOperation, BlockOps
  <1> QED
    BY <1>3, <1>5, <1>6 DEF ClientInv, SuccessIsTrue

(* Steps that touch neither the calls nor what the node has carried out.          *)
LEMMA ClientFrame ==
    ASSUME ClientInv, UNCHANGED <<pruned, accepted, prunes, call>>, best' \in Blocks
    PROVE  ClientInv'
  <1> USE DEF call
  <1>1. TypeOK'
    BY DEF ClientInv, TypeOK, Operations, NoOperation, Replies, Values, Methods
  <1>2. SuccessIsTrue'
    BY DEF ClientInv, SuccessIsTrue, CarriedOut, BlockOps
  <1>3. ASSUME NEW c \in Callers PROVE CallOK(c)'
    <2>1. CallOK(c)
      BY DEF ClientInv
    <2>2. MethodOK(c)'
      BY <2>1 DEF CallOK, MethodOK, NoOperation, NoReply
    <2>3. ReplyOK(c)'
      <3>1. Values' = Values /\ Errors' = Errors /\ NoReply' = NoReply
        BY DEF Values, Errors, NoReply
      <3>2. \A r : Answers(c, r)' <=> Answers(c, r)
        BY <3>1 DEF Answers
      <3> QED
        BY <2>1, <3>1, <3>2 DEF CallOK, ReplyOK
    <2> QED
      BY <2>1, <2>2, <2>3 DEF CallOK, NoOperation, Nothing
  <1> QED
    BY <1>1, <1>2, <1>3 DEF ClientInv

(* Every step keeps the invariant.                                                *)
LEMMA ClientNext == ClientInv /\ [Next]_vars => ClientInv'
  <1> SUFFICES ASSUME ClientInv, [Next]_vars PROVE ClientInv'
    OBVIOUS
  <1>1. CASE NodeAdvance \/ UNCHANGED vars
    BY <1>1, ClientFrame DEF NodeAdvance, vars, node, ClientInv, TypeOK
  <1>2. ASSUME NEW c \in Callers, ClientStep(c) PROVE ClientInv'
    BY <1>2, CallInv, GotHashInv, GotBlockInv, GotResultInv, FailInv
       DEF ClientStep, GoOn, PostFails, Timeout, Break
  <1> QED
    BY <1>1, <1>2, NodeStepInv DEF Next

(* In every reachable state a request belongs to the operation its caller is in,  *)
(* a reply is an error or the answer to it, and the hash that a block is asked    *)
(* for with is the one that was looked up.                                        *)
THEOREM ClientInvariance == Spec => []ClientInv
  BY ClientInit, ClientNext, PTL DEF Spec

(* An operation that returns no error was carried out: the transaction is         *)
(* accepted, the request to prune is carried out as far as the node goes, the     *)
(* block is a block, although any exchange may be refused or break, before or     *)
(* after the node has acted on it.                                                *)
THEOREM SuccessesAreTrue == Spec => []SuccessIsTrue
  <1>1. ClientInv => SuccessIsTrue
    BY DEF ClientInv
  <1> QED
    BY <1>1, ClientInvariance, PTL

--------------------------------------------------------------------------------
(* The client is a source of blocks                                               *)

(* What the source sees of a caller whose variables stay.                         *)
LEMMA SameView ==
    ASSUME NEW d \in Callers, op'[d] = op[d], method'[d] = method[d], reply'[d] = reply[d],
           hash'[d] = hash[d], done'[d] = done[d]
    PROVE  Asked'[d] = Asked[d] /\ Looked'[d] = Looked[d] /\ Answer'[d] = Answer[d]
  BY DEF Asked, Looked, Answer, HashReply, Err, BlockOps

(* What it sees of one that posts a request.                                      *)
LEMMA PostedView ==
    ASSUME NEW c \in Callers, reply'[c] = NoReply
    PROVE  Looked'[c] = hash'[c]
  BY DEF Looked, HashReply, NoReply, Err

(* A caller whose view changes changes nobody else's.                             *)
LEMMA OneView ==
    ASSUME NEW c \in Callers,
           \A d \in Callers \ {c} :
               /\ op'[d] = op[d] /\ method'[d] = method[d] /\ reply'[d] = reply[d]
               /\ hash'[d] = hash[d] /\ done'[d] = done[d]
    PROVE  /\ Asked' = [Asked EXCEPT ![c] = Asked'[c]]
           /\ Looked' = [Looked EXCEPT ![c] = Looked'[c]]
           /\ Answer' = [Answer EXCEPT ![c] = Answer'[c]]
  <1>1. /\ DOMAIN Asked = Callers /\ DOMAIN Looked = Callers /\ DOMAIN Answer = Callers
        /\ DOMAIN Asked' = Callers /\ DOMAIN Looked' = Callers /\ DOMAIN Answer' = Callers
        /\ Asked = [d \in Callers |-> Asked[d]] /\ Asked' = [d \in Callers |-> Asked'[d]]
        /\ Looked = [d \in Callers |-> Looked[d]] /\ Looked' = [d \in Callers |-> Looked'[d]]
        /\ Answer = [d \in Callers |-> Answer[d]] /\ Answer' = [d \in Callers |-> Answer'[d]]
    BY DEF Asked, Looked, Answer
  <1>2. \A d \in Callers \ {c} :
            Asked'[d] = Asked[d] /\ Looked'[d] = Looked[d] /\ Answer'[d] = Answer[d]
    BY SameView
  <1> QED
    BY <1>1, <1>2

(* Between two exchanges of an operation the source has the same request, block   *)
(* and answer.                                                                    *)
LEMMA ViewOf ==
    ASSUME ClientInv, NEW c \in Callers
    PROVE  /\ Asked[c] = IF op[c].by \in BlockOps THEN op[c] ELSE None
           /\ Asked[c] # None <=> op[c].by \in BlockOps
           /\ op[c] # NoOperation => Answer[c] = None
           /\ hash[c] # None => Looked[c] = hash[c]
           /\ hash[c] = None => Looked[c] = HashReply(c)
           /\ op[c].by \notin BlockOps => Looked[c] = None
  <1> USE DEF ClientInv
  <1>1. Asked[c] = IF op[c].by \in BlockOps THEN op[c] ELSE None
    BY DEF Asked
  <1>2. op[c].by \in BlockOps => op[c] \in Operations
    BY DEF TypeOK, NoOperation, BlockOps
  <1>3. op[c] # NoOperation => Answer[c] = None
    BY DEF Answer, CallOK, Nothing, NoOperation, BlockOps
  <1>4. op[c].by \notin BlockOps => hash[c] = None /\ HashReply(c) = None
    BY DEF CallOK, MethodOK, BlockOps, HashReply
  <1> QED
    BY <1>1, <1>2, <1>3, <1>4, NoneIsNoOperation DEF Looked

(* A caller that leaves its operation has no request and no block any more.       *)
LEMMA LeaveView ==
    ASSUME ClientInv, NEW c \in Callers, Leave(c), UNCHANGED node,
           \A d \in Callers \ {c} : done'[d] = done[d]
    PROVE  /\ UNCHANGED best
           /\ Asked' = [Asked EXCEPT ![c] = None]
           /\ Looked' = [Looked EXCEPT ![c] = None]
           /\ Answer' = [Answer EXCEPT ![c] = Answer'[c]]
  <1>1. /\ op'[c] = NoOperation /\ hash'[c] = None /\ reply'[c] = NoReply
        /\ \A d \in Callers \ {c} : /\ op'[d] = op[d] /\ method'[d] = method[d]
                                    /\ reply'[d] = reply[d] /\ hash'[d] = hash[d]
    BY DEF Leave, Post, ClientInv, TypeOK
  <1>2. Asked'[c] = None
    BY <1>1 DEF Asked, NoOperation, BlockOps
  <1>3. Looked'[c] = None
    BY <1>1, PostedView
  <1> QED
    BY <1>1, <1>2, <1>3, OneView DEF node

(* An operation that fails is an error of the source, or nothing of it.           *)
LEMMA FailFollows ==
    ASSUME ClientInv, NEW c \in Callers, Fail(c), UNCHANGED node
    PROVE  Source!Return(c) \/ UNCHANGED <<best, Asked, Looked, Answer>>
  <1>1. /\ UNCHANGED best /\ Answer' = Answer
        /\ Asked' = [Asked EXCEPT ![c] = None] /\ Looked' = [Looked EXCEPT ![c] = None]
    BY LeaveView DEF Fail, Answer, BlockOps
  <1>2. CASE op[c].by \in BlockOps
    BY <1>1, <1>2, ViewOf DEF Source!Return
  <1>3. CASE op[c].by \notin BlockOps
    <2>1. Asked[c] = None /\ Looked[c] = None
      BY <1>3, ViewOf
    <2>2. Asked = [d \in Callers |-> Asked[d]] /\ Looked = [d \in Callers |-> Looked[d]]
      BY DEF Asked, Looked
    <2> QED
      BY <1>1, <2>1, <2>2
  <1> QED
    BY <1>2, <1>3

(* An operation on a block returns the block the source has looked at.            *)
LEMMA ReturnFollows ==
    ASSUME ClientInv, NEW c \in Callers, NEW r, Return(c, r), UNCHANGED node,
           op[c] # NoOperation,
           op[c].by \in BlockOps => hash[c] # None /\ r = hash[c]
    PROVE  Source!Return(c) \/ UNCHANGED <<best, Asked, Looked, Answer>>
  <1>1. /\ Leave(c) /\ done'[c] = [op |-> op[c], result |-> r]
        /\ \A d \in Callers \ {c} : done'[d] = done[d]
    BY DEF Return, ClientInv, TypeOK
  <1>2. /\ UNCHANGED best /\ Answer' = [Answer EXCEPT ![c] = Answer'[c]]
        /\ Asked' = [Asked EXCEPT ![c] = None] /\ Looked' = [Looked EXCEPT ![c] = None]
    BY <1>1, LeaveView
  <1>3. Answer'[c] = IF op[c].by \in BlockOps THEN r ELSE None
    BY <1>1 DEF Answer, BlockOps
  <1>4. CASE op[c].by \in BlockOps
    <2>1. Asked[c] # None /\ Looked[c] = r /\ r # None
      BY <1>4, ViewOf
    <2> QED
      BY <1>2, <1>3, <1>4, <2>1 DEF Source!Return
  <1>5. CASE op[c].by \notin BlockOps
    <2>1. Asked[c] = None /\ Looked[c] = None /\ Answer[c] = None /\ Answer'[c] = None
      BY <1>3, <1>5, ViewOf
    <2>2. /\ Asked = [d \in Callers |-> Asked[d]] /\ Looked = [d \in Callers |-> Looked[d]]
          /\ Answer = [d \in Callers |-> Answer[d]]
      BY DEF Asked, Looked, Answer
    <2> QED
      BY <1>2, <2>1, <2>2
  <1> QED
    BY <1>4, <1>5

(* A call is a request of the source, or drops the last answer.                   *)
LEMMA CallFollows ==
    ASSUME ClientInv, NEW c \in Callers, CallBlock(c) \/ CallOther(c)
    PROVE  Source!Ask(c) \/ Source!Drop(c)
  <1> USE DEF ClientInv
  <1>1. op[c] = NoOperation /\ op[c].by = "none" /\ hash[c] = None
    BY DEF CallBlock, CallOther, CallOK, MethodOK, NoOperation
  <1>2. Asked[c] = None /\ Looked[c] = None
    BY <1>1, ViewOf DEF BlockOps
  <1>3. /\ UNCHANGED best /\ reply'[c] = NoReply /\ done'[c] = Nothing
        /\ \A d \in Callers \ {c} :
               /\ op'[d] = op[d] /\ method'[d] = method[d] /\ reply'[d] = reply[d]
               /\ hash'[d] = hash[d] /\ done'[d] = done[d]
    BY DEF CallBlock, CallOther, GetBlockHash, Post, node, TypeOK
  <1>4. Answer'[c] = None /\ Looked'[c] = hash'[c]
    BY <1>3, PostedView DEF Answer, Nothing, NoOperation, BlockOps
  <1>5. CASE CallBlock(c)
    <2>1. PICK o \in Operations : /\ o.by \in BlockOps /\ op' = [op EXCEPT ![c] = o]
                                  /\ hash' = [hash EXCEPT ![c] = IF o.by = "hash" THEN o.key
                                                                ELSE None]
      BY <1>5 DEF CallBlock, GetBlockHash, BlockOps
    <2>2. o \in Source!BlockRequests
      BY <2>1 DEF Operations, Source!BlockRequests, BlockOps
    <2>3. Asked'[c] = o /\ Looked'[c] = IF o.by = "hash" THEN o.key ELSE None
      BY <1>4, <2>1 DEF Asked, BlockOps, TypeOK
    <2> QED
      BY <1>2, <1>3, <1>4, <2>2, <2>3, OneView DEF Source!Ask
  <1>6. CASE CallOther(c)
    <2>1. op'[c].by \notin BlockOps /\ hash'[c] = None
      BY <1>1, <1>6 DEF CallOther, BlockOps, TypeOK
    <2>2. Asked'[c] = None /\ Looked'[c] = None
      BY <1>4, <2>1 DEF Asked, BlockOps
    <2>3. Asked = [d \in Callers |-> Asked[d]] /\ Looked = [d \in Callers |-> Looked[d]]
      BY DEF Asked, Looked
    <2> QED
      BY <1>2, <1>3, <1>4, <2>2, <2>3, OneView DEF Source!Drop
  <1> QED
    BY <1>5, <1>6

(* The second and third exchange of an operation go on with the block the source  *)
(* has looked at.                                                                 *)
LEMMA GoOnFollows ==
    ASSUME ClientInv, NEW c \in Callers, GotHash(c) \/ (GotBlock(c) /\ op[c].by = "tip")
    PROVE  UNCHANGED <<best, Asked, Looked, Answer>>
  <1> USE DEF ClientInv
  <1>1. /\ UNCHANGED <<best, op, done>> /\ reply'[c] = NoReply
        /\ \A d \in Callers \ {c} : /\ method'[d] = method[d] /\ reply'[d] = reply[d]
                                    /\ hash'[d] = hash[d]
    BY DEF GotHash, GotBlock, Post, node, TypeOK
  <1>2. Asked'[c] = Asked[c] /\ Answer'[c] = Answer[c] /\ Looked'[c] = hash'[c]
    BY <1>1, PostedView DEF Asked, Answer, BlockOps
  <1>3. Looked[c] = hash'[c]
    <2>1. CASE GotHash(c)
      <3>1. hash'[c] = reply[c].result /\ method[c] \in {"getblockchaininfo", "getblockhash"}
        BY <2>1 DEF GotHash, TypeOK
      <3>2. hash[c] = None
        BY <3>1 DEF CallOK
      <3>3. ~Err(reply[c])
        BY <2>1 DEF GotHash, PostOK
      <3> QED
        BY <3>1, <3>2, <3>3 DEF Looked, HashReply
    <2>2. CASE GotBlock(c) /\ op[c].by = "tip"
      <3>1. hash' = hash /\ hash[c] # None
        BY <2>2 DEF GotBlock, CallOK
      <3> QED
        BY <3>1, ViewOf
    <2> QED
      BY <2>1, <2>2
  <1>4. /\ Asked = [d \in Callers |-> Asked[d]] /\ Looked = [d \in Callers |-> Looked[d]]
        /\ Answer = [d \in Callers |-> Answer[d]]
    BY DEF Asked, Looked, Answer
  <1> QED
    BY <1>1, <1>2, <1>3, <1>4, OneView

(* The node's answer to a request for a hash is the one look at the best branch;  *)
(* its other replies are nothing to the source.                                   *)
LEMMA NodeFollows ==
    ASSUME ClientInv, NEW c \in Callers, NodeStep(c)
    PROVE  Source!Look(c) \/ UNCHANGED <<best, Asked, Looked, Answer>>
  <1> USE DEF ClientInv
  <1>1. /\ UNCHANGED <<best, op, method, hash, done>> /\ reply[c] = NoReply
        /\ method[c] # "none"
        /\ \A d \in Callers \ {c} : reply'[d] = reply[d]
    BY DEF NodeStep, Serve, Accept, PruneTo, Refuse, Result, Posted, node, TypeOK
  <1>2. /\ Asked' = Asked /\ Answer' = Answer
        /\ Looked' = [Looked EXCEPT ![c] = Looked'[c]]
    BY <1>1, OneView DEF Asked, Answer, BlockOps
  <1>3. Looked[c] = hash[c]
    BY <1>1 DEF Looked, HashReply, NoReply, Err
  <1>4. CASE hash[c] # None \/ HashReply(c)' = None
    <2>1. Looked'[c] = Looked[c]
      BY <1>1, <1>3, <1>4 DEF Looked
    <2>2. Looked = [d \in Callers |-> Looked[d]]
      BY DEF Looked
    <2> QED
      BY <1>1, <1>2, <2>1, <2>2
  <1>5. CASE hash[c] = None /\ HashReply(c)' # None
    <2>1. /\ method[c] \in {"getblockchaininfo", "getblockhash"} /\ ~Err(reply'[c])
          /\ Looked'[c] = reply'[c].result
      BY <1>1, <1>5 DEF HashReply, Err, Looked
    <2>2. ASSUME Refuse(c) PROVE FALSE
      <3>1. reply'[c] \in Errors
        BY <2>2 DEF Refuse, TypeOK
      <3>2. reply'[c].error
        BY <3>1 DEF Errors
      <3> QED
        BY <2>1, <3>2 DEF Err
    <2>3. Serve(c)
      BY <2>1, <2>2 DEF NodeStep, Accept, PruneTo
    <2>4. PICK b \in Blocks :
             /\ Result(c, b)
             /\ \/ method[c] = "getblockchaininfo" /\ b = best
                \/ method[c] = "getblockhash" /\ b \in Branch[best] /\ Height[b] = op[c].key
      BY <2>1, <2>3, BranchShape DEF Serve, TypeOK
    <2>5. Looked'[c] = b
      BY <2>1, <2>4 DEF Result, TypeOK
    <2>6. /\ method[c] = "getblockchaininfo" => op[c].by = "tip"
          /\ method[c] = "getblockhash" => op[c].by = "index"
      BY DEF CallOK, MethodOK
    <2>7. Asked[c] = op[c] /\ Asked[c] # None
      BY <2>1, <2>6, ViewOf DEF BlockOps
    <2>8. Source!Matches(b, Asked[c])
      BY <2>4, <2>6, <2>7 DEF Source!Matches
    <2> QED
      BY <1>1, <1>2, <1>3, <1>5, <2>5, <2>7, <2>8 DEF Source!Look
  <1> QED
    BY <1>4, <1>5

(* Every step is a step of the source or none.                                    *)
LEMMA ClientFollows ==
    ASSUME ClientInv, [Next]_vars
    PROVE  [Source!SourceNext]_<<best, Asked, Looked, Answer>>
  <1>1. CASE NodeAdvance
    <2>1. UNCHANGED <<Asked, Looked, Answer>>
      BY <1>1 DEF NodeAdvance, call, Asked, Looked, Answer, HashReply, Err, BlockOps
    <2> QED
      BY <1>1, <2>1 DEF NodeAdvance, Source!Advance, Source!SourceNext
  <1>2. CASE UNCHANGED vars
    BY <1>2 DEF vars, node, call, Asked, Looked, Answer, HashReply, Err, BlockOps
  <1>3. ASSUME NEW c \in Callers, ClientStep(c)
        PROVE  \/ Source!Ask(c) \/ Source!Drop(c) \/ Source!Return(c)
               \/ UNCHANGED <<best, Asked, Looked, Answer>>
    <2>1. CASE CallBlock(c) \/ CallOther(c)
      BY <2>1, CallFollows
    <2>2. CASE GotHash(c) \/ (GotBlock(c) /\ op[c].by = "tip")
      BY <2>2, GoOnFollows
    <2>3. CASE GotBlock(c) /\ op[c].by # "tip"
      <3>1. /\ Answers(c, reply[c].result) /\ op[c] # NoOperation
            /\ method[c] = "getblock" /\ hash[c] # None
        BY <2>3, ReplyShape DEF GotBlock, ClientInv, CallOK
      <3>2. PICK r : r = reply[c].result /\ r = hash[c] /\ Return(c, r)
        BY <2>3, <3>1 DEF GotBlock, Answers
      <3> QED
        BY <2>3, <3>1, <3>2, ReturnFollows DEF GotBlock
    <2>4. CASE GotResult(c)
      <3>1. op[c] # NoOperation /\ CallOK(c) /\ method[c] # "none"
        BY <2>4, ReplyShape DEF GotResult, ClientInv, Replied
      <3>2. PICK r : r = (IF op[c].by = "tip" THEN block[c] ELSE reply[c].result) /\ Return(c, r)
        BY <2>4 DEF GotResult
      <3>3. op[c].by \in BlockOps => op[c].by = "tip" /\ method[c] = "getpeerinfo"
        BY <2>4, <3>1 DEF GotResult, CallOK, MethodOK, BlockOps
      <3>4. op[c].by \in BlockOps => hash[c] # None /\ r = hash[c]
        BY <3>1, <3>2, <3>3 DEF CallOK
      <3> QED
        BY <2>4, <3>1, <3>2, <3>4, ReturnFollows DEF GotResult
    <2>5. CASE PostFails(c) \/ Timeout(c) \/ Break(c)
      BY <2>5, FailFollows DEF PostFails, Timeout, Break
    <2> QED
      BY <1>3, <2>1, <2>2, <2>3, <2>4, <2>5 DEF ClientStep, GoOn
  <1>4. ASSUME NEW c \in Callers, NodeStep(c)
        PROVE  Source!Look(c) \/ UNCHANGED <<best, Asked, Looked, Answer>>
    BY <1>4, NodeFollows
  <1> QED
    BY <1>1, <1>2, <1>3, <1>4 DEF Next, Source!SourceNext

(* GetRawBlock and NetworkStatus implement a source of blocks that looks at the   *)
(* best branch once: the block they return was on the best branch at one moment   *)
(* of the call, whatever reorganisations and prunings happen between exchanges.   *)
THEOREM ClientIsBlockSource == Spec => BlockReadsAreAtomic
  <1>1. Init => Source!SourceInit
    BY DEF Init, Source!SourceInit, Asked, Looked, Answer, HashReply, NoOperation, Nothing,
           BlockOps
  <1>2. ClientInv /\ [Next]_vars => [Source!SourceNext]_<<best, Asked, Looked, Answer>>
    BY ClientFollows
  <1> QED
    BY <1>1, <1>2, ClientInvariance, PTL DEF Spec, BlockReadsAreAtomic, Source!SourceSpec
================================================================================
