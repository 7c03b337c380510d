------------------------------ MODULE BlockSource ------------------------------
(* What the indexer takes bitcoin.Client to be: a source of blocks that looks     *)
(* once at the node's best branch.  A request for a height is answered with the   *)
(* block that had this height on the best branch at one moment between request    *)
(* and answer, a request for the tip with the best block of such a moment, or     *)
(* with an error.  Module Indexer takes GetRawBlock and NetworkStatus for such    *)
(* single looks.                                                                  *)
EXTENDS BlockTree

CONSTANTS
    Callers,   \* the goroutines that ask
    Heights,   \* the heights they ask for
    None       \* no request, no block

VARIABLES
    best,      \* the node's best block
    asked,     \* asked[c]: the request of c that is being served
    looked,    \* looked[c]: the block that will be the answer, if there is one
    answer     \* answer[c]: the block that c got

(* A request is for a height, for a hash or for the tip.                          *)
BlockRequests == [by : {"index"}, key : Heights] \cup [by : {"hash"}, key : Blocks]
                 \cup [by : {"tip"}, key : {None}]

(* b is what request r asks for, now.                                             *)
Matches(b, r) ==
    \/ r.by = "index" /\ b \in Branch[best] /\ Height[b] = r.key
    \/ r.by = "tip" /\ b = best
    \/ r.by = "hash" /\ b = r.key

SourceInit ==
    /\ best \in Blocks
    /\ asked = [c \in Callers |-> None]
    /\ looked = [c \in Callers |-> None]
    /\ answer = [c \in Callers |-> None]

Advance ==
    /\ best' \in {b \in Blocks : Height[b] > Height[best]}
    /\ UNCHANGED <<asked, looked, answer>>

Ask(c) ==
    /\ asked[c] = None
    /\ \E r \in BlockRequests :
           /\ asked' = [asked EXCEPT ![c] = r]
           /\ looked' = [looked EXCEPT ![c] = IF r.by = "hash" THEN r.key ELSE None]
    /\ answer' = [answer EXCEPT ![c] = None]
    /\ UNCHANGED best

Look(c) ==
    /\ asked[c] # None /\ looked[c] = None
    /\ \E b \in Blocks : Matches(b, asked[c]) /\ looked' = [looked EXCEPT ![c] = b]
    /\ UNCHANGED <<best, asked, answer>>

(* The answer is the block looked at, or an error, which leaves none.            *)
Return(c) ==
    /\ asked[c] # None
    /\ asked' = [asked EXCEPT ![c] = None]
    /\ looked' = [looked EXCEPT ![c] = None]
    /\ \/ answer' = answer
       \/ looked[c] # None /\ answer' = [answer EXCEPT ![c] = looked[c]]
    /\ UNCHANGED best

(* c goes on to something else.                                                   *)
Drop(c) ==
    /\ answer' = [answer EXCEPT ![c] = None]
    /\ UNCHANGED <<best, asked, looked>>

SourceNext == Advance \/ \E c \in Callers : Ask(c) \/ Look(c) \/ Return(c) \/ Drop(c)

SourceSpec == SourceInit /\ [][SourceNext]_<<best, asked, looked, answer>>
================================================================================
