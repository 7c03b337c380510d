-------------------------------- MODULE Lifecycle --------------------------------
(* The life of the process: main.go, bitcoin/node.go and the parts of the indexer *)
(* that react to cancellation.  main starts goroutines in an errgroup, whose      *)
(* context is cancelled by a signal or by the first goroutine that returns an     *)
(* error, waits for all of them and closes the database.  In offline mode there   *)
(* is no node, no indexer and no database.                                        *)
(*                                                                                *)
(* Sync is opened up as far as Indexer.Block: the syncer asks the node how far it *)
(* is, each fetching goroutine gets a raw block from the node in a retry loop     *)
(* that watches the context, and blocks are added.  Only the retry loop forgives  *)
(* errors.  What Block does with the coins of the block is module Indexer.        *)
EXTENDS Integers

CONSTANTS
    Fetchers,     \* the goroutines in which the syncer calls Indexer.Block
    RetryLimit,   \* retryLimit
    MaxFaults     \* bound: calls that fail although bitcoind runs

ASSUME LifecycleConstants ==
    Fetchers # {} /\ RetryLimit \in Nat /\ MaxFaults \in Nat

(* The goroutines of the errgroup.  The last three are started by StartBitcoind.  *)
Group == {"memory", "startBitcoind", "sync", "prune", "serve", "shutdown",
          "logStdout", "logStderr", "interrupt"}

(* What LoadConfiguration reads: the environment variables and whether the data   *)
(* directories can be created.  A port is "none", "bad" (no positive number) or   *)
(* "good".                                                                        *)
Environments == [MODE : {"ONLINE", "OFFLINE", "unset", "other"},
                 NETWORK : {"MAINNET", "TESTNET", "REGTEST", "unset", "other"},
                 PORT : {"none", "bad", "good"},
                 writable : BOOLEAN]

VARIABLES
    boot,      \* main: "config", "bitcoind", "indexer", "server" or "wait" (g.Wait)
    mode,      \* cfg.Mode, "none" before it is known
    handler,   \* a request is being handled
    run,       \* run[g]: "no" (not started), "yes" or "done"
    ctxDone,   \* the errgroup's context is cancelled
    bitcoind,  \* the child process: "none", "up" or "down"
    stopping,  \* it was sent an interrupt
    syncPc,    \* Sync: "wait" (waitForNode), "range" (between two ranges of blocks),
               \* "sync" (a range is being fetched) or "over"
    pipeDone,  \* the context of the syncer's pipeline is cancelled
    fetch,     \* fetch[f]: where f is: "idle", "call", "sleep", "find" (with a block),
               \* "nil" (without) or "over"
    retries,   \* retries[f]: retries of Block, 0 outside of it
    gaveUp,    \* some Block returned because of its retry limit, uncancelled
    broken,    \* Sync met an error, other than a cancelled context, that nothing retries
    hasHead,   \* storage has a head block
    faults,    \* calls that failed although bitcoind runs
    signal,    \* signalReceived
    db,        \* "none", "open" or "closed"
    exit       \* "no", "halt" (main ran to its end), "fatal" (at startup) or "panic"

group == <<run, ctxDone>>
child == <<bitcoind, stopping>>
sync == <<syncPc, pipeDone, fetch, retries, gaveUp, broken, hasHead, faults>>
start == <<boot, mode, handler>>
main == <<start, signal, db, exit>>
vars == <<group, child, sync, main>>

FlagsOK ==
    /\ handler \in BOOLEAN /\ signal \in BOOLEAN /\ ctxDone \in BOOLEAN
    /\ stopping \in BOOLEAN /\ pipeDone \in BOOLEAN
    /\ gaveUp \in BOOLEAN /\ broken \in BOOLEAN /\ hasHead \in BOOLEAN

TypeOK ==
    /\ FlagsOK
    /\ boot \in {"config", "bitcoind", "indexer", "server", "wait"}
    /\ mode \in {"none", "ONLINE", "OFFLINE"}
    /\ run \in [Group -> {"no", "yes", "done"}]
    /\ bitcoind \in {"none", "up", "down"}
    /\ syncPc \in {"wait", "range", "sync", "over"}
    /\ fetch \in [Fetchers -> {"idle", "call", "sleep", "find", "nil", "over"}]
    /\ retries \in [Fetchers -> 0 .. RetryLimit]
    /\ faults \in 0 .. MaxFaults
    /\ db \in {"none", "open", "closed"}
    /\ exit \in {"no", "halt", "fatal", "panic"}

(* main begins.  Storage may hold the blocks of an earlier process.               *)
Init ==
    /\ boot = "config" /\ mode = "none" /\ handler = FALSE
    /\ run = [g \in Group |-> "no"]
    /\ ctxDone = FALSE
    /\ bitcoind = "none" /\ stopping = FALSE
    /\ syncPc = "wait" /\ pipeDone = FALSE
    /\ fetch = [f \in Fetchers |-> "idle"]
    /\ retries = [f \in Fetchers |-> 0]
    /\ gaveUp = FALSE /\ broken = FALSE
    /\ hasHead \in BOOLEAN
    /\ faults = 0
    /\ signal = FALSE /\ db = "none" /\ exit = "no"

(* g.Go for the goroutines gs                                                     *)
Go(gs) == run' = [g \in Group |-> IF g \in gs THEN "yes" ELSE run[g]]

(* LoadConfiguration accepts the environment.                                     *)
Accepted(env) ==
    /\ env.MODE = "OFFLINE" \/ (env.MODE = "ONLINE" /\ env.writable)
    /\ env.NETWORK \in {"MAINNET", "TESTNET", "REGTEST"}
    /\ env.PORT = "good"

(* main loads the configuration and starts the first goroutine; without a         *)
(* configuration it exits.                                                        *)
LoadConfiguration ==
    /\ boot = "config"
    /\ \E env \in Environments :
          \/ /\ Accepted(env)
             /\ mode' = env.MODE
             /\ boot' = IF env.MODE = "ONLINE" THEN "bitcoind" ELSE "server"
             /\ Go({"memory"})
             /\ UNCHANGED exit
          \/ /\ ~Accepted(env)
             /\ exit' = "fatal"
             /\ UNCHANGED <<boot, mode, run>>
    /\ UNCHANGED <<handler, ctxDone, child, sync, signal, db>>

(* startOnlineDependencies starts the goroutine that runs bitcoind ...            *)
LaunchBitcoind ==
    /\ boot = "bitcoind"
    /\ Go({"startBitcoind"})
    /\ boot' = "indexer"
    /\ UNCHANGED <<mode, handler, ctxDone, child, sync, signal, db, exit>>

(* ... and, meanwhile, opens the database.  If that fails main exits at once.     *)
InitializeIndexer ==
    /\ boot = "indexer"
    /\ \/ /\ db' = "open"
          /\ Go({"sync", "prune"})
          /\ boot' = "server"
          /\ UNCHANGED exit
       \/ /\ exit' = "fatal"
          /\ UNCHANGED <<db, run, boot>>
    /\ UNCHANGED <<mode, handler, ctxDone, child, sync, signal>>

StartServer ==
    /\ boot = "server"
    /\ Go({"serve", "shutdown"})
    /\ boot' = "wait"
    /\ UNCHANGED <<mode, handler, ctxDone, child, sync, signal, db, exit>>

(* errgroup: g returns; an error cancels the context.                             *)
Return(g, failed) ==
    /\ run' = [run EXCEPT ![g] = "done"]
    /\ ctxDone' = (ctxDone \/ failed)

--------------------------------------------------------------------------------
(* handleSignals                                                                  *)
Signal ==
    /\ ~signal
    /\ signal' = TRUE
    /\ ctxDone' = TRUE
    /\ UNCHANGED <<run, child, sync, start, db, exit>>

--------------------------------------------------------------------------------
(* StartBitcoind: the log goroutines are started before the process, which may    *)
(* fail to start.                                                                 *)
StartProcess ==
    /\ run["startBitcoind"] = "yes" /\ bitcoind = "none"
    /\ \/ /\ bitcoind' = "up"
          /\ run' = [run EXCEPT !["logStdout"] = "yes", !["logStderr"] = "yes",
                                !["interrupt"] = "yes"]
          /\ UNCHANGED ctxDone
       \/ /\ bitcoind' = "down"
          /\ run' = [run EXCEPT !["logStdout"] = "yes", !["logStderr"] = "yes",
                                !["startBitcoind"] = "done"]
          /\ ctxDone' = TRUE
    /\ UNCHANGED <<stopping, sync, main>>

(* The child exits, because it was interrupted or on its own.                     *)
ProcessExit ==
    /\ bitcoind = "up"
    /\ bitcoind' = "down"
    /\ UNCHANGED <<group, stopping, sync, main>>

(* cmd.Wait returns an error only for an exit code other than 0.                  *)
WaitReturns ==
    /\ run["startBitcoind"] = "yes" /\ bitcoind = "down"
    /\ \E failed \in BOOLEAN : Return("startBitcoind", failed)
    /\ UNCHANGED <<child, sync, main>>

(* Mutant: logPipe takes the end of the output for a normal return.               *)
LogPipeIgnoresEnd(g) ==
    /\ run[g] = "yes" /\ bitcoind = "down"
    /\ Return(g, FALSE)
    /\ UNCHANGED <<child, sync, main>>

(* logPipe returns the read error at the end of the child's output.               *)
LogPipeEnds(g) ==
    /\ run[g] = "yes" /\ bitcoind = "down"
    /\ Return(g, TRUE)
    /\ UNCHANGED <<child, sync, main>>

(* Interrupt the child once the context is cancelled.  It may be gone already.    *)
InterruptChild ==
    /\ run["interrupt"] = "yes" /\ ctxDone
    /\ stopping' = TRUE
    /\ Return("interrupt", bitcoind = "down")
    /\ UNCHANGED <<bitcoind, sync, main>>

--------------------------------------------------------------------------------
(* Prune and MonitorMemoryUsage return when the context is cancelled.             *)
ReturnOnCancel(g) ==
    /\ run[g] = "yes" /\ ctxDone
    /\ Return(g, TRUE)
    /\ UNCHANGED <<child, sync, main>>

(* The server accepts requests until it is shut down.                             *)
RequestArrives ==
    /\ run["serve"] = "yes" /\ run["shutdown"] = "yes"
    /\ ~handler
    /\ handler' = TRUE
    /\ UNCHANGED <<group, child, sync, boot, mode, signal, db, exit>>

RequestEnds ==
    /\ handler
    /\ handler' = FALSE
    /\ UNCHANGED <<group, child, sync, boot, mode, signal, db, exit>>

(* Mutant: Shutdown gets a context of its own and waits for the handlers.         *)
ShutdownWaits ==
    /\ run["shutdown"] = "yes" /\ ctxDone
    /\ ~handler
    /\ Return("shutdown", FALSE)
    /\ UNCHANGED <<child, sync, main>>

(* server.Shutdown closes the listener.  Its context is the one that is cancelled *)
(* already: it waits for no handler, a busy one only makes it return the error.   *)
Shutdown ==
    /\ run["shutdown"] = "yes" /\ ctxDone
    /\ Return("shutdown", handler)
    /\ UNCHANGED <<child, sync, main>>

(* Shutdown makes ListenAndServe, which knows of no context, return.              *)
ServeReturns ==
    /\ run["serve"] = "yes" /\ run["shutdown"] = "done"
    /\ Return("serve", TRUE)
    /\ UNCHANGED <<child, sync, main>>

(* The server's port cannot be opened.                                            *)
ListenFails ==
    /\ run["serve"] = "yes" /\ run["shutdown"] = "yes"
    /\ Return("serve", TRUE)
    /\ UNCHANGED <<child, sync, main>>

--------------------------------------------------------------------------------
(* Sync                                                                           *)

(* waitForNode: NetworkStatus answers, which it does not for a cancelled context. *)
NodeReady ==
    /\ run["sync"] = "yes" /\ syncPc = "wait" /\ bitcoind = "up" /\ ~ctxDone
    /\ syncPc' = "range"
    /\ UNCHANGED <<group, child, pipeDone, fetch, retries, gaveUp, broken, hasHead,
                   faults, main>>

(* waitForNode: the context is cancelled while it sleeps.                         *)
NodeWaitCancelled ==
    /\ run["sync"] = "yes" /\ syncPc = "wait" /\ ctxDone
    /\ syncPc' = "over"
    /\ Return("sync", TRUE)
    /\ UNCHANGED <<child, pipeDone, fetch, retries, gaveUp, broken, hasHead, faults,
                   main>>

(* The syncer asks for the status of the network and starts on a range of blocks. *)
NetworkStatus ==
    /\ syncPc = "range" /\ bitcoind = "up" /\ ~ctxDone
    /\ syncPc' = "sync"
    /\ UNCHANGED <<group, child, pipeDone, fetch, retries, gaveUp, broken, hasHead,
                   faults, main>>

(* Its call is not retried: when it fails, for want of a node, because of the     *)
(* context or for another reason, Sync returns the error.                         *)
NetworkStatusFails ==
    /\ syncPc = "range"
    /\ broken' = (broken \/ (bitcoind = "up" /\ ~ctxDone))
    /\ syncPc' = "over"
    /\ Return("sync", TRUE)
    /\ UNCHANGED <<child, pipeDone, fetch, retries, gaveUp, hasHead, faults, main>>

(* The context a fetching goroutine sees.                                         *)
Cancelled == ctxDone \/ pipeDone

(* for ctx.Err() == nil: a cancelled context leaves the loop without a block.     *)
RetryLoop == IF Cancelled THEN "nil" ELSE "call"

(* f's call of Block starts; the context may just have been cancelled.            *)
Block(f) ==
    /\ syncPc = "sync" /\ fetch[f] = "idle"
    /\ fetch' = [fetch EXCEPT ![f] = RetryLoop]
    /\ UNCHANGED <<group, child, syncPc, pipeDone, retries, gaveUp, broken, hasHead,
                   faults, main>>

CallSucceeds(f) ==
    /\ fetch[f] = "call" /\ bitcoind = "up" /\ ~Cancelled
    /\ fetch' = [fetch EXCEPT ![f] = "find"]
    /\ UNCHANGED <<group, child, syncPc, pipeDone, retries, gaveUp, broken, hasHead,
                   faults, main>>

(* f's Block returns an error, which cancels the pipeline.                        *)
FetchFails(f) ==
    /\ fetch' = [fetch EXCEPT ![f] = "over"]
    /\ retries' = [retries EXCEPT ![f] = 0]
    /\ pipeDone' = TRUE

(* Mutant: the last retry is not made.                                            *)
CallFailsEarly(f) ==
    /\ fetch[f] = "call"
    /\ \/ /\ bitcoind # "up" \/ Cancelled
          /\ UNCHANGED faults
       \/ /\ bitcoind = "up" /\ ~Cancelled /\ faults < MaxFaults
          /\ faults' = faults + 1
    /\ \/ /\ retries[f] + 1 < RetryLimit
          /\ retries' = [retries EXCEPT ![f] = @ + 1]
          /\ fetch' = [fetch EXCEPT ![f] = "sleep"]
          /\ UNCHANGED <<pipeDone, gaveUp>>
       \/ /\ retries[f] + 1 >= RetryLimit
          /\ FetchFails(f)
          /\ gaveUp' = (gaveUp \/ ~Cancelled)
    /\ UNCHANGED <<group, child, syncPc, broken, hasHead, main>>

(* Mutant: one retry too many is made.                                            *)
CallFailsLate(f) ==
    /\ fetch[f] = "call"
    /\ bitcoind # "up" \/ Cancelled
    /\ \/ /\ retries[f] <= RetryLimit
          /\ retries' = [retries EXCEPT ![f] = @ + 1]
          /\ fetch' = [fetch EXCEPT ![f] = "sleep"]
          /\ UNCHANGED <<pipeDone, gaveUp>>
       \/ /\ retries[f] > RetryLimit
          /\ FetchFails(f)
          /\ gaveUp' = (gaveUp \/ ~Cancelled)
    /\ UNCHANGED <<group, child, syncPc, broken, hasHead, faults, main>>

(* Mutant: a failed call leaves the loop.                                         *)
CallFailsProceeds(f) ==
    /\ fetch[f] = "call" /\ faults < MaxFaults
    /\ faults' = faults + 1
    /\ fetch' = [fetch EXCEPT ![f] = "nil"]
    /\ UNCHANGED <<group, child, syncPc, pipeDone, retries, gaveUp, broken, hasHead,
                   main>>

(* GetRawBlock fails, for want of a node, because of the context or for another   *)
(* reason: sleep and retry, at most RetryLimit times.                             *)
CallFails(f) ==
    /\ fetch[f] = "call"
    /\ \/ /\ bitcoind # "up" \/ Cancelled
          /\ UNCHANGED faults
       \/ /\ bitcoind = "up" /\ ~Cancelled /\ faults < MaxFaults
          /\ faults' = faults + 1
    /\ \/ /\ retries[f] + 1 <= RetryLimit
          /\ retries' = [retries EXCEPT ![f] = @ + 1]
          /\ fetch' = [fetch EXCEPT ![f] = "sleep"]
          /\ UNCHANGED <<pipeDone, gaveUp>>
       \/ /\ retries[f] + 1 > RetryLimit
          /\ FetchFails(f)
          /\ gaveUp' = (gaveUp \/ ~Cancelled)
    /\ UNCHANGED <<group, child, syncPc, broken, hasHead, main>>

(* ContextSleep: the timer fires or the context is cancelled.  When both have     *)
(* happened select may take either.                                               *)
Sleep(f) ==
    /\ fetch[f] = "sleep"
    /\ \/ /\ fetch' = [fetch EXCEPT ![f] = RetryLoop]
          /\ UNCHANGED <<retries, pipeDone>>
       \/ /\ Cancelled
          /\ FetchFails(f)
    /\ UNCHANGED <<group, child, syncPc, gaveUp, broken, hasHead, faults, main>>

(* findCoins and what follows, for a block: it is found, seen and, now or later,  *)
(* added, or findCoins, ParseBlock, the asserter or BlockSeen returns an error,   *)
(* because of the context or for another reason.                                  *)
FindCoins(f) ==
    /\ fetch[f] = "find"
    /\ \/ /\ fetch' = [fetch EXCEPT ![f] = "idle"]
          /\ retries' = [retries EXCEPT ![f] = 0]
          /\ hasHead' \in {hasHead, TRUE}
          /\ UNCHANGED <<pipeDone, broken>>
       \/ /\ FetchFails(f)
          /\ broken' = (broken \/ ~Cancelled)
          /\ UNCHANGED hasHead
    /\ UNCHANGED <<group, child, syncPc, gaveUp, faults, main>>

(* Without a block: checkHeaderMatch dereferences it if there is a head to        *)
(* compare it with, which ends the process; otherwise ParseBlock rejects it.      *)
FindCoinsNil(f) ==
    /\ fetch[f] = "nil"
    /\ \/ /\ hasHead
          /\ exit' = "panic"
          /\ UNCHANGED <<fetch, retries, pipeDone>>
       \/ /\ ~hasHead
          /\ FetchFails(f)
          /\ UNCHANGED exit
    /\ UNCHANGED <<group, child, syncPc, gaveUp, broken, hasHead, faults, start, signal,
                   db>>

(* A fetching goroutine without work ends with the pipeline.                      *)
FetcherEnds(f) ==
    /\ syncPc = "sync" /\ fetch[f] = "idle" /\ Cancelled
    /\ FetchFails(f)
    /\ UNCHANGED <<group, child, syncPc, gaveUp, broken, hasHead, faults, main>>

(* BlockAdded or BlockRemoved returns an error in the goroutine that sequences    *)
(* the blocks, which cancels the pipeline.                                        *)
SequencerFails ==
    /\ syncPc = "sync" /\ ~pipeDone
    /\ pipeDone' = TRUE
    /\ broken' = (broken \/ ~ctxDone)
    /\ UNCHANGED <<group, child, syncPc, fetch, retries, gaveUp, hasHead, faults, main>>

(* All blocks of the range are fetched and added.                                 *)
RangeEnds ==
    /\ syncPc = "sync" /\ ~pipeDone
    /\ \A f \in Fetchers : fetch[f] = "idle"
    /\ syncPc' = "range"
    /\ UNCHANGED <<group, child, pipeDone, fetch, retries, gaveUp, broken, hasHead,
                   faults, main>>

(* Mutant: the syncer returns as soon as its pipeline is cancelled.               *)
SyncReturnsAtOnce ==
    /\ syncPc = "sync" /\ Cancelled
    /\ syncPc' = "over"
    /\ Return("sync", TRUE)
    /\ UNCHANGED <<child, pipeDone, fetch, retries, gaveUp, broken, hasHead, faults,
                   main>>

(* The syncer returns when all its goroutines have.                               *)
SyncReturns ==
    /\ syncPc = "sync"
    /\ \A f \in Fetchers : fetch[f] = "over"
    /\ syncPc' = "over"
    /\ Return("sync", TRUE)
    /\ UNCHANGED <<child, pipeDone, fetch, retries, gaveUp, broken, hasHead, faults,
                   main>>

--------------------------------------------------------------------------------
(* Mutant: main waits for the server only.                                        *)
WaitDoneServer == boot = "wait" /\ run["serve"] = "done" /\ run["shutdown"] = "done"

(* g.Wait returns when every goroutine has.                                       *)
WaitDone == boot = "wait" /\ \A g \in Group : run[g] # "yes"

(* The database, if there is one, is closed ...                                   *)
CloseDatabase ==
    /\ WaitDone /\ db = "open"
    /\ db' = "closed"
    /\ UNCHANGED <<group, child, sync, start, signal, exit>>

(* ... and the process ends.                                                      *)
Exit ==
    /\ WaitDone /\ db # "open"
    /\ exit' = "halt"
    /\ UNCHANGED <<group, child, sync, start, signal, db>>

--------------------------------------------------------------------------------
FetcherStep(f) ==
    \/ Block(f) \/ CallSucceeds(f) \/ CallFails(f) \/ Sleep(f)
    \/ FindCoins(f) \/ FindCoinsNil(f) \/ FetcherEnds(f)

SyncStep ==
    \/ NodeReady \/ NodeWaitCancelled \/ NetworkStatus \/ NetworkStatusFails
    \/ RangeEnds \/ SyncReturns

GroupStep ==
    \/ StartProcess \/ WaitReturns \/ InterruptChild \/ ServeReturns
    \/ LogPipeEnds("logStdout") \/ LogPipeEnds("logStderr")
    \/ ReturnOnCancel("prune") \/ ReturnOnCancel("memory") \/ Shutdown

MainStep ==
    \/ LoadConfiguration \/ LaunchBitcoind \/ InitializeIndexer \/ StartServer
    \/ CloseDatabase \/ Exit

Next ==
    /\ exit = "no"
    /\ \/ Signal \/ ListenFails \/ ProcessExit \/ RequestArrives \/ RequestEnds
       \/ SequencerFails
       \/ GroupStep \/ SyncStep \/ MainStep
       \/ \E f \in Fetchers : FetcherStep(f)

Spec == Init /\ [][Next]_vars

(* Every goroutine is scheduled, and bitcoind ends when it is interrupted.  A     *)
(* request may take forever.                                                      *)
Fairness ==
    /\ WF_vars(exit = "no" /\ GroupStep)
    /\ WF_vars(exit = "no" /\ SyncStep)
    /\ WF_vars(exit = "no" /\ MainStep)
    /\ WF_vars(exit = "no" /\ stopping /\ ProcessExit)
    /\ \A f \in Fetchers : WF_vars(exit = "no" /\ FetcherStep(f))

FairSpec == Spec /\ Fairness

--------------------------------------------------------------------------------
(* The database is closed only after the goroutines that use it have stopped: the *)
(* fetchers of Sync, Sync itself and Prune.                                       *)
ClosedAfterIndexer ==
    db = "closed" => /\ run["sync"] # "yes" /\ run["prune"] # "yes"
                     /\ syncPc = "over"
                     /\ \A f \in Fetchers : fetch[f] \in {"idle", "over"}

(* The node may fail RetryLimit times, in whatever calls, without any Block       *)
(* giving up while bitcoind runs and nobody stops the process.                    *)
OutagesAreTolerated ==
    gaveUp /\ ~ctxDone /\ bitcoind = "up" => faults > RetryLimit

(* Nothing but a signal, a dead bitcoind, a failed server, a Block that gave up   *)
(* or an error that Sync never retries makes the process stop: a failed           *)
(* GetRawBlock within the limit, alone or with others, does not.                  *)
StopsForAReason ==
    ctxDone => signal \/ bitcoind = "down" \/ gaveUp \/ broken \/ run["serve"] = "done"

(* Unless it panics or cannot open its database, the process never leaves its     *)
(* bitcoind behind: main waits for the child it started, whatever cancelled the   *)
(* context and however early.                                                     *)
ChildIsStopped == exit = "halt" => bitcoind # "up"

(* How far main has come says which goroutines it has started.                    *)
StartupOK ==
    /\ boot # "wait" => run["serve"] = "no"
    /\ boot \in {"config", "bitcoind", "indexer"} => run["sync"] = "no"
    /\ run["startBitcoind"] = "no" =>
           /\ bitcoind = "none"
           /\ \A g \in {"logStdout", "logStderr", "interrupt"} : run[g] = "no"
    /\ bitcoind = "up" => run["startBitcoind"] = "yes"
    /\ db # "none" <=> run["sync"] # "no"
    /\ run["sync"] = "no" <=> run["prune"] = "no"
    /\ db = "closed" => WaitDone
    /\ exit = "halt" => WaitDone

(* Where Sync is says where its fetchers are and what the node was like.  A       *)
(* pipeline is cancelled, and a block is missing, for a reason only.              *)
SyncOK ==
    /\ run["sync"] = "no" => syncPc = "wait"
    /\ run["sync"] = "done" <=> syncPc = "over"
    /\ syncPc \in {"wait", "range"} => ~pipeDone /\ \A f \in Fetchers : fetch[f] = "idle"
    /\ syncPc = "wait" => \A f \in Fetchers : retries[f] = 0
    /\ syncPc = "over" => ctxDone /\ \A f \in Fetchers : fetch[f] \in {"idle", "over"}
    /\ syncPc \in {"range", "sync"} => bitcoind # "none"
    /\ \A f \in Fetchers : fetch[f] = "over" => pipeDone
    /\ \A f \in Fetchers : fetch[f] = "nil" => Cancelled
    /\ pipeDone => ctxDone \/ gaveUp \/ broken
    /\ gaveUp => pipeDone

(* As long as bitcoind runs and nobody stops the process, every retry is due to a *)
(* fault, and faults beyond the retry limit are the only reason to give up.       *)
RetriesOK ==
    ~ctxDone /\ bitcoind = "up" =>
        /\ gaveUp => faults > RetryLimit
        /\ ~pipeDone => \A f \in Fetchers : retries[f] <= faults

(* The inductive invariant behind the safety properties above.                    *)
LifecycleInv == TypeOK /\ StartupOK /\ SyncOK /\ RetriesOK /\ StopsForAReason

(* A cancelled context ends the process, and so does the end of bitcoind, even    *)
(* with exit code 0: no goroutine waits for another forever, and none for a       *)
(* request that hangs.                                                            *)
StopEnds == (ctxDone \/ bitcoind = "down") ~> exit # "no"

(* main always closes the database before the process ends, regardless of the     *)
(* error.                                                                         *)
AlwaysClosed == exit # "no" => db # "open"
================================================================================
