----------------------------- MODULE LifecycleProofs -----------------------------
(* The process starts, tolerates outages and stops in order, for any number of    *)
(* fetching goroutines and every retry limit.                                     *)
EXTENDS Lifecycle, TLAPS

(* The process begins with nothing started.                                       *)
LEMMA LifecycleInit == Init => LifecycleInv
<1> SUFFICES ASSUME Init PROVE LifecycleInv
  OBVIOUS
<1>1. FlagsOK /\ ~ctxDone /\ ~pipeDone /\ ~gaveUp
  BY Zenon DEF Init, FlagsOK
<1>2. /\ boot = "config" /\ mode = "none" /\ run = [g \in Group |-> "no"]
      /\ bitcoind = "none" /\ syncPc = "wait" /\ faults = 0 /\ db = "none" /\ exit = "no"
      /\ fetch = [f \in Fetchers |-> "idle"] /\ retries = [f \in Fetchers |-> 0]
  BY Zenon DEF Init
<1>3. TypeOK
  <2>1. retries \in [Fetchers -> 0 .. RetryLimit]
    BY <1>2, LifecycleConstants
  <2>2. faults \in 0 .. MaxFaults
    BY <1>2, LifecycleConstants
  <2>3. /\ run \in [Group -> {"no", "yes", "done"}]
        /\ fetch \in [Fetchers -> {"idle", "call", "sleep", "find", "nil", "over"}]
    BY <1>2
  <2> QED
    BY <1>1, <1>2, <2>1, <2>2, <2>3 DEF TypeOK
<1>4. StartupOK
  BY <1>2 DEF StartupOK, Group
<1>5. SyncOK
  BY <1>1, <1>2 DEF SyncOK, Group
<1>6. RetriesOK /\ StopsForAReason
  BY <1>1, <1>2 DEF RetriesOK, StopsForAReason
<1> QED
  BY <1>3, <1>4, <1>5, <1>6 DEF LifecycleInv

--------------------------------------------------------------------------------
(* A goroutine other than Sync returns.  It has a reason for its error, and the   *)
(* one that runs bitcoind returns only when the child is gone.                    *)
LEMMA ReturnInv ==
    ASSUME LifecycleInv, exit = "no",
           NEW g \in Group \ {"sync"}, NEW failed \in BOOLEAN,
           run[g] = "yes", Return(g, failed), UNCHANGED <<bitcoind, sync, main>>,
           stopping' \in BOOLEAN,
           failed => ctxDone \/ bitcoind = "down" \/ run["serve"] = "done" \/ g = "serve",
           g = "startBitcoind" => bitcoind = "down"
    PROVE  LifecycleInv'
<1> USE DEF LifecycleInv, Return, sync, main, start, Group
<1>0. FlagsOK'
  BY Zenon DEF TypeOK, FlagsOK
<1>1. TypeOK'
  BY <1>0 DEF TypeOK
<1>2. ~WaitDone
  BY DEF WaitDone
<1>3. StartupOK'
  BY <1>2 DEF TypeOK, StartupOK
<1>4. SyncOK'
  BY DEF TypeOK, SyncOK, Cancelled
<1>5. RetriesOK'
  BY DEF TypeOK, RetriesOK
<1>6. StopsForAReason'
  BY DEF TypeOK, StopsForAReason
<1> QED
  BY <1>1, <1>3, <1>4, <1>5, <1>6

(* StartBitcoind starts the child, or fails to.                                   *)
LEMMA StartProcessInv ==
    ASSUME LifecycleInv, exit = "no", StartProcess PROVE LifecycleInv'
<1> USE DEF LifecycleInv
<1>1. /\ run["startBitcoind"] = "yes" /\ bitcoind = "none"
      /\ UNCHANGED <<boot, mode, handler, stopping, syncPc, pipeDone, fetch, retries,
                     gaveUp, broken, hasHead, faults, signal, db, exit>>
  BY DEF StartProcess, sync, main, start
<1>2. /\ run' \in [Group -> {"no", "yes", "done"}]
      /\ run'["startBitcoind"] \in {"yes", "done"}
      /\ \A g \in {"sync", "prune", "serve"} : run'[g] = run[g]
  BY DEF StartProcess, TypeOK, Group
<1>3. /\ ctxDone' \in BOOLEAN /\ (ctxDone => ctxDone') /\ bitcoind' \in {"up", "down"}
      /\ bitcoind' = "up" => ctxDone' = ctxDone
      /\ ctxDone' => ctxDone \/ bitcoind' = "down"
  <2>1. CASE bitcoind' = "up" /\ UNCHANGED ctxDone
    BY <2>1, Zenon DEF TypeOK, FlagsOK
  <2>2. CASE bitcoind' = "down" /\ ctxDone' = TRUE
    BY <2>2, Zenon
  <2> QED
    BY <2>1, <2>2, Zenon DEF StartProcess
<1>4. bitcoind' = "up" => run'["startBitcoind"] = "yes"
  BY <1>1 DEF StartProcess, TypeOK, Group
<1>5. ~WaitDone
  BY <1>1 DEF WaitDone, Group
<1> HIDE DEF StartProcess
<1>6. FlagsOK'
  BY <1>1, <1>3, Zenon DEF TypeOK, FlagsOK
<1>7. TypeOK'
  BY <1>1, <1>2, <1>3, <1>6 DEF TypeOK
<1>8. StartupOK'
  BY <1>1, <1>2, <1>3, <1>4, <1>5 DEF StartupOK
<1>9. SyncOK'
  BY <1>1, <1>2, <1>3 DEF SyncOK, Cancelled
<1>10. RetriesOK'
  <2>1. CASE syncPc = "wait"
    BY <2>1, <1>1, <1>3, LifecycleConstants DEF TypeOK, SyncOK, RetriesOK
  <2>2. CASE syncPc = "over"
    BY <2>2, <1>1, <1>3 DEF TypeOK, SyncOK, RetriesOK
  <2> QED
    BY <2>1, <2>2, <1>1 DEF TypeOK, SyncOK
<1>11. StopsForAReason'
  BY <1>1, <1>2, <1>3 DEF StopsForAReason
<1> QED
  BY <1>7, <1>8, <1>9, <1>10, <1>11

(* The child exits.                                                               *)
LEMMA ProcessExitInv ==
    ASSUME LifecycleInv, exit = "no", ProcessExit PROVE LifecycleInv'
<1> USE DEF LifecycleInv, ProcessExit, group, sync, main, start
<1>0. FlagsOK'
  BY Zenon DEF TypeOK, FlagsOK
<1>1. TypeOK'
  BY <1>0 DEF TypeOK
<1>2. WaitDone' = WaitDone
  BY DEF WaitDone
<1>3. StartupOK'
  BY <1>2 DEF TypeOK, StartupOK
<1>4. SyncOK'
  BY DEF SyncOK, Cancelled
<1>5. RetriesOK' /\ StopsForAReason'
  BY DEF RetriesOK, StopsForAReason
<1> QED
  BY <1>1, <1>3, <1>4, <1>5

(* A signal arrives.                                                              *)
LEMMA SignalInv ==
    ASSUME LifecycleInv, exit = "no", Signal PROVE LifecycleInv'
<1> USE DEF LifecycleInv, Signal, child, sync, start
<1>0. FlagsOK'
  BY Zenon DEF TypeOK, FlagsOK
<1>1. TypeOK'
  BY <1>0 DEF TypeOK
<1>2. WaitDone' = WaitDone
  BY DEF WaitDone
<1>3. StartupOK'
  BY <1>2 DEF TypeOK, StartupOK
<1>4. SyncOK'
  BY DEF SyncOK, Cancelled
<1>5. RetriesOK' /\ StopsForAReason'
  BY DEF RetriesOK, StopsForAReason
<1> QED
  BY <1>1, <1>3, <1>4, <1>5

(* Requests come and go.                                                          *)
LEMMA RequestInv ==
    ASSUME LifecycleInv, exit = "no", RequestArrives \/ RequestEnds PROVE LifecycleInv'
<1> USE DEF LifecycleInv, RequestArrives, RequestEnds, group, child, sync
<1>0. FlagsOK'
  BY Zenon DEF TypeOK, FlagsOK
<1>1. TypeOK'
  BY <1>0 DEF TypeOK
<1>2. WaitDone' = WaitDone
  BY DEF WaitDone
<1>3. StartupOK'
  BY <1>2 DEF TypeOK, StartupOK
<1>4. SyncOK'
  BY DEF SyncOK, Cancelled
<1>5. RetriesOK' /\ StopsForAReason'
  BY DEF RetriesOK, StopsForAReason
<1> QED
  BY <1>1, <1>3, <1>4, <1>5

(* The steps of the goroutines of the errgroup other than Sync.                   *)
LEMMA GroupStepInv ==
    ASSUME LifecycleInv, exit = "no", GroupStep \/ ListenFails PROVE LifecycleInv'
<1> USE DEF child
<1>t. (bitcoind = "down") \in BOOLEAN /\ handler \in BOOLEAN /\ stopping \in BOOLEAN
  BY Zenon DEF LifecycleInv, TypeOK, FlagsOK
<1>1. CASE StartProcess
  BY <1>1, StartProcessInv
<1>2. CASE WaitReturns
  BY <1>2, <1>t, ReturnInv DEF WaitReturns, Group
<1>3. CASE InterruptChild
  BY <1>3, <1>t, ReturnInv DEF InterruptChild, Group
<1>4. CASE ServeReturns \/ ListenFails
  BY <1>4, <1>t, ReturnInv DEF ServeReturns, ListenFails, Group
<1>5. ASSUME NEW g \in {"logStdout", "logStderr"}, LogPipeEnds(g) PROVE LifecycleInv'
  BY <1>5, <1>t, ReturnInv DEF LogPipeEnds, Group
<1>6. ASSUME NEW g \in {"prune", "memory"}, ReturnOnCancel(g) PROVE LifecycleInv'
  BY <1>6, <1>t, ReturnInv DEF ReturnOnCancel, Group
<1>7. CASE Shutdown
  BY <1>7, <1>t, ReturnInv DEF Shutdown, Group
<1> QED
  BY <1>1, <1>2, <1>3, <1>4, <1>5, <1>6, <1>7 DEF GroupStep

--------------------------------------------------------------------------------
(* g.Go starts goroutines and leaves the others alone.                            *)
LEMMA GoStarts ==
    ASSUME TypeOK, NEW gs, Go(gs)
    PROVE  /\ run' \in [Group -> {"no", "yes", "done"}]
           /\ \A g \in Group : run'[g] = IF g \in gs THEN "yes" ELSE run[g]
BY DEF TypeOK, Go

(* main has its configuration, or exits.                                          *)
LEMMA LoadConfigurationInv ==
    ASSUME LifecycleInv, exit = "no", LoadConfiguration PROVE LifecycleInv'
<1>1. /\ boot = "config" /\ boot' \in {"config", "bitcoind", "server"}
      /\ mode' \in {mode, "ONLINE", "OFFLINE"} /\ exit' \in {"no", "fatal"}
      /\ UNCHANGED <<handler, ctxDone, bitcoind, stopping, syncPc, pipeDone, fetch,
                     retries, gaveUp, broken, hasHead, faults, signal, db>>
  BY DEF LoadConfiguration, Accepted, child, sync
<1>2. /\ run' \in [Group -> {"no", "yes", "done"}]
      /\ run'["startBitcoind"] = run["startBitcoind"] /\ run'["sync"] = run["sync"]
      /\ run'["prune"] = run["prune"] /\ run'["serve"] = run["serve"]
      /\ \A g \in {"logStdout", "logStderr", "interrupt"} : run'[g] = run[g]
  <2>1. CASE Go({"memory"})
    BY <2>1, GoStarts DEF LifecycleInv, Group
  <2>2. CASE UNCHANGED run
    BY <2>2 DEF LifecycleInv, TypeOK
  <2> QED
    BY <2>1, <2>2 DEF LoadConfiguration
<1> HIDE DEF LoadConfiguration
<1> USE DEF LifecycleInv
<1>3. FlagsOK'
  BY <1>1, Zenon DEF TypeOK, FlagsOK
<1>4. TypeOK'
  BY <1>1, <1>2, <1>3 DEF TypeOK
<1>5. StartupOK'
  BY <1>1, <1>2 DEF TypeOK, StartupOK, WaitDone
<1>6. SyncOK'
  BY <1>1, <1>2 DEF SyncOK, Cancelled
<1>7. RetriesOK' /\ StopsForAReason'
  BY <1>1, <1>2 DEF RetriesOK, StopsForAReason
<1> QED
  BY <1>4, <1>5, <1>6, <1>7

(* main starts the goroutine that runs bitcoind.                                  *)
LEMMA LaunchBitcoindInv ==
    ASSUME LifecycleInv, exit = "no", LaunchBitcoind PROVE LifecycleInv'
<1>1. /\ boot = "bitcoind" /\ boot' = "indexer" /\ UNCHANGED <<mode, exit, db>>
      /\ UNCHANGED <<handler, ctxDone, bitcoind, stopping, syncPc, pipeDone, fetch,
                     retries, gaveUp, broken, hasHead, faults, signal>>
  BY DEF LaunchBitcoind, child, sync
<1>2. /\ run' \in [Group -> {"no", "yes", "done"}]
      /\ run'["startBitcoind"] = "yes" /\ run'["sync"] = run["sync"]
      /\ run'["prune"] = run["prune"] /\ run'["serve"] = run["serve"]
  BY GoStarts DEF LifecycleInv, LaunchBitcoind, Group
<1> HIDE DEF LaunchBitcoind
<1> USE DEF LifecycleInv
<1>3. FlagsOK'
  BY <1>1, Zenon DEF TypeOK, FlagsOK
<1>4. TypeOK'
  BY <1>1, <1>2, <1>3 DEF TypeOK
<1>5. StartupOK'
  BY <1>1, <1>2 DEF TypeOK, StartupOK, WaitDone
<1>6. SyncOK'
  BY <1>1, <1>2 DEF SyncOK, Cancelled
<1>7. RetriesOK' /\ StopsForAReason'
  BY <1>1, <1>2 DEF RetriesOK, StopsForAReason
<1> QED
  BY <1>4, <1>5, <1>6, <1>7

(* main opens the database and starts Sync and Prune, or exits.                   *)
LEMMA InitializeIndexerInv ==
    ASSUME LifecycleInv, exit = "no", InitializeIndexer PROVE LifecycleInv'
<1>1. /\ boot = "indexer" /\ boot' \in {"indexer", "server"}
      /\ exit' \in {"no", "fatal"} /\ UNCHANGED mode
      /\ UNCHANGED <<handler, ctxDone, bitcoind, stopping, syncPc, pipeDone, fetch,
                     retries, gaveUp, broken, hasHead, faults, signal>>
  BY DEF InitializeIndexer, child, sync
<1>2. /\ run' \in [Group -> {"no", "yes", "done"}] /\ db' \in {db, "open"}
      /\ run'["startBitcoind"] = run["startBitcoind"] /\ run'["serve"] = run["serve"]
      /\ \A g \in {"logStdout", "logStderr", "interrupt"} : run'[g] = run[g]
      /\ \/ run'["sync"] = run["sync"] /\ run'["prune"] = run["prune"] /\ db' = db
         \/ /\ run["sync"] = "no"
            /\ run'["sync"] = "yes" /\ run'["prune"] = "yes" /\ db' = "open"
            /\ boot' = "server"
  <2>1. CASE Go({"sync", "prune"}) /\ db' = "open" /\ boot' = "server"
    BY <2>1, <1>1, GoStarts DEF LifecycleInv, StartupOK, Group
  <2>2. CASE UNCHANGED <<run, db>>
    BY <2>2 DEF LifecycleInv, TypeOK
  <2> QED
    BY <2>1, <2>2 DEF InitializeIndexer
<1> HIDE DEF InitializeIndexer
<1> USE DEF LifecycleInv
<1>3. FlagsOK'
  BY <1>1, Zenon DEF TypeOK, FlagsOK
<1>4. TypeOK'
  BY <1>1, <1>2, <1>3 DEF TypeOK
<1>5. StartupOK'
  BY <1>1, <1>2 DEF TypeOK, StartupOK, WaitDone
<1>6. SyncOK'
  BY <1>1, <1>2 DEF SyncOK, Cancelled
<1>7. RetriesOK' /\ StopsForAReason'
  BY <1>1, <1>2 DEF RetriesOK, StopsForAReason
<1> QED
  BY <1>4, <1>5, <1>6, <1>7

(* main starts the server.                                                        *)
LEMMA StartServerInv ==
    ASSUME LifecycleInv, exit = "no", StartServer PROVE LifecycleInv'
<1>1. /\ boot = "server" /\ boot' = "wait" /\ UNCHANGED <<mode, exit, db>>
      /\ UNCHANGED <<handler, ctxDone, bitcoind, stopping, syncPc, pipeDone, fetch,
                     retries, gaveUp, broken, hasHead, faults, signal>>
  BY DEF StartServer, child, sync
<1>2. /\ run' \in [Group -> {"no", "yes", "done"}]
      /\ run'["startBitcoind"] = run["startBitcoind"] /\ run'["sync"] = run["sync"]
      /\ run'["prune"] = run["prune"] /\ run'["serve"] = "yes"
      /\ \A g \in {"logStdout", "logStderr", "interrupt"} : run'[g] = run[g]
  BY GoStarts DEF LifecycleInv, StartServer, Group
<1> HIDE DEF StartServer
<1> USE DEF LifecycleInv
<1>3. FlagsOK'
  BY <1>1, Zenon DEF TypeOK, FlagsOK
<1>4. TypeOK'
  BY <1>1, <1>2, <1>3 DEF TypeOK
<1>5. StartupOK'
  BY <1>1, <1>2 DEF TypeOK, StartupOK, WaitDone
<1>6. SyncOK'
  BY <1>1, <1>2 DEF SyncOK, Cancelled
<1>7. RetriesOK' /\ StopsForAReason'
  BY <1>1, <1>2 DEF RetriesOK, StopsForAReason, StartupOK
<1> QED
  BY <1>4, <1>5, <1>6, <1>7

(* main has waited for everybody: it closes the database, then it ends.           *)
LEMMA EndInv ==
    ASSUME LifecycleInv, exit = "no", CloseDatabase \/ Exit PROVE LifecycleInv'
<1> USE DEF LifecycleInv, CloseDatabase, Exit, group, child, sync, start
<1>0. FlagsOK'
  BY Zenon DEF TypeOK, FlagsOK
<1>1. TypeOK'
  BY <1>0 DEF TypeOK
<1>2. WaitDone' = WaitDone
  BY DEF WaitDone
<1>3. StartupOK'
  BY <1>2 DEF TypeOK, StartupOK
<1>4. SyncOK' /\ RetriesOK' /\ StopsForAReason'
  BY DEF SyncOK, RetriesOK, StopsForAReason, Cancelled
<1> QED
  BY <1>1, <1>3, <1>4

--------------------------------------------------------------------------------
(* Sync moves on between waiting for the node, ranges and fetching.               *)
LEMMA SyncMovesInv ==
    ASSUME LifecycleInv, exit = "no", NodeReady \/ NetworkStatus \/ RangeEnds
    PROVE  LifecycleInv'
<1> USE DEF LifecycleInv
<1>1. /\ UNCHANGED <<run, ctxDone, bitcoind, stopping, pipeDone, fetch, retries, gaveUp,
                     broken, hasHead, faults, boot, mode, handler, signal, db, exit>>
      /\ syncPc \in {"wait", "range", "sync"} /\ syncPc' \in {"range", "sync"}
      /\ bitcoind # "none" /\ run["sync"] = "yes"
      /\ syncPc' = "range" => ~pipeDone /\ \A f \in Fetchers : fetch[f] = "idle"
  BY DEF NodeReady, NetworkStatus, RangeEnds, TypeOK, SyncOK, group, child, main, start, Group
<1>2. FlagsOK'
  BY <1>1, Zenon DEF TypeOK, FlagsOK
<1>3. TypeOK'
  BY <1>1, <1>2 DEF TypeOK
<1>4. StartupOK' /\ RetriesOK' /\ StopsForAReason'
  BY <1>1 DEF StartupOK, RetriesOK, StopsForAReason, WaitDone
<1>5. SyncOK'
  BY <1>1 DEF SyncOK, Cancelled
<1> QED
  BY <1>3, <1>4, <1>5

(* Sync moves on, or returns with an error.                                       *)
LEMMA SyncStepInv == ASSUME LifecycleInv, exit = "no", SyncStep PROVE LifecycleInv'
<1> USE DEF LifecycleInv, child, main, start, group, Group
<1>1. CASE NodeReady \/ NetworkStatus \/ RangeEnds
  BY <1>1, SyncMovesInv
<1>2. CASE NodeWaitCancelled \/ NetworkStatusFails \/ SyncReturns
  <2>1. /\ run["sync"] = "yes" /\ run' = [run EXCEPT !["sync"] = "done"]
        /\ syncPc' = "over"
        /\ UNCHANGED <<bitcoind, stopping, pipeDone, fetch, retries, gaveUp, hasHead,
                       faults, boot, mode, handler, signal, db, exit>>
    BY <1>2 DEF NodeWaitCancelled, NetworkStatusFails, SyncReturns, Return, TypeOK, SyncOK
  <2>c. ctxDone' /\ ctxDone' \in BOOLEAN
    BY <1>2, Zenon DEF NodeWaitCancelled, NetworkStatusFails, SyncReturns, Return
  <2>b. broken' \in BOOLEAN /\ (broken => broken')
    BY <1>2, Zenon DEF NodeWaitCancelled, NetworkStatusFails, SyncReturns, TypeOK, FlagsOK
  <2>2. ctxDone \/ gaveUp \/ broken' \/ bitcoind = "down"
    <3>1. CASE NodeWaitCancelled \/ SyncReturns
      BY <3>1, <2>b, LifecycleConstants DEF NodeWaitCancelled, SyncReturns, SyncOK
    <3>2. CASE NetworkStatusFails
      <4>1. bitcoind = "up" \/ bitcoind = "down"
        BY <3>2 DEF NetworkStatusFails, TypeOK, SyncOK
      <4>2. bitcoind = "up" /\ ~ctxDone => broken'
        BY <3>2, Zenon DEF NetworkStatusFails
      <4> QED
        BY <4>1, <4>2
    <3> QED
      BY <1>2, <3>1, <3>2
  <2>3. \A f \in Fetchers : fetch[f] \in {"idle", "over"}
    BY <1>2 DEF NodeWaitCancelled, NetworkStatusFails, SyncReturns, SyncOK
  <2>4. ~WaitDone
    BY <2>1 DEF WaitDone
  <2>f. FlagsOK'
    BY <2>1, <2>b, <2>c, Zenon DEF TypeOK, FlagsOK
  <2>5. TypeOK'
    BY <2>1, <2>f DEF TypeOK
  <2>6. StartupOK'
    BY <2>1, <2>4 DEF TypeOK, StartupOK
  <2>7. SyncOK'
    BY <2>1, <2>b, <2>c, <2>3 DEF TypeOK, SyncOK, Cancelled
  <2>8. RetriesOK' /\ StopsForAReason'
    BY <2>1, <2>b, <2>c, <2>2 DEF TypeOK, RetriesOK, StopsForAReason
  <2> QED
    BY <2>5, <2>6, <2>7, <2>8
<1> QED
  BY <1>1, <1>2 DEF SyncStep

(* An error of BlockAdded or BlockRemoved cancels the pipeline.                   *)
LEMMA SequencerFailsInv ==
    ASSUME LifecycleInv, exit = "no", SequencerFails PROVE LifecycleInv'
<1> USE DEF LifecycleInv
<1>1. /\ UNCHANGED <<run, ctxDone, bitcoind, stopping, syncPc, fetch, retries, gaveUp,
                     hasHead, faults, boot, mode, handler, signal, db, exit>>
      /\ syncPc = "sync" /\ pipeDone'
  BY DEF SequencerFails, group, child, main, start
<1>2. /\ broken' \in BOOLEAN /\ pipeDone' \in BOOLEAN /\ (broken => broken')
      /\ ctxDone \/ broken'
  BY Zenon DEF SequencerFails, TypeOK, FlagsOK
<1>3. FlagsOK'
  BY <1>1, <1>2, Zenon DEF TypeOK, FlagsOK
<1>4. TypeOK'
  BY <1>1, <1>3 DEF TypeOK
<1>5. StartupOK' /\ RetriesOK' /\ StopsForAReason'
  BY <1>1, <1>2 DEF StartupOK, RetriesOK, StopsForAReason, WaitDone
<1>6. SyncOK'
  BY <1>1, <1>2 DEF SyncOK, Cancelled
<1> QED
  BY <1>4, <1>5, <1>6

(* A fetching goroutine changes only the state of Sync, ends nothing but itself,  *)
(* and no reason to stop is ever undone.                                          *)
LEMMA FetcherFrame ==
    ASSUME LifecycleInv, exit = "no",
           UNCHANGED <<run, ctxDone, bitcoind, stopping, syncPc, boot, mode, handler,
                       signal, db>>,
           exit' \in {"no", "panic"}, gaveUp => gaveUp', broken => broken'
    PROVE  StartupOK' /\ StopsForAReason'
BY DEF LifecycleInv, StartupOK, StopsForAReason, WaitDone

(* A fetching goroutine that fails cancels the pipeline, which happens for a      *)
(* reason only.                                                                   *)
LEMMA FetchFailsInv ==
    ASSUME LifecycleInv, exit = "no", NEW f \in Fetchers, fetch[f] # "over",
           syncPc = "sync", FetchFails(f),
           UNCHANGED <<run, ctxDone, bitcoind, stopping, syncPc, boot, mode, handler,
                       signal, db, exit>>,
           hasHead' \in BOOLEAN, faults' \in 0 .. MaxFaults,
           gaveUp' \in BOOLEAN, gaveUp => gaveUp', broken' \in BOOLEAN, broken => broken',
           ctxDone \/ pipeDone \/ gaveUp' \/ broken', faults <= faults',
           ~ctxDone /\ bitcoind = "up" /\ gaveUp' => gaveUp \/ faults' > RetryLimit
    PROVE  LifecycleInv'
<1> USE DEF LifecycleInv, FetchFails
<1>0. FlagsOK'
  BY Zenon DEF TypeOK, FlagsOK
<1>1. TypeOK'
  BY <1>0, LifecycleConstants DEF TypeOK
<1>2. SyncOK'
  BY DEF TypeOK, SyncOK, Cancelled
<1>3. RetriesOK'
  BY LifecycleConstants DEF TypeOK, RetriesOK
<1> QED
  BY <1>1, <1>2, <1>3, FetcherFrame

(* A fetching goroutine goes on: the pipeline and what it has given up stay, and  *)
(* it has neither lost its block without being cancelled nor retried beyond the   *)
(* faults.                                                                        *)
LEMMA FetcherGoesOnInv ==
    ASSUME LifecycleInv, exit = "no", NEW f \in Fetchers, syncPc = "sync",
           NEW next \in {"idle", "call", "sleep", "find", "nil"},
           next = "nil" => Cancelled,
           NEW n \in 0 .. RetryLimit,
           fetch' = [fetch EXCEPT ![f] = next], retries' = [retries EXCEPT ![f] = n],
           UNCHANGED <<run, ctxDone, bitcoind, stopping, syncPc, pipeDone, gaveUp,
                       broken, boot, mode, handler, signal, db, exit>>,
           hasHead' \in BOOLEAN, faults' \in 0 .. MaxFaults, faults <= faults',
           ~ctxDone /\ ~pipeDone /\ bitcoind = "up" => n <= faults'
    PROVE  LifecycleInv'
<1> USE DEF LifecycleInv
<1>1. FlagsOK'
  BY Zenon DEF TypeOK, FlagsOK
<1>2. TypeOK'
  BY <1>1 DEF TypeOK
<1>3. SyncOK'
  BY DEF TypeOK, SyncOK, Cancelled
<1>4. RetriesOK'
  BY LifecycleConstants DEF TypeOK, RetriesOK
<1> QED
  BY <1>2, <1>3, <1>4, FetcherFrame

(* A fetching goroutine that is neither idle nor over is part of a running Sync.  *)
LEMMA FetchingSyncs ==
    ASSUME LifecycleInv, NEW f \in Fetchers, fetch[f] \notin {"idle", "over"}
    PROVE  syncPc = "sync"
BY DEF LifecycleInv, TypeOK, SyncOK

(* The steps of a fetching goroutine.                                             *)
LEMMA FetcherStepInv ==
    ASSUME LifecycleInv, exit = "no", NEW f \in Fetchers, FetcherStep(f)
    PROVE  LifecycleInv'
<1> USE DEF group, child, main, start
<1>t. /\ retries[f] \in 0 .. RetryLimit /\ faults \in 0 .. MaxFaults
      /\ retries = [retries EXCEPT ![f] = retries[f]]
      /\ RetryLimit \in Nat /\ MaxFaults \in Nat
  BY LifecycleConstants DEF LifecycleInv, TypeOK
<1>h. hasHead \in BOOLEAN /\ TRUE \in BOOLEAN /\ gaveUp \in BOOLEAN /\ broken \in BOOLEAN
  BY Zenon DEF LifecycleInv, TypeOK, FlagsOK
<1>r. RetryLoop \in {"nil", "call"} /\ (RetryLoop = "nil" => Cancelled)
  BY DEF RetryLoop
<1>f. ~ctxDone /\ ~pipeDone /\ bitcoind = "up" => retries[f] <= faults
  BY DEF LifecycleInv, RetriesOK
<1>1. CASE Block(f)
  <2>1. /\ fetch' = [fetch EXCEPT ![f] = RetryLoop] /\ retries' = retries
        /\ UNCHANGED <<run, ctxDone, bitcoind, stopping, syncPc, pipeDone, gaveUp,
                       broken, boot, mode, handler, signal, db, exit>>
        /\ hasHead' \in BOOLEAN /\ faults' = faults /\ syncPc = "sync"
    BY <1>1, <1>h, Zenon DEF Block
  <2>2. faults' \in 0 .. MaxFaults /\ faults <= faults'
    BY <2>1, <1>t
  <2>3. RetryLoop \in {"idle", "call", "sleep", "find", "nil"}
    BY <1>r
  <2> QED
    BY <2>1, <2>2, <2>3, <1>t, <1>r, <1>f, FetcherGoesOnInv, Zenon
<1>2. CASE CallSucceeds(f)
  <2>1. /\ fetch' = [fetch EXCEPT ![f] = "find"] /\ retries' = retries
        /\ UNCHANGED <<run, ctxDone, bitcoind, stopping, syncPc, pipeDone, gaveUp,
                       broken, boot, mode, handler, signal, db, exit>>
        /\ hasHead' \in BOOLEAN /\ faults' = faults
    BY <1>2, <1>h, Zenon DEF CallSucceeds
  <2>2. syncPc = "sync"
    BY <1>2, FetchingSyncs DEF CallSucceeds
  <2>3. faults' \in 0 .. MaxFaults /\ faults <= faults'
    BY <2>1, <1>t
  <2> QED
    BY <2>1, <2>2, <2>3, <1>t, <1>f, FetcherGoesOnInv, Zenon
<1>3. CASE CallFails(f)
  <2>1. /\ faults' \in 0 .. MaxFaults /\ faults <= faults'
        /\ ~ctxDone /\ ~pipeDone /\ bitcoind = "up" => faults' = faults + 1
    BY <1>3, <1>t DEF CallFails, Cancelled
  <2>2. syncPc = "sync"
    BY <1>3, FetchingSyncs DEF CallFails
  <2>3. CASE retries[f] + 1 <= RetryLimit
    <3>1. retries[f] + 1 \in 0 .. RetryLimit
      BY <1>t, <2>3
    <3>2. ~ctxDone /\ ~pipeDone /\ bitcoind = "up" => retries[f] + 1 <= faults'
      BY <1>f, <1>t, <2>1
    <3> QED
      BY <1>3, <1>h, <1>t, <2>1, <2>2, <2>3, <3>1, <3>2, FetcherGoesOnInv DEF CallFails
  <2>4. CASE retries[f] + 1 > RetryLimit
    <3>1. ~Cancelled /\ bitcoind = "up" => faults' > RetryLimit
      BY <1>f, <1>t, <2>1, <2>4 DEF Cancelled
    <3>2. FetchFails(f) /\ fetch[f] = "call" /\ fetch[f] # "over"
      BY <1>3, <1>t, <2>4 DEF CallFails
    <3>3. /\ gaveUp' = (gaveUp \/ ~Cancelled) /\ hasHead' \in BOOLEAN
          /\ UNCHANGED <<run, ctxDone, bitcoind, stopping, syncPc, broken, boot, mode,
                         handler, signal, db, exit>>
      <4>1. ~(retries[f] + 1 <= RetryLimit)
        BY <1>t, <2>4
      <4> QED
        BY <1>3, <1>h, <4>1, Zenon DEF CallFails
    <3>4. /\ gaveUp' \in BOOLEAN /\ (gaveUp => gaveUp')
          /\ broken' \in BOOLEAN /\ (broken => broken')
          /\ ctxDone \/ pipeDone \/ gaveUp' \/ broken'
      BY <3>3, <1>h, Zenon DEF Cancelled
    <3>5. ~ctxDone /\ bitcoind = "up" /\ gaveUp' => gaveUp \/ faults' > RetryLimit
      BY <3>1, <3>3
    <3> QED
      BY <2>1, <2>2, <3>2, <3>3, <3>4, <3>5, FetchFailsInv
  <2> QED
    BY <2>3, <2>4, <1>t
<1>4. CASE Sleep(f)
  <2>1. syncPc = "sync"
    BY <1>4, FetchingSyncs DEF Sleep
  <2>2. CASE fetch' = [fetch EXCEPT ![f] = RetryLoop] /\ UNCHANGED <<retries, pipeDone>>
    <3>1. /\ UNCHANGED <<run, ctxDone, bitcoind, stopping, syncPc, pipeDone, gaveUp,
                         broken, boot, mode, handler, signal, db, exit>>
          /\ hasHead' \in BOOLEAN /\ faults' = faults
      BY <1>4, <2>2, <1>h, Zenon DEF Sleep
    <3>2. faults' \in 0 .. MaxFaults /\ faults <= faults'
      BY <3>1, <1>t
    <3>3. RetryLoop \in {"idle", "call", "sleep", "find", "nil"}
      BY <1>r
    <3> QED
      BY <2>1, <2>2, <3>1, <3>2, <3>3, <1>t, <1>r, <1>f, FetcherGoesOnInv, Zenon
  <2>3. CASE Cancelled /\ FetchFails(f)
    BY <1>4, <2>1, <2>3, <1>t, <1>h, FetchFailsInv DEF Sleep, Cancelled
  <2> QED
    BY <1>4, <2>2, <2>3 DEF Sleep
<1>5. CASE FindCoins(f)
  <2>1. syncPc = "sync"
    BY <1>5, FetchingSyncs DEF FindCoins
  <2>2. CASE FetchFails(f) /\ broken' = (broken \/ ~Cancelled) /\ UNCHANGED hasHead
    <3>1. UNCHANGED <<run, ctxDone, bitcoind, stopping, syncPc, gaveUp, faults, boot, mode,
                      handler, signal, db, exit>>
      BY <1>5 DEF FindCoins
    <3>2. /\ broken' \in BOOLEAN /\ (broken => broken') /\ hasHead' \in BOOLEAN
          /\ ctxDone \/ pipeDone \/ broken'
      BY <2>2, <1>h, Zenon DEF Cancelled
    <3>3. fetch[f] # "over"
      BY <1>5 DEF FindCoins
    <3> QED
      BY <2>1, <2>2, <3>1, <3>2, <3>3, <1>t, <1>h, FetchFailsInv
  <2>3. CASE /\ fetch' = [fetch EXCEPT ![f] = "idle"] /\ retries' = [retries EXCEPT ![f] = 0]
             /\ hasHead' \in {hasHead, TRUE} /\ UNCHANGED <<pipeDone, broken>>
    <3>1. /\ UNCHANGED <<run, ctxDone, bitcoind, stopping, syncPc, pipeDone, gaveUp,
                         broken, boot, mode, handler, signal, db, exit>>
          /\ hasHead' \in BOOLEAN /\ faults' = faults
      BY <1>5, <2>3, <1>h, Zenon DEF FindCoins
    <3>2. /\ faults' \in 0 .. MaxFaults /\ faults <= faults'
          /\ 0 \in 0 .. RetryLimit /\ 0 <= faults'
      BY <3>1, <1>t
    <3> QED
      BY <2>1, <2>3, <3>1, <3>2, FetcherGoesOnInv, Zenon
  <2> QED
    BY <1>5, <2>2, <2>3, Zenon DEF FindCoins
<1>6. CASE FindCoinsNil(f)
  <2>1. syncPc = "sync" /\ Cancelled
    BY <1>6, FetchingSyncs DEF FindCoinsNil, LifecycleInv, SyncOK
  <2>2. CASE hasHead
    <3>1. /\ exit' = "panic"
          /\ UNCHANGED <<run, ctxDone, bitcoind, stopping, syncPc, pipeDone, fetch, retries,
                         gaveUp, broken, hasHead, faults, boot, mode, handler, signal, db>>
      BY <1>6, <2>2 DEF FindCoinsNil
    <3>2. FlagsOK'
      BY <3>1, Zenon DEF LifecycleInv, TypeOK, FlagsOK
    <3>3. TypeOK'
      BY <3>1, <3>2 DEF LifecycleInv, TypeOK
    <3>4. SyncOK' /\ RetriesOK'
      BY <3>1 DEF LifecycleInv, SyncOK, RetriesOK, Cancelled
    <3> QED
      BY <3>1, <3>3, <3>4, FetcherFrame DEF LifecycleInv
  <2>3. CASE ~hasHead
    BY <1>6, <2>1, <2>3, <1>t, <1>h, FetchFailsInv DEF FindCoinsNil, Cancelled
  <2> QED
    BY <2>2, <2>3
<1>7. CASE FetcherEnds(f)
  BY <1>7, <1>t, <1>h, FetchFailsInv DEF FetcherEnds, Cancelled
<1> QED
  BY <1>1, <1>2, <1>3, <1>4, <1>5, <1>6, <1>7 DEF FetcherStep

--------------------------------------------------------------------------------
(* Every step preserves the invariant.                                            *)
LEMMA LifecycleNext == LifecycleInv /\ [Next]_vars => LifecycleInv'
<1> SUFFICES ASSUME LifecycleInv, [Next]_vars PROVE LifecycleInv'
  OBVIOUS
<1>1. CASE UNCHANGED vars
  <2> USE <1>1 DEF vars, group, child, sync, main, start, LifecycleInv
  <2>1. FlagsOK'
    BY Zenon DEF TypeOK, FlagsOK
  <2>2. TypeOK'
    BY <2>1 DEF TypeOK
  <2>3. StartupOK' /\ SyncOK'
    BY DEF StartupOK, SyncOK, WaitDone, Cancelled
  <2>4. RetriesOK' /\ StopsForAReason'
    BY DEF RetriesOK, StopsForAReason
  <2> QED
    BY <2>2, <2>3, <2>4
<1>2. CASE Next
  <2>1. exit = "no"
    BY <1>2 DEF Next
  <2>2. CASE Signal \/ ProcessExit \/ RequestArrives \/ RequestEnds
    BY <2>1, <2>2, SignalInv, ProcessExitInv, RequestInv
  <2>7. CASE SequencerFails
    BY <2>1, <2>7, SequencerFailsInv
  <2>3. CASE ListenFails \/ GroupStep
    BY <2>1, <2>3, GroupStepInv
  <2>4. CASE MainStep
    BY <2>1, <2>4, LoadConfigurationInv, LaunchBitcoindInv, InitializeIndexerInv,
       StartServerInv, EndInv DEF MainStep
  <2>5. CASE SyncStep
    BY <2>1, <2>5, SyncStepInv
  <2>6. ASSUME NEW f \in Fetchers, FetcherStep(f) PROVE LifecycleInv'
    BY <2>1, <2>6, FetcherStepInv
  <2> QED
    BY <1>2, <2>2, <2>3, <2>4, <2>5, <2>6, <2>7 DEF Next
<1> QED
  BY <1>1, <1>2

(* The invariant of the process's life holds, whatever its environment, its       *)
(* bitcoind and its signals do.                                                   *)
THEOREM LifecycleInvariance == Spec => []LifecycleInv
BY LifecycleInit, LifecycleNext, PTL DEF Spec

(* The database is closed only after everything that uses it has stopped: main    *)
(* waits for the whole errgroup, and Sync for its fetchers.                       *)
THEOREM DatabaseClosedLast == Spec => []ClosedAfterIndexer
<1>1. LifecycleInv => ClosedAfterIndexer
  BY DEF LifecycleInv, TypeOK, StartupOK, SyncOK, ClosedAfterIndexer, WaitDone, Group
<1> QED
  BY <1>1, LifecycleInvariance, PTL

(* No Block gives up for fewer than RetryLimit + 1 failed calls while bitcoind    *)
(* runs and nobody stops the process.                                             *)
THEOREM ToleratesOutages == Spec => []OutagesAreTolerated
<1>1. LifecycleInv => OutagesAreTolerated
  BY DEF LifecycleInv, RetriesOK, OutagesAreTolerated
<1> QED
  BY <1>1, LifecycleInvariance, PTL

(* The errgroup's context is cancelled only for one of the known reasons; calls   *)
(* of GetRawBlock that fail within the retry limit are none.                      *)
THEOREM CancelledForAReason == Spec => []StopsForAReason
<1>1. LifecycleInv => StopsForAReason
  BY DEF LifecycleInv
<1> QED
  BY <1>1, LifecycleInvariance, PTL

(* A process that runs to its end has waited for the bitcoind it started.         *)
THEOREM NoOrphanedChild == Spec => []ChildIsStopped
<1>1. LifecycleInv => ChildIsStopped
  BY DEF LifecycleInv, StartupOK, ChildIsStopped, WaitDone, Group
<1> QED
  BY <1>1, LifecycleInvariance, PTL
================================================================================
