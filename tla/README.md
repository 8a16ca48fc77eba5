# TLA+ models of the Zen memory pool, coin selection and daemon entry point

This directory holds TLA+ specifications of the code under `src/src`, and the TLC configurations that check them. The models cover:

- `CTxMemPool` (`txmempool.cpp`): the pool of unconfirmed transactions and sidechain certificates, its secondary indexes, the removal cascades a new block triggers, and the deferred wallet notification;
- the coin-selection solvers of `coinsselectionalgorithm.hpp`, their asynchronous start and stop, and the contract they keep;
- `main`/`AppInit`/`WaitForShutdown` of `bitcoind.cpp`.

## The system

`src/src` contains four files:

| File | What it is | Status |
|---|---|---|
| `txmempool.cpp` | The memory pool, about 1600 lines. | modelled |
| `coinsselectionalgorithm.hpp` | Header of the wallet's coin-selection algorithms. The bodies are absent. | partly: Sliding Window, Branch & Bound, start/stop |
| `bitcoind.cpp` | Daemon entry point (`AppInit`). It opens with a coin-selection benchmark, the only caller of the solvers in the repository. | partly: control flow |
| `rpc/server.h` | RPC server declarations only. | not modelled: no behaviour |

The pool's parts and how they interact:

- **Owning tables.**
  - `mapTx` holds transactions and `mapCertificate` holds certificates.
  - `mapRecentlyAddedTxBase` and `nRecentlyAddedSequence` hold entries not yet handed to the wallets.
  - `mapDeltas` holds the priority deltas.
- **Secondary indexes,** kept in step by `addUnchecked` and `remove`:
  - `mapNextTx`: outpoint → the pool entry spending it.
  - `mapNullifiers`: shielded nullifier → pool tx.
  - `mapSidechains`: scId → `CSidechainMemPoolEntry`. A row holds:
    - the creation tx;
    - forward transfers;
    - BTR txs and the cert data hash they were built against;
    - CSW nullifiers and their total;
    - certificates by quality.

    A row that becomes null is erased.
- **Dependency walks.**
  - `mempoolDependenciesFrom` is a BFS over ancestors.
  - `mempoolDependenciesOf` is a DFS over descendants.
  - Both deal in outputs spent and in sidechain creation → forward transfer / BTR edges.
  - `remove(…, fRecursive)` uses the DFS.
  - `checkIncomingCertConflicts` uses the BFS.
- **Block connection.** `main.cpp`'s ConnectTip calls these in order:
  1. `removeForBlock(vtx)`, which per tx calls `remove`, `removeConflicts(tx)` (ending in `removeOutOfScBalanceCsw`) and `ClearPrioritisation`;
  2. `removeForBlock(vcert)`, which calls `removeConflicts(cert)` and removes lower-quality certs;
  3. `removeStaleTransactions`;
  4. `removeStaleCertificates`.

  All of them run against `pcoinsTip`.
- **Admission.** `main.cpp` calls:
  1. `checkIncomingTxConflicts` or `checkIncomingCertConflicts`;
  2. contextual checks through `CCoinsViewMemPool`, which is the pool layered over the tip;
  3. `addUnchecked`.

  A certificate with the same quality as a pooled one first goes through `FindCertWithQuality` and `RemoveCertAndSync`.
- **Notification.** `NotifyRecentlyAdded` has three phases:
  1. Under the lock, it drains the queue and captures the sequence.
  2. Outside the lock, it calls `SyncWithWallets` for each entry and swallows exceptions.
  3. On regtest, it relocks to publish the captured sequence, which `IsFullyNotified` compares.

## Modules

| Module | Contents |
|---|---|
| `MempoolContract.tla` | What the pool promises its clients, over the set of pooled hashes and the tip: admission adds one unconfirmed entry, and whatever leaves unconfirmed leaves with its in-pool dependants. |
| `Mempool.tla` | The pool, its environment (the tip), `check()`, and all actions and properties; refines `MempoolContract`. |
| `MC_Deps.tla` | Scenario: sidechain creation, forward transfers, a chain of spends, double spends. |
| `MC_Certs.tla` | Scenario: certificates, qualities, epochs, BTRs, blocks connected and disconnected, a tx spending a certificate's change. |
| `MC_Csw.tla` | Scenario: CSW withdrawals and shielded joinsplits. |
| `MC_Notify.tla` | Scenario: the full next-state relation with the notifier. |
| `CoinsSelectionContract.tla` | What a solver promises its caller: start, stop/join, complete with the promised selection or abort after a stop. |
| `CoinsSelection.tla` | `CCoinsSelectionAlgorithmBase`, Sliding Window and Branch & Bound, one loop iteration or recursion entry per step; refines the contract. |
| `MC_CoinsSelection.tla` | Problems: every input of up to three coins, plus two larger examples. |
| `Bitcoind.tla` | `main`, `AppInit`, `WaitForShutdown`, with the shutdown requester and the thread group as actors. |
| `MC_Bitcoind.tla` | Every input combination, and the one valid start. |

### How `Mempool.tla` corresponds to the code

- **Entry bodies.**
  - A tx or cert is a hash.
  - Its body `Entry[h]` keeps only what the pool reads: inputs, output count, nullifiers, anchors, CSW inputs, sidechain outputs, and the certificate's scId, epoch, quality and BTR output indices.
- **Handlers as operators.**
  - Every pool method is an operator from a pool record `Mp` to a pool record.
  - A handler's calls therefore compose exactly as in the code. For example, `ConnectBlock` is the tip update followed by the four removal calls.
  - The out-lists `removedTxs` and `removedCerts` are sequences, so their order is observable.
  - `Quietly` models the dummy lists some callers pass.
- **Index encodings.**
  - `mapNextTx` and `mapNullifiers` are total functions, where `NoHash` means "no entry".
  - `mapSidechains` is a function with a varying domain. `UpdateRow` erases a row that `IsNull`.
- **Traversals.**
  - `BfsFrom` and `DfsOf` are the deque loops of the code: pop back or pop front, then push to the front anything new.
  - `remove` puts the root first, as the code does (`objToRemove.insert(begin, …)`).
  - `remove` of an entry that already left the pool still walks its body. This is what the code does with the caller's reference.
- **Key-ordered loops.** A `std::set`/`std::map` loop is a fold in `SeqOfSet` order. The "still in map" checks of the code are kept (`RemoveStillPresent`).
- **Environment.** The tip (`chain`) is a record with these fields:
  - confirmed hashes, spent outpoints, nullifiers and CSW nullifiers;
  - per sidechain: state, balance, certificate epoch, top quality and active cert data hash.

  The tip's validity rules and state changes come from `main.cpp`/`coins.cpp`, which are not in the repository. `PROJECT.json` marks those operators `spec_modelled`. They are abstracted to what the pool relies on.
- **Actions.** Each of these is one atomic step, because every public method takes `cs` for its whole body:
  - `AcceptTx`, `AcceptCert`;
  - `ConnectBlock`, which adds a valid block (txs then certs), optionally with a sidechain ceasing or a new epoch opening, and pushes the old tip and the block on `undo`;
  - `DisconnectBlock`, the pool's side of `DisconnectTip` (`main.cpp`, absent, so `spec_modelled`). The tip goes back to the top of `undo`. Each entry of the block is resurrected (`Resurrect`) through the admission path; one that is refused goes to `remove(…, true)`. Then `removeStaleTransactions` and `removeStaleCertificates` run against the restored tip. All lists are dummies.
  - `RemoveRecursive`, `RemoveWithAnchor`, `Clear`, `PrioritiseTransaction`.

  `NotifyRecentlyAdded` releases the lock, so it is five actions: `NotifyDrain`, `NotifySync`, `NotifySyncThrows`, `NotifyInterrupted` and `NotifyDone`.
  `NotifyInterrupted` is the rethrown `boost::thread_interrupted`: the call ends, the rest of the drained snapshot is lost and the sequence is not published. That exception is the shutdown's interrupt, so the rethrow ends the notifying thread: `notifyPc` becomes `"ended"` and no later call follows. The constant `MayInterrupt` enables it.
- **The admission view.** `CCoinsViewMemPool`'s `GetCoins`, `GetSidechain`, `GetNullifier`, `HaveSidechain` and `HaveCswNullifier` look in the pool first and then in the tip (`ViewHasInput`, `ViewBalance`, `ViewGetNullifier`, `ViewHaveSidechain`, `ViewHaveCswNullifier`).
- **`check()`.** `CTxMemPool::check` changes nothing, so it is a predicate, `Check(Mp, chain)`. Each part of it is one operator:
  - the asserts on each tx's inputs, sidechain creations, forward transfers, CSWs, BTRs and nullifiers (`TxInputsOk` … `TxNullifiersOk`);
  - the CSW totals against each row (`CswTotalsOk`);
  - the replay of the pool onto a duplicate of the tip. A tx with no pool parent is applied at once (`ViewUpdateCoins`). The others wait in a list that `DrainWaiting` works through: an entry whose inputs the view lacks goes to the back, and more consecutive requeues than entries waiting is an assertion failure.
  - the same for certificates on a view layered over the txs' one (`CheckCerts`);
  - the reverse walks over `mapNextTx` and `mapNullifiers`.

  The waiting list follows the hash order of `mapTx`. Hashes are arbitrary, so `WaitingOrders` checks every order of the waiting entries. Not kept: sizes and memory usage, input positions, joinsplit anchors, and the script checks inside `ContextualCheck*Inputs`. Of those checks only the input availability is kept.
- **Refinement.** `MempoolContract` is instantiated with `pool ← InPool(Mp)` and `tip ← chain`. Its `Spec` is checked as the property `PoolContract`. The notifier's steps are stuttering steps of the contract.

### How `CoinsSelection.tla` corresponds to the code

Only the header is in the repository. The routines follow the strategies its doc comments describe (lines 203-214 and 265-293); `PROJECT.json` maps every definition to those lines, and marks `spec_modelled` the parts the header is silent on (when the routine sets `hasCompleted`, how it leaves on a stop).

- **Inputs.** The constructor sorts the (amount, size) pairs by descending amount (`SortDescending`, a stable insertion sort). A selection is a set of indices into the sorted arrays.
- **Branch & Bound.** The recursion is an explicit stack of `SolveRecursive` frames (`currentIndex`, the temporary totals and the temporary selection). One step pops a frame and applies, in order: backtracking (1) (`Backtrack1`), backtracking (2) (`Backtrack2`), bounding with the low-amount tie-break (`Bounding`), the leaf test (`LeafOutputs`), or pushes the exclude branch above the include branch (`Branches`), as the header orders them.
- **Sliding Window.** One step pushes the next coin, from the lowest amount up, then pops the smallest coins while an upper limit is broken (`PopSmallest`). Once the target is met it keeps inserting and ends on the first limit break. The best selection is set when the loop ends.
- **Control.** `isRunning` and `stopRequested` are the atomics. `solvingThread` goes `none → starting → solving → finished → joined`. The caller goes `constructed → started → stopping → stopped`. The stop flag is sampled at every iteration or recursion entry (`SolveStopped`).
- **Refinement.** `CoinsSelectionContract` is the abstract solver: `Complete` reports a promised result (an optimal selection for Branch & Bound, any admissible one or none for Sliding Window), and `Abort` is allowed only after a stop. `CoinsSelection` instantiates it with `status ← caller`, `worker ←` the thread's phase, `completed ← hasCompleted`, and `result ←` the output variables once the thread has ended. The contract's `Spec` is checked as the property `ContractSpec`.

### How `Bitcoind.tla` corresponds to the code

- **Inputs.** `env` holds what the process cannot control, fixed for a run: help or version flags, the data directory, the config file (present, missing or unreadable), `SelectParamsFromCommandLine`, a non-option argument, `-daemon`, and the outcomes of `fork` and `AppInit2`. `platform` selects the WIN32 or POSIX branches.
- **Process.** `pc` walks `AppInit` in order, one action per stage. Every `return false` goes straight to `main`, skipping `Shutdown`. `exit(1)` ends the process at once. A successful `fork` lets the parent exit 0 (`forked`) and the child goes on. `AppInit2` may start threads before failing.
- **After `AppInit2`.** A failed start interrupts the group without joining it, as the code's comment says. A successful start enters `WaitForShutdown`: it reads the flag, polls every 200 ms, interrupts the group and joins it. `Shutdown` follows either way.
- **Actors.** `StartShutdown` (a signal handler or the stop RPC) may raise the flag at any time. An interrupted thread ends (`ThreadExits`).
- **The benchmark block.** In the source `AppInit` opens with a block (lines 64-188) that redirects stdout, runs ten synchronous solves and returns false. Every path below it is unreachable as written. The constant `Builds` lets `MC_Bitcoind` check both the build as written (`TRUE`) and the start-up code below the block (`FALSE`). The run `bitcoind_start` uses the build as written only.

`PROJECT.json` ("map") gives the source lines of every definition.

## Runs

| Run | Properties | What it shows |
|---|---|---|
| `deps` (MC_Deps.cfg) | IndexesConsistent, CheckNeverAsserts, PoolValidOnTip, TraversalsAreClosures, PoolContract | The indexes equal what the pool's entries imply, after any sequence of adds, blocks and recursive removals. `check()` never asserts, including its replay of the chain T2 → T3 → T5 in either hash order. No removal orphans an entry (the pool refines `MempoolContract`). After every block, each pool entry is still acceptable on the new tip. BFS and DFS return exactly the reference ancestor/descendant closures, each entry once. |
| `certs` (MC_Certs.cfg) | + NoSupersededCert, CertQualityOrder, DisconnectResurrectsBlock | A confirmed certificate evicts every pooled cert of its epoch with quality ≤ its own. No pooled cert depends on a same-sidechain cert of equal or higher quality, across replacement by `RemoveCertAndSync` and all cascades. BTRs built on an outdated cert data hash are dropped. `check()`'s certificate replay (C2 waiting on C1's change) never asserts; no tx ever spends a pooled certificate. T6, accepted while C1 is confirmed, spends C1's change. When C1's block is disconnected C1 returns to the pool, and `removeStaleTransactions` drops T6 (`checkTxImmatureExpenditures`, line 510) before `check()` could assert. Every entry of a disconnected block is admitted again, C1 included while C2, its higher-quality child, is still pooled. The pool refines `MempoolContract`, whose `Reorg` step lets unconfirmed entries back. |
| `csw` (MC_Csw.cfg) | + TypeOK, NullifierIndexConsistent, CswWithinBalance, DisconnectResurrectsBlock | The nullifier and CSW indexes stay exact. The pooled CSW total never exceeds the ceased sidechain's balance. This holds through conflicts, blocks, disconnections and `removeWithAnchor`. A disconnection gives every withdrawal of its block back to the pool: the withdrawals admitted since never exceed the balance the block took. |
| `notify` (MC_Notify.cfg) | IndexesConsistent, CheckNeverAsserts, FullyNotifiedMeansHandled, PoolContract | With the notifier's phases interleaved with every other action, `IsFullyNotified` never holds while a pool entry has not been handed to `SyncWithWallets`. With `MayInterrupt`, an interrupt may end the notifier mid-batch; the lost entries then keep `IsFullyNotified` false. Deadlock is checked here. |
| `deps_remove_order` | RemovedDescendantsFirst | **Violated.** `remove()` reports a creation tx before the forward transfer depending on it. |
| `csw_block` | BlockNeverConflictsOwnEntries | **Violated.** A block [K2, K1] of two CSWs: after K2, `removeOutOfScBalanceCsw` compares the pooled K1 with the balance the whole block already debited. It evicts K1 as a conflict, although the same block confirms it. |
| `csw_clear` | NullifierIndexConsistent | **Violated.** `clear()` leaves `mapNullifiers` (and `mapRecentlyAddedTxBase`) naming freed transactions. |
| `coins` (MC_CoinsSelection.cfg) | TypeOK, ResultAdmissible, BranchAndBoundOptimal, StopSolvingReturns, ContractSpec | The outputs always describe one admissible selection, including after a stop. A completed Branch & Bound is optimal against the brute-force reference (most coins, then least amount). `StopSolving` returns. The solver refines the contract. |
| `bitcoind` (MC_Bitcoind.cfg) | TypeOK, GroupStoppedBeforeShutdown, ShutdownTerminates | After a successful start, `Shutdown()` runs only once every thread has been joined, whenever the shutdown was requested. After a failed start, every thread left unjoined has at least been interrupted. A requested shutdown always ends the process. |
| `bitcoind_start` (MC_BitcoindStart.cfg) | NodeStarts | **Violated.** With valid inputs, `AppInit` as written never reaches `AppInit2`: the benchmark block returns false first, and `zend` exits with status 1. |

The four violations are recorded as findings in `PROJECT.json`. One further finding is a disagreement that no run needs to show. The header explores the exclude branch first, where `spec.md` says include first, so the two orders can pick different equal optima. `BranchAndBoundOptimal` holds for either.

Every property of a passing run has a mutant in `PROJECT.json`: a plausible bug in the mapped code that the property catches. The mutants include:

- a dropped `mapNextTx` erase;
- `addUnchecked` not adding a CSW's amount to `cswTotalAmount` (line 185), which drives the total below zero when the CSW leaves (`TypeOK`, checked in `csw`, where a sidechain's pooled CSW total is typed as a natural number);
- `remove` without its cascade;
- `mempoolDependenciesFrom` walking spenders instead of inputs, which refuses a disconnected certificate whose better child is pooled;
- `removeConflicts` without its balance conflicts, which a later disconnection exposes as a block entry refused;
- a tx input from a pooled certificate let through `checkIncomingTxConflicts`, which only `check()` notices;
- a null row kept;
- `<` for `<=` in the quality supersession;
- the BTR cert-data-hash loop skipped;
- the notifier reading the sequence late;
- bounding without the tie-break, the window popped only once, a stop that marks the run completed, a stop flag seen but the loop not left;
- `WaitForShutdown` polling a stale flag, `join_all` not waiting, the benchmark loop running once too often.

### Deadlock

`MC_Notify` checks deadlock. `MC_CoinsSelection` and `MC_Bitcoind` do not: a solver is a one-shot computation, and a process exits. The other pool scenarios say `CHECK_DEADLOCK FALSE` because their bounded action subsets really do stop. Once `MaxSeq` additions are spent and the pool is empty, no further action is enabled in those restricted next-state relations. In the code this corresponds to no new transactions arriving.

## Bounds

| Constant | Role | Values |
|---|---|---|
| `MaxSeq` | Caps `nRecentlyAddedSequence` | 4–6: enough to fill the pool, empty it through a block and refill it. |
| `MaxBlockLen` | Caps block length | 2: a block can confirm an entry together with its conflict or dependant, which the `csw_block` finding needs. |
| `MaxEpoch` | Caps the certificate epoch | 1 in `MC_Certs`: certificates of an old epoch become stale. |

Each scenario uses 4–7 entries, chosen so that every edge kind and every conflict kind occurs:

- spend, sc creation→ft/btr and cert change spend;
- double spend, shared nullifier, shared CSW nullifier and CSW over-withdrawal;
- equal quality and lower quality.

The runs reach 389 to 154 661 distinct states. `MaxSeq` also bounds the resurrections of a disconnection, which add to `nRecentlyAddedSequence`. With no bound of its own on depth, `undo` is as deep as the blocks the bounds allow.

`MC_CoinsSelection` takes every input of 0 to 3 coins with amounts 1..3 and sizes 1..2. It checks them against targets 3 and 4, offsets 0 and 1 and size limits 2 and 3. These bounds make exact targets, equal-count ties and size cuts occur. Two larger problems are added:

- the five-coin example of `spec.md`, on which the two algorithms differ;
- a four-coin problem whose least-amount optimum lies in a subtree entered after an equal-count optimum was found. Bounding's tie-break matters only there.

Both algorithms are checked, with a stop possible at every step (53 760 states).

`MC_Bitcoind` enumerates all 576 input records, both platforms and both builds. `BenchmarkRuns` is the source's 10.

## Fairness

The pool runs assume no fairness, because they check only safety. Nothing in the repository calls `NotifyRecentlyAdded`, so nothing justifies fairness for its phases.

- **`CoinsSelection`.** `WF_vars(Worker)`: the OS schedules the solving thread. `WF_vars(StopSolvingJoin)`: a caller blocked in `join` wakes once the thread has ended. The caller's `StartSolvingAsync`/`StopSolving` have no fairness.
- **`CoinsSelectionContract`.** The abstract spec has the matching `WF_vars(Complete \/ Abort)` and `WF_vars(Join)`.
- **`Bitcoind`.** `WF_vars(AppInit)`: the main thread runs its own code, and `WaitForShutdown` wakes every 200 ms. `WF_vars(ThreadExits)`: the group's threads honour `Interrupt`. That is an assumption about `init.cpp`, which is absent. `StartShutdown` has no fairness: nobody has to stop the daemon.

## Not modelled

- Sizes, memory usage and the fee estimator (`totalTxSize`, `cachedInnerUsage`, `minerPolicyEstimator`). They are counters that no control decision of the pool reads.
- The read-only queries: `lookup`, `queryHashes`, `Get*`, `ApplyDeltas`, `pruneSpent`, `CCoinsViewMemPool::GetScIds`, and the transaction-updated counters.
- Maturity heights (`coins.cpp`, `main.cpp`). Every confirmed output is treated as mature, so `Check*ImmatureExpenditures` reduces to input availability and to the pool-certificate test. This holds for the scenarios because none spends a coinbase or a backward transfer. A backward transfer matures epochs after its certificate, deeper than the one-block disconnections the model makes.
- Within `DisconnectTip`, the `removeWithAnchor` call on a changed root is left to the separate `RemoveWithAnchor` action. Also, in every scenario the admission of a resurrected entry always succeeds (`DisconnectResurrectsBlock`), so its refusal branch is not reached.
- The wallet and the lock order between `cs` and `cs_main`.
- `rpc/server.h`: declarations only.
- The Notes solver (`FOR_NOTES`): its joinsplit arity is protocol-defined and not in the source. Also `GetBestAlgorithmBySolution` and `ToString`.
- The synchronous `Solve()` of the benchmark is a single abstract step of `BenchmarkRun`, because its result is discarded. The 99-coin instance is far beyond enumeration.
- In `bitcoind.cpp`: what the config copy writes and the messages printed.
- The lock order of `RemoveCertAndSync`, which syncs wallets while holding `cs`. The wallet and `cs_main` code is absent, so the deadlock hazard listed in `PROJECT.json` has no property.

## Plan for later sittings

1. Maturity heights, if `coins.cpp` joins the repository: tip heights that fall, and `removeStaleTransactions` dropping spends of outputs that become immature.
2. Larger coin-selection instances, and Sliding Window's result compared with Branch & Bound's on the same inputs.
