# Focal point in TLA+

Specifications, model-checking configurations and machine-checked proofs for the
focal point client. The code is the reference: every definition that models code is
translated from the Go source, and `PROJECT.json` names the lines it stands for.

Contents: 1 the system, 2 the modules, 3 how state and actions correspond to the
code, 4 the runs, 5 bounds, 6 fairness, 7 proofs, 8 disagreements found,
9 what is not modelled, 10 plan.

## 1. The system

A client keeps a tree of *counts* (blocks), each confirming a list of
*considerations* (transactions that move exactly one unit from `By` to `For`). The
first consideration of a count is its *counterpoint* (coinbase), which has no
sender. The most-work branch is the *point*; its last count is the tip. A
consideration names the *series* it belongs to (a number that advances every
`COUNTS_UNTIL_NEW_SERIES` heights) so that the index of confirmed considerations
may be pruned two series back.

| Component | State it keeps | Operations |
|---|---|---|
| Ledger (`ledger_disk.go`, `imbalance_cache.go`) | LevelDB tables: tip, height index, branch types, consideration index, key index, imbalances | `ConnectCount`, `DisconnectCount`, `SetBranchType`, queries |
| Count storage (`stage_storage_disk.go`) | one file per count, header rows with the time of storing | `Store`, `GetCountHeader`, `GetCount` |
| Consideration queue (`translation_queue_memory.go`) | list and map of waiting considerations, imbalance cache | `Add`, `AddBatch`, `RemoveBatch`, `reprocessQueue`, `Get` |
| Processor (`processor.go`) | no persistent state; the plan of a reorganisation on its stack; the sets of notification channels | `ProcessCount`, `ProcessConsideration`, register/unregister, `Shutdown` |
| Indexer and graph (`indexer.go`, `tranxlation_graph.go`) | graph of confirmed considerations, its ranking | initial catch-up, then follow tip changes; `IsParentDescendant` |
| Renderer (`renderer.go`) | the candidate count it is hashing | build, add considerations, hash, submit |
| Peer (`peer.go`, `stage_queue.go`) | two goroutines per connection, download queues local and shared | inventory, get count, push consideration, work |
| Peer manager (`peer_manager.go`) | connections by host, limits, bans | connect, accept, discover, `Shutdown` |
| Peer storage (`peer_storage_disk.go`) | peer rows and three index tables | `Store`, `Get`, `OnConnect...`, `OnDisconnect...` |
| Mind (`agent.go`) | one connection, result channel | request/answer calls, filter notifications |
| Consensus rules (`constants.go`, `translation.go`, `stage.go`, parts of `processor.go`) | none | series, maturity, expiry, targets, limits, comparison of headers |

How they interact:

- Peers, renderers and peers' work submitters *call* the processor through two
  channels, `countChan` and `cnChan`, and block on the answer. Its one goroutine serves
  one call at a time.
- The processor calls the count storage, the ledger and the queue directly, in its
  own goroutine. The ledger and the queue call the graph (`IsParentDescendant`), which can
  veto a consideration that would close a cycle; the graph is filled by the *indexer's*
  goroutine, which follows the processor's notifications and so lags behind.
- The processor *notifies*: it sends tip changes and accepted considerations on the
  buffered channels of renderers, peers' writer loops and the indexer, in the middle
  of processing a call, and waits when a buffer is full.
- The database is changed one LevelDB batch at a time: a reorganisation is many batches,
  and its plan is only in memory.
- `client/main.go` shuts down peers, renderers, indexer and processor, one after the
  other.

What makes it hard: a reorganisation fails in the middle and must be rolled
back through the same code; the client may stop between any two of its batches;
pruning and restoring the index must follow the tip in both directions; counterpoints
are credited by another count than the one they are in; the queue and its cache are
rebuilt only after the last connect of several; the processor's sends and the
subscribers' calls wait for each other over bounded channels; the graph is behind the
ledger. `PROJECT.json` "hazards" lists each of these at its line.

What makes each component correct:

- **Ledger**: every table is a function of the branch of the tip, however the tip was
  reached; nothing is confirmed twice; no key owes; undoing never panics.
- **Processor**: the tip is the best valid branch among the accepted counts; a failed
  reorganisation leaves the old one; no walk meets a missing row.
- **Queue**: what waits is unconfirmed and could, in its order, be the next count.
- **Goroutines**: every call returns, every shutdown ends, nobody is sent to after it left.
- **Graph**: agrees with the branch of the tip once the indexer has caught up, and two
  clients give the same answer for the same count.
- **Downloads**: every count announced is asked for, by one peer at a time, until it arrives.
- **Peer storage and manager**: each index row points to the row of its peer; limits hold; shutdown leaves
  no reader loop of an outbound connection.
- **Renderer**: works on the tip; what it submits is whole; what is queued gets into a count.
- **Headers**: the target moves within its factors; the median of the times never goes back.

## 2. The modules

    Rules ── Ledger ──┬─ LedgerProofs  theorems
                      ├─ LedgerReopened  (two INSTANCEs)       same database, other flags
                      └─ ConsiderationQueue ── Processor ──implements──> Point
                                                   └── Indexer ── Graph (INSTANCE)
    Notify                        goroutines and channels
    Renderer                      candidate counts around the processor
    Headers                       times, targets and work over a tree of counts
    Download                      counts from several peers, both ends
    PeerStorage ── PeerManager    peer rows, connections, shutdown
    MCTree, MC...                 instances for TLC

`X` with theorems has them in a module `XProofs` that extends it: Ledger, LedgerReopened, Processor,
Notify, Renderer, Headers, Download and PeerManager. ProcessorProofs extends LedgerProofs and
Indexer, and holds the theorems about the queue and the indexer as well; LedgerReopenedProofs takes
two instances of LedgerProofs, one for each flag.

- **Rules**: series window, maturity, expiry, comparison of headers.
- **Ledger**: the six tables, `ConnectCount`, `DisconnectCount`, `SetBranchType`,
  `GetPublicKeyImbalanceAt`.
- **LedgerReopened**: successive runs of the client with and without `-prune`; two instances
  of Ledger over the same tables.
- **ConsiderationQueue**: `Add`, `AddBatch`, `RemoveBatch`, `reprocessQueue`, imbalance cache.
- **Processor**: `processCount`, `acceptCount`, `acceptCountContinue`, `reconnectTip`,
  `processConsideration`, stop and start; composes the ledger and the queue.
- **Point**: what the processor promises, in one step per count.
- **Graph**: the consideration graph as operators on a record; `IsParentDescendant`.
- **Indexer**: the indexer's goroutine and the processor around one graph. It extends Processor,
  whose arbitrary veto becomes the graph's answer at that moment.
- **Notify**: the goroutines around the processor.
- **Renderer**: the count a renderer or a peer that renders is at, against the tip, the queue and the
  notifications, with the processor's steps in between.
- **Headers**: what `acceptCount` demands of a header's time and target on every branch.
- **Download**: the reader loop of each connection with its local queues, the shared queue of counts in
  flight, and the handlers at the other end.
- **PeerStorage**: the rows of a peer; every operation is a read and a later write.
- **PeerManager**: the main loop, outbound connections (two loops each), inbound requests,
  `Shutdown` and restart; composes the storage.
- **...Proofs**: section 7.

A definition named `X_Word` in a module is a variant of `X` with a plausible bug. It is
used only to see that the properties notice it; no specification refers to it.

## 3. State and actions against the code

**Ledger.** One variable per table prefix of `ledger_disk.go`: `tip` (T), `heightIndex`
(h), `branchType` (B), `cnIndex` (t), `pkIndex` (k), `imbalance` (b). Each operation is one
LevelDB batch and so one step. A count's ID is a hash over its header, which contains
the previous ID: an ID fixes its branch, so `Path[c]` and `Body[c]` are constants and
only counts that pass the context-free checks exist. `ConnectCount` keeps the code's order:
the tip check, the look-up of every consideration, the imbalance cache applied along
the list (`Affordable`: a sender may spend what an earlier consideration of the
same count gave it), the counterpoint of `COUNTERPOINT_MATURITY` below in place of the
own one (`Effects`), then index rows written and those of the count leaving the window
deleted (`Expiring`), or restored by `DisconnectCount`. A failed call writes nothing and
is no step. Undo runs backwards over the list (`Undoable`), and panics where a recipient
has no unit left; `UndoNeverPanics` states it never does. The graph's veto can only turn a
connect into an error; Processor has it, Ledger alone needs no action for it.

**ConsiderationQueue.** `cnQueue` is the list (the map beside it has the same
elements), `cache` the imbalance cache, a partial function filled on first touch. The
methods hold a lock and are called by the processor together with a ledger write, so
they are operators on primed variables. Order matters and is kept: imbalance first, graph
second, and the cache keeps the effect when the graph objects.

**Processor.** `job` is the call in progress: `acceptCountContinue` for a new count and,
after an error, for the old tip (`reconnectTip`). `SetAside` is the "not better" branch,
`Reorganize` the two walks to the common ancestor, `Disconnect` and `Connect` one write
each, `ConnectFails` an error of `ConnectCount`. `when` is the stored time of a header, which
breaks ties and is overwritten by a retry. `Restart` stops the client anywhere: the tables
and `when` stay, `job`, queue and cache go.

**Notify.** `phase` and `reader` say where each goroutine is; `channel` how many messages
wait in each buffered channel; `calls` the callers in `countChan` and `cnChan`; `work` the
call the processor serves, the announcements left and the subscriber it is sending to. Go
ranges over the map of channels in any order (`Turns`). Registration and its end are
rendezvous with an idle processor. `closing` and `manager` are `client/main.go`'s shutdown.

**Graph, Indexer.** A graph is `[imbalance, weight]`: the nodes are the domain of the first, the links
ever made the domain of the second. `Link` and `SetImbalance` add, and a link taken back keeps its place with the
weight that is left, as in the code. `dfs` is stated by what it reaches: the target is in every set
of nodes that is closed under links and does not go through the root. `stage` is the place in
`Indexer.run`: waiting for the download to end, catching up height by height, registering, following.
One message fits the channel; a second one in `tipChangeChan` is the one the processor is sending,
and `Sending` keeps the processor from doing anything else. Weights are integers here: the code's quarters
only scale them.

**Renderer.** A count is the sequence of its ancestors' bodies, so that counts of any branch can be compared.
`job` is the processor's call: ledger, queue and messages are separate steps, and a renderer may read
the tip and then the queue between any two. `at` and `seen` are the worker's place and the tip it has read.
A work's `header` holds what the header is made for, and `cns` what is kept beside it. The peer that
renders is outside the program: it takes work and submits any it was sent.

**Headers.** A branch is the sequence of its headers, each with its time, target and accumulated work. `AcceptCount`
computes the target as the code does, from the branch itself below
`BITCOIN_CASH_RETARGET_ALGORITHM_HEIGHT` and above it from the main branch's header a window below. The work
expected (`WorkExpected`) may then be negative: `big.Int`'s division rounds it as `Quotient` does, and
`CountID.SetBigInt` keeps the magnitude. `Panics` says where the code would divide by zero, use a missing header or
meet a number of more than 32 bytes.

**Download.** `localDownloadQueue`, `localInflightQueue` and `globalInflightQueue` are the code's. `reader` is the
place in the reader loop: between the branch type (`Fill`), the shared queue (`Request`) and
`ProcessCount` other connections run. `toPeer` and `fromPeer` are the connection's two
directions, in order. The other end is the same program's handlers, with a branch that goes through `Tips`, one
connect or disconnect at a time: `Announce` sends every count it connects. `Expire` is the two minutes of
`maxQueueWait`; `Stall` and `Pong` are the two cases of the pong handler. A connection that has brought nothing new for
`syncWait` is also ended with messages under way: that is `Drop`, which stands for a lost connection and may
happen at any read. `Stall` is the case that must happen, with nothing under way.

**PeerStorage, PeerManager.** `peerInfo` holds the rows p, `lastAttempts` and `lastSuccesses` the index rows a
and s, `connectedPeers` the marks in memory. `Begin` is the read at the head of an operation, `Finish`
its batch: any other goroutine's operation fits in between. `main` is the place in `PeerManager.run`
with the addresses of `connectToPeers`; `conn` the two loops of each outbound connection, `handler` the
place of each inbound one. `Succeeded` writes the batch and sets the mark of `OnConnectSuccess` in one step: what comes
between the two touches neither the mark of that address, which only the goroutine itself reads or takes
back at that moment, nor depends on it, as `Get` is called by the same goroutine. `Restart` keeps the rows and
loses the rest.

## 4. The runs

| Run | States | Shows |
|---|---|---|
| `ledger_pruned` | 524 | With `-prune`, over every order of connects and disconnects on the tree of `MCTree`: every table is the one of the tip's branch (`ChainIndexed`, `ConsiderationsIndexed`, `PartiesIndexed`), no replay connects (`NoDoubleConfirmation`), no overspend (`Solvent`), issuance is exact (`Supply`). |
| `ledger_reopened` | 2810 | Runs with and without `-prune` over one database: imbalances are those of the branch (`ImbalanceIsSettled`), undo never panics, and where all key rows are there the imbalance computed from them at the tip is the stored one (`HistoryAgrees`). |
| `processor` | 19 496 | Every order of arrival of ten counts and of loose considerations, two reorganisations that fail, ties broken by time and by ID: the processor implements `Point`, the tip is the best, branch types are right in the middle of a reorganisation too, the queue fits the next count. |
| `processor_restart` | 134 055 | The same with stops at any step and a graph that may veto a consideration at any time: walks, disconnects and connects never meet an error or a panic (`PlanFollowsTip`, `KnownIsRooted`), the queue holds nothing confirmed. |
| `graph` | 7 003 | The indexer beside the processor: unless the branch changed behind the catch-up the graph and the messages under way are exactly the branch of the tip (`GraphIsExact` in `IndexerInv`); what it is off by it stays off by (`DriftIsFixed`); it comes to follow and never stops the processor (`IndexerFollows`). |
| `graph_split` | violation | `BetterIsTaken`, section 8. |
| `notify` | 61 912 | A renderer, a peer and the indexer: one answer per call, no send to a goroutine that has ended (`NotifyInv`), and processing and shutdown end unless the processor waits for a goroutine that waits for it (`Stuck`). |
| `renderer` | 451 396 | Work is on the tip once its worker has read its messages (`WorkIsCurrent`), what a peer submits has the considerations its header was made for (`SubmittedIsWhole`), what waits in the queue gets into the work (`QueuedIsRendered`). |
| `headers` | 71 709 | Both retarget rules over a tree of two branches and times that go back: the adjustment stays within its factors and nothing divides by zero while branches are at most a window off the main one (`AdjustmentIsBounded`), the median never goes back (`MedianGrows`). |
| `download` | 292 956 | Two peers: the requests and answers under way are what is in flight, in order (`InFlightIsUnderWay`), two peers are asked for one count only after the first request expired (`OneRequestPerCount`), no entry of the shared queue is without a connection that waits for it (`DownloadInv`), and the client ends with every valid tip (`EventuallySynced`). |
| `peers` | 612 465 | Rows and index rows fit (`EveryPeerIsListed`), a mark means a connection (`MarkedIsConnected`), no address is connected twice (`OneConnectionEach`), after `Shutdown` no reader loop of an outbound connection is left (`OutboundReadersStopped`), and it returns (`ShutdownEnds`). |
| `peer_store` | violation | `GetFindsTheRow`, section 8. |

## 5. Bounds, and why they are enough

- **`MCTree`** (15 counts, heights 0 to 6, series of 2 heights, maturity 2): the pruning
  window is four heights, so the trunk outgrows it by two; there are forks below, at and above
  the point where a window row is deleted, a replay inside the window of the other branch
  (`b3`), one of a consideration about to be pruned (`c5`), one near the tip (`r6`), a unit
  received and spent in one count (`d4`), one spent twice (`e3`) and one spent before it is
  received in the same count (`f3`). `SetBranchType`, which no ledger guard reads, is
  limited to two counts.
- **`MCProcessor`** (10 counts, heights 0 to 3, series of 1, maturity 1): a branch that
  fails at its first of two new counts after two disconnects (`c2`, `c3`), one that fails at
  its last (`d3`), a tie on work (`a3`, `b3`) with `MaxTime = 1`, which gives equal,
  earlier and later; a maturity and an expiry that bite inside the tree; queue length 3, so
  that it fills. One veto-prone consideration in the runs with vetoes.
- **`MCNotify`**: buffers of 1 for renderer and indexer as in the code (renderer) or
  smaller (indexer: what matters is that it can fill); the peer has 1 where the code has 10, with
  `MaxTips = 2` changes for one count. `countChan` and `cnChan` have 1 where the code has 10 and
  100, so callers wait for room. Peers that submit work (`Workers`) are left out of the instance: with two goroutines
  that may submit over and over the temporal check grows beyond use, and a worker's call has the
  shape of the renderer's.
- **`MCIndexer`** (6 counts, two branches of 2 and 3 over one root): on one branch `k1` considers `k2`, on the
  other `k2` considers `k1`, so each closes a cycle with the other; a place with further links and
  a pseudonym. The tree is high enough for the catch-up to be passed, overtaken and cut short by a
  reorganisation. `Synced` may happen at any tip, which stands for any length of the download.
- **`MCDownload`** (5 counts, 2 peers): lists of 2 IDs, 2 requests at a time and queues of 2 where the code
  has 500, 8 and 5000, so that a branch of three counts takes two pieces and every limit is
  met; one branch is the other's piece first, goes back one count and on with an invalid one, so that the client
  meets duplicates, orphans and a refusal. `MaxDrops = 1`, `MaxExpiries = 1`: one connection lost and one request
  expired, at any moment. `Stall` is not bounded. `RecentHeight = 3`: the initial download lasts
  until the longest branch is there; see section 8 for 2.
- **`MCRenderer`**: one consideration, three counts besides the genesis count (enough for a reorganisation of
  one against two), buffers of 1, either a renderer or a peer that renders. Work IDs are random numbers;
  any that nobody holds is as good as another.
- **`MCHeaders`** (7 heights, 2 branches, clock up to 12): window and interval of two counts of two seconds,
  the rule switched at height 2, medians of 3, times before, just after and long after the median. The code's
  constants only make these longer; `MAX_INT` and `INITIAL_TARGET` are 2^28 and 2^24 - 1 to stay within
  TLC's integers: the easiest work is 16, and no work of the run passes the square root of `MAX_INT`. Branches of
  six counts reach further off the main one than a window, which section 8 needs.
- **`MCPeerManager`**: two addresses, one of them on a banned host, one outbound place with two connections that
  may overlap while one is ending, two inbound requests of one host, the first with an
  address to store. Times are minutes; one step of eight days makes rows old enough to be deleted, a tip
  old and a retry due. `connectToPeers` asks once per round whether the download is over, the model every
  time round its loop: with one outbound place both are the same.

## 6. Fairness

- **Processor**: weak fairness of `Proceed`, the goroutine going on with its call. Nobody has
  to submit anything, the clock need not move.
- **Point**: weak fairness of `Judge`, implied by the above.
- **Notify**: a goroutine that can continue does (weak fairness). The cases of the
  processor's `select` and leaving a loop that may go on calling have strong fairness: Go's
  `select` picks among ready cases at random, so a case that is ready again and again is
  picked. No fairness for connecting, calling, submitting, hanging up or the interrupt; a peer that
  is told to close has its connection closed.
- **Indexer**: both goroutines run (weak), the processor's `select` takes the registration some day (strong).
- **Renderer**: the processor, the renderer's loop and the writer loop run (weak); the processor's `select`
  takes each caller and registration (strong). Nobody has to solve, submit or send.
- **Download**: weak fairness of reading, of serving, of connecting again (the peer manager tries again every five
  minutes), of pongs and of the end of a stalled connection. Losing a connection and expiring
  are bounded and have none.
- **PeerManager**: the main loop's calls, closing connections and requests go on (weak; the dial has a
  deadline); the shutdown channel and the end of a writer loop are cases of a `select` with others ready (strong).

## 7. Proofs

Eight modules prove 39 theorems, for every value of the constants the assumptions
allow. A theorem whose statement is `Spec => []Inv` for an invariant of a run has that
invariant in brackets below.

*Assumptions.* All are evaluated by TLC on the instances of the runs: `PathAssumption` (a count
has a branch that starts at the genesis count and contains the branches of its
members), `BodyAssumption` (one counterpoint, first; no duplicates in a count),
`GenesisAssumption` (the genesis count has its counterpoint only), `SeriesAssumption`
(`acceptCount` checked the series of every consideration), `ParameterAssumption`,
`SeriesLengthAssumption`, `WorkAssumption` (work grows along a branch), `NotifyAssumption`,
`PeerManagerAssumption` and `PeerStorageAssumption` (goroutines, addresses and connections are
distinct things), `RendererAssumption`, `DownloadAssumption` (like `PathAssumption`; a peer has
a tip), `QueueAssumption` (`acceptCount` checked the maturity and the expiry of what a count confirms, and the
graph objects to no counterpoint), `HeadersAssumption` and `WindowAssumption` (the easiest target is at most
half of `MAX_INT`, the window is of an even number of counts), `DimensionAssumption` (a consideration for a
pseudonym has no further links). `JobAssumption` says that the value for "no call" is no call.
`LedgerReopened` states the ledger's again, without the flag. `MCHeaders` also has TLC compare the median by rank,
which the proofs reason about, with the middle of the sorted list, which `computeMedianTimestamp` takes, for
every list of up to five times.

*Argument*, module by module: the inductive invariant, and why the property alone is not one.

**LedgerProofs** (`ChainIsIndexed`, `TablesTyped` [`TypeOK`], `IndexIsExact`
[`ConsiderationsIndexed`], `ConfirmedOnce` [`NoDoubleConfirmation`], `PartiesAreExact`
[`PartiesIndexed`]). `NoDoubleConfirmation` is not inductive: `ConnectCount` looks in the index,
and the index is pruned. The invariant is `ExactIndex`: types, the exact height index, the
exact consideration index within the window, and no double confirmation.

1. The height index is exact, so the count whose rows leave or return (`Expiring`) is the one
   of the tip's branch two series below (`ExpiringIs`).
2. A count at height *h* may confirm a series only if another count confirming the same
   series lies less than two series below (`SeriesWindow`, from integer division).
3. So a replay would have its first confirmation inside the window, where the exact index has it, and
   `Unprocessed` fails: `ExactIndexConnect`.
4. Disconnecting restores the row of the count coming back into the window;
   no double confirmation on the longer branch says that row was nowhere else:
   `ExactIndexDisconnect`.

So index exactness and single confirmation need each other and are proved together. The key index
follows the same window (`IndexedParties`).

Its second half is about imbalances (`ImbalancesAreSettled` [`ImbalanceIsSettled`], `NoKeyOwes` [`Solvent`],
`TipCanBeUndone` [`UndoNeverPanics`], `HistoryIsStored` [`HistoryAgrees`], `UnitsAreIssued` [`Supply`]). The invariant `Balanced` says the imbalances are those of the branch and, of
every count on the branch, that its senders could pay when it was the next one
(`BranchIsValid`). The latter is history the tables do not hold, and what a disconnect needs:
undoing a count runs over the same partial sums as connecting it did, from the
other end. `Net`, what a list brings a key, is a difference of cardinalities, so that the
lemmas are about finite sets and not about recursion. `HistoryIsStored` also needs
`RowsOnBranch`: no key row of another branch is left. `UnitsAreIssued` supposes finitely many keys:
what all keys hold is a sum, `Sums!FoldFunction`, which is unfolded one key at a time; that a sum
over a finite set does not depend on the order is shown by a least counterexample (the least number of
keys for which it fails), which is first-order, where an induction theorem would need an operator.

**LedgerReopenedProofs** (`ReopenedIsSettled` [`ImbalanceIsSettled`], `ReopenedCanBeUndone`
[`UndoNeverPanics`], `ReopenedHistory` [`HistoryAgrees`]). `Balanced` and `RowsOnBranch` do not
mention the flag and are kept by a step of either ledger, so the lemmas of the two
instances apply in turn. `ExactIndex` mentions it: of single confirmation nothing is
left here, as section 8 shows.

**ProcessorProofs.** `ProcessorIInv` is about the tables, the headers (`StorageOK`), the call
(`JobOK`) and its plan: some height where the branches part, the counts to undo from
the tip down to it and those to redo from there up, contiguous to the last (`PlanOK`).

- `ProcessorUsesTheLedger`: with it every step of the processor is a ledger step or leaves the
  tables alone, so all theorems about the ledger carry over, with vetoes and stops.
- `WalksMeetHeaders` [`KnownIsRooted`] and `PlanIsPossible` [`PlanFollowsTip`], with vetoes and stops.
- `TipStaysBest` [`TipIsBest`], `TypesFollowTip` [`BranchTypesMatch`] and `ProcessorChooses`, the safety part
  of `ImplementsPoint`, step by step to a choice or a stutter. Their hypothesis is
  `Undisturbed == Restarts = FALSE /\ CycleProne = {}`, the instance of the run `processor`: with
  stops the first two fail (section 8), and a graph that may veto a count makes "valid"
  depend on the moment. The invariant `ChoiceIInv` says who is valid among the tip, the old tip
  and the new count at each place of the call, and that a restored tip was
  connected before: its reconnection cannot fail, as its branch is valid and the ledger exact
  (`Ground`).
- `ProcessorTyped` [`ProcessorTypeOK`] and `QueueStaysUnconfirmed` [`QueueIsUnconfirmed`], with vetoes and stops;
  `QueueStaysRenderable` [`QueueIsRenderable`], `Undisturbed` (section 8 has the counterexample with a graph that
  vetoes). The invariant `QueueIsReady` adds that the cache tells what the queue leaves of the imbalances, so
  that `Add`'s answer from the cache is the answer for the whole list.
  `reprocessQueue`'s loop is a recursive function over the positions of the list; what it returns is shown by
  the least position at which it would fail. Between the batches of a reorganisation the queue need not be
  ready; `ReadyIInv` says it is whenever the tip is the one the call found, and that a
  reorganisation comes back to that one only to restore it (`RedoIsNew`).
- `IndexerIsExact` [`IndexerInv`] and `DriftStaysFixed` [`DriftIsFixed`], of the specification that composes the
  processor and the indexer. `IndexerIInv` is `ProcessorIInv` (proved for any veto, so for the graph's), the
  indexer's protocol (`IndexerOK`: no message before it registers; unless a reorganisation disturbed the
  catch-up, its height is at most one past the tip, and just that when it registers; at most two messages under
  way) and `GraphIsExact`. For every link, its weight plus the messages under way less the branch of the tip is
  a number, `Off`, that every step keeps: a count indexed (`OffIndexed`), a message applied (`OffFollow`),
  a tip announced (`OffAnnounced`). What a disturbed catch-up missed stays missed, and no more is.

**NotifyProofs** (`SendsAreRead` [`NotifyInv`], `EveryAnswerIsAwaited` [`OneAnswerPerCall`]). `NotifyIInv`
ties the announcements the processor still has to send to the registrations: nobody registers
or leaves while it is busy, and leaving the tip changes is the last thing a subscriber
does. `AnswersFit` counts, for each goroutine, its requests in the two channels and
with the processor.

**RendererProofs** (`WorkFollowsTip` [`WorkIsCurrent`], `SolutionsFit` [`SubmittedIsWhole`]). `RendererIInv`
says of every worker that it is on the tip or has the message that brings it there last in
its channel; during a reorganisation, that the last step connects, and sends what the tip will
be. For the peer it says that what carries the ID of the current work has its header.

**HeadersProofs** (`MediansGrow` [`MedianGrows`], `AdjustmentsAreBounded` [`AdjustmentIsBounded`]). The median is
the least time that more than half of the times do not exceed: adding one past it, and dropping any other, cannot lower
it (`MedianOfNext`), and `acceptCount` only takes a header past it. `HeadersIInv` adds that the work of a header is that of
the one before and its own. For the adjustment, the work between two headers of a branch is the sum of the
works in between (this needs the targets of the branch not to be above the initial one, `NoneIsEasier`; section 8 has
the branch that breaks it), the timespan is clamped to half and twice the window's, and the rounding of the three integer
divisions is bounded one at a time. The theorem is for states in which no target has come down to 0 and
no work is above the square root of `MAX_INT` (`InRange`: 2^128, which no branch comes near): beyond it, dividing
by the work of the next count does not give that work back.

**DownloadProofs** (`QueuesFit` [`DownloadInv`], `AnswersInOrder` [`InFlightIsUnderWay`], `AskedOnce`
[`OneRequestPerCount`], `HonestPeersStay`). `DownloadIInv` adds to the properties what each
reader loop has in hand (the first of its download queue, the first in flight), that every locator
ends with the genesis count, and that who waits for a count owns it unless it once expired.
Messages of a type are counted by the cardinality of their positions; each way a
message or a count can enter or leave is a lemma (`WaySend` to `WayAnswered`), and the handlers
compose them. `HonestPeersStay` is what they are for: the next answer is the one
`onCount` expects.

**PeerManagerProofs** (`PeersTyped` [`PeersTypeOK`], `PeersListed` [`EveryPeerIsListed`],
`MarksAreConnections` [`MarkedIsConnected`], `NoSecondConnection` [`OneConnectionEach`],
`ShutdownLeavesNoReader` [`OutboundReadersStopped`]). `PeersIInv` says of an operation on the store that
is between its read and its batch that the rows it read are still listed, of the main loop that
no address it still has to try is connected, of the counts by host that they are those of the
connections, and how far the shutdown is. What the last theorem says of the reader loops is not so of the writer loops
nor of inbound connections (section 8).

*Only model-checked*, and why:

- Liveness under fairness (the second half of `ImplementsPoint`, `IndexerFollows`, `EndsUnlessStuck`,
  `ShutdownUnlessStuck`, `QueuedIsRendered`, `EventuallySynced`, `ShutdownEnds`) and ENABLED (`Stuck`): out of
  the prover's reach.

Every invariant of the passing runs, and every action property without fairness, is a theorem: of
`QueueIsRenderable`, `TipIsBest` and `BranchTypesMatch` for `Undisturbed`, of `AdjustmentIsBounded` for `InRange`, of `Supply`
for finitely many keys.

## 8. Disagreements between code and documentation

Two are runs that find one property violated; the lines they contradict are quoted in `PROJECT.json`.

1. `graph_split` (`BetterIsTaken`): a consideration of the better branch meets a link of the branch that was just
   disconnected, which the graph keeps with the weight zero and whose messages the indexer may not even
   have read; `ConnectCount` refuses it and the client stays on the branch with less
   work. A client that never had the other branch takes it: two clients may part for good.
2. `peer_store` (`GetFindsTheRow`): `Store` of the HTTP handler overlaps `Store`, the attempt and the failure of the
   main loop for the same new address, and leaves an index row without a peer row, a nil pointer in `Get`.
   The row is persistent, so the client ends again at the next `Get`.

The others are properties of the modules that no run lists. Adding the property to the configuration named
gives the counterexample.

| Property | Configuration | What it shows |
|---|---|---|
| `OutboundIsOver` | `MCPeerManager` | `Shutdown` closes and awaits the peers in the set (`peer_manager.go:274`). A reader loop that ended before has taken its peer out (`peer_manager.go:423`), and nobody waits for that peer's writer loop, which may still refresh the peer store or be about to unregister when `client/main.go` ends the processor and closes the stores; `peer_manager.go:259` says "stops the peer manager synchronously". |
| `InboundIsOver` | `MCPeerManager` | The HTTP server does not wait for an upgraded connection (`peer_manager.go:547`); its handler may put the peer in the inbound set (`peer_manager.go:555`) after `Shutdown` has read it; `peer_manager.go:269` says "shutdown all connected peers". |
| `TargetsAreCapped` | `MCHeaders` | On a side branch more than a window long the target is computed against a header of the main branch (`processor.go:699`), which may have more work: the target is negative when it is compared with the initial one (`processor.go:727`: "don't go above the initial target") and above it when its magnitude is stored (`stage.go:242`). |
| `AdjustmentIsBoundedAnywhere` | `MCHeaders` | On the same branches the work expected may be zero, a division by zero, or negative, a target outside `processor.go:711`'s factors; and the main branch may have no count at that height. |
| `HistoricalImbalance` | `MCLedger` with `Prune = FALSE` | `GetPublicKeyImbalanceAt` (`ledger_disk.go:859`) judges the maturity of counterpoints by the tip; `ledger.go:65` says "at the given height". |
| `NoDoubleConfirmation` | `MCLedgerReopened` | A database pruned by one run and reorganised by a run without `-prune` is not restored (`ledger_disk.go:428`), and a consideration is confirmed twice on one branch; `client/README.md:41` says the flag "only impacts a mind's ability to query". |
| `TipIsBest` | `MCProcessorRestart` with `CycleProne = {}` | Stopped between two batches of a reorganisation (`processor.go:837`), the client comes up on a tip with less work than a branch whose counts it answers to be processed already. From there `BranchTypesMatch` breaks too: the old tip is an ancestor of the tip, compares worse, and `reconnectTip` flags it as a side count. |
| `QueueIsRenderable` | `MCProcessorRestart` with `Restarts = FALSE` | The imbalance cache keeps the effect of a consideration the graph objects to (`translation_queue_memory.go:41`, `136`), so one nobody can pay for stays queued and is rendered into a count that is rejected. |
| `NoneBeforeMaturity` | `MCProcessor` | `IsMature` (`translation.go:100`) compares the other way round from `translation.go:22`: `Matures` is a last height and not a first one. |
| `CallsReturn` | `MCNotify` | A renderer that submits a count (`renderer.go:220`) does not read its two channels of one message, which the processor may have to fill before it answers. |
| `ShutdownCompletes` | `MCNotify` | A peer's writer loop that registers its second channel (`peer.go:231`) or leaves does not read the first, which the processor may be filling; `peer_manager.go:259` promises to stop. The code's channel has room for ten tip changes, the instance's for one: it takes a reorganisation of more than there is room for. |
| `EventuallySynced` | `MCDownload` with `RecentHeight = 2` | The tip sent after the last count of a piece (`peer.go:881`) is announced while the client has it queued or processed, or the connection was lost: nothing asks for the next piece, and once the tip is recent no stall ends the connection. The client catches up only with the peer's next tip. |

## 9. What is not modelled

- Checks of a single count or consideration that depend on nothing else (signatures, hash
  list root, proof of work): the constants hold those that pass.
- The growth of the limit on considerations per count: its products are 64 bits wide, TLC's integers 32. The model
  takes any count that passes it, so it has more behaviours than the code.
- Data races: the processor reads the graph's maps while the indexer writes them (`tranxlation_graph.go:197`).
  An access that meets a write ends the process or sees either value; in Indexer each is atomic,
  and the end of the process is a stop, as in Processor.
- In Indexer the queue's considerations may arrive at any time, but the client is not stopped: the graph
  is in memory and starts empty, which is the initial state.
- In Renderer a branch is valid unless `ConnectCount` says otherwise, which it may (`ConnectFails`), but going back to the
  old tip succeeds. It may fail when the graph has changed in between (section 8, 1); the renderer
  is then on the tip it was told last, which is the client's only one.
- In Renderer a count's key, its time and the renderer's wait for the end of the download. The deadlock of a
  caller with full channels is in it (`Stuck`) and is Notify's subject.
- In PeerManager: the option `-peer`, the check for a connection to itself, the discovery of addresses
  (any address may arrive at any time), errors of the storage.
- In Download: checkpoints, which are disabled, and messages that are no answer to any question; the other end is this
  program.
- Files, compression, JSON and encodings, apart from the information they carry.
- Page and range queries, filters and `GetSince`, which change nothing.
- Corruption and I/O errors of LevelDB and of the count files: the code passes them up and the
  operation is repeated or lost, as after a stop.
- DNS, IRC, UPnP, TLS, the inspector, the command line of the mind, the genesis generator:
  clients of other services or tools with no state of the focal point.
- The mind's library (`agent.go`): another program's half of the peer protocol.
- The ranking of the graph (floating point), and what the indexer notes about places.

## 10. Plan

1. **Rules**: what series a consideration made at one height has at the next (`translation.go:144`), and the limit's growth
   as a theorem over the integers.
2. **Mind** (`agent.go`): requests, answers and errors over one result channel.
