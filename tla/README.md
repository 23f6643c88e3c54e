# A verification development for Buster

Buster is an arbitrage bot for an EVM chain (Base).  It loads liquidity pools, keeps
a local copy of their state up to date with every block, looks for cyclic swap
paths from WETH to WETH that pay, simulates them in an EVM on the local state and
posts them as flash loan transactions to the chain's sequencer.

This directory holds TLA+ modules of it, the TLC configurations that check them on
small instances, and theorems about them that TLAPS checks for every value of the
constants.  All definitions are translated from the source; `PROJECT.json` maps each
to the lines it stands for.  (The repository's own README says that the code does not
compile at this commit.  Where the code calls a function it does not define, the model
takes it from its call sites, and this is said below.)

Contents: [the system](#1-the-system), [what is hard](#2-what-is-hard),
[modules](#3-the-modules), [runs](#4-the-runs), [fairness](#5-fairness),
[proofs](#6-the-proofs), [divergences](#7-where-code-and-comments-disagree),
[not modelled, and the plan](#8-what-is-not-modelled-and-the-plan).

## 1. The system

### The pipeline

    node --headers--> stream_new_blocks --broadcast(100)--+--> GasStation::update_gas
                      stream.rs:10                        |
                                                          +--> MarketState::state_updater
                                                               market_state.rs:103
                                                                 |        |
                                        write lock, per block    |        | PoolsTouched (mpsc)
                                                                 v        v
                           RwLock<BlockStateDB>  <--read--  Searchoor::search_paths
                                 ^                             searcher.rs:72 (a thread)
                                 |                                | ArbPath (mpsc)
                                 |                                v
                                 +---------write------------ simulate_paths
                                                               simulator.rs:20 (a task)
                                                                  | ValidPath (mpsc)
                                                                  v
                                                            send_transactions --> sequencer
                                                               tx_sender.rs:99 (a task)
                                                                  | one per accepted post
                                                                  v
                                                            send_and_monitor, :174

The workers share one `RwLock<BlockStateDB>` and otherwise talk through channels.  A
worker ends when the sender of its channel is dropped, so that the end of one worker
ends those after it.

### The components

| Component | State | Operations | Correct when |
|---|---|---|---|
| **Block stream** (`stream.rs`, `ignition.rs`) | the subscription, the broadcast channel | subscribe, forward a header, end | no block between catch-up and stream is lost |
| **Market state and updater** (`market_state.rs`, `tracing.rs`) | `last_synced_block`, `caught_up`, the shared database | warm up, populate, catch up to the head, apply a streamed block, send `PoolsTouched` | blocks are applied once, in order; the database agrees with the chain; every streamed block is announced |
| **State database** (`state_db/`) | accounts, code, cells (some of them packed), tracked pools | `basic`, `storage`, `code_by_hash`, `commit`, `add_pool`, `insert_v2`, `insert_v3`, `update_all_slots`, `get_reserves`, `slot0`, ... | what one writer packs, every reader unpacks; code is never lost; every tracked pool can be updated |
| **Searcher** (`searcher.rs`) | the cycles, the pools each uses | on an event: invalidate, update rates, estimate, calculate, report | works on current data; discards nothing that pays; ends when its input does |
| **Calculator and cache** (`calculation/`, `cache.rs`) | the cache: (pool, amount in) to amount out | look up, compute under the read lock, store | a cached output is one of the pool's present state |
| **Estimator** (`estimator.rs`) | rates per pool and token, aggregated rates | `process_pools`, `update_rates`, `estimate_output_amount` | rates are those of one, the current, state |
| **Pool mathematics** (`calculation/*.rs`) | none | output of a swap per pool type | agrees with the pools; the tick walk ends, and crosses each tick once |
| **Simulator and quoter** (`simulator.rs`, `quoter.rs`) | the blacklist | quote a path, `optimize_input`, hand over | what is sent on pays; blacklisted paths stay out |
| **Transaction sender** (`tx_sender.rs`) | the nonce, its monitors | sign, post with a time limit, monitor for a receipt | paths go out in order, under consecutive nonces; what is accepted lands |
| **Gas station** (`gas_station.rs`) | the base fee | `update_gas`, `get_gas_fees` | the bid follows the latest header; every header reaches the fee |
| **Worker start-up** (`main.rs`, `ignition.rs`) | `caught_up` | start the tasks, spin until caught up, start searcher and simulator | the spin ends; the tasks that block leave the runtime a thread; nothing waits for a worker that is gone |
| **Arbitrage graph** (`graph.rs`, `swap.rs`) | a graph of tokens and pools, the search's stack | `build_graph`, `construct_cycles` | all cycles, each once, and nothing else |
| **Pool filter** (`filter.rs`) | the file of token addresses; within a call, the pools, the slot map and one database of overrides | fetch tokens page by page, cache them, match, simulate a swap and its inverse | a pool passes or fails for itself; a later start works with the same pools |
| **Contracts** (`contracts/src/`) | balances, approvals, fee tables | `executeArbitrage`, the swap loop, the V3 callback; `FlashQuoter` quotes | repays or reverts; does what was quoted; keeps nothing |
| **Historical database**, **bindings and byte code** | - | not used by the workers; generated | - |

Two facts shape the model.  `generate_cycles` is called with `max_hops` 2, so that every
cycle has two pools, and each of them trades WETH.  And the simulator never awaits: the
market moves between two of its quotes only because each quote takes the lock anew.

A third one shapes the composition.  `simulate_paths` and `send_transactions` are tasks of
the tokio runtime that block in a std `recv()`, and keep the worker thread they run on while
they do; `state_updater` keeps its own while it waits for the lock.  And the lock may be held
by one that itself waits for the runtime: a quote (as the writer) or a search (as a reader)
that misses a slot fetches it from the node, and the answer needs a free worker.

## 2. What is hard

`PROJECT.json` lists the hazards with their lines, and the properties that cover each.  In short:

- **Catch-up against stream.**  The updater catches up by block number while headers
  queue on the broadcast channel; the two overlap or leave a gap depending on when the
  subscription is established.
- **A cache that runs ahead.**  A simulation that misses a slot reads it at the node's
  *latest* block, while the updater may be blocks behind; the traces of the blocks in
  between are then applied over it.  Whether that is right takes an argument over several
  blocks (section 6).
- **Reads before an unlock used after it.**  An output is computed under the read lock and
  cached after it; rates are made of two quotes under two locks; a path's amounts are
  quoted one lock at a time; `optimize_input` compares quotes between which the market
  moves.
- **Partial failure.**  A transaction fails to trace, an account cannot be fetched, a post
  is rejected after its nonce was used, a post times out although it was taken, a panic
  poisons the lock.
- **Endings.**  Errors of `recv` end a worker; what is queued is to be worked off first, and
  nobody is to go on without a database or wait for one that is gone.
- **Threads.**  Two tasks keep a runtime thread for good, a third waits on its own for a lock
  whose holder waits for the runtime.
- **A file that outlives the process.**  The list of tokens is created empty, then filled, and
  read by every later start, whatever happened in between.
- **Words and widths.**  Reserves, prices, signed ticks and signed net liquidity share
  storage words with other fields; three writers and two readers have to agree on them.  The
  words of a tick bitmap are found by divisions that round differently.
- **The contract trusts its own bookkeeping.**  It follows tokens and amounts through calls
  and call-backs, with what earlier transactions left in it, on reserves that moved since
  the quote.

## 3. The modules

    Pipeline <- PipelineProofs, MCPipeline
    PoolsTouched <~ MarketState <- MarketStateProofs, MCMarketState
    Amounts <- Searcher <- SearcherProofs, MCSearcher
    Outbox <~ Submission <- SubmissionProofs, MCSubmission
    Swaps <- FlashQuoter <- FlashSwap <- FlashSwapProofs, MCFlashSwap
    Graph <- GraphProofs, MCGraph
    StateDb <- StateDbProofs, MCStateDb
    Filter <- FilterProofs, MCFilter
    TickWalk <- MCTickWalk

An arrow points from a module to those that extend it; `<~` from an abstract specification
to the one that implements it.  The MC modules only define the
constants of an instance; properties are in the module they are about, and the inductive
invariants that carry them, which say nothing new of the code, in the module of its proofs.  Definitions
whose comment says mutant are changed forms of the definition after them; no specification uses
them.  Each is a way the code might have been wrong that a property rules out, and
`PROJECT.json` says which.

**Pipeline**: the workers as one system.  A block is its number, a path the number of the
block it was found on; what each worker does with it is the matter of the other modules.
What the workers share is here: the worker threads of the runtime (`Holding`, `FreeWorker`),
the lock (`CanRead`, `CanWrite`, `poisoned`), the broadcast channel with its lag, and the
three queues.

| Worker | Actions |
|---|---|
| stream, gas station | `StreamBlock`, `StreamEnds`; `UpdateGas`, `GasEnds` |
| updater | `ReceiveHeader`, `Traced` (wants the lock), `TraceFails` (dies before it), `ApplyBlock` (or dies on the poisoned lock), `UpdaterEnds` |
| searcher, a thread | `TakeEvent`, `Search`, `SearchFetch` and `SearchFetched` (a word of a tick bitmap is fetched under the read lock), `SearcherEnds` |
| simulator | `TakePath`, `Quote`, `Fetch` and `Fetched` (a slot is fetched under the write lock), `FetchPanics` (poisons it), `SimulatorEnds` |
| sender | `TakeValid`, `Answered`, `SenderEnds` |

A request made with the lock held goes through `block_in_place`, which hands the other tasks
of the worker to another thread; a wait for the lock or a std `recv()` does not.  After it the
thread may not be a worker any more (`core`), and then its blocking costs nobody.  A search
takes the read lock many times; here it is a step, or two around a wait for the node.

**MarketState**: the chain, the block stream, the updater and the cells of the database.

| Action | Code |
|---|---|
| `Mine` | external: a block, as the diffs of its transactions |
| `Subscribe`, `ForwardHeader`, `StreamEnds` | `stream_new_blocks`; its `unwrap` on a failed connection is an end |
| `PopulateDb` | `populate_db_with_pools`: `add_pool` replaces accounts, `insert_v2`/`insert_v3` write the slots the pool sync knew |
| `ReadThrough(c)` | `storage` on a missing slot, by the warm-up and the simulations |
| `ReadHead`, `CatchUp` | the `while` loop of `state_updater`, a block at a time; the flag `caught_up` after it |
| `SkipHeader`, `ProcessHeader`, `Notify` | the receive loop: its test on `last_synced_block`, `update_state`, the event and the counter after it |
| `RecvFails`, `RpcPanic` | `Lagged` and `Closed` end the loop; an `unwrap` on a node's error ends the task |
| `LeaveSpin` | `ignition.rs:74` |

A cell is an (account, slot) pair.  A block's body is a sequence of transaction diffs, as
the tracer gives them: the post frame has no entry for a slot that became zero, and a
transaction may fail to trace.  `applied` and `address_tx` are histories.

**PoolsTouched** is what `state_updater` promises the search thread: from the end of the
catch-up on, a block is in the database as a whole, later blocks come later, what is cached of
a pool changes with a block only, and before the next block an event names all pools that
changed.  A missing cell may be read at any time, and is then kept.  `ImplementsPoolsTouched`
says that MarketState implements it.

**Searcher** (with **Amounts**, the constant product output and the rates): the search
loop as steps between which blocks land.  `ApplyBlock` and `SendTouched` are the updater's
write and event.  `Receive` takes an event and invalidates; `QuoteOut` and `QuoteBack` are
the two separately locked quotes of `process_eth_pool`; `Choose` picks an estimated path;
`CacheHit`, or `Compute` and then `Store`, is `calculate_output`; `Report` sends the path;
`Disconnected` and `LockPoisoned` are the ways the thread ends.  `Cache::set` and
`Calculator::invalidate_cache` are called (calculator.rs:63, searcher.rs:81) but not
defined at this commit; the model stores the entry, and drops those of the event's pools.

**Submission**: simulator, sender, sequencer.  `TakePath` (with the blacklist test),
`FirstQuote`, `Raise` (one try of `optimize_input`), `Forward`, `QuotePanics`,
`SimulatorEnds`; `TakeValid` (takes the nonce), `Accepted`, `Rejected`, `PostPanics`
(time-out, whether or not the sequencer has the transaction), `SenderEnds`; `Poll(n)`,
a monitor's request for a receipt; `Land`, the sequencer executing the next nonce.  A monitor
that was just spawned is next in line on the sender's own worker thread, from where no other
thread takes it, and the sender then blocks that thread in `recv()`: it is `Slotted`, and does
not run before the next path has come.  What
a quote returns is a table over the states of the market, which `UpdateDatabase` changes
at any time.

**Outbox** is what the two promise together: what was sent is posted, in that order, once,
under consecutive nonces, and all of it in the end, unless the outbox closes, which only a
post does.  `ImplementsOutbox` says that Submission implements it, under the mapping of
`Out == INSTANCE Outbox WITH ...` at the end of the module.

**Swaps**, **FlashQuoter**, **FlashSwap**: the contracts.  `Swaps` has a single V2 or V3
swap as a function on the world (reserves, holdings, the loop's current token and its
amounts), including the pair's own acceptance test; `FlashQuoter` runs it over a path
(`QuoteRun`, what the loop has come to after each round);
`FlashSwap` runs a transaction call by call: `ExecuteOperation` (the loan arrives),
`SwapV2Pool`, `SwapV3Pool` and `UniswapV3SwapCallback` (the pool pays, then calls back to
be paid), `RepayFromBalance` (approves the lender, forwards the rest to the owner),
`Collect` (the lender takes loan and premium), and `Revert`, which restores the state
before.  The contract asks nobody who they are: `ExecuteArbitrage` takes out a loan of as much
WETH as the path is sent with, `LoanByAnyone` is a call of `executeOperation` on a loan that
somebody else had the lender make, of any token and amount, and with any path of `Paths`;
`CallbackByAnyone` is a call of `uniswapV3SwapCallback` outside a swap, which pays out what the
contract holds; `Trade` is somebody else's swap between transactions.  The pools, WETH
and the lender are external, modelled from how the contract uses them.

**Graph**: `AddSimplePool`, `AddCurvePool`, `AddBalancerPool` build the graph, pools in any
order.  The recursive `construct_cycles` is a stack of calls: `StartSearch`, then
`CloseCycle`, `Descend`, `SkipVisited` for an edge, `Return` with the pop and the remove
of the caller.  A call walks the edges of its node in any order (`todo` holds those it has
not come to): petgraph's order decides the order of the cycles and nothing else, and nobody
asks for that, so that `all_paths` is a bag.

**StateDb**: the database's accounts, code by hash, and cells with their packing.  `WarmUp`
(per pool: the cell `balance_slot` of its first token, which the code takes for the account's
balance whatever the token, and the committed approval of the quoter), `Populate` (per pool;
it replaces the account of a pool that is itself a token),
`UpdateState` (a block), `QuoteLoads` (a simulation loads an account, code and slots), with
`WarmUpPanics` and failed requests.  Signed and packed fields have widths of their own
(`Reserve`, `Price`, `Tick`, `Liquidity`), and a pool's state is written in each of three
ways (the snapshot's insert, a trace, a load from the node) and read in one.

**TickWalk**: `uniswap_v3_out`.  `Iterate` is a turn of its loop: load three words of the
bitmap around the current tick (`Words`, with Rust's division), take the next tick the library
finds within one word (`NextTick`), swap up to it (`SwapStep`), cross it if it is initialised
(`Crossed`, with the sign of the net liquidity and the tick after it); `Finish` ends it.
Prices are on a coarse linear scale.  `Reference` is the same swap on the list of all
ticks.  A word that cannot be read is taken for empty; that is what a word is that
nobody loaded, since the pool sync and the traces bring those with ticks.

**Filter**: `filter_pools`, from the request for the tokens to the list of pools, with kills
and restarts at any point.  `ReadAddresses`, or `StartFetch`, `FetchPage`, `CreateFile` and
`WriteAddresses` (the file whole; or cut short, with the process dead or, when the error is that
of the flush at the drop of the `BufWriter`, going on), get the tokens; `MatchPools` drops pools of other tokens and finds the
slots the balances are in (`ItemSlot`); `SkipUnknownSlot`, `FirstSwap` and `SecondSwap` try a
pool, on a database in which what earlier pools needed is left (`Provide` writes the balances
and the approvals).  A router finds the pool by what its factory tells pools apart by
(`FactoryKey`), from what the code puts into the call (`Key`), and a swap in an empty pool
fails.  Of a list of tokens the code asks only whether a token is in it, and the list of
pools is in no order: both are sets, and pools are tried in any order.  `trial` is what the code
has in hand between the two swaps.  `Restart` starts again with what is on disk.

MarketState and StateDb are two views of `BlockStateDB`: the first follows single cells
through time, the second the path of a pool's state through cells and accounts.
MarketState and Searcher meet at the `PoolsTouched` event, and the module of that name is the
contract: MarketState implements it, and the updater in Searcher's environment takes its
steps, `ApplyBlock` for `Update` and `SendTouched` for `Tell` (a pool's state is one value
there, always held).  Searcher and Submission meet at
`paths_tx`, of which Submission assumes nothing; Submission and FlashSwap at the quote,
whose meaning `QuoteKept` is about.  Pipeline is the outline of MarketState, Searcher and
Submission together, step by step coarser than they are: it has the questions that none of
them can ask alone, about threads, the lock and the ends of the workers.

## 4. The runs

`tlc -config <cfg> <module>`.  Each ends within minutes.
`CHECK_DEADLOCK FALSE` is in every configuration because the behaviours do stop: chains,
transactions and searches are bounded, and workers end.

| Run (cfg) | Shows |
|---|---|
| `pipeline` (MCPipeline) | `TradedOncePerBlock`: across four workers and three queues a block's opportunity is traded once at most, and never after a later one.  Liveness: `HeadersHandled`, nothing starves with four worker threads; `WindDown`, when one worker ends or the lock is lost, all end that need it. |
| `market_state` (MCMarketState) | `Coherence`: a cached cell of a tracked pool whose last write was shown to the bot has the chain's value at the last applied block or a later one.  `AppliedInOrder`.  Refinement: `ImplementsPoolsTouched`, every change is announced, with every pool, before the next block.  Liveness: `EventuallyCurrent`, when the chain rests the updater has processed its last block, and holds that block's value of every cell whose last write it was shown, unless it has stopped or no header ever reached it; `SpinEnds`. |
| `searcher` (MCSearcher) | `CacheFresh`, `RatesFresh`: no output or rate from before a change the searcher has heard of.  `QuotedSinceEvent`: every amount of a path sent was quoted since its event.  `NoProfitMissed`: no profitable path is estimated away.  Liveness: `Settles`. |
| `submission` (MCSubmission) | `RaisedInputPays`.  Refinement: `ImplementsOutbox`.  Liveness: `AcceptedLands`, `MonitorsEnd`. |
| `flash_swap` (MCFlashSwap) | `WethForwarded`: nothing is kept or owed between transactions, whatever loans and callbacks others make.  `QuoteKept`: a quote that covers loan and premium is kept by a transaction on the same state that is lent what it sends.  `NoTokenSpent`: a transaction on a loan of WETH pays its way with its own WETH alone, and spends nothing of the other tokens it finds in the contract. |
| `graph` (MCGraph) | `PathsAreCycles`, `AllCyclesFound`, `FoundOnce`, against a definition of the cycles that does not search. |
| `state_db` (MCStateDb) | `PoolsRead`: a pool reads back as the chain has it whichever writer wrote it.  `CodeKnown`.  `QuoterFunded`: what warm-up wrote, for a token that is no pool and has its balances where the code writes them, outlives everything after.  `UpdatesReachPools`. |
| `tick_walk` (MCTickWalk) | `Answers`: the walk ends, with what the swap on the list of all ticks gives.  `TypeOK` ties tick, price and liquidity together at every turn. |
| `filter` (MCFilter) | `SelectedAlone`: a pool passes or fails for itself, whatever was tried before it.  `DepthTested`: what passes is deep.  `RestartKeepsPools`: every start that gets through works with the pools of the first that did. |
| `market_state_gap`, `market_state_trace`, `searcher_rates` | each a counterexample to what a comment says; see section 7 |

### Bounds, and why they are enough

- **Pipeline**: 3 blocks and a channel of 2, so that a receiver can lag; 4 worker threads.  That
  is the least: with 3, TLC finds the state in which the simulator and the sender
  wait in `recv()` and the updater for the lock, while the searcher holds it and waits for an
  answer that no thread is left to take; with 2, two blocked receivers are enough.  tokio
  starts one worker per CPU, so that a machine with fewer than 4 is not covered.
- **MarketState**: 3 blocks, a channel of 2 (1 in the violation runs; the code asks for 100),
  three cells: one that population writes, one that it leaves, one of an untracked
  account.  Two blocks are enough for a read ahead of the updater and a block applied over
  it, three for an overlap of catch-up and stream with a lost block between, and for a lag.
  Bodies hold a cell written twice in a block, cleared and set again, and each
  transaction's trace may be missing.  Symmetry is not used: the cells differ.
- **Searcher**: two pools, the size of a cycle, both directions; 2 blocks, so that one may
  land between any two steps of the search for another.  `RateScale` 3 stands for the code's
  18 decimals, so that rounding shows (more than it does in the code); `Slack` 1 is what
  rounding may take.  Reserves are chosen so that the cycle pays in some states and not
  in others.
- **Submission**: 2 paths, 3 markets (one where the larger inputs pay less, one where a path
  loses, one with a quote too large to be believed and one that fails on a further try),
  `MaxTries` 2 (50), `MaxAttempts` 2 (10), 2 paths found, 1 move of the market.  Two
  transactions are the least for a gap in the nonces.
- **FlashSwap**: 2 transactions, on loans of either token, with one trade or callback by others
  (`MaxTrades` bounds both) before, between or after them, the empty path besides those of two pools, two V2 pools with opposite token order
  and different fees, a V3 pool whose liquidity ends at 30, inputs 1 (outputs round to
  0), 10 and 40 (more than the V3 pool takes), a premium of 10 % so that
  small numbers show it.
- **Graph**: 5 pools of 3 types over 3 tokens, every subset of them, any order of edges,
  `max_hops` 2 as the code has it and 3, which makes the recursion go down.
- **StateDb**: a V2 and a V3 pool that share their first token, words of 2-bit fields
  (ticks -2..1, so both signs and both ends), 4 blocks, every failure of a request; two more V2
  pools that do not change, one whose first token keeps its balances in another cell than the
  one the code writes, one whose first token is the first pool (its shares).
- **TickWalk**: words of 2 bits over ticks two apart, so that a walk passes through several
  words on both sides of zero and starts on, off and next to the boundaries where the two
  divisions differ; 3 pools, one with a stretch without liquidity, 8 prices, 4 amounts up to
  one that exhausts the pool, and a liquidity that disagrees with the ticks.
- **Filter**: 10 pools of every way a router is asked, tried in any order, over 6 tokens whose
  balance slot is found by each of the rules, wrongly, or not at all; two of the pools differ
  in the tick spacing alone, one is empty; two pages; 3 starts, one change of the ranking,
  every request may fail.

## 5. Fairness

Weak fairness only, and only of steps that nothing but the scheduler holds back.

- **MarketState**: `ForwardHeader`, `PopulateDb`, the updater's steps, `LeaveSpin`.
  The tasks and main run when they can, and requests are answered.  Nothing obliges a
  block to be mined, the connection to be made or to end, a reader to read, a request
  to fail.
- **Searcher**: the search thread, which is an OS thread, and the updater's send, which
  follows the write without an await that could fail.  No fairness of blocks or panics.
- **Submission**: the simulator's steps, the sender's, `Land`, and each monitor that is not
  `Slotted`.  A post ends within the client's ten seconds (tx_sender.rs:54); a sequencer
  executes in the order of nonces what it has taken.  Panics are not fair.  A monitor in the
  slot of the sender's thread is given no fairness: tokio does not let other threads steal
  that slot.  That the tasks go on by themselves is what Pipeline shows of the runtime.
- **Pipeline**: each worker and the stream.  A task's step needs a free worker in its
  guard, so that fairness gives it nothing while there is none.  Requests are answered, one
  way or another (`Traced` or `TraceFails`, `Fetched` or `FetchPanics`).  No fairness of the chain or of the end of the
  subscription.
- **TickWalk**: the one thread there is.  Filter has none, and claims no liveness.

## 6. The proofs

`tlapm <module>` proves every obligation of eight modules, `<component>Proofs`.  The assumptions are the named
`ASSUME`s of the modules, which say of the constants what the code and the chain make of them:
their types, Pipeline's four threads; in StateDb, that what a pool holds fits the widths of its
fields, and that a tick no position refers to has no net liquidity, and that no token keeps its balances in
the cell of its allowances; in Filter, that a
factory has one pool for two tokens and a key, and that 95 percent of `AMOUNT` are a whole
number.  No constant is bounded.

| Theorem | For every |
|---|---|
| `MarketStateProofs!TypeCorrect`, `BlocksInOrder`, `DatabaseCoherent`, `TouchedImplemented`, `BlocksAnnounced` | number of blocks, cells, pools, bodies of blocks, channel size |
| `SearcherProofs!TypeCorrect`, `CacheStaysFresh`, `RatesStayFresh`, `PathsQuotedSinceEvent` | set of pools, reserves, fees and cycles |
| `SearcherProofs!ProfitNotMissed` | reserves and fees of pools in cycles of two hops with WETH as token0 of both; hypotheses `TwoHops`, `RoundingWithin(Slack)` |
| `StateDbProofs!TypeCorrect`, `ReadsAreCurrent`, `CodeIsKept`, `FundsStay`, `TrackedPoolsUpdated` | set of pools and tokens, pools among the tokens, the cells of their balances, states of the pools, widths of the fields, number of blocks |
| `PipelineProofs!TypeCorrect`, `BlocksTradedOnce` | number of blocks, channel size, number of threads from 4 |
| `SubmissionProofs!TypeCorrect`, `OptimizerSafe`, `NoncesInOrder`, `OutboxImplemented` | set of paths and markets, table of quotes, number of tries |
| `FlashSwapProofs!TypeCorrect`, `NothingKept`, `LeftAlone` | set of pools, fees, paths of any length, inputs, loans by anybody |
| `FlashSwapProofs!PromiseKept` | the same; hypothesis `FeesAgree` |
| `GraphProofs!TypeCorrect`, `OnlyCycles`, `EveryCycle`, `NoCycleTwice` | set of pools, tokens per pool, balances, `max_hops` |
| `FilterProofs!TypeCorrect`, `PoolsPassAlone`, `PassingIsDeep`, `SamePoolsAfterRestart` | set of tokens and pools, reserves, fees, access lists, rankings, page size |

Each is of the form `Spec => []P`, from `IndInv` of the module, by `Init => IndInv` and
`IndInv /\ [Next]_vars => IndInv'`, a step per action; an action property is drawn from the
step that may break it, a refinement from `[Next]_vars` mapping to a step or none.  Two have a
hypothesis on the constants besides the `ASSUME`s, which says where the property holds and is
part of the result:

- `FeesAgree`: FlashQuoter and FlashSwap know the same fee of every V2 pool.  They do for the
  factories that both name; where they do not, section 7 has what happens.
- `TwoHops` is what `generate_cycles` produces, for pools in which WETH is token0 and tokens
  that `scale_to_rate` need not cut off (at most 18 decimals; the two pools have the same two
  tokens, so the same decimals).  With WETH as token1 the rates are stored under each other's
  token (divergence 3), and an estimate says little.  `RoundingWithin(n)` bounds, pool state by
  pool state, what the estimate loses in its four divisions by `n` units of the output.  TLC
  evaluates both for the pools of `MCSearcher` (its `ASSUME`), where `n` is 4 by this bound; the
  run finds that 1 is enough there.

- **MarketState**: `IndInv` is `TypeOK`, `ChainInv`, `ProgressInv`, `AppliedInOrder` and
  `Coherence`.  `ProgressInv` ties the updater's control point to the last applied block
  (`Done`): without it a second application of a block cannot be excluded.  `ChainInv`
  says that a block's state is its predecessor's with its diffs, and is what makes
  `Coherence` inductive: if `db[c]` has the value of some block `v` between `Done` and the
  tip, then after block `b` is applied it has that of `max(v, b)`, *or* `b` wrote it.  In
  the second case, with `v > b`, an older value replaces a newer one, but it is then that
  of block `b`, which `Done` has become.  If `b` did not write the cell, it has not changed
  between the last block and `b`.  A write that was not shown to the bot, whether cleared
  or of an untraced transaction, breaks this until a later write repairs it:
  `FinalWriteCaptured` says exactly when.  `StreamInv` carries `EveryStreamedBlockAnnounced`:
  nothing is announced in the catch-up, to which the updater never goes back, and after it
  every application but the one in hand (`Unsent`) has its event.  `TouchedImplemented` is about
  contents, not only about numbers of blocks: `FlagInv` says where the updater is when the
  search may start, `UnnamedUntouched` that the overlay of the traces leaves a pool that
  `update_state` does not return as it was, and `ReadThrough` only adds to what is held.
- **Searcher**: `Types`, `CacheFresh`, `RatesFresh`, with `StoreFresh` and `BackFresh` for the
  output, and the first of two quotes, that the thread holds between two locks.  The
  point is `Pending`: a change the searcher has not been told of excuses a stale entry, and
  receiving the event, which removes the excuse, also removes the entry.  `QuoteInv` carries
  `QuotedSinceEvent`, which is about blocks instead of the present state: the events number
  the blocks without a gap (`EventsNumbered`), each names all the pools its block changed
  (`EventsComplete`), so that what survives an invalidation is a quote of the event's own
  block (`CalculatedSinceEvent`).  `ProfitNotMissed` compares a path's real output with its estimate.
  The estimate of the second pool is taken at what that pool gives for the input, `y`, and not at
  what the first pool delivers, `x`.  If `x >= y`, the curve is concave (`Concave`): the pool gives
  for `x` at most `x / y` times what it gives for `y`, which is the estimate but for rounding
  (`RoundingOf`, `EstimateCovers`).  If `x < y`, the path gives at most what going there
  and back in one pool does (`Monotone`, `ThereAndBack`), and that is no profit.  Neither
  would help if the rates were old: with no change on its way, `RatesFresh` says that they are of
  the present state.  `TypeCorrect` rests on a lemma that outputs and rates are
  natural numbers, whatever reserves and fees are.
- **StateDb**: `CellsInv` says that each cached cell has, in the fields that the readers take
  from it (`SameFields`), what the chain held at the last applied block or at a later one.
  Fields, because the three writers do not write the same word: the snapshot leaves out the
  timestamp, the oracle's fields and the gross liquidity, and reading recovers only what
  packing keeps within the widths; the lemmas on packing and unpacking, with its signed
  fields, are the larger part of the proof.  At the tip the blocks in between are none, and
  `PoolsRead` follows.  `StartInv` says that none of a pool's own cells is there before it is added, even if it has an
  account, as a token.  `add_pool` then replaces that account, and with it the token's funds: why
  `QuoterFunded` is about tokens that are no pools.  That the balance is in the token's own cell
  is not true of every token (section 7).  `CodeInv`
  follows the code as a commit moves it from the account to the contracts, and a load finds
  it there by its hash.  The blocks of this module clear no cell (`ChainInv`): what a cleared
  cell, which the trace leaves out, does to the database is MarketState's matter, and
  divergence 2 of section 7.
- **Graph**: `TypeOK` ties frames, path and visited tokens together.  `SearchInv` says that
  every cycle is found or still to come, and none is both; `ToCome(s)`: some call on the stack
  agrees with `s` up to its depth and has not come to its next edge.  `Descend` hands what is to
  come to the new call, `CloseCycle` moves one cycle over.  When no call is left none is to
  come, and that is completeness; that none is both is why no cycle is found twice.
- **Filter**: `SelectInv` is the loop's invariant, `filtered_pools` is `Selection` without the
  pools not tried yet, whatever the order.  It needs `TrialInv` (what the first swap gave is
  what the pool's own reserves give) and `DatabaseInv` (the database differs from the node in
  balances of slots the code found, and in approvals: never in reserves).  `ChosenInv` ties
  the first result to the file, which no later start writes: if it was cut short, no later start
  gets through.  That what passes is deep is
  arithmetic, `RoundTrip`: 95 percent come back only from 38 times the amount.
- **Submission**: `HandedOver` (every `ValidPath` is posted, in hand or queued, and `nonce`
  counts those that left the queue) carries `PostedInOrder`, and with it `OutboxImplemented`,
  `Spec => Out!Steps`: initial states map to initial states, and each step to `Send`, `Post`
  or none; the delivery, which needs fairness, stays with TLC.  `BestSoFar` (the best quote is
  one of those had, and pays if the input was raised) carries `RaisedInputPays`.
- **Pipeline**: `AtSearcher`, `AtSimulator` and `AtSender` say, hop by hop, that the block a
  worker has in hand is later than all it has sent on and earlier than all that waits for it.
  `TradedOncePerBlock` alone says nothing of the queues; the three together are an order
  along the whole pipeline that each hop hands to the next.  `TypeOK` includes `FreeWorker`:
  the tasks that can block are three, whatever they do.
- **FlashSwap**: `Restorable` (what a revert restores is itself a good state) and `Settled`
  (where the control is, what is held and approved covers what is owed) carry
  `WethForwarded`.  Lemmas bound the outputs of the swaps, so that no balance or reserve
  goes below zero.  `Kept` carries `NoTokenSpent`: at each point of a transaction, what the
  contract holds beyond the amount in the transaction's own hand (`InHand`, which at a call-back
  is in two tokens) is at least what it held before.  It holds of a loan of WETH by anybody; a
  loan of another token pays out all of that token, and a callback by anybody any of it, so that
  what is left in the contract is only safe from its own arbitrages.  `Follows` carries `QuoteKept`: after `n`
  swaps the transaction is `Ahead` of the world that the quoter's loop came to after `n` rounds,
  with the same reserves, token and amounts, and no less of any token (it has what earlier
  transactions left); in a call-back it is ahead of that world half way through a round.  So
  wherever the quoter's round went through, no guard of the transaction's swap fails
  (`SwapV2Pool`, `SwapV3Pool` and the call-back), and an amount that covers
  the debt in the quote covers it in the transaction.  That the quoter's table has an entry for every round, a world or
  none, is an induction on the number of rounds, made with the least number that
  fails (`NatMin`).

**Model-checked only.**  All liveness properties (`HeadersHandled`, `WindDown`,
`EventuallyCurrent`, `SpinEnds`, `Settles`, `AcceptedLands`, `MonitorsEnd`, the delivery in
`ImplementsOutbox`): the provers do not handle ENABLED and fairness.  And TickWalk: its `TypeOK`
equates the liquidity with a sum over a set of ticks, its `Answers` is a liveness property that
compares the walk with a fold; what a fold of the library computes for every argument is an
induction over data with an operator as parameter, out of the provers' reach.  Every other
invariant and action property that a run checks is also a theorem.  There are no RECURSIVE
operators.

## 7. Where code and comments disagree

With a counterexample (the violation runs; quotes and lines in `PROJECT.json`):

1. `market_state_gap`: blocks mined between the last look at the head and the subscription
   are never applied (ignition.rs:34 "so we don't miss any blocks").
2. `market_state_trace`: a cleared slot, or a transaction that fails to trace, leaves an old
   value behind an applied block (market_state.rs:176 "all post state changes").
3. `searcher_rates`: with WETH as token1, the two rates of a pool are stored under each
   other's token.

Seen while modelling, without a run:

- Cache entries are found by pool and amount (cache.rs:24), without the direction: when amounts
  meet, the output of the other direction is used.  `CacheFresh` and `QuotedSinceEvent`
  are stated for either direction.
- A path whose quote is below its input is sent on (simulator.rs:59; :18 "determine if they are
  actually viable").
- The quoter has a default fee for factories it does not know, the contract 0
  (FlashSwap.sol:146): a pool of such a factory is quoted well and reverts.
- `executeOperation` does not look at its initiator, and `uniswapV3SwapCallback` at its caller
  (FlashSwap.sol:73, :194): tokens that a V3 pool did not take are in the contract for anybody.
  WETH is not: `WethForwarded` holds with both entry points open.
- With three or fewer worker threads the system can come to a stand, see the bounds of
  Pipeline.
- The file of tokens is created before it is filled (filter.rs:133): killed in between, every
  later start panics until the file is removed.  An error of the
  last flush, when the `BufWriter` is dropped in `to_writer` (filter.rs:137), is lost: the
  run goes on with the list it has, over a file that no later start can read.  That none works
  with a shorter list is what `RestartKeepsPools` shows.
- A page that is answered with an error status is left out (filter.rs:184), and the partial list
  is cached for good.
- Pools without WETH are tested with the same number of raw units of token0, whatever its
  decimals and worth (filter.rs).
- A lagged receiver ends `update_gas` too (gas_station.rs:34 "Continuously update the gas
  fees"), after which every bid is made of the last fee.
- A lagged receiver ends the updater for good, though it could go on from the next header
  (market_state.rs:135).
- `optimize_input` keeps the last try whose output is higher and pays, not the one that gains
  most (quoter.rs:199).
- Cells of accounts that are not pools stay as first loaded (market_state.rs:52 calls the
  whole "the current state").
- A path is blacklisted for good on one failed quote (simulator.rs:94).
- The warm-up's quote is encoded twice (market_state.rs:264), so that it loads nothing of what
  the comment at :204 says it does; it also funds the account with the first token of a
  pool only, so that WETH, which the quotes pay in, has to be the first token of some pool.
- One cell, in the mapping at slot 3, is written for the first token of every pool, whether or not
  it keeps its balances there (market_state.rs:214; :228 "give some balance of the input token"):
  in the instance of `MCStateDb` one token does not, and has no balance.  This touches only the
  swap that warm-up simulates for the pool: quotes pay in WETH, which has its balances there.
- `add_pool` replaces the account of a pool that is also a token (the shares of a V2 pool), and
  with it what warm-up wrote for the token (blockstate_db.rs:118).
- Curve pools get their edges without the test of balances that the comment names
  (graph.rs:105, :109).
- The tick spacing is kept in slot 14, which on chain is an observation of the V3 pool
  (v3_db.rs:184); a block that writes it changes the spacing.  `slot0` is inserted with
  cardinality 0.
- `insert_account_storage` does not use its insertion type; the `None` branches of `basic` are
  never taken, since `basic_ref` does not return `None`.
- `Cache::set` and `Calculator::invalidate_cache` are called and not defined.

## 8. What is not modelled, and the plan

Not modelled, and why: the **historical database** is not used by the workers; **bindings**
and byte code have no behaviour of their own.  Partly modelled:

- the **pool mathematics**: the constant product and the walk of the concentrated liquidity.
  The stable, weighted, Curve and Maverick curves are fixed point arithmetic on 256 bits with
  next to no control flow, called with placeholder arguments, and what is worth
  asking of them (convergence, rounding) depends on numbers no small instance has;
- the **estimator**: rates of pools with WETH only, which are all a two-hop cycle has; the
  aggregated rates of other pools, which are added to and divided at every event without a reset
  (estimator.rs:249), reach no estimate of a cycle the code generates;
- the **calculator**'s dispatch over pool types that the quotes are tables of;
- the **contracts**: transfers of tokens to the contract from outside, contracts that are no pools
  in a path, and calls of its entry points from within a swap are left out: pools are genuine, and
  the paths of others are those of `Paths`;
- the **state database**: no nonces, balances of ether or block hashes, which no quote depends
  on; cells of accounts that are not pools are cached for ever (section 7), which Coherence
  leaves out by being about tracked pools;
- the **worker start-up**: the sync of pools in main.rs is a library's.

The order of the work was: the market state first, because everything else trusts it, then
the searcher, the submission, the contracts, and the two parts that stand alone; then the
workers together, what the submission promises as an abstract specification, the pool filter
and the tick walk.  What comes next:

1. **Theorems**: the invariant of the tick walk, with the sum over ticks as a function of the
   tick instead of a fold; a bound on rounding from reserves and decimals alone, in place of
   `RoundingWithin`.
2. **Abstractions**: Pipeline's hops as queues.
3. **Estimator**: aggregated rates, for cycles of three hops, should the code generate them.
4. **Restart**: the nonce taken from the node at start-up with transactions in flight; the tick
   spacing, which the code keeps in a slot that traces overwrite.
